--------------------------- MODULE MCRealtimeSession ---------------------------
(***************************************************************************)
(* Bounds for RealtimeSession: two producers of two envelopes each over a  *)
(* queue of one, so that every push but the first can block, and two       *)
(* closers, so that close_session can be called while it drains.           *)
(***************************************************************************)
EXTENDS RealtimeSession

CONSTANTS p1, p2, c1, c2

MCProducers  == {p1, p2}
MCClosers    == {c1, c2}
MCOneCloser  == {c1}
=============================================================================
