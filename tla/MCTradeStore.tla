----------------------------- MODULE MCTradeStore -----------------------------
(***************************************************************************)
(* Bounds for TradeStore: two writers of one day, minute and second        *)
(* buckets.  The writers are interchangeable.                              *)
(***************************************************************************)
EXTENDS TradeStore, TLC

CONSTANTS w1, w2

TwoWriters == {w1, w2}
OneDay     == {1}
TwoLengths == {1, 60}
Symmetry   == Permutations(TwoWriters)
=============================================================================
