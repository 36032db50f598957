----------------------------- MODULE MCRetention ------------------------------
(***************************************************************************)
(* Bounds for Retention: one artifact, which holds, a gap and a trade may  *)
(* protect; managers are interchangeable, and sweepers are.  The run that  *)
(* refutes HoldsProtect has holds only.                                    *)
(***************************************************************************)
EXTENDS Retention, TLC

CONSTANTS m1, m2, s1, s2, a1, g1

OneArtifact  == {a1}
TwoManagers  == {m1, m2}
TwoSweepers  == {s1, s2}
OneGap       == {g1}
OneTrade     == {1}
None         == {}
NoNames      == [x \in None |-> {}]
GapNames     == [g \in OneGap |-> {a1}]
TradeNames   == [t \in OneTrade |-> {a1}]
OneTarget    == {{a1}}
Symmetry     == Permutations(TwoManagers) \cup Permutations(TwoSweepers)
=============================================================================
