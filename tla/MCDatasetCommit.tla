---------------------------- MODULE MCDatasetCommit ----------------------------
(***************************************************************************)
(* Bounds for DatasetCommit: four times in two partitions; batches with a  *)
(* gap, batches that overlap, a revised value, a batch that spans both     *)
(* partitions and one that is rejected.                                    *)
(***************************************************************************)
EXTENDS DatasetCommit, TLC

Partition == <<1, 1, 1, 2>>

Early   == {<<1, "a">>, <<3, "a">>}
Revised == {<<1, "b">>, <<2, "b">>}
Across  == {<<2, "a">>, <<4, "a">>}
Late    == {<<4, "a">>}
Bad     == {<<2, "bad">>}

AllKinds ==
  [k \in {"month", "tail", "rows", "oi", "funding"} |-> {Early, Revised, Across, Bad}] @@
  [k \in {"bybit_trades", "usdm_trades"} |-> {Early, Revised, Late, Bad}]
OpenInterest == [oi |-> {Early, Late}]
Rejects == {Bad}
=============================================================================
