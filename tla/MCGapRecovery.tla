----------------------------- MODULE MCGapRecovery -----------------------------
(***************************************************************************)
(* Bounds for GapRecovery: see the README for what each one lets happen.   *)
(***************************************************************************)
EXTENDS GapRecovery

AllEndpoints  == {"historicalTrades", "aggTrades", "recent-trade", "unsupported"}
BybitEndpoint == {"recent-trade"}
BinanceSpot   == {"historicalTrades"}
=============================================================================
