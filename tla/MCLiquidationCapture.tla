-------------------------- MODULE MCLiquidationCapture --------------------------
(***************************************************************************)
(* Bounds for LiquidationCapture.  Each venue may send a frame of one day, *)
(* one that touches another day, and one its parser rejects; Bybit also    *)
(* one without events.                                                     *)
(***************************************************************************)
EXTENDS LiquidationCapture, TLC

BinanceFrames == [binance |-> {"a", "b", "alien"}]
BybitFrames   == [bybit |-> {"a", "ab", "empty", "bad"}]
BothVenues    == BinanceFrames @@ BybitFrames

FrameVerdict ==
  [f \in {"a", "b", "ab", "empty", "alien", "bad"} |->
     CASE f = "alien" -> "WRONG_SYMBOL" [] f = "bad" -> "INVALID_SOURCE_MESSAGE" [] OTHER -> "ok"]

FrameDays ==
  [f \in {"a", "b", "ab", "empty", "alien", "bad"} |->
     CASE f = "b" -> <<2>> [] f = "ab" -> <<1, 2>> [] f = "empty" -> <<>> [] OTHER -> <<1>>]
=============================================================================
