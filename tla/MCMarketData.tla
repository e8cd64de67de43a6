---------------------------- MODULE MCMarketData ----------------------------
(* Small instances of MarketData for TLC. *)
EXTENDS MarketData, TLC

CONSTANTS r1, c1, c2

MCKinds == {"price", "candles"}
=============================================================================
