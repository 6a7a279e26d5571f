------------------------- MODULE MCMarketDataQueue -------------------------
(***************************************************************************)
(* An instance of MarketDataQueue for TLC.                                 *)
(***************************************************************************)
EXTENDS MarketDataQueue
=============================================================================
