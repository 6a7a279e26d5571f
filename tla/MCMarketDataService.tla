------------------------ MODULE MCMarketDataService ------------------------
(***************************************************************************)
(* An instance of MarketDataService for TLC.                               *)
(***************************************************************************)
EXTENDS MarketDataService
=============================================================================
