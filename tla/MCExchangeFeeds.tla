-------------------------- MODULE MCExchangeFeeds --------------------------
(***************************************************************************)
(* An instance of ExchangeFeeds for TLC.                                   *)
(***************************************************************************)
EXTENDS ExchangeFeeds
=============================================================================
