-------------------------- MODULE MCClientSession --------------------------
(***************************************************************************)
(* An instance of ClientSession for TLC: an exchange that is given twice   *)
(* and one that subscribes.                                                *)
(***************************************************************************)
EXTENDS ClientSession

MCExchanges == <<"BINANCE", "KRAKEN", "BINANCE">>
=============================================================================
