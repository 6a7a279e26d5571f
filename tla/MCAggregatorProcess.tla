------------------------ MODULE MCAggregatorProcess ------------------------
(***************************************************************************)
(* Instances of AggregatorProcess for TLC.                                 *)
(***************************************************************************)
EXTENDS AggregatorProcess

(* Two exchanges that quote at the same price. *)
MCTwo == <<"BINANCE", "KRAKEN">>

(* One exchange only. *)
MCOne == <<"BINANCE">>
=============================================================================
