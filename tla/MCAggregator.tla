---------------------------- MODULE MCAggregator ----------------------------
(***************************************************************************)
(* An instance of Aggregator for TLC.                                      *)
(***************************************************************************)
EXTENDS Aggregator
=============================================================================
