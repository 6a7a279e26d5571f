------------------------ MODULE MCInternalExchange ------------------------
(***************************************************************************)
(* An instance of InternalExchange for TLC.                                *)
(***************************************************************************)
EXTENDS InternalExchange
=============================================================================
