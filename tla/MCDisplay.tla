----------------------------- MODULE MCDisplay -----------------------------
(***************************************************************************)
(* An instance of Display for TLC, with the three threads of the           *)
(* aggregator.                                                             *)
(***************************************************************************)
EXTENDS Display, TLC

(* No property tells the threads apart. *)
Symmetry == Permutations(Threads)
=============================================================================
