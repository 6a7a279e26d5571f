----------------------------- MODULE MCStartup -----------------------------
(***************************************************************************)
(* An instance of Startup for TLC: two exchanges, one of them in two       *)
(* spellings, and the empty text, which names none; each is a path as well.*)
(***************************************************************************)
EXTENDS Startup

MCText == {"", "okx", "Kraken", "kraken"}

MCUpper ==
    [t \in MCText |-> IF t = "" THEN "" ELSE IF t = "okx" THEN "OKX" ELSE "KRAKEN"]

MCLower == [t \in MCText |-> IF t = "Kraken" THEN "kraken" ELSE t]
=============================================================================
