-------------------------- MODULE MCBookAnalytics --------------------------
(***************************************************************************)
(* An instance of BookAnalytics for TLC.                                   *)
(***************************************************************************)
EXTENDS BookAnalytics

(* 101 is 1% above 100 and 110 is 10% above it: the shifted prices of two   *)
(* of the bands are prices of the book.                                    *)
MCBps == <<400, 1000, 100>>

(* How 100, 101 and 110 * (1 + bps / 10'000.) are rounded: 100 * 1.01 is    *)
(* 101, but 100 * 1.1 is 110.00000000000001.                               *)
MCRounding(side, best, bps) ==
    CASE best = 100 -> IF side = "ASK" /\ bps = 1000 THEN 1 ELSE 0
      [] best = 101 -> IF side = "ASK" \/ bps = 1000 THEN 1 ELSE -1
      [] best = 110 -> IF bps = 1000 THEN IF side = "ASK" THEN 1 ELSE 0
                       ELSE IF (side = "ASK") = (bps = 400) THEN 1 ELSE -1

(* The second value is more than some books hold, and its label is rounded; *)
(* with quantities of 5 and 10 the last value is exactly the notional of a  *)
(* level, and it is the first one to have the unit K.                      *)
MCNotionals == <<950, 2533, 1000>>
=============================================================================
