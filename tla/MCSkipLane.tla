------------------------------ MODULE MCSkipLane -----------------------------
(***************************************************************************)
(* Instance of SkipLane for TLC: a batch of two and single sends, a clock  *)
(* that shows four different milliseconds in any order.                    *)
(***************************************************************************)
EXTENDS SkipLane

CONSTANTS s1, s2, s3, s4

Sizes == [s \in Sends |-> IF s = s1 THEN 2 ELSE 1]
Times == 3 .. 6
=============================================================================
