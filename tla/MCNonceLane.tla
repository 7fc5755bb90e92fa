----------------------------- MODULE MCNonceLane ----------------------------
(***************************************************************************)
(* Instances of NonceLane for TLC.                                         *)
(***************************************************************************)
EXTENDS NonceLane, TLC

CONSTANTS s1, s2, s3, x1   \* model values

\* s1 is a batch of two, every other call a single send; x1 passes its own nonce.
BatchOfTwo     == [s \in Sends |-> IF s = s1 THEN 2 ELSE 1]
ExplicitNonces == 1 .. 2

\* The two single sends are interchangeable.
Interchangeable == Permutations({s2, s3})
=============================================================================
