---------------------------- MODULE MCRateLimiter ----------------------------
(* RateLimiter with two goroutines, windows of two seconds and small budgets. *)
EXTENDS RateLimiter, TLC

Budgets == [w \in Windows |-> IF w \in {"weighted", "txType"} THEN 2 ELSE 1]
Weights == [k \in Reads \cup {"send"} |-> IF k = "send" THEN 1 ELSE 2]
Interchangeable == Permutations(Threads)
=============================================================================
