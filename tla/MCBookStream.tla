----------------------------- MODULE MCBookStream -----------------------------
(* BookStream with one market and one or two watchers of its book, each with  *)
(* room for two resubscribe goroutines at a time.                             *)
EXTENDS BookStream

CONSTANTS K1, a, b, a1, a2, b1
OneMarket == [s \in {a} |-> K1]
TwoWatchers == [s \in {a, b} |-> K1]
Goroutines == [w \in {a1, a2} |-> a]
GoroutinesOfTwo == [w \in {a1, b1} |-> IF w = b1 THEN b ELSE a]
=============================================================================
