------------------------------ MODULE SubmitOnce -----------------------------
(***************************************************************************)
(* What Engine.Send and Engine.SendBatch promise their callers (the        *)
(* comments of engine.go:479-492 and 586-591): a call's transactions enter *)
(* the account's ledger at most once, together and at consecutive nonces;  *)
(* success says that they did, a rejection that they did not and never     *)
(* will; only an unknown outcome leaves it open.                           *)
(***************************************************************************)
EXTENDS Integers

CONSTANTS Sends, Size

VARIABLES ledger, expected, told

avars == <<ledger, expected, told>>

Refusals == {"Rejected", "NonceError", "error"}

Entered(s) == \E e \in ledger : e.send = s

Init ==
  /\ ledger = {}
  /\ expected = 0
  /\ told = [s \in Sends |-> "none"]

\* The exchange takes the transactions of a call that was not refused, once.
Take(s) ==
  /\ told[s] \notin Refusals
  /\ ~Entered(s)
  /\ ledger' = ledger \cup
       {[nonce |-> k, send |-> s] : k \in expected .. (expected + Size[s] - 1)}
  /\ expected' = expected + Size[s]
  /\ UNCHANGED told

\* The call returns.
Tell(s, result) ==
  /\ told[s] = "none"
  /\ result = "Accepted" => Entered(s)
  /\ result \in Refusals => ~Entered(s)
  /\ told' = [told EXCEPT ![s] = result]
  /\ UNCHANGED <<ledger, expected>>

Next ==
  \E s \in Sends :
    \/ Take(s)
    \/ \E result \in Refusals \cup {"Accepted", "Unknown"} : Tell(s, result)

Spec == Init /\ [][Next]_avars
=============================================================================
