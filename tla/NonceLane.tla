------------------------------ MODULE NonceLane ------------------------------
(***************************************************************************)
(* One sequential nonce lane (internal/nonce/lane.go) under the engine's   *)
(* Send and SendBatch (internal/engine/engine.go).                         *)
(*                                                                         *)
(* Every element of Sends is one call of Engine.Send or Engine.SendBatch:  *)
(* a goroutine that runs the function once.  A lane send takes the lane's  *)
(* send mutex, reserves Size[s] nonces, transmits, and reports the outcome *)
(* to the lane before the mutex is released.  A send of Explicit carries   *)
(* its own nonce (SendOptions.Nonce # 0): it takes no lock, and the lane   *)
(* hears nothing of it.                                                    *)
(*                                                                         *)
(* The exchange is external: it keeps the account's next nonce, takes a    *)
(* request only at that nonce, and answers.  A request can be lost, can be *)
(* overtaken, and can reach the exchange after its caller gave up.         *)
(***************************************************************************)
EXTENDS Integers, FiniteSets

CONSTANTS
  Sends,        \* the calls of Send / SendBatch of a behaviour
  Explicit,     \* those with opts.Nonce # 0
  Size,         \* transactions in a call (1: Send)
  Nonces,       \* the nonces a caller may pass explicitly
  Seeds,        \* the values the application may pass to Lane.Seed
  AtomicBatch,  \* does the exchange take a batch as a whole or not at all?
  None          \* no holder of the send mutex

ASSUME SendsAssumption ==
  /\ Explicit \subseteq Sends
  /\ Size \in [Sends -> Nat \ {0}]
  /\ Nonces \subseteq Nat \ {0}
  /\ Seeds \subseteq Nat
  /\ AtomicBatch \in BOOLEAN
  /\ None \notin Sends

VARIABLES
  next,      \* Lane.next
  sendMu,    \* the holder of Lane.sendMu
  pc,        \* where each call stands
  seen,      \* the local `current` of Acquire, `next` of sync
  resv,      \* Reservation.Nonce
  told,      \* what the call returned to its caller
  wire,      \* the sends whose request is on its way to the exchange
  reply,     \* the answer on its way back
  expected,  \* the exchange: next nonce of the key
  ledger,    \* the exchange: the transactions it took, [nonce, send]
  foreign    \* history: nonces consumed since the lane's last read of
             \* nextNonce by anyone but the holder of the send mutex

laneVars == <<next, sendMu>>
callVars == <<pc, seen, resv, told>>
exchVars == <<expected, ledger, foreign>>
vars == <<next, sendMu, pc, seen, resv, told, wire, reply, expected, ledger, foreign>>

Unknown == -1                                     \* unknownNonce
PCs     == {"start", "load", "fetch", "store", "swap", "prepare", "wait", "done"}
Answers == {"none", "ok", "nonce", "reject"}
Outcomes == {"Accepted", "Rejected", "NonceError", "Unknown"}
Lane    == Sends \ Explicit

\* The first k transactions of call s at the nonces from n on; those the exchange took of it.
Entries(s, n, k) == {[nonce |-> i, send |-> s] : i \in n .. (n + k - 1)}
Taken(s)         == {e \in ledger : e.send = s}

-----------------------------------------------------------------------------
(* Outcomes: outcomeOf and Lane.Release.                                   *)

\* Mutant of OutcomeOf: an answer that never came is taken for a refusal.
OutcomeOfSilentIsRejected(a) ==
  CASE a = "ok"     -> "Accepted"
    [] a = "nonce"  -> "NonceError"
    [] OTHER        -> "Rejected"

\* An answer that the API server gave is definite; anything else (timeout, lost
\* connection, 5xx without a code, unreadable body) leaves the outcome unknown.
OutcomeOf(a) ==
  CASE a = "ok"     -> "Accepted"
    [] a = "nonce"  -> "NonceError"
    [] a = "reject" -> "Rejected"
    [] a = "none"   -> "Unknown"

\* Mutants of Released: an unknown outcome keeps the counter; a rejection does too.
ReleasedKeepsUnknown(s, outcome) ==
  CASE outcome = "Rejected"   -> IF next = resv[s] + Size[s] THEN resv[s] ELSE next
    [] outcome = "NonceError" -> Unknown
    [] OTHER                  -> next
ReleasedNoRollback(s, outcome) ==
  IF outcome \in {"Accepted", "Rejected"} THEN next ELSE Unknown

\* The value of Lane.next after Release(r, outcome).
Released(s, outcome) ==
  CASE outcome = "Accepted" -> next
    [] outcome = "Rejected" -> IF next = resv[s] + Size[s] THEN resv[s] ELSE next
    [] OTHER                -> Unknown

\* The call ends with `result`.  A lane send reports the outcome to the lane
\* and its deferred Unlock runs; an explicit one does neither.
Return(s, outcome, result) ==
  /\ pc' = [pc EXCEPT ![s] = "done"]
  /\ told' = [told EXCEPT ![s] = result]
  /\ IF s \in Lane
       THEN next' = Released(s, outcome) /\ sendMu' = None
       ELSE UNCHANGED laneVars

-----------------------------------------------------------------------------
(* The call.                                                               *)

Init ==
  /\ next = Unknown
  /\ sendMu = None
  /\ pc = [s \in Sends |-> "start"]
  /\ seen = [s \in Sends |-> Unknown]
  /\ resv = [s \in Sends |-> 0]
  /\ told = [s \in Sends |-> "none"]
  /\ wire = {}
  /\ reply = [s \in Sends |-> "none"]
  /\ expected = 0
  /\ ledger = {}
  /\ foreign = 0

\* selectKey or admitSendTx refuses, or a batch has a wrong size: nothing was touched.
Refuse(s) ==
  /\ pc[s] = "start"
  /\ pc' = [pc EXCEPT ![s] = "done"]
  /\ told' = [told EXCEPT ![s] = "error"]
  /\ UNCHANGED <<laneVars, seen, resv, wire, reply, exchVars>>

\* kl.lane.Lock()
Enter(s) ==
  /\ s \in Lane
  /\ pc[s] = "start"
  /\ sendMu = None
  /\ sendMu' = s
  /\ pc' = [pc EXCEPT ![s] = "load"]
  /\ UNCHANGED <<next, seen, resv, told, wire, reply, exchVars>>

\* reservation = Reservation{Nonce: opts.Nonce, ...}
EnterExplicit(s) ==
  /\ s \in Explicit
  /\ pc[s] = "start"
  /\ \E n \in Nonces : resv' = [resv EXCEPT ![s] = n]
  /\ pc' = [pc EXCEPT ![s] = "prepare"]
  /\ UNCHANGED <<laneVars, seen, told, wire, reply, exchVars>>

\* The head of Acquire's loop.
Load(s) ==
  /\ pc[s] = "load"
  /\ seen' = [seen EXCEPT ![s] = next]
  /\ pc' = [pc EXCEPT ![s] = IF next = Unknown THEN "fetch" ELSE "swap"]
  /\ UNCHANGED <<laneVars, resv, told, wire, reply, exchVars>>

\* sync finds the lane synchronised after all (Seed ran in between).
AlreadySynced(s) ==
  /\ pc[s] = "fetch"
  /\ next # Unknown
  /\ pc' = [pc EXCEPT ![s] = "load"]
  /\ UNCHANGED <<laneVars, seen, resv, told, wire, reply, exchVars>>

\* The exchange answers nextNonce; the answer is still on its way.
FetchAnswered(s) ==
  /\ pc[s] = "fetch"
  /\ next = Unknown
  /\ seen' = [seen EXCEPT ![s] = expected]
  /\ foreign' = 0
  /\ pc' = [pc EXCEPT ![s] = "store"]
  /\ UNCHANGED <<laneVars, resv, told, wire, reply, expected, ledger>>

\* l.next.Store(next): unconditional.
StoreFetched(s) ==
  /\ pc[s] = "store"
  /\ next' = seen[s]
  /\ pc' = [pc EXCEPT ![s] = "load"]
  /\ UNCHANGED <<sendMu, seen, resv, told, wire, reply, exchVars>>

\* Mutant of FetchFailed: the error return forgets the send mutex.
FetchFailedKeepsLock(s) ==
  /\ pc[s] \in {"fetch", "store"}
  /\ pc' = [pc EXCEPT ![s] = "done"]
  /\ told' = [told EXCEPT ![s] = "error"]
  /\ UNCHANGED <<laneVars, seen, resv, wire, reply, exchVars>>

\* The query fails or its context ends: Acquire returns the error, the deferred Unlock runs.
FetchFailed(s) ==
  /\ pc[s] \in {"fetch", "store"}
  /\ pc' = [pc EXCEPT ![s] = "done"]
  /\ told' = [told EXCEPT ![s] = "error"]
  /\ sendMu' = None
  /\ UNCHANGED <<next, seen, resv, wire, reply, exchVars>>

\* l.next.CompareAndSwap(current, current+n)
Swap(s) ==
  /\ pc[s] = "swap"
  /\ IF next = seen[s]
       THEN /\ next' = seen[s] + Size[s]
            /\ resv' = [resv EXCEPT ![s] = seen[s]]
            /\ pc' = [pc EXCEPT ![s] = "prepare"]
       ELSE /\ pc' = [pc EXCEPT ![s] = "load"]
            /\ UNCHANGED <<next, resv>>
  /\ UNCHANGED <<sendMu, seen, told, wire, reply, exchVars>>

\* Mutant of PrepareFails: the transactions that did pass are sent all the same.
PrepareFailsAfterSend(s) ==
  /\ pc[s] = "prepare"
  /\ Return(s, "Rejected", "error")
  /\ wire' = wire \cup {s}
  /\ UNCHANGED <<seen, resv, reply, exchVars>>

\* fill or sign fails on one of the transactions: Release(Rejected), nothing sent.
PrepareFails(s) ==
  /\ pc[s] = "prepare"
  /\ Return(s, "Rejected", "error")
  /\ UNCHANGED <<seen, resv, wire, reply, exchVars>>

\* PostForm or postWS puts the request on the wire and waits.
Transmit(s) ==
  /\ pc[s] = "prepare"
  /\ pc' = [pc EXCEPT ![s] = "wait"]
  /\ wire' = wire \cup {s}
  /\ UNCHANGED <<laneVars, seen, resv, told, reply, exchVars>>

\* The exchange's answer reaches the caller.
Answered(s) ==
  /\ pc[s] = "wait"
  /\ reply[s] # "none"
  /\ Return(s, OutcomeOf(reply[s]), OutcomeOf(reply[s]))
  /\ UNCHANGED <<seen, resv, wire, reply, exchVars>>

\* The caller stops waiting (context, timeout, dead socket) or cannot read the
\* answer.  The request may be anywhere: lost, on its way, already taken.
GaveUp(s) ==
  /\ pc[s] = "wait"
  /\ Return(s, OutcomeOf("none"), OutcomeOf("none"))
  /\ UNCHANGED <<seen, resv, wire, reply, exchVars>>

-----------------------------------------------------------------------------
(* The exchange and the network (external).                                *)

\* The holder of the mutex learns of its own transactions; all others are foreign.
Consume(s, k) ==
  /\ expected' = expected + k
  /\ ledger' = ledger \cup Entries(s, expected, k)
  /\ foreign' = IF sendMu = s THEN foreign ELSE foreign + k

Ingest(s) ==
  /\ s \in wire
  /\ resv[s] = expected
  /\ Consume(s, Size[s])
  /\ wire' = wire \ {s}
  /\ reply' = [reply EXCEPT ![s] = "ok"]
  /\ UNCHANGED <<laneVars, callVars>>

\* A batch the exchange does not treat as a whole: it takes the first k
\* transactions and answers with the error of the next one.
IngestPrefix(s) ==
  /\ ~AtomicBatch
  /\ s \in wire
  /\ resv[s] = expected
  /\ \E k \in 1 .. (Size[s] - 1) : Consume(s, k)
  /\ wire' = wire \ {s}
  /\ reply' = [reply EXCEPT ![s] = "reject"]
  /\ UNCHANGED <<laneVars, callVars>>

RefuseNonce(s) ==
  /\ s \in wire
  /\ resv[s] # expected
  /\ wire' = wire \ {s}
  /\ reply' = [reply EXCEPT ![s] = "nonce"]
  /\ UNCHANGED <<laneVars, callVars, exchVars>>

\* Any definite refusal but the nonce: a code, HTTP 429, 405 or 400.
RefuseOther(s) ==
  /\ s \in wire
  /\ wire' = wire \ {s}
  /\ reply' = [reply EXCEPT ![s] = "reject"]
  /\ UNCHANGED <<laneVars, callVars, exchVars>>

Lose(s) ==
  /\ s \in wire
  /\ wire' = wire \ {s}
  /\ UNCHANGED <<laneVars, callVars, reply, exchVars>>

-----------------------------------------------------------------------------
(* The application.                                                        *)

\* Engine.Lane(i).Invalidate(), at any time.
Invalidate ==
  /\ next' = Unknown
  /\ UNCHANGED <<sendMu, callVars, wire, reply, exchVars>>

\* Engine.Lane(i).Seed(v), at any time.
Seed ==
  /\ \E v \in Seeds : next' = v
  /\ UNCHANGED <<sendMu, callVars, wire, reply, exchVars>>

\* Every call has returned and nothing is in flight: the behaviour may end.
Finished ==
  /\ \A s \in Sends : pc[s] = "done"
  /\ wire = {}
  /\ UNCHANGED vars

Client(s) ==
  \/ Refuse(s) \/ Enter(s) \/ EnterExplicit(s) \/ Load(s) \/ AlreadySynced(s)
  \/ FetchAnswered(s) \/ StoreFetched(s) \/ FetchFailed(s) \/ Swap(s)
  \/ PrepareFails(s) \/ Transmit(s) \/ Answered(s) \/ GaveUp(s)

Exchange(s) ==
  Ingest(s) \/ IngestPrefix(s) \/ RefuseNonce(s) \/ RefuseOther(s) \/ Lose(s)

Next ==
  \/ \E s \in Sends : Client(s) \/ Exchange(s)
  \/ Invalidate
  \/ Seed
  \/ Finished

Spec == Init /\ [][Next]_vars

(***************************************************************************)
(* Fairness.  A goroutine that can run does run; a wait for an answer ends *)
(* in GaveUp at the latest when the request's timeout fires, a query in    *)
(* FetchFailed.  The Go mutex hands itself to the longest waiter once it   *)
(* starved for 1 ms, so a waiter is not passed over for ever: strong       *)
(* fairness of Enter.  Nothing is assumed of the exchange.                 *)
(***************************************************************************)
Step(s) ==
  \/ EnterExplicit(s) \/ Load(s) \/ AlreadySynced(s) \/ StoreFetched(s) \/ FetchFailed(s)
  \/ Swap(s) \/ PrepareFails(s) \/ Transmit(s) \/ GaveUp(s)

FairSpec ==
  Spec /\ \A s \in Sends : WF_vars(Step(s)) /\ SF_vars(Enter(s))

-----------------------------------------------------------------------------
(* Properties.                                                             *)

TypeOK ==
  /\ next \in Nat \cup {Unknown}
  /\ sendMu \in Lane \cup {None}
  /\ pc \in [Sends -> PCs]
  /\ seen \in [Sends -> Nat \cup {Unknown}]
  /\ resv \in [Sends -> Nat]
  /\ told \in [Sends -> Outcomes \cup {"none", "error"}]
  /\ wire \subseteq Sends
  /\ reply \in [Sends -> Answers]
  /\ expected \in Nat
  /\ ledger \subseteq [nonce : Nat, send : Sends]
  /\ foreign \in Nat

\* Between sends, a lane that believes it knows its nonce is behind the
\* exchange by exactly the nonces others consumed since its last read of
\* nextNonce: never ahead of it, and not behind when it is alone.  A missed
\* rollback, a missed resynchronisation or a send outside the mutex breaks it
\* (lane.go:229-241 with engine.go:507-573).
LaneTracksAccount ==
  sendMu = None /\ next # Unknown => expected = next + foreign

\* The lane hands out a nonce the exchange refuses only when somebody else
\* used the key meanwhile: a send with an explicit nonce, or an abandoned send
\* that reached the exchange after the lane had read nextNonce.
NonceErrorMeansOvertaken ==
  \A s \in Lane : pc[s] = "wait" /\ reply[s] = "nonce" => foreign > 0

\* What Send and SendBatch return is the truth for good: Accepted means that
\* the exchange took all the transactions at the nonces of the receipt; a
\* rejection or a local error means that it took none, and no request is left
\* on the wire that it could still take (engine.go:462-477, 571-584).
ToldTheTruth ==
  \A s \in Sends :
    /\ told[s] = "Accepted" => Taken(s) = Entries(s, resv[s], Size[s])
    /\ told[s] \in {"Rejected", "NonceError", "error"} => Taken(s) = {} /\ s \notin wire

\* The weaker half of LaneTracksAccount that survives an exchange which takes
\* a prefix of a batch and answers with an error (docs/API-NOTES.md row 20
\* leaves that open): the lane may fall behind, and heals by the nonce error
\* of the next send, but it never runs ahead, where every send would be lost.
LaneNeverAhead ==
  sendMu = None /\ next # Unknown => next <= expected

\* Every call returns, unless the application invalidates the lane for ever:
\* each path of Send and SendBatch gives the send mutex back (the deferred
\* Unlock of engine.go:509, 622), so nobody waits for it for ever.
EveryCallReturns ==
  <>[][~Invalidate]_vars => \A s \in Sends : <>(pc[s] = "done")

\* The contract of Send as its callers see it.
Contract == INSTANCE SubmitOnce WITH ledger <- ledger, expected <- expected, told <- told,
                                    Sends <- Sends, Size <- Size
SubmitsOnce == Contract!Spec
=============================================================================
