------------------------------ MODULE TxTracker ------------------------------
(* Receipt <-> outcome correlation (tx-tracker.go).  An Observe records an    *)
(* outcome under t.mu and wakes its waiters after the unlock; an Await looks  *)
(* the hash up or registers a channel of its own, and gives up when its       *)
(* context ends.                                                              *)
(*                                                                            *)
(* A transaction has one outcome, so the map is modelled by the hashes known. *)
(* An observer is the goroutine of a WatchTransactions stream: it reports     *)
(* hashes one after the other, some of them again (a reconnect replays them). *)
(* The channels of one hash are a set: they are woken in any order.           *)
EXTENDS Integers, SequencesExt

CONSTANTS Calls,      \* the Await calls of a behaviour
          Observers,  \* the streams that feed the tracker
          Hashes,
          maxEntries, \* t.maxEntries
          MaxReports  \* bound: outcomes recorded

ASSUME TrackerAssumption == maxEntries \in Nat \ {0} /\ MaxReports \in Nat

VARIABLES outcomes, \* the hashes in t.outcomes
          order, head, \* the ring of hashes, head counted from 0
          waiters,  \* hash -> the calls whose channels are registered
          call,     \* the Await calls: where each is, its hash, its channel, its result
          waking,   \* of each observer: the calls it has still to wake, and with what
          recorded  \* history: the hashes recorded as new, in order
trackerVars == <<outcomes, order, head, waiters, call, waking, recorded>>
ring == <<outcomes, order, head, recorded>>

\* ch is a channel of capacity one: empty or with the outcome of a hash.
TrackerInit ==
  /\ outcomes = {} /\ order = <<>> /\ head = 0 /\ recorded = <<>>
  /\ waiters = [h \in Hashes |-> {}]
  /\ call \in [Calls -> [pc : {"start"}, hash : Hashes, ch : {{}}, result : {"none"}]]
  /\ waking = [o \in Observers |-> [todo |-> {}, with |-> {}]]

At(c, pc) == call[c].pc = pc
Finish(c, result) == call' = [call EXCEPT ![c].pc = "done", ![c].result = result]
-----------------------------------------------------------------------------
(* Observe *)

NextHead == (head + 1) % maxEntries

\* A hash that is new to the map takes the place of the oldest one.
RememberAgain(h) ==
  /\ outcomes' = (IF Len(order) < maxEntries THEN outcomes ELSE outcomes \ {order[head + 1]}) \cup {h}
  /\ recorded' = IF h \in outcomes THEN recorded ELSE Append(recorded, h)
  /\ IF Len(order) < maxEntries
     THEN order' = Append(order, h) /\ UNCHANGED head
     ELSE order' = ReplaceAt(order, head + 1, h) /\ head' = NextHead
Remember(h) ==
  IF h \in outcomes THEN UNCHANGED ring
  ELSE /\ recorded' = Append(recorded, h)
       /\ IF Len(order) < maxEntries
          THEN /\ outcomes' = outcomes \cup {h} /\ order' = Append(order, h)
               /\ UNCHANGED head
          ELSE /\ outcomes' = (outcomes \ {order[head + 1]}) \cup {h}
               /\ order' = ReplaceAt(order, head + 1, h) /\ head' = NextHead

\* Under t.mu; an outcome that is still pending changes nothing.
Record(o, h) ==
  /\ waking[o].todo = {} /\ Len(recorded) < MaxReports
  /\ Remember(h)
  /\ waking' = [waking EXCEPT ![o] = [todo |-> waiters[h], with |-> {h}]]
  /\ waiters' = [waiters EXCEPT ![h] = {}]
  /\ UNCHANGED call

\* waiting[i] <- *outcome, after the unlock: it blocks while the channel is full.
Wake(o) ==
  /\ \E c \in waking[o].todo :
       /\ call[c].ch = {}
       /\ call' = [call EXCEPT ![c].ch = waking[o].with]
       /\ waking' = [waking EXCEPT ![o].todo = @ \ {c}]
  /\ UNCHANGED <<ring, waiters>>
-----------------------------------------------------------------------------
(* Await *)

EnterBlind(c) ==
  /\ At(c, "start")
  /\ call' = [call EXCEPT ![c].pc = "wait"]
  /\ waiters' = [waiters EXCEPT ![call[c].hash] = @ \cup {c}]
  /\ UNCHANGED <<ring, waking>>
\* The lookup and the registration are one critical section.
Enter(c) ==
  /\ At(c, "start")
  /\ IF call[c].hash \in outcomes
     THEN Finish(c, "outcome") /\ UNCHANGED waiters
     ELSE /\ call' = [call EXCEPT ![c].pc = "wait"]
          /\ waiters' = [waiters EXCEPT ![call[c].hash] = @ \cup {c}]
  /\ UNCHANGED <<ring, waking>>

Receive(c) == /\ At(c, "wait") /\ call[c].ch # {}
              /\ call' = [call EXCEPT ![c].pc = "done", ![c].ch = {}, ![c].result = "outcome"]
              /\ UNCHANGED <<ring, waiters, waking>>

\* The context ends, possibly with the outcome in the channel: the select may
\* take either.
ContextDone(c) == /\ At(c, "wait") /\ call' = [call EXCEPT ![c].pc = "remove"]
                  /\ UNCHANGED <<ring, waiters, waking>>
Leave(c) == /\ At(c, "remove") /\ Finish(c, "error")
             /\ waiters' = [waiters EXCEPT ![call[c].hash] = @ \ {c}]
             /\ UNCHANGED <<ring, waking>>

Await(c) == Enter(c) \/ Receive(c) \/ ContextDone(c) \/ Leave(c)
Observe(o) == Wake(o) \/ \E h \in Hashes : Record(o, h)
TrackerNext == (\E c \in Calls : Await(c)) \/ (\E o \in Observers : Observe(o))
TrackerSpec == TrackerInit /\ [][TrackerNext]_trackerVars
-----------------------------------------------------------------------------
TrackerTypeOK ==
  /\ outcomes \subseteq Hashes /\ order \in Seq(Hashes) /\ Len(order) <= maxEntries
  /\ head \in 0..(maxEntries - 1) /\ recorded \in Seq(Hashes)
  /\ waiters \in [Hashes -> SUBSET Calls]
  /\ call \in [Calls -> [pc : {"start", "wait", "remove", "done"}, hash : Hashes,
                         ch : {{}} \cup {{h} : h \in Hashes}, result : {"none", "outcome", "error"}]]
  /\ waking \in [Observers -> [todo : SUBSET Calls, with : {{}} \cup {{h} : h \in Hashes}]]

(* tx-tracker.go:16 "Outcomes are kept in a bounded map (the oldest entries   *)
(* are evicted when it is full)": the map holds the last maxEntries hashes    *)
(* that were new when they were recorded, no matter which were repeated.      *)
RingIsNewest ==
  LET n == Len(recorded) IN
  outcomes = {recorded[i] : i \in (IF n > maxEntries THEN n - maxEntries + 1 ELSE 1)..n}

(* An outcome recorded while somebody waits for it is on its way to him: in   *)
(* his channel, or in the hands of an observer, and no other outcome ever is. *)
(* And "Observe must stay cheap: a non-blocking wake-up of waiters" (:20):    *)
(* every channel is registered once and sent to once, so no observer is ever  *)
(* held up by an Await, nor a channel left behind by one.                     *)
InHand(c) == call[c].ch # {} \/ \E o \in Observers : c \in waking[o].todo
Registered(c) == c \in waiters[call[c].hash]
NobodyForgotten ==
  /\ \A c \in Calls : At(c, "wait") =>
       IF Registered(c) THEN call[c].hash \notin outcomes ELSE InHand(c)
  /\ \A c \in Calls : Registered(c) => call[c].pc \in {"wait", "remove"} /\ ~InHand(c)
  /\ \A o \in Observers : \A c \in waking[o].todo : call[c].ch = {}
  /\ \A c \in Calls : call[c].ch \subseteq {call[c].hash}
=============================================================================
