----------------------------- MODULE RateLimiter -----------------------------
(* The client's rate-limit accounting (internal/ratelimit) as the engine uses *)
(* it with RejectWhenRateLimited: Admit before a request, Account after its   *)
(* answer.  Nothing is locked: a window is a ring of one-second buckets, each *)
(* one atomic word, and the cooldown is another.                              *)
(*                                                                            *)
(* A thread is a goroutine that makes one request after the other.  A send    *)
(* whose nonce lane has to synchronise reads nextNonce on the way: after it   *)
(* was admitted and before it goes out.  Sums over a ring are one step: a     *)
(* bucket that changes under the loop is seen before or after the change,     *)
(* like a slightly earlier or later reading.                                  *)
EXTENDS Integers, Sequences, FiniteSetsExt

CONSTANTS Threads,
          Tiers,          \* account tiers: "standard" (with builder), "premium" (with plus)
          WindowSeconds,  \* the length of the windows (60)
          Limit,          \* the budget of each window
          Reads,          \* endpoints that are read, "nextNonce" among them
          Weight,         \* the weight of an endpoint: one of Reads, or "send"
          DefaultWeight,
          FirewallSeconds,\* FirewallCooldownSeconds
          Batches,        \* transactions in a send, up to MaxBatchSizeREST
          MaxRequests,    \* bound: requests of a behaviour
          MaxSecond       \* bound: seconds on the clock

Windows == {"weighted", "requests", "sendTx", "txType"}

ASSUME LimiterAssumption ==
  /\ Tiers \subseteq {"standard", "premium"} /\ WindowSeconds \in Nat \ {0}
  /\ Limit \in [Windows -> Nat \ {0}] /\ Weight \in [Reads \cup {"send"} -> Nat \ {0}]
  /\ IsFiniteSet(Reads) /\ "nextNonce" \in Reads /\ "send" \notin Reads
  /\ DefaultWeight \in Nat \ {0} /\ FirewallSeconds \in Nat \ {0}
  /\ Batches \subseteq Nat \ {0} /\ IsFiniteSet(Batches)
  /\ Threads # {} /\ IsFiniteSet(Threads) /\ MaxRequests \in Nat
  /\ MaxSecond \in Nat /\ WindowSeconds <= MaxSecond

VARIABLES tier,     \* cfg.Tier
          now,      \* the clock, in seconds; nowMs is its thousandfold
          cell,     \* the buckets of the windows
          cooldown, \* l.cooldown: unix ms, 0 for none
          thread,   \* where each goroutine stands, its request and its locals
          made,     \* how many requests were begun (bound)
          spent,    \* history: what was added to a window in a second
          penalty   \* history: the latest end of a cooldown ordered by a completed call
vars == <<tier, now, cell, cooldown, thread, made, spent, penalty>>
ring == <<cell, spent>>
clock == <<tier, now>>

NowMs == now * 1000
Requests == [kind : Reads, count : {1}] \cup [kind : {"send"}, count : Batches]
NonceRead == [kind |-> "nextNonce", count |-> 1]
SendOf(n) == [kind |-> "send", count |-> n]
Statuses == {"other", "429", "405"}

\* waiting: the transactions of the send that waits for this read; 0 for none.
Idle == [pc |-> "idle", req |-> NonceRead, waiting |-> 0, status |-> "other", todo |-> <<>>,
         second |-> 0, old |-> [stamp |-> 0, amount |-> 0], until |-> 0]

Init == /\ tier \in Tiers /\ now = WindowSeconds
        /\ cell = [w \in Windows |-> [i \in 0..(WindowSeconds - 1) |-> [stamp |-> 0, amount |-> 0]]]
        /\ cooldown = 0 /\ thread = [t \in Threads |-> Idle] /\ made = 0
        /\ spent = [w \in Windows |-> [s \in 0..MaxSecond |-> 0]] /\ penalty = 0

At(t, pc) == thread[t].pc = pc
Goto(t, pc) == thread' = [thread EXCEPT ![t].pc = pc]
Refused(t) == thread' = [thread EXCEPT ![t] = Idle]

\* The windows a request is checked against and charged to, in the code's order.
Admitted(req) ==
  CASE req.kind # "send" /\ tier = "premium"  -> <<"weighted">>
    [] req.kind # "send" /\ tier = "standard" -> <<"weighted", "requests">>
    [] req.kind = "send" /\ tier = "premium"  -> <<"sendTx", "txType">>
    [] req.kind = "send" /\ tier = "standard" -> <<"requests", "weighted", "txType">>
Charge(req, w) ==
  CASE w = "weighted" -> Weight[req.kind]
    [] w = "txType"   -> req.count
    [] OTHER          -> 1

\* usedAt: what the buckets hold of the seconds of the window that ends now.
Counted(w, i) == IF now - cell[w][i].stamp \in 0..(WindowSeconds - 1)
                 THEN cell[w][i].amount ELSE 0
Used(w) == LET total[i \in 0..WindowSeconds] ==
                 IF i = 0 THEN 0 ELSE total[i - 1] + Counted(w, i - 1)
           IN  total[WindowSeconds]
FitsAlways(w, amount) == TRUE
Fits(w, amount) == Used(w) + amount <= Limit[w]
-----------------------------------------------------------------------------
(* Admission *)

Begin(t) ==
  /\ At(t, "idle") /\ made < MaxRequests /\ made' = made + 1
  /\ \E req \in Requests : thread' = [thread EXCEPT ![t].pc = "admit", ![t].req = req]
  /\ UNCHANGED <<clock, ring, cooldown, penalty>>

\* CooldownUntilMs, called by Admit and, for the event, by finish: a load, ...
LoadCooldown(t) ==
  /\ thread[t].pc \in {"admit", "event"}
  /\ thread' = [thread EXCEPT ![t].until = cooldown,
                              ![t].pc = IF At(t, "admit") THEN "judge" ELSE "judgeEvent"]
  /\ UNCHANGED <<clock, ring, cooldown, made, penalty>>

\* ... and a clean-up of a cooldown that has expired, unless it was prolonged.
Expired(t) == thread[t].until # 0 /\ thread[t].until <= NowMs
ClearStored(t) == cooldown' = IF Expired(t) THEN 0 ELSE cooldown
Clear(t) == cooldown' = IF Expired(t) /\ cooldown = thread[t].until THEN 0 ELSE cooldown
Judge(t) ==
  /\ At(t, "judge") /\ Clear(t)
  /\ IF thread[t].until = 0 \/ Expired(t)
     THEN thread' = [thread EXCEPT ![t].pc = "check", ![t].until = 0,
                                   ![t].todo = Admitted(thread[t].req)]
     ELSE Refused(t)
  /\ UNCHANGED <<clock, ring, made, penalty>>

\* One window after the other.  A send whose nextNonce read is refused is given
\* up with it: so does Refused everywhere.
Check(t) ==
  /\ At(t, "check")
  /\ LET w == Head(thread[t].todo) IN
     IF Fits(w, Charge(thread[t].req, w))
     THEN thread' = [thread EXCEPT ![t].todo = Tail(@),
                                   ![t].pc = IF Len(thread[t].todo) = 1 THEN "sent" ELSE "check"]
     ELSE Refused(t)
  /\ UNCHANGED <<clock, ring, cooldown, made, penalty>>
-----------------------------------------------------------------------------
(* Accounting *)

\* AccountSendTx charges the weighted window before the requests.
Charged(req) == IF req.kind = "send" /\ tier = "standard"
                THEN <<"weighted", "requests", "txType">> ELSE Admitted(req)

\* The lane of a send knows no nonce: Acquire reads nextNonce, as often as
\* the lane is invalidated meanwhile.
NextNonce(t) ==
  /\ At(t, "sent") /\ thread[t].req.kind = "send" /\ made < MaxRequests /\ made' = made + 1
  /\ thread' = [thread EXCEPT ![t].pc = "admit", ![t].req = NonceRead,
                              ![t].waiting = thread[t].req.count]
  /\ UNCHANGED <<clock, ring, cooldown, penalty>>

\* No token, no nonce or no signature: the request is not made and not charged.
\* A nextNonce read that was made for it was charged, whatever came of it.
Abandon(t) == /\ At(t, "sent") /\ thread[t].waiting = 0 /\ Refused(t)
              /\ UNCHANGED <<clock, ring, cooldown, made, penalty>>

\* The answer, or the error of the transport.
Answer(t) ==
  /\ At(t, "sent")
  /\ \E status \in Statuses :
       thread' = [thread EXCEPT ![t].pc = "add", ![t].status = status,
                                ![t].todo = Charged(thread[t].req)]
  /\ UNCHANGED <<clock, ring, cooldown, made, penalty>>

\* Window.Add: the second, then the loop of load and compare-and-swap.
AddLoad(t) ==
  /\ thread[t].pc \in {"add", "reload"}
  /\ LET s == IF At(t, "add") THEN now ELSE thread[t].second IN
     thread' = [thread EXCEPT ![t].pc = "swap", ![t].second = s,
                              ![t].old = cell[Head(thread[t].todo)][s % WindowSeconds]]
  /\ UNCHANGED <<clock, ring, cooldown, made, penalty>>
Slot(t) == thread[t].second % WindowSeconds

\* Where a thread goes after it charged a window.
Advance(t) ==
  thread' = [thread EXCEPT ![t].todo = Tail(@), ![t].second = 0, ![t].old = Idle.old,
                           ![t].pc = CASE Len(thread[t].todo) > 1         -> "add"
                                       [] Len(thread[t].todo) = 1
                                          /\ thread[t].status = "other"   -> "event"
                                       [] OTHER                           -> "limited"]
Sum(t) == LET amount == Charge(thread[t].req, Head(thread[t].todo)) IN
          IF thread[t].old.stamp = thread[t].second THEN thread[t].old.amount + amount ELSE amount

\* A plain store in place of the swap.
AddStores(t) ==
  /\ At(t, "swap")
  /\ LET w == Head(thread[t].todo) s == thread[t].second IN
     /\ cell' = [cell EXCEPT ![w][Slot(t)] = [stamp |-> s, amount |-> Sum(t)]]
     /\ spent' = [spent EXCEPT ![w][s] = @ + Charge(thread[t].req, w)]
     /\ Advance(t)
  /\ UNCHANGED <<clock, cooldown, made, penalty>>
AddSwap(t) ==
  /\ At(t, "swap")
  /\ LET w == Head(thread[t].todo) s == thread[t].second IN
     IF cell[w][Slot(t)] = thread[t].old
     THEN /\ cell' = [cell EXCEPT ![w][Slot(t)] = [stamp |-> s, amount |-> Sum(t)]]
          /\ spent' = [spent EXCEPT ![w][s] = @ + Charge(thread[t].req, w)]
          /\ Advance(t)
     ELSE Goto(t, "reload") /\ UNCHANGED ring
  /\ UNCHANGED <<clock, cooldown, made, penalty>>

\* OnRateLimited: the length of the cooldown, in milliseconds.
WeightCharged(req) == IF req.kind = "send" /\ tier = "premium" THEN DefaultWeight
                                                               ELSE Weight[req.kind]
Duration(t) ==
  IF thread[t].status = "405" THEN FirewallSeconds * 1000
  ELSE LET ms == (WeightCharged(thread[t].req) * WindowSeconds * 1000) \div Limit["weighted"] IN
       IF ms < 100 THEN 100 ELSE ms
Limited(t) ==
  /\ At(t, "limited")
  /\ thread' = [thread EXCEPT ![t].pc = "extend", ![t].until = NowMs + Duration(t)]
  /\ UNCHANGED <<clock, ring, cooldown, made, penalty>>

\* The loop of load and compare-and-swap: a cooldown is only ever prolonged.
Ordered(t) == penalty' = IF thread[t].until > penalty THEN thread[t].until ELSE penalty
Extend(t) ==
  /\ At(t, "extend")
  /\ IF cooldown >= thread[t].until
     THEN Goto(t, "event") /\ Ordered(t)
     ELSE /\ thread' = [thread EXCEPT ![t].pc = "extendSwap", ![t].second = cooldown]
          /\ UNCHANGED penalty
  /\ UNCHANGED <<clock, ring, cooldown, made>>
ExtendSwap(t) ==
  /\ At(t, "extendSwap")
  /\ IF cooldown = thread[t].second
     THEN cooldown' = thread[t].until /\ Goto(t, "event") /\ Ordered(t)
     ELSE Goto(t, "extend") /\ UNCHANGED <<cooldown, penalty>>
  /\ UNCHANGED <<clock, ring, made>>

\* The event of finish reads the cooldown once more.  That was the last of a
\* request; after a nextNonce read, the send goes on or, its lane left without
\* a nonce, is given up.  (A read that failed otherwise ends in Abandon.)
Done(t) ==
  /\ At(t, "judgeEvent") /\ Clear(t)
  /\ IF thread[t].waiting # 0 /\ thread[t].status = "other"
     THEN thread' = [thread EXCEPT ![t] = [Idle EXCEPT !.pc = "sent",
                                                       !.req = SendOf(thread[t].waiting)]]
     ELSE Refused(t)
  /\ UNCHANGED <<clock, ring, made, penalty>>

(* The clock moves on, but no goroutine sleeps for a whole window between     *)
(* reading it and its swap.                                                   *)
Tick == /\ now < MaxSecond /\ now' = now + 1
        /\ \A t \in Threads : thread[t].pc \in {"reload", "swap"} =>
             now' - thread[t].second < WindowSeconds
        /\ UNCHANGED <<tier, ring, cooldown, thread, made, penalty>>

Request(t) == \/ Begin(t) \/ LoadCooldown(t) \/ Judge(t) \/ Check(t)
              \/ NextNonce(t) \/ Abandon(t) \/ Answer(t) \/ AddLoad(t) \/ AddSwap(t)
              \/ Limited(t) \/ Extend(t) \/ ExtendSwap(t) \/ Done(t)
Next == (\E t \in Threads : Request(t)) \/ Tick
Spec == Init /\ [][Next]_vars
-----------------------------------------------------------------------------
Pcs == {"idle", "admit", "judge", "check", "sent", "add", "reload", "swap",
        "limited", "extend", "extendSwap", "event", "judgeEvent"}
Locals == [pc : Pcs, req : Requests, waiting : {0} \cup Batches, status : Statuses,
           todo : Seq(Windows), second : Nat, old : [stamp : Nat, amount : Nat], until : Nat]
Busy(l) == l.pc \in {"check", "add", "reload", "swap"}
TypeOK ==
  /\ tier \in Tiers /\ now \in WindowSeconds..MaxSecond
  /\ cooldown \in Nat /\ made \in Nat /\ penalty \in Nat
  /\ cell \in [Windows -> [0..(WindowSeconds - 1) -> [stamp : Nat, amount : Nat]]]
  /\ spent \in [Windows -> [0..MaxSecond -> Nat]]
  /\ thread \in [Threads -> Locals]
  /\ \A t \in Threads : Busy(thread[t]) => thread[t].todo # <<>>

(* window.go:7-9 "the bucket belongs to an older second -> reset it and add   *)
(* amount happen in a single CAS and no update can be lost": what the ring    *)
(* holds of a second of the window is what was added in it, whoever added,    *)
(* and also while its bucket passes from one minute to the next.              *)
Holds(w, s) == LET c == cell[w][s % WindowSeconds] IN IF c.stamp = s THEN c.amount ELSE 0
NothingLost == \A w \in Windows : \A s \in (now - WindowSeconds + 1)..now :
                 Holds(w, s) = spent[w][s]

(* The guard is checked before a request and the request counted after its    *)
(* answer, so threads overrun a budget together.  Each of them has at most    *)
(* two requests between the one and the other, a send and the nextNonce read  *)
(* inside it, and both count in a window only where the tier has sends and    *)
(* reads share it: however long they run, the excess stays below all that     *)
(* they can have under way at once, but for the request admitted last.        *)
Largest(w) == Max({Charge(req, w) : req \in Requests})
AtOnce(w) == IF tier = "standard" /\ w \in {"weighted", "requests"} THEN 2 ELSE 1
OverrunBounded == \A w \in Windows :
                    Used(w) <= Limit[w] + (Cardinality(Threads) * AtOnce(w) - 1) * Largest(w)

(* limiter.go:20 "unix ms until which every request is refused locally": a    *)
(* cooldown that was ordered stays in force to its end.  Neither a shorter    *)
(* one nor the clean-up of an earlier one, racing with it, cuts it short.     *)
CooldownKept == penalty > NowMs => cooldown >= penalty
=============================================================================
