-------------------------- MODULE RateLimiterProofs --------------------------
(* Proofs about RateLimiter, for any number of goroutines, any budgets and    *)
(* windows of any length.                                                     *)
EXTENDS RateLimiter, FoldLemmas, FiniteSetTheorems, TLAPS

\* Two seconds that share a bucket are a whole window apart.
LEMMA SharedSlot ==
  ASSUME NEW W \in Nat \ {0}, NEW a \in Nat, NEW b \in Nat, a % W = b % W, a < b
  PROVE  b - a >= W
<1>1. a = W * (a \div W) + (a % W) /\ a \div W \in Int
  BY Z3
<1>2. b = W * (b \div W) + (b % W) /\ b \div W \in Int
  BY Z3
<1> DEFINE p == a \div W
           q == b \div W
<1>3. p < q
  BY <1>1, <1>2
<1>4. W * (q - p) >= W
  BY <1>1, <1>2, <1>3
<1> QED
  BY <1>1, <1>2, <1>4

LEMMA SlotInRange ==
  ASSUME NEW W \in Nat \ {0}, NEW a \in Nat
  PROVE  a % W \in 0..(W - 1)
  OBVIOUS

LEMMA QuotientNat ==
  ASSUME NEW a \in Nat, NEW b \in Nat \ {0}
  PROVE  a \div b \in Nat
  BY Z3

LEMMA ProductNat ==
  ASSUME NEW a \in Nat, NEW b \in Nat
  PROVE  a * b \in Nat
  OBVIOUS
\* The lists of windows a request goes through.
LEMMA Lists ==
  ASSUME NEW req \in Requests, tier \in {"standard", "premium"}
  PROVE  /\ Admitted(req) \in Seq(Windows) /\ Admitted(req) # <<>>
         /\ Charged(req) \in Seq(Windows) /\ Charged(req) # <<>>
<1>1. /\ <<"weighted">> \in Seq(Windows) /\ <<"weighted", "requests">> \in Seq(Windows)
      /\ <<"sendTx", "txType">> \in Seq(Windows)
      /\ <<"requests", "weighted", "txType">> \in Seq(Windows)
      /\ <<"weighted", "requests", "txType">> \in Seq(Windows)
  BY DEF Windows
<1>2. CASE req.kind # "send" /\ tier = "premium"
  BY <1>1, <1>2 DEF Admitted, Charged
<1>3. CASE req.kind # "send" /\ tier = "standard"
  BY <1>1, <1>3 DEF Admitted, Charged
<1>4. CASE req.kind = "send" /\ tier = "premium"
  BY <1>1, <1>4 DEF Admitted, Charged
<1>5. CASE req.kind = "send" /\ tier = "standard"
  BY <1>1, <1>5 DEF Admitted, Charged
<1> QED
  BY <1>2, <1>3, <1>4, <1>5

LEMMA ChargeNat ==
  ASSUME NEW req \in Requests, NEW w \in Windows
  PROVE  Charge(req, w) \in Nat
  BY LimiterAssumption DEF Charge, Requests, Windows

LEMMA DurationNat ==
  ASSUME TypeOK, NEW t \in Threads
  PROVE  Duration(t) \in Nat
<1> DEFINE weight == WeightCharged(thread[t].req)
<1>1. weight \in Nat /\ WindowSeconds \in Nat /\ Limit["weighted"] \in Nat \ {0}
  BY LimiterAssumption DEF TypeOK, Locals, WeightCharged, Requests, Windows
<1>2. weight * WindowSeconds \in Nat
  BY <1>1, ProductNat
<1> DEFINE ms == weight * WindowSeconds * 1000
<1>3. ms \in Nat
  <2> HIDE DEF weight
  <2> QED BY <1>2
<1>4. ms \div Limit["weighted"] \in Nat
  <2> HIDE DEF ms
  <2> QED BY <1>1, <1>3, QuotientNat
<1> QED
  BY <1>4, LimiterAssumption DEF Duration
-----------------------------------------------------------------------------
(* Types *)

\* One goroutine's locals are well formed.
ThreadOK(l) == l \in Locals /\ (Busy(l) => l.todo # <<>>)
Moves(t) == \E l : ThreadOK(l) /\ thread' = [thread EXCEPT ![t] = l]
Shared == /\ tier \in Tiers /\ now \in WindowSeconds..MaxSecond
          /\ cooldown \in Nat /\ made \in Nat /\ penalty \in Nat
          /\ cell \in [Windows -> [0..(WindowSeconds - 1) -> [stamp : Nat, amount : Nat]]]
          /\ spent \in [Windows -> [0..MaxSecond -> Nat]]

\* One entry of a table is replaced, the others are not.
Table(A, B, S) == [A -> [B -> S]]
Replaces(g, f, a, b, x) == g = [f EXCEPT ![a][b] = x]
Agrees(g, f, a, b, x, A, B) == \A u \in A, v \in B :
                                 g[u][v] = IF u = a /\ v = b THEN x ELSE f[u][v]
LEMMA TableExcept ==
  ASSUME NEW A, NEW B, NEW S, NEW f \in Table(A, B, S), NEW a \in A, NEW b \in B, NEW x,
         NEW g, Replaces(g, f, a, b, x)
  PROVE  Agrees(g, f, a, b, x, A, B)
<1>0. g = [f EXCEPT ![a][b] = x] /\ f \in [A -> [B -> S]]
  BY DEF Replaces, Table
<1> SUFFICES ASSUME NEW u \in A, NEW v \in B
             PROVE  g[u][v] = IF u = a /\ v = b THEN x ELSE f[u][v]
  BY DEF Agrees
<1>1. f[u] \in [B -> S]
  BY <1>0
<1>2. CASE u = a
  <2>1. g[u] = [f[u] EXCEPT ![b] = x]
    BY <1>0, <1>2
  <2> QED BY <1>1, <1>2, <2>1
<1>3. CASE u # a
  <2>1. g[u] = f[u]
    BY <1>0, <1>3
  <2> QED BY <1>3, <2>1
<1> QED
  BY <1>2, <1>3

\* The ring is made of buckets.
LEMMA CellTyped ==
  ASSUME TypeOK, NEW w \in Windows, NEW i \in 0..(WindowSeconds - 1)
  PROVE  cell[w][i] \in [stamp : Nat, amount : Nat]
<1>1. cell \in [Windows -> [0..(WindowSeconds - 1) -> [stamp : Nat, amount : Nat]]]
  BY DEF TypeOK
<1>2. cell[w] \in [0..(WindowSeconds - 1) -> [stamp : Nat, amount : Nat]]
  BY <1>1, Zenon
<1> QED
  BY <1>2, Zenon

LEMMA TailOK ==
  ASSUME NEW S, NEW q \in Seq(S), q # <<>>
  PROVE  /\ Head(q) \in S /\ Tail(q) \in Seq(S) /\ Len(q) \in Nat \ {0}
         /\ Len(q) # 1 => Tail(q) # <<>>
         /\ Len(q) > 1 => Tail(q) # <<>>
<1>1. Len(q) \in Nat \ {0} /\ Tail(q) \in Seq(S) /\ Head(q) \in S
  OBVIOUS
<1>2. Len(Tail(q)) = Len(q) - 1
  BY <1>1
<1> QED
  BY <1>1, <1>2

LEMMA IdleOK == ThreadOK(Idle)
  BY LimiterAssumption DEF ThreadOK, Locals, Idle, NonceRead, Pcs, Busy, Requests, Statuses

LEMMA OneThread ==
  ASSUME TypeOK, NEW t \in Threads, Moves(t), Shared'
  PROVE  TypeOK'
<1>1. PICK l : ThreadOK(l) /\ thread' = [thread EXCEPT ![t] = l]
  BY DEF Moves
<1>2. /\ thread' \in [Threads -> Locals]
      /\ \A u \in Threads : Busy(thread'[u]) => thread'[u].todo # <<>>
  BY <1>1 DEF TypeOK, ThreadOK
<1> QED
  BY <1>2 DEF TypeOK, Shared

\* Each action leaves its goroutine with well-formed locals.
LEMMA ThreadStep ==
  ASSUME TypeOK, NEW t \in Threads, Request(t)
  PROVE  Moves(t)
<1> USE DEF At, Goto, Refused
<1>0. /\ ThreadOK(thread[t]) /\ tier \in {"standard", "premium"} /\ cooldown \in Nat /\ now \in Nat
  BY LimiterAssumption DEF TypeOK, ThreadOK
<1>1. ASSUME Begin(t) PROVE Moves(t)
  <2>1. ASSUME NEW req \in Requests, thread' = [thread EXCEPT ![t].pc = "admit", ![t].req = req]
       PROVE  Moves(t)
    <3> DEFINE l == [thread[t] EXCEPT !.pc = "admit", !.req = req]
    <3>1. thread' = [thread EXCEPT ![t] = l]
      BY <2>1 DEF TypeOK, Locals
    <3>2. ThreadOK(l)
      BY <1>0, <1>1, <2>1 DEF ThreadOK, Locals, Pcs, Busy
    <3> HIDE DEF l
    <3> QED BY <3>1, <3>2 DEF Moves
  <2> QED BY <1>1, <2>1 DEF Begin
<1>2. ASSUME LoadCooldown(t) PROVE Moves(t)
  <2>1. ASSUME  thread' = [thread EXCEPT ![t].until = cooldown, ![t].pc = IF At(t, "admit") THEN "judge" ELSE "judgeEvent"]
       PROVE  Moves(t)
    <3> DEFINE l == [thread[t] EXCEPT !.until = cooldown, !.pc = IF At(t, "admit") THEN "judge" ELSE "judgeEvent"]
    <3>1. thread' = [thread EXCEPT ![t] = l]
      BY <2>1 DEF TypeOK, Locals
    <3>2. ThreadOK(l)
      BY <1>0, <1>2, <2>1 DEF ThreadOK, Locals, Pcs, Busy
    <3> HIDE DEF l
    <3> QED BY <3>1, <3>2 DEF Moves
  <2> QED BY <1>2, <2>1 DEF LoadCooldown
<1>3. ASSUME Judge(t) PROVE Moves(t)
  <2>1. ASSUME  thread' = [thread EXCEPT ![t].pc = "check", ![t].until = 0, ![t].todo = Admitted(thread[t].req)]
       PROVE  Moves(t)
    <3> DEFINE l == [thread[t] EXCEPT !.pc = "check", !.until = 0, !.todo = Admitted(thread[t].req)]
    <3>1. thread' = [thread EXCEPT ![t] = l]
      BY <2>1 DEF TypeOK, Locals
    <3>2. ThreadOK(l)
      BY <1>0, <1>3, <2>1, Lists DEF ThreadOK, Locals, Pcs, Busy
    <3> HIDE DEF l
    <3> QED BY <3>1, <3>2 DEF Moves
  <2>2. ASSUME thread' = [thread EXCEPT ![t] = Idle] PROVE Moves(t)
    BY <2>2, IdleOK DEF Moves
  <2> QED BY <1>3, <2>1, <2>2 DEF Judge
<1>4. ASSUME Check(t) PROVE Moves(t)
  <2>1. ASSUME thread' = [thread EXCEPT ![t].todo = Tail(@), ![t].pc = IF Len(thread[t].todo) = 1 THEN "sent" ELSE "check"]
       PROVE  Moves(t)
    <3> DEFINE l == [thread[t] EXCEPT !.todo = Tail(@), !.pc = IF Len(thread[t].todo) = 1 THEN "sent" ELSE "check"]
    <3>1. thread' = [thread EXCEPT ![t] = l]
      BY <2>1 DEF TypeOK, Locals
    <3>2. /\ Tail(thread[t].todo) \in Seq(Windows)
          /\ Len(thread[t].todo) # 1 => Tail(thread[t].todo) # <<>>
      BY <1>0, <1>4, TailOK DEF ThreadOK, Locals, Busy, Check
    <3>3. ThreadOK(l)
      BY <1>0, <3>2 DEF ThreadOK, Locals, Pcs, Busy
    <3> HIDE DEF l
    <3> QED BY <3>1, <3>3 DEF Moves
  <2>2. ASSUME thread' = [thread EXCEPT ![t] = Idle] PROVE Moves(t)
    BY <2>2, IdleOK DEF Moves
  <2> QED BY <1>4, <2>1, <2>2 DEF Check
<1>5. ASSUME Abandon(t) PROVE Moves(t)
  <2>1. ASSUME thread' = [thread EXCEPT ![t] = Idle] PROVE Moves(t)
    BY <2>1, IdleOK DEF Moves
  <2> QED BY <1>5, <2>1 DEF Abandon
<1>6. ASSUME Answer(t) PROVE Moves(t)
  <2>1. ASSUME NEW status \in Statuses, thread' = [thread EXCEPT ![t].pc = "add", ![t].status = status, ![t].todo = Charged(thread[t].req)]
       PROVE  Moves(t)
    <3> DEFINE l == [thread[t] EXCEPT !.pc = "add", !.status = status, !.todo = Charged(thread[t].req)]
    <3>1. thread' = [thread EXCEPT ![t] = l]
      BY <2>1 DEF TypeOK, Locals
    <3>2. ThreadOK(l)
      BY <1>0, <1>6, <2>1, Lists DEF ThreadOK, Locals, Pcs, Busy
    <3> HIDE DEF l
    <3> QED BY <3>1, <3>2 DEF Moves
  <2> QED BY <1>6, <2>1 DEF Answer
<1>7. ASSUME AddLoad(t) PROVE Moves(t)
  <2> DEFINE s == IF At(t, "add") THEN now ELSE thread[t].second
             o == cell[Head(thread[t].todo)][s % WindowSeconds]
             l == [thread[t] EXCEPT !.pc = "swap", !.second = s, !.old = o]
  <2>1. s \in Nat /\ Head(thread[t].todo) \in Windows /\ thread[t].todo # <<>>
    BY <1>0, <1>7, TailOK DEF AddLoad, ThreadOK, Locals, Busy
  <2>2. s % WindowSeconds \in 0..(WindowSeconds - 1)
    <3> HIDE DEF s
    <3> QED BY <2>1, LimiterAssumption, SlotInRange
  <2>3. o \in [stamp : Nat, amount : Nat]
    <3> HIDE DEF s
    <3> QED BY <2>1, <2>2 DEF TypeOK
  <2>4. thread' = [thread EXCEPT ![t] = l]
    <3> HIDE DEF o
    <3>1. thread' = [thread EXCEPT ![t].pc = "swap", ![t].second = s, ![t].old = o]
      BY <1>7 DEF AddLoad, o
    <3> QED BY <3>1 DEF TypeOK, Locals
  <2>5. ThreadOK(l)
    <3> HIDE DEF o, s
    <3> QED BY <1>0, <2>1, <2>3 DEF ThreadOK, Locals, Pcs, Busy
  <2> HIDE DEF l
  <2> QED BY <2>4, <2>5 DEF Moves
<1>8. ASSUME AddSwap(t) PROVE Moves(t)
  <2> DEFINE todo == thread[t].todo
  <2>1. /\ Tail(todo) \in Seq(Windows) /\ Len(todo) \in Nat \ {0} /\ todo # <<>>
        /\ Len(todo) > 1 => Tail(todo) # <<>>
    BY <1>0, <1>8, TailOK DEF AddSwap, ThreadOK, Locals, Busy
  <2>2. ASSUME Advance(t) PROVE Moves(t)
    <3> DEFINE pc == CASE Len(todo) > 1 -> "add"
                       [] Len(todo) = 1 /\ thread[t].status = "other" -> "event"
                       [] OTHER -> "limited"
               l == [thread[t] EXCEPT !.todo = Tail(@), !.second = 0, !.old = Idle.old, !.pc = pc]
    <3>1. thread' = [thread EXCEPT ![t] = l]
      <4> HIDE DEF pc
      <4>1. thread' = [thread EXCEPT ![t].todo = Tail(@), ![t].second = 0, ![t].old = Idle.old,
                                     ![t].pc = pc]
        BY <2>2 DEF Advance, pc
      <4> QED BY <4>1 DEF TypeOK, Locals
    <3>2. pc \in {"add", "event", "limited"} /\ (pc = "add" => Tail(todo) # <<>>)
      <4>1. CASE Len(todo) > 1
        BY <2>1, <4>1
      <4>2. CASE ~(Len(todo) > 1) /\ Len(todo) = 1 /\ thread[t].status = "other"
        BY <4>2
      <4>3. CASE ~(Len(todo) > 1) /\ ~(Len(todo) = 1 /\ thread[t].status = "other")
        BY <4>3
      <4> QED BY <4>1, <4>2, <4>3
    <3>3. ThreadOK(l)
      <4> HIDE DEF pc
      <4> QED BY <1>0, <2>1, <3>2 DEF ThreadOK, Locals, Pcs, Busy, Idle
    <3> HIDE DEF l
    <3> QED BY <3>1, <3>3 DEF Moves
  <2>3. ASSUME thread' = [thread EXCEPT ![t].pc = "reload"] PROVE Moves(t)
    <3> DEFINE l == [thread[t] EXCEPT !.pc = "reload"]
    <3>1. thread' = [thread EXCEPT ![t] = l]
      BY <2>3 DEF TypeOK, Locals
    <3>2. ThreadOK(l)
      BY <1>0, <2>1 DEF ThreadOK, Locals, Pcs, Busy
    <3> HIDE DEF l
    <3> QED BY <3>1, <3>2 DEF Moves
  <2> QED BY <1>8, <2>2, <2>3 DEF AddSwap
<1>9. ASSUME Limited(t) PROVE Moves(t)
  <2> DEFINE u == NowMs + Duration(t)
             l == [thread[t] EXCEPT !.pc = "extend", !.until = u]
  <2>1. u \in Nat
    BY <1>0, DurationNat DEF NowMs
  <2> HIDE DEF u
  <2>2. thread' = [thread EXCEPT ![t] = l]
    BY <1>9 DEF TypeOK, Locals, Limited, u
  <2>3. ThreadOK(l)
    BY <1>0, <2>1 DEF ThreadOK, Locals, Pcs, Busy
  <2> HIDE DEF l
  <2> QED BY <2>2, <2>3 DEF Moves
<1>10. ASSUME NEW pc \in {"event", "extend"}, Goto(t, pc) PROVE Moves(t)
  <2> DEFINE l == [thread[t] EXCEPT !.pc = pc]
  <2>1. thread' = [thread EXCEPT ![t] = l]
    BY <1>10 DEF TypeOK, Locals
  <2>2. ThreadOK(l)
    BY <1>0 DEF ThreadOK, Locals, Pcs, Busy
  <2> HIDE DEF l
  <2> QED BY <2>1, <2>2 DEF Moves
<1>11. ASSUME Extend(t) PROVE Moves(t)
  <2>1. ASSUME thread' = [thread EXCEPT ![t].pc = "extendSwap", ![t].second = cooldown]
        PROVE  Moves(t)
    <3> DEFINE l == [thread[t] EXCEPT !.pc = "extendSwap", !.second = cooldown]
    <3>1. thread' = [thread EXCEPT ![t] = l]
      BY <2>1 DEF TypeOK, Locals
    <3>2. ThreadOK(l)
      BY <1>0 DEF ThreadOK, Locals, Pcs, Busy
    <3> HIDE DEF l
    <3> QED BY <3>1, <3>2 DEF Moves
  <2> QED BY <1>10, <1>11, <2>1 DEF Extend
<1>12. ASSUME ExtendSwap(t) PROVE Moves(t)
  BY <1>10, <1>12 DEF ExtendSwap
<1>13. ASSUME NextNonce(t) PROVE Moves(t)
  <2> DEFINE l == [thread[t] EXCEPT !.pc = "admit", !.req = NonceRead, !.waiting = thread[t].req.count]
  <2>1. thread' = [thread EXCEPT ![t] = l]
    BY <1>13 DEF NextNonce, TypeOK, Locals
  <2>2. thread[t].req.count \in Batches /\ NonceRead \in Requests
    BY <1>0, <1>13, LimiterAssumption DEF NextNonce, ThreadOK, Locals, Requests, NonceRead
  <2>3. ThreadOK(l)
    BY <1>0, <2>2 DEF ThreadOK, Locals, Pcs, Busy
  <2> HIDE DEF l
  <2> QED BY <2>1, <2>3 DEF Moves
<1>14. ASSUME Done(t) PROVE Moves(t)
  <2>1. ASSUME thread[t].waiting # 0, thread' = [thread EXCEPT ![t] = [Idle EXCEPT !.pc = "sent",
                                                              !.req = SendOf(thread[t].waiting)]]
        PROVE  Moves(t)
    <3>1. SendOf(thread[t].waiting) \in Requests
      BY <1>0, <2>1 DEF ThreadOK, Locals, Requests, SendOf
    <3>2. ThreadOK([Idle EXCEPT !.pc = "sent", !.req = SendOf(thread[t].waiting)])
      BY <3>1, IdleOK DEF ThreadOK, Locals, Pcs, Busy
    <3> QED BY <2>1, <3>2 DEF Moves
  <2>2. ASSUME thread' = [thread EXCEPT ![t] = Idle] PROVE Moves(t)
    BY <2>2, IdleOK DEF Moves
  <2> QED BY <1>14, <2>1, <2>2 DEF Done
<1> QED
  BY <1>1, <1>2, <1>3, <1>4, <1>5, <1>6, <1>7, <1>8, <1>9, <1>11, <1>12, <1>13, <1>14 DEF Request

\* Where these four leave their goroutine: with its next window, or its send.
LEMMA GoesOnOrStops ==
  ASSUME TypeOK, NEW t \in Threads, Judge(t) \/ Check(t) \/ Abandon(t) \/ Done(t)
  PROVE  thread'[t].pc \in {"idle", "check", "sent"}
<1>0. thread \in [Threads -> Locals]
  BY DEF TypeOK
<1>1. ASSUME Refused(t) PROVE thread'[t].pc = "idle"
  BY <1>0, <1>1 DEF Refused, Idle
<1>2. ASSUME Judge(t), ~Refused(t) PROVE thread'[t].pc = "check"
  <2>1. thread' = [thread EXCEPT ![t].pc = "check", ![t].until = 0,
                                 ![t].todo = Admitted(thread[t].req)]
    BY <1>2 DEF Judge
  <2> QED BY <1>0, <2>1 DEF Locals
<1>3. ASSUME Check(t), ~Refused(t) PROVE thread'[t].pc \in {"check", "sent"}
  <2>1. thread' = [thread EXCEPT ![t].todo = Tail(@),
                     ![t].pc = IF Len(thread[t].todo) = 1 THEN "sent" ELSE "check"]
    BY <1>3 DEF Check
  <2> QED BY <1>0, <2>1 DEF Locals
<1>4. ASSUME Done(t), ~Refused(t) PROVE thread'[t].pc = "sent"
  <2>1. thread' = [thread EXCEPT ![t] = [Idle EXCEPT !.pc = "sent",
                                                     !.req = SendOf(thread[t].waiting)]]
    BY <1>4 DEF Done
  <2> QED BY <1>0, <2>1 DEF Idle
<1> QED
  BY <1>1, <1>2, <1>3, <1>4 DEF Abandon
-----------------------------------------------------------------------------
(* The inductive invariant *)

\* A goroutine that is to swap a bucket adds to a second of the window.
SecondInv == \A t \in Threads : thread[t].pc \in {"reload", "swap"} =>
               now - WindowSeconds < thread[t].second /\ thread[t].second <= now
\* A bucket is stamped with a second of its own, or never used.
StampInv == \A w \in Windows, i \in 0..(WindowSeconds - 1) :
              /\ cell[w][i].stamp <= now
              /\ cell[w][i].stamp = 0 \/ cell[w][i].stamp % WindowSeconds = i
\* NothingLost, also of the seconds to come.
BucketInv == \A w \in Windows, s \in 0..MaxSecond :
               now - WindowSeconds < s => Holds(w, s) = spent[w][s]
RingInv == TypeOK /\ SecondInv /\ StampInv /\ BucketInv

\* What a successful swap finds and writes.
LEMMA SwapFacts ==
  ASSUME TypeOK, SecondInv, NEW t \in Threads, AddSwap(t)
  PROVE  /\ Head(thread[t].todo) \in Windows
         /\ thread[t].second \in 0..MaxSecond /\ thread[t].second <= now
         /\ now - WindowSeconds < thread[t].second
         /\ Slot(t) \in 0..(WindowSeconds - 1) /\ Slot(t) = thread[t].second % WindowSeconds
         /\ Sum(t) \in Nat /\ Charge(thread[t].req, Head(thread[t].todo)) \in Nat
<1>1. thread[t] \in Locals /\ thread[t].pc = "swap" /\ thread[t].todo # <<>>
  BY DEF TypeOK, AddSwap, At, Busy
<1>2. Head(thread[t].todo) \in Windows
  BY <1>1, TailOK DEF Locals
<1>3. thread[t].second \in Nat /\ thread[t].second <= now /\ now - WindowSeconds < thread[t].second
  BY <1>1 DEF SecondInv, Locals
<1>4. thread[t].second \in 0..MaxSecond
  BY <1>3, LimiterAssumption DEF TypeOK
<1>5. Slot(t) \in 0..(WindowSeconds - 1)
  BY <1>3, SlotInRange, LimiterAssumption DEF Slot
<1>6. Charge(thread[t].req, Head(thread[t].todo)) \in Nat
  BY <1>1, <1>2, ChargeNat DEF Locals
<1>7. Sum(t) \in Nat
  <2> HIDE DEF Charge
  <2> QED BY <1>1, <1>6 DEF Sum, Locals
<1> QED
  BY <1>2, <1>3, <1>4, <1>5, <1>6, <1>7 DEF Slot

LEMMA TypeStep ==
  ASSUME TypeOK, SecondInv, [Next]_vars
  PROVE  TypeOK'
<1>0. /\ Shared /\ now \in Nat
  <2>1. Shared
    BY DEF TypeOK, Shared
  <2>2. now \in WindowSeconds..MaxSecond /\ WindowSeconds \in Nat
    BY LimiterAssumption DEF TypeOK
  <2> QED BY <2>1, <2>2
<1>1. ASSUME UNCHANGED vars PROVE TypeOK'
  BY <1>1 DEF TypeOK, vars
<1>2. ASSUME Tick PROVE TypeOK'
  <2>1. now' \in WindowSeconds..MaxSecond
    BY <1>0, <1>2, LimiterAssumption DEF Tick, Shared
  <2> QED BY <1>2, <2>1 DEF Tick, TypeOK, ring
<1>3. ASSUME NEW t \in Threads, Request(t) PROVE TypeOK'
  <2>1. thread[t].until \in Nat
    BY <1>3 DEF TypeOK, Locals
  <2>2. ASSUME Begin(t) \/ LoadCooldown(t) \/ Check(t) \/ NextNonce(t) \/ Abandon(t) \/ Answer(t)
               \/ AddLoad(t) \/ Limited(t)
        PROVE  Shared'
    <3>1. /\ UNCHANGED <<tier, now, cell, spent, cooldown, penalty>>
          /\ made' = made \/ made' = made + 1
      BY <2>2 DEF Begin, LoadCooldown, Check, NextNonce, Abandon, Answer, AddLoad, Limited, clock, ring
    <3>2. made' \in Nat
      BY <1>0, <3>1 DEF Shared
    <3> QED BY <1>0, <3>1, <3>2 DEF Shared
  <2>3. ASSUME Judge(t) \/ Done(t) PROVE Shared'
    BY <1>0, <2>3 DEF Judge, Done, Clear, Shared, clock, ring
  <2>4. ASSUME Extend(t) \/ ExtendSwap(t) PROVE Shared'
    BY <1>0, <2>1, <2>4 DEF Extend, ExtendSwap, Ordered, Shared, clock, ring
  <2>5. ASSUME AddSwap(t) PROVE Shared'
    <3> DEFINE w == Head(thread[t].todo)
               s == thread[t].second
               amount == Charge(thread[t].req, w)
    <3>1. ASSUME cell' = [cell EXCEPT ![w][Slot(t)] = [stamp |-> s, amount |-> Sum(t)]],
                 spent' = [spent EXCEPT ![w][s] = @ + amount]
          PROVE  /\ cell' \in [Windows -> [0..(WindowSeconds - 1) -> [stamp : Nat, amount : Nat]]]
                 /\ spent' \in [Windows -> [0..MaxSecond -> Nat]]
      <4>1. /\ w \in Windows /\ s \in 0..MaxSecond /\ s \in Nat /\ Sum(t) \in Nat /\ amount \in Nat
        BY <2>5, SwapFacts
      <4>2. spent[w][s] + amount \in Nat
        <5> HIDE DEF w, s, amount
        <5>1. spent \in [Windows -> [0..MaxSecond -> Nat]]
          BY <1>0 DEF Shared
        <5>2. spent[w] \in [0..MaxSecond -> Nat]
          BY <4>1, <5>1
        <5>3. spent[w][s] \in Nat
          BY <4>1, <5>2
        <5> QED BY <4>1, <5>3
      <4> HIDE DEF w, s, amount
      <4> QED BY <1>0, <3>1, <4>1, <4>2 DEF Shared
    <3>2. UNCHANGED <<tier, now, cooldown, made, penalty>>
      BY <2>5 DEF AddSwap, clock
    <3>3. \/ UNCHANGED ring
          \/ /\ cell' = [cell EXCEPT ![w][Slot(t)] = [stamp |-> s, amount |-> Sum(t)]]
             /\ spent' = [spent EXCEPT ![w][s] = @ + amount]
      BY <2>5 DEF AddSwap
    <3> HIDE DEF w, s, amount
    <3> QED BY <1>0, <3>1, <3>2, <3>3 DEF Shared, ring
  <2>6. Shared'
    BY <1>3, <2>2, <2>3, <2>4, <2>5 DEF Request
  <2> QED BY <1>3, <2>6, ThreadStep, OneThread
<1> QED
  BY <1>1, <1>2, <1>3 DEF Next

LEMMA TypeInit == Init => TypeOK
<1> SUFFICES ASSUME Init PROVE TypeOK
  OBVIOUS
<1>1. now \in WindowSeconds..MaxSecond
  BY LimiterAssumption DEF Init
<1>2. \A t \in Threads : thread[t] \in Locals /\ (Busy(thread[t]) => thread[t].todo # <<>>)
  BY IdleOK DEF Init, ThreadOK
<1> QED
  BY <1>1, <1>2 DEF Init, TypeOK

LEMMA RingInit == Init => RingInv
<1> SUFFICES ASSUME Init PROVE RingInv
  OBVIOUS
<1>1. SecondInv
  BY DEF Init, SecondInv, Idle
<1>2. StampInv
  BY LimiterAssumption DEF Init, StampInv
<1>3. BucketInv
  <2> SUFFICES ASSUME NEW w \in Windows, NEW s \in 0..MaxSecond PROVE Holds(w, s) = spent[w][s]
    BY DEF BucketInv
  <2>1. s % WindowSeconds \in 0..(WindowSeconds - 1)
    BY LimiterAssumption, SlotInRange
  <2>2. cell[w][s % WindowSeconds].amount = 0
    BY <2>1 DEF Init
  <2> QED BY <2>2 DEF Init, Holds
<1> QED
  BY <1>1, <1>2, <1>3, TypeInit DEF RingInv

\* A bucket gets the second s: what shares it is a window older, or yet to come.
BucketIs(w, k, bucket) == Agrees(cell', cell, w, k, bucket, Windows, 0..(WindowSeconds - 1))
SpentIs(w, s, total) == Agrees(spent', spent, w, s, total, Windows, 0..MaxSecond)
LEMMA RingSwapped ==
  ASSUME RingInv, now' = now,
         NEW w \in Windows, NEW s \in 0..MaxSecond, s <= now, now - WindowSeconds < s,
         NEW k \in 0..(WindowSeconds - 1), k = s % WindowSeconds,
         NEW a \in Nat, NEW b \in Nat,
         b = IF cell[w][k].stamp = s THEN cell[w][k].amount + a ELSE a,
         BucketIs(w, k, [stamp |-> s, amount |-> b]), SpentIs(w, s, spent[w][s] + a)
  PROVE  StampInv' /\ BucketInv'
<1>1. /\ now \in Nat /\ WindowSeconds \in Nat \ {0} /\ s \in Nat
      /\ \A v \in Windows, i \in 0..(WindowSeconds - 1) : cell[v][i] \in [stamp : Nat, amount : Nat]
  <2>1. WindowSeconds \in Nat \ {0} /\ MaxSecond \in Nat /\ now \in WindowSeconds..MaxSecond
    BY LimiterAssumption DEF RingInv, TypeOK
  <2> QED BY <2>1, CellTyped DEF RingInv
<1>2. now' = now
  OBVIOUS
<1>4. /\ \A v \in Windows, i \in 0..(WindowSeconds - 1) :
           cell'[v][i] = IF v = w /\ i = k THEN [stamp |-> s, amount |-> b] ELSE cell[v][i]
      /\ \A v \in Windows, r \in 0..MaxSecond :
           spent'[v][r] = IF v = w /\ r = s THEN spent[w][s] + a ELSE spent[v][r]
  BY Zenon DEF BucketIs, SpentIs, Agrees
<1>5. StampInv'
  <2> SUFFICES ASSUME NEW v \in Windows, NEW i \in 0..(WindowSeconds - 1)
               PROVE  /\ cell'[v][i].stamp <= now'
                      /\ cell'[v][i].stamp = 0 \/ cell'[v][i].stamp % WindowSeconds = i
    BY DEF StampInv
  <2>1. CASE v = w /\ i = k
    <3>1. cell'[v][i].stamp = s
      BY <1>4, <2>1
    <3>2. s % WindowSeconds = i
      BY <1>1, <2>1
    <3>3. cell'[v][i].stamp <= now'
      BY <1>1, <1>2, <3>1
    <3>4. cell'[v][i].stamp % WindowSeconds = i
      BY <3>1, <3>2
    <3> QED BY <3>3, <3>4
  <2>2. CASE ~(v = w /\ i = k)
    <3>1. cell'[v][i] = cell[v][i]
      BY <1>4, <2>2
    <3>2. cell[v][i].stamp <= now /\ (cell[v][i].stamp = 0 \/ cell[v][i].stamp % WindowSeconds = i)
      BY DEF RingInv, StampInv
    <3> QED BY <1>1, <1>2, <3>1, <3>2
  <2> QED BY <2>1, <2>2
<1>6. BucketInv'
  <2> SUFFICES ASSUME NEW v \in Windows, NEW r \in 0..MaxSecond, now - WindowSeconds < r
               PROVE  Holds(v, r)' = spent'[v][r]
    BY <1>1, <1>2 DEF BucketInv
  <2> DEFINE j == r % WindowSeconds
  <2>1. j \in 0..(WindowSeconds - 1)
    BY <1>1, <1>2, SlotInRange
  <2>2. Holds(v, r) = spent[v][r]
    BY Zenon DEF RingInv, BucketInv
  <2>3. /\ Holds(v, r) = IF cell[v][j].stamp = r THEN cell[v][j].amount ELSE 0
        /\ Holds(v, r)' = IF cell'[v][j].stamp = r THEN cell'[v][j].amount ELSE 0
    BY DEF Holds
  <2>4. cell[v][j] \in [stamp : Nat, amount : Nat] /\ cell[v][j].stamp <= now
    BY <1>1, <1>2, <2>1 DEF RingInv, StampInv
  <2>5. CASE ~(v = w /\ j = k)
    <3>1. ~(v = w /\ r = s)
      BY <1>1, <2>5
    <3>2. cell'[v][j] = cell[v][j]
      BY <1>4, <2>1, <2>5
    <3> HIDE DEF j
    <3> QED BY <1>4, <2>2, <2>3, <3>1, <3>2
  <2>6. CASE v = w /\ j = k /\ r = s
    <3>1. cell'[v][j] = [stamp |-> s, amount |-> b]
      BY <1>4, <2>1, <2>6
    <3>2. spent'[v][r] = spent[v][r] + a
      BY <1>4, <2>6
    <3>3. Holds(v, r)' = b
      BY <2>3, <2>6, <3>1
    <3>4. b = Holds(v, r) + a
      <4> HIDE DEF j
      <4> QED BY <1>1, <2>3, <2>4, <2>6
    <3> QED BY <2>2, <3>2, <3>3, <3>4
  <2>7. CASE v = w /\ j = k /\ r # s
    <3>1. r > now
      <4>0. r % WindowSeconds = s % WindowSeconds /\ r \in Nat /\ s \in Nat
        BY <1>1, <2>7
      <4>1. CASE r < s
        <5>1. s - r >= WindowSeconds
          BY <1>1, <1>2, <4>0, <4>1, SharedSlot
        <5> QED BY <1>1, <1>2, <4>0, <4>1, <5>1
      <4>2. CASE s < r
        <5>1. r - s >= WindowSeconds
          BY <1>1, <1>2, <4>0, <4>2, SharedSlot
        <5> QED BY <1>1, <1>2, <4>0, <4>2, <5>1
      <4> QED BY <2>7, <4>0, <4>1, <4>2
    <3>2. Holds(v, r) = 0
      <4> HIDE DEF j
      <4> QED BY <1>1, <1>2, <2>3, <2>4, <3>1
    <3>3. Holds(v, r)' = 0
      <4>1. cell'[v][j].stamp = s
        BY <1>4, <2>1, <2>7
      <4> HIDE DEF j
      <4> QED BY <2>3, <2>7, <4>1
    <3> QED BY <1>4, <2>2, <2>7, <3>2, <3>3
  <2> QED BY <2>5, <2>6, <2>7
<1> QED
  BY <1>5, <1>6

\* A goroutine that swaps a bucket leaves every other second of the window
\* alone: what shares its bucket is a window older, or yet to come.
LEMMA SwapStep ==
  ASSUME RingInv, TypeOK', NEW t \in Threads, AddSwap(t),
         Replaces(cell', cell, Head(thread[t].todo), Slot(t),
                  [stamp |-> thread[t].second, amount |-> Sum(t)]),
         Replaces(spent', spent, Head(thread[t].todo), thread[t].second,
                  spent[Head(thread[t].todo)][thread[t].second]
                    + Charge(thread[t].req, Head(thread[t].todo))),
         cell[Head(thread[t].todo)][Slot(t)] = thread[t].old
  PROVE  StampInv' /\ BucketInv'
<1> DEFINE w == Head(thread[t].todo)
           s == thread[t].second
           amount == Charge(thread[t].req, w)
<1>1. /\ w \in Windows /\ s \in 0..MaxSecond /\ s <= now /\ now - WindowSeconds < s /\ s \in Nat
      /\ Slot(t) \in 0..(WindowSeconds - 1) /\ Slot(t) = s % WindowSeconds
      /\ Sum(t) \in Nat /\ amount \in Nat
  BY SwapFacts DEF RingInv
<1>2. /\ cell \in [Windows -> [0..(WindowSeconds - 1) -> [stamp : Nat, amount : Nat]]]
      /\ spent \in [Windows -> [0..MaxSecond -> Nat]] /\ now' = now /\ now \in Nat
      /\ WindowSeconds \in Nat \ {0}
  <2>1. now' = now
    BY DEF AddSwap, clock
  <2>2. WindowSeconds \in Nat \ {0} /\ now \in Nat
    BY LimiterAssumption DEF RingInv, TypeOK
  <2> QED BY <2>1, <2>2 DEF RingInv, TypeOK
<1>3. /\ Replaces(cell', cell, w, Slot(t), [stamp |-> s, amount |-> Sum(t)])
      /\ Replaces(spent', spent, w, s, spent[w][s] + amount)
      /\ Sum(t) = IF cell[w][Slot(t)].stamp = s THEN cell[w][Slot(t)].amount + amount ELSE amount
  BY DEF Sum
<1> HIDE DEF w, s, amount
<1>4. BucketIs(w, Slot(t), [stamp |-> s, amount |-> Sum(t)])
  <2>1. cell \in Table(Windows, 0..(WindowSeconds - 1), [stamp : Nat, amount : Nat])
    BY <1>2 DEF Table
  <2> QED BY <1>1, <1>3, <2>1, TableExcept, Zenon DEF BucketIs
<1>5. SpentIs(w, s, spent[w][s] + amount)
  <2>1. spent \in Table(Windows, 0..MaxSecond, Nat)
    BY <1>2 DEF Table
  <2> QED BY <1>1, <1>3, <2>1, TableExcept, Zenon DEF SpentIs
<1> QED
  BY <1>1, <1>2, <1>3, <1>4, <1>5, RingSwapped, Zenon

LEMMA RingStep ==
  ASSUME RingInv, [Next]_vars
  PROVE  RingInv'
<1>0. TypeOK' /\ now \in Nat /\ WindowSeconds \in Nat \ {0}
  <2>1. TypeOK'
    BY TypeStep DEF RingInv
  <2>2. now \in Nat /\ WindowSeconds \in Nat \ {0}
    BY LimiterAssumption DEF RingInv, TypeOK
  <2> QED BY <2>1, <2>2
<1>1. ASSUME UNCHANGED vars PROVE SecondInv' /\ StampInv' /\ BucketInv'
  BY <1>1 DEF RingInv, SecondInv, StampInv, BucketInv, Holds, vars
<1>2. ASSUME Tick PROVE SecondInv' /\ StampInv' /\ BucketInv'
  <2>1. now' = now + 1 /\ UNCHANGED <<cell, spent, thread>>
    BY <1>2 DEF Tick, ring
  <2>2. SecondInv'
    <3> SUFFICES ASSUME NEW t \in Threads, thread[t].pc \in {"reload", "swap"}
                 PROVE  now' - WindowSeconds < thread[t].second /\ thread[t].second <= now'
      BY <2>1 DEF SecondInv
    <3>1. now' - thread[t].second < WindowSeconds /\ thread[t].second <= now
      BY <1>2 DEF Tick, RingInv, SecondInv
    <3>2. thread[t].second \in Nat
      BY DEF RingInv, TypeOK, Locals
    <3> QED BY <1>0, <2>1, <3>1, <3>2
  <2>3. StampInv'
    <3> SUFFICES ASSUME NEW w \in Windows, NEW i \in 0..(WindowSeconds - 1)
                 PROVE  cell[w][i].stamp <= now'
      BY <2>1 DEF RingInv, StampInv
    <3>1. cell[w][i] \in [stamp : Nat, amount : Nat] /\ cell[w][i].stamp <= now
      BY DEF RingInv, TypeOK, StampInv
    <3> QED BY <1>0, <2>1, <3>1
  <2>4. BucketInv'
    <3> SUFFICES ASSUME NEW w \in Windows, NEW s \in 0..MaxSecond, now' - WindowSeconds < s
                 PROVE  Holds(w, s) = spent[w][s]
      BY <2>1 DEF BucketInv, Holds
    <3>1. now - WindowSeconds < s
      BY <1>0, <2>1
    <3> QED BY <3>1 DEF RingInv, BucketInv
  <2> QED BY <2>2, <2>3, <2>4
<1>3. ASSUME NEW t \in Threads, Request(t) PROVE SecondInv' /\ StampInv' /\ BucketInv'
  <2>0. now' = now /\ thread \in [Threads -> Locals]
    BY <1>3 DEF Request, Begin, LoadCooldown, Judge, Check, NextNonce, Abandon, Answer, AddLoad, AddSwap,
                Limited, Extend, ExtendSwap, Done, clock, RingInv, TypeOK
  <2>1. ASSUME \A u \in Threads \ {t} : thread'[u] = thread[u],
               thread'[t].pc \in {"reload", "swap"} =>
                 now - WindowSeconds < thread'[t].second /\ thread'[t].second <= now
        PROVE  SecondInv'
    <3> SUFFICES ASSUME NEW u \in Threads, thread'[u].pc \in {"reload", "swap"}
                 PROVE  now - WindowSeconds < thread'[u].second /\ thread'[u].second <= now
      BY <2>0 DEF SecondInv
    <3> QED BY <2>1 DEF RingInv, SecondInv
  <2>2. \A u \in Threads \ {t} : thread'[u] = thread[u]
    <3>1. Moves(t)
      BY <1>3, ThreadStep DEF RingInv
    <3> QED BY <2>0, <3>1 DEF Moves
  <2>3. ASSUME UNCHANGED ring PROVE StampInv' /\ BucketInv'
    BY <2>0, <2>3 DEF RingInv, StampInv, BucketInv, Holds, ring
  <2>4. ASSUME Begin(t) \/ LoadCooldown(t) \/ Judge(t) \/ Check(t) \/ NextNonce(t) \/ Abandon(t)
               \/ Answer(t) \/ Limited(t) \/ Extend(t) \/ ExtendSwap(t) \/ Done(t)
        PROVE  UNCHANGED ring /\ thread'[t].pc \notin {"reload", "swap"}
    <3>1. UNCHANGED ring
      BY <2>4 DEF Begin, LoadCooldown, Judge, Check, NextNonce, Abandon, Answer, Limited, Extend,
                  ExtendSwap, Done
    <3>2. ASSUME Begin(t) \/ LoadCooldown(t) \/ NextNonce(t) \/ Answer(t)
          PROVE  thread'[t].pc \notin {"reload", "swap"}
      <4>1. ASSUME Begin(t) PROVE thread'[t].pc = "admit"
        BY <2>0, <4>1 DEF Begin, Locals
      <4>2. ASSUME LoadCooldown(t) PROVE thread'[t].pc \in {"judge", "judgeEvent"}
        BY <2>0, <4>2 DEF LoadCooldown, Locals
      <4>3. ASSUME Answer(t) PROVE thread'[t].pc = "add"
        BY <2>0, <4>3 DEF Answer, Locals
      <4>4. ASSUME NextNonce(t) PROVE thread'[t].pc = "admit"
        BY <2>0, <4>4 DEF NextNonce, Locals
      <4> QED BY <3>2, <4>1, <4>2, <4>3, <4>4
    <3>3. ASSUME Judge(t) \/ Check(t) \/ Abandon(t) \/ Done(t) PROVE thread'[t].pc \notin {"reload", "swap"}
      BY <3>3, GoesOnOrStops DEF RingInv
    <3>4. ASSUME Limited(t) \/ Extend(t) \/ ExtendSwap(t) PROVE thread'[t].pc \notin {"reload", "swap"}
      BY <2>0, <3>4 DEF Limited, Extend, ExtendSwap, Goto, Locals
    <3> QED BY <2>4, <3>1, <3>2, <3>3, <3>4
  <2>5. ASSUME AddLoad(t)
        PROVE  UNCHANGED ring /\ now - WindowSeconds < thread'[t].second /\ thread'[t].second <= now
    <3>1. thread'[t].second = IF At(t, "add") THEN now ELSE thread[t].second
      BY <2>0, <2>5 DEF AddLoad, Locals
    <3>2. CASE At(t, "add")
      BY <1>0, <2>5, <3>1, <3>2 DEF AddLoad
    <3>3. CASE ~At(t, "add")
      BY <2>5, <3>1, <3>3 DEF AddLoad, At, RingInv, SecondInv
    <3> QED BY <3>2, <3>3
  <2>6. ASSUME AddSwap(t) PROVE SecondInv' /\ StampInv' /\ BucketInv'
    <3>1. CASE cell[Head(thread[t].todo)][Slot(t)] = thread[t].old
      <4>1. /\ Replaces(cell', cell, Head(thread[t].todo), Slot(t),
                        [stamp |-> thread[t].second, amount |-> Sum(t)])
            /\ Replaces(spent', spent, Head(thread[t].todo), thread[t].second,
                        spent[Head(thread[t].todo)][thread[t].second]
                          + Charge(thread[t].req, Head(thread[t].todo)))
            /\ Advance(t)
        BY <2>6, <3>1, Zenon DEF AddSwap, Replaces
      <4>2. StampInv' /\ BucketInv'
        BY <1>0, <2>6, <3>1, <4>1, SwapStep
      <4>3. thread'[t].pc \notin {"reload", "swap"}
        <5> DEFINE pc == CASE Len(thread[t].todo) > 1 -> "add"
                           [] Len(thread[t].todo) = 1 /\ thread[t].status = "other" -> "event"
                           [] OTHER -> "limited"
        <5>1. thread'[t].pc = pc
          <6> HIDE DEF pc
          <6>1. thread' = [thread EXCEPT ![t].todo = Tail(@), ![t].second = 0, ![t].old = Idle.old,
                                         ![t].pc = pc]
            BY <4>1 DEF Advance, pc
          <6> QED BY <2>0, <6>1 DEF Locals
        <5>2. pc \in {"add", "event", "limited"}
          BY Zenon
        <5> HIDE DEF pc
        <5> QED BY <5>1, <5>2
      <4> QED BY <2>1, <2>2, <4>2, <4>3
    <3>2. CASE cell[Head(thread[t].todo)][Slot(t)] # thread[t].old
      <4>1. Goto(t, "reload") /\ UNCHANGED ring
        BY <2>6, <3>2 DEF AddSwap
      <4>2. thread'[t].second = thread[t].second
        BY <2>0, <4>1 DEF Goto, Locals
      <4>3. now - WindowSeconds < thread'[t].second /\ thread'[t].second <= now
        BY <2>6, <4>2, SwapFacts DEF RingInv
      <4> QED BY <2>1, <2>2, <2>3, <4>1, <4>3
    <3> QED BY <3>1, <3>2
  <2> QED BY <1>3, <2>1, <2>2, <2>3, <2>4, <2>5, <2>6 DEF Request
<1> QED
  BY <1>0, <1>1, <1>2, <1>3 DEF RingInv, Next

\* Every variable keeps its type.
THEOREM TypeCorrect == Spec => []TypeOK
<1>1. Init => RingInv
  BY RingInit
<1>2. RingInv /\ [Next]_vars => RingInv'
  BY RingStep
<1>3. RingInv => TypeOK
  BY DEF RingInv
<1> QED
  BY <1>1, <1>2, <1>3, PTL DEF Spec

\* No addition to a window is lost (window.go:7-9), for any number of
\* goroutines: the ring holds, of every second of the window, all that was
\* added in it.
THEOREM NothingIsLost == Spec => []NothingLost
<1>1. Init => RingInv
  BY RingInit
<1>2. RingInv /\ [Next]_vars => RingInv'
  BY RingStep
<1>3. RingInv => NothingLost
  <2> SUFFICES ASSUME RingInv, NEW w \in Windows, NEW s \in (now - WindowSeconds + 1)..now
               PROVE  Holds(w, s) = spent[w][s]
    BY DEF NothingLost
  <2>1. now \in WindowSeconds..MaxSecond /\ WindowSeconds \in Nat \ {0} /\ MaxSecond \in Nat
    BY LimiterAssumption DEF RingInv, TypeOK
  <2>2. s \in 0..MaxSecond /\ now - WindowSeconds < s
    BY <2>1
  <2> QED BY <2>2 DEF RingInv, BucketInv
<1> QED
  BY <1>1, <1>2, <1>3, PTL DEF Spec
-----------------------------------------------------------------------------
(* The cooldown *)

\* A goroutine swaps a cooldown for a longer one.
LongerInv == \A t \in Threads : thread[t].pc = "extendSwap" => thread[t].second < thread[t].until

LEMMA CooldownStep ==
  ASSUME TypeOK, TypeOK', LongerInv, CooldownKept, [Next]_vars
  PROVE  LongerInv' /\ CooldownKept'
<1>0. now \in Nat /\ cooldown \in Nat /\ penalty \in Nat /\ thread \in [Threads -> Locals]
  BY LimiterAssumption DEF TypeOK
<1>1. ASSUME UNCHANGED vars PROVE LongerInv' /\ CooldownKept'
  BY <1>1 DEF LongerInv, CooldownKept, NowMs, vars
<1>2. ASSUME Tick PROVE LongerInv' /\ CooldownKept'
  BY <1>0, <1>2 DEF Tick, LongerInv, CooldownKept, NowMs
<1>3. ASSUME NEW t \in Threads, Request(t) PROVE LongerInv' /\ CooldownKept'
  <2>0. thread[t] \in Locals /\ thread[t].until \in Nat /\ thread[t].second \in Nat
    BY <1>0 DEF Locals
  <2>1. \A u \in Threads \ {t} : thread'[u] = thread[u]
    <3>1. Moves(t)
      BY <1>3, ThreadStep
    <3> QED BY <1>0, <3>1 DEF Moves
  <2>2. ASSUME thread'[t].pc = "extendSwap" => thread'[t].second < thread'[t].until PROVE LongerInv'
    <3> SUFFICES ASSUME NEW u \in Threads, thread'[u].pc = "extendSwap"
                 PROVE  thread'[u].second < thread'[u].until
      BY DEF LongerInv
    <3> QED BY <2>1, <2>2 DEF LongerInv
  <2>3. ASSUME Begin(t) \/ LoadCooldown(t) \/ Judge(t) \/ Check(t) \/ NextNonce(t) \/ Abandon(t)
               \/ Answer(t) \/ AddLoad(t) \/ AddSwap(t) \/ Limited(t) \/ Done(t)
        PROVE  thread'[t].pc # "extendSwap"
    <3>1. ASSUME Begin(t) \/ LoadCooldown(t) \/ NextNonce(t) \/ Answer(t) \/ AddLoad(t) \/ Limited(t)
          PROVE  thread'[t].pc # "extendSwap"
      <4>1. ASSUME Begin(t) PROVE thread'[t].pc = "admit"
        BY <1>0, <4>1 DEF Begin, Locals
      <4>2. ASSUME LoadCooldown(t) PROVE thread'[t].pc \in {"judge", "judgeEvent"}
        BY <1>0, <4>2 DEF LoadCooldown, Locals
      <4>3. ASSUME Answer(t) PROVE thread'[t].pc = "add"
        BY <1>0, <4>3 DEF Answer, Locals
      <4>4. ASSUME AddLoad(t) PROVE thread'[t].pc = "swap"
        BY <1>0, <4>4 DEF AddLoad, Locals
      <4>5. ASSUME Limited(t) PROVE thread'[t].pc = "extend"
        BY <1>0, <4>5 DEF Limited, Locals
      <4>6. ASSUME NextNonce(t) PROVE thread'[t].pc = "admit"
        BY <1>0, <4>6 DEF NextNonce, Locals
      <4> QED BY <3>1, <4>1, <4>2, <4>3, <4>4, <4>5, <4>6
    <3>2. ASSUME Judge(t) \/ Check(t) \/ Abandon(t) \/ Done(t) PROVE thread'[t].pc # "extendSwap"
      BY <3>2, GoesOnOrStops
    <3>3. ASSUME AddSwap(t) PROVE thread'[t].pc # "extendSwap"
      <4> DEFINE pc == CASE Len(thread[t].todo) > 1 -> "add"
                         [] Len(thread[t].todo) = 1 /\ thread[t].status = "other" -> "event"
                         [] OTHER -> "limited"
      <4>1. ASSUME Advance(t) PROVE thread'[t].pc = pc
        <5> HIDE DEF pc
        <5>1. thread' = [thread EXCEPT ![t].todo = Tail(@), ![t].second = 0, ![t].old = Idle.old,
                                       ![t].pc = pc]
          BY <4>1 DEF Advance, pc
        <5> QED BY <1>0, <5>1 DEF Locals
      <4>2. pc \in {"add", "event", "limited"}
        BY Zenon
      <4>3. ASSUME Goto(t, "reload") PROVE thread'[t].pc = "reload"
        BY <1>0, <4>3 DEF Goto, Locals
      <4> HIDE DEF pc
      <4> QED BY <3>3, <4>1, <4>2, <4>3 DEF AddSwap
    <3> QED BY <2>3, <3>1, <3>2, <3>3
  <2>4. ASSUME Begin(t) \/ LoadCooldown(t) \/ Check(t) \/ NextNonce(t) \/ Abandon(t) \/ Answer(t)
               \/ AddLoad(t) \/ AddSwap(t) \/ Limited(t)
        PROVE  LongerInv' /\ CooldownKept'
    <3>1. UNCHANGED <<now, cooldown, penalty>>
      BY <2>4, Zenon DEF Begin, LoadCooldown, Check, NextNonce, Abandon, Answer, AddLoad, AddSwap, Limited,
                         clock
    <3> QED BY <2>2, <2>3, <2>4, <3>1 DEF CooldownKept, NowMs
  <2>5. ASSUME Judge(t) \/ Done(t) PROVE LongerInv' /\ CooldownKept'
    <3>1. UNCHANGED <<now, penalty>> /\ Clear(t)
      BY <2>5 DEF Judge, Done, clock
    <3>2. CooldownKept'
      BY <1>0, <2>0, <3>1 DEF Clear, Expired, CooldownKept, NowMs
    <3> QED BY <2>2, <2>3, <2>5, <3>2
  <2>6. ASSUME Extend(t) PROVE LongerInv' /\ CooldownKept'
    <3>1. CASE cooldown >= thread[t].until
      <4>1. Goto(t, "event") /\ Ordered(t) /\ UNCHANGED <<now, cooldown>>
        BY <2>6, <3>1 DEF Extend, clock
      <4>2. thread'[t].pc = "event"
        BY <1>0, <4>1 DEF Goto, Locals
      <4>3. CooldownKept'
        BY <1>0, <2>0, <3>1, <4>1 DEF Ordered, CooldownKept, NowMs
      <4> QED BY <2>2, <4>2, <4>3
    <3>2. CASE ~(cooldown >= thread[t].until)
      <4>1. /\ thread' = [thread EXCEPT ![t].pc = "extendSwap", ![t].second = cooldown]
            /\ UNCHANGED <<now, cooldown, penalty>>
        BY <2>6, <3>2 DEF Extend, clock
      <4>2. thread'[t].second = cooldown /\ thread'[t].until = thread[t].until
        BY <1>0, <4>1 DEF Locals
      <4>3. thread'[t].second < thread'[t].until
        BY <1>0, <2>0, <3>2, <4>2
      <4> QED BY <2>2, <4>1, <4>3 DEF CooldownKept, NowMs
    <3> QED BY <3>1, <3>2
  <2>7. ASSUME ExtendSwap(t) PROVE LongerInv' /\ CooldownKept'
    <3>1. thread[t].second < thread[t].until /\ UNCHANGED now
      BY <2>7 DEF ExtendSwap, At, LongerInv, clock
    <3>2. thread'[t].pc # "extendSwap"
      BY <1>0, <2>7 DEF ExtendSwap, Goto, Locals
    <3>3. CooldownKept'
      BY <1>0, <2>0, <2>7, <3>1 DEF ExtendSwap, Ordered, CooldownKept, NowMs
    <3> QED BY <2>2, <3>2, <3>3
  <2> QED BY <1>3, <2>4, <2>5, <2>6, <2>7 DEF Request
<1> QED
  BY <1>1, <1>2, <1>3 DEF Next

\* A cooldown that was ordered stays in force to its end, for any number of
\* goroutines that order, read and clean up cooldowns at once.
THEOREM CooldownIsKept == Spec => []CooldownKept
<1>1. Init => LongerInv /\ CooldownKept
  BY LimiterAssumption DEF Init, LongerInv, CooldownKept, Idle, NowMs
<1>2. TypeOK /\ TypeOK' /\ LongerInv /\ CooldownKept /\ [Next]_vars => (LongerInv /\ CooldownKept)'
  BY CooldownStep
<1> QED
  BY <1>1, <1>2, TypeCorrect, PTL DEF Spec
-----------------------------------------------------------------------------
(* The budgets.  A goroutine owes a window what it was admitted with and has  *)
(* not charged yet: for the request it makes, and for the send that waits     *)
(* for it.  So it may be a debtor twice, as a reader and as a sender, but as  *)
(* both to one window only where the tier has reads and sends share it.  What *)
(* a window holds, with the largest request of each debtor, stays within the  *)
(* budget and the largest request of all possible debtors but one, or would   *)
(* if one of them owed no more than its own request: the one that was         *)
(* admitted last found room for it.                                           *)

Sides == {"read", "send"}
Side(req) == IF req.kind = "send" THEN "send" ELSE "read"
Debtors == Threads \X Sides

\* The request of a side of a goroutine, and whether a window waits for it.
Asked(l, side) == IF side = Side(l.req) THEN l.req ELSE SendOf(l.waiting)
Owes(l, w) == \/ l.pc = "check" /\ w \in Range(Admitted(l.req)) /\ w \notin Range(l.todo)
              \/ l.pc = "sent" /\ w \in Range(Admitted(l.req))
              \/ l.pc \in {"add", "reload", "swap"} /\ w \in Range(l.todo)
Due(l, side, w) == IF side = Side(l.req) THEN Owes(l, w)
                   ELSE side = "send" /\ l.waiting # 0 /\ w \in Range(Admitted(SendOf(l.waiting)))
Owing(w) == {x \in Debtors : Due(thread[x[1]], x[2], w)}
Debt(w) == [x \in Debtors |-> Charge(Asked(thread[x[1]], x[2]), w)]
Most(w) == Cardinality(Threads) * AtOnce(w)
Room(w) == Limit[w] + (Most(w) - 1) * Largest(w)

Within(used, owing, debt, largest, room) ==
  \/ used + Cardinality(owing) * largest <= room
  \/ \E x \in owing : used + (Cardinality(owing) - 1) * largest + debt[x] <= room
BudgetInv == \A w \in Windows : Within(Used(w), Owing(w), Debt(w), Largest(w), Room(w))

\* What is still to be charged names windows the request was checked against,
\* each once.
Distinct(q) == \A i, j \in 1..Len(q) : q[i] = q[j] => i = j
Listed(l) == l.pc \in {"add", "reload", "swap"} =>
               Distinct(l.todo) /\ \A w \in Range(l.todo) : w \in Range(Admitted(l.req))
\* Only a read has a send waiting for it.
Nested(l) == l.waiting # 0 => Side(l.req) = "read" /\ l.pc # "idle"
LocalInv == \A t \in Threads : Listed(thread[t]) /\ Nested(thread[t])

\* What a finite set is mapped to has a bound.
LEMMA FiniteBounded ==
  ASSUME NEW S, IsFiniteSet(S), NEW g \in [S -> Nat]
  PROVE  \E b \in Nat : \A x \in S : g[x] <= b
<1>1. PICK n \in Nat : ExistsSurjection(1..n, S)
  BY FS_NatSurjection
<1>a. PICK e \in [1..n -> S] : \A x \in S : \E i \in 1..n : e[i] = x
  BY <1>1 DEF ExistsSurjection, Surjection
<1>2. PICK f \in [1..n -> Nat] : \A i \in 1..n : f[i] = g[e[i]]
  <2>1. [i \in 1..n |-> g[e[i]]] \in [1..n -> Nat]
    OBVIOUS
  <2> QED BY <2>1
<1> DEFINE T == {m \in Nat : \E b \in Nat : \A i \in 1..n : i <= m => f[i] <= b}
<1>3. 0 \in T
  OBVIOUS
<1>4. ASSUME NEW m \in 1..n, m - 1 \in T PROVE m \in T
  <2>1. PICK b \in Nat : \A i \in 1..n : i <= m - 1 => f[i] <= b
    BY <1>4
  <2>2. f[m] \in Nat
    BY <1>2
  <2>3. PICK d \in Nat : b <= d /\ f[m] <= d
    <3>1. CASE b <= f[m] BY <2>2, <3>1
    <3>2. CASE f[m] <= b BY <2>2, <3>2
    <3> QED BY <2>2, <3>1, <3>2
  <2>4. ASSUME NEW i \in 1..n, i <= m PROVE f[i] <= d
    <3>1. f[i] \in Nat
      BY <1>2
    <3>2. CASE i = m BY <2>3, <3>2
    <3>3. CASE i # m
      <4>1. i <= m - 1 BY <2>4, <3>3
      <4> QED BY <2>1, <2>3, <3>1, <4>1
    <3> QED BY <3>2, <3>3
  <2> QED BY <2>4
<1>5. n \in T
  <2> HIDE DEF T
  <2>1. \A i \in 0..n : i \in T
    BY <1>3, <1>4, BoundedInduction, Zenon
  <2>2. n \in 0..n
    OBVIOUS
  <2> QED BY <2>1, <2>2
<1>6. PICK b \in Nat : \A i \in 1..n : f[i] <= b
  BY <1>5
<1> QED
  BY <1>a, <1>2, <1>6

\* No request is larger than the largest.
LEMMA LargestBounds ==
  ASSUME NEW w \in Windows
  PROVE  Largest(w) \in Nat /\ \A req \in Requests : Charge(req, w) <= Largest(w)
<1> DEFINE charges == {Charge(req, w) : req \in Requests}
<1>1. PICK b \in Nat : \A x \in Batches : x <= b
  <2> DEFINE g == [x \in Batches |-> x]
  <2>1. g \in [Batches -> Nat] /\ IsFiniteSet(Batches)
    BY LimiterAssumption
  <2>2. \A x \in Batches : g[x] = x
    OBVIOUS
  <2> HIDE DEF g
  <2> QED BY <2>1, <2>2, FiniteBounded
<1>2. PICK m \in Nat : b <= m /\ 1 <= m /\ \A k \in Reads \cup {"send"} : Weight[k] <= m
  <2>1. IsFiniteSet(Reads \cup {"send"})
    BY FS_AddElement, LimiterAssumption
  <2>2. Weight \in [Reads \cup {"send"} -> Nat]
    BY LimiterAssumption
  <2>4. PICK c \in Nat : \A k \in Reads \cup {"send"} : Weight[k] <= c
    BY <2>1, <2>2, FiniteBounded
  <2>5. b + 1 + c \in Nat /\ b <= b + 1 + c /\ 1 <= b + 1 + c
    OBVIOUS
  <2>6. ASSUME NEW k \in Reads \cup {"send"} PROVE Weight[k] <= b + 1 + c
    <3>1. Weight[k] \in Nat /\ Weight[k] <= c
      BY <2>4, LimiterAssumption
    <3> QED BY <3>1
  <2> QED BY <2>5, <2>6
<1>3. ASSUME NEW req \in Requests PROVE Charge(req, w) \in 1..m
  <2>1. req.kind \in Reads \cup {"send"} /\ (req.count = 1 \/ req.count \in Batches)
    BY DEF Requests
  <2>2. req.count \in 1..m
    <3>1. CASE req.count = 1
      BY <1>2, <3>1
    <3>2. CASE req.count \in Batches
      <4>1. req.count \in Nat \ {0}
        BY <3>2, LimiterAssumption
      <4>2. req.count <= b
        BY <1>1, <3>2
      <4> QED BY <1>2, <4>1, <4>2
    <3> QED BY <2>1, <3>1, <3>2
  <2>3. Weight[req.kind] \in 1..m
    BY <1>2, <2>1, LimiterAssumption
  <2> QED BY <1>2, <2>2, <2>3 DEF Charge
<1>4. charges \in SUBSET (1..m)
  BY <1>3
<1>5. charges # {}
  <2>1. NonceRead \in Requests
    BY LimiterAssumption DEF Requests, NonceRead
  <2>2. Charge(NonceRead, w) \in charges
    BY <2>1
  <2> QED BY <2>2
<1>6. Max(charges) \in charges /\ \A y \in charges : y <= Max(charges)
  <2> HIDE DEF charges
  <2> QED BY <1>4, <1>5, MaxOfIndices
<1> QED
  BY <1>4, <1>6 DEF Largest

(* Sums over a ring *)
Parts(w) == [i \in 0..(WindowSeconds - 1) |-> Counted(w, i)]
Totals(f, g) == /\ f \in [0..WindowSeconds -> Nat] /\ f[0] = 0
                /\ \A i \in 1..WindowSeconds : f[i] = f[i - 1] + g[i - 1]

LEMMA TotalsExist ==
  ASSUME NEW g \in [0..(WindowSeconds - 1) -> Nat]
  PROVE  \E f : Totals(f, g)
<1> DEFINE Up(f, n) == f[0] = 0 /\ \A i \in 1..n : f[i] = f[i - 1] + g[i - 1]
           T == {n \in 0..WindowSeconds : \E f \in [0..WindowSeconds -> Nat] : Up(f, n)}
<1>0. WindowSeconds \in Nat /\ 0 \in 0..WindowSeconds
  BY LimiterAssumption
<1>1. 0 \in T
  <2>1. [i \in 0..WindowSeconds |-> 0] \in [0..WindowSeconds -> Nat] /\ Up([i \in 0..WindowSeconds |-> 0], 0)
    BY <1>0
  <2> QED BY <1>0, <2>1
<1>2. ASSUME NEW n \in 1..WindowSeconds, n - 1 \in T PROVE n \in T
  <2>1. PICK f \in [0..WindowSeconds -> Nat] : Up(f, n - 1)
    BY <1>2
  <2> DEFINE v == f[n - 1] + g[n - 1]
             e == [f EXCEPT ![n] = v]
  <2>2. n - 1 \in 0..(WindowSeconds - 1) /\ n - 1 \in 0..WindowSeconds /\ n \in 0..WindowSeconds /\ n # 0
    BY <1>0
  <2>3. v \in Nat
    BY <2>2
  <2> HIDE DEF v
  <2>4. e \in [0..WindowSeconds -> Nat] /\ e[n] = v
        /\ \A i \in 0..WindowSeconds : i # n => e[i] = f[i]
    BY <2>2, <2>3
  <2> HIDE DEF e
  <2>5. e[0] = 0
    BY <1>0, <2>1, <2>2, <2>4
  <2>6. ASSUME NEW i \in 1..n PROVE e[i] = e[i - 1] + g[i - 1]
    <3>1. i \in 0..WindowSeconds /\ i - 1 \in 0..WindowSeconds /\ i - 1 # n
      BY <1>0, <2>2
    <3>2. e[i - 1] = f[i - 1]
      BY <2>4, <3>1
    <3>3. CASE i = n
      BY <2>4, <3>2, <3>3 DEF v
    <3>4. CASE i # n
      <4>1. i \in 1..(n - 1) BY <3>4
      <4>2. e[i] = f[i] BY <2>4, <3>1, <3>4
      <4> QED BY <2>1, <3>2, <4>1, <4>2
    <3> QED BY <3>3, <3>4
  <2> QED BY <2>2, <2>4, <2>5, <2>6
<1>3. WindowSeconds \in T
  <2> HIDE DEF T
  <2>1. WindowSeconds \in 0..WindowSeconds BY <1>0
  <2> QED BY <1>0, <1>1, <1>2, <2>1, BoundedInduction
<1> QED
  BY <1>3 DEF Totals

\* A ring that is lower everywhere but in one bucket, and there higher by an
\* amount at most, adds up to a total higher by that amount at most.
LEMMA TotalsGrow ==
  ASSUME NEW g \in [0..(WindowSeconds - 1) -> Nat], NEW h \in [0..(WindowSeconds - 1) -> Nat],
         NEW f, NEW e, Totals(f, g), Totals(e, h),
         NEW k \in 0..(WindowSeconds - 1), NEW c \in Nat,
         \A i \in 0..(WindowSeconds - 1) : i # k => h[i] <= g[i],
         h[k] <= g[k] + c
  PROVE  e[WindowSeconds] <= f[WindowSeconds] + c
<1> DEFINE T == {i \in 0..WindowSeconds : IF i <= k THEN e[i] <= f[i] ELSE e[i] <= f[i] + c}
<1>0. WindowSeconds \in Nat \ {0} /\ 0 \in 0..WindowSeconds /\ k \in Nat
  BY LimiterAssumption
<1>1. 0 \in T
  BY <1>0 DEF Totals
<1>2. ASSUME NEW n \in 1..WindowSeconds, n - 1 \in T PROVE n \in T
  <2>1. n - 1 \in 0..(WindowSeconds - 1) /\ n \in 0..WindowSeconds /\ n - 1 \in 0..WindowSeconds
    BY <1>0
  <2>2. e[n] = e[n - 1] + h[n - 1] /\ f[n] = f[n - 1] + g[n - 1]
    BY DEF Totals
  <2>3. e[n - 1] \in Nat /\ f[n - 1] \in Nat /\ h[n - 1] \in Nat /\ g[n - 1] \in Nat
    BY <2>1 DEF Totals
  <2>4. IF n - 1 <= k THEN e[n - 1] <= f[n - 1] ELSE e[n - 1] <= f[n - 1] + c
    BY <1>2
  <2>5. n - 1 # k => h[n - 1] <= g[n - 1]
    BY <2>1
  <2>6. n - 1 = k => h[n - 1] <= g[n - 1] + c
    OBVIOUS
  <2>7. IF n <= k THEN e[n] <= f[n] ELSE e[n] <= f[n] + c
    <3>1. CASE n <= k
      <4>1. n - 1 <= k /\ n - 1 # k
        BY <1>0, <3>1
      <4>2. e[n - 1] <= f[n - 1] /\ h[n - 1] <= g[n - 1]
        BY <2>4, <2>5, <4>1, Zenon
      <4> QED BY <2>2, <2>3, <3>1, <4>2
    <3>2. CASE n - 1 = k
      <4>1. n - 1 <= k /\ ~(n <= k)
        BY <1>0, <3>2
      <4>2. e[n - 1] <= f[n - 1] /\ h[n - 1] <= g[n - 1] + c
        BY <2>4, <2>6, <3>2, <4>1, Zenon
      <4> QED BY <2>2, <2>3, <4>1, <4>2
    <3>3. CASE ~(n <= k) /\ n - 1 # k
      <4>1. ~(n - 1 <= k)
        BY <1>0, <3>3
      <4>2. e[n - 1] <= f[n - 1] + c /\ h[n - 1] <= g[n - 1]
        BY <2>4, <2>5, <3>3, <4>1, Zenon
      <4> QED BY <2>2, <2>3, <3>3, <4>2
    <3> QED BY <3>1, <3>2, <3>3
  <2> QED BY <2>1, <2>7
<1>3. WindowSeconds \in T
  <2> HIDE DEF T
  <2>1. WindowSeconds \in 0..WindowSeconds BY <1>0
  <2> QED BY <1>0, <1>1, <1>2, <2>1, BoundedInduction
<1> QED
  BY <1>0, <1>3

\* What a window has used is the total of what its buckets count.
UsedIsTotal == \A w \in Windows : /\ Parts(w) \in [0..(WindowSeconds - 1) -> Nat]
                                  /\ \E f : Totals(f, Parts(w)) /\ Used(w) = f[WindowSeconds]
LEMMA UsedTotals == TypeOK => UsedIsTotal
<1> SUFFICES ASSUME TypeOK, NEW w \in Windows
             PROVE  /\ Parts(w) \in [0..(WindowSeconds - 1) -> Nat]
                    /\ \E f : Totals(f, Parts(w)) /\ Used(w) = f[WindowSeconds]
  BY DEF UsedIsTotal
<1>0. WindowSeconds \in Nat \ {0}
  BY LimiterAssumption
<1>1. \A i \in 0..(WindowSeconds - 1) : Counted(w, i) \in Nat
  <2> SUFFICES ASSUME NEW i \in 0..(WindowSeconds - 1) PROVE Counted(w, i) \in Nat
    OBVIOUS
  <2>1. cell[w][i] \in [stamp : Nat, amount : Nat]
    BY DEF TypeOK
  <2> QED BY <2>1 DEF Counted
<1>2. Parts(w) \in [0..(WindowSeconds - 1) -> Nat]
  BY <1>1 DEF Parts
<1> DEFINE Sums(h) == h = [i \in 0..WindowSeconds |-> IF i = 0 THEN 0 ELSE h[i - 1] + Counted(w, i - 1)]
           total == CHOOSE h : Sums(h)
<1>3. \E h : Sums(h)
  <2>1. PICK h : Totals(h, Parts(w))
    BY <1>2, TotalsExist
  <2>2. h \in [0..WindowSeconds -> Nat] /\ h[0] = 0
        /\ \A i \in 1..WindowSeconds : h[i] = h[i - 1] + Parts(w)[i - 1]
    BY <2>1 DEF Totals
  <2>3. ASSUME NEW i \in 0..WindowSeconds
        PROVE  h[i] = IF i = 0 THEN 0 ELSE h[i - 1] + Counted(w, i - 1)
    <3>1. CASE i = 0 BY <2>2, <3>1
    <3>2. CASE i # 0
      <4>1. i \in 1..WindowSeconds /\ i - 1 \in 0..(WindowSeconds - 1) BY <1>0, <3>2
      <4>2. Parts(w)[i - 1] = Counted(w, i - 1) BY <4>1 DEF Parts
      <4> QED BY <2>2, <3>2, <4>1, <4>2
    <3> QED BY <3>1, <3>2
  <2>4. Sums(h)
    BY <2>2, <2>3
  <2> QED BY <2>4
<1>4. Sums(total)
  <2> HIDE DEF Sums
  <2> QED BY <1>3
<1>5. Used(w) = total[WindowSeconds]
  BY DEF Used
<1> HIDE DEF total
<1>6. \A i \in 0..WindowSeconds :
        total[i] = IF i = 0 THEN 0 ELSE total[i - 1] + Counted(w, i - 1)
  <2>1. total = [i \in 0..WindowSeconds |-> IF i = 0 THEN 0 ELSE total[i - 1] + Counted(w, i - 1)]
    BY <1>4
  <2> DEFINE R(i) == IF i = 0 THEN 0 ELSE total[i - 1] + Counted(w, i - 1)
             F == [i \in 0..WindowSeconds |-> R(i)]
  <2>2. \A i \in 0..WindowSeconds : F[i] = R(i)
    <3> HIDE DEF R
    <3> QED OBVIOUS
  <2>3. total = F BY <2>1
  <2> HIDE DEF F
  <2> QED BY <2>2, <2>3
<1>7. \A i \in 0..WindowSeconds : total[i] \in Nat
  <2> DEFINE T == {i \in 0..WindowSeconds : total[i] \in Nat}
  <2>1. 0 \in T
    BY <1>0, <1>6
  <2>2. ASSUME NEW n \in 1..WindowSeconds, n - 1 \in T PROVE n \in T
    <3>1. n \in 0..WindowSeconds /\ n # 0 /\ n - 1 \in 0..(WindowSeconds - 1)
      BY <1>0
    <3>2. total[n] = total[n - 1] + Counted(w, n - 1)
      BY <1>6, <3>1
    <3>3. total[n - 1] \in Nat /\ Counted(w, n - 1) \in Nat
      BY <1>1, <2>2, <3>1
    <3> QED BY <3>1, <3>2, <3>3
  <2>3. \A i \in 0..WindowSeconds : i \in T
    <3> HIDE DEF T
    <3> QED BY <1>0, <2>1, <2>2, BoundedInduction
  <2> QED BY <2>3
<1>8. Totals(total, Parts(w))
  <2>1. total \in [0..WindowSeconds -> Nat]
    <3>1. total = [i \in 0..WindowSeconds |-> total[i]]
      <4>1. DOMAIN total = 0..WindowSeconds /\ total = [i \in DOMAIN total |-> total[i]]
        BY <1>4
      <4> QED BY <4>1
    <3> QED BY <1>7, <3>1
  <2>2. total[0] = 0
    BY <1>0, <1>6
  <2>3. ASSUME NEW i \in 1..WindowSeconds PROVE total[i] = total[i - 1] + Parts(w)[i - 1]
    <3>1. i \in 0..WindowSeconds /\ i # 0 /\ i - 1 \in 0..(WindowSeconds - 1)
      BY <1>0
    <3>2. Parts(w)[i - 1] = Counted(w, i - 1)
      BY <3>1 DEF Parts
    <3> QED BY <1>6, <3>1, <3>2
  <2> QED BY <2>1, <2>2, <2>3 DEF Totals
<1> QED
  BY <1>2, <1>5, <1>8

LEMMA UsedGrows ==
  ASSUME TypeOK, TypeOK', NEW w \in Windows,
         NEW k \in 0..(WindowSeconds - 1), NEW c \in Nat,
         \A i \in 0..(WindowSeconds - 1) : i # k => Counted(w, i)' <= Counted(w, i),
         Counted(w, k)' <= Counted(w, k) + c
  PROVE  Used(w) \in Nat /\ Used(w)' \in Nat /\ Used(w)' <= Used(w) + c
<1>0. WindowSeconds \in Nat \ {0} /\ WindowSeconds \in 0..WindowSeconds
  BY LimiterAssumption
<1>1. PICK f : Totals(f, Parts(w)) /\ Used(w) = f[WindowSeconds]
  BY UsedTotals DEF UsedIsTotal
<1>2. UsedIsTotal'
  <2>1. TypeOK' => UsedIsTotal'
    BY UsedTotals, PTL
  <2> QED BY <2>1
<1>3. PICK e : Totals(e, Parts(w)') /\ Used(w)' = e[WindowSeconds]
  BY <1>2 DEF UsedIsTotal
<1> DEFINE g == Parts(w)
           h == Parts(w)'
<1>4. g \in [0..(WindowSeconds - 1) -> Nat] /\ h \in [0..(WindowSeconds - 1) -> Nat]
  BY <1>2, UsedTotals DEF UsedIsTotal
<1>5. \A i \in 0..(WindowSeconds - 1) : g[i] = Counted(w, i) /\ h[i] = Counted(w, i)'
  BY DEF Parts
<1>6. \A i \in 0..(WindowSeconds - 1) : i # k => h[i] <= g[i]
  BY <1>5
<1>7. h[k] <= g[k] + c
  BY <1>5
<1>8. f[WindowSeconds] \in Nat /\ e[WindowSeconds] \in Nat
  BY <1>0, <1>1, <1>3 DEF Totals
<1>9. e[WindowSeconds] <= f[WindowSeconds] + c
  <2> HIDE DEF g, h
  <2>1. Totals(f, g) /\ Totals(e, h) BY <1>1, <1>3 DEF g, h
  <2> QED BY <1>4, <1>6, <1>7, <2>1, TotalsGrow
<1> QED
  BY <1>1, <1>3, <1>8, <1>9

(* Who owes a window *)

LEMMA Multiples ==
  ASSUME NEW L \in Nat, NEW a \in Int
  PROVE  a * L \in Int /\ (a + 1) * L = a * L + L /\ (a - 1) * L = a * L - L
  BY Z3
LEMMA MoreMultiples ==
  ASSUME NEW L \in Nat, NEW a \in Int, NEW b \in Int, a <= b
  PROVE  a * L <= b * L
<1>1. (b - a) * L = b * L - a * L /\ (b - a) * L >= 0 /\ a * L \in Int /\ b * L \in Int
  <2>1. b - a \in Nat
    OBVIOUS
  <2>2. (b - a) * L >= 0
    BY <2>1, ProductNat
  <2>3. (b - a) * L = b * L - a * L /\ a * L \in Int /\ b * L \in Int
    BY Z3
  <2> QED BY <2>2, <2>3
<1> QED
  BY <1>1

\* Some debtors gave up, the others owe what they owed, and the window has not
\* grown.
LEMMA WithinLess ==
  ASSUME NEW U \in Int, NEW V \in Int, V <= U, NEW C, IsFiniteSet(C), NEW D \in SUBSET C,
         NEW L \in Nat, NEW R \in Int, NEW d, NEW e,
         \A x \in C : d[x] \in Nat, \A x \in D : e[x] = d[x], Within(U, C, d, L, R)
  PROVE  Within(V, D, e, L, R)
<1> DEFINE k == Cardinality(C)
           n == Cardinality(D)
<1>1. k \in Nat /\ n \in Nat /\ n <= k
  BY FS_Subset, FS_CardinalityType
<1>2. /\ k * L \in Int /\ n * L \in Int /\ (k - 1) * L \in Int /\ (n - 1) * L \in Int
      /\ n * L <= k * L /\ (n - 1) * L <= (k - 1) * L
  <2>1. k \in Int /\ n \in Int /\ k - 1 \in Int /\ n - 1 \in Int /\ n - 1 <= k - 1
    BY <1>1
  <2> HIDE DEF k, n
  <2> QED BY <1>1, <2>1, Multiples, MoreMultiples
<1>3. CASE U + k * L <= R
  <2>1. V + n * L <= R
    <3> HIDE DEF k, n
    <3> QED BY <1>2, <1>3
  <2> QED BY <2>1 DEF Within
<1>4. CASE \E x \in C : U + (k - 1) * L + d[x] <= R
  <2>1. PICK x \in C : U + (k - 1) * L + d[x] <= R
    BY <1>4
  <2>2. d[x] \in Nat
    OBVIOUS
  <2>3. CASE x \in D
    <3>1. V + (n - 1) * L + e[x] <= R
      <4>1. e[x] = d[x]
        BY <2>3
      <4> HIDE DEF k, n
      <4> QED BY <1>2, <2>1, <2>2, <4>1
    <3> QED BY <2>3, <3>1 DEF Within
  <2>4. CASE x \notin D
    <3>1. n <= k - 1
      <4>1. D \in SUBSET (C \ {x}) /\ IsFiniteSet(C \ {x}) /\ Cardinality(C \ {x}) = k - 1
        BY <2>4, FS_RemoveElement
      <4> QED BY <4>1, FS_Subset
    <3>2. n * L <= (k - 1) * L
      <4>1. n \in Int /\ k - 1 \in Int BY <1>1
      <4> HIDE DEF k, n
      <4> QED BY <3>1, <4>1, MoreMultiples
    <3>3. V + n * L <= R
      <4> HIDE DEF k, n
      <4> QED BY <1>2, <2>1, <2>2, <3>2
    <3> QED BY <3>3 DEF Within
  <2> QED BY <2>3, <2>4
<1> QED
  BY <1>3, <1>4 DEF Within

\* A debtor has paid: the window has grown by no more than its request.
LEMMA WithinPaid ==
  ASSUME NEW U \in Int, NEW V \in Int, NEW C, IsFiniteSet(C), NEW L \in Nat, NEW R \in Int,
         NEW d, NEW e, \A x \in C : d[x] \in Nat, NEW t \in C,
         \A u \in C \ {t} : e[u] = d[u], d[t] <= L, V <= U + d[t],
         Within(U, C, d, L, R)
  PROVE  Within(V, C \ {t}, e, L, R)
<1> DEFINE k == Cardinality(C)
<1>1. k \in Nat /\ Cardinality(C \ {t}) = k - 1
  BY FS_CardinalityType, FS_RemoveElement
<1>2. k * L \in Int /\ (k - 1) * L = k * L - L /\ ((k - 1) - 1) * L = k * L - L - L
  <2>1. k \in Int /\ k - 1 \in Int BY <1>1
  <2> HIDE DEF k
  <2> QED BY <2>1, Multiples
<1> HIDE DEF k
<1>3. d[t] \in Nat
  OBVIOUS
<1>4. CASE U + k * L <= R
  <2>1. V + (k - 1) * L <= R
    BY <1>2, <1>3, <1>4
  <2> QED BY <1>1, <2>1 DEF Within
<1>5. CASE \E u \in C : U + (k - 1) * L + d[u] <= R
  <2>1. PICK u \in C : U + (k - 1) * L + d[u] <= R
    BY <1>5
  <2>2. CASE u = t
    <3>1. V + (k - 1) * L <= R
      BY <1>2, <1>3, <2>1, <2>2
    <3> QED BY <1>1, <3>1 DEF Within
  <2>3. CASE u # t
    <3>1. u \in C \ {t} /\ e[u] = d[u] /\ d[u] \in Nat
      BY <2>3
    <3>2. V + ((k - 1) - 1) * L + e[u] <= R
      BY <1>2, <1>3, <2>1, <3>1
    <3> QED BY <1>1, <3>1, <3>2 DEF Within
  <2> QED BY <2>2, <2>3
<1>6. \/ U + k * L <= R
      \/ \E u \in C : U + (k - 1) * L + d[u] <= R
  BY DEF Within, k
<1> QED
  BY <1>4, <1>5, <1>6

\* A debtor was admitted: there was room for its request.
LEMMA WithinTaken ==
  ASSUME NEW U \in Int, NEW C, IsFiniteSet(C), NEW N \in Nat, Cardinality(C) <= N,
         NEW L \in Nat, NEW B \in Int, NEW e, NEW t \in C, e[t] \in Nat, U + e[t] <= B
  PROVE  Within(U, C, e, L, B + (N - 1) * L)
<1> DEFINE k == Cardinality(C)
<1>1. k \in Nat
  BY FS_CardinalityType
<1>2. (k - 1) * L <= (N - 1) * L /\ (k - 1) * L \in Int /\ (N - 1) * L \in Int
  <2>1. k - 1 \in Int /\ N - 1 \in Int /\ k - 1 <= N - 1 BY <1>1
  <2> HIDE DEF k
  <2> QED BY <2>1, MoreMultiples, Multiples
<1>3. U + (k - 1) * L + e[t] <= B + (N - 1) * L
  <2> HIDE DEF k
  <2> QED BY <1>2
<1> QED
  BY <1>3 DEF Within

\* Whatever is owed, the window is within the bound.
LEMMA WithinBounds ==
  ASSUME NEW U \in Int, NEW C, IsFiniteSet(C), NEW L \in Nat, NEW R \in Int,
         NEW d, \A x \in C : d[x] \in Nat, Within(U, C, d, L, R)
  PROVE  U <= R
<1> DEFINE k == Cardinality(C)
<1>1. k \in Nat /\ (C # {} => k >= 1)
  <2>1. k \in Nat BY FS_CardinalityType
  <2>2. k = 0 => C = {} BY <2>1, FS_EmptySet
  <2> QED BY <2>1, <2>2
<1>2. CASE U + k * L <= R
  <2>1. k * L \in Nat
    <3> HIDE DEF k
    <3> QED BY <1>1, ProductNat
  <2> QED BY <1>2, <2>1
<1>3. CASE \E u \in C : U + (k - 1) * L + d[u] <= R
  <2>1. PICK u \in C : U + (k - 1) * L + d[u] <= R
    BY <1>3
  <2>2. k - 1 \in Nat
    BY <1>1
  <2>3. (k - 1) * L \in Nat /\ d[u] \in Nat
    <3> HIDE DEF k
    <3> QED BY <2>2, ProductNat
  <2> QED BY <2>1, <2>3
<1> QED
  BY <1>2, <1>3 DEF Within
-----------------------------------------------------------------------------
(* Debtors *)

\* What a debtor owes is a request of its side, checked against the window.
LEMMA DueIs ==
  ASSUME TypeOK, LocalInv, NEW t \in Threads, NEW side \in Sides, NEW w \in Windows,
         Due(thread[t], side, w)
  PROVE  /\ Asked(thread[t], side) \in Requests /\ Side(Asked(thread[t], side)) = side
         /\ w \in Range(Admitted(Asked(thread[t], side)))
<1> DEFINE l == thread[t]
<1>0. l \in Locals /\ Listed(l)
  BY DEF TypeOK, LocalInv
<1>1. CASE side = Side(l.req)
  <2>1. Owes(l, w) /\ Asked(l, side) = l.req /\ l.req \in Requests
    BY <1>0, <1>1 DEF Due, Asked, Locals
  <2>2. w \in Range(Admitted(l.req))
    BY <1>0, <2>1 DEF Owes, Listed
  <2> QED BY <1>1, <2>1, <2>2
<1>2. CASE side # Side(l.req)
  <2>1. side = "send" /\ l.waiting # 0 /\ w \in Range(Admitted(SendOf(l.waiting)))
    BY <1>2 DEF Due
  <2>2. Asked(l, side) = SendOf(l.waiting)
    BY <1>2 DEF Asked
  <2>3. SendOf(l.waiting) \in Requests /\ Side(SendOf(l.waiting)) = "send"
    BY <1>0, <2>1 DEF Locals, SendOf, Requests, Side
  <2> QED BY <2>1, <2>2, <2>3
<1> QED
  BY <1>1, <1>2

\* The sides that a window is shared by.
Shares(w) == {side \in Sides : \/ AtOnce(w) = 2
                               \/ side = IF w \in {"weighted", "requests"} THEN "read" ELSE "send"}
LEMMA SharedBy ==
  ASSUME tier \in {"standard", "premium"}, NEW w \in Windows
  PROVE  /\ AtOnce(w) \in {1, 2} /\ IsFiniteSet(Shares(w)) /\ Cardinality(Shares(w)) = AtOnce(w)
         /\ \A req \in Requests : w \in Range(Admitted(req)) => Side(req) \in Shares(w)
<1>1. AtOnce(w) \in {1, 2}
  BY DEF AtOnce
<1>2. IsFiniteSet(Shares(w)) /\ Cardinality(Shares(w)) = AtOnce(w)
  <2>1. CASE AtOnce(w) = 2
    <3>1. Shares(w) = {"read"} \cup {"send"}
      BY <2>1 DEF Shares, Sides
    <3>2. "send" \notin {"read"} /\ IsFiniteSet({"read"}) /\ Cardinality({"read"}) = 1
      BY FS_Singleton
    <3>3. IsFiniteSet({"read"} \cup {"send"}) /\ Cardinality({"read"} \cup {"send"}) = 1 + 1
      BY <3>2, FS_AddElement
    <3> QED BY <2>1, <3>1, <3>3
  <2>2. CASE AtOnce(w) = 1
    <3> DEFINE only == IF w \in {"weighted", "requests"} THEN "read" ELSE "send"
    <3>1. Shares(w) = {only}
      BY <2>2 DEF Shares, Sides
    <3> HIDE DEF only
    <3> QED BY <2>2, <3>1, FS_Singleton
  <2> QED BY <1>1, <2>1, <2>2
<1>3. ASSUME NEW req \in Requests, w \in Range(Admitted(req)) PROVE Side(req) \in Shares(w)
  <2>1. CASE req.kind = "send" /\ tier = "premium"
    <3>1. Admitted(req) = <<"sendTx", "txType">>
      BY <2>1 DEF Admitted
    <3>2. w \in {"sendTx", "txType"}
      BY <1>3, <3>1 DEF Range
    <3> QED BY <2>1, <3>2 DEF Shares, Sides, Side
  <2>2. CASE req.kind = "send" /\ tier = "standard"
    <3>1. Admitted(req) = <<"requests", "weighted", "txType">>
      BY <2>2 DEF Admitted
    <3>2. w \in {"requests", "weighted", "txType"}
      BY <1>3, <3>1 DEF Range
    <3> QED BY <2>2, <3>2 DEF Shares, Sides, Side, AtOnce
  <2>3. CASE req.kind # "send" /\ tier = "premium"
    <3>1. Admitted(req) = <<"weighted">>
      BY <2>3 DEF Admitted
    <3>2. w = "weighted"
      BY <1>3, <3>1 DEF Range
    <3> QED BY <2>3, <3>2 DEF Shares, Sides, Side
  <2>4. CASE req.kind # "send" /\ tier = "standard"
    <3>1. Admitted(req) = <<"weighted", "requests">>
      BY <2>4 DEF Admitted
    <3>2. w \in {"weighted", "requests"}
      BY <1>3, <3>1 DEF Range
    <3> QED BY <2>4, <3>2 DEF Shares, Sides, Side
  <2> QED BY <2>1, <2>2, <2>3, <2>4
<1> QED
  BY <1>1, <1>2, <1>3

\* There are never more debtors than can be, and each owes a request.
Solvent == \A w \in Windows :
  /\ IsFiniteSet(Owing(w)) /\ Cardinality(Owing(w)) \in Nat /\ Most(w) \in Nat
  /\ Cardinality(Owing(w)) <= Most(w)
  /\ \A x \in Owing(w) : Debt(w)[x] \in Nat /\ Debt(w)[x] <= Largest(w)
LEMMA DebtorsFew == TypeOK /\ LocalInv => Solvent
<1> SUFFICES ASSUME TypeOK, LocalInv, NEW w \in Windows
             PROVE  /\ IsFiniteSet(Owing(w)) /\ Cardinality(Owing(w)) \in Nat /\ Most(w) \in Nat
                    /\ Cardinality(Owing(w)) <= Most(w)
                    /\ \A x \in Owing(w) : Debt(w)[x] \in Nat /\ Debt(w)[x] <= Largest(w)
  BY DEF Solvent
<1>1. /\ tier \in {"standard", "premium"} /\ IsFiniteSet(Threads)
  BY LimiterAssumption DEF TypeOK
<1>2. ASSUME NEW x \in Owing(w)
      PROVE  x \in Threads \X Shares(w) /\ Debt(w)[x] \in Nat /\ Debt(w)[x] <= Largest(w)
  <2>1. x \in Threads \X Sides /\ Due(thread[x[1]], x[2], w)
    BY DEF Owing, Debtors
  <2>2. PICK t \in Threads, side \in Sides : x = <<t, side>>
    BY <2>1
  <2>3. x[1] = t /\ x[2] = side
    BY <2>2
  <2>4. Due(thread[t], side, w)
    BY <2>1, <2>3
  <2>5. /\ Asked(thread[t], side) \in Requests /\ Side(Asked(thread[t], side)) = side
        /\ w \in Range(Admitted(Asked(thread[t], side)))
    BY <2>4, DueIs
  <2>6. side \in Shares(w)
    BY <1>1, <2>5, SharedBy
  <2>7. Debt(w)[x] = Charge(Asked(thread[t], side), w)
    BY <2>1, <2>3 DEF Debt, Debtors
  <2> QED BY <2>2, <2>5, <2>6, <2>7, ChargeNat, LargestBounds
<1>3. /\ IsFiniteSet(Threads \X Shares(w)) /\ Cardinality(Threads \X Shares(w)) = Most(w)
      /\ Most(w) \in Nat
  <2>1. /\ IsFiniteSet(Threads \X Shares(w))
        /\ Cardinality(Threads \X Shares(w)) = Cardinality(Threads) * Cardinality(Shares(w))
    BY <1>1, SharedBy, FS_Product
  <2>2. Cardinality(Threads \X Shares(w)) = Most(w)
    BY <1>1, <2>1, SharedBy DEF Most
  <2> QED BY <2>1, <2>2, FS_CardinalityType
<1>4. Owing(w) \in SUBSET (Threads \X Shares(w))
  BY <1>2
<1> QED
  BY <1>2, <1>3, <1>4, FS_Subset, FS_CardinalityType

LEMMA UsedNat ==
  ASSUME TypeOK, NEW w \in Windows
  PROVE  Used(w) \in Nat
<1>1. PICK f : Totals(f, Parts(w)) /\ Used(w) = f[WindowSeconds]
  BY UsedTotals DEF UsedIsTotal
<1>2. WindowSeconds \in 0..WindowSeconds
  BY LimiterAssumption
<1> QED
  BY <1>1, <1>2 DEF Totals

\* A window that neither time nor a goroutine has changed is as used as before.
LEMMA UsedSame ==
  ASSUME TypeOK, TypeOK', NEW w \in Windows, now' = now, cell'[w] = cell[w]
  PROVE  Used(w)' = Used(w)
  BY DEF Used, Counted

LEMMA RoomOK ==
  ASSUME TypeOK, LocalInv, NEW w \in Windows
  PROVE  Limit[w] \in Nat /\ Room(w) \in Int
<1>1. Largest(w) \in Nat /\ Most(w) - 1 \in Int /\ Limit[w] \in Nat
  BY DebtorsFew, LargestBounds, LimiterAssumption DEF Solvent
<1>2. (Most(w) - 1) * Largest(w) \in Int
  BY <1>1, Multiples
<1> QED
  BY <1>1, <1>2 DEF Room

\* How a step changes what is owed to a window: nothing is added to it, a
\* debtor pays, or one is admitted.
LEMMA WindowStep ==
  ASSUME TypeOK, TypeOK', LocalInv, LocalInv', tier' = tier, NEW w \in Windows,
         Within(Used(w), Owing(w), Debt(w), Largest(w), Room(w)),
         \/ /\ Owing(w)' \subseteq Owing(w) /\ Used(w)' <= Used(w)
            /\ \A x \in Owing(w)' : Debt(w)'[x] = Debt(w)[x]
         \/ \E x \in Owing(w) : /\ Owing(w)' = Owing(w) \ {x} /\ Used(w)' <= Used(w) + Debt(w)[x]
                                /\ \A y \in Owing(w)' : Debt(w)'[y] = Debt(w)[y]
         \/ \E x \in Owing(w)' : Used(w)' + Debt(w)'[x] <= Limit[w]
  PROVE  Within(Used(w)', Owing(w)', Debt(w)', Largest(w), Room(w)')
<1> DEFINE U == Used(w)
           V == Used(w)'
           C == Owing(w)
           D == Owing(w)'
           d == Debt(w)
           e == Debt(w)'
           L == Largest(w)
           R == Room(w)
           N == Most(w)
<1>1. U \in Nat /\ V \in Nat
  <2>1. TypeOK => \A v \in Windows : Used(v) \in Nat
    BY UsedNat
  <2>2. U \in Nat
    BY <2>1
  <2>3. PICK f : Totals(f, Parts(w)') /\ Used(w)' = f[WindowSeconds]
    <3>1. TypeOK' => UsedIsTotal'
      BY UsedTotals, PTL
    <3> QED BY <3>1 DEF UsedIsTotal
  <2>4. WindowSeconds \in 0..WindowSeconds
    BY LimiterAssumption
  <2>5. V \in Nat
    BY <2>3, <2>4 DEF Totals
  <2> QED BY <2>2, <2>5
<1>2. /\ L \in Nat /\ R \in Int /\ Limit[w] \in Int /\ N \in Nat
      /\ R = Limit[w] + (N - 1) * L /\ Room(w)' = R
  <2>1. Room(w)' = Room(w)
    BY DEF Room, Most, AtOnce
  <2>2. N \in Nat
    BY DebtorsFew DEF Solvent
  <2> QED BY <2>1, <2>2, RoomOK, LargestBounds DEF Room
<1>3. /\ IsFiniteSet(C) /\ \A x \in C : d[x] \in Nat /\ d[x] <= L
      /\ IsFiniteSet(D) /\ Cardinality(D) <= N /\ \A x \in D : e[x] \in Nat
  <2>1. Solvent /\ Solvent'
    <3>1. TypeOK' /\ LocalInv' => Solvent'
      BY DebtorsFew, PTL
    <3> QED BY <3>1, DebtorsFew
  <2>2. Most(w)' = Most(w)
    BY DEF Most, AtOnce
  <2> QED BY <2>1, <2>2 DEF Solvent
<1>4. CASE D \subseteq C /\ V <= U /\ \A x \in D : e[x] = d[x]
  <2> HIDE DEF U, V, C, D, d, e, L, R
  <2>1. Within(U, C, d, L, R)
    BY DEF U, C, d, L, R
  <2>2. Within(V, D, e, L, R)
    BY <1>1, <1>2, <1>3, <1>4, <2>1, WithinLess
  <2> QED BY <1>2, <2>2 DEF V, D, e, L
<1>5. ASSUME NEW x \in C, D = C \ {x}, V <= U + d[x], \A y \in D : e[y] = d[y]
      PROVE  Within(V, D, e, L, Room(w)')
  <2> HIDE DEF U, V, C, D, d, e, L, R
  <2>1. Within(U, C, d, L, R)
    BY DEF U, C, d, L, R
  <2>2. U \in Int /\ V \in Int /\ d[x] <= L /\ \A y \in C : d[y] \in Nat
    BY <1>1, <1>3
  <2>3. \A y \in C \ {x} : e[y] = d[y]
    BY <1>5
  <2>4. Within(V, C \ {x}, e, L, R)
    BY <1>2, <1>3, <1>5, <2>1, <2>2, <2>3, WithinPaid
  <2> QED BY <1>2, <1>5, <2>4
<1>6. ASSUME NEW x \in D, V + e[x] <= Limit[w]
      PROVE  Within(V, D, e, L, Room(w)')
  <2> HIDE DEF U, V, C, D, d, e, L, R, N
  <2>1. e[x] \in Nat
    BY <1>3
  <2>2. V \in Int /\ Limit[w] \in Int
    BY <1>1, <1>2
  <2>3. Within(V, D, e, L, Limit[w] + (N - 1) * L)
    BY <1>2, <1>3, <1>6, <2>1, <2>2, WithinTaken
  <2> QED BY <1>2, <2>3
<1> QED
  BY <1>4, <1>5, <1>6

\* A goroutine's step leaves what the others owe.
LEMMA OthersOwe ==
  ASSUME NEW t \in Threads, \A u \in Threads \ {t} : thread'[u] = thread[u], tier' = tier,
         NEW w \in Windows, NEW x \in Debtors, x[1] # t
  PROVE  (x \in Owing(w)' <=> x \in Owing(w)) /\ Debt(w)'[x] = Debt(w)[x]
<1>1. x[1] \in Threads \ {t}
  BY DEF Debtors
<1>2. thread'[x[1]] = thread[x[1]]
  BY <1>1
<1>3. Due(thread[x[1]], x[2], w)' <=> Due(thread[x[1]], x[2], w)
  BY <1>2 DEF Due, Owes, Admitted
<1>4. Debt(w)'[x] = Debt(w)[x]
  BY <1>2 DEF Debt
<1> QED
  BY <1>3, <1>4 DEF Owing

\* A step that leaves the clock and the ring alone, but for an admission.
LEMMA QuietStep ==
  ASSUME TypeOK, TypeOK', LocalInv, LocalInv',
         NEW t \in Threads, \A u \in Threads \ {t} : thread'[u] = thread[u],
         UNCHANGED <<tier, now, cell>>, BudgetInv,
         \A w \in Windows, side \in Sides : Due(thread[t], side, w)' =>
           /\ Asked(thread'[t], side) = Asked(thread[t], side)
           /\ Due(thread[t], side, w) \/ Fits(w, Charge(Asked(thread[t], side), w))
  PROVE  BudgetInv'
<1> SUFFICES ASSUME NEW w \in Windows
             PROVE  Within(Used(w)', Owing(w)', Debt(w)', Largest(w), Room(w)')
  BY DEF BudgetInv
<1>1. Used(w)' = Used(w) /\ Used(w) \in Nat
  BY UsedSame, UsedNat
<1>2. Within(Used(w), Owing(w), Debt(w), Largest(w), Room(w))
  BY DEF BudgetInv
<1>3. ASSUME NEW x \in Debtors, x[1] = t
      PROVE  /\ x[2] \in Sides
             /\ x \in Owing(w) <=> Due(thread[t], x[2], w)
             /\ x \in Owing(w)' <=> Due(thread[t], x[2], w)'
             /\ Debt(w)[x] = Charge(Asked(thread[t], x[2]), w)
             /\ Debt(w)'[x] = Charge(Asked(thread'[t], x[2]), w)
  BY <1>3 DEF Owing, Debt, Debtors
<1>4. CASE \E x \in Debtors : x[1] = t /\ x \in Owing(w)' /\ x \notin Owing(w)
  <2>1. PICK x \in Debtors : x[1] = t /\ x \in Owing(w)' /\ x \notin Owing(w)
    BY <1>4
  <2>2. Fits(w, Charge(Asked(thread[t], x[2]), w)) /\ Debt(w)'[x] = Charge(Asked(thread[t], x[2]), w)
    BY <1>3, <2>1
  <2>3. Used(w)' + Debt(w)'[x] <= Limit[w]
    BY <1>1, <2>2 DEF Fits
  <2> QED BY <1>2, <2>1, <2>3, WindowStep
<1>5. CASE \A x \in Debtors : x[1] = t /\ x \in Owing(w)' => x \in Owing(w)
  <2>1. ASSUME NEW x \in Owing(w)' PROVE x \in Owing(w) /\ Debt(w)'[x] = Debt(w)[x]
    <3>1. x \in Debtors
      BY DEF Owing
    <3>2. CASE x[1] # t
      BY <2>1, <3>1, <3>2, OthersOwe
    <3>3. CASE x[1] = t
      BY <1>3, <1>5, <2>1, <3>1, <3>3
    <3> QED BY <3>2, <3>3
  <2>2. Used(w)' <= Used(w)
    BY <1>1
  <2> QED BY <1>2, <2>1, <2>2, WindowStep
<1> QED
  BY <1>4, <1>5

LEMMA HeadAndTail ==
  ASSUME NEW q \in Seq(Windows), q # <<>>
  PROVE  /\ \A w : w \in Range(q) <=> w = Head(q) \/ w \in Range(Tail(q))
         /\ Len(q) = 1 => Range(Tail(q)) = {}
         /\ Distinct(q) => Distinct(Tail(q)) /\ Head(q) \notin Range(Tail(q))
<1> DEFINE r == Tail(q)
<1>1. /\ Len(q) \in Nat \ {0} /\ Head(q) = q[1] /\ DOMAIN q = 1..Len(q)
      /\ r \in Seq(Windows) /\ Len(r) = Len(q) - 1 /\ DOMAIN r = 1..Len(r)
      /\ \A i \in 1..Len(r) : r[i] = q[i + 1]
  OBVIOUS
<1> HIDE DEF r
<1>2. ASSUME NEW w PROVE w \in Range(q) <=> w = Head(q) \/ w \in Range(r)
  <2>1. ASSUME w \in Range(q) PROVE w = Head(q) \/ w \in Range(r)
    <3>1. PICK i \in 1..Len(q) : q[i] = w
      BY <1>1, <2>1 DEF Range
    <3>2. CASE i = 1
      BY <1>1, <3>1, <3>2
    <3>3. CASE i # 1
      <4>1. i - 1 \in 1..Len(r) /\ (i - 1) + 1 = i
        BY <1>1, <3>3
      <4>2. r[i - 1] = w
        BY <1>1, <3>1, <4>1
      <4> QED BY <1>1, <4>1, <4>2 DEF Range
    <3> QED BY <3>2, <3>3
  <2>2. ASSUME w = Head(q) PROVE w \in Range(q)
    <3>1. 1 \in 1..Len(q) BY <1>1
    <3> QED BY <1>1, <2>2, <3>1 DEF Range
  <2>3. ASSUME w \in Range(r) PROVE w \in Range(q)
    <3>1. PICK i \in 1..Len(r) : r[i] = w
      BY <1>1, <2>3 DEF Range
    <3>2. i + 1 \in 1..Len(q) /\ q[i + 1] = w
      BY <1>1, <3>1
    <3> QED BY <1>1, <3>2 DEF Range
  <2> QED BY <2>1, <2>2, <2>3
<1>3. Len(q) = 1 => Range(r) = {}
  BY <1>1 DEF Range
<1>4. ASSUME Distinct(q) PROVE Distinct(r) /\ Head(q) \notin Range(r)
  <2>1. ASSUME NEW i \in 1..Len(r), NEW j \in 1..Len(r), r[i] = r[j] PROVE i = j
    <3>1. i + 1 \in 1..Len(q) /\ j + 1 \in 1..Len(q) /\ q[i + 1] = q[j + 1]
      BY <1>1, <2>1
    <3>2. i + 1 = j + 1
      BY <1>4, <3>1 DEF Distinct
    <3> QED BY <3>2
  <2>2. ASSUME Head(q) \in Range(r) PROVE FALSE
    <3>1. PICK i \in 1..Len(r) : r[i] = Head(q)
      BY <1>1, <2>2 DEF Range
    <3>2. i + 1 \in 1..Len(q) /\ 1 \in 1..Len(q) /\ q[i + 1] = q[1]
      BY <1>1, <3>1
    <3>3. i + 1 = 1
      BY <1>4, <3>2 DEF Distinct
    <3> QED BY <1>1, <3>3
  <2> QED BY <2>1, <2>2 DEF Distinct
<1> QED
  BY <1>2, <1>3, <1>4 DEF r

\* A request is charged to the windows it was checked against, once to each.
LEMMA ChargedOnce ==
  ASSUME NEW req \in Requests, tier \in {"standard", "premium"}
  PROVE  Distinct(Charged(req)) /\ \A w : w \in Range(Charged(req)) <=> w \in Range(Admitted(req))
<1>1. CASE req.kind # "send" /\ tier = "premium"
  <2>1. Charged(req) = <<"weighted">> /\ Admitted(req) = <<"weighted">>
    BY <1>1 DEF Charged, Admitted
  <2> QED BY <2>1 DEF Distinct
<1>2. CASE req.kind # "send" /\ tier = "standard"
  <2>1. Charged(req) = <<"weighted", "requests">> /\ Admitted(req) = <<"weighted", "requests">>
    BY <1>2 DEF Charged, Admitted
  <2> QED BY <2>1 DEF Distinct
<1>3. CASE req.kind = "send" /\ tier = "premium"
  <2>1. Charged(req) = <<"sendTx", "txType">> /\ Admitted(req) = <<"sendTx", "txType">>
    BY <1>3 DEF Charged, Admitted
  <2> QED BY <2>1 DEF Distinct
<1>4. CASE req.kind = "send" /\ tier = "standard"
  <2> DEFINE a == <<"weighted", "requests", "txType">>
             b == <<"requests", "weighted", "txType">>
  <2>1. Charged(req) = a /\ Admitted(req) = b
    BY <1>4 DEF Charged, Admitted
  <2>2. Distinct(a)
    BY DEF Distinct
  <2>3. /\ DOMAIN a = 1..3 /\ a[1] = "weighted" /\ a[2] = "requests" /\ a[3] = "txType"
        /\ DOMAIN b = 1..3 /\ b[1] = "requests" /\ b[2] = "weighted" /\ b[3] = "txType"
    OBVIOUS
  <2> HIDE DEF a, b
  <2>4. \A w : /\ w \in Range(a) <=> w = "weighted" \/ w = "requests" \/ w = "txType"
               /\ w \in Range(b) <=> w = "weighted" \/ w = "requests" \/ w = "txType"
    <3>1. \A i : i \in 1..3 <=> i = 1 \/ i = 2 \/ i = 3
      OBVIOUS
    <3> QED BY <2>3, <3>1 DEF Range
  <2> QED BY <2>1, <2>2, <2>4
<1> QED
  BY <1>1, <1>2, <1>3, <1>4

-----------------------------------------------------------------------------
(* What a goroutine's step does to its request and to the send that waits     *)

SameAs(l, m) == m.req = l.req /\ m.waiting = l.waiting
Stops(m) == m.pc = "idle" /\ m.waiting = 0
Starts(l, m) == l.pc = "idle" /\ m.pc = "admit" /\ m.waiting = l.waiting
Passes(l, m) == SameAs(l, m) /\ l.pc # "idle"
                /\ m.pc \in {"judge", "judgeEvent", "extend", "extendSwap", "event"}
Checks(l, m) == SameAs(l, m) /\ l.pc # "idle" /\ m.pc = "check" /\ m.todo = Admitted(l.req)
Admits(l, m) == SameAs(l, m) /\ l.pc = "check" /\ m.todo = Tail(l.todo)
                /\ m.pc = (IF Len(l.todo) = 1 THEN "sent" ELSE "check")
                /\ Fits(Head(l.todo), Charge(l.req, Head(l.todo)))
Answers(l, m) == SameAs(l, m) /\ l.pc = "sent" /\ m.pc = "add" /\ m.todo = Charged(l.req)
Retries(l, m) == SameAs(l, m) /\ l.pc \in {"add", "reload", "swap"} /\ m.pc \in {"reload", "swap"}
                 /\ m.todo = l.todo
Asks(l, m) == l.pc = "sent" /\ l.req.kind = "send" /\ m.pc = "admit" /\ m.req = NonceRead
              /\ m.waiting = l.req.count
Resumes(l, m) == l.waiting # 0 /\ m.pc = "sent" /\ m.req = SendOf(l.waiting) /\ m.waiting = 0
Quiet(l, m) == \/ Stops(m) \/ Starts(l, m) \/ Passes(l, m) \/ Checks(l, m) \/ Admits(l, m)
               \/ Answers(l, m) \/ Retries(l, m) \/ Asks(l, m) \/ Resumes(l, m)
Pays(l, m) == SameAs(l, m) /\ l.pc = "swap" /\ m.todo = Tail(l.todo)
              /\ m.pc \in {"add", "event", "limited"} /\ (m.pc = "add" => Len(l.todo) > 1)

LEMMA Turns ==
  ASSUME TypeOK, NEW t \in Threads, Request(t)
  PROVE  /\ tier' = tier /\ \A u \in Threads \ {t} : thread'[u] = thread[u]
         /\ \/ UNCHANGED <<now, cell>> /\ Quiet(thread[t], thread'[t])
            \/ /\ AddSwap(t) /\ cell[Head(thread[t].todo)][Slot(t)] = thread[t].old
               /\ Pays(thread[t], thread'[t])
<1> DEFINE l == thread[t]
           m == thread'[t]
           Still == UNCHANGED <<tier, now, cell>>
<1>0. thread \in [Threads -> Locals] /\ l \in Locals
  BY DEF TypeOK
<1>a. \A u \in Threads \ {t} : thread'[u] = thread[u]
  <2>1. Moves(t)
    BY ThreadStep
  <2> QED BY <1>0, <2>1 DEF Moves
<1>1. ASSUME Refused(t) PROVE Stops(m)
  BY <1>0, <1>1 DEF Refused, Idle, Stops
<1>2. ASSUME Begin(t) PROVE Still /\ Starts(l, m)
  <2>1. PICK req \in Requests : thread' = [thread EXCEPT ![t].pc = "admit", ![t].req = req]
    BY <1>2 DEF Begin
  <2>2. m.pc = "admit" /\ m.waiting = l.waiting
    BY <1>0, <2>1 DEF Locals
  <2> QED BY <1>2, <2>2 DEF Begin, Starts, At, clock, ring
<1>3. ASSUME LoadCooldown(t) PROVE Still /\ Passes(l, m)
  <2>1. thread' = [thread EXCEPT ![t].until = cooldown,
                                 ![t].pc = IF At(t, "admit") THEN "judge" ELSE "judgeEvent"]
    BY <1>3 DEF LoadCooldown
  <2>2. m.pc \in {"judge", "judgeEvent"} /\ m.waiting = l.waiting /\ m.req = l.req
    BY <1>0, <2>1 DEF Locals
  <2> QED BY <1>3, <2>2 DEF LoadCooldown, Passes, SameAs, clock, ring
<1>4. ASSUME Judge(t) PROVE Still /\ (Stops(m) \/ Checks(l, m))
  <2>1. CASE thread' = [thread EXCEPT ![t].pc = "check", ![t].until = 0,
                                      ![t].todo = Admitted(thread[t].req)]
    <3>1. m.pc = "check" /\ m.todo = Admitted(l.req) /\ m.waiting = l.waiting /\ m.req = l.req
      BY <1>0, <2>1 DEF Locals
    <3> QED BY <1>4, <3>1 DEF Judge, At, Checks, SameAs, clock, ring
  <2> QED BY <1>1, <1>4, <2>1 DEF Judge, clock, ring
<1>5. ASSUME Check(t) PROVE Still /\ (Stops(m) \/ Admits(l, m))
  <2>1. CASE /\ thread' = [thread EXCEPT ![t].todo = Tail(@),
                             ![t].pc = IF Len(thread[t].todo) = 1 THEN "sent" ELSE "check"]
             /\ Fits(Head(l.todo), Charge(l.req, Head(l.todo)))
    <3>1. /\ m.pc = IF Len(l.todo) = 1 THEN "sent" ELSE "check"
          /\ m.todo = Tail(l.todo) /\ m.waiting = l.waiting /\ m.req = l.req
      BY <1>0, <2>1 DEF Locals
    <3> QED BY <1>5, <2>1, <3>1 DEF Check, At, Admits, SameAs, clock, ring
  <2> QED BY <1>1, <1>5, <2>1 DEF Check, clock, ring
<1>6. ASSUME NextNonce(t) PROVE Still /\ Asks(l, m)
  <2>1. thread' = [thread EXCEPT ![t].pc = "admit", ![t].req = NonceRead,
                                 ![t].waiting = thread[t].req.count]
    BY <1>6 DEF NextNonce
  <2>2. m.pc = "admit" /\ m.req = NonceRead /\ m.waiting = l.req.count
    BY <1>0, <2>1 DEF Locals
  <2> QED BY <1>6, <2>2 DEF NextNonce, At, Asks, clock, ring
<1>7. ASSUME Abandon(t) PROVE Still /\ Stops(m)
  BY <1>1, <1>7 DEF Abandon, clock, ring
<1>8. ASSUME Answer(t) PROVE Still /\ Answers(l, m)
  <2>1. PICK status \in Statuses : thread' = [thread EXCEPT ![t].pc = "add", ![t].status = status,
                                                            ![t].todo = Charged(thread[t].req)]
    BY <1>8 DEF Answer
  <2>2. m.pc = "add" /\ m.todo = Charged(l.req) /\ m.waiting = l.waiting /\ m.req = l.req
    BY <1>0, <2>1 DEF Locals
  <2> QED BY <1>8, <2>2 DEF Answer, At, Answers, SameAs, clock, ring
<1>9. ASSUME AddLoad(t) PROVE Still /\ Retries(l, m)
  <2> DEFINE s == IF At(t, "add") THEN now ELSE thread[t].second
             o == cell[Head(thread[t].todo)][s % WindowSeconds]
  <2>1. thread' = [thread EXCEPT ![t].pc = "swap", ![t].second = s, ![t].old = o]
    BY <1>9 DEF AddLoad
  <2> HIDE DEF s, o
  <2>2. m.pc = "swap" /\ m.todo = l.todo /\ m.waiting = l.waiting /\ m.req = l.req
    BY <1>0, <2>1 DEF Locals
  <2> QED BY <1>9, <2>2 DEF AddLoad, Retries, SameAs, clock, ring
<1>10. ASSUME NEW pc, Goto(t, pc)
       PROVE  m.pc = pc /\ m.todo = l.todo /\ m.waiting = l.waiting /\ m.req = l.req
  BY <1>0, <1>10 DEF Goto, Locals
<1>11. ASSUME AddSwap(t), cell[Head(thread[t].todo)][Slot(t)] # thread[t].old
       PROVE  Still /\ Retries(l, m)
  BY <1>10, <1>11 DEF AddSwap, At, Retries, SameAs, clock, ring
<1>12. ASSUME AddSwap(t), cell[Head(thread[t].todo)][Slot(t)] = thread[t].old
       PROVE  tier' = tier /\ Pays(l, m)
  <2> DEFINE pc == CASE Len(thread[t].todo) > 1 -> "add"
                     [] Len(thread[t].todo) = 1 /\ thread[t].status = "other" -> "event"
                     [] OTHER -> "limited"
  <2>1. pc \in {"add", "event", "limited"} /\ (pc = "add" => Len(l.todo) > 1)
    <3>1. CASE Len(l.todo) > 1 BY <3>1
    <3>2. CASE ~(Len(l.todo) > 1) /\ Len(l.todo) = 1 /\ l.status = "other" BY <3>2
    <3>3. CASE ~(Len(l.todo) > 1) /\ ~(Len(l.todo) = 1 /\ l.status = "other") BY <3>3
    <3> QED BY <3>1, <3>2, <3>3
  <2>2. Advance(t) /\ l.pc = "swap" /\ tier' = tier
    BY <1>12 DEF AddSwap, At, clock
  <2>3. m.pc = pc /\ m.todo = Tail(l.todo) /\ m.waiting = l.waiting /\ m.req = l.req
    <3> HIDE DEF pc
    <3>1. thread' = [thread EXCEPT ![t].todo = Tail(@), ![t].second = 0, ![t].old = Idle.old,
                                   ![t].pc = pc]
      BY <2>2 DEF Advance, pc
    <3> QED BY <1>0, <3>1 DEF Locals
  <2> HIDE DEF pc
  <2> QED BY <2>1, <2>2, <2>3 DEF Pays, SameAs
<1>13. ASSUME Limited(t) PROVE Still /\ Passes(l, m)
  <2> DEFINE u == NowMs + Duration(t)
  <2> HIDE DEF u
  <2>1. thread' = [thread EXCEPT ![t].pc = "extend", ![t].until = u]
    BY <1>13 DEF Limited, u
  <2>2. m.pc = "extend" /\ m.waiting = l.waiting /\ m.req = l.req
    BY <1>0, <2>1 DEF Locals
  <2> QED BY <1>13, <2>2 DEF Limited, At, Passes, SameAs, clock, ring
<1>14. ASSUME Extend(t) PROVE Still /\ Passes(l, m)
  <2>1. CASE thread' = [thread EXCEPT ![t].pc = "extendSwap", ![t].second = cooldown]
    <3>1. m.pc = "extendSwap" /\ m.waiting = l.waiting /\ m.req = l.req
      BY <1>0, <2>1 DEF Locals
    <3> QED BY <1>14, <3>1 DEF Extend, At, Passes, SameAs, clock, ring
  <2> QED BY <1>10, <1>14, <2>1 DEF Extend, At, Passes, SameAs, clock, ring
<1>15. ASSUME ExtendSwap(t) PROVE Still /\ Passes(l, m)
  BY <1>10, <1>15 DEF ExtendSwap, At, Passes, SameAs, clock, ring
<1>16. ASSUME Done(t) PROVE Still /\ (Stops(m) \/ Resumes(l, m))
  <2>1. CASE l.waiting # 0 /\ thread' = [thread EXCEPT ![t] = [Idle EXCEPT !.pc = "sent",
                                                          !.req = SendOf(thread[t].waiting)]]
    <3>1. m.pc = "sent" /\ m.req = SendOf(l.waiting) /\ m.waiting = 0
      BY <1>0, <2>1 DEF Idle
    <3> QED BY <1>16, <2>1, <3>1 DEF Done, Resumes, clock, ring
  <2> QED BY <1>1, <1>16, <2>1 DEF Done, clock, ring
<1> HIDE DEF l, m, Still
<1>17. \/ Still /\ Quiet(l, m)
       \/ /\ AddSwap(t) /\ cell[Head(thread[t].todo)][Slot(t)] = thread[t].old
          /\ tier' = tier /\ Pays(l, m)
  BY <1>2, <1>3, <1>4, <1>5, <1>6, <1>7, <1>8, <1>9, <1>11, <1>12, <1>13, <1>14, <1>15, <1>16
  DEF Request, Quiet
<1> QED
  BY <1>a, <1>17 DEF l, m, Still

LEMMA LocalStep ==
  ASSUME TypeOK, LocalInv, [Next]_vars
  PROVE  LocalInv'
<1>0. tier \in {"standard", "premium"}
  BY LimiterAssumption DEF TypeOK
<1>1. ASSUME NEW u \in Threads, thread'[u] = thread[u], tier' = tier
      PROVE  Listed(thread[u])' /\ Nested(thread[u])'
  <2>1. Listed(thread[u]) /\ Nested(thread[u])
    BY DEF LocalInv
  <2>2. Listed(thread[u])'
    BY <1>1, <2>1 DEF Listed, Admitted
  <2>3. Nested(thread[u])'
    BY <1>1, <2>1 DEF Nested
  <2> QED BY <2>2, <2>3
<1>2. ASSUME UNCHANGED vars \/ Tick PROVE LocalInv'
  <2>1. thread' = thread /\ tier' = tier
    BY <1>2 DEF vars, Tick
  <2> QED BY <1>1, <2>1 DEF LocalInv
<1>3. ASSUME NEW t \in Threads, Request(t) PROVE LocalInv'
  <2> DEFINE l == thread[t]
             m == thread'[t]
  <2>0. /\ tier' = tier /\ \A u \in Threads \ {t} : thread'[u] = thread[u]
        /\ Quiet(l, m) \/ (AddSwap(t) /\ Pays(l, m))
    BY <1>3, Turns
  <2>1. l \in Locals /\ l.req \in Requests /\ Listed(l) /\ Nested(l) /\ (Busy(l) => l.todo # <<>>)
    BY DEF TypeOK, Locals, LocalInv
  <2>2. Admitted(l.req) = Admitted(thread[t].req)
    OBVIOUS
  <2> SUFFICES Listed(thread[t])' /\ Nested(thread[t])'
    <3>1. ASSUME NEW u \in Threads PROVE Listed(thread[u])' /\ Nested(thread[u])'
      BY <1>1, <2>0
    <3> QED BY <3>1 DEF LocalInv
  <2>3. CASE Stops(m)
    BY <2>3 DEF Stops, Listed, Nested
  <2>4. CASE Starts(l, m)
    BY <2>1, <2>4 DEF Starts, Listed, Nested
  <2>5. CASE Passes(l, m)
    BY <2>1, <2>5 DEF Passes, SameAs, Listed, Nested
  <2>6. CASE Checks(l, m)
    BY <2>1, <2>6 DEF Checks, SameAs, Listed, Nested
  <2>7. CASE Admits(l, m)
    BY <2>1, <2>7 DEF Admits, SameAs, Listed, Nested
  <2>8. CASE Answers(l, m)
    <3>1. Distinct(m.todo) /\ \A w : w \in Range(m.todo) => w \in Range(Admitted(l.req))
      BY <1>0, <2>1, <2>8, ChargedOnce DEF Answers
    <3>2. Listed(thread[t])'
      BY <2>0, <2>8, <3>1 DEF Answers, SameAs, Listed, Admitted
    <3>3. Nested(thread[t])'
      BY <2>1, <2>8 DEF Answers, SameAs, Nested
    <3> QED BY <3>2, <3>3
  <2>9. CASE Retries(l, m)
    <3>1. Distinct(m.todo) /\ \A w \in Range(m.todo) : w \in Range(Admitted(l.req))
      BY <2>1, <2>9 DEF Retries, Listed
    <3>2. Listed(thread[t])'
      BY <2>0, <2>9, <3>1 DEF Retries, SameAs, Listed, Admitted
    <3>3. Nested(thread[t])'
      BY <2>1, <2>9 DEF Retries, SameAs, Nested
    <3> QED BY <3>2, <3>3
  <2>10. CASE Asks(l, m)
    BY <2>10 DEF Asks, Listed, Nested, Side, NonceRead
  <2>11. CASE Resumes(l, m)
    BY <2>11 DEF Resumes, Listed, Nested
  <2>12. CASE AddSwap(t) /\ Pays(l, m)
    <3>1. l.todo \in Seq(Windows) /\ l.todo # <<>> /\ l.pc = "swap"
      BY <2>1, <2>12 DEF Pays, Busy, Locals
    <3>2. Distinct(l.todo) /\ \A w \in Range(l.todo) : w \in Range(Admitted(l.req))
      BY <2>1, <3>1 DEF Listed
    <3>3. Distinct(m.todo) /\ \A w \in Range(m.todo) : w \in Range(Admitted(l.req))
      BY <2>12, <3>1, <3>2, HeadAndTail DEF Pays
    <3>4. Listed(thread[t])'
      BY <2>0, <2>12, <3>3 DEF Pays, SameAs, Listed, Admitted
    <3>5. Nested(thread[t])'
      BY <2>1, <2>12 DEF Pays, SameAs, Nested
    <3> QED BY <3>4, <3>5
  <2> QED BY <2>0, <2>3, <2>4, <2>5, <2>6, <2>7, <2>8, <2>9, <2>10, <2>11, <2>12 DEF Quiet
<1> QED
  BY <1>2, <1>3 DEF Next

\* The side that does not make the request owes what it owed.
LEMMA OtherSide ==
  ASSUME NEW t \in Threads, tier' = tier, SameAs(thread[t], thread'[t]),
         NEW side \in Sides, NEW w \in Windows
  PROVE  /\ Asked(thread'[t], side) = Asked(thread[t], side)
         /\ side = Side(thread[t].req) => (Due(thread[t], side, w)' <=> Owes(thread[t], w)')
         /\ side = Side(thread[t].req) => (Due(thread[t], side, w) <=> Owes(thread[t], w))
         /\ side # Side(thread[t].req) => (Due(thread[t], side, w)' <=> Due(thread[t], side, w))
<1>1. thread'[t].req = thread[t].req /\ thread'[t].waiting = thread[t].waiting
  BY DEF SameAs
<1>2. Asked(thread'[t], side) = Asked(thread[t], side)
  BY <1>1 DEF Asked
<1>3. /\ side = Side(thread[t].req) => (Due(thread[t], side, w)' <=> Owes(thread[t], w)')
      /\ side = Side(thread[t].req) => (Due(thread[t], side, w) <=> Owes(thread[t], w))
  BY <1>1 DEF Due
<1>4. side # Side(thread[t].req) => (Due(thread[t], side, w)' <=> Due(thread[t], side, w))
  BY <1>1 DEF Due, Admitted
<1> QED
  BY <1>2, <1>3, <1>4

\* What a goroutine owes after such a step it owed before, or there was room.
LEMMA QuietDue ==
  ASSUME TypeOK, LocalInv, NEW t \in Threads, tier' = tier, Quiet(thread[t], thread'[t]),
         NEW w \in Windows, NEW side \in Sides, Due(thread[t], side, w)'
  PROVE  /\ Asked(thread'[t], side) = Asked(thread[t], side)
         /\ Due(thread[t], side, w) \/ Fits(w, Charge(Asked(thread[t], side), w))
<1> DEFINE l == thread[t]
           m == thread'[t]
<1>0. /\ l \in Locals /\ l.req \in Requests /\ Nested(l) /\ (Busy(l) => l.todo # <<>>)
      /\ tier \in {"standard", "premium"}
  BY LimiterAssumption DEF TypeOK, Locals, LocalInv
<1>1. ASSUME SameAs(l, m),
             Owes(thread[t], w)' => Owes(thread[t], w) \/ Fits(w, Charge(l.req, w))
      PROVE  /\ Asked(m, side) = Asked(l, side)
             /\ Due(l, side, w) \/ Fits(w, Charge(Asked(l, side), w))
  <2>1. Asked(m, side) = Asked(l, side)
    BY <1>1, OtherSide
  <2>2. CASE side = Side(l.req)
    <3>1. Owes(thread[t], w)'
      BY <1>1, <2>2, OtherSide
    <3>2. Asked(l, side) = l.req
      BY <2>2 DEF Asked
    <3> QED BY <1>1, <2>1, <2>2, <3>1, <3>2, OtherSide
  <2>3. CASE side # Side(l.req)
    BY <1>1, <2>1, <2>3, OtherSide
  <2> QED BY <2>2, <2>3
<1>2. ASSUME m.pc \notin {"check", "sent", "add", "reload", "swap"} PROVE ~Owes(thread[t], w)'
  BY <1>2 DEF Owes
<1>3. CASE Stops(m)
  BY <1>3 DEF Stops, Due, Owes
<1>4. CASE Starts(l, m)
  BY <1>0, <1>4 DEF Starts, Due, Owes, Nested
<1>5. CASE Passes(l, m)
  BY <1>1, <1>2, <1>5 DEF Passes
<1>6. CASE Checks(l, m)
  <2>1. ~Owes(thread[t], w)'
    <3>1. Admitted(thread[t].req)' = m.todo
      BY <1>6 DEF Checks, SameAs, Admitted
    <3> QED BY <1>6, <3>1 DEF Checks, Owes
  <2> QED BY <1>1, <1>6, <2>1 DEF Checks
<1>7. CASE Admits(l, m)
  <2> DEFINE v == Head(l.todo)
  <2>1. l.pc = "check" /\ l.todo # <<>> /\ l.todo \in Seq(Windows)
    BY <1>0, <1>7 DEF Admits, Busy, Locals
  <2>2. /\ \A u : u \in Range(l.todo) <=> u = v \/ u \in Range(Tail(l.todo))
        /\ Len(l.todo) = 1 => Range(Tail(l.todo)) = {}
    BY <2>1, HeadAndTail
  <2>3. ASSUME Owes(thread[t], w)' PROVE Owes(thread[t], w) \/ Fits(w, Charge(l.req, w))
    <3>1. w \in Range(Admitted(l.req))
      <4>1. Admitted(thread[t].req)' = Admitted(l.req)
        BY <1>7 DEF Admits, SameAs, Admitted
      <4> QED BY <1>7, <2>3, <4>1 DEF Admits, Owes
    <3>2. w \notin Range(Tail(l.todo))
      BY <1>7, <2>2, <2>3 DEF Admits, Owes
    <3>3. Owes(thread[t], w) \/ w = v
      BY <2>1, <2>2, <3>1, <3>2 DEF Owes
    <3> QED BY <1>7, <3>3 DEF Admits
  <2> QED BY <1>1, <1>7, <2>3 DEF Admits
<1>8. CASE Answers(l, m)
  <2>1. \A u : u \in Range(m.todo) <=> u \in Range(Admitted(l.req))
    BY <1>0, <1>8, ChargedOnce DEF Answers
  <2>2. Owes(thread[t], w)' => Owes(thread[t], w)
    BY <1>8, <2>1 DEF Answers, Owes
  <2> QED BY <1>1, <1>8, <2>2 DEF Answers
<1>9. CASE Retries(l, m)
  <2>1. Owes(thread[t], w)' => Owes(thread[t], w)
    BY <1>9 DEF Retries, Owes
  <2> QED BY <1>1, <1>9, <2>1 DEF Retries
<1>10. CASE Asks(l, m)
  <2>1. m.req = NonceRead /\ m.waiting = l.req.count /\ Side(m.req) = "read" /\ m.pc = "admit"
    BY <1>10 DEF Asks, Side, NonceRead
  <2>2. Side(l.req) = "send" /\ l.pc = "sent" /\ SendOf(l.req.count) = l.req
    BY <1>0, <1>10 DEF Asks, Side, SendOf, Requests
  <2>3. side = "send" /\ w \in Range(Admitted(SendOf(m.waiting)))
    <3>1. side # "read"
      BY <2>1 DEF Due, Owes
    <3>2. side = "send"
      BY <3>1 DEF Sides
    <3>3. w \in Range(Admitted(SendOf(thread[t].waiting)))'
      BY <2>1, <3>2 DEF Due
    <3> QED BY <3>2, <3>3 DEF Admitted
  <2>4. Asked(m, side) = l.req /\ Asked(l, side) = l.req
    BY <2>1, <2>2, <2>3 DEF Asked
  <2>5. Due(l, side, w)
    BY <2>1, <2>2, <2>3 DEF Due, Owes
  <2> QED BY <2>4, <2>5
<1>11. CASE Resumes(l, m)
  <2>1. /\ m.req = SendOf(l.waiting) /\ Side(m.req) = "send" /\ m.waiting = 0 /\ m.pc = "sent"
        /\ Side(l.req) = "read" /\ l.waiting # 0
    BY <1>0, <1>11 DEF Resumes, Side, SendOf, Nested
  <2>2. side = "send"
    BY <2>1 DEF Due
  <2>3. w \in Range(Admitted(SendOf(l.waiting)))
    <3>1. Owes(thread[t], w)'
      BY <2>1, <2>2 DEF Due
    <3>2. w \in Range(Admitted(thread[t].req))'
      BY <2>1, <3>1 DEF Owes
    <3> QED BY <2>1, <3>2 DEF Admitted
  <2>4. Asked(m, side) = SendOf(l.waiting) /\ Asked(l, side) = SendOf(l.waiting)
    BY <2>1, <2>2 DEF Asked
  <2>5. Due(l, side, w)
    BY <2>1, <2>2, <2>3 DEF Due
  <2> QED BY <2>4, <2>5
<1> QED
  BY <1>3, <1>4, <1>5, <1>6, <1>7, <1>8, <1>9, <1>10, <1>11 DEF Quiet

LEMMA BudgetTick ==
  ASSUME TypeOK, TypeOK', LocalInv, LocalInv', StampInv, BudgetInv, Tick
  PROVE  BudgetInv'
<1>0. now \in Nat /\ WindowSeconds \in Nat \ {0} /\ now' = now + 1
      /\ UNCHANGED <<tier, cell, thread>>
  BY LimiterAssumption DEF TypeOK, Tick, ring
<1> SUFFICES ASSUME NEW w \in Windows
             PROVE  Within(Used(w)', Owing(w)', Debt(w)', Largest(w), Room(w)')
  BY DEF BudgetInv
<1>1. ASSUME NEW i \in 0..(WindowSeconds - 1) PROVE Counted(w, i)' <= Counted(w, i)
  <2>1. cell[w][i] \in [stamp : Nat, amount : Nat] /\ cell[w][i].stamp <= now
    BY CellTyped DEF StampInv
  <2> DEFINE stamp == cell[w][i].stamp
             amount == cell[w][i].amount
  <2>2. stamp \in Nat /\ amount \in Nat /\ stamp <= now
    BY <2>1
  <2>3. /\ Counted(w, i) = IF now - stamp \in 0..(WindowSeconds - 1) THEN amount ELSE 0
        /\ Counted(w, i)' = IF (now + 1) - stamp \in 0..(WindowSeconds - 1) THEN amount ELSE 0
    BY <1>0 DEF Counted
  <2> HIDE DEF stamp, amount
  <2> QED BY <1>0, <2>2, <2>3
<1>2. Counted(w, 0)' <= Counted(w, 0) + 0 /\ 0 \in 0..(WindowSeconds - 1)
  <2>1. 0 \in 0..(WindowSeconds - 1)
    BY <1>0
  <2>2. cell[w][0] \in [stamp : Nat, amount : Nat]
    BY <2>1, CellTyped
  <2>3. Counted(w, 0) \in Nat
    BY <2>2 DEF Counted
  <2> QED BY <1>1, <2>1, <2>3
<1>3. Used(w)' <= Used(w)
  <2>1. \A i \in 0..(WindowSeconds - 1) : i # 0 => Counted(w, i)' <= Counted(w, i)
    BY <1>1
  <2>2. 0 \in Nat
    OBVIOUS
  <2>3. Used(w) \in Nat /\ Used(w)' \in Nat /\ Used(w)' <= Used(w) + 0
    BY <1>2, <2>1, <2>2, UsedGrows
  <2> QED BY <2>3
<1>4. Owing(w)' = Owing(w) /\ Debt(w)' = Debt(w)
  BY <1>0 DEF Owing, Due, Owes, Debt, Admitted
<1>5. Within(Used(w), Owing(w), Debt(w), Largest(w), Room(w))
  BY DEF BudgetInv
<1> QED
  BY <1>0, <1>3, <1>4, <1>5, WindowStep

\* A goroutine that charges a window raises it by its request at most, and
\* leaves the other windows alone.
LEMMA BudgetSwap ==
  ASSUME TypeOK, TypeOK', LocalInv, LocalInv', SecondInv, BudgetInv, NEW t \in Threads, AddSwap(t),
         cell[Head(thread[t].todo)][Slot(t)] = thread[t].old, Pays(thread[t], thread'[t]),
         \A u \in Threads \ {t} : thread'[u] = thread[u]
  PROVE  BudgetInv'
<1> DEFINE todo == thread[t].todo
           x == <<t, Side(thread[t].req)>>
<1>a. PICK v \in Windows, s \in Nat, k \in 0..(WindowSeconds - 1), c \in Nat :
        v = Head(todo) /\ s = thread[t].second /\ k = Slot(t) /\ c = Charge(thread[t].req, v)
  BY SwapFacts
<1>0. /\ s <= now /\ now - WindowSeconds < s /\ now \in Nat /\ Sum(t) \in Nat
      /\ WindowSeconds \in Nat \ {0} /\ thread[t] \in Locals /\ thread[t].pc = "swap"
      /\ todo \in Seq(Windows) /\ todo # <<>> /\ Distinct(todo)
  <2>1. thread[t] \in Locals /\ thread[t].pc = "swap" /\ todo # <<>> /\ todo \in Seq(Windows)
    BY DEF TypeOK, AddSwap, At, Busy, Locals
  <2>2. Distinct(todo)
    BY <2>1 DEF LocalInv, Listed
  <2>3. now \in Nat /\ WindowSeconds \in Nat \ {0}
    BY LimiterAssumption DEF TypeOK
  <2> QED BY <1>a, <2>1, <2>2, <2>3, SwapFacts
<1>1. /\ cell' = [cell EXCEPT ![v][k] = [stamp |-> s, amount |-> Sum(t)]]
      /\ UNCHANGED <<tier, now>>
  BY <1>a DEF AddSwap, clock
<1>2. /\ SameAs(thread[t], thread'[t]) /\ thread'[t].todo = Tail(todo)
      /\ thread'[t].pc \in {"add", "event", "limited"}
  BY DEF Pays
<1>4. \A w : w \in Range(todo) <=> w = v \/ w \in Range(Tail(todo))
  BY <1>0, <1>a, HeadAndTail
<1>b. v \notin Range(Tail(todo))
  BY <1>0, <1>a, HeadAndTail
<1>5. \A w \in Windows : /\ Owes(thread[t], w) <=> w \in Range(todo)
                         /\ Owes(thread[t], w)' => w # v /\ w \in Range(todo)
  BY <1>0, <1>2, <1>4, <1>b DEF Owes
<1>6. \A w \in Windows, i \in 0..(WindowSeconds - 1) :
        cell'[w][i] = IF w = v /\ i = k THEN [stamp |-> s, amount |-> Sum(t)] ELSE cell[w][i]
  <2>1. Replaces(cell', cell, v, k, [stamp |-> s, amount |-> Sum(t)])
    BY <1>1 DEF Replaces
  <2>2. cell \in Table(Windows, 0..(WindowSeconds - 1), [stamp : Nat, amount : Nat])
    BY DEF TypeOK, Table
  <2>3. Agrees(cell', cell, v, k, [stamp |-> s, amount |-> Sum(t)], Windows, 0..(WindowSeconds - 1))
    BY <1>0, <2>1, <2>2, TableExcept, Zenon
  <2> QED BY <2>3, Zenon DEF Agrees
<1>7. Used(v) \in Nat /\ Used(v)' \in Nat /\ Used(v)' <= Used(v) + c
  <2>1. ASSUME NEW i \in 0..(WindowSeconds - 1), i # k PROVE Counted(v, i)' <= Counted(v, i)
    <3>1. cell'[v][i] = cell[v][i] /\ cell[v][i] \in [stamp : Nat, amount : Nat]
      BY <1>0, <1>6, <2>1 DEF TypeOK
    <3>2. Counted(v, i)' = Counted(v, i)
      BY <1>1, <3>1 DEF Counted
    <3>3. Counted(v, i) \in Nat
      BY <3>1 DEF Counted
    <3> QED BY <3>2, <3>3
  <2>2. Counted(v, k)' <= Counted(v, k) + c
    <3> DEFINE old == cell[v][k]
    <3>1. old \in [stamp : Nat, amount : Nat] /\ old = thread[t].old
      <4>1. old \in [stamp : Nat, amount : Nat]
        BY CellTyped
      <4>2. old = thread[t].old
        BY <1>a
      <4> QED BY <4>1, <4>2
    <3>2. cell'[v][k] = [stamp |-> s, amount |-> Sum(t)]
      BY <1>0, <1>6
    <3>3. Sum(t) = IF old.stamp = s THEN old.amount + c ELSE c
      BY <1>a, <3>1 DEF Sum
    <3>4. Counted(v, k)' = Sum(t)
      <4>1. now - s \in 0..(WindowSeconds - 1)
        BY <1>0
      <4> QED BY <1>1, <3>2, <4>1 DEF Counted
    <3>5. Counted(v, k) = IF now - old.stamp \in 0..(WindowSeconds - 1) THEN old.amount ELSE 0
      BY DEF Counted
    <3> HIDE DEF old
    <3>6. CASE old.stamp = s
      <4>1. Counted(v, k) = old.amount
        BY <1>0, <3>5, <3>6
      <4> QED BY <1>0, <3>1, <3>3, <3>4, <3>6, <4>1
    <3>7. CASE old.stamp # s
      <4>1. Counted(v, k) \in Nat
        BY <3>1, <3>5
      <4> QED BY <1>0, <3>3, <3>4, <3>7, <4>1
    <3> QED BY <3>6, <3>7
  <2> QED BY <1>0, <2>1, <2>2, UsedGrows
<1>8. ASSUME NEW w \in Windows, w # v PROVE Used(w)' = Used(w)
  <2>1. cell'[w] = cell[w]
    BY <1>0, <1>1, <1>8 DEF TypeOK
  <2> QED BY <1>1, <2>1, UsedSame
<1>9. ASSUME NEW w \in Windows, NEW y \in Debtors
      PROVE  /\ Debt(w)'[y] = Debt(w)[y]
             /\ y # x => (y \in Owing(w)' <=> y \in Owing(w))
             /\ y = x => (y \in Owing(w) <=> Owes(thread[t], w))
             /\ y = x => (y \in Owing(w)' <=> Owes(thread[t], w)')
  <2>1. PICK u \in Threads, side \in Sides : y = <<u, side>>
    BY DEF Debtors
  <2>2. y[1] = u /\ y[2] = side /\ (y = x <=> u = t /\ side = Side(thread[t].req))
    BY <2>1
  <2>3. CASE u # t
    BY <1>1, <2>2, <2>3, OthersOwe
  <2>4. CASE u = t
    <3>1. /\ y \in Owing(w) <=> Due(thread[t], side, w)
          /\ y \in Owing(w)' <=> Due(thread[t], side, w)'
      BY <2>2, <2>4 DEF Owing
    <3>2. /\ Debt(w)[y] = Charge(Asked(thread[t], side), w)
          /\ Debt(w)'[y] = Charge(Asked(thread'[t], side), w)
      BY <2>2, <2>4 DEF Debt
    <3>3. /\ Asked(thread'[t], side) = Asked(thread[t], side)
          /\ side = Side(thread[t].req) => (Due(thread[t], side, w)' <=> Owes(thread[t], w)')
          /\ side = Side(thread[t].req) => (Due(thread[t], side, w) <=> Owes(thread[t], w))
          /\ side # Side(thread[t].req) => (Due(thread[t], side, w)' <=> Due(thread[t], side, w))
      BY <1>1, <1>2, OtherSide
    <3> QED BY <2>2, <2>4, <3>1, <3>2, <3>3
  <2> QED BY <2>3, <2>4
<1>10. x \in Debtors /\ Debt(v)[x] = c
  <2>1. Side(thread[t].req) \in Sides
    BY DEF Side, Sides
  <2>2. x \in Debtors
    BY <2>1 DEF Debtors
  <2>3. Debt(v)[x] = Charge(Asked(thread[t], Side(thread[t].req)), v)
    BY <2>2 DEF Debt
  <2> QED BY <1>a, <2>2, <2>3 DEF Asked
<1> HIDE DEF x
<1>11. ASSUME NEW w \in Windows
       PROVE  Within(Used(w)', Owing(w)', Debt(w)', Largest(w), Room(w)')
  <2>1. Within(Used(w), Owing(w), Debt(w), Largest(w), Room(w)) /\ tier' = tier
    BY <1>1 DEF BudgetInv
  <2>2. Owing(w) \subseteq Debtors /\ Owing(w)' \subseteq Debtors
    BY DEF Owing
  <2>3. \A y \in Owing(w)' : Debt(w)'[y] = Debt(w)[y]
    BY <1>9, <2>2
  <2>4. CASE w = v
    <3>1. ~Owes(thread[t], w)' /\ Owes(thread[t], w)
      BY <1>4, <1>5, <2>4
    <3>2. x \in Owing(w) /\ x \notin Owing(w)'
      BY <1>9, <1>10, <3>1
    <3>3. Owing(w)' = Owing(w) \ {x}
      BY <1>9, <2>2, <3>2
    <3>4. Used(w)' <= Used(w) + Debt(w)[x]
      BY <1>7, <1>10, <2>4
    <3> QED BY <2>1, <2>3, <3>2, <3>3, <3>4, WindowStep
  <2>5. CASE w # v
    <3>1. Owes(thread[t], w)' => Owes(thread[t], w)
      BY <1>5
    <3>2. Owing(w)' \subseteq Owing(w)
      BY <1>9, <2>2, <3>1
    <3>3. Used(w)' <= Used(w)
      BY <1>8, <2>5, UsedNat
    <3> QED BY <2>1, <2>3, <3>2, <3>3, WindowStep
  <2> QED BY <2>4, <2>5
<1> QED
  BY <1>11 DEF BudgetInv

LEMMA BudgetStep ==
  ASSUME RingInv, TypeOK', BudgetInv, LocalInv, [Next]_vars
  PROVE  BudgetInv' /\ LocalInv'
<1>0. TypeOK /\ SecondInv /\ StampInv /\ LocalInv'
  BY LocalStep DEF RingInv
<1>1. ASSUME UNCHANGED vars PROVE BudgetInv'
  <2>1. tier' = tier /\ now' = now /\ cell' = cell /\ thread' = thread
    BY <1>1 DEF vars
  <2>2. ASSUME NEW w \in Windows PROVE Used(w)' = Used(w)
    <3>1. cell'[w] = cell[w]
      BY <2>1
    <3> QED BY <1>0, <2>1, <3>1, UsedSame
  <2>3. \A w \in Windows : Owing(w)' = Owing(w) /\ Debt(w)' = Debt(w) /\ Room(w)' = Room(w)
    BY <2>1 DEF Owing, Due, Owes, Admitted, Debt, Room, Most, AtOnce
  <2> QED BY <2>2, <2>3 DEF BudgetInv
<1>2. ASSUME Tick PROVE BudgetInv'
  BY <1>0, <1>2, BudgetTick
<1>3. ASSUME NEW t \in Threads, Request(t) PROVE BudgetInv'
  <2>1. tier' = tier /\ \A u \in Threads \ {t} : thread'[u] = thread[u]
    BY <1>0, <1>3, Turns
  <2>2. ASSUME UNCHANGED <<now, cell>>, Quiet(thread[t], thread'[t]) PROVE BudgetInv'
    <3>1. \A w \in Windows, side \in Sides : Due(thread[t], side, w)' =>
            /\ Asked(thread'[t], side) = Asked(thread[t], side)
            /\ Due(thread[t], side, w) \/ Fits(w, Charge(Asked(thread[t], side), w))
      BY <1>0, <2>1, <2>2, QuietDue
    <3> QED BY <1>0, <2>1, <2>2, <3>1, QuietStep
  <2>3. ASSUME AddSwap(t), cell[Head(thread[t].todo)][Slot(t)] = thread[t].old,
               Pays(thread[t], thread'[t])
        PROVE  BudgetInv'
    BY <1>0, <2>1, <2>3, BudgetSwap
  <2> QED BY <1>0, <1>3, <2>2, <2>3, Turns
<1> QED
  BY <1>0, <1>1, <1>2, <1>3 DEF Next

LEMMA BudgetInit == Init => BudgetInv /\ LocalInv
<1> SUFFICES ASSUME Init PROVE BudgetInv /\ LocalInv
  OBVIOUS
<1>0. TypeOK /\ WindowSeconds \in Nat \ {0}
  BY TypeInit, LimiterAssumption
<1>1. LocalInv
  BY DEF Init, LocalInv, Listed, Nested, Idle
<1>2. ASSUME NEW w \in Windows PROVE Within(Used(w), Owing(w), Debt(w), Largest(w), Room(w))
  <2>1. \A i \in 0..(WindowSeconds - 1) : Counted(w, i) = 0
    BY DEF Init, Counted
  <2>2. PICK f : Totals(f, Parts(w)) /\ Used(w) = f[WindowSeconds]
    BY <1>0, UsedTotals DEF UsedIsTotal
  <2> DEFINE T == {i \in 0..WindowSeconds : f[i] = 0}
  <2>3. 0 \in T
    BY <1>0, <2>2 DEF Totals
  <2>4. ASSUME NEW n \in 1..WindowSeconds, n - 1 \in T PROVE n \in T
    <3>1. n \in 0..WindowSeconds /\ n - 1 \in 0..(WindowSeconds - 1)
      BY <1>0
    <3>2. f[n] = f[n - 1] + Parts(w)[n - 1] /\ Parts(w)[n - 1] = 0
      BY <2>1, <2>2, <3>1 DEF Totals, Parts
    <3> QED BY <2>4, <3>1, <3>2
  <2>5. WindowSeconds \in T
    <3> HIDE DEF T
    <3>1. WindowSeconds \in 0..WindowSeconds /\ WindowSeconds \in Nat
      BY <1>0
    <3>2. \A n \in 0..WindowSeconds : n \in T
      BY <2>3, <2>4, <3>1, BoundedInduction, Zenon
    <3> QED BY <3>1, <3>2
  <2>6. Used(w) = 0
    BY <2>2, <2>5
  <2>7. Owing(w) = {}
    <3>1. \A side \in Sides : ~Due(Idle, side, w)
      BY DEF Due, Owes, Idle
    <3>2. ASSUME NEW x \in Debtors PROVE thread[x[1]] = Idle /\ x[2] \in Sides
      BY DEF Init, Debtors
    <3> QED BY <3>1, <3>2 DEF Owing
  <2>8. Room(w) \in Nat
    <3>1. Cardinality(Threads) \in Nat /\ Cardinality(Threads) # 0
      BY FS_CardinalityType, FS_EmptySet, LimiterAssumption
    <3>2. AtOnce(w) \in {1, 2} /\ Limit[w] \in Nat
      BY LimiterAssumption DEF AtOnce
    <3>3. Most(w) - 1 \in Nat
      <4>1. CASE AtOnce(w) = 1 BY <3>1, <4>1 DEF Most
      <4>2. CASE AtOnce(w) = 2 BY <3>1, <4>2 DEF Most
      <4> QED BY <3>2, <4>1, <4>2
    <3>4. (Most(w) - 1) * Largest(w) \in Nat
      BY <3>3, LargestBounds, ProductNat
    <3> QED BY <3>2, <3>4 DEF Room
  <2>9. Cardinality(Owing(w)) = 0
    BY <2>7, FS_EmptySet
  <2>10. 0 * Largest(w) = 0
    BY LargestBounds
  <2>11. Used(w) + Cardinality(Owing(w)) * Largest(w) <= Room(w)
    BY <2>6, <2>8, <2>9, <2>10
  <2> QED BY <2>11 DEF Within
<1> QED
  BY <1>1, <1>2 DEF BudgetInv

\* A window is overrun by no more than the requests its debtors can have under
\* way at once, but for one (admit first, account after the answer, and a
\* nextNonce read inside a send), for any number of goroutines, any budgets,
\* weights and windows, and however long they run.
THEOREM OverrunIsBounded == Spec => []OverrunBounded
<1>1. Init => RingInv /\ BudgetInv /\ LocalInv
  BY RingInit, BudgetInit
<1>2. RingInv /\ BudgetInv /\ LocalInv /\ [Next]_vars => (RingInv /\ BudgetInv /\ LocalInv)'
  <2> SUFFICES ASSUME RingInv, BudgetInv, LocalInv, [Next]_vars
               PROVE  RingInv' /\ BudgetInv' /\ LocalInv'
    OBVIOUS
  <2>1. RingInv'
    BY RingStep
  <2>2. TypeOK'
    BY <2>1 DEF RingInv
  <2> QED BY <2>1, <2>2, BudgetStep
<1>3. RingInv /\ BudgetInv /\ LocalInv => OverrunBounded
  <2> SUFFICES ASSUME RingInv, BudgetInv, LocalInv, NEW w \in Windows PROVE Used(w) <= Room(w)
    BY DEF OverrunBounded, Room, Most
  <2>1. TypeOK /\ Within(Used(w), Owing(w), Debt(w), Largest(w), Room(w))
    BY DEF RingInv, BudgetInv
  <2>2. /\ Used(w) \in Int /\ IsFiniteSet(Owing(w)) /\ Largest(w) \in Nat
        /\ Room(w) \in Int /\ \A x \in Owing(w) : Debt(w)[x] \in Nat
    BY <2>1, UsedNat, LargestBounds, RoomOK, DebtorsFew DEF Solvent
  <2> QED BY <2>1, <2>2, WithinBounds
<1> QED
  BY <1>1, <1>2, <1>3, PTL DEF Spec
=============================================================================
