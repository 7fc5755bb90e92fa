----------------------------- MODULE WsSubsProofs -----------------------------
(***************************************************************************)
(* Proofs about WsSubs and BookStream, for any number of consumers,        *)
(* channels, resubscribe goroutines, sockets and versions.                 *)
(***************************************************************************)
EXTENDS BookStream, FoldLemmas, FiniteSetTheorems

(***************************************************************************)
(* The members of a group                                                  *)
(***************************************************************************)
\* The members kept so far, after each member looked at.
IsTrace(t, q, x) ==
  /\ t[0] = <<>>
  /\ \A i \in 1..Len(q) : t[i] = IF q[i] = x THEN t[i - 1] ELSE Append(t[i - 1], q[i])
  /\ Without(q, x) = t[Len(q)]

LEMMA WithoutTrace ==
  ASSUME NEW V, NEW q \in Seq(V), NEW x
  PROVE  \E t \in [0..Len(q) -> Seq(V)] : IsTrace(t, q, x)
<1> DEFINE n == Len(q)
           Taken(f, s) == IF s = {} THEN <<>>
                          ELSE IF q[Max(s)] = x THEN f[s \ {Max(s)}]
                               ELSE Append(f[s \ {Max(s)}], q[Max(s)])
           IsFold(f) == f = [s \in SUBSET (1..n) |-> Taken(f, s)]
           fold == CHOOSE f : IsFold(f)
           t == [i \in 0..n |-> fold[1..i]]
<1>1. Without(q, x) = fold[1..n]
  <2>1. DOMAIN q = 1..n
    OBVIOUS
  <2> QED BY <2>1 DEF Without, FoldLeft, MapThenFoldSet
<1>2. n \in Nat /\ \A i \in 1..n : q[i] \in V
  OBVIOUS
<1>3. \E f : IsFold(f)
  <2> DEFINE step == [p \in Seq(V) \X (1..n) |-> IF q[p[2]] = x THEN p[1] ELSE Append(p[1], q[p[2]])]
  <2>1. step \in [Seq(V) \X (1..n) -> Seq(V)]
    <3> SUFFICES ASSUME NEW k \in Seq(V), NEW i \in 1..n
                 PROVE  (IF q[i] = x THEN k ELSE Append(k, q[i])) \in Seq(V)
      OBVIOUS
    <3> QED BY <1>2
  <2>2. \A k \in Seq(V), i \in 1..n : step[<<k, i>>] = IF q[i] = x THEN k ELSE Append(k, q[i])
    OBVIOUS
  <2>3. <<>> \in Seq(V)
    OBVIOUS
  <2> HIDE DEF step, n
  <2>4. PICK f \in [SUBSET (1..n) -> Seq(V)] : FoldsWith(f, n, <<>>, step)
    BY <1>2, <2>1, <2>3, FoldExists
  <2>5. ASSUME NEW s \in SUBSET (1..n) PROVE f[s] = Taken(f, s)
    <3>1. CASE s = {} BY <2>4, <3>1 DEF FoldsWith
    <3>2. CASE s # {}
      <4>1. Max(s) \in 1..n BY <1>2, <3>2, MaxOfIndices
      <4>2. f[s \ {Max(s)}] \in Seq(V) BY <2>4
      <4> QED BY <2>2, <2>4, <3>2, <4>1, <4>2 DEF FoldsWith
    <3> QED BY <3>1, <3>2
  <2> QED BY <2>4, <2>5
<1>4. IsFold(fold)
  <2> HIDE DEF IsFold
  <2> QED BY <1>3
<1> HIDE DEF fold
<1>5. t[0] = <<>>
  <2>1. 1..0 = {} /\ 1..0 \in SUBSET (1..n) OBVIOUS
  <2>2. fold[1..0] = <<>> BY <1>4, <2>1
  <2> QED BY <2>2
<1>6. ASSUME NEW i \in 1..n
      PROVE  t[i] = IF q[i] = x THEN t[i - 1] ELSE Append(t[i - 1], q[i])
  <2>1. 1..i \in SUBSET (1..n) /\ 1..i # {} /\ (1..i) \ {i} = 1..(i - 1) /\ i \in Nat
    <3>1. i \in Nat /\ i >= 1 /\ i <= n /\ n \in Nat BY <1>2
    <3> HIDE DEF n
    <3>2. 1..i \in SUBSET (1..n) /\ 1..i # {} BY <3>1
    <3>3. \A j : j \in (1..i) \ {i} <=> j \in 1..(i - 1) BY <3>1
    <3> QED BY <3>1, <3>2, <3>3
  <2>2. Max(1..i) = i
    <3>1. Max(1..i) \in 1..i /\ \A y \in 1..i : y <= Max(1..i) BY <2>1, MaxOfIndices
    <3> QED BY <3>1, <2>1
  <2>3. fold[1..i] = Taken(fold, 1..i)
    BY <1>4, <2>1
  <2>4. fold[1..i] = IF q[i] = x THEN fold[1..(i - 1)] ELSE Append(fold[1..(i - 1)], q[i])
    BY <2>1, <2>2, <2>3
  <2> QED BY <1>2, <2>4
<1>7. t \in [0..n -> Seq(V)]
  <2> DEFINE S == {i \in 0..n : t[i] \in Seq(V)}
  <2>0. <<>> \in Seq(V) /\ n \in Nat /\ 0 \in 0..n BY <1>2
  <2> HIDE DEF n, t
  <2>1. 0 \in S
    <3>1. t[0] \in Seq(V) BY <2>0, <1>5
    <3> QED BY <2>0, <3>1
  <2>2. \A i \in 1..n : i - 1 \in S => i \in S
    <3> SUFFICES ASSUME NEW i \in 1..n, t[i - 1] \in Seq(V) PROVE t[i] \in Seq(V)
      BY <2>0
    <3>1. q[i] \in V BY <1>2
    <3>2. Append(t[i - 1], q[i]) \in Seq(V) BY <3>1
    <3>3. t[i] = t[i - 1] \/ t[i] = Append(t[i - 1], q[i]) BY <1>6
    <3> QED BY <3>2, <3>3
  <2>3. \A i \in 0..n : i \in S
    <3> HIDE DEF S
    <3> QED BY <1>2, <2>1, <2>2, BoundedInduction
  <2> QED BY <2>3 DEF t
<1>8. t[n] = fold[1..n]
  BY <1>2
<1> QED
  BY <1>1, <1>5, <1>6, <1>7, <1>8 DEF IsTrace

\* A consumer occurs in a group not at all, or at one place.
Never(q, s) == \A j \in 1..Len(q) : q[j] # s
Once(q, s) == \E p \in 1..Len(q) : \A j \in 1..Len(q) : q[j] = s <=> j = p

LEMMA Appended ==
  ASSUME NEW V, NEW q \in Seq(V), NEW x \in V, NEW s
  PROVE  /\ Never(q, s) => IF x = s THEN Once(Append(q, x), s) ELSE Never(Append(q, x), s)
         /\ Once(q, s) /\ x # s => Once(Append(q, x), s)
         /\ Append(q, x) # <<>>
<1>1. /\ Len(Append(q, x)) = Len(q) + 1 /\ Len(q) \in Nat /\ Append(q, x)[Len(q) + 1] = x
      /\ \A j \in 1..Len(q) : Append(q, x)[j] = q[j]
  OBVIOUS
<1> DEFINE r == Append(q, x)
<1> HIDE DEF r
<1>2. ASSUME Never(q, s), x = s PROVE Once(r, s)
  <2>1. Len(q) + 1 \in 1..Len(r) BY <1>1 DEF r
  <2>2. \A j \in 1..Len(r) : r[j] = s <=> j = Len(q) + 1 BY <1>1, <1>2 DEF r, Never
  <2> QED BY <2>1, <2>2 DEF Once
<1>3. ASSUME Never(q, s), x # s PROVE Never(r, s)
  BY <1>1, <1>3 DEF r, Never
<1>4. ASSUME Once(q, s), x # s PROVE Once(r, s)
  <2>1. PICK p \in 1..Len(q) : \A j \in 1..Len(q) : q[j] = s <=> j = p BY <1>4 DEF Once
  <2>2. p \in 1..Len(r) BY <1>1 DEF r
  <2>3. \A j \in 1..Len(r) : r[j] = s <=> j = p BY <1>1, <1>4, <2>1 DEF r
  <2> QED BY <2>2, <2>3 DEF Once
<1> QED
  BY <1>1, <1>2, <1>3, <1>4 DEF r

\* Unsubscribe takes out its own consumer and nobody else.
LEMMA WithoutOne ==
  ASSUME NEW V, NEW q \in Seq(V), NEW x
  PROVE  /\ Without(q, x) \in Seq(V) /\ Never(Without(q, x), x)
         /\ \A s : s # x /\ Once(q, s) => Once(Without(q, x), s)
         /\ \A s : Never(q, s) => Never(Without(q, x), s)
<1>0. PICK t \in [0..Len(q) -> Seq(V)] : IsTrace(t, q, x)
  BY WithoutTrace
<1>1. /\ t[0] = <<>> /\ Without(q, x) = t[Len(q)]
      /\ \A i \in 1..Len(q) : t[i] = IF q[i] = x THEN t[i - 1] ELSE Append(t[i - 1], q[i])
  BY <1>0 DEF IsTrace
<1>2. Len(q) \in Nat /\ \A i \in 1..Len(q) : q[i] \in V /\ i - 1 \in 0..Len(q)
  OBVIOUS
<1>a. ASSUME NEW i \in 1..Len(q)
      PROVE  /\ t[i - 1] \in Seq(V) /\ q[i] \in V
             /\ t[i] = IF q[i] = x THEN t[i - 1] ELSE Append(t[i - 1], q[i])
  BY <1>1, <1>2
<1>3. \A s : Never(t[0], s)
  BY <1>1 DEF Never
<1>4. Never(t[Len(q)], x)
  <2> DEFINE S == {i \in 0..Len(q) : Never(t[i], x)}
  <2>1. 0 \in S BY <1>2, <1>3
  <2>2. \A i \in 1..Len(q) : i - 1 \in S => i \in S
    <3> SUFFICES ASSUME NEW i \in 1..Len(q), Never(t[i - 1], x) PROVE Never(t[i], x)
      OBVIOUS
    <3> QED BY <1>a, Appended
  <2> HIDE DEF S
  <2>3. \A i \in 0..Len(q) : i \in S BY <1>2, <2>1, <2>2, BoundedInduction
  <2> QED BY <1>2, <2>3 DEF S
<1>5. ASSUME NEW s, Never(q, s) PROVE Never(t[Len(q)], s)
  <2> DEFINE S == {i \in 0..Len(q) : Never(t[i], s)}
  <2>1. 0 \in S BY <1>2, <1>3
  <2>2. \A i \in 1..Len(q) : i - 1 \in S => i \in S
    <3> SUFFICES ASSUME NEW i \in 1..Len(q), Never(t[i - 1], s) PROVE Never(t[i], s)
      OBVIOUS
    <3>1. q[i] # s BY <1>5 DEF Never
    <3> QED BY <1>a, <3>1, Appended
  <2> HIDE DEF S
  <2>3. \A i \in 0..Len(q) : i \in S BY <1>2, <2>1, <2>2, BoundedInduction
  <2> QED BY <1>2, <2>3 DEF S
<1>6. ASSUME NEW s, s # x, Once(q, s) PROVE Once(t[Len(q)], s)
  <2>1. PICK p \in 1..Len(q) : \A j \in 1..Len(q) : q[j] = s <=> j = p
    BY <1>6 DEF Once
  <2> DEFINE S == {i \in 0..Len(q) : IF i < p THEN Never(t[i], s) ELSE Once(t[i], s)}
  <2>2. 0 \in S BY <1>2, <1>3, <2>1
  <2>3. \A i \in 1..Len(q) : i - 1 \in S => i \in S
    <3> SUFFICES ASSUME NEW i \in 1..Len(q), i - 1 \in S PROVE i \in S
      OBVIOUS
    <3>1. CASE i < p
      <4>1. Never(t[i - 1], s) /\ q[i] # s BY <2>1, <3>1
      <4>2. Never(t[i], s) BY <1>a, <4>1, Appended
      <4> QED BY <3>1, <4>2
    <3>2. CASE i = p
      <4>1. Never(t[i - 1], s) /\ q[i] = s BY <2>1, <3>2
      <4>2. t[i] = Append(t[i - 1], s) BY <1>1, <1>6, <4>1
      <4>3. Once(t[i], s) BY <1>a, <4>1, <4>2, Appended
      <4> QED BY <3>2, <4>3
    <3>3. CASE i > p
      <4>1. Once(t[i - 1], s) /\ q[i] # s BY <2>1, <3>3
      <4>2. Once(t[i], s) BY <1>a, <4>1, Appended
      <4> QED BY <3>3, <4>2
    <3> QED BY <2>1, <3>1, <3>2, <3>3
  <2> HIDE DEF S
  <2>4. \A i \in 0..Len(q) : i \in S BY <1>2, <2>2, <2>3, BoundedInduction
  <2> QED BY <1>2, <2>1, <2>4 DEF S
<1> QED
  BY <1>1, <1>2, <1>4, <1>5, <1>6

-----------------------------------------------------------------------------
(***************************************************************************)
(* The steps of both specifications.  BookStream adds three kinds to those *)
(* of WsSubs: a handler that starts a goroutine, the check this makes, and *)
(* an update the exchange does not push.                                   *)
(***************************************************************************)
HandlerCalled ==
  /\ CallHandler
  /\ UNCHANGED thread \/ \E w \in Workers : At(w, "idle") /\ Goto(w, "check")
Checked(w) == /\ At(w, "check") /\ \E pc \in {"idle", "unsubscribe"} : Goto(w, pc)
              /\ UNCHANGED <<conn, cancelled, holds, exchange>>
Unpushed(k) == /\ version[k] < MaxVersion /\ version' = [version EXCEPT ![k] = @ + 1]
               /\ UNCHANGED <<conn, side, feed, inbox>>
ThreadStep(t) == Thread(t) \/ (t \in Consumers /\ (Watch(t) \/ ContextDone(t)))
                 \/ (t \in Workers /\ Checked(t))
ConnStep == \/ Publish \/ (\E k \in Keys : Replay(k) \/ ReplayFails(k)) \/ Replayed
            \/ Lookup \/ HandlerCalled \/ ReadFails \/ Cleanup \/ Stop \/ SocketDies \/ Close
OtherStep == (\E s \in Consumers : Cancel(s)) \/ (\E k \in Keys : Change(k) \/ Unpushed(k))
AnyStep == (\E t \in Threads : ThreadStep(t)) \/ ConnStep \/ OtherStep

LEMMA WsStepsAreSteps == ASSUME Next PROVE AnyStep
  BY DEF Next, AnyStep, ThreadStep, ConnStep, OtherStep, Supervisor, Handle, HandlerCalled, Threads

LEMMA BookStepsAreSteps == ASSUME BookNext PROVE AnyStep
<1>1. CASE BookPublish
  BY <1>1 DEF BookPublish, AnyStep, ConnStep
<1>2. CASE BookHandle
  <2> DEFINE s == Head(reader.todo) p == reader.push
  <2>1. CallHandler
    BY <1>2 DEF BookHandle
  <2>2. CASE Skip(s, p) \/ DropBroken(s, p) \/ TakeSnapshot(s, p) \/ TakeUpdate(s, p)
    <3>1. UNCHANGED thread
      BY <2>2 DEF Skip, DropBroken, TakeSnapshot, TakeUpdate, Show
    <3> QED BY <2>1, <3>1 DEF HandlerCalled, AnyStep, ConnStep
  <2>3. CASE Gap(s, p)
    <3>1. \E w \in Workers : At(w, "idle") /\ Goto(w, "check")
      BY <2>3 DEF Gap
    <3> QED BY <2>1, <3>1 DEF HandlerCalled, AnyStep, ConnStep
  <2> QED BY <1>2, <2>2, <2>3 DEF BookHandle
<1>3. ASSUME NEW w \in Workers, WorkerChecks(w) PROVE AnyStep
  <2>1. Checked(w)
    BY <1>3 DEF WorkerChecks, Checked
  <2> QED BY <2>1 DEF AnyStep, ThreadStep, Threads
<1>4. ASSUME NEW k \in Keys, LosePush(k) PROVE AnyStep
  BY <1>4 DEF LosePush, AnyStep, OtherStep, Unpushed
<1>5. CASE Rest
  BY <1>5 DEF Rest, AnyStep, ThreadStep, ConnStep, OtherStep, Threads
<1> QED
  BY <1>1, <1>2, <1>3, <1>4, <1>5 DEF BookNext

(***************************************************************************)
(* Types                                                                   *)
(***************************************************************************)
\* A frame is written on a socket that was there; pushes come on one that was dialled.
SocketInv ==
  /\ \A t \in Threads : thread[t].pc \in {"sendSub", "sendUnsub"} => thread[t].sock # 0
  /\ alive => sup \in {"replay", "run"}
  /\ sup \in {"replay", "run", "down"} => dialled # 0
  /\ closed => ~alive

Typed == TypeOK /\ SocketInv

LEMMA TypedInit == Init => Typed
<1> SUFFICES ASSUME Init PROVE Typed
  OBVIOUS
<1>1. thread \in [Threads -> ThreadStates]
  <2>1. [pc |-> "idle", sock |-> 0] \in ThreadStates
    BY BoundsAssumption DEF ThreadStates, Pcs
  <2> QED BY <2>1 DEF Init
<1>2. members \in [Keys -> Seq(Consumers)] /\ inbox \in Seq(Pushes) /\ reader.todo \in Seq(Consumers)
  BY DEF Init, IdleReader
<1>3. version \in [Keys -> 1..MaxVersion] /\ holds \in [Consumers -> 0..MaxSockets] /\ dialled \in 0..MaxSockets
  BY BoundsAssumption DEF Init
<1>4. reader.todo = <<>>
  BY DEF Init, IdleReader
<1>5. SocketInv
  BY DEF Init, SocketInv
<1> QED
  BY <1>1, <1>2, <1>3, <1>4, <1>5 DEF Init, Typed, TypeOK

\* A thread that is sent on is a thread.
LEMMA GotoTyped ==
  ASSUME thread \in [Threads -> ThreadStates], NEW t \in Threads, NEW pc \in Pcs, Goto(t, pc)
  PROVE  /\ thread' \in [Threads -> ThreadStates]
         /\ thread'[t].pc = pc /\ thread'[t].sock = thread[t].sock
         /\ \A u \in Threads \ {t} : thread'[u] = thread[u]
<1>1. thread[t] \in ThreadStates
  OBVIOUS
<1>2. [thread[t] EXCEPT !.pc = pc] \in ThreadStates
  BY <1>1 DEF ThreadStates
<1>3. thread' = [thread EXCEPT ![t] = [thread[t] EXCEPT !.pc = pc]]
  BY DEF Goto
<1>4. /\ [thread[t] EXCEPT !.pc = pc].pc = pc
      /\ [thread[t] EXCEPT !.pc = pc].sock = thread[t].sock
  BY <1>1 DEF ThreadStates
<1> QED
  BY <1>2, <1>3, <1>4

LEMMA SendTyped ==
  ASSUME thread \in [Threads -> ThreadStates], NEW t \in Threads, NEW pc \in Pcs,
         NEW s \in 0..MaxSockets, thread' = [thread EXCEPT ![t] = [pc |-> pc, sock |-> s]]
  PROVE  /\ thread' \in [Threads -> ThreadStates]
         /\ thread'[t].pc = pc /\ thread'[t].sock = s
         /\ \A u \in Threads \ {t} : thread'[u] = thread[u]
<1>1. [pc |-> pc, sock |-> s] \in ThreadStates
  BY DEF ThreadStates
<1> QED
  BY <1>1

\* What the exchange sends is a push of the current socket.
LEMMA PushTyped ==
  ASSUME Typed, NEW k \in Keys, dialled # 0
  PROVE  /\ Snapshot(k) \in Pushes
         /\ version[k] < MaxVersion =>
              [key |-> k, sock |-> dialled, snapshot |-> FALSE,
               begin |-> version[k], nonce |-> version[k] + 1] \in Pushes
<1>1. version[k] \in 1..MaxVersion /\ dialled \in 1..MaxSockets
  BY BoundsAssumption DEF Typed, TypeOK
<1> QED
  BY <1>1, BoundsAssumption DEF Pushes, Snapshot

LEMMA FrameTyped ==
  ASSUME Typed, NEW k \in Keys, NEW s, NEW kind, s # 0, WriteOk(s, kind, k) \/ WriteFails(s)
  PROVE  /\ feed' \subseteq Keys /\ inbox' \in Seq(Pushes) /\ alive' \in BOOLEAN
         /\ alive' => alive
<1>1. inbox \in Seq(Pushes) /\ feed \subseteq Keys /\ alive \in BOOLEAN
  BY DEF Typed, TypeOK
<1>2. CASE WriteFails(s)
  BY <1>1, <1>2 DEF WriteFails
<1>3. CASE WriteOk(s, kind, k)
  <2>1. dialled # 0
    BY <1>3 DEF WriteOk, Typed, TypeOK, SocketInv
  <2>2. Snapshot(k) \in Pushes
    BY <2>1, PushTyped
  <2>3. inbox' = inbox \/ inbox' = Append(inbox, Snapshot(k))
    BY <1>3 DEF WriteOk, FrameTaken
  <2>4. inbox' \in Seq(Pushes)
    BY <1>1, <2>2, <2>3
  <2>5. feed' \subseteq Keys /\ alive' = alive
    BY <1>1, <1>3 DEF WriteOk, FrameTaken
  <2> QED BY <1>1, <2>4, <2>5
<1> QED
  BY <1>2, <1>3

LEMMA ThreadKeys ==
  ASSUME NEW t \in Threads
  PROVE  Of(t) \in Consumers /\ Key(t) \in Keys /\ Key(t) = KeyOf[Of(t)]
  BY ChannelsAssumption, WorkersAssumption DEF Of, Key, Threads

\* Where a thread goes, one step after the other.
LEMMA ThreadMoves ==
  ASSUME Typed, NEW t \in Threads, ThreadStep(t)
  PROVE  /\ thread' \in [Threads -> ThreadStates]
         /\ \A u \in Threads \ {t} : thread'[u] = thread[u]
         /\ thread'[t].pc \in {"sendSub", "sendUnsub"} => thread'[t].sock = socket /\ socket # 0
<1>1. thread \in [Threads -> ThreadStates] /\ socket \in 0..MaxSockets
  BY BoundsAssumption DEF Typed, TypeOK
<1>2. /\ AfterSubscribe(t) \in Pcs /\ AfterFailure(t) \in Pcs /\ AfterUnsubscribe(t) \in Pcs
      /\ {AfterSubscribe(t), AfterFailure(t), AfterUnsubscribe(t)} \cap {"sendSub", "sendUnsub"} = {}
  BY DEF AfterSubscribe, AfterFailure, AfterUnsubscribe, Pcs
<1>3. {"subscribe", "unsubscribe", "idle", "sendSub", "sendUnsub"} \subseteq Pcs
  BY DEF Pcs
<1>4. \/ \E pc \in Pcs \ {"sendSub", "sendUnsub"} : Goto(t, pc)
      \/ /\ socket # 0
         /\ \E pc \in {"sendSub", "sendUnsub"} : thread' = [thread EXCEPT ![t] = [pc |-> pc, sock |-> socket]]
  <2>1. CASE Subscribe(t) BY <2>1, <1>2 DEF Subscribe
  <2>2. CASE SendSubscribe(t) BY <2>2, <1>2 DEF SendSubscribe
  <2>3. CASE AuthFails(t) BY <2>3, <1>2 DEF AuthFails
  <2>4. CASE Unsubscribe(t) BY <2>4, <1>2 DEF Unsubscribe
  <2>5. CASE SendUnsubscribe(t) BY <2>5, <1>2 DEF SendUnsubscribe
  <2>6. CASE Watch(t) BY <2>6, <1>3 DEF Watch
  <2>7. CASE ContextDone(t) BY <2>7, <1>3 DEF ContextDone
  <2>8. CASE Checked(t) BY <2>8, <1>3 DEF Checked
  <2> QED BY <2>1, <2>2, <2>3, <2>4, <2>5, <2>6, <2>7, <2>8 DEF ThreadStep, Thread
<1>5. CASE \E pc \in Pcs \ {"sendSub", "sendUnsub"} : Goto(t, pc)
  BY <1>1, <1>5, GotoTyped
<1>6. CASE /\ socket # 0
           /\ \E pc \in {"sendSub", "sendUnsub"} : thread' = [thread EXCEPT ![t] = [pc |-> pc, sock |-> socket]]
  <2>1. PICK pc \in {"sendSub", "sendUnsub"} : thread' = [thread EXCEPT ![t] = [pc |-> pc, sock |-> socket]]
    BY <1>6
  <2>2. pc \in Pcs BY <1>3
  <2> QED BY <1>1, <1>6, <2>1, <2>2, SendTyped
<1> QED
  BY <1>4, <1>5, <1>6

\* What else a thread's step may touch: its group, the socket it writes on.
LEMMA ThreadTouches ==
  ASSUME Typed, NEW t \in Threads, ThreadStep(t)
  PROVE  /\ \/ UNCHANGED members
            \/ /\ At(t, "subscribe") /\ ~closed
               /\ members' = [members EXCEPT ![Key(t)] = Append(members[Key(t)], Of(t))]
            \/ /\ At(t, "unsubscribe") /\ ~closed
               /\ members' = [members EXCEPT ![Key(t)] = Without(members[Key(t)], Of(t))]
         /\ \/ UNCHANGED <<alive, feed, inbox>>
            \/ /\ thread[t].pc \in {"sendSub", "sendUnsub"}
               /\ \/ WriteOk(thread[t].sock, IF At(t, "sendSub") THEN "subscribe" ELSE "unsubscribe", Key(t))
                  \/ WriteFails(thread[t].sock)
         /\ UNCHANGED <<closed, socket, dialled, sup, toReplay, reader, cancelled, holds, version>>
<1>1. CASE Subscribe(t) BY <1>1 DEF Subscribe, exchange
<1>2. CASE SendSubscribe(t) BY <1>2 DEF SendSubscribe, At
<1>3. CASE AuthFails(t) BY <1>3 DEF AuthFails, conn, exchange
<1>4. CASE Unsubscribe(t) BY <1>4 DEF Unsubscribe, exchange
<1>5. CASE SendUnsubscribe(t) BY <1>5 DEF SendUnsubscribe, At
<1>6. CASE Watch(t) BY <1>6 DEF Watch, conn, exchange
<1>7. CASE ContextDone(t) BY <1>7 DEF ContextDone, conn, exchange
<1>8. CASE Checked(t) BY <1>8 DEF Checked, conn, exchange
<1> QED
  BY <1>1, <1>2, <1>3, <1>4, <1>5, <1>6, <1>7, <1>8 DEF ThreadStep, Thread

LEMMA ThreadKeepsTyped ==
  ASSUME Typed, NEW t \in Threads, ThreadStep(t)
  PROVE  Typed'
<1>1. /\ members \in [Keys -> Seq(Consumers)] /\ Of(t) \in Consumers /\ Key(t) \in Keys
      /\ feed \subseteq Keys /\ inbox \in Seq(Pushes) /\ alive \in BOOLEAN
  BY ThreadKeys DEF Typed, TypeOK
<1>2. members' \in [Keys -> Seq(Consumers)]
  <2>1. members[Key(t)] \in Seq(Consumers)
    BY <1>1
  <2>2. /\ Append(members[Key(t)], Of(t)) \in Seq(Consumers)
        /\ Without(members[Key(t)], Of(t)) \in Seq(Consumers)
    BY <1>1, <2>1, WithoutOne
  <2> QED BY <1>1, <2>2, ThreadTouches
<1>3. /\ feed' \subseteq Keys /\ inbox' \in Seq(Pushes) /\ alive' \in BOOLEAN
      /\ alive' => alive
  <2>1. thread[t].pc \in {"sendSub", "sendUnsub"} => thread[t].sock # 0
    BY DEF Typed, SocketInv
  <2> QED BY <1>1, <2>1, ThreadTouches, FrameTyped
<1>4. thread' \in [Threads -> ThreadStates]
  BY ThreadMoves
<1>5. UNCHANGED <<closed, socket, dialled, sup, toReplay, reader, cancelled, holds, version>>
  BY ThreadTouches
<1>6. TypeOK'
  BY <1>2, <1>3, <1>4, <1>5 DEF Typed, TypeOK
<1>7. SocketInv'
  <2>1. \A u \in Threads : thread'[u].pc \in {"sendSub", "sendUnsub"} => thread'[u].sock # 0
    BY ThreadMoves DEF Typed, SocketInv
  <2> QED BY <1>3, <1>5, <2>1 DEF Typed, SocketInv
<1> QED
  BY <1>6, <1>7 DEF Typed

LEMMA ConnKeepsTyped ==
  ASSUME Typed, ConnStep
  PROVE  Typed'
<1>1. thread \in [Threads -> ThreadStates] /\ inbox \in Seq(Pushes) /\ feed \subseteq Keys
      /\ members \in [Keys -> Seq(Consumers)] /\ holds \in [Consumers -> 0..MaxSockets]
  BY DEF Typed, TypeOK
<1>2. CASE Publish
  <2>1. dialled' = dialled + 1 /\ dialled' \in 0..MaxSockets /\ dialled' # 0
    BY <1>2, BoundsAssumption DEF Publish, Typed, TypeOK
  <2>2. holds' \in [Consumers -> 0..MaxSockets]
    BY <1>1, <1>2, BoundsAssumption DEF Publish
  <2>3. toReplay' \subseteq Keys /\ feed' \subseteq Keys /\ inbox' \in Seq(Pushes)
    BY <1>2 DEF Publish, Registered
  <2>4. TypeOK'
    BY <1>2, <2>1, <2>2, <2>3 DEF Publish, Typed, TypeOK
  <2> QED
    BY <1>2, <2>1, <2>4 DEF Publish, Typed, SocketInv
<1>3. ASSUME NEW k \in Keys, Replay(k) PROVE Typed'
  <2>1. sup = "replay" /\ dialled # 0 /\ WriteOk(dialled, "subscribe", k)
    BY <1>3 DEF Replay, Typed, SocketInv
  <2>2. /\ feed' \subseteq Keys /\ inbox' \in Seq(Pushes) /\ alive' = alive
    BY <2>1, FrameTyped DEF WriteOk
  <2>3. /\ toReplay' \subseteq Keys
        /\ UNCHANGED <<members, closed, socket, dialled, sup, reader, thread, cancelled, holds, version>>
    BY <1>3 DEF Replay, side, Typed, TypeOK
  <2>4. TypeOK'
    BY <2>2, <2>3 DEF Typed, TypeOK
  <2> QED
    BY <2>2, <2>3, <2>4 DEF Typed, SocketInv
<1>4. ASSUME NEW k \in Keys, ReplayFails(k) PROVE Typed'
  <2>1. sup = "replay" /\ sup' = "down" /\ alive' = FALSE
    BY <1>4 DEF ReplayFails
  <2>2. UNCHANGED <<members, closed, socket, dialled, toReplay, reader, thread, cancelled, holds, feed, inbox, version>>
    BY <1>4 DEF ReplayFails, side, exchange
  <2> QED
    BY <2>1, <2>2 DEF Typed, TypeOK, SocketInv
<1>5. CASE Replayed
  BY <1>5 DEF Replayed, side, exchange, Typed, TypeOK, SocketInv
<1>6. CASE Lookup
  <2>1. Head(inbox) \in Pushes /\ Tail(inbox) \in Seq(Pushes) /\ Head(inbox).key \in Keys
    <3>1. Head(inbox) \in Pushes /\ Tail(inbox) \in Seq(Pushes)
      BY <1>1, <1>6 DEF Lookup
    <3> QED BY <3>1 DEF Pushes
  <2>2. members[Head(inbox).key] \in Seq(Consumers)
    BY <1>1, <2>1
  <2>3. /\ reader'.todo \in Seq(Consumers) /\ reader'.push \in Pushes /\ inbox' \in Seq(Pushes)
    BY <1>6, <2>1, <2>2 DEF Lookup
  <2>4. UNCHANGED <<members, closed, socket, dialled, alive, sup, toReplay, thread, cancelled, holds, feed, version>>
    BY <1>6 DEF Lookup, side
  <2> QED
    BY <2>3, <2>4 DEF Typed, TypeOK, SocketInv
<1>7. CASE HandlerCalled
  <2>1. /\ reader.todo \in Seq(Consumers) /\ reader.todo # <<>> /\ reader.push \in Pushes
    BY <1>7 DEF HandlerCalled, CallHandler, Typed, TypeOK
  <2>2. /\ Tail(reader.todo) \in Seq(Consumers)
        /\ reader.push.sock \in 0..MaxSockets
    BY <2>1, BoundsAssumption DEF Pushes
  <2>3. /\ reader'.todo \in Seq(Consumers)
        /\ reader'.todo # <<>> => reader'.push \in Pushes
    <3>1. reader' = IdleReader \/ reader' = [reader EXCEPT !.todo = Tail(reader.todo)]
      BY <1>7 DEF HandlerCalled, CallHandler
    <3>2. IdleReader.todo = <<>> /\ <<>> \in Seq(Consumers)
      BY DEF IdleReader
    <3>3. CASE reader' = IdleReader
      BY <3>2, <3>3
    <3>4. CASE reader' = [reader EXCEPT !.todo = Tail(reader.todo)]
      BY <2>1, <2>2, <3>4
    <3> QED BY <3>1, <3>3, <3>4
  <2>4. holds' \in [Consumers -> 0..MaxSockets]
    BY <1>1, <1>7, <2>2 DEF HandlerCalled, CallHandler
  <2>5. /\ thread' \in [Threads -> ThreadStates]
        /\ \A u \in Threads : thread'[u] = thread[u] \/ thread'[u].pc = "check"
    <3>1. CASE UNCHANGED thread BY <1>1, <3>1
    <3>2. CASE \E w \in Workers : Goto(w, "check")
      <4>1. PICK w \in Workers : Goto(w, "check") BY <3>2
      <4>2. w \in Threads /\ "check" \in Pcs BY DEF Threads, Pcs
      <4> QED BY <1>1, <4>1, <4>2, GotoTyped
    <3> QED BY <1>7, <3>1, <3>2 DEF HandlerCalled
  <2>6. UNCHANGED <<members, closed, socket, dialled, alive, sup, toReplay, cancelled, feed, inbox, version>>
    BY <1>7 DEF HandlerCalled, CallHandler, exchange
  <2>7. TypeOK'
    BY <2>3, <2>4, <2>5, <2>6 DEF Typed, TypeOK
  <2>8. SocketInv'
    BY <2>5, <2>6 DEF Typed, SocketInv
  <2> QED
    BY <2>7, <2>8 DEF Typed
<1>8. CASE ReadFails
  BY <1>8 DEF ReadFails, side, exchange, Typed, TypeOK, SocketInv
<1>9. CASE Cleanup
  <2>1. inbox' \in Seq(Pushes) /\ feed' \subseteq Keys /\ ~alive
    BY <1>9 DEF Cleanup, Typed, SocketInv
  <2> QED
    BY <1>9, <2>1 DEF Cleanup, side, Typed, TypeOK, SocketInv
<1>10. CASE Stop
  BY <1>10 DEF Stop, side, exchange, Typed, TypeOK, SocketInv
<1>11. CASE SocketDies
  BY <1>11 DEF SocketDies, side, exchange, Typed, TypeOK, SocketInv
<1>12. CASE Close
  BY <1>12 DEF Close, side, exchange, Typed, TypeOK, SocketInv
<1> QED
  BY <1>2, <1>3, <1>4, <1>5, <1>6, <1>7, <1>8, <1>9, <1>10, <1>11, <1>12 DEF ConnStep

LEMMA OtherKeepsTyped ==
  ASSUME Typed, OtherStep
  PROVE  Typed'
<1>1. ASSUME NEW s \in Consumers, Cancel(s) PROVE Typed'
  BY <1>1 DEF Cancel, conn, exchange, Typed, TypeOK, SocketInv
<1>2. ASSUME NEW k \in Keys, Change(k) \/ Unpushed(k) PROVE Typed'
  <2>1. version' \in [Keys -> 1..MaxVersion]
    <3>1. version \in [Keys -> 1..MaxVersion] /\ version[k] < MaxVersion
      BY <1>2 DEF Change, Unpushed, Typed, TypeOK
    <3>2. version' = [version EXCEPT ![k] = version[k] + 1]
      BY <1>2 DEF Change, Unpushed
    <3>3. version[k] + 1 \in 1..MaxVersion
      BY <3>1, BoundsAssumption
    <3> QED BY <3>1, <3>2, <3>3
  <2>2. UNCHANGED <<conn, side, feed>>
    BY <1>2 DEF Change, Unpushed
  <2>3. inbox' \in Seq(Pushes)
    <3> DEFINE p == [key |-> k, sock |-> dialled, snapshot |-> FALSE,
                     begin |-> version[k], nonce |-> version[k] + 1]
    <3>1. inbox' = inbox \/ (alive /\ inbox' = Append(inbox, p))
      BY <1>2 DEF Change, Unpushed
    <3>2. alive => p \in Pushes
      BY <1>2, PushTyped DEF Typed, SocketInv, Change, Unpushed
    <3>3. inbox \in Seq(Pushes)
      BY DEF Typed, TypeOK
    <3> HIDE DEF p
    <3> QED
      BY <3>1, <3>2, <3>3
  <2> QED
    BY <2>1, <2>2, <2>3 DEF conn, side, Typed, TypeOK, SocketInv
<1> QED
  BY <1>1, <1>2 DEF OtherStep

LEMMA TypedStep ==
  ASSUME Typed, AnyStep
  PROVE  Typed'
  BY ThreadKeepsTyped, ConnKeepsTyped, OtherKeepsTyped DEF AnyStep

LEMMA TypedStutter ==
  ASSUME Typed, UNCHANGED vars
  PROVE  Typed'
  BY DEF vars, conn, side, exchange, Typed, TypeOK, SocketInv

LEMMA TypedAlways == Spec => []Typed
<1>1. Typed /\ [Next]_vars => Typed'
  BY WsStepsAreSteps, TypedStep, TypedStutter
<1> QED
  BY <1>1, TypedInit, PTL DEF Spec

\* Every variable of the connection keeps its type, whatever its consumers do.
THEOREM TypeCorrect == Spec => []TypeOK
<1>1. Typed => TypeOK
  BY DEF Typed
<1> QED
  BY <1>1, TypedAlways, PTL

(***************************************************************************)
(* The steps of one thread, one line each: where it was, where it goes,    *)
(* and what becomes of its group and of what the exchange feeds.           *)
(***************************************************************************)
Moves(t, from, to) == thread[t].pc = from /\ thread'[t].pc = to
SameWire == UNCHANGED <<alive, feed, inbox>>
Failing(t) == \/ WriteFails(thread[t].sock)
              \/ Key(t) \in Private /\ SameWire
Registers(t) ==
  /\ thread[t].pc = "subscribe" /\ ~closed /\ SameWire
  /\ members' = [members EXCEPT ![Key(t)] = Append(members[Key(t)], Of(t))]
  /\ IF members[Key(t)] = <<>> /\ socket # 0
     THEN thread'[t].pc = "sendSub" /\ thread'[t].sock = socket
     ELSE thread'[t].pc = AfterSubscribe(t)
Deregisters(t) ==
  /\ thread[t].pc = "unsubscribe" /\ ~closed /\ SameWire
  /\ members' = [members EXCEPT ![Key(t)] = Without(members[Key(t)], Of(t))]
  /\ thread'[t].pc \in {"sendUnsub", AfterUnsubscribe(t)}
Writes(t) ==
  \/ /\ Moves(t, "sendSub", AfterSubscribe(t))
     /\ WriteOk(thread[t].sock, "subscribe", Key(t))
  \/ Moves(t, "sendSub", AfterFailure(t)) /\ Failing(t)
  \/ /\ Moves(t, "sendUnsub", AfterUnsubscribe(t))
     /\ WriteOk(thread[t].sock, "unsubscribe", Key(t)) \/ WriteFails(thread[t].sock)
Walks(t) ==
  \/ Moves(t, "idle", "subscribe") /\ t \in Consumers
  \/ Moves(t, "joined", "unsubscribe") /\ t \in Consumers /\ t \in cancelled
  \/ Moves(t, "subscribe", AfterFailure(t)) /\ closed
  \/ Moves(t, "unsubscribe", AfterUnsubscribe(t)) /\ closed
  \/ t \in Workers /\ (Moves(t, "check", "idle") \/ Moves(t, "check", "unsubscribe"))

LEMMA ThreadTable ==
  ASSUME Typed, NEW t \in Threads, ThreadStep(t)
  PROVE  /\ \/ Registers(t) \/ Deregisters(t)
            \/ UNCHANGED members /\ Writes(t)
            \/ UNCHANGED members /\ SameWire /\ Walks(t)
         /\ UNCHANGED <<closed, socket, dialled, sup, toReplay, reader, cancelled, holds, version>>
         /\ \A u \in Threads \ {t} : thread'[u] = thread[u]
<1>1. thread \in [Threads -> ThreadStates] /\ socket \in 0..MaxSockets
  BY BoundsAssumption DEF Typed, TypeOK
<1>a. ASSUME NEW pc, Goto(t, pc) PROVE thread'[t].pc = pc
  BY <1>1, <1>a DEF Goto, ThreadStates
<1>2. /\ Goto(t, "idle") => thread'[t].pc = "idle"
      /\ Goto(t, "subscribe") => thread'[t].pc = "subscribe"
      /\ Goto(t, "unsubscribe") => thread'[t].pc = "unsubscribe"
      /\ Goto(t, AfterSubscribe(t)) => thread'[t].pc = AfterSubscribe(t)
      /\ Goto(t, AfterFailure(t)) => thread'[t].pc = AfterFailure(t)
      /\ Goto(t, AfterUnsubscribe(t)) => thread'[t].pc = AfterUnsubscribe(t)
  BY <1>a
<1>b. ASSUME NEW pc, thread' = [thread EXCEPT ![t] = [pc |-> pc, sock |-> socket]]
      PROVE  thread'[t].pc = pc /\ thread'[t].sock = socket
  BY <1>1, <1>b
<1>3. /\ thread' = [thread EXCEPT ![t] = [pc |-> "sendSub", sock |-> socket]]
           => thread'[t].pc = "sendSub" /\ thread'[t].sock = socket
      /\ thread' = [thread EXCEPT ![t] = [pc |-> "sendUnsub", sock |-> socket]]
           => thread'[t].pc = "sendUnsub" /\ thread'[t].sock = socket
  BY <1>b
<1>4. \/ Registers(t) \/ Deregisters(t)
      \/ UNCHANGED members /\ Writes(t)
      \/ UNCHANGED members /\ SameWire /\ Walks(t)
  <2>4. CASE Subscribe(t)
    <3>1. CASE closed
      BY <1>2, <2>4, <3>1 DEF Subscribe, At, Walks, Moves, SameWire, exchange
    <3>2. CASE ~closed
      BY <1>2, <1>3, <2>4, <3>2 DEF Subscribe, At, Registers, SameWire, exchange
    <3> QED BY <3>1, <3>2
  <2>5. CASE SendSubscribe(t)
    BY <1>2, <2>5 DEF SendSubscribe, At, Writes, Moves, Failing
  <2>6. CASE AuthFails(t)
    BY <1>2, <2>6 DEF AuthFails, At, Writes, Moves, Failing, SameWire, conn, exchange
  <2>7. CASE Unsubscribe(t)
    <3>1. CASE closed
      BY <1>2, <2>7, <3>1 DEF Unsubscribe, At, Walks, Moves, SameWire, exchange
    <3>2. CASE ~closed
      BY <1>2, <1>3, <2>7, <3>2 DEF Unsubscribe, At, Deregisters, SameWire, exchange
    <3> QED BY <3>1, <3>2
  <2>8. CASE SendUnsubscribe(t)
    BY <1>2, <2>8 DEF SendUnsubscribe, At, Writes, Moves
  <2>9. CASE t \in Consumers /\ Watch(t)
    BY <1>2, <2>9 DEF Watch, At, Walks, Moves, SameWire, conn, exchange
  <2>10. CASE t \in Consumers /\ ContextDone(t)
    BY <1>2, <2>10 DEF ContextDone, At, Walks, Moves, SameWire, conn, exchange
  <2>11. CASE t \in Workers /\ Checked(t)
    BY <1>2, <2>11 DEF Checked, At, Walks, Moves, SameWire, conn, exchange
  <2> QED
    BY <2>4, <2>5, <2>6, <2>7, <2>8, <2>9, <2>10, <2>11 DEF ThreadStep, Thread
<1>12. \A u \in Threads \ {t} : thread'[u] = thread[u]
  BY ThreadMoves
<1>13. UNCHANGED <<closed, socket, dialled, sup, toReplay, reader, cancelled, holds, version>>
  BY ThreadTouches
<1> QED
  BY <1>4, <1>12, <1>13

-----------------------------------------------------------------------------
(***************************************************************************)
(* WsSubs alone: no goroutine resubscribes, so only consumers step.        *)
(***************************************************************************)
IdleInv == \A w \in Workers : thread[w].pc = "idle"

\* A consumer is in the group of its channel from its Subscribe to its
\* Unsubscribe, once; a failed Subscribe may leave it there.
Listed(s) == thread[s].pc \in {"sendSub", "joined", "unsubscribe"}
OnceInv == \A s \in Consumers : ~closed /\ thread[s].pc # "failed" =>
             IF Listed(s) THEN Once(members[KeyOf[s]], s) ELSE Never(members[KeyOf[s]], s)

\* Only who is cancelled leaves.
LeaveInv == \A s \in Consumers :
              thread[s].pc \in {"unsubscribe", "sendUnsub", "left"} => s \in cancelled

\* Who has not subscribed is in no group and is not about to be called.
New(s) == thread[s].pc \in {"idle", "subscribe"}
GroupInv == \A k \in Keys : \A s \in Consumers :
              ~Never(members[k], s) => KeyOf[s] = k /\ ~New(s)
OfSocket(q, d) == \A i \in 1..Len(q) : q[i].sock = d
CallInv == /\ \A s \in Consumers : ~Never(reader.todo, s) => KeyOf[s] = reader.push.key /\ ~New(s)
           /\ reader.todo # <<>> => sup = "run" /\ reader.push.sock = dialled
           /\ OfSocket(inbox, dialled)

\* What the members of a group hold is of the current socket.
HoldInv == /\ \A s \in Consumers : New(s) => holds[s] = 0
           /\ \A k \in Keys : \A s \in Consumers :
                ~Never(members[k], s) => holds[s] \in {0, dialled}
           /\ \A s \in Consumers : ~Never(reader.todo, s) => holds[s] \in {0, dialled}

\* An undisturbed channel with members is fed, or about to be: by the replay,
\* or by the consumer that came first.
Sending(k) == \E s \in Consumers : /\ thread[s].pc = "sendSub" /\ KeyOf[s] = k
                                   /\ thread[s].sock = socket
FedInv == /\ sup = "run" => toReplay = {}
          /\ \A k \in Keys : Undisturbed(k) /\ alive /\ members[k] # <<>> =>
                k \in feed \/ k \in toReplay \/ Sending(k)

\* The step of a consumer, the connection's and the others' leave what they do
\* not mention as it was.
QuietConn == ConnStep /\ UNCHANGED <<members, thread, cancelled>> /\ (closed => closed')
QuietOther == /\ OtherStep /\ UNCHANGED <<members, closed, socket, dialled, alive, sup, toReplay,
                                          reader, thread, holds, feed>>
              /\ cancelled \subseteq cancelled'

LEMMA QuietSteps ==
  ASSUME Typed, IdleInv, Next
  PROVE  /\ (\E s \in Consumers : ThreadStep(s)) \/ QuietConn \/ QuietOther
         /\ IdleInv'
<1>1. ASSUME NEW s \in Consumers, ThreadStep(s) PROVE IdleInv'
  <2>1. \A w \in Workers : w \in Threads \ {s}
    BY WorkersAssumption DEF Threads
  <2> QED BY <1>1, <2>1, ThreadTable DEF IdleInv, Threads
<1>2. ASSUME NEW w \in Workers, Thread(w) PROVE FALSE
  BY <1>2 DEF Thread, Subscribe, SendSubscribe, AuthFails, Unsubscribe, SendUnsubscribe, At, IdleInv
<1>3. CASE Supervisor \/ SocketDies \/ Close
  <2>1. ConnStep
    BY <1>3 DEF Supervisor, ConnStep, Handle, HandlerCalled
  <2>2. UNCHANGED <<members, thread, cancelled>> /\ (closed => closed')
    BY <1>3 DEF Supervisor, Publish, Replay, ReplayFails, Replayed, Lookup, Handle, CallHandler,
                ReadFails, Cleanup, Stop, SocketDies, Close, side
  <2> QED BY <2>1, <2>2 DEF QuietConn, IdleInv
<1>4. ASSUME NEW s \in Consumers, Cancel(s) PROVE QuietOther /\ IdleInv'
  BY <1>4 DEF Cancel, QuietOther, OtherStep, IdleInv, conn, exchange
<1>5. ASSUME NEW k \in Keys, Change(k) PROVE QuietOther /\ IdleInv'
  BY <1>5 DEF Change, QuietOther, OtherStep, IdleInv, conn, side
<1> QED
  BY <1>1, <1>2, <1>3, <1>4, <1>5 DEF Next, Threads, ThreadStep

\* The table of thread steps, for a consumer.
LEMMA ConsumerTable ==
  ASSUME Typed, NEW s \in Consumers, ThreadStep(s)
  PROVE  /\ s \in Threads /\ Of(s) = s /\ Key(s) = KeyOf[s] /\ KeyOf[s] \in Keys /\ s \notin Workers
         /\ AfterSubscribe(s) = "joined" /\ AfterFailure(s) = "failed" /\ AfterUnsubscribe(s) = "left"
         /\ \A u \in Consumers \ {s} : thread'[u] = thread[u]
         /\ \A k \in Keys \ {KeyOf[s]} : members'[k] = members[k]
         /\ members[KeyOf[s]] \in Seq(Consumers)
         /\ Registers(s) => members'[KeyOf[s]] = Append(members[KeyOf[s]], s)
         /\ Deregisters(s) => members'[KeyOf[s]] = Without(members[KeyOf[s]], s)
         /\ thread[s].pc # "failed" /\ (New(s)' => New(s))
<1>1. s \in Threads /\ s \notin Workers
  BY WorkersAssumption DEF Threads
<1>2. /\ Of(s) = s /\ Key(s) = KeyOf[s] /\ KeyOf[s] \in Keys
      /\ AfterSubscribe(s) = "joined" /\ AfterFailure(s) = "failed" /\ AfterUnsubscribe(s) = "left"
  BY <1>1, ChannelsAssumption DEF Of, Key, AfterSubscribe, AfterFailure, AfterUnsubscribe
<1>3. members \in [Keys -> Seq(Consumers)]
  BY DEF Typed, TypeOK
<1>4. \A u \in Consumers \ {s} : thread'[u] = thread[u]
  BY <1>1, ThreadTable DEF Threads
<1>5. \/ Registers(s) \/ Deregisters(s)
      \/ UNCHANGED members /\ Writes(s)
      \/ UNCHANGED members /\ Walks(s)
  BY <1>1, ThreadTable
<1>6. \A k \in Keys \ {KeyOf[s]} : members'[k] = members[k]
  BY <1>2, <1>3, <1>5 DEF Registers, Deregisters
<1>7. /\ Registers(s) => members'[KeyOf[s]] = Append(members[KeyOf[s]], s)
      /\ Deregisters(s) => members'[KeyOf[s]] = Without(members[KeyOf[s]], s)
  BY <1>2, <1>3 DEF Registers, Deregisters
<1>8. thread[s].pc # "failed" /\ (New(s)' => New(s))
  <2>1. CASE Registers(s)
    BY <1>2, <2>1 DEF Registers, New
  <2>2. CASE Deregisters(s)
    BY <1>2, <2>2 DEF Deregisters, New
  <2>3. CASE Writes(s)
    BY <1>2, <2>3 DEF Writes, Moves, New
  <2>4. CASE Walks(s)
    BY <1>1, <1>2, <2>4 DEF Walks, Moves, New
  <2> QED BY <1>5, <2>1, <2>2, <2>3, <2>4
<1> QED
  BY <1>1, <1>2, <1>3, <1>4, <1>6, <1>7, <1>8

\* What one consumer's step does to the presence of another, and to its own.
LEMMA Presence ==
  ASSUME Typed, NEW s \in Consumers, ThreadStep(s), NEW k \in Keys, NEW u \in Consumers
  PROVE  /\ u # s /\ Never(members[k], u) => Never(members'[k], u)
         /\ u # s /\ Once(members[k], u) => Once(members'[k], u)
         /\ k # KeyOf[s] => members'[k] = members[k]
         /\ ~Registers(s) /\ Never(members[k], u) => Never(members'[k], u)
<1>1. /\ members[KeyOf[s]] \in Seq(Consumers)
      /\ \/ members'[KeyOf[s]] = Append(members[KeyOf[s]], s) /\ Registers(s)
         \/ members'[KeyOf[s]] = Without(members[KeyOf[s]], s)
         \/ members'[KeyOf[s]] = members[KeyOf[s]]
  BY ConsumerTable, ThreadTable
<1>2. k # KeyOf[s] => members'[k] = members[k]
  BY ConsumerTable
<1>3. CASE k = KeyOf[s]
  <2>1. CASE members'[k] = Append(members[k], s) /\ Registers(s)
    BY <1>1, <1>3, <2>1, Appended
  <2>2. CASE members'[k] = Without(members[k], s)
    BY <1>1, <1>3, <2>2, WithoutOne
  <2>3. CASE members'[k] = members[k]
    BY <2>3, <1>3
  <2> QED BY <1>1, <1>3, <2>1, <2>2, <2>3
<1> QED
  BY <1>2, <1>3

LEMMA OnceKept ==
  ASSUME Typed, IdleInv, Next, OnceInv
  PROVE  OnceInv'
<1>1. ASSUME NEW s \in Consumers, ThreadStep(s) PROVE OnceInv'
  <2> SUFFICES ASSUME NEW u \in Consumers, ~closed', thread'[u].pc # "failed"
               PROVE  IF Listed(u)' THEN Once(members'[KeyOf[u]], u) ELSE Never(members'[KeyOf[u]], u)
    BY DEF OnceInv
  <2>1. ~closed /\ KeyOf[u] \in Keys /\ members[KeyOf[s]] \in Seq(Consumers)
    BY <1>1, ThreadTable, ConsumerTable, ChannelsAssumption
  <2>2. CASE u # s
    BY <1>1, <2>1, <2>2, Presence, ConsumerTable DEF OnceInv, Listed
  <2>3. CASE u = s
    <3>1. IF Listed(s) THEN Once(members[KeyOf[s]], s) ELSE Never(members[KeyOf[s]], s)
      BY <1>1, <2>1, ConsumerTable DEF OnceInv
    <3>2. CASE Registers(s)
      <4>1. Never(members[KeyOf[s]], s) /\ Listed(s)'
        BY <1>1, <3>1, <3>2, ConsumerTable DEF Registers, Listed
      <4>2. Once(members'[KeyOf[s]], s)
        <5>1. members'[KeyOf[s]] = Append(members[KeyOf[s]], s)
          BY <1>1, <3>2, ConsumerTable
        <5> QED BY <2>1, <4>1, <5>1, Appended
      <4> QED BY <2>3, <4>1, <4>2
    <3>3. CASE Deregisters(s)
      <4>1. ~Listed(s)'
        BY <1>1, <3>3, ConsumerTable DEF Deregisters, Listed
      <4>2. Never(members'[KeyOf[s]], s)
        BY <1>1, <2>1, <3>3, ConsumerTable, WithoutOne
      <4> QED BY <2>3, <4>1, <4>2
    <3>4. CASE UNCHANGED members /\ (Writes(s) \/ Walks(s))
      <4>1. Listed(s)' <=> Listed(s)
        BY <1>1, <2>1, <2>3, <3>4, ConsumerTable DEF Writes, Walks, Moves, Listed
      <4> QED BY <2>3, <3>1, <3>4, <4>1
    <3> QED BY <1>1, <3>2, <3>3, <3>4, ThreadTable, ConsumerTable
  <2> QED BY <2>2, <2>3
<1>2. CASE QuietConn
  BY <1>2 DEF QuietConn, OnceInv, Listed
<1>3. CASE QuietOther
  BY <1>3 DEF QuietOther, OnceInv, Listed
<1> QED
  BY <1>1, <1>2, <1>3, QuietSteps

LEMMA LeaveKept ==
  ASSUME Typed, IdleInv, Next, LeaveInv
  PROVE  LeaveInv'
<1>1. ASSUME NEW s \in Consumers, ThreadStep(s) PROVE LeaveInv'
  <2> SUFFICES ASSUME NEW u \in Consumers, thread'[u].pc \in {"unsubscribe", "sendUnsub", "left"}
               PROVE  u \in cancelled
    BY <1>1, ThreadTable, ConsumerTable DEF LeaveInv
  <2>1. CASE u # s
    BY <1>1, <2>1, ConsumerTable DEF LeaveInv
  <2>2. CASE u = s
    BY <1>1, <2>2, ConsumerTable, ThreadTable
       DEF LeaveInv, Registers, Deregisters, Writes, Walks, Moves
  <2> QED BY <2>1, <2>2
<1>2. CASE QuietConn
  BY <1>2 DEF QuietConn, LeaveInv
<1>3. CASE QuietOther
  BY <1>3 DEF QuietOther, LeaveInv
<1> QED
  BY <1>1, <1>2, <1>3, QuietSteps

LEMMA GroupKept ==
  ASSUME Typed, IdleInv, Next, GroupInv
  PROVE  GroupInv'
<1>1. ASSUME NEW s \in Consumers, ThreadStep(s) PROVE GroupInv'
  <2> SUFFICES ASSUME NEW k \in Keys, NEW u \in Consumers, ~Never(members'[k], u)
               PROVE  KeyOf[u] = k /\ ~New(u)'
    BY DEF GroupInv
  <2>1. CASE u # s
    <3>1. ~Never(members[k], u) /\ (New(u)' <=> New(u))
      BY <1>1, <2>1, Presence, ConsumerTable DEF New
    <3> QED BY <3>1 DEF GroupInv
  <2>2. CASE u = s
    <3>1. CASE Registers(s)
      <4>1. ~New(s)'
        BY <1>1, <3>1, ConsumerTable DEF Registers, New
      <4>2. New(s)
        BY <3>1 DEF Registers, New
      <4>3. KeyOf[s] = k
        BY <1>1, <2>2, <4>2, Presence DEF GroupInv
      <4> QED BY <2>2, <4>1, <4>3
    <3>2. CASE ~Registers(s)
      <4>1. ~Never(members[k], s)
        BY <1>1, <2>2, <3>2, Presence
      <4> QED BY <1>1, <2>2, <4>1, ConsumerTable DEF GroupInv
    <3> QED BY <3>1, <3>2
  <2> QED BY <2>1, <2>2
<1>2. CASE QuietConn
  BY <1>2 DEF QuietConn, GroupInv, New
<1>3. CASE QuietOther
  BY <1>3 DEF QuietOther, GroupInv, New
<1> QED
  BY <1>1, <1>2, <1>3, QuietSteps

\* What is called next was to be called.
LEMMA NeverTail ==
  ASSUME NEW q \in Seq(Consumers), q # <<>>, NEW s, Never(q, s)
  PROVE  Never(Tail(q), s)
<1>1. Len(Tail(q)) = Len(q) - 1 /\ \A i \in 1..Len(Tail(q)) : Tail(q)[i] = q[i + 1] /\ i + 1 \in 1..Len(q)
  OBVIOUS
<1> QED
  BY <1>1 DEF Never

LEMMA ReaderCalls ==
  ASSUME Typed, CallHandler
  PROVE  /\ \A s \in Consumers : Never(reader.todo, s) => Never(reader'.todo, s)
         /\ reader'.todo # <<>> => reader'.push = reader.push
         /\ reader.todo # <<>> /\ Head(reader.todo) \in Consumers
         /\ ~Never(reader.todo, Head(reader.todo))
<1>1. reader.todo \in Seq(Consumers) /\ reader.todo # <<>>
  BY DEF Typed, TypeOK, CallHandler
<1>2. Head(reader.todo) \in Consumers /\ ~Never(reader.todo, Head(reader.todo))
  <2>1. 1 \in 1..Len(reader.todo) /\ Head(reader.todo) = reader.todo[1] /\ Head(reader.todo) \in Consumers
    BY <1>1
  <2> QED BY <2>1 DEF Never
<1>3. CASE reader' = IdleReader
  BY <1>1, <1>2, <1>3 DEF IdleReader, Never
<1>4. CASE reader' = [reader EXCEPT !.todo = Tail(reader.todo)] /\ Len(reader.todo) # 1
  <2>1. reader'.todo = Tail(reader.todo) /\ reader'.push = reader.push
    BY <1>4
  <2> QED BY <1>1, <1>2, <2>1, NeverTail
<1> QED
  BY <1>3, <1>4 DEF CallHandler

\* Pushes are appended, taken from the front, or lost together.
LEMMA OfSocketKept ==
  ASSUME NEW q \in Seq(Pushes), NEW d, OfSocket(q, d)
  PROVE  /\ \A p \in Pushes : p.sock = d => OfSocket(Append(q, p), d)
         /\ q # <<>> => Head(q).sock = d /\ OfSocket(Tail(q), d)
<1>1. ASSUME NEW p \in Pushes, p.sock = d PROVE OfSocket(Append(q, p), d)
  <2>1. /\ Len(Append(q, p)) = Len(q) + 1 /\ Append(q, p)[Len(q) + 1] = p /\ Len(q) \in Nat
        /\ \A i \in 1..Len(q) : Append(q, p)[i] = q[i]
    OBVIOUS
  <2> QED BY <1>1, <2>1 DEF OfSocket
<1>2. ASSUME q # <<>> PROVE Head(q).sock = d /\ OfSocket(Tail(q), d)
  <2>1. /\ Head(q) = q[1] /\ 1 \in 1..Len(q) /\ Len(Tail(q)) = Len(q) - 1
        /\ \A i \in 1..Len(Tail(q)) : Tail(q)[i] = q[i + 1] /\ i + 1 \in 1..Len(q)
    BY <1>2
  <2> QED BY <2>1 DEF OfSocket
<1> QED
  BY <1>1, <1>2

\* What the exchange sends now is of the current socket.
LEMMA FrameOfSocket ==
  ASSUME Typed, OfSocket(inbox, dialled), NEW k \in Keys, NEW s, NEW kind, s # 0,
         WriteOk(s, kind, k)
  PROVE  OfSocket(inbox', dialled)
<1>1. inbox \in Seq(Pushes) /\ dialled # 0
  BY DEF Typed, TypeOK, SocketInv, WriteOk
<1>2. Snapshot(k) \in Pushes /\ Snapshot(k).sock = dialled
  BY <1>1, PushTyped DEF Snapshot
<1>3. inbox' = inbox \/ inbox' = Append(inbox, Snapshot(k))
  BY DEF WriteOk, FrameTaken
<1> QED
  BY <1>1, <1>2, <1>3, OfSocketKept

LEMMA SocketKept ==
  ASSUME Typed, AnyStep, OfSocket(inbox, dialled)
  PROVE  OfSocket(inbox', dialled')
<1>0. inbox \in Seq(Pushes)
  BY DEF Typed, TypeOK
<1>1. ASSUME NEW t \in Threads, ThreadStep(t) PROVE OfSocket(inbox', dialled')
  <2>1. dialled' = dialled /\ Key(t) \in Keys
    BY <1>1, ThreadTable, ThreadKeys
  <2>2. \/ UNCHANGED inbox
        \/ /\ thread[t].pc \in {"sendSub", "sendUnsub"}
           /\ \E kind \in {"subscribe", "unsubscribe"} : WriteOk(thread[t].sock, kind, Key(t))
    BY <1>1, ThreadTable DEF Registers, Deregisters, Writes, Moves, Failing, WriteFails, SameWire
  <2>3. thread[t].pc \in {"sendSub", "sendUnsub"} => thread[t].sock # 0
    BY DEF Typed, SocketInv
  <2> QED BY <2>1, <2>2, <2>3, FrameOfSocket
<1>2. CASE Publish \/ Cleanup
  BY <1>2 DEF Publish, Cleanup, OfSocket
<1>3. ASSUME NEW k \in Keys, Replay(k) PROVE OfSocket(inbox', dialled')
  <2>1. dialled' = dialled /\ dialled # 0
    BY <1>3 DEF Replay, Typed, SocketInv
  <2> QED BY <1>3, <2>1, FrameOfSocket DEF Replay
<1>4. CASE Lookup
  BY <1>0, <1>4, OfSocketKept DEF Lookup
<1>5. CASE HandlerCalled \/ (\E k \in Keys : ReplayFails(k)) \/ Replayed \/ ReadFails \/ Stop \/ SocketDies \/ Close
  BY <1>5 DEF HandlerCalled, CallHandler, ReplayFails, Replayed, ReadFails, Stop, SocketDies, Close, exchange
<1>6. ASSUME NEW s \in Consumers, Cancel(s) PROVE OfSocket(inbox', dialled')
  BY <1>6 DEF Cancel, conn, exchange
<1>7. ASSUME NEW k \in Keys, Change(k) \/ Unpushed(k) PROVE OfSocket(inbox', dialled')
  <2> DEFINE p == [key |-> k, sock |-> dialled, snapshot |-> FALSE,
                   begin |-> version[k], nonce |-> version[k] + 1]
  <2>1. dialled' = dialled /\ (inbox' = inbox \/ (alive /\ inbox' = Append(inbox, p)))
    BY <1>7 DEF Change, Unpushed, conn
  <2>2. alive => p \in Pushes /\ p.sock = dialled
    BY <1>7, PushTyped DEF Typed, SocketInv, Change, Unpushed
  <2> HIDE DEF p
  <2> QED BY <1>0, <2>1, <2>2, OfSocketKept
<1> QED
  BY <1>1, <1>2, <1>3, <1>4, <1>5, <1>6, <1>7 DEF AnyStep, ConnStep, OtherStep

LEMMA NewKept ==
  ASSUME Typed, AnyStep
  PROVE  \A u \in Consumers : New(u)' => New(u)
<1>1. ASSUME NEW t \in Threads, ThreadStep(t), NEW u \in Consumers PROVE New(u)' => New(u)
  <2>1. CASE t = u
    BY <1>1, <2>1, ConsumerTable
  <2>2. CASE t # u
    BY <1>1, <2>2, ThreadTable DEF New, Threads
  <2> QED BY <2>1, <2>2
<1>2. CASE ConnStep
  <2>1. CASE HandlerCalled
    <3>1. thread \in [Threads -> ThreadStates] /\ \A u \in Consumers : u \in Threads
      BY DEF Typed, TypeOK, Threads
    <3>2. ASSUME NEW w \in Workers, Goto(w, "check") PROVE \A u \in Consumers : New(u)' => New(u)
      <4>1. w \in Threads /\ "check" \in Pcs
        BY DEF Threads, Pcs
      <4>2. \A u \in Threads \ {w} : thread'[u] = thread[u]
        BY <3>1, <3>2, <4>1, GotoTyped
      <4>3. \A u \in Consumers : u \in Threads \ {w}
        BY <3>1, WorkersAssumption
      <4> QED BY <4>2, <4>3 DEF New
    <3> QED BY <2>1, <3>2 DEF HandlerCalled, New
  <2>2. CASE UNCHANGED thread
    BY <2>2 DEF New
  <2> QED
    BY <1>2, <2>1, <2>2 DEF ConnStep, Publish, Replay, ReplayFails, Replayed, Lookup,
       ReadFails, Cleanup, Stop, SocketDies, Close, side
<1>3. CASE OtherStep
  BY <1>3 DEF OtherStep, Cancel, Change, Unpushed, side, New
<1> QED
  BY <1>1, <1>2, <1>3 DEF AnyStep

LEMMA CallKept ==
  ASSUME Typed, AnyStep, GroupInv, CallInv
  PROVE  CallInv'
<1>0. OfSocket(inbox', dialled') /\ \A u \in Consumers : New(u)' => New(u)
  BY SocketKept, NewKept DEF CallInv
<1>1. ASSUME NEW t \in Threads, ThreadStep(t) PROVE CallInv'
  <2>1. UNCHANGED <<reader, sup, dialled>>
    BY <1>1, ThreadTable
  <2> QED BY <1>0, <2>1 DEF CallInv
<1>2. CASE OtherStep
  <2>1. UNCHANGED <<reader, sup, dialled>>
    BY <1>2 DEF OtherStep, Cancel, Change, Unpushed, conn
  <2> QED BY <1>0, <2>1 DEF CallInv
<1>3. CASE ConnStep
  <2>2. CASE Lookup
    <3>1. inbox \in Seq(Pushes) /\ inbox # <<>> /\ sup = "run"
      BY <2>2 DEF Lookup, Typed, TypeOK
    <3>2. Head(inbox).key \in Keys /\ Head(inbox).sock = dialled
      <4>1. Head(inbox) \in Pushes /\ Head(inbox).sock = dialled
        BY <3>1, OfSocketKept DEF CallInv
      <4> QED BY <4>1 DEF Pushes
    <3>3. reader'.todo = members[Head(inbox).key] /\ reader'.push = Head(inbox)
      BY <2>2 DEF Lookup
    <3> QED BY <1>0, <2>2, <3>1, <3>2, <3>3 DEF Lookup, CallInv, GroupInv
  <2>3. CASE HandlerCalled
    <3>1. CallHandler /\ sup' = sup /\ dialled' = dialled
      BY <2>3 DEF HandlerCalled, CallHandler
    <3>2. \A u \in Consumers : ~Never(reader'.todo, u) => ~Never(reader.todo, u) /\ reader'.push = reader.push
      <4> SUFFICES ASSUME NEW u \in Consumers, ~Never(reader'.todo, u)
                   PROVE  ~Never(reader.todo, u) /\ reader'.push = reader.push
        OBVIOUS
      <4>1. reader'.todo # <<>>
        BY DEF Never
      <4> QED BY <3>1, <4>1, ReaderCalls
    <3> QED BY <1>0, <3>1, <3>2, ReaderCalls DEF CallInv
  <2>4. CASE UNCHANGED reader /\ ~Lookup /\ ~HandlerCalled
    <3>1. reader.todo # <<>> => sup' = "run" /\ dialled' = dialled
      BY <1>3, <2>4 DEF ConnStep, CallInv, Publish, Replay, ReplayFails, Replayed,
            ReadFails, Cleanup, Stop, SocketDies, Close
    <3> QED BY <1>0, <2>4, <3>1 DEF CallInv
  <2> QED
    BY <1>3, <2>2, <2>3, <2>4 DEF ConnStep, Publish, Replay, ReplayFails, Replayed,
       ReadFails, Cleanup, Stop, SocketDies, Close
<1> QED
  BY <1>1, <1>2, <1>3 DEF AnyStep

LEMMA HoldKept ==
  ASSUME Typed, IdleInv, Next, GroupInv, CallInv, HoldInv
  PROVE  HoldInv'
<1>1. ASSUME NEW s \in Consumers, ThreadStep(s) PROVE HoldInv'
  <2>1. \A u \in Consumers : New(u)' => New(u)
    BY <1>1, ConsumerTable DEF New
  <2>2. UNCHANGED <<reader, holds, dialled>>
    BY <1>1, ConsumerTable, ThreadTable
  <2>3. ASSUME NEW k \in Keys, NEW u \in Consumers, ~Never(members'[k], u)
        PROVE  holds[u] \in {0, dialled}
    <3>1. CASE ~Never(members[k], u)
      BY <3>1 DEF HoldInv
    <3>2. CASE Never(members[k], u)
      <4>1. u = s /\ Registers(s)
        BY <1>1, <2>3, <3>2, Presence
      <4>2. New(s)
        BY <4>1 DEF Registers, New
      <4> QED BY <4>1, <4>2 DEF HoldInv
    <3> QED BY <3>1, <3>2
  <2> QED BY <2>1, <2>2, <2>3 DEF HoldInv
<1>2. CASE QuietOther
  BY <1>2 DEF QuietOther, HoldInv, New
<1>3. CASE QuietConn
  <2>1. members' = members /\ \A u \in Consumers : New(u)' <=> New(u)
    BY <1>3 DEF QuietConn, New
  <2>2. CASE Publish
    <3>1. reader'.todo = <<>>
      BY <2>2 DEF Publish, CallInv
    <3>2. ASSUME NEW k \in Keys, NEW u \in Consumers, ~Never(members[k], u) PROVE u \in Joined
      <4>1. PICK i \in 1..Len(members[k]) : members[k][i] = u
        BY <3>2 DEF Never
      <4>2. members[k] \in Seq(Consumers)
        BY DEF Typed, TypeOK
      <4>3. u \in ToSet(members[k])
        BY <4>1, <4>2 DEF ToSet
      <4> QED BY <4>3 DEF Joined
    <3>3. \A u \in Consumers : holds'[u] = IF u \in Joined THEN 0 ELSE holds[u]
      BY <2>2 DEF Publish
    <3>4. \A u \in Consumers : Never(reader'.todo, u)
      BY <3>1 DEF Never
    <3> QED BY <2>1, <3>2, <3>3, <3>4 DEF HoldInv
  <2>3. CASE HandlerCalled
    <3> DEFINE h == Head(reader.todo)
    <3>1. CallHandler /\ dialled' = dialled
      BY <2>3 DEF HandlerCalled, CallHandler
    <3>2. h \in Consumers /\ ~New(h) /\ reader.push.sock = dialled
      BY <3>1, ReaderCalls DEF CallInv
    <3>3. holds' = [holds EXCEPT ![h] = dialled] /\ holds \in [Consumers -> 0..MaxSockets]
      BY <3>1, <3>2 DEF CallHandler, Typed, TypeOK
    <3>4. \A u \in Consumers : holds'[u] = IF u = h THEN dialled ELSE holds[u]
      BY <3>3
    <3>5. \A u \in Consumers : Never(reader.todo, u) => Never(reader'.todo, u)
      BY <3>1, ReaderCalls
    <3> HIDE DEF h
    <3> QED BY <2>1, <3>1, <3>2, <3>4, <3>5 DEF HoldInv
  <2>4. CASE Lookup
    <3>1. Head(inbox).key \in Keys
      <4>1. inbox \in Seq(Pushes) /\ inbox # <<>>
        BY <2>4 DEF Lookup, Typed, TypeOK
      <4>2. Head(inbox) \in Pushes
        BY <4>1
      <4> QED BY <4>2 DEF Pushes
    <3>2. reader'.todo = members[Head(inbox).key] /\ UNCHANGED <<holds, dialled>>
      BY <2>4 DEF Lookup, side
    <3> QED BY <2>1, <3>1, <3>2 DEF HoldInv
  <2>5. CASE UNCHANGED <<reader, holds, dialled>>
    BY <2>1, <2>5 DEF HoldInv
  <2> QED
    BY <1>3, <2>2, <2>3, <2>4, <2>5 DEF QuietConn, ConnStep, Replay, ReplayFails, Replayed,
       ReadFails, Cleanup, Stop, SocketDies, Close, side
<1> QED
  BY <1>1, <1>2, <1>3, QuietSteps

\* What a frame leaves of the feeds of a channel.
LEMMA FrameFeeds ==
  ASSUME NEW s, NEW kind, NEW k, WriteOk(s, kind, k) \/ WriteFails(s)
  PROVE  /\ alive' => alive
         /\ \A j \in feed : j # k => j \in feed'
         /\ kind = "subscribe" /\ alive => feed \subseteq feed'
         /\ kind = "subscribe" /\ alive /\ WriteOk(s, kind, k) => k \in feed'
<1>1. CASE WriteFails(s)
  <2>1. feed' = feed /\ (alive' => alive)
    BY <1>1 DEF WriteFails
  <2>2. WriteOk(s, kind, k) => alive' = alive /\ (alive /\ kind = "subscribe" => feed' = feed \cup {k})
    BY DEF WriteOk, FrameTaken
  <2> QED BY <2>1, <2>2
<1>2. CASE WriteOk(s, kind, k)
  <2>1. alive' = alive /\ (~alive => feed' = feed)
    BY <1>2 DEF WriteOk
  <2>2. alive => feed' = IF kind = "subscribe" THEN feed \cup {k} ELSE feed \ {k}
    BY <1>2 DEF WriteOk, FrameTaken
  <2> QED BY <2>1, <2>2
<1> QED BY <1>1, <1>2

LEMMA ConsumerKeepsFed ==
  ASSUME Typed, LeaveInv, FedInv, NEW s \in Consumers, ThreadStep(s)
  PROVE  FedInv'
<1>1. UNCHANGED <<closed, socket, dialled, sup, toReplay, cancelled>>
  BY ConsumerTable, ThreadTable
<1> SUFFICES ASSUME NEW k \in Keys, Undisturbed(k)', alive', members'[k] # <<>>
             PROVE  k \in feed' \/ k \in toReplay \/ Sending(k)'
  BY <1>1 DEF FedInv
<1>2. Undisturbed(k)
  <2> SUFFICES ASSUME NEW u \in Consumers, KeyOf[u] = k, thread[u].pc = "failed"
               PROVE  FALSE
    BY <1>1 DEF Undisturbed, At
  <2>1. u # s
    BY ConsumerTable
  <2> QED BY <2>1, ConsumerTable DEF Undisturbed, At
<1>3. KeyOf[s] = k => s \notin cancelled /\ thread'[s].pc # "failed"
  BY <1>1 DEF Undisturbed, At
<1>4. ASSUME Sending(k), thread[s].pc # "sendSub" PROVE Sending(k)'
  BY <1>1, <1>4, ConsumerTable DEF Sending
<1>5. CASE Registers(s)
  <2>1. alive /\ feed' = feed /\ thread[s].pc # "sendSub"
    BY <1>5 DEF Registers, SameWire
  <2>2. CASE members[k] # <<>>
    BY <1>2, <1>4, <2>1, <2>2 DEF FedInv
  <2>3. CASE members[k] = <<>>
    <3>1. KeyOf[s] = k
      BY <2>3, ConsumerTable
    <3>2. socket # 0
      BY <2>1 DEF Typed, TypeOK, SocketInv
    <3>3. thread'[s].pc = "sendSub" /\ thread'[s].sock = socket
      BY <1>5, <2>3, <3>1, <3>2, ConsumerTable DEF Registers
    <3> QED BY <1>1, <3>1, <3>3 DEF Sending
  <2> QED BY <2>2, <2>3
<1>6. CASE Deregisters(s)
  <2>1. alive /\ feed' = feed /\ thread[s].pc = "unsubscribe"
    BY <1>6 DEF Deregisters, SameWire
  <2>2. KeyOf[s] # k
    BY <1>3, <2>1 DEF LeaveInv
  <2>3. members[k] # <<>>
    BY <2>2, ConsumerTable
  <2> QED BY <1>2, <1>4, <2>1, <2>3 DEF FedInv
<1>7. CASE UNCHANGED members /\ Writes(s)
  <2>1. ASSUME Moves(s, "sendSub", "joined"), WriteOk(thread[s].sock, "subscribe", KeyOf[s])
        PROVE  k \in feed' \/ k \in toReplay \/ Sending(k)'
    <3>1. alive /\ feed \subseteq feed' /\ KeyOf[s] \in feed'
      BY <2>1, FrameFeeds
    <3>2. CASE KeyOf[s] = k
      BY <3>1, <3>2
    <3>3. CASE KeyOf[s] # k
      <4>1. k \in feed \/ k \in toReplay \/ Sending(k)
        BY <1>2, <1>7, <3>1 DEF FedInv
      <4>2. Sending(k) => Sending(k)'
        BY <1>1, <3>3, ConsumerTable DEF Sending
      <4> QED BY <3>1, <4>1, <4>2
    <3> QED BY <3>2, <3>3
  <2>2. ASSUME Moves(s, "sendSub", "failed"), Failing(s)
        PROVE  k \in feed' \/ k \in toReplay \/ Sending(k)'
    <3>1. KeyOf[s] # k
      BY <1>3, <2>2 DEF Moves
    <3>2. alive /\ feed' = feed
      BY <2>2 DEF Failing, WriteFails, SameWire
    <3>3. k \in feed \/ k \in toReplay \/ Sending(k)
      BY <1>2, <1>7, <3>2 DEF FedInv
    <3>4. Sending(k) => Sending(k)'
      BY <1>1, <3>1, ConsumerTable DEF Sending
    <3> QED BY <3>2, <3>3, <3>4
  <2>3. ASSUME Moves(s, "sendUnsub", "left"),
               WriteOk(thread[s].sock, "unsubscribe", KeyOf[s]) \/ WriteFails(thread[s].sock)
        PROVE  k \in feed' \/ k \in toReplay \/ Sending(k)'
    <3>1. KeyOf[s] # k
      BY <1>3, <2>3 DEF Moves, LeaveInv
    <3>2. alive /\ (k \in feed => k \in feed')
      BY <2>3, <3>1, FrameFeeds
    <3>3. k \in feed \/ k \in toReplay \/ Sending(k)
      BY <1>2, <1>7, <3>2 DEF FedInv
    <3> QED BY <1>4, <2>3, <3>2, <3>3 DEF Moves
  <2> QED BY <1>7, <2>1, <2>2, <2>3, ConsumerTable DEF Writes
<1>8. CASE UNCHANGED members /\ SameWire /\ Walks(s)
  <2>1. alive /\ feed' = feed /\ thread[s].pc # "sendSub"
    BY <1>8 DEF SameWire, Walks, Moves
  <2> QED BY <1>2, <1>4, <1>8, <2>1 DEF FedInv
<1> QED
  BY <1>5, <1>6, <1>7, <1>8, ConsumerTable, ThreadTable

LEMMA FedKept ==
  ASSUME Typed, IdleInv, Next, LeaveInv, FedInv
  PROVE  FedInv'
<1>1. ASSUME NEW s \in Consumers, ThreadStep(s) PROVE FedInv'
  BY <1>1, ConsumerKeepsFed
<1>2. CASE QuietOther
  <2>1. \A k \in Keys : (Undisturbed(k)' => Undisturbed(k)) /\ (Sending(k) => Sending(k)')
    BY <1>2 DEF QuietOther, Undisturbed, At, Sending
  <2> QED BY <1>2, <2>1 DEF QuietOther, FedInv
<1>3. CASE QuietConn
  <2>1. members' = members /\ \A k \in Keys : Undisturbed(k)' => Undisturbed(k)
    BY <1>3 DEF QuietConn, Undisturbed, At
  <2>2. socket' = socket => \A k \in Keys : Sending(k) => Sending(k)'
    BY <1>3 DEF QuietConn, Sending
  <2>3. CASE Publish
    BY <2>1, <2>3 DEF Publish, Registered, FedInv
  <2>4. ASSUME NEW k \in Keys, Replay(k) PROVE FedInv'
    <3>1. /\ sup' = "replay" /\ toReplay' = toReplay \ {k} /\ socket' = socket /\ alive' = alive
          /\ WriteOk(dialled, "subscribe", k)
      BY <2>4 DEF Replay, WriteOk
    <3>2. alive => feed \subseteq feed' /\ k \in feed'
      BY <3>1, FrameFeeds
    <3> QED BY <2>1, <2>2, <3>1, <3>2 DEF FedInv
  <2>5. CASE Lookup \/ HandlerCalled \/ Stop
    <3>1. UNCHANGED <<sup, toReplay, socket, alive, feed>> \/ (sup' # "run" /\ UNCHANGED <<toReplay, socket, alive, feed>>)
      BY <2>5 DEF Lookup, HandlerCalled, CallHandler, Stop, exchange
    <3> QED BY <2>1, <2>2, <3>1 DEF FedInv
  <2>6. CASE Replayed
    BY <2>1, <2>2, <2>6 DEF Replayed, exchange, FedInv
  <2>7. CASE ~alive' /\ (sup' = "run" => sup = "run" /\ toReplay' = toReplay)
    BY <2>7 DEF FedInv
  <2> QED
    BY <1>3, <2>3, <2>4, <2>5, <2>6, <2>7 DEF QuietConn, ConnStep, ReplayFails, ReadFails, Cleanup,
       SocketDies, Close, Typed, SocketInv
<1> QED
  BY <1>1, <1>2, <1>3, QuietSteps

(***************************************************************************)
(* The theorems about WsSubs                                               *)
(***************************************************************************)
Calm == /\ Typed /\ IdleInv /\ OnceInv /\ LeaveInv
        /\ GroupInv /\ CallInv /\ HoldInv /\ FedInv

LEMMA CalmInit == Init => Calm
<1> SUFFICES ASSUME Init PROVE Calm
  OBVIOUS
<1>1. \A t \in Threads : thread[t].pc = "idle"
  BY DEF Init
<1>2. \A k \in Keys : members[k] = <<>>
  BY DEF Init
<1>3. reader.todo = <<>> /\ inbox = <<>> /\ sup = "dial" /\ alive = FALSE /\ toReplay = {}
  BY DEF Init, IdleReader
<1>4. \A s \in Consumers : holds[s] = 0 /\ KeyOf[s] \in Keys /\ s \in Threads
  BY ChannelsAssumption DEF Init, Threads
<1>5. \A s : Never(<<>>, s)
  BY DEF Never
<1>6. IdleInv /\ LeaveInv
  BY <1>1, <1>4 DEF IdleInv, LeaveInv, Threads
<1>7. OnceInv /\ GroupInv
  BY <1>1, <1>2, <1>4, <1>5 DEF OnceInv, GroupInv, Listed
<1>8. CallInv /\ HoldInv
  BY <1>2, <1>3, <1>4, <1>5 DEF CallInv, HoldInv, OfSocket
<1>9. FedInv
  BY <1>3 DEF FedInv
<1> QED
  BY <1>6, <1>7, <1>8, <1>9, TypedInit DEF Calm

LEMMA CalmStep == Calm /\ [Next]_vars => Calm'
<1>1. ASSUME Calm, Next PROVE Calm'
  BY <1>1, QuietSteps, WsStepsAreSteps, TypedStep, OnceKept, LeaveKept, GroupKept, CallKept, HoldKept, FedKept
     DEF Calm
<1>2. ASSUME Calm, UNCHANGED vars PROVE Calm'
  <2>1. Typed'
    BY <1>2, TypedStutter DEF Calm
  <2>2. IdleInv' /\ OnceInv' /\ LeaveInv' /\ GroupInv'
    BY <1>2 DEF Calm, vars, conn, side, exchange, IdleInv, OnceInv, LeaveInv, GroupInv, Listed, New
  <2>3. CallInv' /\ HoldInv'
    BY <1>2 DEF Calm, vars, conn, side, exchange, CallInv, HoldInv, New
  <2>4. FedInv'
    BY <1>2 DEF Calm, vars, conn, side, exchange, FedInv, Sending, Undisturbed, At
  <2> QED BY <2>1, <2>2, <2>3, <2>4 DEF Calm
<1> QED
  BY <1>1, <1>2

LEMMA CalmAlways == Spec => []Calm
  BY CalmInit, CalmStep, PTL DEF Spec

\* The registry lists a consumer that is watching once, and nobody else.
THEOREM ListedOnce == Spec => []MemberOnce
<1>1. Calm => MemberOnce
  <2> SUFFICES ASSUME Calm, NEW s \in Consumers, ~closed, thread[s].pc # "failed"
               PROVE  Cardinality(Places(s)) = IF Listed(s) THEN 1 ELSE 0
    BY DEF MemberOnce, At, Listed
  <2>1. CASE Listed(s)
    <3>1. Once(members[KeyOf[s]], s)
      BY <2>1 DEF Calm, OnceInv
    <3>2. PICK p \in 1..Len(members[KeyOf[s]]) :
                 \A j \in 1..Len(members[KeyOf[s]]) : members[KeyOf[s]][j] = s <=> j = p
      BY <3>1 DEF Once
    <3>3. Places(s) = {p}
      BY <3>2 DEF Places
    <3>4. Cardinality({p}) = 1
      BY FS_Singleton
    <3> QED BY <2>1, <3>3, <3>4
  <2>2. CASE ~Listed(s)
    <3>1. Never(members[KeyOf[s]], s)
      BY <2>2 DEF Calm, OnceInv
    <3>2. Places(s) = {}
      BY <3>1 DEF Never, Places
    <3> QED BY <2>2, <3>2, FS_EmptySet
  <2> QED BY <2>1, <2>2
<1> QED
  BY <1>1, CalmAlways, PTL

\* A handler is never given a push of a new socket while its consumer still
\* holds data of an older one.
THEOREM ReconnectNeverMixes == Spec => []NoMixing
<1>1. Calm => NoMixing
  <2> SUFFICES ASSUME Calm, NEW i \in 1..Len(reader.todo)
               PROVE  holds[reader.todo[i]] \in {0, reader.push.sock}
    BY DEF NoMixing
  <2>1. reader.todo \in Seq(Consumers) /\ reader.todo[i] \in Consumers /\ reader.todo # <<>>
    BY DEF Calm, Typed, TypeOK
  <2>2. ~Never(reader.todo, reader.todo[i])
    BY DEF Never
  <2>3. holds[reader.todo[i]] \in {0, dialled} /\ reader.push.sock = dialled
    BY <2>1, <2>2 DEF Calm, HoldInv, CallInv
  <2> QED BY <2>3
<1> QED
  BY <1>1, CalmAlways, PTL

\* Once the connection has settled, a channel nobody left or failed to join is
\* fed for everyone who watches it.
THEOREM SettledMeansFed == Spec => []UndisturbedIsFed
<1>1. Calm => UndisturbedIsFed
  <2> SUFFICES ASSUME Calm, Settled, NEW s \in Consumers, thread[s].pc = "joined", Undisturbed(KeyOf[s])
               PROVE  KeyOf[s] \in feed
    BY DEF UndisturbedIsFed, At
  <2>1. sup = "run" /\ alive /\ ~closed /\ KeyOf[s] \in Keys /\ s \in Threads
    BY ChannelsAssumption DEF Settled, Calm, Typed, SocketInv, Threads
  <2>2. members[KeyOf[s]] # <<>>
    <3>1. Once(members[KeyOf[s]], s)
      BY <2>1 DEF Calm, OnceInv, Listed
    <3>2. PICK p \in 1..Len(members[KeyOf[s]]) : members[KeyOf[s]][p] = s
      BY <3>1 DEF Once
    <3> QED BY <3>2
  <2>3. ~Sending(KeyOf[s])
    BY DEF Settled, Sending, Threads
  <2> QED BY <2>1, <2>2, <2>3 DEF Calm, FedInv
<1> QED
  BY <1>1, CalmAlways, PTL

-----------------------------------------------------------------------------
(***************************************************************************)
(* BookStream: the goroutines that repair a gap step as well.              *)
(***************************************************************************)
\* A book that counts as synced is the exchange's; so is a book shown.
BookInv == /\ book \in [Consumers -> Books] /\ shown \in [Consumers -> Books]
           /\ resubscribing \subseteq Consumers /\ missed \subseteq resubscribing
           /\ \A s \in Consumers : book[s].synced = TRUE =>
                book[s].nonce # 0 /\ book[s].content = book[s].nonce
           /\ \A s \in Consumers : shown[s].content = shown[s].nonce

LEMMA NewBookIsBook == NewBook \in Books /\ NewBook.synced = FALSE /\ NewBook.content = NewBook.nonce
<1>1. 0 \in 0..MaxVersion /\ 0 \in -1..MaxVersion
  BY BoundsAssumption
<1> QED
  BY <1>1 DEF NewBook, Books, Empty, Wrong

\* What the handler shows after a push.
LEMMA ShownBook ==
  ASSUME BookInv, NEW s \in Consumers, NEW p \in Pushes
  PROVE  /\ FromSnapshot(p) \in Books /\ FromSnapshot(p).nonce # 0
         /\ FromSnapshot(p).content = FromSnapshot(p).nonce
         /\ Continues(s, p) => /\ Updated(s, p) \in Books /\ Updated(s, p).nonce # 0
                               /\ Updated(s, p).content = Updated(s, p).nonce
<1>1. p.nonce \in 0..MaxVersion /\ p.nonce \in -1..MaxVersion /\ p.nonce # 0
  BY BoundsAssumption DEF Pushes
<1>2. FromSnapshot(p) = [synced |-> TRUE, nonce |-> p.nonce, content |-> p.nonce]
  BY DEF FromSnapshot
<1>3. ASSUME Continues(s, p) PROVE Updated(s, p) = FromSnapshot(p)
  <2>1. book[s].synced = TRUE
    <3>1. book[s] \in Books
      BY DEF BookInv
    <3>2. book[s].synced \in BOOLEAN
      BY <3>1 DEF Books
    <3> QED BY <1>3, <3>2 DEF Continues
  <2>2. book[s].content = p.begin
    BY <1>3, <2>1 DEF Continues, BookInv
  <2> QED BY <1>2, <2>2 DEF Updated
<1>4. /\ FromSnapshot(p) \in Books /\ FromSnapshot(p).nonce # 0
      /\ FromSnapshot(p).content = FromSnapshot(p).nonce
  BY <1>1, <1>2 DEF Books, Wrong
<1> QED
  BY <1>3, <1>4

LEMMA ShowKeeps ==
  ASSUME BookInv, NEW s \in Consumers, NEW b \in Books, b.nonce # 0, b.content = b.nonce,
         Show(s, b), resubscribing' \subseteq Consumers, missed' \subseteq resubscribing'
  PROVE  BookInv'
<1>1. /\ book' \in [Consumers -> Books] /\ shown' \in [Consumers -> Books]
      /\ \A u \in Consumers : /\ book'[u] = IF u = s THEN b ELSE book[u]
                              /\ shown'[u] = IF u = s THEN b ELSE shown[u]
  BY DEF BookInv, Show
<1> QED
  BY <1>1 DEF BookInv

LEMMA BookKept ==
  ASSUME Typed, BookInv, [BookNext]_<<vars, bookVars>>
  PROVE  BookInv'
<1>1. CASE BookPublish
  <2>1. \A s \in Consumers : book'[s] = NewBook \/ book'[s] = book[s]
    BY <1>1 DEF BookPublish
  <2>2. book' \in [Consumers -> Books]
    BY <1>1, NewBookIsBook DEF BookPublish, BookInv
  <2> QED BY <1>1, <2>1, <2>2, NewBookIsBook DEF BookPublish, BookInv
<1>2. CASE BookHandle
  <2> DEFINE s == Head(reader.todo) p == reader.push
  <2>1. s \in Consumers /\ p \in Pushes
    BY <1>2, ReaderCalls DEF BookHandle, Typed, TypeOK
  <2>2. Skip(s, p) \/ DropBroken(s, p) \/ TakeSnapshot(s, p) \/ TakeUpdate(s, p) \/ Gap(s, p)
    BY <1>2 DEF BookHandle
  <2> HIDE DEF s, p
  <2>3. CASE Skip(s, p)
    BY <2>3 DEF Skip, bookVars, BookInv
  <2>7. CASE DropBroken(s, p)
    BY <2>7 DEF DropBroken, BookInv
  <2>4. CASE TakeSnapshot(s, p)
    <3>1. Show(s, FromSnapshot(p)) /\ resubscribing' \subseteq Consumers /\ missed' \subseteq resubscribing'
      BY <2>4 DEF TakeSnapshot, BookInv
    <3> QED BY <2>1, <3>1, ShownBook, ShowKeeps
  <2>5. CASE TakeUpdate(s, p)
    <3>1. /\ Continues(s, p) /\ Show(s, Updated(s, p))
          /\ resubscribing' \subseteq Consumers /\ missed' \subseteq resubscribing'
      BY <2>5 DEF TakeUpdate, BookInv
    <3> QED BY <2>1, <3>1, ShownBook, ShowKeeps
  <2>6. CASE Gap(s, p)
    <3>1. book[s] \in Books /\ book \in [Consumers -> Books]
      BY <2>1 DEF BookInv
    <3>2. [book[s] EXCEPT !.synced = FALSE] \in Books /\ [book[s] EXCEPT !.synced = FALSE].synced = FALSE
      BY <3>1 DEF Books
    <3>3. book' = [book EXCEPT ![s] = [book[s] EXCEPT !.synced = FALSE]]
      BY <2>6 DEF Gap
    <3>4. book' \in [Consumers -> Books]
      BY <3>1, <3>2, <3>3
    <3>5. \A u \in Consumers : book'[u] = book[u] \/ book'[u].synced = FALSE
      BY <2>1, <3>1, <3>2, <3>3
    <3> QED BY <2>1, <2>6, <3>4, <3>5 DEF Gap, BookInv
  <2> QED BY <2>2, <2>3, <2>4, <2>5, <2>6, <2>7
<1>3. CASE UNCHANGED bookVars
  BY <1>3 DEF bookVars, BookInv
<1> QED
  BY <1>1, <1>2, <1>3 DEF BookNext, WorkerChecks, LosePush, bookVars

LEMMA BookAlways == BookSpec => [](Typed /\ BookInv)
<1>1. BookInit => Typed /\ BookInv
  <2> SUFFICES ASSUME BookInit PROVE BookInv
    BY TypedInit DEF BookInit
  <2> QED BY NewBookIsBook DEF BookInit, BookInv
<1>2. Typed /\ BookInv /\ [BookNext]_<<vars, bookVars>> => (Typed /\ BookInv)'
  BY BookStepsAreSteps, TypedStep, TypedStutter, BookKept
<1> QED
  BY <1>1, <1>2, PTL DEF BookSpec

\* The connection, the books and what was shown keep their types.
THEOREM BookTypeCorrect == BookSpec => []BookTypeOK
<1>1. Typed /\ BookInv => BookTypeOK
  BY DEF Typed, BookInv, BookTypeOK
<1> QED
  BY <1>1, BookAlways, PTL

\* Every book given to a handler is the exchange's book of the nonce it shows,
\* whatever was lost and however often the connection was replaced.
THEOREM ShownBooksAreExact == BookSpec => []ShownIsExact
<1>1. BookInv => ShownIsExact
  BY DEF BookInv, ShownIsExact
<1> QED
  BY <1>1, BookAlways, PTL

\* Who has not subscribed has nothing to repair.
NewInv == \A s \in Consumers : New(s) =>
            s \notin resubscribing /\ \A w \in Workers : Of(w) = s => thread[w].pc = "idle"

\* Somebody who wants to watch is in the group, or a goroutine that took it out
\* is about to put it back.
Wanting(s) == thread[s].pc \in {"sendSub", "joined"} /\ s \notin cancelled
Repairing(s, pcs) == \E w \in Workers : Of(w) = s /\ thread[w].pc \in pcs
KeptInv == \A s \in Consumers : Wanting(s) /\ Never(members[KeyOf[s]], s) =>
             closed \/ Repairing(s, {"sendUnsub", "subscribe"})

\* Somebody who waits for a snapshot, and was given none that does not decode,
\* has one coming: on its way, in the hands of the reader, about to be asked
\* for, or after the next unsubscription.
Asking(s) == \E t \in Threads : Of(t) = s /\ thread[t].pc = "sendSub" /\ thread[t].sock = socket
OnItsWay(k) == \E i \in 1..Len(inbox) : inbox[i].key = k /\ inbox[i].snapshot
AwaitInv == \A s \in Consumers :
  Wanting(s) /\ alive /\ s \in resubscribing \ missed /\ ~Never(members[KeyOf[s]], s) =>
    \/ Repairing(s, {"check", "unsubscribe"})
    \/ Asking(s)
    \/ OnItsWay(KeyOf[s])
    \/ ~Never(reader.todo, s) /\ reader.push.snapshot

Healing == Typed /\ GroupInv /\ CallInv /\ NewInv /\ KeptInv /\ AwaitInv

\* One step of a thread; of a goroutine, one that goes on if its watcher wants it.
RepairStep(t) == /\ ThreadStep(t) /\ UNCHANGED bookVars
                 /\ thread[t].pc = "check" => Of(t) \in cancelled \/ thread'[t].pc = "unsubscribe"
PlainConn == /\ UNCHANGED bookVars
             /\ \/ \E k \in Keys : Replay(k) \/ ReplayFails(k)
                \/ Replayed \/ Lookup \/ ReadFails \/ Cleanup \/ Stop \/ SocketDies \/ Close

LEMMA BookSteps ==
  ASSUME Typed, BookNext
  PROVE  \/ \E t \in Threads : RepairStep(t)
         \/ BookPublish \/ BookHandle \/ PlainConn
         \/ OtherStep /\ UNCHANGED bookVars
<1>1. ASSUME NEW w \in Workers, WorkerChecks(w) PROVE RepairStep(w) /\ w \in Threads
  <2>1. w \in Threads /\ thread \in [Threads -> ThreadStates]
    BY DEF Typed, TypeOK, Threads
  <2>2. Of(w) \in cancelled \/ Goto(w, "unsubscribe")
    BY <1>1 DEF WorkerChecks
  <2>3. Goto(w, "unsubscribe") => thread'[w].pc = "unsubscribe"
    BY <2>1, GotoTyped DEF Pcs
  <2>4. Checked(w)
    BY <1>1 DEF WorkerChecks, Checked
  <2> QED BY <1>1, <2>1, <2>2, <2>3, <2>4 DEF RepairStep, ThreadStep, WorkerChecks
<1>2. ASSUME NEW k \in Keys, LosePush(k) PROVE OtherStep /\ UNCHANGED bookVars
  BY <1>2 DEF LosePush, OtherStep, Unpushed, bookVars
<1>3. ASSUME Rest, UNCHANGED bookVars
      PROVE  (\E t \in Threads : RepairStep(t)) \/ PlainConn \/ OtherStep
  <2>1. ASSUME NEW t \in Threads, ThreadStep(t), thread[t].pc # "check" PROVE RepairStep(t)
    BY <1>3, <2>1 DEF RepairStep
  <2>2. ASSUME NEW s \in Consumers, Watch(s) \/ ContextDone(s) PROVE RepairStep(s) /\ s \in Threads
    BY <1>3, <2>2 DEF Watch, ContextDone, At, RepairStep, ThreadStep, Threads
  <2>3. ASSUME NEW t \in Threads, Thread(t) PROVE RepairStep(t)
    BY <1>3, <2>3 DEF Thread, Subscribe, SendSubscribe, AuthFails, Unsubscribe, SendUnsubscribe, At,
       RepairStep, ThreadStep
  <2> QED BY <1>3, <2>2, <2>3 DEF Rest, PlainConn, OtherStep
<1> QED
  BY <1>1, <1>2, <1>3 DEF BookNext

\* What a thread's step does to its own consumer and to the others.
LEMMA ThreadPresence ==
  ASSUME Typed, NEW t \in Threads, ThreadStep(t), NEW k \in Keys
  PROVE  /\ Of(t) \in Consumers /\ Key(t) = KeyOf[Of(t)] /\ Key(t) \in Keys
         /\ k # Key(t) => members'[k] = members[k]
         /\ \A u \in Consumers : (u # Of(t) \/ ~Registers(t)) /\ Never(members[k], u)
                                   => Never(members'[k], u)
         /\ Registers(t) => ~Never(members'[Key(t)], Of(t))
         /\ Deregisters(t) => Never(members'[Key(t)], Of(t))
         /\ ~Registers(t) /\ ~Deregisters(t) => UNCHANGED members
<1>1. Of(t) \in Consumers /\ Key(t) = KeyOf[Of(t)] /\ Key(t) \in Keys
  BY ThreadKeys
<1>2. members \in [Keys -> Seq(Consumers)]
  BY DEF Typed, TypeOK
<1>3. members[Key(t)] \in Seq(Consumers)
  BY <1>1, <1>2
<1>4. Registers(t) => members'[Key(t)] = Append(members[Key(t)], Of(t))
  BY <1>1, <1>2 DEF Registers
<1>5. Deregisters(t) => members'[Key(t)] = Without(members[Key(t)], Of(t))
  BY <1>1, <1>2 DEF Deregisters
<1>6. ~Registers(t) /\ ~Deregisters(t) => UNCHANGED members
  BY ThreadTable
<1>7. k # Key(t) => members'[k] = members[k]
  BY <1>1, <1>2, <1>6 DEF Registers, Deregisters
<1>8. Registers(t) => ~Never(members'[Key(t)], Of(t))
  <2>1. Len(Append(members[Key(t)], Of(t))) = Len(members[Key(t)]) + 1 /\ Len(members[Key(t)]) \in Nat
        /\ Append(members[Key(t)], Of(t))[Len(members[Key(t)]) + 1] = Of(t)
    BY <1>3
  <2>2. ~Never(Append(members[Key(t)], Of(t)), Of(t))
    BY <2>1 DEF Never
  <2> QED BY <1>4, <2>2
<1>9. Deregisters(t) => Never(members'[Key(t)], Of(t))
  BY <1>3, <1>5, WithoutOne
<1>10. ASSUME NEW u \in Consumers, u # Of(t) \/ ~Registers(t), Never(members[k], u)
       PROVE  Never(members'[k], u)
  <2>1. CASE Registers(t) /\ k = Key(t)
    <3>1. Of(t) # u /\ Never(members[Key(t)], u)
      BY <1>10, <2>1
    <3>2. Never(Append(members[Key(t)], Of(t)), u)
      BY <1>1, <1>3, <3>1, Appended
    <3> QED BY <1>4, <2>1, <3>2
  <2>2. CASE Deregisters(t) /\ k = Key(t)
    BY <1>3, <1>5, <1>10, <2>2, WithoutOne
  <2> QED BY <1>6, <1>7, <1>10, <2>1, <2>2
<1> QED
  BY <1>1, <1>6, <1>7, <1>8, <1>9, <1>10

\* Nobody begins to want a channel but by registering for it.
LEMMA ThreadWants ==
  ASSUME Typed, NEW t \in Threads, ThreadStep(t), NEW u \in Consumers, Wanting(u)'
  PROVE  Wanting(u) \/ (t = u /\ Registers(t))
<1>1. UNCHANGED cancelled /\ \A v \in Threads \ {t} : thread'[v] = thread[v]
  BY ThreadTable
<1>2. CASE t # u
  BY <1>1, <1>2 DEF Wanting, Threads
<1>3. CASE t = u /\ ~Registers(t)
  <2>1. thread'[u].pc \in {"sendSub", "joined"} /\ u \notin cancelled
    BY <1>1 DEF Wanting
  <2>2. AfterFailure(u) = "failed" /\ AfterUnsubscribe(u) = "left" /\ u \notin Workers
    BY <1>3, ConsumerTable
  <2>3. thread[u].pc = "sendSub"
    BY <1>3, <2>1, <2>2, ThreadTable DEF Deregisters, Writes, Walks, Moves
  <2> QED BY <2>1, <2>3 DEF Wanting
<1> QED
  BY <1>2, <1>3

LEMMA IdleWorkersWait ==
  ASSUME Typed, NEW w \in Workers, thread[w].pc = "idle", ThreadStep(w)
  PROVE  FALSE
<1>1. w \in Threads /\ w \notin Consumers
  BY WorkersAssumption DEF Threads
<1> QED
  BY <1>1, ThreadTable DEF Registers, Deregisters, Writes, Walks, Moves

\* A handler's call may wake one idle goroutine and changes no other thread.
LEMMA HandlerThreads ==
  ASSUME Typed, HandlerCalled
  PROVE  /\ \A u \in Consumers : thread'[u] = thread[u]
         /\ \A t \in Threads : thread[t].pc # "idle" => thread'[t] = thread[t]
<1>1. thread \in [Threads -> ThreadStates] /\ \A u \in Consumers : u \in Threads /\ u \notin Workers
  BY WorkersAssumption DEF Typed, TypeOK, Threads
<1>2. ASSUME NEW w \in Workers, At(w, "idle"), Goto(w, "check")
      PROVE  \A t \in Threads \ {w} : thread'[t] = thread[t]
  BY <1>1, <1>2, GotoTyped DEF Threads, Pcs
<1> QED
  BY <1>1, <1>2 DEF HandlerCalled, At

LEMMA HandleIsHandler == BookHandle => HandlerCalled
  BY DEF BookHandle, HandlerCalled, Skip, DropBroken, TakeSnapshot, TakeUpdate, Gap, Show

(***************************************************************************)
(* The parts of Healing, one after the other                               *)
(***************************************************************************)
LEMMA GroupHealing ==
  ASSUME Typed, NewInv, GroupInv, BookNext
  PROVE  GroupInv'
<1>0. \A u \in Consumers : New(u)' => New(u)
  BY BookStepsAreSteps, NewKept
<1>1. ASSUME NEW t \in Threads, ThreadStep(t) PROVE GroupInv'
  <2> SUFFICES ASSUME NEW k \in Keys, NEW u \in Consumers, ~Never(members'[k], u)
               PROVE  KeyOf[u] = k /\ ~New(u)'
    BY DEF GroupInv
  <2>1. CASE ~Never(members[k], u)
    BY <1>0, <2>1 DEF GroupInv
  <2>2. CASE Never(members[k], u)
    <3>1. u = Of(t) /\ Registers(t) /\ k = Key(t) /\ KeyOf[u] = k
      BY <1>1, <2>2, ThreadPresence
    <3>2. CASE t = u
      BY <1>1, <3>1, <3>2, ConsumerTable DEF Registers, New
    <3>3. CASE t # u
      <4>1. t \in Workers
        BY <3>1, <3>3 DEF Of
      <4>2. thread[t].pc = "subscribe"
        BY <3>1 DEF Registers
      <4>3. ~New(u)
        BY <3>1, <4>1, <4>2 DEF NewInv
      <4> QED BY <1>0, <3>1, <4>3
    <3> QED BY <3>2, <3>3
  <2> QED BY <2>1, <2>2
<1>2. CASE UNCHANGED members
  BY <1>0, <1>2 DEF GroupInv
<1>3. BookPublish \/ BookHandle \/ PlainConn \/ OtherStep => UNCHANGED members
  BY DEF BookPublish, Publish, BookHandle, CallHandler, PlainConn, Replay, ReplayFails, Replayed, Lookup,
     ReadFails, Cleanup, Stop, SocketDies, Close, OtherStep, Cancel, Change, Unpushed, conn
<1> QED
  BY <1>1, <1>2, <1>3, BookSteps DEF RepairStep

LEMMA NewHealing ==
  ASSUME Typed, NewInv, CallInv, BookNext
  PROVE  NewInv'
<1>0. \A u \in Consumers : New(u)' => New(u)
  BY BookStepsAreSteps, NewKept
<1>1. ASSUME NEW t \in Threads, RepairStep(t) PROVE NewInv'
  <2>1. \A w \in Workers : thread[w].pc = "idle" => thread'[w].pc = "idle"
    <3> SUFFICES ASSUME NEW w \in Workers, thread[w].pc = "idle" PROVE thread'[w].pc = "idle"
      OBVIOUS
    <3>1. w # t
      BY <1>1, IdleWorkersWait DEF RepairStep
    <3> QED BY <1>1, <3>1, ThreadTable DEF RepairStep, Threads
  <2> QED BY <1>0, <1>1, <2>1 DEF RepairStep, NewInv, bookVars
<1>2. CASE BookHandle
  <2> DEFINE h == Head(reader.todo) p == reader.push
  <2>1. h \in Consumers /\ ~New(h)
    BY <1>2, ReaderCalls DEF BookHandle, CallInv
  <2>2. resubscribing' \subseteq resubscribing \cup {h}
    BY <1>2 DEF BookHandle, Skip, DropBroken, TakeSnapshot, TakeUpdate, Gap, bookVars
  <2>3. UNCHANGED thread \/ \E w \in Workers : Of(w) = h /\ Goto(w, "check")
    BY <1>2 DEF BookHandle, Skip, DropBroken, TakeSnapshot, TakeUpdate, Gap, Show
  <2> HIDE DEF h
  <2>4. \A w \in Workers : Of(w) # h => thread'[w] = thread[w]
    <3>1. thread \in [Threads -> ThreadStates] /\ \A w \in Workers : w \in Threads
      BY DEF Typed, TypeOK, Threads
    <3>2. ASSUME NEW v \in Workers, Goto(v, "check")
          PROVE  \A w \in Workers \ {v} : thread'[w] = thread[w]
      BY <3>1, <3>2, GotoTyped DEF Pcs
    <3> QED BY <2>3, <3>2
  <2> QED BY <1>0, <2>1, <2>2, <2>4 DEF NewInv
<1>3. CASE UNCHANGED thread /\ resubscribing' \subseteq resubscribing
  BY <1>0, <1>3 DEF NewInv
<1>4. CASE BookPublish \/ PlainConn \/ (OtherStep /\ UNCHANGED bookVars)
  BY <1>3, <1>4 DEF BookPublish, Publish, PlainConn, Replay, ReplayFails, Replayed, Lookup,
     ReadFails, Cleanup, Stop, SocketDies, Close, OtherStep, Cancel, Change, Unpushed, side, bookVars
<1> QED
  BY <1>1, <1>2, <1>4, BookSteps

\* What WatchOrderBook needs: no other watcher of the market, and a public channel.
Alone == \A s, u \in Consumers : KeyOf[s] = KeyOf[u] => s = u
Public == \A s \in Consumers : KeyOf[s] \notin Private

\* The threads of somebody else's are not touched.
LEMMA OthersKeep ==
  ASSUME Typed, NEW t \in Threads, ThreadStep(t), NEW u \in Consumers, Of(t) # u
  PROVE  /\ \A pcs : Repairing(u, pcs) => Repairing(u, pcs)'
         /\ Asking(u) => Asking(u)'
         /\ Wanting(u)' => Wanting(u)
<1>1. \A v \in Threads : Of(v) = u => thread'[v] = thread[v]
  BY ThreadTable
<1>2. socket' = socket
  BY ThreadTable
<1>3. \A pcs : Repairing(u, pcs) => Repairing(u, pcs)'
  BY <1>1 DEF Repairing, Threads
<1>4. Asking(u) => Asking(u)'
  BY <1>1, <1>2 DEF Asking
<1>5. t # u
  BY WorkersAssumption DEF Of
<1> QED
  BY <1>3, <1>4, <1>5, ThreadWants

LEMMA KeptHealing ==
  ASSUME Alone, Typed, KeptInv, BookNext
  PROVE  KeptInv'
<1>1. ASSUME NEW t \in Threads, ThreadStep(t) PROVE KeptInv'
  <2> SUFFICES ASSUME NEW u \in Consumers, Wanting(u)', Never(members'[KeyOf[u]], u), ~closed
               PROVE  Repairing(u, {"sendUnsub", "subscribe"})'
    BY <1>1, ThreadTable DEF KeptInv
  <2>0. KeyOf[u] \in Keys
    BY ChannelsAssumption
  <2>1. CASE Of(t) # u
    <3>1. members'[KeyOf[u]] = members[KeyOf[u]]
      BY <1>1, <2>0, <2>1, ThreadPresence DEF Alone
    <3>2. Wanting(u)
      BY <1>1, <2>1, OthersKeep
    <3>3. Repairing(u, {"sendUnsub", "subscribe"})
      BY <3>1, <3>2 DEF KeptInv
    <3> QED BY <1>1, <2>1, <3>3, OthersKeep
  <2>2. CASE Of(t) = u
    <3>1. ~Registers(t)
      BY <1>1, <2>0, <2>2, ThreadPresence
    <3>2. Wanting(u)
      BY <1>1, <3>1, ThreadWants
    <3>3. CASE Deregisters(t)
      <4>1. t \in Workers
        <5>1. t \notin Workers => t = u
          BY <2>2 DEF Of
        <5>2. t = u => thread'[u].pc \in {"sendUnsub", "left"}
          BY <1>1, <3>3, ConsumerTable DEF Deregisters
        <5> QED BY <5>1, <5>2 DEF Wanting
      <4>2. thread'[t].pc \in {"sendUnsub", "subscribe"}
        BY <3>3, <4>1 DEF Deregisters, AfterUnsubscribe
      <4> QED BY <2>2, <4>1, <4>2 DEF Repairing, Of
    <3>4. CASE ~Deregisters(t)
      <4>1. Repairing(u, {"sendUnsub", "subscribe"})
        BY <1>1, <2>0, <3>1, <3>2, <3>4, ThreadPresence DEF KeptInv
      <4>2. PICK w \in Workers : Of(w) = u /\ thread[w].pc \in {"sendUnsub", "subscribe"}
        BY <4>1 DEF Repairing
      <4>3. thread'[w].pc \in {"sendUnsub", "subscribe"}
        <5>1. CASE w = t
          <6>1. AfterUnsubscribe(t) = "subscribe"
            BY <5>1 DEF AfterUnsubscribe
          <6> QED BY <1>1, <3>1, <3>4, <4>2, <5>1, <6>1, ThreadTable DEF Writes, Walks, Moves
        <5>2. CASE w # t
          BY <1>1, <4>2, <5>2, ThreadTable DEF Threads
        <5> QED BY <5>1, <5>2
      <4> QED BY <4>2, <4>3 DEF Repairing, Of
    <3> QED BY <3>3, <3>4
  <2> QED BY <2>1, <2>2
<1>2. ASSUME UNCHANGED <<members, cancelled>>, closed => closed',
             \A u \in Consumers : thread'[u] = thread[u],
             \A t \in Threads : thread[t].pc # "idle" => thread'[t] = thread[t]
      PROVE  KeptInv'
  <2> SUFFICES ASSUME NEW u \in Consumers, Wanting(u), Never(members[KeyOf[u]], u), ~closed
               PROVE  Repairing(u, {"sendUnsub", "subscribe"})'
    BY <1>2 DEF KeptInv, Wanting
  <2>1. PICK w \in Workers : Of(w) = u /\ thread[w].pc \in {"sendUnsub", "subscribe"}
    BY DEF KeptInv, Repairing
  <2>2. thread'[w] = thread[w]
    BY <1>2, <2>1 DEF Threads
  <2> QED BY <2>1, <2>2 DEF Repairing, Of
<1>3. CASE BookHandle
  <2>1. UNCHANGED <<members, cancelled, closed>>
    BY <1>3 DEF BookHandle, CallHandler
  <2> QED BY <1>2, <1>3, <2>1, HandleIsHandler, HandlerThreads
<1>4. CASE BookPublish \/ PlainConn
  <2>1. UNCHANGED <<members, cancelled, thread>> /\ (closed => closed')
    BY <1>4 DEF BookPublish, Publish, PlainConn, Replay, ReplayFails, Replayed, Lookup, ReadFails, Cleanup,
       Stop, SocketDies, Close, side
  <2> QED BY <1>2, <2>1
<1>5. CASE OtherStep
  <2>1. UNCHANGED <<members, closed, thread>> /\ cancelled \subseteq cancelled'
    BY <1>5 DEF OtherStep, Cancel, Change, Unpushed, conn, side
  <2> QED BY <2>1 DEF KeptInv, Wanting, Repairing
<1> QED
  BY <1>1, <1>3, <1>4, <1>5, BookSteps DEF RepairStep

\* Pushes on their way stay so until they are read or the socket is lost.
LEMMA StillOnItsWay ==
  ASSUME inbox \in Seq(Pushes), NEW k, OnItsWay(k), NEW p \in Pushes
  PROVE  /\ inbox' = Append(inbox, p) => OnItsWay(k)'
         /\ inbox' = Tail(inbox) /\ inbox # <<>> => OnItsWay(k)' \/ (Head(inbox).key = k /\ Head(inbox).snapshot)
<1>1. PICK i \in 1..Len(inbox) : inbox[i].key = k /\ inbox[i].snapshot
  BY DEF OnItsWay
<1>2. ASSUME inbox' = Append(inbox, p) PROVE OnItsWay(k)'
  <2>1. inbox'[i] = inbox[i] /\ i \in 1..Len(inbox')
    BY <1>2
  <2> QED BY <1>1, <2>1 DEF OnItsWay
<1>3. ASSUME inbox' = Tail(inbox), inbox # <<>>
      PROVE  OnItsWay(k)' \/ (Head(inbox).key = k /\ Head(inbox).snapshot)
  <2>1. CASE i = 1
    BY <1>1, <1>3, <2>1
  <2>2. CASE i # 1
    <3>1. i - 1 \in 1..Len(Tail(inbox)) /\ Tail(inbox)[i - 1] = inbox[i]
      BY <1>3, <2>2
    <3> QED BY <1>1, <1>3, <3>1 DEF OnItsWay
  <2> QED BY <2>1, <2>2
<1> QED
  BY <1>2, <1>3

LEMMA FrameOnItsWay ==
  ASSUME Typed, NEW s, NEW kind, NEW k \in Keys, s # 0, WriteOk(s, kind, k) \/ WriteFails(s), NEW j
  PROVE  /\ OnItsWay(j) => OnItsWay(j)'
         /\ WriteOk(s, kind, k) /\ kind = "subscribe" /\ alive => OnItsWay(k)'
<1>1. inbox \in Seq(Pushes)
  BY DEF Typed, TypeOK
<1>2. CASE inbox' = Append(inbox, Snapshot(k)) /\ WriteOk(s, kind, k)
  <2>1. Snapshot(k) \in Pushes
    <3>1. dialled # 0
      BY <1>2 DEF WriteOk, Typed, TypeOK, SocketInv
    <3> QED BY <3>1, PushTyped
  <2>2. OnItsWay(k)'
    <3>1. Len(inbox) + 1 \in 1..Len(inbox') /\ inbox'[Len(inbox) + 1] = Snapshot(k)
      BY <1>1, <1>2, <2>1
    <3>2. Snapshot(k).key = k /\ Snapshot(k).snapshot
      BY DEF Snapshot
    <3> QED BY <3>1, <3>2 DEF OnItsWay
  <2> QED BY <1>1, <1>2, <2>1, <2>2, StillOnItsWay
<1>3. CASE inbox' = inbox /\ ~(WriteOk(s, kind, k) /\ kind = "subscribe" /\ alive)
  BY <1>3 DEF OnItsWay
<1> QED
  BY <1>2, <1>3 DEF WriteOk, WriteFails, FrameTaken

LEMMA ThreadOnItsWay ==
  ASSUME Typed, NEW t \in Threads, ThreadStep(t), NEW k, OnItsWay(k)
  PROVE  OnItsWay(k)'
<1>1. \/ UNCHANGED inbox
      \/ /\ thread[t].pc \in {"sendSub", "sendUnsub"}
         /\ \E kind \in {"subscribe", "unsubscribe"} : WriteOk(thread[t].sock, kind, Key(t))
  BY ThreadTable DEF Registers, Deregisters, Writes, Moves, Failing, WriteFails, SameWire
<1>2. thread[t].pc \in {"sendSub", "sendUnsub"} => thread[t].sock # 0
  BY DEF Typed, SocketInv
<1>3. CASE UNCHANGED inbox
  BY <1>3 DEF OnItsWay
<1>4. ASSUME NEW kind, thread[t].sock # 0, WriteOk(thread[t].sock, kind, Key(t)) PROVE OnItsWay(k)'
  BY <1>4, FrameOnItsWay, ThreadKeys
<1> QED
  BY <1>1, <1>2, <1>3, <1>4

\* The four ways a snapshot may still come.
Awaited(u) == \/ Repairing(u, {"check", "unsubscribe"})
              \/ Asking(u)
              \/ OnItsWay(KeyOf[u])
              \/ ~Never(reader.todo, u) /\ reader.push.snapshot
Waits(u) == Wanting(u) /\ alive /\ u \in resubscribing \ missed /\ ~Never(members[KeyOf[u]], u)

\* A member of a channel nobody shares is the only one.
LEMMA OnlyMember ==
  ASSUME Alone, Typed, GroupInv, NEW u \in Consumers, members[KeyOf[u]] # <<>>
  PROVE  ~Never(members[KeyOf[u]], u) /\ ~New(u)
<1>1. members[KeyOf[u]] \in Seq(Consumers) /\ KeyOf[u] \in Keys
  BY ChannelsAssumption DEF Typed, TypeOK
<1>2. members[KeyOf[u]][1] \in Consumers /\ 1 \in 1..Len(members[KeyOf[u]])
  BY <1>1
<1>3. ~Never(members[KeyOf[u]], members[KeyOf[u]][1])
  BY <1>2 DEF Never
<1>4. members[KeyOf[u]][1] = u
  BY <1>1, <1>2, <1>3 DEF GroupInv, Alone
<1> QED
  BY <1>1, <1>3, <1>4 DEF GroupInv

LEMMA ThreadAwaits ==
  ASSUME Alone, Public, Typed, GroupInv, AwaitInv, NEW t \in Threads, RepairStep(t),
         NEW u \in Consumers, Waits(u)'
  PROVE  Awaited(u)'
<1>0. /\ ThreadStep(t) /\ KeyOf[u] \in Keys /\ Wanting(u)' /\ alive' /\ u \in resubscribing \ missed
      /\ ~Never(members'[KeyOf[u]], u) /\ UNCHANGED <<reader, socket, closed, cancelled>>
  BY ChannelsAssumption, ThreadTable DEF Waits, RepairStep, bookVars
<1>1. alive /\ ~closed /\ socket # 0
  <2>1. alive
    BY <1>0, ThreadTable DEF Registers, Deregisters, Writes, Failing, WriteOk, WriteFails, SameWire
  <2> QED BY <2>1 DEF Typed, TypeOK, SocketInv
<1>2. OnItsWay(KeyOf[u]) => OnItsWay(KeyOf[u])'
  BY <1>0, ThreadOnItsWay
<1>3. CASE Of(t) # u
  <2>1. members'[KeyOf[u]] = members[KeyOf[u]]
    BY <1>0, <1>3, ThreadPresence DEF Alone
  <2>2. Wanting(u)
    BY <1>0, <1>3, OthersKeep
  <2>3. Awaited(u)
    BY <1>0, <1>1, <2>1, <2>2 DEF AwaitInv, Awaited
  <2> QED BY <1>0, <1>2, <1>3, <2>3, OthersKeep DEF Awaited
<1>4. CASE Of(t) = u /\ Registers(t)
  <2>1. Key(t) = KeyOf[u] /\ thread[t].pc = "subscribe"
    BY <1>0, <1>4, ThreadPresence DEF Registers
  <2>2. CASE members[KeyOf[u]] = <<>>
    <3>1. thread'[t].pc = "sendSub" /\ thread'[t].sock = socket
      BY <1>1, <1>4, <2>1, <2>2 DEF Registers
    <3>2. Asking(u)'
      BY <1>0, <1>4, <3>1 DEF Asking, Of
    <3> QED BY <3>2 DEF Awaited
  <2>3. CASE members[KeyOf[u]] # <<>>
    <3>1. ~Never(members[KeyOf[u]], u) /\ ~New(u)
      BY <2>3, OnlyMember
    <3>2. Wanting(u)
      BY <1>0, <2>1, <3>1, ThreadWants DEF New
    <3>3. Awaited(u)
      BY <1>0, <1>1, <3>1, <3>2 DEF AwaitInv, Awaited
    <3>4. Repairing(u, {"check", "unsubscribe"}) => Repairing(u, {"check", "unsubscribe"})'
      <4> SUFFICES ASSUME NEW w \in Workers, Of(w) = u, thread[w].pc \in {"check", "unsubscribe"}
                   PROVE  thread'[w].pc \in {"check", "unsubscribe"}
        BY DEF Repairing, Of
      <4> QED BY <1>0, <2>1, ThreadTable DEF Threads
    <3>5. Asking(u) => Asking(u)'
      <4> SUFFICES ASSUME NEW v \in Threads, Of(v) = u, thread[v].pc = "sendSub", thread[v].sock = socket
                   PROVE  thread'[v] = thread[v]
        BY <1>0 DEF Asking, Of
      <4> QED BY <1>0, <2>1, ThreadTable
    <3> QED BY <1>0, <1>2, <3>3, <3>4, <3>5 DEF Awaited
  <2> QED BY <2>2, <2>3
<1>5. CASE Of(t) = u /\ ~Registers(t)
  <2>1. UNCHANGED members /\ ~Deregisters(t)
    BY <1>0, <1>5, ThreadPresence
  <2>2. Wanting(u)
    BY <1>0, <1>5, ThreadWants
  <2>3. Awaited(u)
    BY <1>0, <1>1, <2>1, <2>2 DEF AwaitInv, Awaited
  <2>4. Writes(t) \/ Walks(t)
    BY <1>0, <1>5, <2>1, ThreadTable
  <2>5. Repairing(u, {"check", "unsubscribe"}) => Repairing(u, {"check", "unsubscribe"})'
    <3> SUFFICES ASSUME NEW w \in Workers, Of(w) = u, thread[w].pc \in {"check", "unsubscribe"}
                 PROVE  thread'[w].pc \in {"check", "unsubscribe"}
      BY DEF Repairing, Of
    <3>1. CASE w # t
      BY <1>0, <3>1, ThreadTable DEF Threads
    <3>2. CASE w = t
      <4>1. thread[t].pc = "check" => thread'[t].pc = "unsubscribe"
        BY <1>5, <2>2 DEF RepairStep, Wanting
      <4>2. thread[t].pc # "unsubscribe"
        BY <1>1, <2>4, <3>2, WorkersAssumption DEF Writes, Walks, Moves
      <4> QED BY <3>2, <4>1, <4>2
    <3> QED BY <3>1, <3>2
  <2>6. Asking(u) => Asking(u)' \/ OnItsWay(KeyOf[u])'
    <3> SUFFICES ASSUME NEW v \in Threads, Of(v) = u, thread[v].pc = "sendSub", thread[v].sock = socket
                 PROVE  thread'[v] = thread[v] \/ OnItsWay(KeyOf[u])'
      BY <1>0 DEF Asking, Of
    <3>1. CASE v # t
      BY <1>0, <3>1, ThreadTable
    <3>2. CASE v = t
      <4>1. Key(t) = KeyOf[u] /\ KeyOf[u] \notin Private
        BY <1>0, <1>5, ThreadPresence DEF Public
      <4>2. WriteOk(socket, "subscribe", KeyOf[u]) \/ WriteFails(socket)
        BY <2>4, <3>2, <4>1 DEF Writes, Walks, Moves, Failing
      <4>3. ~WriteFails(socket)
        BY <1>0 DEF WriteFails
      <4> QED BY <1>0, <1>1, <4>2, <4>3, FrameOnItsWay
    <3> QED BY <3>1, <3>2
  <2> QED BY <1>0, <1>2, <2>3, <2>5, <2>6 DEF Awaited
<1> QED
  BY <1>3, <1>4, <1>5

LEMMA HandleAwaits ==
  ASSUME Alone, Typed, CallInv, AwaitInv, BookHandle, NEW u \in Consumers, Waits(u)'
  PROVE  Awaited(u)'
<1> DEFINE h == Head(reader.todo) p == reader.push
<1>1. /\ h \in Consumers /\ ~Never(reader.todo, h) /\ CallHandler
      /\ UNCHANGED <<members, alive, cancelled, socket, inbox>>
  BY ReaderCalls DEF BookHandle, CallHandler, exchange
<1>2. Skip(h, p) \/ DropBroken(h, p) \/ TakeSnapshot(h, p) \/ TakeUpdate(h, p) \/ Gap(h, p)
  BY DEF BookHandle
<1>3. /\ \A v \in Consumers : thread'[v] = thread[v]
      /\ \A t \in Threads : thread[t].pc # "idle" => thread'[t] = thread[t]
  BY HandleIsHandler, HandlerThreads
<1>4. ~Never(reader.todo, u) => h = u
  BY <1>1 DEF CallInv, Alone
<1>5. Wanting(u) /\ alive /\ u \in resubscribing' \ missed' /\ ~Never(members[KeyOf[u]], u)
  BY <1>1, <1>3 DEF Waits, Wanting
<1> HIDE DEF h, p
<1>6. CASE Gap(h, p) /\ h = u
  <2>1. PICK w \in Workers : Of(w) = u /\ Goto(w, "check")
    BY <1>6 DEF Gap
  <2>2. thread'[w].pc = "check"
    BY <2>1, GotoTyped DEF Typed, TypeOK, Threads, Pcs
  <2>3. Repairing(u, {"check", "unsubscribe"})'
    BY <2>1, <2>2 DEF Repairing, Of
  <2> QED BY <2>3 DEF Awaited
<1>7. CASE u \in resubscribing \ missed /\ ~(~Never(reader.todo, u) /\ p.snapshot)
  <2>1. Awaited(u)
    BY <1>5, <1>7 DEF AwaitInv, Awaited
  <2>2. Repairing(u, {"check", "unsubscribe"}) => Repairing(u, {"check", "unsubscribe"})'
    <3> SUFFICES ASSUME NEW w \in Workers, Of(w) = u, thread[w].pc \in {"check", "unsubscribe"}
                 PROVE  thread'[w].pc \in {"check", "unsubscribe"}
      BY DEF Repairing, Of
    <3> QED BY <1>3 DEF Threads
  <2>3. Asking(u) => Asking(u)'
    <3> SUFFICES ASSUME NEW v \in Threads, Of(v) = u, thread[v].pc = "sendSub", thread[v].sock = socket
                 PROVE  thread'[v] = thread[v]
      BY <1>1 DEF Asking, Of
    <3> QED BY <1>3
  <2>4. OnItsWay(KeyOf[u]) => OnItsWay(KeyOf[u])'
    BY <1>1 DEF OnItsWay
  <2> QED BY <1>7, <2>1, <2>2, <2>3, <2>4 DEF Awaited, p
<1>8. CASE Skip(h, p) \/ TakeUpdate(h, p)
  BY <1>5, <1>7, <1>8 DEF Skip, TakeUpdate, bookVars
<1>9. CASE TakeSnapshot(h, p) \/ DropBroken(h, p)
  <2>1. u \in resubscribing \ missed /\ u # h
    BY <1>5, <1>9 DEF TakeSnapshot, DropBroken
  <2> QED BY <1>4, <1>7, <2>1
<1>10. CASE Gap(h, p) /\ h # u
  <2>1. u \in resubscribing \ missed
    BY <1>5, <1>10 DEF Gap
  <2> QED BY <1>4, <1>7, <1>10, <2>1
<1> QED
  BY <1>2, <1>6, <1>8, <1>9, <1>10

LEMMA AwaitHealing ==
  ASSUME Alone, Public, Healing, BookNext
  PROVE  AwaitInv'
<1> SUFFICES ASSUME NEW u \in Consumers, Waits(u)' PROVE Awaited(u)'
  BY DEF AwaitInv, Waits, Awaited
<1> USE DEF Healing
<1>0. KeyOf[u] \in Keys /\ inbox \in Seq(Pushes)
  BY ChannelsAssumption DEF Typed, TypeOK
<1>1. ASSUME NEW t \in Threads, RepairStep(t) PROVE Awaited(u)'
  BY <1>1, ThreadAwaits
<1>2. CASE BookHandle
  BY <1>2, HandleAwaits
<1>3. CASE BookPublish
  <2>1. ~Never(members[KeyOf[u]], u) /\ u \notin Joined
    BY <1>3 DEF Waits, BookPublish, Publish
  <2>2. PICK i \in 1..Len(members[KeyOf[u]]) : members[KeyOf[u]][i] = u
    BY <2>1 DEF Never
  <2>3. u \in ToSet(members[KeyOf[u]])
    BY <1>0, <2>2 DEF ToSet, Typed, TypeOK
  <2> QED BY <1>0, <2>1, <2>3 DEF Joined
<1>4. ASSUME UNCHANGED <<members, thread, socket, bookVars>>, alive' => alive, cancelled \subseteq cancelled'
      PROVE  /\ Waits(u) /\ Awaited(u)
             /\ Repairing(u, {"check", "unsubscribe"}) => Repairing(u, {"check", "unsubscribe"})'
             /\ Asking(u) => Asking(u)'
  <2>1. Waits(u)
    BY <1>4 DEF Waits, Wanting, bookVars
  <2>2. Awaited(u)
    BY <2>1 DEF Waits, Awaited, AwaitInv
  <2> QED BY <1>4, <2>1, <2>2 DEF Repairing, Asking
<1>5. CASE PlainConn
  <2>1. ASSUME NEW k \in Keys, Replay(k) PROVE Awaited(u)'
    <3>1. /\ WriteOk(dialled, "subscribe", k) /\ dialled # 0
          /\ UNCHANGED <<members, thread, socket, bookVars, alive, cancelled, reader>>
      BY <1>5, <2>1 DEF PlainConn, Replay, WriteOk, side, Typed, SocketInv
    <3>2. OnItsWay(KeyOf[u]) => OnItsWay(KeyOf[u])'
      BY <3>1, FrameOnItsWay
    <3> QED BY <1>4, <3>1, <3>2 DEF Awaited
  <2>2. CASE Lookup
    <3>1. /\ inbox # <<>> /\ reader.todo = <<>> /\ inbox' = Tail(inbox)
          /\ reader' = [todo |-> members[Head(inbox).key], push |-> Head(inbox)]
          /\ UNCHANGED <<members, thread, socket, bookVars, alive, cancelled>>
      BY <1>5, <2>2 DEF PlainConn, Lookup, side
    <3>2. Head(inbox) \in Pushes
      BY <1>0, <3>1
    <3>3. Waits(u) /\ Awaited(u)
      BY <1>4, <3>1
    <3>4. Never(reader.todo, u)
      BY <3>1 DEF Never
    <3>5. OnItsWay(KeyOf[u]) => OnItsWay(KeyOf[u])' \/ (~Never(reader'.todo, u) /\ reader'.push.snapshot)
      <4>1. ASSUME Head(inbox).key = KeyOf[u], Head(inbox).snapshot
            PROVE  ~Never(reader'.todo, u) /\ reader'.push.snapshot
        BY <3>1, <3>3, <4>1 DEF Waits
      <4> QED BY <1>0, <3>1, <3>2, <4>1, StillOnItsWay
    <3> QED BY <1>4, <3>1, <3>3, <3>4, <3>5 DEF Awaited
  <2>3. CASE Replayed \/ Stop
    <3>1. UNCHANGED <<members, thread, socket, bookVars, alive, cancelled, reader, inbox>>
      BY <1>5, <2>3 DEF PlainConn, Replayed, Stop, side, exchange
    <3> QED BY <1>4, <3>1 DEF Awaited, OnItsWay
  <2>4. ~alive' => Awaited(u)'
    BY DEF Waits
  <2>5. (\E k \in Keys : ReplayFails(k)) \/ ReadFails \/ Cleanup \/ SocketDies \/ Close => ~alive'
    BY DEF ReplayFails, ReadFails, Cleanup, SocketDies, Close, Typed, SocketInv
  <2> QED BY <1>5, <2>1, <2>2, <2>3, <2>4, <2>5 DEF PlainConn
<1>6. CASE OtherStep /\ UNCHANGED bookVars
  <2>1. /\ UNCHANGED <<members, thread, socket, bookVars, alive, reader>>
        /\ cancelled \subseteq cancelled'
    BY <1>6 DEF OtherStep, Cancel, Change, Unpushed, conn, side
  <2>2. OnItsWay(KeyOf[u]) => OnItsWay(KeyOf[u])'
    <3>1. CASE UNCHANGED inbox
      BY <3>1 DEF OnItsWay
    <3>2. ASSUME NEW k \in Keys, Change(k), ~UNCHANGED inbox
          PROVE  OnItsWay(KeyOf[u]) => OnItsWay(KeyOf[u])'
      <4> DEFINE p == [key |-> k, sock |-> dialled, snapshot |-> FALSE,
                       begin |-> version[k], nonce |-> version[k] + 1]
      <4>1. inbox' = Append(inbox, p) /\ alive
        BY <3>2 DEF Change
      <4>2. p \in Pushes
        BY <3>2, <4>1, PushTyped DEF Typed, SocketInv, Change
      <4> HIDE DEF p
      <4> QED BY <1>0, <4>1, <4>2, StillOnItsWay
    <3> QED BY <1>6, <3>1, <3>2 DEF OtherStep, Cancel, Unpushed, exchange
  <2> QED BY <1>4, <2>1, <2>2 DEF Awaited
<1> QED
  BY <1>1, <1>2, <1>3, <1>5, <1>6, BookSteps

LEMMA HealingInit == BookInit => Healing
<1> SUFFICES ASSUME BookInit PROVE Healing
  OBVIOUS
<1>1. \A t \in Threads : thread[t].pc = "idle"
  BY DEF BookInit, Init
<1>2. members = [k \in Keys |-> <<>>] /\ reader.todo = <<>> /\ inbox = <<>> /\ alive = FALSE
  BY DEF BookInit, Init, IdleReader
<1>3. \A s : Never(<<>>, s)
  BY DEF Never
<1>4. GroupInv /\ CallInv
  BY <1>2, <1>3 DEF GroupInv, CallInv, OfSocket
<1>5. NewInv /\ KeptInv /\ AwaitInv
  BY <1>1, <1>2 DEF BookInit, NewInv, KeptInv, AwaitInv, Wanting, Threads
<1> QED
  BY <1>4, <1>5, TypedInit DEF Healing, BookInit

LEMMA HealingStep ==
  ASSUME Alone, Public, Healing, [BookNext]_<<vars, bookVars>>
  PROVE  Healing'
<1>1. CASE BookNext
  <2>1. Typed'
    BY <1>1, BookStepsAreSteps, TypedStep DEF Healing
  <2>2. CallInv'
    BY <1>1, BookStepsAreSteps, CallKept DEF Healing
  <2>3. GroupInv' /\ NewInv' /\ KeptInv' /\ AwaitInv'
    <3>1. Typed /\ GroupInv /\ CallInv /\ NewInv /\ KeptInv
      BY DEF Healing
    <3> QED BY <1>1, <3>1, GroupHealing, NewHealing, KeptHealing, AwaitHealing
  <2> QED BY <2>1, <2>2, <2>3 DEF Healing
<1>2. CASE UNCHANGED <<vars, bookVars>>
  <2>1. Typed'
    BY <1>2, TypedStutter DEF Healing
  <2>2. GroupInv' /\ CallInv' /\ NewInv' /\ KeptInv'
    BY <1>2 DEF Healing, vars, conn, side, exchange, bookVars, GroupInv, CallInv, NewInv, KeptInv, New, Wanting,
                Repairing
  <2>3. AwaitInv'
    BY <1>2 DEF Healing, vars, conn, side, exchange, bookVars, AwaitInv, Wanting, Repairing, Asking, OnItsWay
  <2> QED BY <2>1, <2>2, <2>3 DEF Healing
<1> QED
  BY <1>1, <1>2

\* When a market has one watcher and its channel needs no token, a gap in its
\* book heals: on a settled connection with nothing left to read, nobody still
\* waits for the snapshot that ends one, however many goroutines repaired it,
\* but for who was given that snapshot and could not decode it.
THEOREM GapsOfOneWatcherHeal ==
  ASSUME Alone, Public
  PROVE  BookSpec => []GapHeals
<1>1. Healing => GapHeals
  <2> SUFFICES ASSUME Healing, Settled, inbox = <<>>, reader.todo = <<>>,
                      NEW s \in Consumers, thread[s].pc = "joined", s \in resubscribing \ missed
               PROVE  FALSE
    BY DEF GapHeals, At
  <2>1. Wanting(s) /\ alive /\ ~closed
    BY DEF Settled, At, Wanting, Healing, Typed, SocketInv
  <2>2. ~Repairing(s, {"sendUnsub", "subscribe"}) /\ ~Repairing(s, {"check", "unsubscribe"}) /\ ~Asking(s)
    BY DEF Settled, Repairing, Asking, Threads
  <2>3. ~OnItsWay(KeyOf[s]) /\ Never(reader.todo, s)
    BY DEF OnItsWay, Never
  <2>4. ~Never(members[KeyOf[s]], s)
    BY <2>1, <2>2 DEF Healing, KeptInv
  <2> QED BY <2>1, <2>2, <2>3, <2>4 DEF Healing, AwaitInv
<1>2. Healing /\ [BookNext]_<<vars, bookVars>> => Healing'
  BY HealingStep
<1> QED
  BY <1>1, <1>2, HealingInit, PTL DEF BookSpec
=============================================================================
