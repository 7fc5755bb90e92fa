----------------------------- MODULE StreamsProofs -----------------------------
(***************************************************************************)
(* Proofs about what the streams of a section maintain: the transaction    *)
(* tracker and the local order book, each alone, the pushes a stream is    *)
(* handed, and last the streams together, in which the registry, the book  *)
(* and the tracker run as they would alone.                                *)
(***************************************************************************)
EXTENDS Streams, FoldLemmas, SequenceTheorems, FiniteSetTheorems, FunctionTheorems, TLAPS

(***************************************************************************)
(* The tracker, for any number of Awaits, streams and hashes, and a ring   *)
(* of any length.                                                          *)
(***************************************************************************)
LEMMA TrackerTypeInit == TrackerInit => TrackerTypeOK
<1> SUFFICES ASSUME TrackerInit PROVE TrackerTypeOK
  OBVIOUS
<1>1. 0 \in 0..(maxEntries - 1)
  BY TrackerAssumption
<1>2. call \in [Calls -> [pc : {"start", "wait", "remove", "done"}, hash : Hashes,
                          ch : {{}} \cup {{h} : h \in Hashes}, result : {"none", "outcome", "error"}]]
  BY DEF TrackerInit
<1> QED
  BY <1>1, <1>2, TrackerAssumption DEF TrackerInit, TrackerTypeOK

LEMMA RingTypeStep ==
  ASSUME TrackerTypeOK, NEW h \in Hashes, Remember(h)
  PROVE  /\ outcomes' \subseteq Hashes /\ order' \in Seq(Hashes) /\ Len(order') <= maxEntries
         /\ head' \in 0..(maxEntries - 1) /\ recorded' \in Seq(Hashes)
<1> USE TrackerAssumption DEF TrackerTypeOK, ring
<1>1. CASE h \in outcomes
  BY <1>1 DEF Remember
<1>2. CASE h \notin outcomes /\ Len(order) < maxEntries
  <2>1. order' = Append(order, h) /\ recorded' = Append(recorded, h)
        /\ outcomes' = outcomes \cup {h} /\ head' = head
    BY <1>2 DEF Remember
  <2> QED
    BY <1>2, <2>1, AppendProperties
<1>3. CASE h \notin outcomes /\ ~(Len(order) < maxEntries)
  <2>1. order' = [order EXCEPT ![head + 1] = h] /\ head' = (head + 1) % maxEntries
        /\ outcomes' = (outcomes \ {order[head + 1]}) \cup {h} /\ recorded' = Append(recorded, h)
    BY <1>3 DEF Remember, ReplaceAt, NextHead
  <2>2. head + 1 \in 1..Len(order)
    BY <1>3
  <2>3. order' \in Seq(Hashes) /\ Len(order') = Len(order)
    BY <2>1, <2>2, ExceptSeq
  <2>4. head' \in 0..(maxEntries - 1)
    BY <2>1
  <2> QED
    BY <2>1, <2>3, <2>4, AppendProperties
<1> QED
  BY <1>1, <1>2, <1>3

\* What a step writes of the record of an Await has its type.
Calling == [pc : {"start", "wait", "remove", "done"}, hash : Hashes,
            ch : {{}} \cup {{h} : h \in Hashes}, result : {"none", "outcome", "error"}]
CallTypeOK == call \in [Calls -> Calling]

LEMMA CallTyped ==
  ASSUME call \in [Calls -> Calling], NEW c \in Calls, NEW r \in Calling, call' = [call EXCEPT ![c] = r]
  PROVE  CallTypeOK'
  BY DEF CallTypeOK

LEMMA WakeTyped ==
  ASSUME TrackerTypeOK, NEW c \in Calls, NEW h \in {{}} \cup {{g} : g \in Hashes},
         call' = [call EXCEPT ![c].ch = h]
  PROVE  CallTypeOK'
<1> DEFINE r == [call[c] EXCEPT !.ch = h]
<1>0. call \in [Calls -> Calling] /\ call[c] \in Calling
  BY DEF TrackerTypeOK, Calling
<1>1. r \in Calling
  BY <1>0 DEF Calling
<1>2. call' = [call EXCEPT ![c] = r]
  OBVIOUS
<1> HIDE DEF r
<1> QED
  BY <1>0, <1>1, <1>2, CallTyped

LEMMA AwaitTyped ==
  ASSUME TrackerTypeOK, NEW c \in Calls, Await(c)
  PROVE  CallTypeOK'
<1>0. call \in [Calls -> Calling] /\ call[c] \in Calling
  BY DEF TrackerTypeOK, Calling
<1>1. CASE call' = [call EXCEPT ![c].pc = "wait"]
  <2> DEFINE r == [call[c] EXCEPT !.pc = "wait"]
  <2>1. r \in Calling
    BY <1>0 DEF Calling
  <2>2. call' = [call EXCEPT ![c] = r]
    BY <1>1
  <2> HIDE DEF r
  <2> QED BY <1>0, <2>1, <2>2, CallTyped
<1>2. CASE call' = [call EXCEPT ![c].pc = "remove"]
  <2> DEFINE r == [call[c] EXCEPT !.pc = "remove"]
  <2>1. r \in Calling
    BY <1>0 DEF Calling
  <2>2. call' = [call EXCEPT ![c] = r]
    BY <1>2
  <2> HIDE DEF r
  <2> QED BY <1>0, <2>1, <2>2, CallTyped
<1>3. CASE call' = [call EXCEPT ![c].pc = "done", ![c].ch = {}, ![c].result = "outcome"]
  <2> DEFINE r == [call[c] EXCEPT !.pc = "done", !.ch = {}, !.result = "outcome"]
  <2>1. r \in Calling
    BY <1>0 DEF Calling
  <2>2. call' = [call EXCEPT ![c] = r]
    BY <1>3
  <2> HIDE DEF r
  <2> QED BY <1>0, <2>1, <2>2, CallTyped
<1>4. ASSUME NEW v \in {"outcome", "error"}, Finish(c, v) PROVE CallTypeOK'
  <2> DEFINE r == [call[c] EXCEPT !.pc = "done", !.result = v]
  <2>1. r \in Calling
    BY <1>0 DEF Calling
  <2>2. call' = [call EXCEPT ![c] = r]
    BY <1>4 DEF Finish
  <2> HIDE DEF r
  <2> QED BY <1>0, <2>1, <2>2, CallTyped
<1> QED
  BY <1>1, <1>2, <1>3, <1>4 DEF Await, Enter, Receive, ContextDone, Leave

LEMMA TrackerTypeStep ==
  ASSUME TrackerTypeOK, [TrackerNext]_trackerVars
  PROVE  TrackerTypeOK'
<1>0. \A c \in Calls : call[c].hash \in Hashes
  BY DEF TrackerTypeOK
<1> USE TrackerAssumption DEF TrackerTypeOK, ring
<1>1. CASE UNCHANGED trackerVars
  BY <1>1 DEF trackerVars
<1>2. ASSUME NEW o \in Observers, NEW h \in Hashes, Record(o, h) PROVE TrackerTypeOK'
  <2>1. Remember(h) /\ waking' = [waking EXCEPT ![o] = [todo |-> waiters[h], with |-> {h}]]
        /\ waiters' = [waiters EXCEPT ![h] = {}] /\ UNCHANGED call
    BY <1>2 DEF Record
  <2>2. waking' \in [Observers -> [todo : SUBSET Calls, with : {{}} \cup {{g} : g \in Hashes}]]
    BY <2>1
  <2>3. waiters' \in [Hashes -> SUBSET Calls]
    BY <2>1
  <2> QED
    BY <2>1, <2>2, <2>3, RingTypeStep
<1>3. ASSUME NEW o \in Observers, Wake(o) PROVE TrackerTypeOK'
  <2>1. PICK c \in waking[o].todo :
          /\ call' = [call EXCEPT ![c].ch = waking[o].with]
          /\ waking' = [waking EXCEPT ![o].todo = @ \ {c}]
          /\ UNCHANGED <<ring, waiters>>
    BY <1>3 DEF Wake
  <2>2. c \in Calls /\ waking[o].with \in {{}} \cup {{h} : h \in Hashes}
    OBVIOUS
  <2>4. CallTypeOK'
    BY <2>1, <2>2, WakeTyped
  <2>5. waking' \in [Observers -> [todo : SUBSET Calls, with : {{}} \cup {{g} : g \in Hashes}]]
    BY <2>1
  <2> QED
    BY <2>1, <2>4, <2>5 DEF CallTypeOK, Calling
<1>4. ASSUME NEW c \in Calls, Await(c) PROVE TrackerTypeOK'
  <2>2. CallTypeOK'
    BY <1>4, AwaitTyped
  <2>3. /\ UNCHANGED <<ring, waking>>
        /\ \/ waiters' = waiters
           \/ waiters' = [waiters EXCEPT ![call[c].hash] = @ \cup {c}]
           \/ waiters' = [waiters EXCEPT ![call[c].hash] = @ \ {c}]
    BY <1>4 DEF Await, Enter, Receive, ContextDone, Leave
  <2>4. waiters' \in [Hashes -> SUBSET Calls]
    BY <1>0, <2>3
  <2> QED
    BY <2>2, <2>3, <2>4 DEF CallTypeOK, Calling
<1> QED
  BY <1>1, <1>2, <1>3, <1>4 DEF TrackerNext, Observe

\* Every variable of the tracker keeps its type.
THEOREM TrackerTypeCorrect == TrackerSpec => []TrackerTypeOK
  BY TrackerTypeInit, TrackerTypeStep, PTL DEF TrackerSpec
-----------------------------------------------------------------------------
\* A channel is empty while it is registered ...
RegisteredInv == \A h \in Hashes : \A c \in waiters[h] :
  call[c].hash = h /\ call[c].pc \in {"wait", "remove"} /\ call[c].ch = {}

\* ... or in an observer's hands, and it is in one place only.
TodoInv == \A o \in Observers : \A c \in waking[o].todo :
  /\ call[c].pc # "start" /\ call[c].ch = {} /\ waking[o].with = {call[c].hash}
  /\ \A h \in Hashes : c \notin waiters[h]
  /\ \A p \in Observers : c \in waking[p].todo => p = o

ChannelInv == \A c \in Calls : /\ call[c].pc = "start" => call[c].ch = {}
                               /\ call[c].ch \subseteq {call[c].hash}

\* Who waits and is not registered is about to hear.
HopeInv == \A c \in Calls : call[c].pc = "wait" =>
  \/ c \in waiters[call[c].hash] /\ call[c].hash \notin outcomes
  \/ c \notin waiters[call[c].hash] /\ call[c].ch # {}
  \/ \E o \in Observers : c \in waking[o].todo

WaitInv == RegisteredInv /\ TodoInv /\ ChannelInv /\ HopeInv

LEMMA WaitInvSuffices == TrackerTypeOK /\ WaitInv => NobodyForgotten
<1> SUFFICES ASSUME TrackerTypeOK, WaitInv PROVE NobodyForgotten
  OBVIOUS
<1>1. \A c \in Calls : call[c].hash \in Hashes
  BY DEF TrackerTypeOK
<1> QED
  BY <1>1 DEF WaitInv, RegisteredInv, TodoInv, ChannelInv, HopeInv, NobodyForgotten, InHand,
              Registered, At

LEMMA WaitInvInit == TrackerInit => WaitInv
  BY DEF TrackerInit, WaitInv, RegisteredInv, TodoInv, ChannelInv, HopeInv

LEMMA WaitInvStep ==
  ASSUME TrackerTypeOK, WaitInv, [TrackerNext]_trackerVars
  PROVE  WaitInv'
<1>0. /\ \A c \in Calls : call[c].hash \in Hashes
      /\ \A h \in Hashes : waiters[h] \subseteq Calls
      /\ \A o \in Observers : waking[o].todo \subseteq Calls
  BY DEF TrackerTypeOK
<1>1. CASE UNCHANGED trackerVars
  BY <1>1 DEF trackerVars, ring, WaitInv, RegisteredInv, TodoInv, ChannelInv, HopeInv
<1>2. ASSUME NEW o \in Observers, NEW h \in Hashes, Record(o, h) PROVE WaitInv'
  <2>1. outcomes' \subseteq outcomes \cup {h}
    BY <1>2 DEF Record, Remember, ring
  <2>2. waking[o].todo = {} /\ call' = call
    BY <1>2 DEF Record
  <2>3. /\ waking'[o].todo = waiters[h] /\ waking'[o].with = {h}
        /\ \A p \in Observers : p # o => waking'[p] = waking[p]
    BY <1>2 DEF Record, TrackerTypeOK
  <2>4. waiters'[h] = {} /\ \A g \in Hashes : g # h => waiters'[g] = waiters[g]
    BY <1>2 DEF Record, TrackerTypeOK
  <2>5. RegisteredInv'
    BY <2>2, <2>4 DEF WaitInv, RegisteredInv
  <2>6. TodoInv'
    <3>1. ASSUME NEW p \in Observers, NEW c \in waking'[p].todo
          PROVE  /\ call'[c].pc # "start" /\ call'[c].ch = {} /\ waking'[p].with = {call'[c].hash}
                 /\ \A g \in Hashes : c \notin waiters'[g]
                 /\ \A q \in Observers : c \in waking'[q].todo => q = p
      <4>1. CASE p = o
        <5>1. c \in waiters[h] /\ \A q \in Observers : c \notin waking[q].todo
          BY <2>3, <3>1, <4>1 DEF WaitInv, TodoInv
        <5>2. \A g \in Hashes : c \in waiters[g] => g = h
          BY <5>1 DEF WaitInv, RegisteredInv
        <5> QED
          BY <2>2, <2>3, <2>4, <4>1, <5>1, <5>2 DEF WaitInv, RegisteredInv
      <4>2. CASE p # o
        <5>1. c \in waking[p].todo /\ waking'[p] = waking[p]
          BY <2>3, <3>1, <4>2
        <5>2. \A g \in Hashes : c \notin waiters[g]
          BY <5>1 DEF WaitInv, TodoInv
        <5>3. \A q \in Observers : c \in waking'[q].todo => q = p
          BY <2>3, <5>1, <5>2 DEF WaitInv, TodoInv
        <5> QED
          BY <2>2, <2>4, <5>1, <5>2, <5>3 DEF WaitInv, TodoInv
      <4> QED
        BY <4>1, <4>2
    <3> QED
      BY <3>1 DEF TodoInv
  <2>7. ChannelInv'
    BY <2>2 DEF WaitInv, ChannelInv
  <2>8. HopeInv'
    <3>1. ASSUME NEW c \in Calls, call[c].pc = "wait"
          PROVE  \/ c \in waiters'[call[c].hash] /\ call[c].hash \notin outcomes'
                 \/ c \notin waiters'[call[c].hash] /\ call[c].ch # {}
                 \/ \E p \in Observers : c \in waking'[p].todo
      <4>1. CASE c \in waiters[call[c].hash] /\ call[c].hash \notin outcomes
        BY <1>0, <2>1, <2>3, <2>4, <4>1
      <4>2. CASE c \notin waiters[call[c].hash] /\ call[c].ch # {}
        BY <1>0, <2>4, <4>2
      <4>3. CASE \E p \in Observers : c \in waking[p].todo
        BY <2>2, <2>3, <4>3
      <4> QED
        BY <3>1, <4>1, <4>2, <4>3 DEF WaitInv, HopeInv
    <3> QED
      BY <2>2, <3>1 DEF HopeInv
  <2> QED
    BY <2>5, <2>6, <2>7, <2>8 DEF WaitInv
<1>3. ASSUME NEW o \in Observers, Wake(o) PROVE WaitInv'
  <2>1. PICK c \in waking[o].todo :
          /\ call' = [call EXCEPT ![c].ch = waking[o].with]
          /\ waking' = [waking EXCEPT ![o].todo = @ \ {c}]
    BY <1>3 DEF Wake
  <2>2. c \in Calls /\ UNCHANGED <<outcomes, waiters>>
    BY <1>0, <1>3 DEF Wake, ring
  <2>3. \A d \in Calls : /\ call'[d].pc = call[d].pc /\ call'[d].hash = call[d].hash
                         /\ call'[d].ch = IF d = c THEN {call[c].hash} ELSE call[d].ch
    <3>1. waking[o].with = {call[c].hash}
      BY <2>1 DEF WaitInv, TodoInv
    <3> QED
      BY <2>1, <2>2, <3>1 DEF TrackerTypeOK
  <2>4. \A p \in Observers : waking'[p].with = waking[p].with
    BY <2>1 DEF TrackerTypeOK
  <2>5. waking'[o].todo = waking[o].todo \ {c} /\ \A p \in Observers : p # o => waking'[p] = waking[p]
    BY <2>1 DEF TrackerTypeOK
  <2>6. \A p \in Observers : waking'[p].todo = waking[p].todo \ {c}
    BY <2>1, <2>5 DEF WaitInv, TodoInv
  <2>7. \A h \in Hashes : c \notin waiters[h]
    BY <2>1 DEF WaitInv, TodoInv
  <2>8. RegisteredInv'
    BY <1>0, <2>2, <2>3, <2>7 DEF WaitInv, RegisteredInv
  <2>9. TodoInv'
    BY <1>0, <2>2, <2>3, <2>4, <2>6 DEF WaitInv, TodoInv
  <2>10. ChannelInv'
    BY <2>1, <2>3 DEF WaitInv, ChannelInv, TodoInv
  <2>11. HopeInv'
    BY <1>0, <2>2, <2>3, <2>6, <2>7 DEF WaitInv, HopeInv
  <2> QED
    BY <2>8, <2>9, <2>10, <2>11 DEF WaitInv
<1>4. ASSUME NEW c \in Calls, Enter(c) PROVE WaitInv'
  <2>1. call[c].pc = "start" /\ UNCHANGED <<outcomes, waking>>
    BY <1>4 DEF Enter, ring, At
  <2>2. /\ \A h \in Hashes : c \notin waiters[h]
        /\ \A o \in Observers : c \notin waking[o].todo
    BY <2>1 DEF WaitInv, RegisteredInv, TodoInv
  <2>3. CASE call[c].hash \in outcomes
    <3>1. /\ \A d \in Calls : /\ call'[d].pc = (IF d = c THEN "done" ELSE call[d].pc)
                              /\ call'[d].hash = call[d].hash /\ call'[d].ch = call[d].ch
          /\ waiters' = waiters
      BY <1>4, <2>3 DEF Enter, Finish, TrackerTypeOK
    <3> QED
      BY <1>0, <2>1, <2>2, <3>1 DEF WaitInv, RegisteredInv, TodoInv, ChannelInv, HopeInv
  <2>4. CASE call[c].hash \notin outcomes
    <3>1. call' = [call EXCEPT ![c].pc = "wait"]
          /\ waiters' = [waiters EXCEPT ![call[c].hash] = @ \cup {c}]
      BY <1>4, <2>4 DEF Enter
    <3>2. /\ call'[c].pc = "wait" /\ \A d \in Calls : d # c => call'[d] = call[d]
          /\ \A d \in Calls : call'[d].hash = call[d].hash /\ call'[d].ch = call[d].ch
      BY <3>1 DEF TrackerTypeOK
    <3>3. /\ waiters'[call[c].hash] = waiters[call[c].hash] \cup {c}
          /\ \A h \in Hashes : h # call[c].hash => waiters'[h] = waiters[h]
      BY <1>0, <3>1 DEF TrackerTypeOK
    <3>8. \A h \in Hashes : \A d \in waiters'[h] : d \in waiters[h] \/ (d = c /\ h = call[c].hash)
      BY <1>0, <3>3
    <3>4. RegisteredInv'
      BY <1>0, <2>1, <3>2, <3>8 DEF WaitInv, RegisteredInv, ChannelInv
    <3>5. TodoInv'
      BY <1>0, <2>1, <2>2, <3>2, <3>8 DEF WaitInv, TodoInv
    <3>6. ChannelInv'
      BY <3>2 DEF WaitInv, ChannelInv
    <3>7. HopeInv'
      <4>1. ASSUME NEW d \in Calls, call'[d].pc = "wait", d # c
            PROVE  \/ d \in waiters[call[d].hash] /\ call[d].hash \notin outcomes
                   \/ d \notin waiters[call[d].hash] /\ call[d].ch # {}
                   \/ \E o \in Observers : d \in waking[o].todo
        BY <3>2, <4>1 DEF WaitInv, HopeInv
      <4>2. \A d \in Calls : d # c => (d \in waiters'[call[d].hash] <=> d \in waiters[call[d].hash])
        BY <1>0, <3>3
      <4> QED
        BY <2>1, <2>4, <3>2, <3>3, <4>1, <4>2 DEF HopeInv
    <3> QED
      BY <3>4, <3>5, <3>6, <3>7 DEF WaitInv
  <2> QED
    BY <2>3, <2>4
<1>5. ASSUME NEW c \in Calls, Receive(c) PROVE WaitInv'
  <2>1. call' = [call EXCEPT ![c].pc = "done", ![c].ch = {}, ![c].result = "outcome"]
    BY <1>5 DEF Receive
  <2>0. call[c].pc = "wait" /\ call[c].ch # {} /\ UNCHANGED <<outcomes, waiters, waking>>
    BY <1>5 DEF Receive, ring, At
  <2>2. /\ call'[c].pc = "done" /\ call'[c].ch = {} /\ call'[c].hash = call[c].hash
        /\ \A d \in Calls : d # c => call'[d] = call[d]
    BY <2>1 DEF TrackerTypeOK
  <2>3. /\ \A h \in Hashes : c \notin waiters[h]
        /\ \A o \in Observers : c \notin waking[o].todo
    BY <2>0 DEF WaitInv, RegisteredInv, TodoInv
  <2>4. RegisteredInv'
    BY <1>0, <2>0, <2>2, <2>3 DEF WaitInv, RegisteredInv
  <2>5. TodoInv'
    BY <1>0, <2>0, <2>2, <2>3 DEF WaitInv, TodoInv
  <2>6. ChannelInv'
    BY <2>2 DEF WaitInv, ChannelInv
  <2>7. HopeInv'
    <3>1. \A d \in Calls : call'[d].pc = "wait" => d # c
      BY <2>2
    <3> QED
      BY <2>0, <2>2, <3>1 DEF WaitInv, HopeInv
  <2> QED
    BY <2>4, <2>5, <2>6, <2>7 DEF WaitInv
<1>6. ASSUME NEW c \in Calls, ContextDone(c) PROVE WaitInv'
  <2>1. call[c].pc = "wait" /\ UNCHANGED <<outcomes, waiters, waking>>
    BY <1>6 DEF ContextDone, ring, At
  <2>2. \A d \in Calls : /\ call'[d].pc = (IF d = c THEN "remove" ELSE call[d].pc)
                         /\ call'[d].hash = call[d].hash /\ call'[d].ch = call[d].ch
    BY <1>6 DEF ContextDone, TrackerTypeOK
  <2> QED
    BY <1>0, <2>1, <2>2 DEF WaitInv, RegisteredInv, TodoInv, ChannelInv, HopeInv
<1>7. ASSUME NEW c \in Calls, Leave(c) PROVE WaitInv'
  <2>1. /\ call' = [call EXCEPT ![c].pc = "done", ![c].result = "error"]
        /\ waiters' = [waiters EXCEPT ![call[c].hash] = @ \ {c}]
    BY <1>7 DEF Leave, Finish
  <2>0. call[c].pc = "remove" /\ UNCHANGED <<outcomes, waking>>
    BY <1>7 DEF Leave, ring, At
  <2>2. /\ call'[c].pc = "done" /\ \A d \in Calls : d # c => call'[d] = call[d]
        /\ \A d \in Calls : call'[d].hash = call[d].hash /\ call'[d].ch = call[d].ch
    BY <2>1 DEF TrackerTypeOK
  <2>3. /\ waiters'[call[c].hash] = waiters[call[c].hash] \ {c}
        /\ \A h \in Hashes : h # call[c].hash => waiters'[h] = waiters[h]
    BY <1>0, <2>1 DEF TrackerTypeOK
  <2>4. \A h \in Hashes : c \in waiters[h] => h = call[c].hash
    BY DEF WaitInv, RegisteredInv
  <2>5. \A h \in Hashes : \A d \in waiters'[h] : d \in waiters[h] /\ d # c
    BY <1>0, <2>3, <2>4
  <2>6. RegisteredInv'
    BY <1>0, <2>2, <2>5 DEF WaitInv, RegisteredInv
  <2>7. TodoInv'
    <3>1. \A d \in Calls : d = c \/ call'[d] = call[d]
      BY <2>2
    <3> QED
      BY <1>0, <2>0, <2>2, <2>5, <3>1 DEF WaitInv, TodoInv
  <2>8. ChannelInv'
    BY <2>2 DEF WaitInv, ChannelInv
  <2>9. \A d \in Calls : d # c => (d \in waiters'[call[d].hash] <=> d \in waiters[call[d].hash])
    BY <1>0, <2>3
  <2>10. HopeInv'
    <3>1. \A d \in Calls : call'[d].pc = "wait" => d # c
      BY <2>2
    <3> QED
      BY <1>0, <2>0, <2>2, <2>9, <3>1 DEF WaitInv, HopeInv
  <2> QED
    BY <2>6, <2>7, <2>8, <2>10 DEF WaitInv
<1> QED
  BY <1>1, <1>2, <1>3, <1>4, <1>5, <1>6, <1>7 DEF TrackerNext, Observe, Await

\* Who waits is registered, or his outcome is on its way; no observer is ever held up.
THEOREM TrackerForgetsNobody == TrackerSpec => []NobodyForgotten
<1>1. TrackerTypeOK /\ WaitInv /\ [TrackerNext]_trackerVars => WaitInv'
  BY WaitInvStep
<1> QED
  BY <1>1, WaitInvInit, WaitInvSuffices, TrackerTypeCorrect, PTL DEF TrackerSpec
-----------------------------------------------------------------------------
\* Where the ring holds the k-th oldest hash, and how many older ones there were.
Position(k) == IF head + k <= maxEntries THEN head + k ELSE head + k - maxEntries
Evicted == Len(recorded) - Len(order)

\* The ring holds the newest hashes in the order they were recorded, each once.
RingInv ==
  /\ Evicted >= 0 /\ (Len(order) < maxEntries => head = 0 /\ Evicted = 0)
  /\ \A k \in 1..Len(order) : order[Position(k)] = recorded[Evicted + k]
  /\ \A j, k \in 1..Len(order) : recorded[Evicted + j] = recorded[Evicted + k] => j = k
  /\ \A h \in Hashes : h \in outcomes <=> \E k \in 1..Len(order) : h = recorded[Evicted + k]

LEMMA RingInvInit == TrackerInit => RingInv
  BY TrackerAssumption DEF TrackerInit, RingInv, Evicted

LEMMA RingInvSuffices == TrackerTypeOK /\ RingInv => RingIsNewest
<1> SUFFICES ASSUME TrackerTypeOK, RingInv PROVE RingIsNewest
  OBVIOUS
<1> DEFINE n == Len(recorded)
           oldest == IF n > maxEntries THEN n - maxEntries + 1 ELSE 1
<1>1. /\ n \in Nat /\ Len(order) \in Nat /\ Len(order) <= maxEntries /\ maxEntries \in Nat
      /\ outcomes \subseteq Hashes /\ \A i \in 1..n : recorded[i] \in Hashes
  BY TrackerAssumption DEF TrackerTypeOK
<1>2. Evicted + 1 = oldest /\ Evicted + Len(order) = n /\ Evicted \in Nat
  <2>1. Evicted >= 0 /\ (Len(order) < maxEntries => Evicted = 0)
    BY DEF RingInv
  <2> QED
    BY <1>1, <2>1 DEF Evicted
<1>3. ASSUME NEW h \in Hashes
      PROVE  (\E k \in 1..Len(order) : h = recorded[Evicted + k]) <=> \E i \in oldest..n : h = recorded[i]
  <2>1. ASSUME NEW k \in 1..Len(order), h = recorded[Evicted + k] PROVE \E i \in oldest..n : h = recorded[i]
    <3>1. Evicted + k \in oldest..n
      BY <1>1, <1>2
    <3> QED
      BY <2>1, <3>1
  <2>2. ASSUME NEW i \in oldest..n, h = recorded[i] PROVE \E k \in 1..Len(order) : h = recorded[Evicted + k]
    <3>1. i - Evicted \in 1..Len(order) /\ Evicted + (i - Evicted) = i
      BY <1>1, <1>2
    <3> QED
      BY <2>2, <3>1
  <2> QED
    BY <2>1, <2>2
<1>4. \A i \in oldest..n : recorded[i] \in Hashes
  BY <1>1
<1>5. outcomes = {recorded[i] : i \in oldest..n}
  BY <1>1, <1>3, <1>4 DEF RingInv
<1> QED
  BY <1>5 DEF RingIsNewest

LEMMA RingInvStep ==
  ASSUME TrackerTypeOK, RingInv, NEW h \in Hashes, Remember(h)
  PROVE  RingInv'
<1>1. CASE h \in outcomes
  BY <1>1 DEF Remember, ring, RingInv, Evicted, Position
<1>2. CASE h \notin outcomes /\ Len(order) < maxEntries
  <2>1. order' = Append(order, h) /\ recorded' = Append(recorded, h)
        /\ outcomes' = outcomes \cup {h} /\ head' = head
    BY <1>2 DEF Remember
  <2>2. head = 0 /\ Evicted = 0 /\ Len(recorded) = Len(order) /\ Len(order) \in Nat /\ maxEntries \in Nat
    BY <1>2, TrackerAssumption DEF RingInv, Evicted, TrackerTypeOK
  <2>3. /\ Len(order') = Len(order) + 1 /\ Len(recorded') = Len(order) + 1
        /\ recorded'[Len(order) + 1] = h /\ order'[Len(order) + 1] = h
        /\ \A k \in 1..Len(order) : order'[k] = order[k] /\ recorded'[k] = recorded[k]
    BY <2>1, <2>2, AppendProperties DEF TrackerTypeOK
  <2>4. Evicted' = 0 /\ \A k \in 1..Len(order') : Position(k)' = k
    BY <1>2, <2>1, <2>2, <2>3 DEF Evicted, Position
  <2>5. \A k \in 1..Len(order) : order[k] = recorded[k] /\ recorded[k] \in outcomes
    <3>1. \A k \in 1..Len(order) : Position(k) = k /\ Evicted + k = k /\ recorded[k] \in Hashes
      BY <1>2, <2>2 DEF Position, TrackerTypeOK
    <3> QED
      BY <3>1 DEF RingInv
  <2>6. \A k \in 1..Len(order') : order'[Position(k)'] = recorded'[Evicted' + k]
    BY <2>2, <2>3, <2>4, <2>5
  <2>7. \A j, k \in 1..Len(order) : recorded[j] = recorded[k] => j = k
    BY <2>2 DEF RingInv
  <2>8. \A j, k \in 1..Len(order') : recorded'[Evicted' + j] = recorded'[Evicted' + k] => j = k
    BY <1>2, <2>2, <2>3, <2>4, <2>5, <2>7
  <2>9. \A g \in Hashes : g \in outcomes <=> \E k \in 1..Len(order) : g = recorded[k]
    BY <2>2 DEF RingInv
  <2>10. \A g \in Hashes : g \in outcomes' <=> \E k \in 1..Len(order') : g = recorded'[Evicted' + k]
    BY <2>1, <2>2, <2>3, <2>4, <2>9
  <2> QED
    BY <1>2, <2>1, <2>2, <2>4, <2>6, <2>8, <2>10 DEF RingInv
<1>3. CASE h \notin outcomes /\ ~(Len(order) < maxEntries)
  <2> DEFINE m == maxEntries
  <2>1. order' = [order EXCEPT ![head + 1] = h] /\ head' = (head + 1) % m
        /\ outcomes' = (outcomes \ {order[head + 1]}) \cup {h} /\ recorded' = Append(recorded, h)
    BY <1>3 DEF Remember, ReplaceAt, NextHead
  <2>2. /\ Len(order) = m /\ m \in Nat \ {0} /\ head \in 0..(m - 1) /\ Evicted \in Nat
        /\ Len(recorded) = Evicted + m
    <3>1. Evicted >= 0
      BY DEF RingInv
    <3>2. Len(recorded) \in Nat /\ Len(order) \in Nat /\ Len(order) <= m /\ m \in Nat \ {0}
          /\ head \in 0..(m - 1)
      BY TrackerAssumption DEF TrackerTypeOK
    <3> QED
      BY <1>3, <3>1, <3>2 DEF Evicted
  <2>3. head' = IF head + 1 < m THEN head + 1 ELSE 0
    <3>1. CASE head + 1 < m
      <4>1. (head + 1) % m = head + 1
        BY <2>2, <3>1
      <4> QED BY <2>1, <3>1, <4>1
    <3>2. CASE ~(head + 1 < m)
      <4>1. head + 1 = m /\ m % m = 0
        BY <2>2, <3>2
      <4> QED BY <2>1, <3>2, <4>1
    <3> QED BY <3>1, <3>2
  <2>4. /\ Len(order') = m /\ order'[head + 1] = h
        /\ \A k \in 1..m : k # head + 1 => order'[k] = order[k]
    BY <2>1, <2>2, ExceptSeq DEF TrackerTypeOK
  <2>5. /\ Len(recorded') = Evicted + m + 1 /\ recorded'[Evicted + m + 1] = h
        /\ \A k \in 1..(Evicted + m) : recorded'[k] = recorded[k]
    <3>1. recorded \in Seq(Hashes)
      BY DEF TrackerTypeOK
    <3>2. /\ Len(recorded') = Len(recorded) + 1 /\ recorded'[Len(recorded) + 1] = h
          /\ \A k \in 1..Len(recorded) : recorded'[k] = recorded[k]
      BY <2>1, <3>1, AppendProperties
    <3> QED
      BY <2>2, <3>2
  <2>6. Evicted' = Evicted + 1
    BY <2>2, <2>4, <2>5 DEF Evicted
  <2>7. /\ Position(m)' = head + 1
        /\ \A k \in 1..(m - 1) : /\ Position(k)' = Position(k + 1) /\ Position(k + 1) # head + 1
                                 /\ Position(k + 1) \in 1..m
        /\ Position(1) = head + 1
    BY <2>2, <2>3 DEF Position
  <2>8. \A k \in 1..(m - 1) : recorded'[Evicted' + k] = recorded[Evicted + (k + 1)]
    <3> SUFFICES ASSUME NEW k \in 1..(m - 1)
                 PROVE  recorded'[Evicted' + k] = recorded[Evicted + (k + 1)]
      OBVIOUS
    <3>1. PICK j : j = Evicted + (k + 1)
      OBVIOUS
    <3>2. Evicted' + k = j /\ j \in 1..(Evicted + m)
      BY <2>2, <2>6, <3>1
    <3>3. recorded'[j] = recorded[j]
      BY <2>5, <3>2
    <3> QED BY <3>1, <3>2, <3>3
  <2>9. recorded'[Evicted' + m] = h
    BY <2>2, <2>5, <2>6
  <2>10. \A k \in 1..m : recorded[Evicted + k] \in Hashes /\ recorded[Evicted + k] \in outcomes
                         /\ recorded[Evicted + k] # h
    <3>1. \A k \in 1..m : Evicted + k \in 1..Len(recorded)
      BY <2>2
    <3>2. \A i \in 1..Len(recorded) : recorded[i] \in Hashes
      BY DEF TrackerTypeOK
    <3>3. \A k \in 1..m : recorded[Evicted + k] \in Hashes
      BY <3>1, <3>2
    <3>4. \A k \in 1..m : recorded[Evicted + k] \in outcomes
      BY <2>2, <3>3 DEF RingInv
    <3> QED
      BY <1>3, <3>3, <3>4
  <2>11. \A k \in 1..Len(order') : order'[Position(k)'] = recorded'[Evicted' + k]
    <3>1. \A k \in 1..(m - 1) : order[Position(k + 1)] = recorded[Evicted + (k + 1)]
      <4>1. \A k \in 1..(m - 1) : k + 1 \in 1..Len(order)
        BY <2>2
      <4> QED
        BY <4>1 DEF RingInv
    <3>2. \A k \in 1..(m - 1) : order'[Position(k)'] = recorded'[Evicted' + k]
      BY <2>4, <2>7, <2>8, <3>1
    <3>3. order'[Position(m)'] = recorded'[Evicted' + m]
      BY <2>4, <2>7, <2>9
    <3> QED
      BY <2>2, <2>4, <3>2, <3>3
  <2>12. \A j, k \in 1..m : recorded[Evicted + j] = recorded[Evicted + k] => j = k
    BY <2>2 DEF RingInv
  <2>13. \A j, k \in 1..Len(order') : recorded'[Evicted' + j] = recorded'[Evicted' + k] => j = k
    <3>1. ASSUME NEW j \in 1..m, NEW k \in 1..m, recorded'[Evicted' + j] = recorded'[Evicted' + k]
          PROVE  j = k
      <4>1. CASE j # m /\ k # m
        <5>1. j \in 1..(m - 1) /\ k \in 1..(m - 1) /\ j + 1 \in 1..m /\ k + 1 \in 1..m
          BY <2>2, <4>1
        <5>2. recorded[Evicted + (j + 1)] = recorded[Evicted + (k + 1)]
          BY <2>8, <3>1, <5>1
        <5>3. j + 1 = k + 1
          BY <2>12, <5>1, <5>2
        <5> QED
          BY <2>2, <5>3
      <4>2. ASSUME NEW i \in 1..m, i # m PROVE recorded'[Evicted' + i] # h
        <5>1. i \in 1..(m - 1) /\ i + 1 \in 1..m
          BY <2>2, <4>2
        <5> QED
          BY <2>8, <2>10, <5>1
      <4>3. CASE j = m \/ k = m
        BY <2>9, <3>1, <4>2, <4>3
      <4> QED
        BY <4>1, <4>3
    <3> QED
      BY <2>4, <3>1
  <2>14. order[head + 1] = recorded[Evicted + 1]
    <3>1. 1 \in 1..Len(order)
      BY <2>2
    <3>2. order[Position(1)] = recorded[Evicted + 1]
      BY <3>1 DEF RingInv
    <3> QED
      BY <2>7, <3>2
  <2>15. ASSUME NEW g \in Hashes
         PROVE  g \in outcomes' <=> \E k \in 1..Len(order') : g = recorded'[Evicted' + k]
    <3>1. g \in outcomes <=> \E k \in 1..m : g = recorded[Evicted + k]
      BY <2>2 DEF RingInv
    <3>2. g \in outcomes' <=> (g \in outcomes /\ g # recorded[Evicted + 1]) \/ g = h
      BY <2>1, <2>14
    <3>3. (g \in outcomes /\ g # recorded[Evicted + 1]) <=> \E k \in 1..(m - 1) : g = recorded[Evicted + (k + 1)]
      <4>1. ASSUME NEW k \in 1..m, g = recorded[Evicted + k], g # recorded[Evicted + 1]
            PROVE  \E j \in 1..(m - 1) : g = recorded[Evicted + (j + 1)]
        <5>1. k - 1 \in 1..(m - 1) /\ Evicted + ((k - 1) + 1) = Evicted + k
          BY <2>2, <4>1
        <5> QED
          BY <4>1, <5>1
      <4>2. ASSUME NEW k \in 1..(m - 1), g = recorded[Evicted + (k + 1)]
            PROVE  g \in outcomes /\ g # recorded[Evicted + 1]
        <5>1. k + 1 \in 1..m /\ 1 \in 1..m /\ k + 1 # 1
          BY <2>2, <4>2
        <5>2. g \in outcomes
          BY <2>10, <4>2, <5>1
        <5>3. recorded[Evicted + (k + 1)] # recorded[Evicted + 1]
          BY <2>12, <5>1
        <5> QED
          BY <4>2, <5>2, <5>3
      <4> QED
        BY <3>1, <4>1, <4>2
    <3>4. (\E k \in 1..m : g = recorded'[Evicted' + k])
            <=> (\E k \in 1..(m - 1) : g = recorded[Evicted + (k + 1)]) \/ g = h
      <4>1. 1..m = 1..(m - 1) \cup {m}
        BY <2>2
      <4>2. (\E k \in 1..m : g = recorded'[Evicted' + k])
              <=> (\E k \in 1..(m - 1) : g = recorded'[Evicted' + k]) \/ g = recorded'[Evicted' + m]
        BY <4>1, Zenon
      <4> QED
        BY <2>8, <2>9, <4>2
    <3> QED
      BY <2>4, <3>2, <3>3, <3>4
  <2>16. Evicted' >= 0 /\ ~(Len(order') < maxEntries)
    BY <2>2, <2>4, <2>6
  <2> QED
    BY <2>11, <2>13, <2>15, <2>16 DEF RingInv
<1> QED
  BY <1>1, <1>2, <1>3

\* The map holds the newest outcomes, whatever is repeated and however often the ring wraps.
THEOREM RingKeepsNewest == TrackerSpec => []RingIsNewest
<1>1. TrackerTypeOK /\ RingInv /\ [TrackerNext]_trackerVars => RingInv'
  <2> SUFFICES ASSUME TrackerTypeOK, RingInv, [TrackerNext]_trackerVars PROVE RingInv'
    OBVIOUS
  <2>1. ASSUME NEW o \in Observers, NEW h \in Hashes, Record(o, h) PROVE RingInv'
    BY <2>1, RingInvStep DEF Record
  <2>2. CASE UNCHANGED ring
    BY <2>2 DEF ring, RingInv, Evicted, Position
  <2> QED
    <3>1. ASSUME NEW o \in Observers, Wake(o) PROVE UNCHANGED ring
      BY <3>1 DEF Wake
    <3>2. ASSUME NEW c \in Calls, Await(c) PROVE UNCHANGED ring
      BY <3>2 DEF Await, Enter, Receive, ContextDone, Leave
    <3>3. CASE UNCHANGED trackerVars
      BY <2>2, <3>3 DEF trackerVars, ring
    <3> QED
      BY <2>1, <2>2, <3>1, <3>2, <3>3 DEF TrackerNext, Observe
<1> QED
  BY <1>1, RingInvInit, RingInvSuffices, TrackerTypeCorrect, PTL DEF TrackerSpec
-----------------------------------------------------------------------------
(***************************************************************************)
(* The local order book, for any prices and sizes, any depth, and any      *)
(* number of deltas, whichever of them are lost.                           *)
(***************************************************************************)
\* The order of a side is strict and total on prices.
LEMMA SidesAreOrders ==
  ASSUME NEW side \in Sides, NEW p \in Prices, NEW q \in Prices, NEW r \in Prices
  PROVE  /\ Before(side, p, q) /\ Before(side, q, r) => Before(side, p, r)
         /\ ~(Before(side, p, q) /\ Before(side, q, p)) /\ ~Before(side, p, p)
         /\ Before(side, p, q) \/ p = q \/ Before(side, q, p)
  BY BookAssumption DEF Before, Prices

LEMMA LevelFacts ==
  ASSUME NEW l \in Levels
  PROVE  /\ l.price \in Prices /\ l.size \in 0..MaxSize
         /\ \A m \in Levels : m.price = l.price /\ m.size = l.size => m = l
  BY DEF Levels

\* The search finds where the levels before the price end.
LEMMA PlaceSplits ==
  ASSUME NEW side \in Sides, NEW s \in Seq(Levels), InOrder(s, side), NEW p \in Prices
  PROVE  /\ Place(s, side, p) \in 1..(Len(s) + 1)
         /\ \A i \in 1..Len(s) : i < Place(s, side, p) <=> Before(side, s[i].price, p)
<1> DEFINE B == {i \in 1..Len(s) : Before(side, s[i].price, p)}
<1>0. Len(s) \in Nat /\ \A i \in 1..Len(s) : s[i].price \in Prices
  BY LevelFacts
<1>1. ASSUME NEW i \in 1..Len(s), NEW j \in B, i < j PROVE i \in B
  <2>1. Before(side, s[i].price, s[j].price) /\ Before(side, s[j].price, p)
    BY <1>1 DEF InOrder
  <2> QED
    BY <1>0, <1>1, <2>1, SidesAreOrders
<1>2. \E k \in 0..Len(s) : B = 1..k
  <2>1. CASE B = {}
    <3>1. 0 \in 0..Len(s) /\ 1..0 = {}
      BY <1>0
    <3> QED
      BY <2>1, <3>1
  <2>2. CASE B # {}
    <3>1. Max(B) \in B /\ \A y \in B : y <= Max(B)
      <4>1. B \in SUBSET (1..Len(s))
        OBVIOUS
      <4> HIDE DEF B
      <4> QED
        BY <1>0, <2>2, <4>1, MaxOfIndices
    <3>2. Max(B) \in 1..Len(s)
      BY <3>1
    <3>3. ASSUME NEW i \in 1..Len(s) PROVE i \in B <=> i <= Max(B)
      <4>1. i < Max(B) => i \in B
        BY <1>1, <3>1
      <4>2. i \in B => i <= Max(B)
        BY <3>1
      <4> HIDE DEF B
      <4> QED
        BY <1>0, <3>1, <3>2, <4>1, <4>2
    <3> DEFINE m == Max(B)
    <3>4. m \in 0..Len(s) /\ \A i \in 1..Len(s) : i \in B <=> i <= m
      BY <1>0, <3>2, <3>3
    <3>5. \A i \in B : i \in 1..Len(s)
      OBVIOUS
    <3> HIDE DEF m, B
    <3>6. B = 1..m
      <4>1. \A x \in B : x \in 1..m
        BY <1>0, <3>4, <3>5
      <4>2. ASSUME NEW x \in 1..m PROVE x \in B
        <5>1. x \in 1..Len(s) /\ x <= m
          BY <1>0, <3>4
        <5> QED
          BY <3>4, <5>1
      <4> QED
        BY <4>1, <4>2
    <3> QED
      BY <3>4, <3>6
  <2> QED
    BY <2>1, <2>2
<1>3. PICK k \in 0..Len(s) : B = 1..k
  BY <1>2
<1>4. Cardinality(B) = k
  <2>1. k \in Nat /\ 1 \in Int /\ k \in Int
    BY <1>0
  <2>2. Cardinality(1..k) = IF 1 > k THEN 0 ELSE k - 1 + 1
    BY <2>1, FS_Interval
  <2> HIDE DEF B
  <2> QED
    BY <1>3, <2>1, <2>2
<1>5. Place(s, side, p) = 1 + k
  BY <1>4 DEF Place
<1>6. \A i \in 1..Len(s) : i \in 1..k <=> Before(side, s[i].price, p)
  BY <1>3
<1> QED
  BY <1>0, <1>5, <1>6

\* One level of a delta replaces, adds or removes the level of its price, and
\* nothing else, and keeps the order.
Set(s) == {s[i] : i \in 1..Len(s)}
LevelSet(levels, level) ==
  {l \in levels : l.price # level.price} \cup (IF level.size = 0 THEN {} ELSE {level})

LEMMA ApplyLevelKeepsOrder ==
  ASSUME NEW side \in Sides, NEW s \in Seq(Levels), InOrder(s, side), NEW level \in Levels
  PROVE  /\ ApplyLevel(s, side, level) \in Seq(Levels)
         /\ InOrder(ApplyLevel(s, side, level), side)
         /\ Set(ApplyLevel(s, side, level)) = LevelSet(Set(s), level)
<1> DEFINE n == Len(s)
           p == level.price
           k == Place(s, side, p)
           found == k <= n /\ s[k].price = p
           t == ApplyLevel(s, side, level)
<1>0. n \in Nat /\ p \in Prices /\ \A i \in 1..n : s[i] \in Levels /\ s[i].price \in Prices
  BY LevelFacts
<1>1. k \in 1..(n + 1) /\ \A i \in 1..n : i < k <=> Before(side, s[i].price, p)
  BY <1>0, PlaceSplits
<1>2. \A i \in 1..n : i > k => Before(side, p, s[i].price)
  <2> SUFFICES ASSUME NEW i \in 1..n, i > k PROVE Before(side, p, s[i].price)
    OBVIOUS
  <2>1. k \in 1..n /\ Before(side, s[k].price, s[i].price)
    BY <1>0, <1>1 DEF InOrder
  <2>2. ~Before(side, s[k].price, p)
    BY <1>1, <2>1
  <2> QED
    BY <1>0, <2>1, <2>2, SidesAreOrders
<1>3. ~found => \A i \in 1..n : i >= k => Before(side, p, s[i].price)
  <2> SUFFICES ASSUME ~found, NEW i \in 1..n, i >= k PROVE Before(side, p, s[i].price)
    OBVIOUS
  <2>1. CASE i > k
    BY <1>2, <2>1
  <2>2. CASE i = k
    <3>1. s[i].price # p /\ ~Before(side, s[i].price, p)
      BY <1>1, <2>2
    <3> QED
      BY <1>0, <3>1, SidesAreOrders
  <2> QED
    BY <1>0, <1>1, <2>1, <2>2
<1>4. \A i \in 1..n : (i < k \/ i > k \/ ~found) => s[i].price # p
  <2> SUFFICES ASSUME NEW i \in 1..n, i < k \/ i > k \/ ~found PROVE s[i].price # p
    OBVIOUS
  <2>1. Before(side, s[i].price, p) \/ Before(side, p, s[i].price)
    BY <1>0, <1>1, <1>2, <1>3
  <2> QED
    BY <1>0, <2>1, SidesAreOrders
<1>5. \A i, j \in 1..n : i < j => Before(side, s[i].price, s[j].price)
  BY DEF InOrder
<1>6. \A l : l \in LevelSet(Set(s), level) <=>
        (\E i \in 1..n : l = s[i] /\ s[i].price # p) \/ (level.size # 0 /\ l = level)
  BY DEF LevelSet, Set
<1>7. CASE found /\ level.size = 0
  <2>1. t = SubSeq(s, 1, k - 1) \o SubSeq(s, k + 1, n)
    BY <1>7 DEF ApplyLevel, RemoveAt
  <2>2. /\ SubSeq(s, 1, k - 1) \in Seq(Levels) /\ Len(SubSeq(s, 1, k - 1)) = k - 1
        /\ \A i \in 1..(k - 1) : SubSeq(s, 1, k - 1)[i] = s[i]
    BY <1>0, <1>1
  <2>3. /\ SubSeq(s, k + 1, n) \in Seq(Levels) /\ Len(SubSeq(s, k + 1, n)) = n - k
        /\ \A i \in 1..(n - k) : SubSeq(s, k + 1, n)[i] = s[i + k]
    BY <1>0, <1>1, <1>7
  <2>4. /\ t \in Seq(Levels) /\ Len(t) = n - 1
        /\ \A i \in 1..(n - 1) : t[i] = IF i < k THEN s[i] ELSE s[i + 1]
    <3> DEFINE u == SubSeq(s, 1, k - 1)
               v == SubSeq(s, k + 1, n)
    <3>1. t = u \o v
      BY <2>1
    <3>2. u \in Seq(Levels) /\ v \in Seq(Levels)
      BY <2>2, <2>3
    <3> HIDE DEF u, v, t
    <3>3. /\ u \o v \in Seq(Levels) /\ Len(u \o v) = Len(u) + Len(v)
          /\ \A i \in 1..(Len(u) + Len(v)) :
               (u \o v)[i] = IF i <= Len(u) THEN u[i] ELSE v[i - Len(u)]
      BY <3>2, ConcatProperties
    <3>4. Len(u) = k - 1 /\ \A i \in 1..(k - 1) : u[i] = s[i]
      BY <2>2 DEF u
    <3>5. Len(v) = n - k /\ \A i \in 1..(n - k) : v[i] = s[i + k]
      BY <2>3 DEF v
    <3> HIDE DEF k
    <3>6. k \in 1..n
      BY <1>0, <1>1, <1>7
    <3>7. Len(u) + Len(v) = n - 1
      BY <1>0, <3>4, <3>5, <3>6
    <3>8. ASSUME NEW i \in 1..(n - 1) PROVE t[i] = IF i < k THEN s[i] ELSE s[i + 1]
      <4>1. CASE i < k
        <5>1. i <= Len(u) /\ i \in 1..(k - 1)
          BY <1>0, <3>4, <3>6, <4>1
        <5> QED
          BY <3>1, <3>3, <3>4, <3>7, <4>1, <5>1
      <4>2. CASE ~(i < k)
        <5>1. ~(i <= Len(u)) /\ i - Len(u) \in 1..(n - k) /\ (i - Len(u)) + k = i + 1
          BY <1>0, <3>4, <3>6, <4>2
        <5> QED
          BY <3>1, <3>3, <3>5, <3>7, <4>2, <5>1
      <4> QED
        BY <4>1, <4>2
    <3> QED
      BY <3>1, <3>3, <3>7, <3>8
  <2> HIDE DEF t
  <2>5. InOrder(t, side)
    <3> SUFFICES ASSUME NEW i \in 1..Len(t), NEW j \in 1..Len(t), i < j
                 PROVE  Before(side, t[i].price, t[j].price)
      BY DEF InOrder
    <3> DEFINE a == IF i < k THEN i ELSE i + 1
               b == IF j < k THEN j ELSE j + 1
    <3>1. a \in 1..n /\ b \in 1..n /\ a < b /\ t[i] = s[a] /\ t[j] = s[b]
      BY <1>0, <1>1, <2>4
    <3> QED
      BY <1>5, <3>1
  <2>6. ASSUME NEW l PROVE l \in Set(t) <=> \E i \in 1..n : l = s[i] /\ s[i].price # p
    <3>1. ASSUME NEW i \in 1..Len(t), l = t[i] PROVE \E j \in 1..n : l = s[j] /\ s[j].price # p
      <4> DEFINE a == IF i < k THEN i ELSE i + 1
      <4>1. a \in 1..n /\ t[i] = s[a] /\ (a < k \/ a > k)
        BY <1>0, <1>1, <2>4
      <4> QED
        BY <1>4, <3>1, <4>1
    <3>2. ASSUME NEW j \in 1..n, l = s[j], s[j].price # p PROVE \E i \in 1..Len(t) : l = t[i]
      <4> DEFINE a == IF j < k THEN j ELSE j - 1
      <4>1. j # k
        BY <1>7, <3>2
      <4>2. a \in 1..Len(t) /\ t[a] = s[j]
        BY <1>0, <1>1, <1>7, <2>4, <4>1
      <4> QED
        BY <3>2, <4>2
    <3> QED
      BY <3>1, <3>2 DEF Set
  <2>7. Set(t) = LevelSet(Set(s), level)
    <3>1. \A l : l \in Set(t) <=> l \in LevelSet(Set(s), level)
      <4>1. level.size = 0
        BY <1>7
      <4> QED BY <1>6, <2>6, <4>1, Zenon
    <3> QED BY <3>1, Zenon
  <2> QED
    BY <2>4, <2>5, <2>7 DEF t
<1>8. CASE found /\ level.size # 0
  <2>1. t = [s EXCEPT ![k] = level]
    BY <1>8 DEF ApplyLevel, ReplaceAt
  <2>2. /\ t \in Seq(Levels) /\ Len(t) = n
        /\ \A i \in 1..n : t[i] = IF i = k THEN level ELSE s[i]
    BY <1>0, <1>1, <1>8, <2>1, ExceptSeq
  <2> HIDE DEF t
  <2>3. InOrder(t, side)
    <3> SUFFICES ASSUME NEW i \in 1..Len(t), NEW j \in 1..Len(t), i < j
                 PROVE  Before(side, t[i].price, t[j].price)
      BY DEF InOrder
    <3>1. t[i].price = s[i].price /\ t[j].price = s[j].price
      BY <1>8, <2>2
    <3> QED
      BY <1>5, <2>2, <3>1
  <2>4. ASSUME NEW l
        PROVE  l \in Set(t) <=> (\E i \in 1..n : l = s[i] /\ s[i].price # p) \/ l = level
    <3>1. k \in 1..n /\ t[k] = level
      BY <1>0, <1>1, <1>8, <2>2
    <3>2. \A i \in 1..n : s[i].price # p <=> i # k
      BY <1>0, <1>1, <1>4, <1>8
    <3> QED
      BY <2>2, <3>1, <3>2 DEF Set
  <2>5. Set(t) = LevelSet(Set(s), level)
    BY <1>6, <1>8, <2>4
  <2> QED
    BY <2>2, <2>3, <2>5 DEF t
<1>9. CASE ~found /\ level.size = 0
  <2>1. t = s
    BY <1>9 DEF ApplyLevel
  <2>2. \A i \in 1..n : s[i].price # p
    BY <1>4, <1>9
  <2>3. Set(s) = LevelSet(Set(s), level)
    BY <1>6, <1>9, <2>2 DEF Set
  <2> QED
    BY <2>1, <2>3
<1>10. CASE ~found /\ level.size # 0
  <2>1. t = SubSeq(s, 1, k - 1) \o <<level>> \o SubSeq(s, k, n)
    BY <1>10 DEF ApplyLevel, InsertAt
  <2>2. /\ SubSeq(s, 1, k - 1) \in Seq(Levels) /\ Len(SubSeq(s, 1, k - 1)) = k - 1
        /\ \A i \in 1..(k - 1) : SubSeq(s, 1, k - 1)[i] = s[i]
    BY <1>0, <1>1
  <2>3. /\ SubSeq(s, k, n) \in Seq(Levels) /\ Len(SubSeq(s, k, n)) = n - k + 1
        /\ \A i \in 1..(n - k + 1) : SubSeq(s, k, n)[i] = s[i + k - 1]
    BY <1>0, <1>1
  <2>4. /\ t \in Seq(Levels) /\ Len(t) = n + 1
        /\ \A i \in 1..(n + 1) : t[i] = IF i < k THEN s[i] ELSE IF i = k THEN level ELSE s[i - 1]
    <3> DEFINE u == SubSeq(s, 1, k - 1) \o <<level>>
    <3>1. /\ u \in Seq(Levels) /\ Len(u) = k
          /\ \A i \in 1..k : u[i] = IF i < k THEN s[i] ELSE level
      <4> DEFINE w == SubSeq(s, 1, k - 1)
      <4>1. w \in Seq(Levels) /\ Len(w) = k - 1 /\ \A i \in 1..(k - 1) : w[i] = s[i]
        BY <2>2
      <4> HIDE DEF w
      <4>2. /\ Append(w, level) \in Seq(Levels) /\ Len(Append(w, level)) = k
            /\ \A i \in 1..k : Append(w, level)[i] = IF i < k THEN s[i] ELSE level
        BY <1>0, <1>1, <4>1, AppendProperties
      <4>3. Append(w, level) = w \o <<level>>
        BY <4>1, AppendIsConcat
      <4> QED
        BY <4>2, <4>3 DEF w
    <3>2. t = u \o SubSeq(s, k, n)
      BY <2>1
    <3> HIDE DEF u, t
    <3> QED
      BY <1>0, <1>1, <2>3, <3>1, <3>2
  <2> HIDE DEF t
  <2>5. InOrder(t, side)
    <3> SUFFICES ASSUME NEW i \in 1..Len(t), NEW j \in 1..Len(t), i < j
                 PROVE  Before(side, t[i].price, t[j].price)
      BY DEF InOrder
    <3>1. CASE i = k
      <4>1. j - 1 \in 1..n /\ j - 1 >= k /\ t[j] = s[j - 1] /\ t[i] = level
        BY <1>0, <1>1, <2>4, <3>1
      <4> QED
        BY <1>3, <1>10, <4>1
    <3>2. CASE j = k
      <4>1. i \in 1..n /\ i < k /\ t[i] = s[i] /\ t[j] = level
        BY <1>0, <1>1, <2>4, <3>2
      <4> QED
        BY <1>1, <4>1
    <3>3. CASE i # k /\ j # k
      <4> DEFINE a == IF i < k THEN i ELSE i - 1
                 b == IF j < k THEN j ELSE j - 1
      <4>1. a \in 1..n /\ b \in 1..n /\ a < b /\ t[i] = s[a] /\ t[j] = s[b]
        BY <1>0, <1>1, <2>4, <3>3
      <4> QED
        BY <1>5, <4>1
    <3> QED
      BY <3>1, <3>2, <3>3
  <2>6. ASSUME NEW l
        PROVE  l \in Set(t) <=> (\E i \in 1..n : l = s[i] /\ s[i].price # p) \/ l = level
    <3>1. ASSUME NEW i \in 1..Len(t), l = t[i], l # level
          PROVE  \E j \in 1..n : l = s[j] /\ s[j].price # p
      <4> DEFINE a == IF i < k THEN i ELSE i - 1
      <4>1. a \in 1..n /\ t[i] = s[a]
        BY <1>0, <1>1, <2>4, <3>1
      <4> QED
        BY <1>4, <1>10, <3>1, <4>1
    <3>2. ASSUME NEW j \in 1..n, l = s[j] PROVE \E i \in 1..Len(t) : l = t[i]
      <4> DEFINE a == IF j < k THEN j ELSE j + 1
      <4>1. a \in 1..Len(t) /\ t[a] = s[j]
        BY <1>0, <1>1, <2>4
      <4> QED
        BY <3>2, <4>1
    <3>3. k \in 1..Len(t) /\ t[k] = level
      BY <1>0, <1>1, <2>4
    <3> QED
      BY <3>1, <3>2, <3>3 DEF Set
  <2>7. Set(t) = LevelSet(Set(s), level)
    BY <1>6, <1>10, <2>6
  <2> QED
    BY <2>4, <2>5, <2>7 DEF t
<1> QED
  BY <1>7, <1>8, <1>9, <1>10

\* Two sequences in the order of a side with the same levels are the same.
LEMMA InOrderIsDistinct ==
  ASSUME NEW side \in Sides, NEW s \in Seq(Levels), InOrder(s, side),
         NEW i \in 1..Len(s), NEW j \in 1..Len(s), s[i].price = s[j].price
  PROVE  i = j
<1>1. s[i].price \in Prices
  BY LevelFacts
<1>2. ~Before(side, s[i].price, s[j].price) /\ ~Before(side, s[j].price, s[i].price)
  BY <1>1, SidesAreOrders
<1>3. ~(i < j) /\ ~(j < i)
  BY <1>2 DEF InOrder
<1> QED
  BY <1>3

LEMMA SameLevelsAgree ==
  ASSUME NEW side \in Sides, NEW a \in Seq(Levels), NEW b \in Seq(Levels),
         InOrder(a, side), InOrder(b, side), Set(a) = Set(b)
  PROVE  Len(a) <= Len(b) /\ \A i \in 1..Len(a) : a[i] = b[i]
<1> DEFINE Agree == {i \in Nat : \A j \in 1..i : j <= Len(b) /\ a[j] = b[j]}
<1>0. Len(a) \in Nat /\ Len(b) \in Nat
  OBVIOUS
<1>1. ASSUME NEW i \in 1..Len(a), i - 1 \in Agree PROVE i \in Agree
  <2>1. PICK k \in 1..Len(b) : b[k] = a[i]
    BY DEF Set
  <2>2. \A j \in 1..(i - 1) : j <= Len(b) /\ a[j] = b[j]
    BY <1>1
  <2>3. k >= i
    <3> SUFFICES ASSUME k < i PROVE FALSE
      OBVIOUS
    <3>1. k \in 1..(i - 1) /\ k \in 1..Len(a)
      OBVIOUS
    <3>2. a[k] = a[i]
      BY <2>1, <2>2, <3>1
    <3> QED
      BY <3>1, <3>2, InOrderIsDistinct
  <2>4. i \in 1..Len(b)
    BY <2>3
  <2>5. PICK m \in 1..Len(a) : a[m] = b[i]
    BY <2>4 DEF Set
  <2>6. m >= i
    <3> SUFFICES ASSUME m < i PROVE FALSE
      OBVIOUS
    <3>1. m \in 1..(i - 1) /\ m \in 1..Len(b)
      BY <2>4
    <3>2. b[m] = b[i]
      BY <2>2, <2>5, <3>1
    <3> QED
      BY <2>4, <3>1, <3>2, InOrderIsDistinct
  <2>7. a[i] = b[i]
    <3> SUFFICES ASSUME k > i, m > i PROVE FALSE
      BY <2>1, <2>3, <2>5, <2>6
    <3>1. Before(side, b[i].price, b[k].price) /\ Before(side, a[i].price, a[m].price)
      BY <2>4 DEF InOrder
    <3>2. a[i].price \in Prices /\ b[i].price \in Prices
      BY <2>4, LevelFacts
    <3> QED
      BY <2>1, <2>5, <3>1, <3>2, SidesAreOrders
  <2>8. ASSUME NEW j \in 1..i PROVE j <= Len(b) /\ a[j] = b[j]
    <3>1. j = i \/ j \in 1..(i - 1)
      OBVIOUS
    <3> QED
      BY <2>2, <2>4, <2>7, <3>1
  <2> QED
    BY <2>8
<1>2. 0 \in Agree
  OBVIOUS
<1>3. Len(a) \in Agree
  <2> HIDE DEF Agree
  <2>1. \A i \in 0..Len(a) : i \in Agree
    BY <1>0, <1>1, <1>2, BoundedInduction
  <2> QED
    BY <1>0, <2>1
<1>4. CASE Len(a) = 0
  BY <1>0, <1>4
<1>5. CASE Len(a) # 0
  <2>1. Len(a) \in 1..Len(a)
    BY <1>0, <1>5
  <2> QED
    BY <1>3, <2>1
<1> QED
  BY <1>4, <1>5

LEMMA SortedIsUnique ==
  ASSUME NEW side \in Sides, NEW a \in Seq(Levels), NEW b \in Seq(Levels),
         InOrder(a, side), InOrder(b, side), Set(a) = Set(b)
  PROVE  a = b
<1>1. Len(a) <= Len(b) /\ \A i \in 1..Len(a) : a[i] = b[i]
  BY SameLevelsAgree
<1>2. Len(b) <= Len(a)
  BY SameLevelsAgree
<1> QED
  BY <1>1, <1>2, SeqEqual

(***************************************************************************)
(* The sorted sequence of a book exists: by inserting, in the order of     *)
(* their prices, one level after the other.                                *)
(***************************************************************************)
Books == {L \in SUBSET Levels : (\A l \in L : l.size # 0) /\ \A l, m \in L : l.price = m.price => l = m}

LEMMA SortedExists ==
  ASSUME NEW side \in Sides, NEW L \in Books
  PROVE  \E s \in Seq(Levels) : InOrder(s, side) /\ Set(s) = L
<1> DEFINE Lists(K) == \E s \in Seq(Levels) : InOrder(s, side) /\ Set(s) = K
           Upto(m) == \A K \in Books : (\A l \in K : l.price <= m) => Lists(K)
           Done == {m \in Nat : Upto(m)}
<1>0. \A K \in Books : \A l \in K : l \in Levels /\ l.price \in Nat /\ l.price >= 1 /\ l.price <= MaxPrice
  BY LevelFacts, BookAssumption DEF Books, Prices
<1>1. Upto(0)
  <2> SUFFICES ASSUME NEW K \in Books, \A l \in K : l.price <= 0 PROVE Lists(K)
    OBVIOUS
  <2>1. K = {}
    BY <1>0
  <2>2. <<>> \in Seq(Levels) /\ InOrder(<<>>, side) /\ Set(<<>>) = {}
    BY DEF InOrder, Set
  <2> QED
    BY <2>1, <2>2
<1>2. ASSUME NEW m \in Nat, Upto(m) PROVE Upto(m + 1)
  <2> SUFFICES ASSUME NEW K \in Books, \A l \in K : l.price <= m + 1 PROVE Lists(K)
    OBVIOUS
  <2>1. CASE \A l \in K : l.price # m + 1
    <3>1. \A l \in K : l.price <= m
      BY <1>0, <2>1
    <3> HIDE DEF Lists
    <3> QED
      BY <1>2, <3>1
  <2>2. CASE ~(\A l \in K : l.price # m + 1)
    <3>1. PICK l \in K : l.price = m + 1
      BY <2>2
    <3> DEFINE rest == K \ {l}
    <3>2. rest \in Books
      BY DEF Books
    <3>3. \A k \in rest : k.price # l.price
      BY DEF Books
    <3>4. \A k \in rest : k.price <= m
      BY <1>0, <3>1, <3>3
    <3>5. Lists(rest)
      <4> HIDE DEF Lists, rest
      <4> QED
        BY <1>2, <3>2, <3>4
    <3>6. PICK s \in Seq(Levels) : InOrder(s, side) /\ Set(s) = rest
      BY <3>5
    <3>7. l \in Levels /\ l.size # 0
      BY DEF Books
    <3>8. /\ ApplyLevel(s, side, l) \in Seq(Levels) /\ InOrder(ApplyLevel(s, side, l), side)
          /\ Set(ApplyLevel(s, side, l)) = LevelSet(rest, l)
      <4> HIDE DEF rest
      <4> QED
        BY <3>6, <3>7, ApplyLevelKeepsOrder
    <3>9. LevelSet(rest, l) = K
      BY <3>3, <3>7 DEF LevelSet
    <3> QED
      BY <3>8, <3>9
  <2> QED
    BY <2>1, <2>2
<1>3. \A m \in Nat : m \in Done
  <2> HIDE DEF Upto
  <2>1. 0 \in Done
    BY <1>1
  <2>2. ASSUME NEW m \in Nat, m \in Done PROVE m + 1 \in Done
    BY <1>2, <2>2
  <2> HIDE DEF Done
  <2> QED
    BY <2>1, <2>2, SetInduction
<1>4. Upto(MaxPrice)
  <2> HIDE DEF Upto
  <2>1. MaxPrice \in Done
    BY <1>3, BookAssumption
  <2> QED
    BY <2>1
<1> QED
  BY <1>0, <1>4

LEMMA SortedIs ==
  ASSUME NEW side \in Sides, NEW L \in Books
  PROVE  /\ Sorted(L, side) \in Seq(Levels) /\ InOrder(Sorted(L, side), side)
         /\ Set(Sorted(L, side)) = L
<1>1. PICK s \in Seq(Levels) : InOrder(s, side) /\ Set(s) = L
  BY SortedExists
<1> DEFINE n == Len(s)
           t == Sorted(L, side)
<1>2. n \in Nat /\ s \in [1..n -> L]
  BY <1>1 DEF Set
<1>3. \A i, j \in 1..n : s[i] = s[j] => i = j
  BY <1>1, InOrderIsDistinct
<1>4. s \in Bijection(1..n, L)
  <2>1. \A l \in L : \E i \in 1..n : s[i] = l
    BY <1>1 DEF Set
  <2> QED
    BY <1>2, <1>3, <2>1, Fun_IsBij
<1>5. IsFiniteSet(L) /\ Cardinality(L) = n
  <2>1. ExistsBijection(1..n, L)
    BY <1>4 DEF ExistsBijection
  <2> QED
    BY <1>2, <2>1, FS_NatBijection, FS_CountingElements
<1>6. s \in SetToSeqs(L)
  BY <1>2, <1>3, <1>5 DEF SetToSeqs
<1>7. t \in SetToSeqs(L) /\ InOrder(t, side)
  BY <1>1, <1>6 DEF Sorted
<1> HIDE DEF t
<1>8. t \in [1..n -> L] /\ \A i, j \in 1..n : t[i] = t[j] => i = j
  BY <1>5, <1>7 DEF SetToSeqs
<1>9. t \in Injection(1..n, L)
  BY <1>8, Fun_IsInj
<1>10. t \in Surjection(1..n, L)
  <2>1. Cardinality(1..n) = n
    <3>1. 1 \in Int /\ n \in Int
      BY <1>2
    <3>2. Cardinality(1..n) = IF 1 > n THEN 0 ELSE n - 1 + 1
      BY <3>1, FS_Interval
    <3> QED
      BY <1>2, <3>2
  <2> HIDE DEF n
  <2> QED
    BY <1>5, <1>9, <2>1, FS_Injection
<1>11. \A l \in L : \E i \in 1..n : t[i] = l
  BY <1>10, Fun_SurjectionProperties
<1>12. t \in Seq(Levels) /\ Len(t) = n
  <2>1. L \subseteq Levels
    BY DEF Books
  <2> QED
    BY <1>2, <1>8, <2>1
<1>13. Set(t) = L
  BY <1>8, <1>11, <1>12 DEF Set
<1> QED
  BY <1>7, <1>12, <1>13 DEF t

\* A delta of no level, and one of a single level.
LEMMA NoLevels == ASSUME NEW side, NEW s PROVE ApplyLevels(s, side, <<>>) = s
<1> DEFINE Taken(f, u) == IF u = {} THEN s
                          ELSE ApplyLevel(f[u \ {Max(u)}], side, (<<>>)[Max(u)])
           IsFold(f) == f = [u \in SUBSET {} |-> Taken(f, u)]
           fold == CHOOSE f : IsFold(f)
<1>1. ApplyLevels(s, side, <<>>) = fold[{}]
  <2>1. DOMAIN <<>> = {}
    OBVIOUS
  <2> QED
    BY <2>1 DEF ApplyLevels, FoldLeft, MapThenFoldSet
<1>2. IsFold([u \in SUBSET {} |-> s])
  <2> HIDE DEF fold
  <2>1. \A u \in SUBSET {} : u = {}
    OBVIOUS
  <2> QED
    BY <2>1
<1>3. IsFold(fold)
  <2> HIDE DEF IsFold
  <2> QED
    BY <1>2
<1> HIDE DEF fold
<1> QED
  BY <1>1, <1>3

LEMMA OneLevel ==
  ASSUME NEW side, NEW s, NEW level PROVE ApplyLevels(s, side, <<level>>) = ApplyLevel(s, side, level)
<1> DEFINE Taken(f, u) == IF u = {} THEN s
                          ELSE ApplyLevel(f[u \ {Max(u)}], side, (<<level>>)[Max(u)])
           IsFold(f) == f = [u \in SUBSET (1..1) |-> Taken(f, u)]
           fold == CHOOSE f : IsFold(f)
           g == [u \in SUBSET (1..1) |-> IF u = {} THEN s ELSE ApplyLevel(s, side, level)]
<1>1. ApplyLevels(s, side, <<level>>) = fold[1..1]
  <2>1. DOMAIN <<level>> = 1..1
    OBVIOUS
  <2> QED
    BY <2>1 DEF ApplyLevels, FoldLeft, MapThenFoldSet
<1>2. /\ 1..1 \in SUBSET (1..1) /\ {} \in SUBSET (1..1) /\ 1..1 # {} /\ (1..1) \ {1} = {}
      /\ \A u \in SUBSET (1..1) : u # {} => u = 1..1
  <2>1. 1..1 = {1}
    OBVIOUS
  <2> QED
    BY <2>1, Zenon
<1>3. Max(1..1) = 1
  <2>1. Max(1..1) \in 1..1
    <3>1. 1 \in Nat /\ 1..1 \in SUBSET (1..1) /\ 1..1 # {}
      OBVIOUS
    <3> QED
      BY <3>1, MaxOfIndices
  <2> QED
    BY <2>1
<1>4. (<<level>>)[1] = level
  OBVIOUS
<1>5. IsFold(g)
  <2>1. ASSUME NEW u \in SUBSET (1..1) PROVE g[u] = Taken(g, u)
    <3>1. CASE u = {}
      BY <3>1
    <3>2. CASE u # {}
      <4>1. u = 1..1
        BY <1>2, <3>2
      <4>2. g[{}] = s /\ g[1..1] = ApplyLevel(s, side, level)
        BY <1>2
      <4>3. u \ {Max(u)} = {}
        BY <1>2, <1>3, <4>1
      <4> HIDE DEF g
      <4> QED
        BY <1>3, <1>4, <3>2, <4>1, <4>2, <4>3
    <3> QED
      BY <3>1, <3>2
  <2> QED
    BY <2>1
<1>6. IsFold(fold)
  <2> HIDE DEF IsFold
  <2> QED
    BY <1>5
<1> HIDE DEF fold, g
<1>7. \A u \in SUBSET (1..1) : fold[u] = Taken(fold, u)
  BY <1>6
<1>8. fold[{}] = s
  <2>1. fold[{}] = Taken(fold, {})
    BY <1>2, <1>7
  <2> QED
    BY <2>1
<1>9. fold[1..1] = ApplyLevel(fold[(1..1) \ {Max(1..1)}], side, (<<level>>)[Max(1..1)])
  BY <1>2, <1>7
<1>10. fold[1..1] = ApplyLevel(s, side, level)
  BY <1>2, <1>3, <1>4, <1>8, <1>9
<1> QED
  BY <1>1, <1>10

\* Trimming keeps the first levels.
LEMMA TrimKeeps ==
  ASSUME maxDepth \in Nat, NEW side \in Sides, NEW s \in Seq(Levels), InOrder(s, side)
  PROVE  /\ Trim(s) \in Seq(Levels) /\ InOrder(Trim(s), side) /\ Set(Trim(s)) \subseteq Set(s)
         /\ maxDepth = 0 => Trim(s) = s
         /\ maxDepth > 0 => Len(Trim(s)) <= maxDepth
<1>0. Len(s) \in Nat
  OBVIOUS
<1>1. CASE ~(maxDepth > 0 /\ Len(s) > maxDepth)
  BY <1>0, <1>1 DEF Trim
<1>2. CASE maxDepth > 0 /\ Len(s) > maxDepth
  <2> DEFINE t == SubSeq(s, 1, maxDepth)
  <2>1. t \in Seq(Levels) /\ Len(t) = maxDepth /\ \A i \in 1..maxDepth : t[i] = s[i] /\ i \in 1..Len(s)
    BY <1>0, <1>2
  <2>2. Trim(s) = t
    BY <1>2 DEF Trim
  <2> HIDE DEF t
  <2>3. InOrder(t, side) /\ Set(t) \subseteq Set(s)
    BY <2>1 DEF InOrder, Set
  <2> QED
    BY <1>2, <2>1, <2>2, <2>3
<1> QED
  BY <1>1, <1>2

\* The levels of the exchange's book, and what a change makes of them.
TruthOK == truth \in [Sides -> [Prices -> 0..MaxSize]]

LEMMA RealIs ==
  ASSUME TruthOK, NEW side \in Sides
  PROVE  /\ Real(side) \in Books
         /\ \A l : l \in Real(side) <=> l \in Levels /\ l.size # 0 /\ truth[side][l.price] = l.size
<1>1. /\ \A p \in Prices : truth[side][p] \in 0..MaxSize
      /\ \A n \in 0..MaxSize : n > 0 <=> n # 0
  BY BookAssumption DEF TruthOK
<1>2. \A l : l \in LevelsOf(truth[side]) <=> l \in Levels /\ truth[side][l.price] = l.size
  BY <1>1 DEF LevelsOf, Levels
<1>3. \A l : l \in Real(side) <=> l \in Levels /\ l.size # 0 /\ truth[side][l.price] = l.size
  BY <1>1, <1>2, LevelFacts DEF Real
<1>4. \A l, m \in Real(side) : l.price = m.price => l = m
  BY <1>3, LevelFacts
<1> QED
  BY <1>3, <1>4 DEF Books

LEMMA TruthChanges ==
  ASSUME TruthOK, NEW of \in Sides, NEW level \in Levels, Change(of, level), NEW side \in Sides
  PROVE  /\ TruthOK'
         /\ Real(side)' = IF side = of THEN LevelSet(Real(side), level) ELSE Real(side)
<1>1. truth' = [truth EXCEPT ![of][level.price] = level.size]
  BY DEF Change
<1>2. level.price \in Prices /\ level.size \in 0..MaxSize
  BY LevelFacts
<1>3. TruthOK'
  BY <1>1, <1>2 DEF TruthOK
<1>4. \A l : l \in Real(side)' <=> l \in Levels /\ l.size # 0 /\ truth'[side][l.price] = l.size
  <2>1. Real(side)' = {l \in {[price |-> p, size |-> truth'[side][p]] : p \in Prices} : l.size > 0}
    BY DEF Real, LevelsOf
  <2>2. /\ \A p \in Prices : truth'[side][p] \in 0..MaxSize
        /\ \A n \in 0..MaxSize : n > 0 <=> n # 0
    BY <1>3, BookAssumption DEF TruthOK
  <2>3. \A l : l \in {[price |-> p, size |-> truth'[side][p]] : p \in Prices}
                 <=> l \in Levels /\ truth'[side][l.price] = l.size
    BY <2>2 DEF Levels
  <2> QED
    BY <2>1, <2>2, <2>3, LevelFacts
<1>5. \A p \in Prices : truth'[side][p] = IF side = of /\ p = level.price THEN level.size ELSE truth[side][p]
  BY <1>1, <1>2 DEF TruthOK
<1>6. ASSUME NEW l
      PROVE  l \in Real(side)' <=> l \in (IF side = of THEN LevelSet(Real(side), level) ELSE Real(side))
  <2>1. l \in Real(side) <=> l \in Levels /\ l.size # 0 /\ truth[side][l.price] = l.size
    BY RealIs
  <2>2. l \in Levels => l.price \in Prices /\ (l.price = level.price /\ l.size = level.size => l = level)
    BY LevelFacts
  <2>3. CASE side # of
    BY <1>4, <1>5, <2>1, <2>2, <2>3
  <2>4. CASE side = of
    <3>1. l \in LevelSet(Real(side), level)
            <=> (l \in Real(side) /\ l.price # level.price) \/ (level.size # 0 /\ l = level)
      BY DEF LevelSet
    <3> QED
      BY <1>4, <1>5, <2>1, <2>2, <2>4, <3>1
  <2> QED
    BY <2>3, <2>4
<1> QED
  BY <1>3, <1>6

(***************************************************************************)
(* What a side shows is in order; and while the book is synced with the    *)
(* exchange's version, it shows levels of the exchange's book only, and    *)
(* all of them if its depth is not limited.                                *)
(***************************************************************************)
Shows(s, side, real) ==
  /\ s \in Seq(Levels) /\ InOrder(s, side)
  /\ maxDepth > 0 => Len(s) <= maxDepth
  /\ Set(s) \subseteq real /\ (maxDepth = 0 => Set(s) = real)
SideInv(side) ==
  /\ Shown(side) \in Seq(Levels) /\ InOrder(Shown(side), side)
  /\ maxDepth > 0 => Len(Shown(side)) <= maxDepth
  /\ synced /\ nonce = version =>
       Set(Shown(side)) \subseteq Real(side) /\ (maxDepth = 0 => Set(Shown(side)) = Real(side))
NonceInv == /\ version \in 1..MaxVersion /\ nonce \in 0..version /\ synced \in BOOLEAN
            /\ (synced => nonce # 0) /\ maxDepth \in Depths
ExactInv == TruthOK /\ NonceInv /\ \A side \in Sides : SideInv(side)

LEMMA SnapshotShows ==
  ASSUME TruthOK, maxDepth \in Nat, NEW side \in Sides
  PROVE  Shows(Trim(Sorted(Real(side), side)), side, Real(side))
<1> DEFINE s == Sorted(Real(side), side)
<1>1. Real(side) \in Books
  BY RealIs
<1>2. s \in Seq(Levels) /\ InOrder(s, side) /\ Set(s) = Real(side)
  BY <1>1, SortedIs
<1> HIDE DEF s
<1>3. /\ Trim(s) \in Seq(Levels) /\ InOrder(Trim(s), side) /\ Set(Trim(s)) \subseteq Set(s)
      /\ maxDepth = 0 => Trim(s) = s
      /\ maxDepth > 0 => Len(Trim(s)) <= maxDepth
  BY <1>2, TrimKeeps
<1>4. Shows(Trim(s), side, Real(side))
  BY <1>2, <1>3 DEF Shows
<1> QED
  BY <1>4 DEF s

LEMMA UpdateShows ==
  ASSUME ExactInv, synced, nonce = version, maxDepth \in Nat,
         NEW of \in Sides, NEW level \in Levels, Change(of, level), NEW side \in Sides
  PROVE  Shows(Trim(ApplyLevels(Shown(side), side, Delta(of, level, side))), side, Real(side)')
<1> DEFINE s == Shown(side)
           t == ApplyLevels(s, side, Delta(of, level, side))
<1>1. /\ s \in Seq(Levels) /\ InOrder(s, side) /\ (maxDepth > 0 => Len(s) <= maxDepth)
      /\ Set(s) \subseteq Real(side) /\ (maxDepth = 0 => Set(s) = Real(side))
  BY DEF ExactInv, SideInv
<1>2. Real(side)' = IF side = of THEN LevelSet(Real(side), level) ELSE Real(side)
  BY TruthChanges DEF ExactInv
<1> HIDE DEF s
<1>3. /\ t \in Seq(Levels) /\ InOrder(t, side)
      /\ Set(t) \subseteq Real(side)' /\ (maxDepth = 0 => Set(t) = Real(side)')
  <2>1. CASE side = of
    <3>1. t = ApplyLevel(s, side, level)
      BY <2>1, OneLevel DEF Delta
    <3>2. t \in Seq(Levels) /\ InOrder(t, side) /\ Set(t) = LevelSet(Set(s), level)
      <4> HIDE DEF t
      <4> QED
        BY <1>1, <3>1, ApplyLevelKeepsOrder
    <3>3. LevelSet(Set(s), level) \subseteq LevelSet(Real(side), level)
      BY <1>1 DEF LevelSet
    <3> HIDE DEF t
    <3> QED
      BY <1>1, <1>2, <2>1, <3>2, <3>3
  <2>2. CASE side # of
    <3>1. t = s
      BY <2>2, NoLevels DEF Delta
    <3> HIDE DEF t
    <3> QED
      BY <1>1, <1>2, <2>2, <3>1
  <2> QED
    BY <2>1, <2>2
<1> HIDE DEF t
<1>4. /\ Trim(t) \in Seq(Levels) /\ InOrder(Trim(t), side) /\ Set(Trim(t)) \subseteq Set(t)
      /\ maxDepth = 0 => Trim(t) = t
      /\ maxDepth > 0 => Len(Trim(t)) <= maxDepth
  BY <1>3, TrimKeeps
<1>5. Shows(Trim(t), side, Real(side)')
  BY <1>3, <1>4 DEF Shows
<1> QED
  BY <1>5 DEF s, t

LEMMA ExactInit == BookInit => ExactInv
<1> SUFFICES ASSUME BookInit PROVE ExactInv
  OBVIOUS
<1>1. TruthOK
  BY DEF BookInit, TruthOK
<1>2. NonceInv
  <2>1. version = 1 /\ nonce = 0 /\ synced \in BOOLEAN /\ ~synced /\ maxDepth \in Depths
    BY DEF BookInit
  <2>2. version \in 1..MaxVersion /\ nonce \in 0..version
    BY <2>1, BookAssumption
  <2> QED
    BY <2>1, <2>2 DEF NonceInv
<1>3. ASSUME NEW side \in Sides PROVE SideInv(side)
  <2>1. Shown(side) = <<>> /\ synced = FALSE /\ maxDepth \in Nat
    BY BookAssumption DEF BookInit, Shown
  <2>2. <<>> \in Seq(Levels) /\ Len(<<>>) = 0 /\ InOrder(<<>>, side)
    BY DEF InOrder
  <2> QED
    BY <2>1, <2>2 DEF SideInv
<1> QED
  BY <1>1, <1>2, <1>3 DEF ExactInv

LEMMA ExactStep ==
  ASSUME ExactInv, [BookNext]_localBookVars
  PROVE  ExactInv'
<1>0. /\ version \in Nat /\ maxDepth \in Nat /\ "asks" \in Sides /\ "bids" \in Sides
      /\ \A side \in Sides : side = "asks" \/ side = "bids"
  BY BookAssumption DEF ExactInv, NonceInv, Sides
<1>1. CASE UNCHANGED localBookVars
  <2>1. TruthOK' /\ NonceInv'
    BY <1>1 DEF ExactInv, TruthOK, NonceInv, localBookVars
  <2>2. \A side \in Sides : SideInv(side)'
    BY <1>1 DEF ExactInv, SideInv, localBookVars, Shown, Real, LevelsOf, InOrder, Set
  <2> QED
    BY <2>1, <2>2 DEF ExactInv
<1>2. CASE ApplySnapshot
  <2>1. TruthOK' /\ NonceInv' /\ UNCHANGED <<truth, maxDepth>>
    BY <1>0, <1>2 DEF ApplySnapshot, ExactInv, TruthOK, NonceInv
  <2>2. ASSUME NEW side \in Sides PROVE SideInv(side)'
    <3>1. Shown(side)' = Trim(Sorted(Real(side), side))
      BY <1>0, <1>2 DEF ApplySnapshot, Shown, Real
    <3>2. Shows(Shown(side)', side, Real(side))
      BY <1>0, <3>1, SnapshotShows DEF ExactInv
    <3>3. Real(side)' = Real(side)
      BY <2>1 DEF Real, LevelsOf
    <3> QED
      BY <2>1, <3>2, <3>3 DEF SideInv, Shows, InOrder, Set
  <2> QED
    BY <2>1, <2>2 DEF ExactInv
<1>3. ASSUME NEW of \in Sides, NEW level \in Levels, Change(of, level),
             ApplyUpdate(version, version + 1, Delta(of, level, "asks"), Delta(of, level, "bids"))
      PROVE  ExactInv'
  <2>1. TruthOK' /\ version' = version + 1 /\ maxDepth' = maxDepth /\ version' \in 1..MaxVersion
    <3>1. TruthOK'
      BY <1>0, <1>3, TruthChanges DEF ExactInv
    <3> QED
      BY <1>0, <1>3, <3>1, BookAssumption DEF Change, ExactInv, NonceInv
  <2>2. CASE Accepts(version)
    <3>1. synced /\ nonce = version
      BY <1>0, <2>2 DEF Accepts, ExactInv, NonceInv
    <3>2. /\ asks' = Trim(ApplyLevels(asks, "asks", Delta(of, level, "asks")))
          /\ bids' = Trim(ApplyLevels(bids, "bids", Delta(of, level, "bids")))
          /\ nonce' = version + 1 /\ synced' = synced
      BY <1>3, <2>2 DEF ApplyUpdate
    <3>3. ASSUME NEW side \in Sides PROVE SideInv(side)'
      <4>1. Shown(side)' = Trim(ApplyLevels(Shown(side), side, Delta(of, level, side)))
        BY <1>0, <3>2 DEF Shown
      <4>2. Shows(Shown(side)', side, Real(side)')
        BY <1>0, <1>3, <3>1, <4>1, UpdateShows
      <4> QED
        BY <2>1, <4>2 DEF SideInv, Shows, InOrder, Set
    <3>4. NonceInv'
      BY <1>0, <2>1, <3>1, <3>2 DEF ExactInv, NonceInv
    <3> QED
      BY <2>1, <3>3, <3>4 DEF ExactInv
  <2>3. CASE ~Accepts(version)
    <3>1. synced' = FALSE /\ asks' = asks /\ bids' = bids /\ nonce' = nonce
      BY <1>3, <2>3 DEF ApplyUpdate, view
    <3>2. NonceInv'
      <4>1. synced' \in BOOLEAN /\ ~synced'
        BY <3>1
      <4>2. nonce' \in 0..version' /\ maxDepth' \in Depths
        BY <1>0, <2>1, <3>1 DEF ExactInv, NonceInv
      <4> QED
        BY <2>1, <4>1, <4>2 DEF NonceInv
    <3>3. ASSUME NEW side \in Sides PROVE SideInv(side)'
      <4>1. Shown(side)' = Shown(side)
        BY <3>1 DEF Shown
      <4> QED
        BY <2>1, <3>1, <4>1 DEF ExactInv, SideInv, InOrder, Set
    <3> QED
      BY <2>1, <3>2, <3>3 DEF ExactInv
  <2> QED
    BY <2>2, <2>3
<1>4. ASSUME NEW of \in Sides, NEW level \in Levels, Change(of, level), UNCHANGED <<view, nonce, synced>>
      PROVE  ExactInv'
  <2>1. TruthOK' /\ version' = version + 1 /\ maxDepth' = maxDepth /\ version' \in 1..MaxVersion
    <3>1. TruthOK'
      BY <1>0, <1>4, TruthChanges DEF ExactInv
    <3> QED
      BY <1>0, <1>4, <3>1, BookAssumption DEF Change, ExactInv, NonceInv
  <2>2. asks' = asks /\ bids' = bids /\ nonce' = nonce /\ synced' = synced
    BY <1>4 DEF view
  <2>3. NonceInv' /\ nonce' # version'
    BY <1>0, <2>1, <2>2 DEF ExactInv, NonceInv
  <2>4. ASSUME NEW side \in Sides PROVE SideInv(side)'
    <3>1. Shown(side)' = Shown(side)
      BY <2>2 DEF Shown
    <3> QED
      BY <2>1, <2>3, <3>1 DEF ExactInv, SideInv, InOrder, Set
  <2> QED
    BY <2>1, <2>3, <2>4 DEF ExactInv
<1>5. CASE Reset
  <2>1. /\ synced' = FALSE /\ asks' = <<>> /\ bids' = <<>> /\ nonce' = 0
        /\ UNCHANGED <<truth, version, maxDepth>>
    BY <1>5 DEF Reset
  <2>2. TruthOK' /\ NonceInv'
    <3>1. synced' \in BOOLEAN /\ ~synced'
      BY <2>1
    <3>2. TruthOK' /\ version' \in 1..MaxVersion /\ nonce' \in 0..version' /\ maxDepth' \in Depths
      BY <1>0, <2>1 DEF ExactInv, TruthOK, NonceInv
    <3> QED
      BY <3>1, <3>2 DEF NonceInv
  <2>3. ASSUME NEW side \in Sides PROVE SideInv(side)'
    <3>1. Shown(side)' = <<>> /\ maxDepth' = maxDepth
      BY <2>1 DEF Shown
    <3>2. <<>> \in Seq(Levels) /\ Len(<<>>) = 0 /\ InOrder(<<>>, side)
      BY DEF InOrder
    <3> QED
      BY <1>0, <2>1, <3>1, <3>2 DEF SideInv, InOrder
  <2> QED
    BY <2>2, <2>3 DEF ExactInv
<1> QED
  BY <1>1, <1>2, <1>3, <1>4, <1>5 DEF BookNext, Updated, Lost

LEMMA ExactSuffices == ExactInv => BookTypeOK /\ BookIsExact
<1> SUFFICES ASSUME ExactInv PROVE BookTypeOK /\ BookIsExact
  OBVIOUS
<1>0. "asks" \in Sides /\ "bids" \in Sides /\ Shown("asks") = asks /\ Shown("bids") = bids
  BY DEF Sides, Shown
<1>1. BookTypeOK
  <2>1. SideInv("asks") /\ SideInv("bids")
    BY <1>0 DEF ExactInv
  <2> QED
    BY <1>0, <2>1 DEF ExactInv, SideInv, NonceInv, TruthOK, BookTypeOK
<1>2. ASSUME synced, nonce = version, NEW side \in Sides
      PROVE  /\ maxDepth = 0 => Shown(side) = Sorted(Real(side), side)
             /\ ToSet(Shown(side)) \subseteq Real(side)
             /\ InOrder(Shown(side), side)
  <2>1. /\ Shown(side) \in Seq(Levels) /\ InOrder(Shown(side), side)
        /\ Set(Shown(side)) \subseteq Real(side) /\ (maxDepth = 0 => Set(Shown(side)) = Real(side))
    BY <1>2 DEF ExactInv, SideInv
  <2>2. ToSet(Shown(side)) = Set(Shown(side))
    <3>1. DOMAIN Shown(side) = 1..Len(Shown(side))
      BY <2>1
    <3> QED
      BY <3>1 DEF ToSet, Set
  <2>3. /\ Sorted(Real(side), side) \in Seq(Levels) /\ InOrder(Sorted(Real(side), side), side)
        /\ Set(Sorted(Real(side), side)) = Real(side)
    <3>1. Real(side) \in Books
      BY RealIs DEF ExactInv
    <3> QED
      BY <3>1, SortedIs
  <2>4. maxDepth = 0 => Shown(side) = Sorted(Real(side), side)
    BY <2>1, <2>3, SortedIsUnique
  <2> QED
    BY <2>1, <2>2, <2>4
<1>3. BookIsExact
  BY <1>2 DEF BookIsExact
<1> QED
  BY <1>1, <1>3

\* A synced book at the exchange's version is the exchange's book, for any
\* prices, sizes, depths and losses (see BookIsExact); its variables keep
\* their types.
THEOREM BookFollows == BookSpec => [](BookTypeOK /\ BookIsExact)
<1>1. ExactInv /\ [BookNext]_localBookVars => ExactInv'
  BY ExactStep
<1> QED
  BY <1>1, ExactInit, ExactSuffices, PTL DEF BookSpec
-----------------------------------------------------------------------------
(***************************************************************************)
(* Routing: a push reaches the stream of its own channel.  This is where   *)
(* the prefix fallback of lookup could go wrong.                           *)
(***************************************************************************)
\* What channels are made of, and those that are well formed.
Digit == {Digits[d] : d \in 0..9}
MarketNames == {"order_book", "ticker", "market_stats", "trade"}
AccountNames == {"account_all_orders", "account_all_positions", "account_all_trades", "account_tx",
                 "user_stats"}
Groups == Digit \cup MarketNames \cup AccountNames
            \cup {"account_orders", "candle", "/", ":", "account", "resolution"}
Proper(c) == /\ c \in Seq(Groups) /\ Len(c) >= 3 /\ c[2] = "/"
             /\ \A i \in 1..Len(c) : c[i] # ":"
OrdersChannel(id) == marketChannel("account_orders", id) \o <<"/", "account">>

LEMMA DigitsAreNoSigns == \A x \in Digit : x # "/" /\ x # ":"
<1>1. /\ Digits[0] = "0" /\ Digits[1] = "1" /\ Digits[2] = "2" /\ Digits[3] = "3"
      /\ Digits[4] = "4" /\ Digits[5] = "5" /\ Digits[6] = "6" /\ Digits[7] = "7"
      /\ Digits[8] = "8" /\ Digits[9] = "9"
  BY DEF Digits
<1>2. \A d \in 0..9 : d = 0 \/ d = 1 \/ d = 2 \/ d = 3 \/ d = 4 \/ d = 5 \/ d = 6 \/ d = 7 \/ d = 8 \/ d = 9
  OBVIOUS
<1>3. \A d \in 0..9 : Digits[d] # "/" /\ Digits[d] # ":"
  BY <1>1, <1>2
<1> QED
  BY <1>3 DEF Digit

\* A number is written in digits.
LEMMA IdsAreDigits ==
  ASSUME NEW id \in Ids
  PROVE  FormatInt(id) \in Seq(Digit) /\ Len(FormatInt(id)) >= 1
<1>1. CASE id < 10
  <2>1. id \in 0..9 /\ FormatInt(id) = <<Digits[id]>>
    BY <1>1 DEF Ids, FormatInt
  <2>2. Digits[id] \in Digit
    BY <2>1 DEF Digit
  <2> QED
    BY <2>1, <2>2
<1>2. CASE ~(id < 10)
  <2>1. id \div 10 \in 0..9 /\ id % 10 \in 0..9
        /\ FormatInt(id) = <<Digits[id \div 10], Digits[id % 10]>>
    BY <1>2 DEF Ids, FormatInt
  <2>2. Digits[id \div 10] \in Digit /\ Digits[id % 10] \in Digit
    BY <2>1 DEF Digit
  <2> QED
    BY <2>1, <2>2
<1> QED
  BY <1>1, <1>2

LEMMA MarketShape ==
  ASSUME NEW n \in Groups, n # ":", NEW id \in Ids
  PROVE  /\ Proper(marketChannel(n, id)) /\ marketChannel(n, id)[1] = n
         /\ Len(marketChannel(n, id)) = Len(FormatInt(id)) + 2
         /\ \A i \in 1..Len(FormatInt(id)) : /\ marketChannel(n, id)[i + 2] = FormatInt(id)[i]
                                             /\ marketChannel(n, id)[i + 2] # "/"
<1> DEFINE f == FormatInt(id)
           h == <<n, "/">>
           m == marketChannel(n, id)
<1>1. f \in Seq(Digit) /\ Len(f) \in Nat /\ Len(f) >= 1 /\ \A i \in 1..Len(f) : f[i] \in Digit
  BY IdsAreDigits
<1>2. f \in Seq(Groups)
  <2>1. Digit \subseteq Groups
    BY DEF Groups
  <2> QED
    BY <1>1, <2>1
<1>3. h \in Seq(Groups) /\ Len(h) = 2 /\ h[1] = n /\ h[2] = "/"
  BY DEF Groups
<1>4. m = h \o f
  BY DEF marketChannel
<1> HIDE DEF f, h, m
<1>5. /\ m \in Seq(Groups) /\ Len(m) = Len(f) + 2
      /\ \A i \in 1..(Len(f) + 2) : m[i] = IF i <= 2 THEN h[i] ELSE f[i - 2]
  <2>1. /\ m \in Seq(Groups) /\ Len(m) = Len(h) + Len(f)
        /\ \A i \in 1..(Len(h) + Len(f)) : m[i] = IF i <= Len(h) THEN h[i] ELSE f[i - Len(h)]
    BY <1>2, <1>3, <1>4, ConcatProperties
  <2> QED
    BY <1>1, <1>3, <2>1
<1>6. m[1] = n /\ m[2] = "/"
  BY <1>1, <1>3, <1>5
<1>7. \A i \in 1..Len(f) : m[i + 2] = f[i] /\ m[i + 2] # "/" /\ m[i + 2] # ":"
  <2> SUFFICES ASSUME NEW i \in 1..Len(f) PROVE m[i + 2] = f[i] /\ m[i + 2] # "/" /\ m[i + 2] # ":"
    OBVIOUS
  <2>1. i + 2 \in 1..(Len(f) + 2) /\ ~(i + 2 <= 2) /\ (i + 2) - 2 = i
    BY <1>1
  <2>2. m[i + 2] = f[i] /\ f[i] \in Digit
    BY <1>1, <1>5, <2>1
  <2> QED
    BY <2>2, DigitsAreNoSigns
<1>8. ASSUME NEW i \in 1..Len(m) PROVE m[i] # ":"
  <2>1. i = 1 \/ i = 2 \/ (i - 2 \in 1..Len(f) /\ (i - 2) + 2 = i)
    BY <1>1, <1>5
  <2>2. i - 2 \in 1..Len(f) => m[(i - 2) + 2] # ":"
    BY <1>7
  <2> QED
    BY <1>6, <2>1, <2>2
<1>9. Proper(m)
  BY <1>1, <1>5, <1>6, <1>8 DEF Proper
<1> QED
  BY <1>5, <1>6, <1>7, <1>9 DEF f, m

LEMMA TailShape ==
  ASSUME NEW m, Proper(m), NEW z \in Groups, z # ":"
  PROVE  /\ Proper(m \o <<"/", z>>) /\ Len(m \o <<"/", z>>) = Len(m) + 2
         /\ \A i \in 1..Len(m) : (m \o <<"/", z>>)[i] = m[i]
         /\ (m \o <<"/", z>>)[Len(m) + 1] = "/" /\ (m \o <<"/", z>>)[Len(m) + 2] = z
<1> DEFINE e == <<"/", z>>
           t == m \o e
<1>1. e \in Seq(Groups) /\ Len(e) = 2 /\ e[1] = "/" /\ e[2] = z
  BY DEF Groups
<1>2. /\ m \in Seq(Groups) /\ Len(m) \in Nat /\ Len(m) >= 3 /\ m[2] = "/"
      /\ \A i \in 1..Len(m) : m[i] # ":"
  BY DEF Proper
<1> HIDE DEF e
<1>3. /\ t \in Seq(Groups) /\ Len(t) = Len(m) + Len(e)
      /\ \A i \in 1..(Len(m) + Len(e)) : t[i] = IF i <= Len(m) THEN m[i] ELSE e[i - Len(m)]
  BY <1>1, <1>2, ConcatProperties
<1> HIDE DEF t
<1>4. \A i \in 1..Len(m) : t[i] = m[i]
  BY <1>1, <1>2, <1>3
<1>5. t[Len(m) + 1] = "/" /\ t[Len(m) + 2] = z
  BY <1>1, <1>2, <1>3
<1>6. ASSUME NEW i \in 1..Len(t) PROVE t[i] # ":"
  <2>1. i \in 1..Len(m) \/ i = Len(m) + 1 \/ i = Len(m) + 2
    BY <1>1, <1>2, <1>3
  <2> QED
    BY <1>2, <1>4, <1>5, <2>1
<1>7. Proper(t)
  BY <1>1, <1>2, <1>3, <1>4, <1>6 DEF Proper
<1> QED
  BY <1>1, <1>3, <1>4, <1>5, <1>7 DEF t, e

\* Only the orders of one market begin with account_orders.
LEMMA ChannelForms ==
  ASSUME NEW c \in Channels
  PROVE  /\ Proper(c)
         /\ c[1] = "account_orders" => \E id \in Ids : c = OrdersChannel(id)
<1>1. ASSUME NEW n \in MarketNames, NEW id \in Ids, c = marketChannel(n, id)
      PROVE  Proper(c) /\ c[1] # "account_orders"
  <2>1. n \in Groups /\ n # ":" /\ n # "account_orders"
    BY DEF MarketNames, Groups
  <2> QED
    BY <1>1, <2>1, MarketShape
<1>2. ASSUME NEW id \in Ids, c = OrdersChannel(id) PROVE Proper(c)
  <2>1. "account_orders" \in Groups /\ "account_orders" # ":" /\ "account" \in Groups /\ "account" # ":"
    BY DEF Groups
  <2>2. Proper(marketChannel("account_orders", id))
    BY <2>1, MarketShape
  <2> QED
    BY <1>2, <2>1, <2>2, TailShape DEF OrdersChannel
<1>3. ASSUME NEW id \in Ids, c = marketChannel("candle", id) \o <<"/", "resolution">>
      PROVE  Proper(c) /\ c[1] # "account_orders"
  <2>1. "candle" \in Groups /\ "candle" # ":" /\ "resolution" \in Groups /\ "resolution" # ":"
    BY DEF Groups
  <2> DEFINE m == marketChannel("candle", id)
  <2>2. Proper(m) /\ m[1] = "candle"
    BY <2>1, MarketShape
  <2> HIDE DEF m
  <2>3. 1 \in 1..Len(m)
    BY <2>2 DEF Proper
  <2>4. Proper(m \o <<"/", "resolution">>) /\ (m \o <<"/", "resolution">>)[1] = m[1]
    BY <2>1, <2>2, <2>3, TailShape
  <2>5. c = m \o <<"/", "resolution">>
    BY <1>3 DEF m
  <2> QED
    BY <2>2, <2>4, <2>5
<1>4. ASSUME NEW n \in AccountNames, c = accountChannel(n)
      PROVE  Proper(c) /\ c[1] # "account_orders"
  <2>1. n \in Groups /\ n # ":" /\ n # "account_orders" /\ "account" \in Groups /\ "/" \in Groups
    BY DEF AccountNames, Groups
  <2>2. c = <<n, "/", "account">>
    BY <1>4 DEF accountChannel
  <2>3. c \in Seq(Groups) /\ Len(c) = 3 /\ c[1] = n /\ c[2] = "/" /\ c[3] = "account"
    BY <2>1, <2>2
  <2>4. \A i \in 1..3 : i = 1 \/ i = 2 \/ i = 3
    OBVIOUS
  <2> QED
    BY <2>1, <2>3, <2>4 DEF Proper
<1>5. \/ \E n \in MarketNames, id \in Ids : c = marketChannel(n, id)
      \/ \E id \in Ids : c = OrdersChannel(id)
      \/ \E id \in Ids : c = marketChannel("candle", id) \o <<"/", "resolution">>
      \/ \E n \in AccountNames : c = accountChannel(n)
  <2> DEFINE A == {marketChannel(n, id) : n \in MarketNames, id \in Ids}
             B == {OrdersChannel(id) : id \in Ids}
             C == {marketChannel("candle", id) \o <<"/", "resolution">> : id \in Ids}
             D == {accountChannel(n) : n \in AccountNames}
  <2>1. Channels = A \cup B \cup C \cup D
    BY DEF Channels, MarketNames, AccountNames, OrdersChannel
  <2>2. c \in A => \E n \in MarketNames, id \in Ids : c = marketChannel(n, id)
    OBVIOUS
  <2>3. c \in B => \E id \in Ids : c = OrdersChannel(id)
    BY Zenon
  <2>4. c \in C => \E id \in Ids : c = marketChannel("candle", id) \o <<"/", "resolution">>
    BY Zenon
  <2>5. c \in D => \E n \in AccountNames : c = accountChannel(n)
    BY Zenon
  <2> HIDE DEF A, B, C, D
  <2> QED
    BY <2>1, <2>2, <2>3, <2>4, <2>5, Zenon
<1> QED
  BY <1>1, <1>2, <1>3, <1>4, <1>5

LEMMA OrdersShape ==
  ASSUME NEW id \in Ids
  PROVE  /\ Proper(OrdersChannel(id)) /\ Proper(marketChannel("account_orders", id))
         /\ OrdersChannel(id)[1] = "account_orders"
         /\ Len(marketChannel("account_orders", id)) = Len(FormatInt(id)) + 2
         /\ Len(OrdersChannel(id)) = Len(FormatInt(id)) + 4
         /\ \A i \in 1..(Len(FormatInt(id)) + 2) :
              OrdersChannel(id)[i] = marketChannel("account_orders", id)[i]
         /\ \A i \in 3..(Len(FormatInt(id)) + 2) : OrdersChannel(id)[i] # "/"
         /\ OrdersChannel(id)[Len(FormatInt(id)) + 3] = "/"
         /\ OrdersChannel(id)[Len(FormatInt(id)) + 4] = "account"
<1> DEFINE m == marketChannel("account_orders", id)
           n == Len(FormatInt(id))
           o == OrdersChannel(id)
<1>1. "account_orders" \in Groups /\ "account_orders" # ":" /\ "account" \in Groups /\ "account" # ":"
  BY DEF Groups
<1>2. Proper(m) /\ m[1] = "account_orders" /\ Len(m) = n + 2 /\ \A i \in 1..n : m[i + 2] # "/"
  BY <1>1, MarketShape
<1>3. n \in Nat /\ n >= 1
  BY IdsAreDigits
<1>4. o = m \o <<"/", "account">>
  BY DEF OrdersChannel
<1> HIDE DEF m, n, o
<1>5. /\ Proper(o) /\ Len(o) = Len(m) + 2 /\ \A i \in 1..Len(m) : o[i] = m[i]
      /\ o[Len(m) + 1] = "/" /\ o[Len(m) + 2] = "account"
  BY <1>1, <1>2, <1>4, TailShape
<1>6. \A i \in 1..(n + 2) : o[i] = m[i]
  BY <1>2, <1>5
<1>7. o[n + 3] = "/" /\ o[n + 4] = "account" /\ Len(o) = n + 4
  BY <1>2, <1>3, <1>5
<1>8. \A i \in 3..(n + 2) : o[i] # "/"
  <2>1. \A i \in 3..(n + 2) : i - 2 \in 1..n /\ (i - 2) + 2 = i
    BY <1>3
  <2> QED
    BY <1>2, <1>6, <2>1
<1>9. o[1] = "account_orders"
  BY <1>2, <1>3, <1>6
<1> QED
  BY <1>2, <1>5, <1>6, <1>7, <1>8, <1>9 DEF m, n, o

\* The exchange's name of a channel is taken back to the channel ...
LEMMA PlainKey ==
  ASSUME NEW c, Proper(c), c[1] # "account_orders"
  PROVE  RouteKey(OnTheWire(c)) = c
<1> DEFINE w == ReplaceAt(c, 2, ":")
<1>1. c \in Seq(Groups) /\ Len(c) \in Nat /\ Len(c) >= 3 /\ c[2] = "/" /\ \A i \in 1..Len(c) : c[i] # ":"
  BY DEF Proper
<1>2. w = [c EXCEPT ![2] = ":"] /\ ":" \in Groups
  BY DEF ReplaceAt, Groups
<1>3. /\ w \in Seq(Groups) /\ Len(w) = Len(c) /\ w[2] = ":"
      /\ \A i \in 1..Len(c) : i # 2 => w[i] = c[i]
  BY <1>1, <1>2, ExceptSeq
<1>4. OnTheWire(c) = w
  <2>1. w[1] = c[1]
    BY <1>1, <1>3
  <2> QED
    BY <2>1 DEF OnTheWire
<1> HIDE DEF w
<1> DEFINE k == [i \in 1..Len(w) |-> IF w[i] = ":" THEN "/" ELSE w[i]]
<1>5. RouteKey(w) = k
  BY DEF RouteKey
<1>6. \A i \in 1..Len(c) : (IF w[i] = ":" THEN "/" ELSE w[i]) = c[i]
  BY <1>1, <1>3
<1>7. k = [i \in 1..Len(c) |-> c[i]]
  BY <1>3, <1>6
<1>8. c = [i \in 1..Len(c) |-> c[i]]
  BY <1>1
<1> QED
  BY <1>4, <1>5, <1>7, <1>8

\* ... but for the account, which it leaves out of the orders of one market.
LEMMA OrdersKey ==
  ASSUME NEW id \in Ids
  PROVE  RouteKey(OnTheWire(OrdersChannel(id))) = marketChannel("account_orders", id)
<1> DEFINE m == marketChannel("account_orders", id)
           o == OrdersChannel(id)
           w == ReplaceAt(o, 2, ":")
           v == SubSeq(w, 1, Len(w) - 2)
<1>1. /\ o \in Seq(Groups) /\ Len(o) \in Nat /\ o[1] = "account_orders" /\ Len(o) = Len(m) + 2
      /\ \A i \in 1..Len(m) : o[i] = m[i]
  BY OrdersShape, IdsAreDigits DEF Proper
<1>2. m \in Seq(Groups) /\ Len(m) \in Nat /\ Len(m) >= 3 /\ m[2] = "/" /\ \A i \in 1..Len(m) : m[i] # ":"
  BY OrdersShape DEF Proper
<1>3. w = [o EXCEPT ![2] = ":"] /\ ":" \in Groups
  BY DEF ReplaceAt, Groups
<1> HIDE DEF m, o
<1>4. /\ w \in Seq(Groups) /\ Len(w) = Len(o) /\ w[2] = ":"
      /\ \A i \in 1..Len(o) : i # 2 => w[i] = o[i]
  <2>1. 2 \in 1..Len(o)
    BY <1>1, <1>2
  <2> HIDE DEF w, v
  <2>2. w \in Seq(Groups) /\ Len(w) = Len(o)
        /\ \A j \in 1..Len(o) : w[j] = IF j = 2 THEN ":" ELSE o[j]
    BY <1>1, <1>3, <2>1, ExceptSeq
  <2> QED
    BY <2>1, <2>2
<1>5. OnTheWire(o) = v
  <2>1. w[1] = o[1]
    BY <1>1, <1>2, <1>4
  <2> QED
    BY <1>1, <2>1 DEF OnTheWire
<1> HIDE DEF w
<1>6. Len(w) - 2 = Len(m) /\ \A i \in 1..Len(m) : w[i] \in Groups
  BY <1>1, <1>2, <1>4
<1>7. v = SubSeq(w, 1, Len(m))
  BY <1>6
<1> HIDE DEF v
<1>8. v \in Seq(Groups) /\ Len(v) = Len(m) /\ \A i \in 1..Len(m) : v[i] = w[i]
  <2>1. 1 \in Int /\ Len(m) \in Int
    BY <1>2
  <2>2. /\ SubSeq(w, 1, Len(m)) \in Seq(Groups)
        /\ Len(SubSeq(w, 1, Len(m))) = IF 1 <= Len(m) THEN Len(m) - 1 + 1 ELSE 0
        /\ \A i \in 1..(Len(m) - 1 + 1) : SubSeq(w, 1, Len(m))[i] = w[1 + i - 1]
    BY <1>6, <2>1, SubSeqProperties
  <2> QED
    BY <1>2, <1>7, <2>2
<1>9. \A i \in 1..Len(m) : (IF v[i] = ":" THEN "/" ELSE v[i]) = m[i]
  BY <1>1, <1>2, <1>4, <1>8
<1> DEFINE k == [i \in 1..Len(v) |-> IF v[i] = ":" THEN "/" ELSE v[i]]
<1>10. RouteKey(v) = k
  BY DEF RouteKey
<1>11. k = [i \in 1..Len(m) |-> m[i]]
  BY <1>8, <1>9
<1>12. m = [i \in 1..Len(m) |-> m[i]]
  BY <1>2
<1> QED
  BY <1>5, <1>10, <1>11, <1>12 DEF m, o

\* The fallback of lookup finds the orders of that market and of no other: where
\* the number of the market ends, the separator has to follow.
LEMMA OrdersApart ==
  ASSUME NEW id \in Ids, NEW jd \in Ids,
         IsStrictPrefix(Append(marketChannel("account_orders", id), "/"), OrdersChannel(jd))
  PROVE  OrdersChannel(jd) = OrdersChannel(id)
<1> DEFINE m == marketChannel("account_orders", id)
           o == OrdersChannel(id)
           q == OrdersChannel(jd)
           a == Append(m, "/")
           n == Len(FormatInt(id))
           k == Len(FormatInt(jd))
<1>1. n \in Nat /\ n >= 1 /\ k \in Nat /\ k >= 1
  BY IdsAreDigits
<1>2. /\ m \in Seq(Groups) /\ Len(m) = n + 2
      /\ o \in Seq(Groups) /\ Len(o) = n + 4 /\ \A i \in 1..(n + 2) : o[i] = m[i]
      /\ \A i \in 3..(n + 2) : o[i] # "/"
      /\ o[n + 3] = "/" /\ o[n + 4] = "account"
  BY OrdersShape DEF Proper
<1>3. /\ q \in Seq(Groups) /\ Len(q) = k + 4 /\ \A i \in 3..(k + 2) : q[i] # "/"
      /\ q[k + 3] = "/" /\ q[k + 4] = "account"
  BY OrdersShape DEF Proper
<1>4. Len(a) <= Len(q) /\ SubSeq(a, 1, Len(a)) = SubSeq(q, 1, Len(a))
  BY DEF IsStrictPrefix, IsPrefix
<1> HIDE DEF m, o, q, n, k
<1>5. /\ a \in Seq(Groups) /\ Len(a) = n + 3 /\ a[n + 3] = "/" /\ \A i \in 1..(n + 2) : a[i] = m[i]
  <2>1. "/" \in Groups
    BY DEF Groups
  <2>2. /\ Append(m, "/") \in Seq(Groups) /\ Len(Append(m, "/")) = Len(m) + 1
        /\ \A i \in 1..Len(m) : Append(m, "/")[i] = m[i] /\ Append(m, "/")[Len(m) + 1] = "/"
    BY <1>2, <2>1, AppendProperties
  <2> QED
    BY <1>1, <1>2, <2>2
<1> HIDE DEF a
<1>6. \A i \in 1..(n + 3) : a[i] = q[i]
  <2> DEFINE e == n + 3
  <2>1. e \in Nat /\ \A i \in 1..e : a[i] \in Groups /\ q[i] \in Groups
    BY <1>1, <1>3, <1>4, <1>5
  <2>2. SubSeq(a, 1, e) = SubSeq(q, 1, e)
    BY <1>4, <1>5
  <2> HIDE DEF e
  <2>3. 1 \in Int /\ e \in Int
    BY <2>1
  <2>4. \A i \in 1..(e - 1 + 1) : SubSeq(a, 1, e)[i] = a[1 + i - 1]
    BY <2>1, <2>3, SubSeqProperties
  <2>5. \A i \in 1..(e - 1 + 1) : SubSeq(q, 1, e)[i] = q[1 + i - 1]
    BY <2>1, <2>3, SubSeqProperties
  <2>6. \A i \in 1..e : a[i] = q[i]
    BY <2>1, <2>2, <2>4, <2>5
  <2> QED
    BY <2>6 DEF e
<1>7. n = k
  <2>1. ~(n < k)
    <3>1. q[n + 3] = "/"
      BY <1>1, <1>5, <1>6
    <3>2. n < k => n + 3 \in 3..(k + 2)
      BY <1>1
    <3> QED
      BY <1>3, <3>1, <3>2
  <2>2. ~(k < n)
    <3>1. k < n => k + 3 \in 3..(n + 2)
      BY <1>1
    <3>2. k < n => o[k + 3] = q[k + 3]
      BY <1>1, <1>2, <1>5, <1>6
    <3> QED
      BY <1>2, <1>3, <3>1, <3>2
  <2> QED
    BY <1>1, <2>1, <2>2
<1>8. \A i \in 1..Len(q) : q[i] = o[i]
  <2>1. \A i \in 1..Len(q) : i \in 1..(n + 2) \/ i = n + 3 \/ i = n + 4
    BY <1>1, <1>3, <1>7
  <2>2. \A i \in 1..(n + 2) : q[i] = o[i]
    BY <1>1, <1>2, <1>5, <1>6
  <2> QED
    BY <1>2, <1>3, <1>7, <2>1, <2>2
<1>9. q = o
  BY <1>2, <1>3, <1>7, <1>8, SeqEqual
<1> QED
  BY <1>9 DEF o, q

\* A push is handed to the stream whose channel it is, whatever else is subscribed.
LEMMA RoutedHome ==
  ASSUME NEW channels \in SUBSET Channels, NEW c \in channels, NEW d \in channels,
         d \in Lookup(RouteKey(OnTheWire(c)), channels)
  PROVE  c = d
<1>0. c \in Channels /\ d \in Channels
  OBVIOUS
<1>1. CASE c[1] # "account_orders"
  <2>1. RouteKey(OnTheWire(c)) = c
    BY <1>0, <1>1, ChannelForms, PlainKey
  <2> QED
    BY <2>1 DEF Lookup
<1>2. CASE c[1] = "account_orders"
  <2>1. PICK id \in Ids : c = OrdersChannel(id)
    BY <1>0, <1>2, ChannelForms
  <2> DEFINE m == marketChannel("account_orders", id)
             n == Len(FormatInt(id))
  <2>2. RouteKey(OnTheWire(c)) = m
    BY <2>1, OrdersKey
  <2>3. /\ n \in Nat /\ n >= 1 /\ m \in Seq(Groups) /\ Len(m) = n + 2
        /\ c[1] = m[1] /\ \A i \in 3..(n + 2) : m[i] # "/"
    <3>1. n \in Nat /\ n >= 1
      BY IdsAreDigits
    <3>2. 1 \in 1..(n + 2) /\ \A i \in 3..(n + 2) : i \in 1..(n + 2)
      BY <3>1
    <3> QED
      BY <2>1, <3>1, <3>2, OrdersShape DEF Proper
  <2> HIDE DEF m, n
  <2>4. m \notin channels
    <3> SUFFICES ASSUME m \in channels PROVE FALSE
      OBVIOUS
    <3>1. m \in Channels /\ m[1] = "account_orders"
      BY <1>2, <2>3
    <3>2. PICK jd \in Ids : m = OrdersChannel(jd)
      BY <3>1, ChannelForms
    <3>3. Len(m) = Len(FormatInt(jd)) + 4 /\ m[Len(FormatInt(jd)) + 3] = "/" /\ Len(FormatInt(jd)) \in Nat
      BY <3>2, OrdersShape, IdsAreDigits
    <3>4. Len(FormatInt(jd)) + 3 \in 3..(n + 2)
      BY <2>3, <3>3
    <3> QED
      BY <2>3, <3>3, <3>4
  <2>5. IsStrictPrefix(Append(m, "/"), d)
    BY <2>2, <2>4 DEF Lookup
  <2>6. d[1] = "account_orders"
    <3> DEFINE a == Append(m, "/")
    <3>1. Len(a) <= Len(d) /\ SubSeq(a, 1, Len(a)) = SubSeq(d, 1, Len(a))
      BY <2>5 DEF IsStrictPrefix, IsPrefix
    <3>2. d \in Seq(Groups)
      BY <1>0, ChannelForms DEF Proper
    <3>3. a \in Seq(Groups) /\ Len(a) = n + 3 /\ a[1] = m[1]
      <4>1. "/" \in Groups
        BY DEF Groups
      <4> QED
        BY <2>3, <4>1, AppendProperties
    <3> HIDE DEF a
    <3>4. SubSeq(a, 1, Len(a))[1] = a[1] /\ SubSeq(d, 1, Len(a))[1] = d[1]
      <4>1. 1 \in Int /\ Len(a) \in Int /\ 1 \in 1..(Len(a) - 1 + 1) /\ 1 + 1 - 1 = 1
        BY <2>3, <3>3
      <4>2. \A i \in 1..Len(a) : a[i] \in Groups /\ d[i] \in Groups
        BY <2>3, <3>1, <3>2, <3>3
      <4>3. SubSeq(a, 1, Len(a))[1] = a[1 + 1 - 1]
        BY <4>1, <4>2, SubSeqProperties
      <4>4. SubSeq(d, 1, Len(a))[1] = d[1 + 1 - 1]
        BY <4>1, <4>2, SubSeqProperties
      <4> QED
        BY <4>1, <4>3, <4>4
    <3> QED
      BY <1>2, <2>3, <3>1, <3>3, <3>4
  <2>7. PICK jd \in Ids : d = OrdersChannel(jd)
    BY <1>0, <2>6, ChannelForms
  <2> QED
    BY <2>1, <2>5, <2>7, OrdersApart DEF m
<1> QED
  BY <1>1, <1>2
-----------------------------------------------------------------------------
(***************************************************************************)
(* The registry under the stream.                                          *)
(***************************************************************************)
Loads(t) == at[t] \in {"load", "store"}

\* One load at a time; an answer in hand and a snapshot in use are no younger
\* than the exchange's listing, and no one was given what is not there yet.
LoadInv == /\ RegistryTypeOK
           /\ \A t \in Threads : Loads(t) <=> loadMu = t
           /\ current <= listed
           /\ \A t \in Threads : at[t] = "store" => current <= got[t] /\ got[t] <= listed
           /\ \A r \in Readers : have[r] <= current

LEMMA LoadInvInit == RegistryInit => LoadInv
<1> SUFFICES ASSUME RegistryInit PROVE LoadInv
  OBVIOUS
<1>1. Len(Listings) \in Nat /\ Len(Listings) >= 1
  BY RegistryAssumption
<1> QED
  BY <1>1, RegistryAssumption DEF RegistryInit, LoadInv, RegistryTypeOK, Loads, Threads

LEMMA LoadInvStep ==
  ASSUME LoadInv, [RegistryNext]_registryVars
  PROVE  LoadInv'
<1>0. Len(Listings) \in Nat /\ Readers \subseteq Threads /\ Refreshers \subseteq Threads
      /\ NoOne \notin Threads /\ Readers \cap Refreshers = {}
  BY RegistryAssumption DEF Threads
<1> USE <1>0 DEF LoadInv, RegistryTypeOK, Loads
<1>1. CASE UNCHANGED registryVars
  BY <1>1 DEF registryVars
<1>2. CASE Relist
  BY <1>2 DEF Relist
<1>3. ASSUME NEW t \in Readers, Get(t) PROVE LoadInv'
  <2>1. CASE current # 0
    <3>1. have' = [have EXCEPT ![t] = current] /\ UNCHANGED <<listed, current, loadMu, at, got>>
      BY <1>3, <2>1 DEF Get
    <3>2. have' \in [Readers -> 0..Len(Listings)]
      BY <3>1
    <3>3. \A r \in Readers : have'[r] = IF r = t THEN current ELSE have[r]
      BY <3>1
    <3>4. \A r \in Readers : have'[r] <= current
      BY <3>3
    <3> QED
      BY <3>1, <3>2, <3>4
  <2>2. CASE current = 0
    BY <1>3, <2>2 DEF Get
  <2> QED
    BY <2>1, <2>2
<1>4. ASSUME NEW t \in Refreshers, Refresh(t) PROVE LoadInv'
  BY <1>4 DEF Refresh
<1>5. ASSUME NEW t \in Threads, Lock(t) PROVE LoadInv'
  <2>1. CASE t \in Readers /\ current # 0
    <3>1. /\ have' = [have EXCEPT ![t] = current] /\ at' = [at EXCEPT ![t] = "out"]
          /\ at[t] = "queue" /\ UNCHANGED <<listed, current, loadMu, got>>
      BY <1>5, <2>1 DEF Lock
    <3>2. /\ have' \in [Readers -> 0..Len(Listings)]
          /\ at' \in [Threads -> {"out", "queue", "load", "store"}]
      BY <2>1, <3>1
    <3>3. \A r \in Readers : have'[r] = IF r = t THEN current ELSE have[r]
      BY <3>1
    <3>4. \A r \in Readers : have'[r] <= current
      BY <3>3
    <3>5. \A u \in Threads : at'[u] = IF u = t THEN "out" ELSE at[u]
      BY <3>1
    <3> QED
      BY <3>1, <3>2, <3>4, <3>5
  <2>2. CASE ~(t \in Readers /\ current # 0)
    BY <1>5, <2>2 DEF Lock
  <2> QED
    BY <2>1, <2>2
<1>6. ASSUME NEW t \in Threads, Load(t) PROVE LoadInv'
  BY <1>6 DEF Load
<1>7. ASSUME NEW t \in Threads, LoadFails(t) PROVE LoadInv'
  BY <1>7 DEF LoadFails
<1>8. ASSUME NEW t \in Threads, Store(t) PROVE LoadInv'
  BY <1>8 DEF Store
<1> QED
  BY <1>1, <1>2, <1>3, <1>4, <1>5, <1>6, <1>7, <1>8 DEF RegistryNext, LoadStep

\* What a step of the registry leaves to a reader that is in none of its calls.
LEMMA Undisturbed ==
  ASSUME LoadInv, NEW r \in Readers, at[r] = "out",
         Relist \/ (\E t \in Refreshers : Refresh(t)) \/ (\E t \in Threads : LoadStep(t))
  PROVE  at'[r] = "out" /\ have'[r] = have[r] /\ listed' >= listed
<1>0. r \in Threads /\ \A t \in Refreshers : t # r
  BY RegistryAssumption DEF Threads
<1> USE <1>0 DEF LoadInv, RegistryTypeOK
<1>1. CASE Relist
  BY <1>1 DEF Relist
<1>2. ASSUME NEW t \in Refreshers, Refresh(t) PROVE at'[r] = "out" /\ have'[r] = have[r] /\ listed' >= listed
  BY <1>2 DEF Refresh
<1>3. ASSUME NEW t \in Threads, LoadStep(t) PROVE at'[r] = "out" /\ have'[r] = have[r] /\ listed' >= listed
  <2>1. t # r
    BY <1>3 DEF LoadStep, Lock, Load, LoadFails, Store
  <2> QED
    BY <1>3, <2>1 DEF LoadStep, Lock, Load, LoadFails, Store
<1> QED
  BY <1>1, <1>2, <1>3

LEMMA RegistryStep == [Next]_vars => [RegistryNext]_registryVars
  BY PushesAssumption
  DEF Next, vars, StreamMoves, RegistryMoves, BookMoves, TrackerMoves, WatchStep, HandleStep,
      Begin, GetRegistry, Ensured, Resolved, Register, Leaves, Arrive, Judge, Hand, RegistryNext
-----------------------------------------------------------------------------
(***************************************************************************)
(* The stream: what it was given by the registry when it began, the push   *)
(* in hand, and what the handler was given last.                           *)
(***************************************************************************)
Streaming == watch.stage \in {"on", "off"}

Stages == {"start", "ensure", "ensuring", "resolve", "resolving", "register", "on", "off", "failed"}
CallInv ==
  /\ watch \in [call : Watches, stage : Stages] /\ shared \in Shared
  /\ watch.stage \notin {"ensuring", "resolving"} => at[Watcher] = "out"
  /\ watch.stage = "register" \/ Streaming =>
       /\ Is.ensures \/ Is.resolves => have[Watcher] # 0
       /\ Is.resolves => Known(have[Watcher], watch.call.symbol)

\* The rows that have to be handed on, and those that may be.
Due(rows) == IF Is.filters THEN Throughout(rows) ELSE rows
Allowed(rows) == IF Is.filters THEN AtSomeTime(rows) ELSE rows

HeldInv == \A p \in wire :
  /\ p.channel = Channel
  /\ Covers(Due(p.rows), left \cup kept, p.into)
  /\ p.into # "kept" => Honest(left, p.rows, p.into) /\ Honest(kept, Allowed(p.rows), p.into)
  /\ p.time # 0 => frame.time = p.time

WireInv == (wire # {} \/ handed # {} => Streaming) /\ HeldInv

PushInv == LoadInv /\ CallInv /\ WireInv /\ PushIsOwn

\* The functions that filter have made sure of the registry.
LEMMA FunctionFacts ==
  ASSUME NEW w, w.kind \in Kinds
  PROVE  /\ Function(w).ensures \in BOOLEAN /\ Function(w).resolves \in BOOLEAN
         /\ Function(w).into \subseteq {"fresh", "truncated", "kept"} /\ Function(w).filters \in BOOLEAN
         /\ Function(w).filters => Function(w).ensures
         /\ w.kind \in {"order_book", "order_book_updates", "ticker", "market_stats", "trade", "candle"}
              => Function(w).resolves
         /\ w.kind = "orders" /\ w.symbol # "" => Function(w).resolves
  BY DEF Function, Kinds, MarketWatch, Watch

\* The channel of a stream that runs is one of those the sections subscribe.
LEMMA OwnChannel ==
  ASSUME LoadInv, CallInv, watch.stage = "register" \/ Streaming
  PROVE  Channel \in Channels
<1> DEFINE w == watch.call
           id == BySymbol(have[Watcher], w.symbol).id
<1>1. w \in [kind : Kinds, symbol : STRING, bad : BOOLEAN]
  BY ChannelsAssumption DEF CallInv
<1>2. w.kind \in Kinds
  BY <1>1
<1>3. ASSUME Is.resolves PROVE id \in Ids
  <2>1. have[Watcher] # 0 /\ \E m \in LoadMarkets(have[Watcher]) : m.symbol = w.symbol
    BY <1>3 DEF CallInv, Known
  <2>2. BySymbol(have[Watcher], w.symbol) \in LoadMarkets(have[Watcher])
    BY <2>1 DEF BySymbol
  <2>3. have[Watcher] \in 1..Len(Listings)
    <3>1. have[Watcher] \in 0..Len(Listings) /\ Len(Listings) \in Nat
      BY PushesAssumption, RegistryAssumption DEF LoadInv, RegistryTypeOK
    <3> QED
      BY <2>1, <3>1
  <2>4. BySymbol(have[Watcher], w.symbol) \in Listings[have[Watcher]]
    BY <2>2 DEF LoadMarkets, entriesOf
  <2> QED
    BY <2>3, <2>4, ChannelsAssumption
<1>4. Function(w) = Is
  BY DEF Is
<1>5. CASE w.kind = "orders" /\ w.symbol = ""
  <2>1. Channel = accountChannel("account_all_orders")
    BY <1>5 DEF Channel
  <2> QED
    BY <2>1 DEF Channels
<1>6. CASE w.kind = "orders" /\ w.symbol # ""
  <2>1. Channel = marketChannel("account_orders", id) \o <<"/", "account">>
    BY <1>6 DEF Channel
  <2>2. id \in Ids
    BY <1>2, <1>3, <1>4, <1>6, FunctionFacts
  <2> HIDE DEF id
  <2>3. Channel \in {marketChannel("account_orders", i) \o <<"/", "account">> : i \in Ids}
    BY <2>1, <2>2, Zenon
  <2> QED
    BY <2>3 DEF Channels
<1>7. CASE w.kind \in {"order_book", "order_book_updates"}
  <2>1. Channel = marketChannel("order_book", id)
    BY <1>7 DEF Channel
  <2>2. id \in Ids
    BY <1>2, <1>3, <1>4, <1>7, FunctionFacts
  <2> HIDE DEF id
  <2>3. Channel \in {marketChannel(n, i) : n \in {"order_book", "ticker", "market_stats", "trade"}, i \in Ids}
    BY <2>1, <2>2
  <2> QED
    BY <2>3 DEF Channels
<1>8. CASE w.kind = "candle"
  <2>1. Channel = marketChannel("candle", id) \o <<"/", "resolution">>
    BY <1>8 DEF Channel
  <2>2. id \in Ids
    BY <1>2, <1>3, <1>4, <1>8, FunctionFacts
  <2> HIDE DEF id
  <2>3. Channel \in {marketChannel("candle", i) \o <<"/", "resolution">> : i \in Ids}
    BY <2>1, <2>2, Zenon
  <2> QED
    BY <2>3 DEF Channels
<1>9. CASE w.kind \in {"ticker", "market_stats", "trade"}
  <2>1. Channel = marketChannel(w.kind, id)
    BY <1>9 DEF Channel
  <2>2. id \in Ids
    BY <1>2, <1>3, <1>4, <1>9, FunctionFacts
  <2>3. w.kind \in {"order_book", "ticker", "market_stats", "trade"}
    BY <1>9
  <2>4. Channel \in {marketChannel(n, i) : n \in {"order_book", "ticker", "market_stats", "trade"}, i \in Ids}
    BY <2>1, <2>2, <2>3
  <2> QED
    BY <2>4 DEF Channels
<1>10. CASE w.kind \in {"account_all_positions", "account_all_trades", "account_tx", "user_stats"}
  <2>1. Channel = accountChannel(w.kind)
    BY <1>10 DEF Channel
  <2> QED
    BY <1>10, <2>1 DEF Channels
<1> QED
  BY <1>2, <1>5, <1>6, <1>7, <1>8, <1>9, <1>10 DEF Kinds

LEMMA PushInvInit == Init => PushInv
<1> SUFFICES ASSUME Init PROVE PushInv
  OBVIOUS
<1>1. LoadInv
  BY LoadInvInit DEF Init
<1>2. Watcher \in Threads /\ Watcher \in Readers
  BY PushesAssumption DEF Threads
<1>3. watch.call \in Watches /\ watch.stage = "start" /\ shared \in Shared /\ wire = {} /\ handed = {}
      /\ at[Watcher] = "out"
  BY <1>2 DEF Init, PushInit, RegistryInit
<1>4. CallInv
  <2>1. watch \in [call : Watches, stage : Stages]
    BY DEF Init, PushInit, Stages
  <2> QED
    BY <1>3, <2>1 DEF CallInv, Streaming
<1>5. WireInv /\ PushIsOwn
  BY <1>3 DEF WireInv, HeldInv, PushIsOwn
<1> QED
  BY <1>1, <1>4, <1>5 DEF PushInv

\* While a stream runs, its channel stands and its duties only shrink.
LEMMA StreamStands ==
  ASSUME LoadInv, UNCHANGED watch.call, have'[Watcher] = have[Watcher], listed' \in Int, listed' >= listed
  PROVE  /\ Channel' = Channel /\ Is' = Is
         /\ \A rows : Due(rows)' \subseteq Due(rows) /\ Allowed(rows) \subseteq Allowed(rows)'
<1>1. have[Watcher] \in Int /\ listed \in Int
  BY PushesAssumption DEF LoadInv, RegistryTypeOK
<1>2. Channel' = Channel
  BY DEF Channel
<1>3. Is' = Is
  BY DEF Is
<1>4. have[Watcher]..listed \subseteq have'[Watcher]..listed'
  BY <1>1
<1>5. ASSUME NEW rows
      PROVE  Due(rows)' \subseteq Due(rows) /\ Allowed(rows) \subseteq Allowed(rows)'
  <2>1. Throughout(rows)' \subseteq Throughout(rows)
    BY <1>4 DEF Throughout
  <2>2. AtSomeTime(rows) \subseteq AtSomeTime(rows)'
    BY <1>4 DEF AtSomeTime
  <2> QED
    BY <1>3, <2>1, <2>2 DEF Due, Allowed
<1> QED
  BY <1>2, <1>3, <1>5

LEMMA PushIsOwnIs == PushIsOwn <=> \A h \in handed :
  /\ h.push.channel = Channel
  /\ Covers(Due(h.push.rows), h.rows, h.push.into)
  /\ h.push.into # "kept" => Honest(h.rows, Allowed(h.push.rows), h.push.into)
  /\ h.push.time # 0 => h.time = h.push.time
  BY DEF PushIsOwn, Due, Allowed

\* With fewer rows to show and more shown, as much is shown; and the other way
\* round nothing else is.
LEMMA Widened ==
  ASSUME NEW rows, NEW more, NEW rs, NEW ms, NEW into, rows \subseteq more, rs \subseteq ms
  PROVE  /\ Covers(more, rs, into) => Covers(rows, ms, into)
         /\ Honest(ms, rows, into) => Honest(rs, more, into)
  BY DEF Covers, Honest

\* The registry moves on under the stream.
LEMMA RegistryKeepsPush ==
  ASSUME PushInv, RegistryMoves
  PROVE  PushInv'
<1>1. LoadInv'
  <2>1. RegistryNext
    BY DEF RegistryMoves, RegistryNext
  <2> QED
    BY <2>1, LoadInvStep DEF PushInv
<1>2. UNCHANGED <<watch, pushVars>>
  BY DEF RegistryMoves
<1>3. CASE watch.stage \in {"ensuring", "resolving"}
  <2>1. ~Streaming /\ wire = {} /\ handed = {}
    BY <1>3 DEF PushInv, WireInv, Streaming
  <2>2. CallInv'
    BY <1>2, <1>3 DEF PushInv, CallInv, Streaming, pushVars
  <2> QED
    BY <1>1, <1>2, <2>1, <2>2 DEF PushInv, WireInv, HeldInv, PushIsOwn, pushVars
<1>4. CASE watch.stage \notin {"ensuring", "resolving"}
  <2>1. at[Watcher] = "out" /\ Watcher \in Readers
    BY <1>4, PushesAssumption DEF PushInv, CallInv
  <2>2. at'[Watcher] = "out" /\ have'[Watcher] = have[Watcher] /\ listed' >= listed
    BY <2>1, Undisturbed DEF PushInv, RegistryMoves
  <2>3. listed' \in Int
    BY <1>1 DEF LoadInv, RegistryTypeOK
  <2>4. UNCHANGED watch.call
    BY <1>2
  <2>5. /\ Channel' = Channel /\ Is' = Is
        /\ \A rows : Due(rows)' \subseteq Due(rows) /\ Allowed(rows) \subseteq Allowed(rows)'
    BY <2>2, <2>3, <2>4, StreamStands DEF PushInv
  <2>6. CallInv'
    <3>1. Known(have[Watcher], watch.call.symbol)' = Known(have[Watcher], watch.call.symbol)
      BY <1>2, <2>2 DEF Known
    <3> QED
      BY <1>2, <2>2, <2>5, <3>1 DEF PushInv, CallInv, Streaming, pushVars
  <2>7. WireInv'
    <3>1. HeldInv'
      <4> SUFFICES ASSUME NEW p \in wire
                   PROVE  /\ p.channel = Channel'
                          /\ Covers(Due(p.rows)', left' \cup kept', p.into)
                          /\ p.into # "kept" => /\ Honest(left', p.rows, p.into)
                                                /\ Honest(kept', Allowed(p.rows)', p.into)
                          /\ p.time # 0 => frame'.time = p.time
        BY <1>2 DEF HeldInv, pushVars
      <4>1. /\ p.channel = Channel /\ Covers(Due(p.rows), left \cup kept, p.into)
            /\ p.into # "kept" => Honest(left, p.rows, p.into) /\ Honest(kept, Allowed(p.rows), p.into)
            /\ p.time # 0 => frame.time = p.time
        BY DEF PushInv, WireInv, HeldInv
      <4>2. Due(p.rows)' \subseteq Due(p.rows) /\ Allowed(p.rows) \subseteq Allowed(p.rows)'
        BY <2>5
      <4>3. Covers(Due(p.rows)', left \cup kept, p.into)
        BY <4>1, <4>2, Widened
      <4>4. p.into # "kept" => Honest(left, p.rows, p.into) /\ Honest(kept, Allowed(p.rows)', p.into)
        BY <4>1, <4>2, Widened
      <4> QED
        BY <1>2, <2>5, <4>1, <4>3, <4>4 DEF pushVars
    <3> QED
      BY <1>2, <3>1 DEF PushInv, WireInv, Streaming, pushVars
  <2>8. PushIsOwn'
    <3> SUFFICES ASSUME NEW h \in handed
                 PROVE  /\ h.push.channel = Channel'
                        /\ Covers(Due(h.push.rows)', h.rows, h.push.into)
                        /\ h.push.into # "kept" => Honest(h.rows, Allowed(h.push.rows)', h.push.into)
                        /\ h.push.time # 0 => h.time = h.push.time
      BY <1>2 DEF PushIsOwn, Due, Allowed, pushVars
    <3>1. /\ h.push.channel = Channel /\ Covers(Due(h.push.rows), h.rows, h.push.into)
          /\ h.push.into # "kept" => Honest(h.rows, Allowed(h.push.rows), h.push.into)
          /\ h.push.time # 0 => h.time = h.push.time
      BY PushIsOwnIs DEF PushInv
    <3>2. Due(h.push.rows)' \subseteq Due(h.push.rows) /\ Allowed(h.push.rows) \subseteq Allowed(h.push.rows)'
      BY <2>5
    <3>3. Covers(Due(h.push.rows)', h.rows, h.push.into)
      BY <3>1, <3>2, Widened
    <3>4. h.push.into # "kept" => Honest(h.rows, Allowed(h.push.rows)', h.push.into)
      BY <3>1, <3>2, Widened
    <3> QED
      BY <2>5, <3>1, <3>3, <3>4
  <2> QED
    BY <1>1, <2>6, <2>7, <2>8 DEF PushInv
<1> QED
  BY <1>3, <1>4

\* The Watch function on its way to its stream, and the end of the stream.
LEMMA WatchKeepsPush ==
  ASSUME PushInv, WatchStep
  PROVE  PushInv'
<1>1. LoadInv'
  <2>1. [RegistryNext]_registryVars
    BY PushesAssumption
    DEF WatchStep, Begin, GetRegistry, Ensured, Resolved, Register, Leaves, RegistryNext
  <2> QED
    BY <2>1, LoadInvStep DEF PushInv
<1>2. UNCHANGED pushVars /\ watch.call' = watch.call
  <2>1. watch \in [call : Watches, stage : Stages]
    BY DEF PushInv, CallInv
  <2> QED
    BY <2>1 DEF WatchStep, Begin, GetRegistry, Ensured, Resolved, Register, Leaves, Stage

<1>3. \A w \in Watches : w.kind \in Kinds
  BY ChannelsAssumption
<1>4. watch \in [call : Watches, stage : Stages] /\ shared \in Shared
  BY DEF PushInv, CallInv
<1>5. /\ Function(watch.call).ensures \in BOOLEAN /\ Function(watch.call).resolves \in BOOLEAN
      /\ Is = Function(watch.call) /\ Is' = Is
  BY <1>2, <1>3, <1>4, FunctionFacts DEF Is
<1>6. ASSUME WatchStep, ~Leaves PROVE PushInv'
  <2>1. wire = {} /\ handed = {}
    BY <1>6 DEF PushInv, WireInv, Streaming, WatchStep, Begin, GetRegistry, Ensured, Resolved, Register, In
  <2>2. wire' = {} /\ handed' = {}
    BY <1>2, <2>1 DEF pushVars
  <2>3. WireInv' /\ PushIsOwn'
    BY <2>2 DEF WireInv, HeldInv, PushIsOwn
  <2>4. CallInv'
    <3>0. at[Watcher] = "out" \/ watch.stage \in {"ensuring", "resolving"}
      BY DEF PushInv, CallInv
    <3>1. CASE Begin
      <4>1. /\ at[Watcher] = "out" /\ UNCHANGED registryVars
            /\ watch' = [watch EXCEPT !.stage = IF Is.ensures THEN "ensure" ELSE Resolving(watch.call)]
        BY <3>0, <3>1 DEF Begin, In, Stage
      <4>2. Resolving(watch.call) \in {"register", "failed", "resolve"}
            /\ (Resolving(watch.call) = "register" => ~Is.resolves)
        BY <1>5 DEF Resolving
      <4>3. watch'.stage \in {"ensure", "register", "failed", "resolve"}
            /\ watch' \in [call : Watches, stage : Stages]
            /\ (watch'.stage = "register" => ~Is.ensures /\ ~Is.resolves)
        BY <1>4, <1>5, <4>1, <4>2 DEF Stages
      <4> QED
        BY <1>2, <1>4, <1>5, <4>1, <4>3 DEF CallInv, Streaming, registryVars, pushVars
    <3>2. CASE GetRegistry
      <4>1. watch' = [watch EXCEPT !.stage = IF In("ensure") THEN "ensuring" ELSE "resolving"]
        BY <3>2 DEF GetRegistry, Stage
      <4>2. watch' \in [call : Watches, stage : Stages] /\ watch'.stage \in {"ensuring", "resolving"}
        BY <1>4, <4>1 DEF Stages
      <4> QED
        BY <1>2, <1>4, <4>2 DEF CallInv, Streaming, pushVars
    <3>3. CASE Ensured
      <4>1. /\ at[Watcher] = "out" /\ UNCHANGED registryVars
            /\ watch' = [watch EXCEPT !.stage = IF have[Watcher] = 0 THEN "failed" ELSE Resolving(watch.call)]
        BY <3>3 DEF Ensured, Stage
      <4>2. Resolving(watch.call) \in {"register", "failed", "resolve"}
            /\ (Resolving(watch.call) = "register" => ~Is.resolves)
        BY <1>5 DEF Resolving
      <4>3. watch'.stage \in {"register", "failed", "resolve"}
            /\ watch' \in [call : Watches, stage : Stages]
            /\ (watch'.stage = "register" => have[Watcher] # 0 /\ ~Is.resolves)
        BY <1>4, <4>1, <4>2 DEF Stages
      <4> QED
        BY <1>2, <1>4, <1>5, <4>1, <4>3 DEF CallInv, Streaming, registryVars, pushVars
    <3>4. CASE Resolved
      <4>1. /\ at[Watcher] = "out" /\ UNCHANGED registryVars
            /\ watch' = [watch EXCEPT !.stage =
                           IF have[Watcher] = 0 \/ ~Known(have[Watcher], watch.call.symbol) \/ watch.call.bad
                           THEN "failed" ELSE "register"]
        BY <3>4 DEF Resolved, Stage
      <4>2. watch'.stage \in {"register", "failed"}
            /\ watch' \in [call : Watches, stage : Stages]
            /\ (watch'.stage = "register" => have[Watcher] # 0 /\ Known(have[Watcher], watch.call.symbol))
        BY <1>4, <4>1 DEF Stages
      <4> QED
        BY <1>2, <1>4, <1>5, <4>1, <4>2 DEF CallInv, Streaming, registryVars, pushVars, Known
    <3>5. CASE Register
      <4>1. /\ watch.stage = "register" /\ UNCHANGED registryVars
            /\ \E st \in {"on", "failed"} : watch' = [watch EXCEPT !.stage = st]
        BY <3>5 DEF Register, Stage, In
      <4>2. watch'.stage \in {"on", "failed"} /\ watch' \in [call : Watches, stage : Stages]
        BY <1>4, <4>1 DEF Stages
      <4>3. /\ at[Watcher] = "out" /\ (Is.ensures \/ Is.resolves => have[Watcher] # 0)
            /\ (Is.resolves => Known(have[Watcher], watch.call.symbol))
        BY <4>1 DEF PushInv, CallInv
      <4> QED
        BY <1>2, <1>4, <1>5, <4>1, <4>2, <4>3 DEF CallInv, Streaming, registryVars, pushVars, Known
    <3> QED
      BY <1>6, <3>1, <3>2, <3>3, <3>4, <3>5 DEF WatchStep
  <2> QED
    BY <1>1, <2>3, <2>4 DEF PushInv
<1>7. CASE Leaves
  <2>1. watch' = [watch EXCEPT !.stage = "off"] /\ UNCHANGED <<registryVars, pushVars>> /\ Streaming
    BY <1>7 DEF Leaves, Stage, In, Streaming
  <2>2. watch'.stage = "off" /\ watch'.call = watch.call /\ watch' \in [call : Watches, stage : Stages]
        /\ Streaming'
    BY <1>4, <2>1 DEF Stages, Streaming
  <2>3. Channel' = Channel /\ (\A rows : Due(rows)' = Due(rows) /\ Allowed(rows)' = Allowed(rows))
    BY <1>5, <2>1, <2>2 DEF Channel, Due, Allowed, Throughout, AtSomeTime, registryVars
  <2>4. CallInv'
    <3>1. /\ at[Watcher] = "out" /\ (Is.ensures \/ Is.resolves => have[Watcher] # 0)
          /\ (Is.resolves => Known(have[Watcher], watch.call.symbol))
      BY <1>7 DEF Leaves, In, PushInv, CallInv, Streaming
    <3> QED
      BY <1>4, <1>5, <2>1, <2>2, <3>1 DEF CallInv, Streaming, pushVars, registryVars, Known
  <2>5. WireInv'
    BY <1>5, <2>1, <2>2, <2>3 DEF PushInv, WireInv, HeldInv, pushVars
  <2>6. PushIsOwn'
    BY <1>5, <2>1, <2>2, <2>3 DEF PushInv, PushIsOwn, Due, Allowed, pushVars
  <2> QED
    BY <1>1, <2>4, <2>5, <2>6 DEF PushInv
<1> QED
  BY <1>6, <1>7

\* What a row of a push is.
LEMMA CarriedRow ==
  ASSUME NEW k, NEW rows \in Carried(k), NEW r \in rows
  PROVE  \E ids : \E fee \in {0, k} : r \in [market : ids, n : {k}, fee : {fee}]
<1> DEFINE ids == IF Is.filters THEN {m.id : m \in Listings[listed]} ELSE {1, 2}
           fees == IF "kept" \in Is.into THEN {k} ELSE {0, k}
           Of(fee) == [market : ids, n : {k}, fee : {fee}]
<1>1. rows \in UNION {SUBSET Of(fee) : fee \in fees}
  BY DEF Carried
<1>2. fees \subseteq {0, k}
  OBVIOUS
<1>3. PICK fee \in fees : rows \in SUBSET Of(fee)
  <2> HIDE DEF ids, fees, Of
  <2> QED
    BY <1>1
<1>4. r \in [market : ids, n : {k}, fee : {fee}]
  BY <1>3
<1> HIDE DEF ids, fees
<1> QED
  BY <1>2, <1>3, <1>4

\* What is decoded shows what the push carried, and no row of the past unless it
\* is one struct that keeps what it has.
LEMMA Decoded ==
  ASSUME NEW k, NEW rows \in Carried(k), NEW into \in {"fresh", "truncated", "kept"},
         NEW fill, NEW time
  PROVE  /\ Covers(rows, decode(into, rows, fill, time).rows, into)
         /\ into # "kept" => Honest(decode(into, rows, fill, time).rows, rows, into)
         /\ time # 0 => decode(into, rows, fill, time).time = time
<1> DEFINE new == decode(into, rows, fill, time).rows
<1>1. \A r \in rows : Tells(r, r, into)
  BY DEF Tells
<1>2. time # 0 => decode(into, rows, fill, time).time = time
  BY DEF decode
<1>3. CASE into = "fresh"
  <2>1. new = rows
    BY <1>3 DEF decode
  <2> QED
    BY <1>1, <1>2, <2>1 DEF Covers, Honest
<1>4. CASE into = "kept"
  <2>1. rows \subseteq new
    BY <1>4 DEF decode
  <2> QED
    BY <1>1, <1>2, <1>4, <2>1 DEF Covers
<1>5. CASE into = "truncated"
  <2> DEFINE With(r) == [r EXCEPT !.fee = IF @ = 0 THEN fill[r] ELSE @]
  <2>1. new = {With(r) : r \in rows}
    BY <1>5 DEF decode, Filled
  <2>2. \A r \in rows : Tells(With(r), r, into)
    <3> SUFFICES ASSUME NEW r \in rows PROVE Tells(With(r), r, into)
      OBVIOUS
    <3>1. PICK ids, fee : r \in [market : ids, n : {k}, fee : {fee}]
      BY CarriedRow
    <3>2. With(r).market = r.market /\ With(r).n = r.n /\ (r.fee # 0 => With(r).fee = r.fee)
      BY <3>1
    <3> QED
      BY <1>5, <3>2 DEF Tells
  <2> HIDE DEF new, With
  <2>3. Covers(rows, new, into) /\ Honest(new, rows, into)
    BY <2>1, <2>2 DEF Covers, Honest
  <2> QED
    BY <1>2, <2>3 DEF new
<1> QED
  BY <1>3, <1>4, <1>5

\* The handler: a push of the stream's own channel is taken in, judged row by
\* row by the registry of the moment, and handed on.
LEMMA HandleKeepsPush ==
  ASSUME PushInv, HandleStep
  PROVE  PushInv'
<1>1. UNCHANGED <<registryVars, watch, shared>>
  BY DEF HandleStep, Arrive, Judge, Hand
<1>2. LoadInv'
  <2>1. [RegistryNext]_registryVars
    BY <1>1
  <2> QED
    BY <2>1, LoadInvStep DEF PushInv
<1>3. /\ Channel' = Channel /\ Is' = Is /\ Streaming' = Streaming
      /\ \A rows : Due(rows)' = Due(rows) /\ Allowed(rows)' = Allowed(rows)
  <2>1. watch' = watch /\ have' = have /\ listed' = listed
    BY <1>1 DEF registryVars
  <2> QED
    BY <2>1 DEF Channel, Is, Streaming, Due, Allowed, Throughout, AtSomeTime
<1>4. CallInv'
  BY <1>1, <1>3 DEF PushInv, CallInv, Known, registryVars
<1>5. CASE Arrive
  <2>1. Streaming /\ wire = {} /\ kept' = {} /\ handed' = {}
    BY <1>5 DEF Arrive, In, Streaming
  <2>2. PICK channel \in shared \cup {Channel}, into \in Is.into,
             rows \in Carried(pushes + 1), time \in {0, pushes + 1} :
          /\ Channel \in Lookup(RouteKey(OnTheWire(channel)), shared \cup {Channel})
          /\ \E fill \in [rows -> frame.held] : frame' = decode(into, rows, fill, time)
          /\ \/ /\ wire' = {[channel |-> channel, into |-> into, rows |-> rows, time |-> time]}
                /\ left' = frame'.rows
             \/ UNCHANGED <<wire, left>>
    BY <1>5 DEF Arrive
  <2>3. channel = Channel
    <3>1. Channel \in Channels
      BY <2>1, OwnChannel DEF PushInv
    <3>2. shared \subseteq Channels
      BY ChannelsAssumption DEF PushInv, CallInv
    <3>3. shared \cup {Channel} \in SUBSET Channels
      BY <3>1, <3>2
    <3> QED
      BY <2>2, <3>3, RoutedHome
  <2>4. HeldInv'
    <3> SUFFICES ASSUME NEW p \in wire'
                 PROVE  /\ p.channel = Channel'
                        /\ Covers(Due(p.rows)', left' \cup kept', p.into)
                        /\ p.into # "kept" => /\ Honest(left', p.rows, p.into)
                                              /\ Honest(kept', Allowed(p.rows)', p.into)
                        /\ p.time # 0 => frame'.time = p.time
      BY DEF HeldInv
    <3>1. p = [channel |-> channel, into |-> into, rows |-> rows, time |-> time] /\ left' = frame'.rows
      BY <2>1, <2>2
    <3>2. p.channel = channel /\ p.into = into /\ p.rows = rows /\ p.time = time
      BY <3>1
    <3>3. Due(rows) \subseteq rows
      BY DEF Due, Throughout
    <3>4. into \in {"fresh", "truncated", "kept"}
      <4>1. watch.call.kind \in Kinds
        BY ChannelsAssumption DEF PushInv, CallInv
      <4> QED
        BY <2>2, <4>1, FunctionFacts DEF Is
    <3>6. PICK fill : frame' = decode(into, rows, fill, time)
      BY <2>2
    <3>7. /\ Covers(rows, frame'.rows, into)
          /\ into # "kept" => Honest(frame'.rows, rows, into)
          /\ time # 0 => frame'.time = time
      BY <3>4, <3>6, Decoded
    <3>8. Covers(Due(rows), left' \cup kept', into)
      BY <2>1, <3>1, <3>3, <3>7, Widened
    <3>9. Honest(kept', Allowed(rows), into)
      BY <2>1 DEF Honest
    <3> QED
      BY <1>3, <2>1, <2>3, <3>1, <3>2, <3>7, <3>8, <3>9
  <2>5. WireInv' /\ PushIsOwn'
    BY <1>3, <2>1, <2>4 DEF WireInv, PushIsOwn
  <2> QED
    BY <1>2, <1>4, <2>5 DEF PushInv
<1>6. CASE Judge
  <2>1. PICK r \in left : /\ left' = left \ {r}
                          /\ kept' = IF Is.filters => Owns(r.market) THEN kept \cup {r} ELSE kept
    BY <1>6 DEF Judge
  <2>2. wire # {} /\ wire' = wire /\ frame' = frame /\ handed' = handed
    BY <1>6 DEF Judge
  <2>3. Streaming /\ (Is.filters => have[Watcher] # 0)
    <3>1. Streaming
      BY <2>2 DEF PushInv, WireInv
    <3>2. watch.call.kind \in Kinds
      BY ChannelsAssumption DEF PushInv, CallInv
    <3>3. Is.filters => Is.ensures
      BY <3>2, FunctionFacts DEF Is
    <3> QED
      BY <3>1, <3>3 DEF PushInv, CallInv
  <2>4. Is.filters => current \in have[Watcher]..listed /\ current # 0
    BY <2>3, PushesAssumption DEF PushInv, LoadInv, RegistryTypeOK
  <2>5. \A rows : \A d \in Due(rows) : d.market = r.market => r \in kept'
    <3> SUFFICES ASSUME NEW rows, NEW d \in Due(rows), d.market = r.market
                 PROVE  Is.filters => Owns(r.market)
      BY <2>1
    <3> QED
      BY <2>4 DEF Due, Throughout, Owns
  <2>6. \A rows : \A d \in rows : d.market = r.market /\ r \in kept' \ kept => d \in Allowed(rows)
    <3> SUFFICES ASSUME NEW rows, NEW d \in rows, d.market = r.market, Is.filters => Owns(r.market)
                 PROVE  d \in Allowed(rows)
      BY <2>1
    <3> QED
      BY <2>4 DEF Allowed, AtSomeTime, Owns
  <2>7. HeldInv'
    <3> SUFFICES ASSUME NEW p \in wire
                 PROVE  /\ p.channel = Channel'
                        /\ Covers(Due(p.rows)', left' \cup kept', p.into)
                        /\ p.into # "kept" => /\ Honest(left', p.rows, p.into)
                                              /\ Honest(kept', Allowed(p.rows)', p.into)
                        /\ p.time # 0 => frame'.time = p.time
      BY <2>2 DEF HeldInv
    <3>1. /\ p.channel = Channel /\ Covers(Due(p.rows), left \cup kept, p.into)
          /\ p.into # "kept" => Honest(left, p.rows, p.into) /\ Honest(kept, Allowed(p.rows), p.into)
          /\ p.time # 0 => frame.time = p.time
      BY DEF PushInv, WireInv, HeldInv
    <3>2. Covers(Due(p.rows), left' \cup kept', p.into)
      <4> SUFFICES ASSUME NEW d \in Due(p.rows)
                   PROVE  \E s \in left' \cup kept' : Tells(s, d, p.into)
        BY DEF Covers
      <4>1. PICK s \in left \cup kept : Tells(s, d, p.into)
        BY <3>1 DEF Covers
      <4>2. s = r => s \in kept'
        BY <2>5, <4>1 DEF Tells
      <4> QED
        BY <2>1, <4>1, <4>2
    <3>3. ASSUME p.into # "kept"
          PROVE  Honest(left', p.rows, p.into) /\ Honest(kept', Allowed(p.rows), p.into)
      <4>1. Honest(left', p.rows, p.into)
        BY <2>1, <3>1, <3>3, Widened
      <4>2. PICK d \in p.rows : Tells(r, d, p.into)
        BY <3>1, <3>3 DEF Honest
      <4>3. r \in kept' \ kept => d \in Allowed(p.rows)
        BY <2>6, <4>2 DEF Tells
      <4>4. kept' \subseteq kept \cup {r}
        BY <2>1
      <4>5. Honest(kept', Allowed(p.rows), p.into)
        BY <3>1, <3>3, <4>2, <4>3, <4>4 DEF Honest
      <4> QED
        BY <4>1, <4>5
    <3> QED
      BY <1>3, <2>2, <3>1, <3>2, <3>3
  <2>8. WireInv'
    BY <1>3, <2>3, <2>7 DEF WireInv
  <2>9. PushIsOwn'
    BY <1>3, <2>2 DEF PushInv, PushIsOwn, Due, Allowed
  <2> QED
    BY <1>2, <1>4, <2>8, <2>9 DEF PushInv
<1>7. CASE Hand
  <2>1. wire # {} /\ left = {} /\ wire' = {}
    BY <1>7 DEF Hand
  <2>2. PICK p \in wire : handed' = {[push |-> p, rows |-> kept, time |-> frame.time]}
    BY <1>7 DEF Hand
  <2>3. /\ p.channel = Channel /\ Covers(Due(p.rows), kept, p.into)
        /\ p.into # "kept" => Honest(kept, Allowed(p.rows), p.into)
        /\ p.time # 0 => frame.time = p.time
    <3>1. left \cup kept = kept
      BY <2>1
    <3> QED
      BY <3>1 DEF PushInv, WireInv, HeldInv
  <2>4. PushIsOwn'
    <3> SUFFICES ASSUME NEW h \in handed'
                 PROVE  /\ h.push.channel = Channel'
                        /\ Covers(Due(h.push.rows)', h.rows, h.push.into)
                        /\ h.push.into # "kept" => Honest(h.rows, Allowed(h.push.rows)', h.push.into)
                        /\ h.push.time # 0 => h.time = h.push.time
      BY DEF PushIsOwn, Due, Allowed
    <3>1. h.push = p /\ h.rows = kept /\ h.time = frame.time
      BY <2>2
    <3> QED
      BY <1>3, <2>3, <3>1
  <2>5. WireInv'
    BY <1>3, <2>1 DEF PushInv, WireInv, HeldInv
  <2> QED
    BY <1>2, <1>4, <2>4, <2>5 DEF PushInv
<1> QED
  BY <1>5, <1>6, <1>7 DEF HandleStep

LEMMA PushInvStep ==
  ASSUME PushInv, [Next]_vars
  PROVE  PushInv'
<1>1. CASE UNCHANGED <<registryVars, watch, pushVars>>
  <2>1. LoadInv'
    BY <1>1, LoadInvStep DEF PushInv
  <2>2. CallInv' /\ WireInv' /\ PushIsOwn'
    <3>0. UNCHANGED <<registryVars, watch>> /\ UNCHANGED pushVars
      BY <1>1
    <3>1. CallInv'
      BY <3>0, Zenon DEF PushInv, CallInv, HeldInv, Due, Allowed, Throughout, AtSomeTime,
                         Channel, Is, Streaming, Known, registryVars, pushVars
    <3>2. WireInv'
      BY <3>0, Zenon DEF PushInv, WireInv, HeldInv, Due, Allowed, Throughout, AtSomeTime,
                         Channel, Is, Streaming, Known, registryVars, pushVars
    <3>3. PushIsOwn'
      BY <3>0, Zenon DEF PushInv, PushIsOwn, Due, Allowed, Throughout, AtSomeTime,
                         Channel, Is, Streaming, Known, registryVars, pushVars
    <3> QED BY <3>1, <3>2, <3>3
  <2> QED
    BY <2>1, <2>2 DEF PushInv
<1>2. CASE StreamMoves
  BY <1>2, WatchKeepsPush, HandleKeepsPush DEF StreamMoves
<1>3. CASE RegistryMoves
  BY <1>3, RegistryKeepsPush
<1>4. CASE BookMoves
  BY <1>1, <1>4 DEF BookMoves
<1>5. CASE TrackerMoves
  BY <1>1, <1>5 DEF TrackerMoves
<1>6. CASE UNCHANGED vars
  BY <1>1, <1>6 DEF vars
<1> QED
  BY <1>2, <1>3, <1>4, <1>5, <1>6 DEF Next

\* What a stream is handed is a push of its own channel and what that push
\* carried, filtered by markets the section had (see PushIsOwn).
THEOREM PushesAreOwn == Spec => []PushIsOwn
<1>1. PushInv => PushIsOwn
  BY DEF PushInv
<1> QED
  BY <1>1, PushInvInit, PushInvStep, PTL DEF Spec
-----------------------------------------------------------------------------
(***************************************************************************)
(* The streams together: each part runs as its own specification allows,   *)
(* whatever the others do.                                                 *)
(***************************************************************************)
BatchOK == batch \in Seq([hash : Hashes, pending : BOOLEAN])

LEMMA BatchInit == Init => BatchOK
<1> <<>> \in Seq([hash : Hashes, pending : BOOLEAN])
  OBVIOUS
<1> QED
  BY DEF Init, BatchOK

LEMMA BatchStep == BatchOK /\ [Next]_vars => BatchOK'
<1> SUFFICES ASSUME BatchOK, [Next]_vars PROVE BatchOK'
  OBVIOUS
<1>1. CASE Batch
  BY <1>1, StreamsAssumption DEF Batch, BatchOK
<1>2. CASE Report
  <2>1. batch # <<>> /\ batch' = Tail(batch)
    BY <1>2 DEF Report
  <2> QED
    BY <2>1, HeadTailProperties DEF BatchOK
<1>3. CASE UNCHANGED batch
  BY <1>3 DEF BatchOK
<1> QED
  BY <1>1, <1>2, <1>3 DEF Next, vars, StreamMoves, RegistryMoves, BookMoves, TrackerMoves

LEMMA BookStep == [Next]_vars => [BookNext]_localBookVars
  BY DEF Next, vars, StreamMoves, RegistryMoves, BookMoves, TrackerMoves

LEMMA TrackerStep == BatchOK /\ [Next]_vars => [TrackerNext]_trackerVars
<1> SUFFICES ASSUME BatchOK, [Next]_vars PROVE [TrackerNext]_trackerVars
  OBVIOUS
<1>1. CASE StreamMoves \/ RegistryMoves \/ BookMoves \/ UNCHANGED vars
  BY <1>1 DEF vars, StreamMoves, RegistryMoves, BookMoves
<1>2. CASE TrackerMoves
  <2>1. CASE Batch
    BY <2>1 DEF Batch
  <2>2. CASE Report
    <3>1. batch # <<>> /\ (UNCHANGED trackerVars \/ Record(Mine, Head(batch).hash))
      BY <2>2 DEF Report
    <3>2. Head(batch) \in [hash : Hashes, pending : BOOLEAN]
      BY <3>1, HeadTailProperties DEF BatchOK
    <3>3. Head(batch).hash \in Hashes /\ Mine \in Observers
      BY <3>2, StreamsAssumption
    <3> QED
      BY <3>1, <3>3 DEF TrackerNext, Observe
  <2>3. ASSUME NEW c \in Calls, Await(c) PROVE TrackerNext
    BY <2>3 DEF TrackerNext
  <2>4. ASSUME NEW o \in Observers, Wake(o) \/ Observe(o) PROVE TrackerNext
    BY <2>4 DEF TrackerNext, Observe
  <2> QED
    BY <1>2, <2>1, <2>2, <2>3, <2>4, StreamsAssumption DEF TrackerMoves
<1> QED
  BY <1>1, <1>2 DEF Next

\* The streams run the registry, the book and the tracker each by its own rules:
\* what is proved of one of them alone holds of it under the streams.
THEOREM StreamsImplement == Spec => RegistrySpec /\ BookSpec /\ TrackerSpec
<1>1. Init => RegistryInit /\ BookInit /\ TrackerInit
  BY DEF Init
<1> QED
  BY <1>1, BatchInit, BatchStep, RegistryStep, BookStep, TrackerStep, PTL
  DEF Spec, RegistrySpec, BookSpec, TrackerSpec

LEMMA PushTypeInit == Init => PushTypeOK
<1> SUFFICES ASSUME Init PROVE PushTypeOK
  OBVIOUS
<1>1. Cardinality({}) = 0
  BY FS_EmptySet
<1> QED
  BY <1>1, PushesAssumption DEF Init, PushInit, PushTypeOK

LEMMA PushTypeStep == PushInv /\ PushInv' /\ PushTypeOK /\ [Next]_vars => PushTypeOK'
<1> SUFFICES ASSUME PushInv, PushInv', PushTypeOK, [Next]_vars PROVE PushTypeOK'
  OBVIOUS
<1>0. Cardinality({}) = 0 /\ \A x : Cardinality({x}) = 1
  BY FS_EmptySet, FS_Singleton
<1>1. watch'.call \in Watches /\ watch'.stage \in Stages /\ shared' \in Shared
  BY DEF PushInv, CallInv
<1>2. CASE UNCHANGED pushVars
  BY <1>1, <1>2 DEF PushTypeOK, Stages, pushVars
<1>3. CASE Arrive
  <2>1. pushes' = pushes + 1 /\ pushes < MaxPushes /\ pushes \in Nat /\ MaxPushes \in Nat /\ wire = {}
    BY <1>3, PushesAssumption DEF Arrive, PushTypeOK
  <2>2. PICK rows \in Carried(pushes + 1), time \in {0, pushes + 1} :
          \E into, fill : frame' = decode(into, rows, fill, time)
    BY <1>3 DEF Arrive
  <2>3. frame'.time \in 0..pushes'
    BY <2>1, <2>2 DEF decode, PushTypeOK
  <2>4. handed' = {} /\ (wire' = {} \/ \E p : wire' = {p})
    BY <1>3, <2>1 DEF Arrive
  <2>5. frame'.held \subseteq 0..pushes'
    <3>1. \A r \in rows : r.fee \in 0..pushes'
      <4> SUFFICES ASSUME NEW r \in rows PROVE r.fee \in 0..pushes'
        OBVIOUS
      <4>1. PICK ids, fee : fee \in {0, pushes + 1} /\ r \in [market : ids, n : {pushes + 1}, fee : {fee}]
        BY CarriedRow
      <4>2. r.fee = fee
        BY <4>1
      <4> QED
        BY <2>1, <4>1, <4>2
    <3>2. frame'.held \subseteq frame.held \cup {r.fee : r \in rows}
      BY <2>2 DEF decode, Held
    <3> QED
      BY <2>1, <3>1, <3>2 DEF PushTypeOK
  <2>6. pushes' \in 0..MaxPushes
    BY <2>1
  <2>7. Cardinality(wire') <= 1 /\ Cardinality(handed') <= 1
    <3>1. Cardinality(handed') = 0 /\ (wire' = {} => Cardinality(wire') = 0)
      BY <1>0, <2>4, Zenon
    <3>2. wire' # {} => Cardinality(wire') = 1
      BY <1>0, <2>4, Zenon
    <3> QED
      BY <3>1, <3>2
  <2> QED
    BY <1>1, <2>3, <2>5, <2>6, <2>7 DEF PushTypeOK, Stages
<1>4. CASE Judge
  BY <1>1, <1>4 DEF Judge, PushTypeOK, Stages
<1>5. CASE Hand
  <2>1. wire' = {} /\ pushes' = pushes /\ frame' = frame
    BY <1>5 DEF Hand
  <2>2. PICK h : handed' = {h}
    BY <1>5 DEF Hand
  <2>3. Cardinality(handed') = 1 /\ Cardinality(wire') = 0
    BY <1>0, <2>1, <2>2
  <2> QED
    BY <1>1, <2>1, <2>3 DEF PushTypeOK, Stages
<1> QED
  BY <1>2, <1>3, <1>4, <1>5
  DEF Next, vars, pushVars, StreamMoves, HandleStep, WatchStep, RegistryMoves, BookMoves, TrackerMoves,
      Begin, GetRegistry, Ensured, Resolved, Register, Leaves

\* The variables of the streams and of all they maintain keep their types.
THEOREM StreamsTypeCorrect == Spec => []TypeOK
<1>1. PushInv => RegistryTypeOK
  BY DEF PushInv, LoadInv
<1>2. Spec => [](RegistryTypeOK /\ PushTypeOK)
  BY <1>1, PushInvInit, PushInvStep, PushTypeInit, PushTypeStep, PTL DEF Spec
<1>3. Spec => []BatchOK
  BY BatchInit, BatchStep, PTL DEF Spec
<1>4. Spec => [](BookTypeOK /\ TrackerTypeOK)
  BY StreamsImplement, BookFollows, TrackerTypeCorrect, PTL
<1>5. RegistryTypeOK /\ PushTypeOK /\ BatchOK /\ BookTypeOK /\ TrackerTypeOK => TypeOK
  BY DEF TypeOK, BatchOK
<1> QED
  BY <1>2, <1>3, <1>4, <1>5, PTL

\* What a stream shows, hands on and remembers is right, whichever streams run,
\* whatever else is subscribed, and however the markets change meanwhile.
THEOREM StreamsCorrect == Spec => [](PushIsOwn /\ BookIsExact /\ RingIsNewest /\ NobodyForgotten)
  BY StreamsImplement, PushesAreOwn, BookFollows, RingKeepsNewest, TrackerForgetsNobody, PTL
=============================================================================
