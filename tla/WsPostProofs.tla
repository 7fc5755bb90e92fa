----------------------------- MODULE WsPostProofs -----------------------------
(***************************************************************************)
(* Proofs about WsPost, for any number of posts and sockets.               *)
(***************************************************************************)
EXTENDS WsPost, FiniteSetTheorems, TLAPS

\* The calls that took an id of the connection.
Entered == {c \in Calls : call[c].id # 0}

\* An id belongs to one call, and there are as many ids as calls that took one.
IdInv ==
  /\ postSeq = Cardinality(Entered)
  /\ \A c \in Calls : /\ call[c].id <= postSeq
                      /\ call[c].pc = "idle" => call[c].id = 0
                      /\ call[c].pc \in {"register", "write", "wait", "drop"} => call[c].id # 0
  /\ \A c, d \in Calls : call[c].id = call[d].id /\ call[c].id # 0 => c = d

LEMMA CallsAreCounted == Cardinality(Calls) \in Nat
  BY CallsAssumption, FS_CardinalityType

LEMMA TypeInit == Init => TypeOK /\ IdInv
<1> SUFFICES ASSUME Init PROVE TypeOK /\ IdInv
  OBVIOUS
<1>1. Entered = {}
  BY DEF Init, NewCall, Entered
<1>2. call \in [Calls -> CallType]
  BY CallsAreCounted, SocketsAssumption DEF Init, NewCall, CallType
<1>3. closer \in [pc : {"idle", "cancel", "fail", "done"}, sock : 0..MaxSockets, cancel : BOOLEAN]
  BY SocketsAssumption DEF Init
<1>4. /\ pending \in [Ids -> Calls \cup {None}]
      /\ reader \in [to : Calls \cup {None}, frame : SUBSET Frames]
  BY DEF Init
<1>5. 0 \in 0..MaxSockets /\ 0 \in 0..Cardinality(Calls)
  BY CallsAreCounted, SocketsAssumption
<1>6. TypeOK
  BY <1>2, <1>3, <1>4, <1>5 DEF Init, TypeOK
<1> QED
  BY <1>1, <1>6, FS_EmptySet DEF Init, NewCall, IdInv

\* What keeps the calls' ids keeps IdInv.
LEMMA SameIds ==
  ASSUME TypeOK, IdInv, UNCHANGED postSeq,
         \A c \in Calls : /\ call'[c].id = call[c].id
                          /\ call'[c].pc = "idle" => call[c].pc = "idle"
                          /\ call'[c].pc \in {"register", "write", "wait", "drop"} =>
                               call[c].pc \in {"register", "write", "wait", "drop"}
  PROVE  IdInv'
<1>1. Entered' = Entered
  BY DEF Entered
<1> QED
  BY <1>1 DEF IdInv

LEMMA EnterStep ==
  ASSUME TypeOK, IdInv, NEW c \in Calls, Enter(c)
  PROVE  TypeOK' /\ IdInv'
<1>t. call \in [Calls -> CallType]
  BY DEF TypeOK
<1>0. call[c].pc = "idle" /\ call[c].id = 0
  BY DEF Enter, At, IdInv
<1>1. CASE closed \/ socket = 0
  <2>1. PICK r \in Errors : call' = [call EXCEPT ![c].pc = "done", ![c].result = r]
    BY <1>1 DEF Enter, Errors
  <2>2. UNCHANGED <<closed, link, ctxDone, closer, postSeq, pending, pendingMu, reader, wire>>
    BY <1>1 DEF Enter
  <2>3. call' \in [Calls -> CallType]
    <3>1. [call[c] EXCEPT !.pc = "done", !.result = r] \in CallType
      BY <1>t DEF CallType
    <3> QED
      BY <1>t, <2>1, <3>1
  <2>4. \A d \in Calls : call'[d].id = call[d].id /\ call'[d].pc \in {call[d].pc, "done"}
    BY <1>t, <2>1 DEF CallType
  <2>5. TypeOK'
    BY <2>2, <2>3 DEF TypeOK, link, wire
  <2> QED
    BY <2>2, <2>4, <2>5, SameIds
<1>2. CASE ~(closed \/ socket = 0)
  <2>1. /\ call' = [call EXCEPT ![c].pc = "register", ![c].sock = socket, ![c].id = postSeq + 1]
        /\ postSeq' = postSeq + 1
        /\ UNCHANGED <<closed, link, ctxDone, closer, pending, pendingMu, reader, wire>>
    BY <1>2 DEF Enter
  <2>2. socket \in 0..MaxSockets /\ postSeq \in Nat
    BY CallsAreCounted DEF TypeOK
  <2>3. \A d \in Calls : /\ call'[d].id = IF d = c THEN postSeq + 1 ELSE call[d].id
                         /\ call'[d].pc = IF d = c THEN "register" ELSE call[d].pc
                         /\ call[d].id \in Nat
    BY <1>t, <2>1, CallsAreCounted DEF CallType
  <2>4. Entered' = Entered \cup {c} /\ c \notin Entered
    BY <1>0, <2>2, <2>3 DEF Entered
  <2>5. IsFiniteSet(Entered)
    BY CallsAssumption, FS_Subset DEF Entered
  <2>6. Cardinality(Entered') = Cardinality(Entered) + 1
    BY <2>4, <2>5, FS_AddElement
  <2>7. Cardinality(Entered') <= Cardinality(Calls)
    BY CallsAssumption, FS_Subset DEF Entered
  <2>8. postSeq + 1 \in 0..Cardinality(Calls)
    BY <2>2, <2>6, <2>7, CallsAreCounted DEF IdInv
  <2>9. call' \in [Calls -> CallType]
    <3>1. [call[c] EXCEPT !.pc = "register", !.sock = socket, !.id = postSeq + 1] \in CallType
      BY <1>t, <2>2, <2>8 DEF CallType
    <3> QED
      BY <1>t, <2>1, <3>1
  <2>10. TypeOK'
    BY <2>1, <2>8, <2>9 DEF TypeOK, link, wire
  <2>11. \A d \in Calls : /\ call'[d].id <= postSeq'
                          /\ call'[d].pc = "idle" => call'[d].id = 0
                          /\ call'[d].pc \in {"register", "write", "wait", "drop"} => call'[d].id # 0
    <3>1. \A d \in Calls : /\ call[d].id <= postSeq
                           /\ call[d].pc = "idle" => call[d].id = 0
                           /\ call[d].pc \in {"register", "write", "wait", "drop"} => call[d].id # 0
      BY DEF IdInv
    <3>2. call'[c].id = postSeq + 1 /\ call'[c].pc = "register"
      BY <2>3
    <3>3. \A d \in Calls \ {c} : call'[d].id = call[d].id /\ call'[d].pc = call[d].pc /\ call[d].id \in Nat
      BY <2>3
    <3>4. postSeq' = postSeq + 1 /\ postSeq \in Nat
      BY <2>1, <2>2
    <3> QED
      BY <3>1, <3>2, <3>3, <3>4
  <2>12. \A d, e \in Calls : call'[d].id = call'[e].id /\ call'[d].id # 0 => d = e
    <3>1. \A d \in Calls : d # c => call'[d].id # call'[c].id
      <4>1. \A d \in Calls : call[d].id <= postSeq
        BY DEF IdInv
      <4> QED
        BY <2>2, <2>3, <4>1
    <3>2. \A d, e \in Calls : d # c /\ e # c /\ call'[d].id = call'[e].id /\ call'[d].id # 0 => d = e
      BY <2>3 DEF IdInv
    <3> QED
      BY <3>1, <3>2
  <2> QED
    BY <2>1, <2>6, <2>10, <2>11, <2>12 DEF IdInv
<1> QED
  BY <1>1, <1>2

LEMMA PostTypeStep ==
  ASSUME TypeOK, IdInv, NEW c \in Calls, Post(c)
  PROVE  TypeOK' /\ IdInv'
<1>t. call \in [Calls -> CallType] /\ pending \in [Ids -> Calls \cup {None}]
  BY DEF TypeOK
<1>0. At(c, "write") => call[c].id \in Ids
  BY <1>t, CallsAreCounted DEF At, IdInv, Ids, CallType
<1>e. /\ "Write" \in Errors /\ "Timeout" \in Errors
      /\ \A error \in {"Disconnected", "ConnClosed"} : error \in Errors
  BY DEF Errors
<1>1. CASE Enter(c)
  BY <1>1, EnterStep
<1>2. CASE Register(c)
  <2>1. call' \in [Calls -> CallType]
    BY <1>t, <1>2 DEF Register, CallType
  <2>2. pending' \in [Ids -> Calls \cup {None}]
    BY <1>t, <1>2 DEF Register
  <2>3. TypeOK'
    BY <1>2, <2>1, <2>2 DEF Register, TypeOK, link, wire
  <2>4. \A d \in Calls : call'[d].id = call[d].id
                         /\ call'[d].pc = IF d = c THEN "write" ELSE call[d].pc
    BY <1>t, <1>2 DEF Register, CallType
  <2> QED
    BY <1>2, <2>3, <2>4, SameIds DEF Register, At
<1>3. CASE Write(c)
  <2>1. call' \in [Calls -> CallType]
    BY <1>t, <1>3 DEF Write, CallType
  <2>2. [sock |-> call[c].sock, id |-> call[c].id, of |-> c] \in Frames
    <3>1. call[c].sock \in Sockets
      BY <1>3 DEF Write, TypeOK
    <3> QED
      BY <1>0, <1>3, <3>1 DEF Write, Frames
  <2>3. requests' \subseteq Frames
    BY <1>3, <2>2 DEF Write, TypeOK
  <2>4. TypeOK'
    BY <1>3, <2>1, <2>3 DEF Write, TypeOK, link
  <2>5. \A d \in Calls : call'[d].id = call[d].id
                         /\ call'[d].pc = IF d = c THEN "wait" ELSE call[d].pc
    BY <1>t, <1>3 DEF Write, CallType
  <2> QED
    BY <1>3, <2>4, <2>5, SameIds DEF Write, At
<1>4. CASE WriteFails(c)
  <2>1. call' \in [Calls -> CallType]
    <3>1. [call[c] EXCEPT !.pc = "drop", !.result = "Write"] \in CallType
      BY <1>t, <1>e DEF CallType
    <3> QED
      BY <1>t, <1>4, <3>1 DEF WriteFails
  <2>2. TypeOK'
    BY <1>4, <2>1 DEF WriteFails, TypeOK, link, wire
  <2>3. \A d \in Calls : call'[d].id = call[d].id
                         /\ call'[d].pc = IF d = c THEN "drop" ELSE call[d].pc
    BY <1>t, <1>4 DEF WriteFails, CallType
  <2> QED
    <3>1. UNCHANGED postSeq /\ call[c].pc = "write"
      BY <1>4 DEF WriteFails, At
    <3> QED
      BY <2>2, <2>3, <3>1, SameIds
<1>5. CASE TakeReply(c)
  <2>1. call' \in [Calls -> CallType]
    BY <1>t, <1>5 DEF TakeReply, CallType
  <2>2. TypeOK'
    BY <1>5, <2>1 DEF TakeReply, TypeOK, link, wire
  <2>3. \A d \in Calls : call'[d].id = call[d].id /\ call'[d].pc \in {call[d].pc, "done"}
    BY <1>t, <1>5 DEF TakeReply, CallType
  <2> QED
    BY <1>5, <2>2, <2>3, SameIds DEF TakeReply
<1>6. CASE TakeErr(c)
  <2>0. PICK error \in call[c].err :
          call' = [call EXCEPT ![c].pc = "done", ![c].err = {}, ![c].result = error]
    BY <1>6 DEF TakeErr
  <2>1. error \in Errors
    BY <1>t, <1>e, <2>0 DEF CallType
  <2>2. call' \in [Calls -> CallType]
    BY <1>t, <2>0, <2>1 DEF CallType
  <2>3. TypeOK'
    BY <1>6, <2>2 DEF TakeErr, TypeOK, link, wire
  <2>4. \A d \in Calls : call'[d].id = call[d].id /\ call'[d].pc \in {call[d].pc, "done"}
    BY <1>t, <2>0 DEF CallType
  <2> QED
    BY <1>6, <2>3, <2>4, SameIds DEF TakeErr
<1>7. CASE GiveUp(c)
  <2>1. call' \in [Calls -> CallType]
    <3>1. [call[c] EXCEPT !.pc = "drop", !.result = "Timeout"] \in CallType
      BY <1>t, <1>e DEF CallType
    <3> QED
      BY <1>t, <1>7, <3>1 DEF GiveUp
  <2>2. TypeOK'
    BY <1>7, <2>1 DEF GiveUp, TypeOK, link, wire
  <2>3. \A d \in Calls : call'[d].id = call[d].id
                         /\ call'[d].pc = IF d = c THEN "drop" ELSE call[d].pc
    BY <1>t, <1>7 DEF GiveUp, CallType
  <2> QED
    <3>1. UNCHANGED postSeq /\ call[c].pc = "wait"
      BY <1>7 DEF GiveUp, At
    <3> QED
      BY <2>2, <2>3, <3>1, SameIds
<1>8. CASE DropPending(c)
  <2>1. call' \in [Calls -> CallType]
    BY <1>t, <1>8 DEF DropPending, CallType
  <2>2. pending' \in [Ids -> Calls \cup {None}]
    BY <1>t, <1>8 DEF DropPending
  <2>3. TypeOK'
    BY <1>8, <2>1, <2>2 DEF DropPending, TypeOK, link, wire
  <2>4. \A d \in Calls : call'[d].id = call[d].id /\ call'[d].pc \in {call[d].pc, "done"}
    BY <1>t, <1>8 DEF DropPending, CallType
  <2> QED
    BY <1>8, <2>3, <2>4, SameIds DEF DropPending
<1> QED
  BY <1>1, <1>2, <1>3, <1>4, <1>5, <1>6, <1>7, <1>8 DEF Post

\* What an outside actor does to a call: it fills one of its channels.
LEMMA FailOneType ==
  ASSUME TypeOK, NEW who, NEW error \in {"Disconnected", "ConnClosed"}, FailOne(who, error)
  PROVE  /\ call' \in [Calls -> CallType] /\ pending' \in [Ids -> Calls \cup {None}]
         /\ \A d \in Calls : call'[d].id = call[d].id /\ call'[d].pc = call[d].pc
<1>1. PICK id \in Ids : /\ pending[id] # None
                        /\ call' = [call EXCEPT ![pending[id]].err = {error}]
                        /\ pending' = [pending EXCEPT ![id] = None]
  BY DEF FailOne
<1>2. pending[id] \in Calls /\ call \in [Calls -> CallType] /\ pending \in [Ids -> Calls \cup {None}]
  BY <1>1 DEF TypeOK
<1> QED
  BY <1>1, <1>2 DEF CallType

LEMMA SupervisorTypeStep ==
  ASSUME TypeOK, IdInv, Supervisor
  PROVE  TypeOK' /\ IdInv'
<1>t. call \in [Calls -> CallType] /\ pending \in [Ids -> Calls \cup {None}]
  BY DEF TypeOK
<1>q. UNCHANGED <<call, postSeq>> => IdInv'
  BY SameIds
<1>1. CASE StartIt \/ Attempt \/ DialFails \/ ReadFails \/ BackOff
  <2>1. /\ UNCHANGED <<closed, socket, dialled, open, wired, ctxDone, closer, postSeq, pending,
                       pendingMu, reader, call, wire>>
        /\ sup' \in {"top", "stopped", "dialling", "backoff", "unpublish"}
    BY <1>1 DEF StartIt, Attempt, DialFails, ReadFails, BackOff
  <2>2. TypeOK'
    BY <2>1 DEF TypeOK, wire
  <2> QED
    BY <1>q, <2>1, <2>2
<1>2. CASE Dialled
  <2>1. dialled' \in 0..MaxSockets /\ dialled' \in Sockets
    BY <1>2, SocketsAssumption DEF Dialled, TypeOK, Sockets
  <2>2. TypeOK'
    BY <1>2, <2>1 DEF Dialled, TypeOK, wire
  <2> QED
    BY <1>2, <1>q, <2>2 DEF Dialled
<1>3. CASE Publish
  <2>1. TypeOK'
    BY <1>3 DEF Publish, TypeOK, wire
  <2> QED
    BY <1>3, <1>q, <2>1 DEF Publish
<1>4. ASSUME NEW f \in Frames, Receive(f) PROVE TypeOK' /\ IdInv'
  <2>1. f.id \in Ids
    BY DEF Frames
  <2>2. /\ pending' \in [Ids -> Calls \cup {None}]
        /\ reader' \in [to : Calls \cup {None}, frame : SUBSET Frames]
    BY <1>4, <1>t, <2>1 DEF Receive, Waiter, TypeOK
  <2>3. TypeOK'
    BY <1>4, <2>2 DEF Receive, TypeOK, link
  <2> QED
    BY <1>4, <1>q, <2>3 DEF Receive
<1>5. CASE Deliver
  <2>1. reader.to \in Calls /\ reader.frame \subseteq Frames
    BY <1>5 DEF Deliver, TypeOK
  <2>2. call' \in [Calls -> CallType]
    <3>1. [call[reader.to] EXCEPT !.reply = reader.frame] \in CallType
      BY <1>t, <2>1 DEF CallType
    <3> QED
      BY <1>5, <1>t, <2>1, <3>1 DEF Deliver
  <2>3. reader' \in [to : Calls \cup {None}, frame : SUBSET Frames]
    BY <1>5 DEF Deliver
  <2>4. TypeOK'
    BY <1>5, <2>2, <2>3 DEF Deliver, TypeOK, link, wire
  <2>5. \A d \in Calls : call'[d].id = call[d].id /\ call'[d].pc = call[d].pc
    BY <1>5, <1>t, <2>1 DEF Deliver, CallType
  <2> QED
    BY <1>5, <2>4, <2>5, SameIds DEF Deliver
<1>6. CASE CloseFromLoop \/ CloseSocket
  <2>1. /\ UNCHANGED <<closed, socket, dialled, wired, ctxDone, closer, postSeq, pending,
                       pendingMu, reader, call, wire>>
        /\ open' \subseteq open /\ sup' \in {sup, "fail"}
    BY <1>6 DEF CloseFromLoop, CloseSocket
  <2>2. TypeOK'
    BY <2>1 DEF TypeOK, wire
  <2> QED
    BY <1>q, <2>1, <2>2
<1>7. CASE Unpublish
  <2>1. TypeOK'
    BY <1>7, SocketsAssumption DEF Unpublish, TypeOK
  <2> QED
    BY <1>7, <1>q, <2>1 DEF Unpublish
<1>8. CASE CleanupFails
  <2>1. /\ UNCHANGED <<closed, socket, dialled, open, wired, ctxDone, closer, postSeq, reader, wire>>
        /\ sup' \in {sup, "backoff"}
        /\ \/ UNCHANGED <<pending, call>> /\ pendingMu' \in {None, "cleanup"}
           \/ FailOne("cleanup", "Disconnected") /\ UNCHANGED pendingMu
    BY <1>8 DEF CleanupFails, LockAll, UnlockAll
  <2>2. CASE UNCHANGED <<pending, call>> /\ pendingMu' \in {None, "cleanup"}
    <3>1. TypeOK'
      BY <2>1, <2>2 DEF TypeOK, wire
    <3> QED
      BY <1>q, <2>1, <2>2, <3>1
  <2>3. CASE FailOne("cleanup", "Disconnected") /\ UNCHANGED pendingMu
    <3>1. TypeOK'
      BY <2>1, <2>3, FailOneType DEF TypeOK, wire
    <3> QED
      BY <2>1, <2>3, <3>1, FailOneType, SameIds
  <2> QED
    BY <2>1, <2>2, <2>3
<1> QED
  BY <1>1, <1>2, <1>3, <1>4, <1>5, <1>6, <1>7, <1>8 DEF Supervisor

LEMMA OtherTypeStep ==
  ASSUME TypeOK, IdInv, Close \/ Outside
  PROVE  TypeOK' /\ IdInv'
<1>q. UNCHANGED <<call, postSeq>> => IdInv'
  BY SameIds
<1>1. CASE CloseMarks \/ CloseCancels
  <2>0. /\ closer \in [pc : {"idle", "cancel", "fail", "done"}, sock : 0..MaxSockets, cancel : BOOLEAN]
        /\ socket \in 0..MaxSockets
    BY DEF TypeOK
  <2>1. closer' \in [pc : {"idle", "cancel", "fail", "done"}, sock : 0..MaxSockets, cancel : BOOLEAN]
    <3>1. CASE CloseMarks
      <4>1. (sup # "unstarted") \in BOOLEAN
        OBVIOUS
      <4> QED
        BY <2>0, <3>1, <4>1, Zenon DEF CloseMarks
    <3>2. CASE CloseCancels
      BY <2>0, <3>2 DEF CloseCancels
    <3> QED
      BY <1>1, <3>1, <3>2
  <2>2. /\ UNCHANGED <<socket, dialled, wired, sup, postSeq, pending, pendingMu, reader, call, wire>>
        /\ open' \subseteq open /\ closed' \in BOOLEAN /\ ctxDone' \in BOOLEAN
    BY <1>1 DEF CloseMarks, CloseCancels, TypeOK, link
  <2>3. TypeOK'
    BY <2>1, <2>2 DEF TypeOK, wire
  <2> QED
    BY <1>q, <2>2, <2>3
<1>2. CASE CloseFails
  <2>1. closer' \in [pc : {"idle", "cancel", "fail", "done"}, sock : 0..MaxSockets, cancel : BOOLEAN]
    BY <1>2 DEF CloseFails, TypeOK
  <2>2. /\ UNCHANGED <<closed, link, ctxDone, postSeq, reader, wire>>
        /\ \/ UNCHANGED <<pending, call>> /\ pendingMu' \in {None, "close"}
           \/ FailOne("close", "ConnClosed") /\ UNCHANGED pendingMu
    BY <1>2 DEF CloseFails, LockAll, UnlockAll
  <2>3. CASE UNCHANGED <<pending, call>> /\ pendingMu' \in {None, "close"}
    <3>1. TypeOK'
      BY <2>1, <2>2, <2>3 DEF TypeOK, link, wire
    <3> QED
      BY <1>q, <2>2, <2>3, <3>1
  <2>4. CASE FailOne("close", "ConnClosed") /\ UNCHANGED pendingMu
    <3>1. TypeOK'
      BY <2>1, <2>2, <2>4, FailOneType DEF TypeOK, link, wire
    <3> QED
      BY <2>2, <2>4, <3>1, FailOneType, SameIds
  <2> QED
    BY <2>2, <2>3, <2>4
<1>3. CASE Outside
  <2>1. /\ UNCHANGED <<closed, socket, dialled, open, sup, ctxDone, closer, postSeq, pending,
                       pendingMu, reader, call>>
        /\ wired' \subseteq Sockets
    BY <1>3 DEF Outside, NetworkDies, Process, link, TypeOK
  <2>2. requests' \subseteq Frames /\ replies' \subseteq Frames /\ taken' \subseteq Calls
    <3>1. \A f \in Frames : f.of \in Calls
      BY DEF Frames
    <3> QED
      BY <1>3, <3>1 DEF Outside, NetworkDies, Process, TypeOK
  <2>3. TypeOK'
    BY <2>1, <2>2 DEF TypeOK
  <2> QED
    BY <1>q, <2>1, <2>3
<1> QED
  BY <1>1, <1>2, <1>3 DEF Close

LEMMA TypeStep ==
  ASSUME TypeOK, IdInv, [Next]_vars
  PROVE  TypeOK' /\ IdInv'
<1>1. CASE UNCHANGED vars
  BY <1>1, SameIds DEF vars, TypeOK
<1> QED
  BY <1>1, PostTypeStep, SupervisorTypeStep, OtherTypeStep DEF Next, Finished

\* Every variable keeps its type; in particular the connection never runs out of ids.
THEOREM TypeCorrect == Spec => []TypeOK
<1>1. Spec => [](TypeOK /\ IdInv)
  BY TypeInit, TypeStep, PTL DEF Spec
<1> QED
  BY <1>1, PTL
-----------------------------------------------------------------------------
\* An entry of the table belongs to the call of its id, which is still there and
\* has heard nothing ...
PendingInv == \A i \in Ids : pending[i] # None =>
  /\ call[pending[i]].id = i /\ call[pending[i]].pc \in {"write", "wait", "drop"}
  /\ call[pending[i]].reply = {} /\ call[pending[i]].err = {}

\* ... as has the call whose reply the reader holds, and which left the table.
ReaderInv == reader.to # None =>
  /\ call[reader.to].pc \notin {"idle", "register"}
  /\ call[reader.to].reply = {} /\ call[reader.to].err = {}
  /\ \A i \in Ids : pending[i] # reader.to
  /\ reader.to \in taken /\ reader.frame # {} /\ \A f \in reader.frame : f.of = reader.to

\* A frame carries the id of its call.
FrameInv == /\ \A f \in requests \cup replies : call[f.of].id = f.id
            /\ \A f \in replies : f.of \in taken

ChannelInv == \A c \in Calls :
  /\ call[c].pc \in {"idle", "register"} => call[c].reply = {} /\ call[c].err = {}
  /\ \A f \in call[c].reply \cup call[c].got : f.of = c
  /\ call[c].reply # {} \/ call[c].result = "Reply" => c \in taken

VerdictInv == PendingInv /\ ReaderInv /\ FrameInv /\ ChannelInv

LEMMA VerdictInit == Init => VerdictInv
  BY CallsAssumption DEF Init, NewCall, VerdictInv, PendingInv, ReaderInv, FrameInv, ChannelInv

LEMMA VerdictSuffices == TypeOK /\ VerdictInv => OwnReply /\ OneVerdict /\ NoLeak
<1> SUFFICES ASSUME TypeOK, VerdictInv PROVE OwnReply /\ OneVerdict /\ NoLeak
  OBVIOUS
<1>1. OwnReply
  BY DEF VerdictInv, ChannelInv, OwnReply
<1>2. OneVerdict
  BY DEF VerdictInv, PendingInv, ReaderInv, OneVerdict, InHand
<1>3. NoLeak
  BY DEF VerdictInv, PendingInv, NoLeak
<1> QED
  BY <1>1, <1>2, <1>3

\* Steps that leave the calls and the table alone; frames may get lost or be processed.
LEMMA VerdictQuiet ==
  ASSUME TypeOK, VerdictInv, UNCHANGED <<call, pending, reader>>, taken \subseteq taken',
         requests' \subseteq requests,
         \A f \in replies' : f \in replies \/ (f \in requests /\ f.of \in taken')
  PROVE  VerdictInv'
<1>1. PendingInv' /\ ReaderInv' /\ ChannelInv'
  BY DEF VerdictInv, PendingInv, ReaderInv, ChannelInv
<1>2. FrameInv'
  BY DEF VerdictInv, FrameInv
<1> QED
  BY <1>1, <1>2 DEF VerdictInv

LEMMA VerdictSame ==
  ASSUME TypeOK, VerdictInv, UNCHANGED <<call, pending, reader, wire>>
  PROVE  VerdictInv'
<1>1. UNCHANGED <<requests, replies, taken>>
  BY DEF wire
<1> QED
  BY <1>1, VerdictQuiet

\* What an action of one call does to the calls.
LEMMA OnlyOne ==
  ASSUME TypeOK, NEW c \in Calls, Post(c)
  PROVE  \A d \in Calls \ {c} : call'[d] = call[d]
<1>t. call \in [Calls -> CallType]
  BY DEF TypeOK
<1>1. CASE Enter(c)
  BY <1>1, <1>t DEF Enter
<1>2. CASE ~Enter(c)
  BY <1>2, <1>t DEF Post, Register, Write, WriteFails, TakeReply, TakeErr, GiveUp, DropPending
<1> QED
  BY <1>1, <1>2

LEMMA PostVerdictStep ==
  ASSUME TypeOK, IdInv, VerdictInv, NEW c \in Calls, Post(c)
  PROVE  VerdictInv'
<1>t. /\ call \in [Calls -> CallType] /\ pending \in [Ids -> Calls \cup {None}]
      /\ reader \in [to : Calls \cup {None}, frame : SUBSET Frames]
      /\ requests \subseteq Frames /\ replies \subseteq Frames
      /\ \A f \in Frames : f.of \in Calls
  BY DEF TypeOK, Frames
<1>o. \A d \in Calls \ {c} : call'[d] = call[d]
  BY OnlyOne
<1>u. UNCHANGED <<reader, replies, taken>>
  BY DEF Post, Enter, Register, Write, WriteFails, TakeReply, TakeErr, GiveUp, DropPending, wire
<1>n. None \notin Calls /\ None # "Reply"
  BY CallsAssumption
\* Once its frames' id and its channels are known, the rest of a step is the same for all.
<1>f. ASSUME call'[c].id = call[c].id \/ call[c].id = 0,
             requests' \subseteq requests
      PROVE  FrameInv'
  <2>1. \A f \in requests \cup replies : f.of \in Calls /\ f.id # 0 /\ call[f.of].id = f.id
    BY <1>t DEF VerdictInv, FrameInv, Frames, Ids
  <2>2. \A f \in requests \cup replies : call'[f.of].id = f.id
    BY <1>f, <1>o, <2>1
  <2> QED
    BY <1>f, <1>u, <2>2 DEF VerdictInv, FrameInv
<1>1. CASE Enter(c)
  <2>0. call[c].pc = "idle" /\ call[c].id = 0 /\ UNCHANGED <<pending, requests>>
    BY <1>1 DEF Enter, At, IdInv, wire
  <2>1. call'[c].reply = call[c].reply /\ call'[c].err = call[c].err /\ call'[c].got = call[c].got
        /\ call'[c].result \in {call[c].result, "ConnClosed", "NotReady"}
    BY <1>1, <1>t DEF Enter, CallType
  <2>2. \A i \in Ids : pending[i] # c
    BY <1>n, <2>0 DEF VerdictInv, PendingInv
  <2>3. reader.to # c
    BY <1>n, <2>0 DEF VerdictInv, ReaderInv
  <2>4. PendingInv'
    BY <1>t, <1>o, <2>0, <2>2 DEF VerdictInv, PendingInv
  <2>5. ReaderInv'
    BY <1>t, <1>o, <1>u, <2>0, <2>3 DEF VerdictInv, ReaderInv
  <2>6. ChannelInv'
    BY <1>o, <1>u, <2>0, <2>1 DEF VerdictInv, ChannelInv
  <2> QED
    BY <1>f, <2>0, <2>4, <2>5, <2>6 DEF VerdictInv
<1>2. CASE Register(c)
  <2>0. call[c].pc = "register" /\ call[c].id \in Ids /\ UNCHANGED requests
    BY <1>2, <1>t, CallsAreCounted DEF Register, At, IdInv, wire, CallType, Ids
  <2>1. /\ call'[c].pc = "write" /\ call'[c].id = call[c].id /\ call'[c].reply = call[c].reply
        /\ call'[c].err = call[c].err /\ call'[c].got = call[c].got /\ call'[c].result = call[c].result
    BY <1>2, <1>t DEF Register, CallType
  <2>2. \A i \in Ids : pending'[i] = IF i = call[c].id THEN c ELSE pending[i]
    BY <1>2, <1>t DEF Register
  <2>3. reader.to # c
    BY <1>n, <2>0 DEF VerdictInv, ReaderInv
  <2>4. \A i \in Ids : pending[i] # c
    BY <1>n, <2>0 DEF VerdictInv, PendingInv
  <2>5. call[c].reply = {} /\ call[c].err = {}
    BY <2>0 DEF VerdictInv, ChannelInv
  <2>6. PendingInv'
    BY <1>t, <1>o, <2>0, <2>1, <2>2, <2>4, <2>5 DEF VerdictInv, PendingInv
  <2>7. ReaderInv'
    BY <1>t, <1>o, <1>u, <2>2, <2>3 DEF VerdictInv, ReaderInv
  <2>8. ChannelInv'
    BY <1>o, <1>u, <2>0, <2>1, <2>5 DEF VerdictInv, ChannelInv
  <2> QED
    BY <1>f, <2>0, <2>1, <2>6, <2>7, <2>8 DEF VerdictInv
<1>3. CASE Write(c) \/ WriteFails(c) \/ GiveUp(c)
  <2>0. call[c].pc \in {"write", "wait"} /\ UNCHANGED pending
    BY <1>3 DEF Write, WriteFails, GiveUp, At
  <2>1. /\ call'[c].pc \in {"wait", "drop"} /\ call'[c].id = call[c].id /\ call'[c].reply = call[c].reply
        /\ call'[c].err = call[c].err /\ call'[c].got = call[c].got
        /\ call'[c].result \in {call[c].result, "Write", "Timeout"}
    BY <1>3, <1>t DEF Write, WriteFails, GiveUp, CallType
  <2>2. PendingInv'
    BY <1>t, <1>o, <2>0, <2>1 DEF VerdictInv, PendingInv
  <2>3. ReaderInv'
    BY <1>t, <1>o, <1>u, <2>0, <2>1 DEF VerdictInv, ReaderInv
  <2>4. ChannelInv'
    BY <1>o, <1>u, <2>0, <2>1 DEF VerdictInv, ChannelInv
  <2>5. FrameInv'
    <3>1. \A f \in requests' : f \in requests \/ (f.of = c /\ f.id = call[c].id)
      <4>1. CASE Write(c)
        <5>1. requests' \subseteq requests \cup {[sock |-> call[c].sock, id |-> call[c].id, of |-> c]}
          BY <4>1 DEF Write
        <5> QED
          BY <5>1
      <4>2. CASE WriteFails(c) \/ GiveUp(c)
        <5>1. UNCHANGED requests
          BY <4>2 DEF WriteFails, GiveUp, wire
        <5> QED
          BY <5>1
      <4> QED
        BY <1>3, <4>1, <4>2
    <3>2. \A f \in requests \cup replies : f.of \in Calls /\ call'[f.of].id = call[f.of].id
      BY <1>t, <1>o, <2>1
    <3> QED
      BY <1>u, <2>1, <3>1, <3>2 DEF VerdictInv, FrameInv
  <2> QED
    BY <2>2, <2>3, <2>4, <2>5 DEF VerdictInv
<1>4. CASE TakeReply(c) \/ TakeErr(c)
  <2>0. call[c].pc = "wait" /\ UNCHANGED <<pending, requests>> /\ (call[c].reply # {} \/ call[c].err # {})
    BY <1>4 DEF TakeReply, TakeErr, At, wire
  <2>1. /\ call'[c].pc = "done" /\ call'[c].id = call[c].id
        /\ \/ /\ call'[c].result = "Reply" /\ call[c].reply # {}
              /\ call'[c].got = call[c].reply /\ call'[c].reply = {}
           \/ /\ call'[c].result \in {"Disconnected", "ConnClosed"}
              /\ call'[c].got = call[c].got /\ call'[c].reply = call[c].reply
    BY <1>4, <1>t DEF TakeReply, TakeErr, CallType
  <2>2. \A i \in Ids : pending[i] # c
    BY <1>n, <2>0 DEF VerdictInv, PendingInv
  <2>3. reader.to # c
    BY <1>n, <2>0 DEF VerdictInv, ReaderInv
  <2>4. PendingInv'
    BY <1>t, <1>o, <2>0, <2>2 DEF VerdictInv, PendingInv
  <2>5. ReaderInv'
    BY <1>t, <1>o, <1>u, <2>0, <2>3 DEF VerdictInv, ReaderInv
  <2>6. ChannelInv'
    BY <1>o, <1>u, <2>1 DEF VerdictInv, ChannelInv
  <2> QED
    BY <1>f, <2>0, <2>1, <2>4, <2>5, <2>6 DEF VerdictInv
<1>5. CASE DropPending(c)
  <2>0. call[c].pc = "drop" /\ call[c].id \in Ids /\ UNCHANGED requests
    BY <1>5, <1>t, CallsAreCounted DEF DropPending, At, IdInv, wire, CallType, Ids
  <2>1. /\ call'[c].pc = "done" /\ call'[c].id = call[c].id /\ call'[c].reply = call[c].reply
        /\ call'[c].err = call[c].err /\ call'[c].got = call[c].got /\ call'[c].result = call[c].result
    BY <1>5, <1>t DEF DropPending, CallType
  <2>2. \A i \in Ids : pending'[i] = IF i = call[c].id THEN None ELSE pending[i]
    BY <1>5, <1>t DEF DropPending
  <2>3. \A i \in Ids : pending'[i] # c
    BY <1>n, <2>2 DEF VerdictInv, PendingInv
  <2>4. PendingInv'
    BY <1>t, <1>o, <2>2, <2>3 DEF VerdictInv, PendingInv
  <2>5. ReaderInv'
    BY <1>t, <1>o, <1>u, <2>1, <2>2 DEF VerdictInv, ReaderInv
  <2>6. ChannelInv'
    BY <1>o, <1>u, <2>1 DEF VerdictInv, ChannelInv
  <2> QED
    BY <1>f, <2>0, <2>1, <2>4, <2>5, <2>6 DEF VerdictInv
<1> QED
  BY <1>1, <1>2, <1>3, <1>4, <1>5 DEF Post

LEMMA FailOneVerdict ==
  ASSUME TypeOK, VerdictInv, NEW who, NEW error \in {"Disconnected", "ConnClosed"},
         FailOne(who, error), UNCHANGED <<reader, wire>>
  PROVE  VerdictInv'
<1>1. PICK id \in Ids : /\ pending[id] # None
                        /\ call' = [call EXCEPT ![pending[id]].err = {error}]
                        /\ pending' = [pending EXCEPT ![id] = None]
  BY DEF FailOne
<1> DEFINE c == pending[id]
<1>2. /\ c \in Calls /\ call \in [Calls -> CallType] /\ pending \in [Ids -> Calls \cup {None}]
      /\ reader.to \in Calls \cup {None} /\ \A f \in requests \cup replies : f.of \in Calls
  BY <1>1 DEF TypeOK, Frames
<1>3. /\ call'[c].pc = call[c].pc /\ call'[c].id = call[c].id /\ call'[c].reply = call[c].reply
      /\ call'[c].got = call[c].got /\ call'[c].result = call[c].result
      /\ \A d \in Calls \ {c} : call'[d] = call[d]
  BY <1>1, <1>2 DEF CallType
<1>4. \A i \in Ids : pending'[i] = IF i = id THEN None ELSE pending[i]
  BY <1>1, <1>2
<1>5. call[c].id = id /\ call[c].pc \in {"write", "wait", "drop"} /\ reader.to # c
  BY <1>1 DEF VerdictInv, PendingInv, ReaderInv
<1>6. \A i \in Ids : i # id => pending[i] # c
  BY <1>1, <1>5 DEF VerdictInv, PendingInv
<1>7. PendingInv'
  BY <1>2, <1>3, <1>4, <1>6 DEF VerdictInv, PendingInv
<1>8. ReaderInv'
  <2>1. UNCHANGED <<reader, taken>>
    BY DEF wire
  <2> QED
    BY <1>2, <1>3, <1>4, <1>5, <2>1 DEF VerdictInv, ReaderInv
<1>9. FrameInv'
  BY <1>2, <1>3 DEF VerdictInv, FrameInv, wire
<1>10. ChannelInv'
  BY <1>3, <1>5 DEF VerdictInv, ChannelInv, wire
<1> QED
  BY <1>7, <1>8, <1>9, <1>10 DEF VerdictInv

LEMMA SupervisorVerdictStep ==
  ASSUME TypeOK, IdInv, VerdictInv, Supervisor
  PROVE  VerdictInv'
<1>t. /\ call \in [Calls -> CallType] /\ pending \in [Ids -> Calls \cup {None}]
      /\ reader \in [to : Calls \cup {None}, frame : SUBSET Frames] /\ None \notin Calls
  BY CallsAssumption DEF TypeOK
<1>1. CASE StartIt \/ Attempt \/ Dialled \/ DialFails \/ Publish \/ CloseFromLoop \/ ReadFails
             \/ Unpublish \/ CloseSocket \/ BackOff
  <2>1. UNCHANGED <<call, pending, reader, taken, requests>> /\ replies' \subseteq replies
    <3>1. CASE StartIt \/ Attempt \/ Dialled \/ DialFails
      BY <3>1 DEF StartIt, Attempt, Dialled, DialFails, wire
    <3>2. CASE Publish \/ CloseFromLoop \/ ReadFails
      BY <3>2 DEF Publish, CloseFromLoop, ReadFails, wire
    <3>3. CASE Unpublish \/ CloseSocket \/ BackOff
      BY <3>3 DEF Unpublish, CloseSocket, BackOff, wire
    <3> QED
      BY <1>1, <3>1, <3>2, <3>3
  <2> QED
    BY <2>1, VerdictQuiet
<1>2. ASSUME NEW f \in Frames, Receive(f) PROVE VerdictInv'
  <2>1. /\ f \in replies /\ reader.to = None /\ UNCHANGED <<call, requests, taken>>
        /\ replies' = replies \ {f}
        /\ reader' = IF pending[f.id] = None THEN reader ELSE [to |-> pending[f.id], frame |-> {f}]
        /\ pending' = [pending EXCEPT ![f.id] = None]
    BY <1>2 DEF Receive, Waiter
  <2>2. f.id \in Ids /\ f.of \in Calls /\ call[f.of].id = f.id /\ f.of \in taken /\ f.id # 0
    BY <2>1 DEF Frames, Ids, VerdictInv, FrameInv
  <2>3. \A i \in Ids : pending'[i] = IF i = f.id THEN None ELSE pending[i]
    BY <1>t, <2>1
  <2>4. PendingInv'
    BY <2>1, <2>3 DEF VerdictInv, PendingInv
  <2>5. ReaderInv'
    <3>1. CASE pending[f.id] = None
      BY <2>1, <3>1 DEF ReaderInv
    <3>2. CASE pending[f.id] # None
      <4>1. /\ pending[f.id] \in Calls /\ call[pending[f.id]].id = f.id
            /\ call[pending[f.id]].pc \in {"write", "wait", "drop"}
            /\ call[pending[f.id]].reply = {} /\ call[pending[f.id]].err = {}
        BY <1>t, <2>2, <3>2 DEF VerdictInv, PendingInv
      <4>2. pending[f.id] = f.of
        BY <2>2, <4>1 DEF IdInv
      <4>3. \A i \in Ids : i # f.id => pending[i] # f.of
        BY <1>t, <2>2 DEF VerdictInv, PendingInv
      <4>4. reader'.to = f.of /\ reader'.frame = {f}
        BY <2>1, <3>2, <4>2
      <4> QED
        BY <1>t, <2>1, <2>2, <2>3, <4>1, <4>2, <4>3, <4>4 DEF ReaderInv
    <3> QED
      BY <3>1, <3>2
  <2>6. FrameInv' /\ ChannelInv'
    BY <2>1 DEF VerdictInv, FrameInv, ChannelInv
  <2> QED
    BY <2>4, <2>5, <2>6 DEF VerdictInv
<1>3. CASE Deliver
  <2> DEFINE c == reader.to
  <2>1. /\ c \in Calls /\ call' = [call EXCEPT ![c].reply = reader.frame]
        /\ reader' = [to |-> None, frame |-> {}] /\ UNCHANGED <<pending, wire>>
    BY <1>t, <1>3 DEF Deliver
  <2>2. /\ call'[c].pc = call[c].pc /\ call'[c].id = call[c].id /\ call'[c].err = call[c].err
        /\ call'[c].got = call[c].got /\ call'[c].result = call[c].result
        /\ call'[c].reply = reader.frame /\ \A d \in Calls \ {c} : call'[d] = call[d]
    BY <1>t, <2>1 DEF CallType
  <2>3. /\ call[c].pc \notin {"idle", "register"} /\ c \in taken
        /\ (\A i \in Ids : pending[i] # c) /\ \A f \in reader.frame : f.of = c
    BY <1>t, <2>1 DEF VerdictInv, ReaderInv
  <2>4. PendingInv'
    BY <1>t, <2>1, <2>2, <2>3 DEF VerdictInv, PendingInv
  <2>5. ReaderInv'
    BY <2>1 DEF ReaderInv
  <2>6. FrameInv'
    <3>1. \A f \in requests \cup replies : f.of \in Calls
      BY DEF TypeOK, Frames
    <3> QED
      BY <2>1, <2>2, <3>1 DEF VerdictInv, FrameInv, wire
  <2>7. ChannelInv'
    BY <2>1, <2>2, <2>3 DEF VerdictInv, ChannelInv, wire
  <2> QED
    BY <2>4, <2>5, <2>6, <2>7 DEF VerdictInv
<1>4. CASE CleanupFails
  <2>1. CASE FailOne("cleanup", "Disconnected")
    BY <1>4, <2>1, FailOneVerdict DEF CleanupFails
  <2>2. CASE ~FailOne("cleanup", "Disconnected")
    <3>1. UNCHANGED <<call, pending, reader, wire>>
      BY <1>4, <2>2 DEF CleanupFails
    <3> QED
      BY <3>1, VerdictSame
  <2> QED
    BY <2>1, <2>2
<1> QED
  BY <1>1, <1>2, <1>3, <1>4 DEF Supervisor

LEMMA OtherVerdictStep ==
  ASSUME TypeOK, VerdictInv, Close \/ Outside
  PROVE  VerdictInv'
<1>1. CASE CloseMarks \/ CloseCancels
  <2>1. UNCHANGED <<call, pending, reader, wire>>
    BY <1>1 DEF CloseMarks, CloseCancels
  <2> QED
    BY <2>1, VerdictSame
<1>2. CASE CloseFails
  <2>1. CASE FailOne("close", "ConnClosed")
    BY <1>2, <2>1, FailOneVerdict DEF CloseFails
  <2>2. CASE ~FailOne("close", "ConnClosed")
    <3>1. UNCHANGED <<call, pending, reader, wire>>
      BY <1>2, <2>2 DEF CloseFails
    <3> QED
      BY <3>1, VerdictSame
  <2> QED
    BY <2>1, <2>2
<1>3. CASE NetworkDies
  <2>1. UNCHANGED <<call, pending, reader, replies, taken>> /\ requests' \subseteq requests
    BY <1>3 DEF NetworkDies
  <2> QED
    BY <2>1, VerdictQuiet
<1>4. ASSUME NEW f \in Frames, Process(f) PROVE VerdictInv'
  <2>1. /\ UNCHANGED <<call, pending, reader>> /\ taken \subseteq taken' /\ requests' \subseteq requests
        /\ f \in requests /\ f.of \in taken' /\ replies' \subseteq replies \cup {f}
    BY <1>4 DEF Process
  <2>2. \A g \in replies' : g \in replies \/ (g \in requests /\ g.of \in taken')
    BY <2>1
  <2> QED
    BY <2>1, <2>2, VerdictQuiet
<1> QED
  BY <1>1, <1>2, <1>3, <1>4 DEF Close, Outside

LEMMA VerdictStep ==
  ASSUME TypeOK, IdInv, VerdictInv, [Next]_vars
  PROVE  VerdictInv'
<1>1. CASE UNCHANGED vars \/ Finished
  <2>1. UNCHANGED <<call, pending, reader, wire>>
    BY <1>1 DEF vars, Finished, wire
  <2> QED
    BY <2>1, VerdictSame
<1> QED
  BY <1>1, PostVerdictStep, SupervisorVerdictStep, OtherVerdictStep DEF Next

LEMMA VerdictAlways == Spec => [](TypeOK /\ IdInv /\ VerdictInv)
<1>1. Init => TypeOK /\ IdInv /\ VerdictInv
  BY TypeInit, VerdictInit
<1>2. TypeOK /\ IdInv /\ VerdictInv /\ [Next]_vars => TypeOK' /\ IdInv' /\ VerdictInv'
  BY TypeStep, VerdictStep
<1> QED
  BY <1>1, <1>2, PTL DEF Spec

\* Whoever gets a reply gets the reply to its own request.
THEOREM RepliesAreOwn == Spec => []OwnReply
  BY VerdictAlways, VerdictSuffices, PTL

\* A call hears once, and no send on its channels blocks the connection.
THEOREM VerdictsAreSingle == Spec => []OneVerdict
  BY VerdictAlways, VerdictSuffices, PTL

\* The table of pending posts holds only calls under way.
THEOREM TableDoesNotLeak == Spec => []NoLeak
  BY VerdictAlways, VerdictSuffices, PTL
-----------------------------------------------------------------------------
\* One socket is open at most, the last one dialled, from its dial to its cleanup;
\* posts were written on published sockets only.
LinkInv ==
  /\ open \subseteq {dialled} \ {0}
  /\ dialled \in open => sup \in {"publish", "run", "unpublish", "close"}
  /\ socket # 0 => socket = dialled /\ sup \in {"run", "unpublish"}
  /\ \A c \in Calls : call[c].sock <= dialled /\ (sup = "publish" => call[c].sock < dialled)

\* A registered call is heard of by the cleanup of its socket at the latest.
HopeInv == \A c \in Calls : call[c].pc \in {"write", "wait"} =>
  \/ call[c].reply \cup call[c].err # {}
  \/ reader.to = c
  \/ /\ pending[call[c].id] = c
     /\ call[c].pc = "wait" => call[c].sock = dialled /\ sup \in {"run", "unpublish", "close", "fail"}

LEMMA HopeInit == Init => LinkInv /\ HopeInv
  BY SocketsAssumption DEF Init, NewCall, LinkInv, HopeInv

LEMMA HopeSuffices == HopeInv => NobodyForgotten
  BY DEF HopeInv, NobodyForgotten, At, InHand

LEMMA LinkStep ==
  ASSUME TypeOK, IdInv, LinkInv, [Next]_vars
  PROVE  LinkInv'
<1>t. /\ call \in [Calls -> CallType] /\ pending \in [Ids -> Calls \cup {None}]
      /\ socket \in 0..MaxSockets /\ dialled \in 0..MaxSockets
      /\ \A c \in Calls : call[c].sock \in Nat
      /\ MaxSockets \in Nat
  BY SocketsAssumption DEF TypeOK, CallType
<1>1. ASSUME NEW c \in Calls, Post(c) PROVE LinkInv'
  <2>1. UNCHANGED link
    BY <1>1 DEF Post, Enter, Register, Write, WriteFails, TakeReply, TakeErr, GiveUp, DropPending
  <2>2. \A d \in Calls \ {c} : call'[d] = call[d]
    BY <1>1, OnlyOne
  <2>3. call'[c].sock = call[c].sock \/ (call'[c].sock = socket /\ socket # 0)
    <3>1. CASE Enter(c)
      BY <1>t, <3>1 DEF Enter, CallType
    <3>2. CASE ~Enter(c)
      BY <1>1, <1>t, <3>2 DEF Post, Register, Write, WriteFails, TakeReply, TakeErr, GiveUp,
                              DropPending, CallType
    <3> QED
      BY <3>1, <3>2
  <2>4. call'[c].sock <= dialled /\ (sup = "publish" => call'[c].sock < dialled)
    BY <1>t, <2>3 DEF LinkInv
  <2>5. UNCHANGED <<socket, dialled, open, wired, sup>>
    BY <2>1 DEF link
  <2>6. \A d \in Calls : call'[d].sock <= dialled' /\ (sup' = "publish" => call'[d].sock < dialled')
    BY <2>2, <2>4, <2>5 DEF LinkInv
  <2> QED
    BY <2>5, <2>6 DEF LinkInv
<1>2. ASSUME UNCHANGED dialled, open' \subseteq open, socket' \in {socket, 0},
             \A c \in Calls : call'[c].sock = call[c].sock,
             sup' = sup \/ (sup' # "publish" /\ dialled \notin open' /\ socket' = 0)
      PROVE  LinkInv'
  BY <1>2 DEF LinkInv
<1>3. CASE StartIt \/ Attempt \/ DialFails \/ BackOff
  <2>1. sup \in {"unstarted", "top", "dialling", "backoff"} /\ sup' # "publish"
        /\ UNCHANGED <<call, socket, dialled, open>>
    BY <1>3 DEF StartIt, Attempt, DialFails, BackOff
  <2>2. dialled \notin open /\ socket = 0
    BY <2>1 DEF LinkInv
  <2> QED
    BY <1>2, <2>1, <2>2
<1>4. CASE Dialled
  <2>1. /\ sup = "dialling" /\ sup' = "publish" /\ dialled' = dialled + 1
        /\ open' = open \cup {dialled'} /\ UNCHANGED <<call, socket>>
    BY <1>4 DEF Dialled
  <2>2. open = {} /\ socket = 0
    BY <2>1 DEF LinkInv
  <2>3. \A c \in Calls : call[c].sock <= dialled
    BY DEF LinkInv
  <2> QED
    BY <1>t, <2>1, <2>2, <2>3 DEF LinkInv
<1>5. CASE Publish
  <2>1. sup = "publish" /\ UNCHANGED <<call, dialled>> /\ socket = 0
    BY <1>5 DEF Publish, LinkInv
  <2>2. CASE closed
    <3>1. open' = open \ {dialled} /\ sup' = "backoff" /\ UNCHANGED socket
      BY <1>5, <2>2 DEF Publish
    <3> QED
      BY <1>2, <2>1, <3>1
  <2>3. CASE ~closed
    <3>1. socket' = dialled /\ sup' = "run" /\ UNCHANGED open
      BY <1>5, <2>3 DEF Publish
    <3> QED
      BY <2>1, <3>1 DEF LinkInv
  <2> QED
    BY <2>2, <2>3
<1>6. CASE ReadFails
  <2>1. sup = "run" /\ sup' = "unpublish" /\ UNCHANGED <<call, dialled, open, socket>>
    BY <1>6 DEF ReadFails
  <2> QED
    BY <2>1 DEF LinkInv
<1>7. CASE Unpublish
  <2>1. sup = "unpublish" /\ sup' = "close" /\ socket' = 0 /\ UNCHANGED <<call, dialled, open>>
    BY <1>7 DEF Unpublish
  <2> QED
    BY <2>1 DEF LinkInv
<1>8. CASE CloseSocket
  <2>1. sup = "close" /\ sup' = "fail" /\ open' = open \ {dialled} /\ UNCHANGED <<call, dialled, socket>>
    BY <1>8 DEF CloseSocket
  <2>2. socket = 0
    BY <2>1 DEF LinkInv
  <2> QED
    BY <1>2, <2>1, <2>2
<1>9. CASE CloseFromLoop \/ CloseMarks \/ CloseCancels \/ Outside \/ Finished \/ UNCHANGED vars
  <2>1. UNCHANGED <<call, dialled, socket, sup>> /\ open' \subseteq open
    <3>1. CASE CloseFromLoop \/ CloseMarks \/ CloseCancels
      BY <3>1 DEF CloseFromLoop, CloseMarks, CloseCancels, link
    <3>2. CASE Outside \/ Finished \/ UNCHANGED vars
      BY <3>2 DEF Outside, NetworkDies, Process, Finished, link, vars
    <3> QED
      BY <1>9, <3>1, <3>2
  <2> QED
    BY <1>2, <2>1
<1>10. ASSUME NEW f \in Frames, Receive(f) PROVE LinkInv'
  BY <1>2, <1>10 DEF Receive, link
<1>11. CASE Deliver
  <2>1. reader.to \in Calls
    BY <1>11 DEF Deliver, TypeOK
  <2>2. \A c \in Calls : call'[c].sock = call[c].sock
    BY <1>t, <1>11, <2>1 DEF Deliver, CallType
  <2> QED
    BY <1>2, <1>11, <2>2 DEF Deliver, link
<1>12. ASSUME NEW who, NEW error, FailOne(who, error), UNCHANGED link PROVE LinkInv'
  <2>1. PICK id \in Ids : /\ pending[id] # None
                          /\ call' = [call EXCEPT ![pending[id]].err = {error}]
    BY <1>12 DEF FailOne
  <2>2. \A c \in Calls : call'[c].sock = call[c].sock
    BY <1>t, <2>1 DEF CallType
  <2> QED
    BY <1>2, <1>12, <2>2 DEF link
<1>13. CASE CleanupFails
  <2>1. CASE FailOne("cleanup", "Disconnected") /\ UNCHANGED sup
    BY <1>12, <1>13, <2>1 DEF CleanupFails, link
  <2>2. CASE UNCHANGED <<sup, call>>
    BY <1>2, <1>13, <2>2 DEF CleanupFails
  <2>3. CASE sup' = "backoff" /\ UNCHANGED call
    <3>1. sup = "fail" /\ UNCHANGED <<socket, dialled, open>>
      BY <1>13 DEF CleanupFails
    <3>2. dialled \notin open /\ socket = 0
      BY <3>1 DEF LinkInv
    <3> QED
      BY <1>2, <2>3, <3>1, <3>2
  <2> QED
    BY <1>13, <2>1, <2>2, <2>3 DEF CleanupFails
<1>14. CASE CloseFails
  <2>1. UNCHANGED <<socket, dialled, open, wired, sup>>
    BY <1>14 DEF CloseFails, link
  <2>2. CASE FailOne("close", "ConnClosed")
    BY <1>12, <2>1, <2>2 DEF link
  <2>3. CASE UNCHANGED call
    BY <1>2, <2>1, <2>3
  <2> QED
    BY <1>14, <2>2, <2>3 DEF CloseFails
<1> QED
  BY <1>1, <1>3, <1>4, <1>5, <1>6, <1>7, <1>8, <1>9, <1>10, <1>11, <1>13, <1>14
     DEF Next, Supervisor, Close

LEMMA HopeQuiet ==
  ASSUME HopeInv, UNCHANGED <<call, pending, reader>>,
         sup \in {"run", "unpublish", "close", "fail"} =>
           sup' \in {"run", "unpublish", "close", "fail"} /\ UNCHANGED dialled
  PROVE  HopeInv'
  BY DEF HopeInv

LEMMA PostHopeStep ==
  ASSUME TypeOK, IdInv, LinkInv, HopeInv, NEW c \in Calls, Post(c)
  PROVE  HopeInv'
<1>t. call \in [Calls -> CallType] /\ pending \in [Ids -> Calls \cup {None}]
  BY DEF TypeOK
<1>o. \A d \in Calls \ {c} : call'[d] = call[d]
  BY OnlyOne
<1>u. UNCHANGED <<reader, socket, dialled, sup>>
  BY DEF Post, Enter, Register, Write, WriteFails, TakeReply, TakeErr, GiveUp, DropPending, link
<1>i. \A d \in Calls : call[d].pc \in {"register", "write", "wait", "drop"} => call[d].id \in Ids
  BY <1>t, CallsAreCounted DEF IdInv, CallType, Ids
<1>1. \A i \in Ids : i # call[c].id => pending'[i] = pending[i]
  <2>1. CASE Register(c) \/ DropPending(c)
    BY <1>t, <2>1 DEF Register, DropPending
  <2>2. CASE UNCHANGED pending
    BY <2>2
  <2> QED
    BY <2>1, <2>2 DEF Post, Enter, Write, WriteFails, TakeReply, TakeErr, GiveUp
<1>2. \A d \in Calls \ {c} : call[d].pc \in {"write", "wait"} => pending'[call[d].id] = pending[call[d].id]
  <2>1. \A d \in Calls \ {c} : call[d].pc \in {"write", "wait"} => call[d].id # call[c].id
    BY DEF IdInv
  <2> QED
    BY <1>1, <1>i, <2>1
<1>3. call'[c].pc \in {"write", "wait"} =>
        \/ call'[c].reply \cup call'[c].err # {}
        \/ reader.to = c
        \/ /\ pending'[call'[c].id] = c
           /\ call'[c].pc = "wait" =>
                call'[c].sock = dialled /\ sup \in {"run", "unpublish", "close", "fail"}
  <2>1. CASE Register(c)
    <3>1. call'[c].pc = "write" /\ call'[c].id = call[c].id /\ call[c].id \in Ids
      BY <1>i, <1>t, <2>1 DEF Register, At, CallType
    <3>2. pending'[call[c].id] = c
      BY <1>t, <2>1, <3>1 DEF Register
    <3> QED
      BY <3>1, <3>2
  <2>2. CASE Write(c)
    <3>1. /\ call[c].pc = "write" /\ call[c].sock \in open /\ UNCHANGED pending
          /\ call'[c].id = call[c].id /\ call'[c].sock = call[c].sock
          /\ call'[c].reply = call[c].reply /\ call'[c].err = call[c].err
      BY <1>t, <2>2 DEF Write, At, CallType
    <3>2. call[c].sock = dialled /\ sup \in {"run", "unpublish", "close"}
      <4>1. call[c].sock = dialled /\ sup \in {"publish", "run", "unpublish", "close"}
        BY <3>1 DEF LinkInv
      <4>2. sup # "publish"
        BY <1>t, <4>1 DEF LinkInv, TypeOK
      <4> QED
        BY <4>1, <4>2
    <3> QED
      BY <3>1, <3>2 DEF HopeInv
  <2>3. CASE Enter(c)
    BY <1>t, <2>3 DEF Enter, CallType
  <2>4. CASE WriteFails(c) \/ TakeReply(c) \/ TakeErr(c) \/ GiveUp(c) \/ DropPending(c)
    BY <1>t, <2>4 DEF WriteFails, TakeReply, TakeErr, GiveUp, DropPending, CallType
  <2> QED
    BY <2>1, <2>2, <2>3, <2>4 DEF Post
<1> QED
  BY <1>o, <1>u, <1>2, <1>3 DEF HopeInv

LEMMA FailOneHope ==
  ASSUME TypeOK, IdInv, HopeInv, NEW who, NEW error, FailOne(who, error),
         UNCHANGED <<reader, sup, dialled>>
  PROVE  HopeInv'
<1>1. PICK id \in Ids : /\ pending[id] # None
                        /\ call' = [call EXCEPT ![pending[id]].err = {error}]
                        /\ pending' = [pending EXCEPT ![id] = None]
  BY DEF FailOne
<1>2. /\ pending[id] \in Calls /\ call \in [Calls -> CallType]
      /\ pending \in [Ids -> Calls \cup {None}]
  BY <1>1 DEF TypeOK
<1>3. call'[pending[id]].err # {}
  BY <1>1, <1>2 DEF CallType
<1>4. \A d \in Calls : d # pending[id] => call'[d] = call[d]
  BY <1>1, <1>2
<1>5. \A d \in Calls : d # pending[id] /\ pending[call[d].id] = d => pending'[call[d].id] = d
  BY <1>1, <1>2
<1> QED
  BY <1>2, <1>3, <1>4, <1>5 DEF HopeInv

LEMMA HopeStep ==
  ASSUME TypeOK, IdInv, VerdictInv, LinkInv, HopeInv, [Next]_vars
  PROVE  HopeInv'
<1>t. /\ call \in [Calls -> CallType] /\ pending \in [Ids -> Calls \cup {None}]
      /\ reader \in [to : Calls \cup {None}, frame : SUBSET Frames] /\ None \notin Calls
  BY CallsAssumption DEF TypeOK
<1>i. \A d \in Calls : call[d].pc \in {"write", "wait"} => call[d].id \in Ids
  BY <1>t, CallsAreCounted DEF IdInv, CallType, Ids
<1>1. ASSUME NEW c \in Calls, Post(c) PROVE HopeInv'
  BY <1>1, PostHopeStep
<1>2. CASE StartIt \/ Attempt \/ Dialled \/ DialFails \/ Publish \/ BackOff
  <2>1. UNCHANGED <<call, pending, reader>> /\ sup \notin {"run", "unpublish", "close", "fail"}
    BY <1>2 DEF StartIt, Attempt, Dialled, DialFails, Publish, BackOff
  <2> QED
    BY <2>1, HopeQuiet
<1>3. CASE CloseFromLoop \/ ReadFails \/ Unpublish \/ CloseSocket
  <2>1. UNCHANGED <<call, pending, reader, dialled>> /\ sup' \in {sup, "unpublish", "close", "fail"}
    BY <1>3 DEF CloseFromLoop, ReadFails, Unpublish, CloseSocket
  <2> QED
    BY <2>1, HopeQuiet
<1>4. CASE CloseMarks \/ CloseCancels \/ Outside \/ Finished \/ UNCHANGED vars
  <2>1. UNCHANGED <<call, pending, reader, dialled, sup>>
    <3>1. CASE CloseMarks \/ CloseCancels
      BY <3>1 DEF CloseMarks, CloseCancels, link
    <3>2. CASE Outside \/ Finished \/ UNCHANGED vars
      BY <3>2 DEF Outside, NetworkDies, Process, Finished, link, vars
    <3> QED
      BY <1>4, <3>1, <3>2
  <2> QED
    BY <2>1, HopeQuiet
<1>5. ASSUME NEW f \in Frames, Receive(f) PROVE HopeInv'
  <2>1. /\ reader.to = None /\ UNCHANGED <<call, dialled, sup>> /\ f.id \in Ids
        /\ reader' = IF pending[f.id] = None THEN reader ELSE [to |-> pending[f.id], frame |-> {f}]
        /\ pending' = [pending EXCEPT ![f.id] = None]
    BY <1>5 DEF Receive, Waiter, link, Frames
  <2>2. \A c \in Calls : c = pending[f.id] => reader'.to = c
    BY <1>t, <2>1
  <2>3. \A c \in Calls : pending[call[c].id] = c /\ c # pending[f.id] => pending'[call[c].id] = c
    BY <1>t, <2>1
  <2> QED
    BY <1>t, <2>1, <2>2, <2>3 DEF HopeInv
<1>6. CASE Deliver
  <2>1. reader.to \in Calls /\ UNCHANGED <<pending, dialled, sup>> /\ reader.frame # {}
    BY <1>6, <1>t DEF Deliver, link, VerdictInv, ReaderInv
  <2>2. /\ call'[reader.to].reply # {} /\ call'[reader.to].pc = call[reader.to].pc
        /\ \A d \in Calls : d # reader.to => call'[d] = call[d]
    BY <1>6, <1>t, <2>1 DEF Deliver, CallType
  <2> QED
    BY <2>1, <2>2 DEF HopeInv
<1>7. CASE CleanupFails
  <2>1. CASE FailOne("cleanup", "Disconnected") /\ UNCHANGED sup
    BY <1>7, <2>1, FailOneHope DEF CleanupFails
  <2>2. CASE UNCHANGED <<sup, pending, call>>
    BY <1>7, <2>2, HopeQuiet DEF CleanupFails
  <2>3. CASE UnlockAll("cleanup") /\ UNCHANGED <<pending, call, reader>>
    <3>1. \A c \in Calls : call[c].pc \in {"write", "wait"} => pending[call[c].id] # c
      BY <1>t, <1>i, <2>3 DEF UnlockAll
    <3> QED
      BY <2>3, <3>1 DEF HopeInv
  <2> QED
    BY <1>7, <2>1, <2>2, <2>3 DEF CleanupFails
<1>8. CASE CloseFails
  <2>1. UNCHANGED <<reader, dialled, sup>>
    BY <1>8 DEF CloseFails, link
  <2>2. CASE FailOne("close", "ConnClosed")
    BY <2>1, <2>2, FailOneHope
  <2>3. CASE UNCHANGED <<pending, call>>
    BY <2>1, <2>3, HopeQuiet
  <2> QED
    BY <1>8, <2>2, <2>3 DEF CloseFails
<1> QED
  BY <1>1, <1>2, <1>3, <1>4, <1>5, <1>6, <1>7, <1>8 DEF Next, Supervisor, Close

\* A written post has heard, is hearing, or will hear from the cleanup of its socket.
THEOREM PostsForgetNobody == Spec => []NobodyForgotten
<1>1. Init => TypeOK /\ IdInv /\ VerdictInv /\ LinkInv /\ HopeInv
  BY TypeInit, VerdictInit, HopeInit
<1>2. TypeOK /\ IdInv /\ VerdictInv /\ LinkInv /\ HopeInv /\ [Next]_vars
        => TypeOK' /\ IdInv' /\ VerdictInv' /\ LinkInv' /\ HopeInv'
  BY TypeStep, VerdictStep, LinkStep, HopeStep
<1> QED
  BY <1>1, <1>2, HopeSuffices, PTL DEF Spec
-----------------------------------------------------------------------------
\* A Close after Start cancels the supervisor's context before it returns.
CancelInv == /\ sup = "unstarted" => closer.pc = "idle"
             /\ closer.pc # "idle" => closer.cancel
             /\ closer.pc \in {"fail", "done"} => ctxDone

LEMMA CancelStep ==
  ASSUME ~CloseBeforeStart, TypeOK, CancelInv, [Next]_vars
  PROVE  CancelInv'
<1>1. ASSUME UNCHANGED <<closer, ctxDone>>, sup' = "unstarted" => sup = "unstarted" PROVE CancelInv'
  BY <1>1 DEF CancelInv
<1>2. ASSUME NEW c \in Calls, Post(c) PROVE CancelInv'
  <2>1. UNCHANGED <<closer, ctxDone, sup>>
    BY <1>2 DEF Post, Enter, Register, Write, WriteFails, TakeReply, TakeErr, GiveUp, DropPending, link
  <2> QED
    BY <1>1, <2>1
<1>3. CASE Supervisor
  <2>1. UNCHANGED <<closer, ctxDone>>
    BY <1>3 DEF Supervisor, StartIt, Attempt, Dialled, DialFails, Publish, Receive, Deliver,
                CloseFromLoop, ReadFails, Unpublish, CloseSocket, CleanupFails, BackOff
  <2>2. sup' = "unstarted" => sup = "unstarted"
    BY <1>3 DEF Supervisor, StartIt, Attempt, Dialled, DialFails, Publish, Receive, Deliver,
                CloseFromLoop, ReadFails, Unpublish, CloseSocket, CleanupFails, BackOff, link
  <2> QED
    BY <1>1, <2>1, <2>2
<1>4. CASE CloseMarks
  <2>1. /\ sup # "unstarted" /\ closer'.pc = "cancel" /\ closer'.cancel = (sup # "unstarted")
        /\ UNCHANGED sup
    BY <1>4 DEF CloseMarks, link
  <2> QED
    BY <2>1 DEF CancelInv
<1>5. CASE CloseCancels
  <2>1. /\ closer.pc = "cancel" /\ closer' = [closer EXCEPT !.pc = "fail"] /\ UNCHANGED sup
        /\ ctxDone' = (ctxDone \/ closer.cancel)
    BY <1>5 DEF CloseCancels
  <2>2. closer'.pc = "fail" /\ closer'.cancel = closer.cancel
    BY <2>1 DEF TypeOK
  <2> QED
    BY <2>1, <2>2 DEF CancelInv
<1>6. CASE CloseFails
  <2>1. /\ closer.pc = "fail" /\ closer' \in {closer, [closer EXCEPT !.pc = "done"]}
        /\ UNCHANGED <<sup, ctxDone>>
    BY <1>6 DEF CloseFails, link
  <2>2. closer'.pc \in {"fail", "done"} /\ closer'.cancel = closer.cancel
    BY <2>1 DEF TypeOK
  <2> QED
    BY <2>1, <2>2 DEF CancelInv
<1>7. CASE Outside \/ Finished \/ UNCHANGED vars
  <2>1. UNCHANGED <<closer, ctxDone, sup>>
    BY <1>7 DEF Outside, NetworkDies, Process, Finished, link, vars
  <2> QED
    BY <1>1, <2>1
<1> QED
  BY <1>2, <1>3, <1>4, <1>5, <1>6, <1>7 DEF Next, Close

\* A Close that comes after Start is final: no dial begins once it has returned.
THEOREM CloseIsFinal == ~CloseBeforeStart /\ Spec => CloseIsPermanent
<1> SUFFICES ASSUME ~CloseBeforeStart PROVE Spec => CloseIsPermanent
  OBVIOUS
<1>1. Init => CancelInv
  BY DEF Init, CancelInv
<1>2. TypeOK /\ CancelInv /\ [Next]_vars => CancelInv'
  BY CancelStep
<1>3. CancelInv /\ [Next]_vars => [closer.pc = "done" /\ sup # "dialling" => sup' # "dialling"]_vars
  <2> SUFFICES ASSUME CancelInv, Next, closer.pc = "done", sup # "dialling", sup' = "dialling" PROVE FALSE
    OBVIOUS
  <2>1. ctxDone
    BY DEF CancelInv
  <2>2. ~Attempt
    BY <2>1 DEF Attempt
  <2>3. ASSUME NEW c \in Calls, Post(c) PROVE FALSE
    BY <2>3 DEF Post, Enter, Register, Write, WriteFails, TakeReply, TakeErr, GiveUp, DropPending, link
  <2>4. ~Supervisor
    BY <2>2 DEF Supervisor, StartIt, Dialled, DialFails, Publish, Receive, Deliver,
                CloseFromLoop, ReadFails, Unpublish, CloseSocket, CleanupFails, BackOff, link
  <2>5. ~Close /\ ~Outside /\ ~Finished
    BY DEF Close, CloseMarks, CloseCancels, CloseFails, Outside, NetworkDies, Process, Finished,
           link, vars
  <2> QED
    BY <2>3, <2>4, <2>5 DEF Next
<1> QED
  BY <1>1, <1>2, <1>3, TypeCorrect, PTL DEF Spec, CloseIsPermanent
===============================================================================
