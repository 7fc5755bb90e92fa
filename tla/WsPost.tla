------------------------------- MODULE WsPost -------------------------------
(* jsonapi posts over the supervised connection (internal/ws/conn.go): Post,  *)
(* the correlation of replies by dispatchPost, the supervisor that dials,     *)
(* publishes a socket and cleans up after it, and Close.                      *)
(*                                                                            *)
(* Goroutines: one per Post call, the supervisor (whose read loop dispatches  *)
(* the replies), and the caller of Close.  c.mu and pendingMu are held for    *)
(* one step wherever the code only touches memory under them; failAllPending  *)
(* sends on a channel while it holds pendingMu, so it owns the lock for       *)
(* several steps.  Subscriptions are WsSubs' subject.                         *)
EXTENDS Integers, FiniteSets

CONSTANTS Calls,            \* the Post calls of one behaviour, one identity each
          MaxSockets,       \* bound: sockets dialled successfully
          CloseBeforeStart, \* may the application call Close before Start?
          None

ASSUME CallsAssumption == IsFiniteSet(Calls) /\ None \notin Calls /\ None # "Reply"
ASSUME SocketsAssumption == MaxSockets \in Nat /\ CloseBeforeStart \in BOOLEAN

VARIABLES closed,    \* c.closed
          socket,    \* c.socket: 0 is nil, n the n-th socket dialled
          dialled,   \* how many sockets were dialled
          open,      \* sockets whose local end is open
          wired,     \* sockets whose network path is up
          sup,       \* where the supervisor is
          ctxDone,   \* the supervisor's context was cancelled
          closer,    \* the Close call: where it is, what it read under c.mu
          postSeq,   \* c.postSeq
          pending,   \* c.pending: id -> the call whose channels are registered
          pendingMu, \* who sends while holding pendingMu
          reader,    \* dispatchPost between its unlock and its send
          call,      \* the Post calls: program counter, locals, channels, result
          requests,  \* written frames on their way to the exchange
          replies,   \* answers on their way back
          taken      \* history: calls whose request the exchange processed
vars == <<closed, socket, dialled, open, wired, sup, ctxDone, closer, postSeq,
          pending, pendingMu, reader, call, requests, replies, taken>>
link == <<socket, dialled, open, wired, sup>>
wire == <<requests, replies, taken>>

Ids == 1..Cardinality(Calls)
Sockets == 1..MaxSockets
Frames == [sock : Sockets, id : Ids, of : Calls]
Errors == {"ConnClosed", "NotReady", "Disconnected", "Timeout", "Write"}
\* reply and err are channels of capacity one, empty or with one element; got
\* is the frame a call returns.
NewCall == [pc |-> "idle", sock |-> 0, id |-> 0, reply |-> {}, err |-> {},
            got |-> {}, result |-> None]

Init == /\ closed = FALSE /\ socket = 0 /\ dialled = 0 /\ open = {} /\ wired = {}
        /\ sup = "unstarted" /\ ctxDone = FALSE
        /\ closer = [pc |-> "idle", sock |-> 0, cancel |-> FALSE]
        /\ postSeq = 0 /\ pending = [i \in Ids |-> None] /\ pendingMu = None
        /\ reader = [to |-> None, frame |-> {}]
        /\ call = [c \in Calls |-> NewCall]
        /\ requests = {} /\ replies = {} /\ taken = {}

At(c, pc) == call[c].pc = pc
\* A verdict in either channel of a call.
InHand(c) == call[c].reply \cup call[c].err # {}
-----------------------------------------------------------------------------
(* Post *)

\* Post reads socket and closed under c.mu, and takes the next id.
Enter(c) ==
  /\ At(c, "idle")
  /\ IF closed \/ socket = 0
     THEN /\ call' = [call EXCEPT ![c].pc = "done", ![c].result = IF closed THEN "ConnClosed" ELSE "NotReady"]
          /\ UNCHANGED postSeq
     ELSE /\ postSeq' = postSeq + 1
          /\ call' = [call EXCEPT ![c].pc = "register", ![c].sock = socket, ![c].id = postSeq + 1]
  /\ UNCHANGED <<closed, link, ctxDone, closer, pending, pendingMu, reader, wire>>

Register(c) ==
  /\ At(c, "register") /\ pendingMu = None
  /\ pending' = [pending EXCEPT ![call[c].id] = c]
  /\ call' = [call EXCEPT ![c].pc = "write"]
  /\ UNCHANGED <<closed, link, ctxDone, closer, postSeq, pendingMu, reader, wire>>

\* writeFrame succeeds only while the local end is open; on a socket whose
\* network is gone the frame is buffered and lost.
Write(c) ==
  /\ At(c, "write") /\ call[c].sock \in open
  /\ requests' = IF call[c].sock \in wired
                 THEN requests \cup {[sock |-> call[c].sock, id |-> call[c].id, of |-> c]}
                 ELSE requests
  /\ call' = [call EXCEPT ![c].pc = "wait"]
  /\ UNCHANGED <<closed, link, ctxDone, closer, postSeq, pending, pendingMu, reader, replies, taken>>

\* ... and may fail at any time (closed socket, write deadline).
WriteFails(c) ==
  /\ At(c, "write")
  /\ call' = [call EXCEPT ![c].pc = "drop", ![c].result = "Write"]
  /\ UNCHANGED <<closed, link, ctxDone, closer, postSeq, pending, pendingMu, reader, wire>>

\* The select of Post: whichever channel is ready, or the timer, or ctx.
TakeReply(c) ==
  /\ At(c, "wait") /\ call[c].reply # {}
  /\ call' = [call EXCEPT ![c].pc = "done", ![c].reply = {}, ![c].got = call[c].reply, ![c].result = "Reply"]
  /\ UNCHANGED <<closed, link, ctxDone, closer, postSeq, pending, pendingMu, reader, wire>>

TakeErr(c) ==
  /\ At(c, "wait")
  /\ \E error \in call[c].err : call' = [call EXCEPT ![c].pc = "done", ![c].err = {}, ![c].result = error]
  /\ UNCHANGED <<closed, link, ctxDone, closer, postSeq, pending, pendingMu, reader, wire>>

GiveUpWithoutDrop(c) ==
  /\ At(c, "wait")
  /\ call' = [call EXCEPT ![c].pc = "done", ![c].result = "Timeout"]
  /\ UNCHANGED <<closed, link, ctxDone, closer, postSeq, pending, pendingMu, reader, wire>>
GiveUp(c) ==
  /\ At(c, "wait")
  /\ call' = [call EXCEPT ![c].pc = "drop", ![c].result = "Timeout"]
  /\ UNCHANGED <<closed, link, ctxDone, closer, postSeq, pending, pendingMu, reader, wire>>

DropPending(c) ==
  /\ At(c, "drop") /\ pendingMu = None
  /\ pending' = [pending EXCEPT ![call[c].id] = None]
  /\ call' = [call EXCEPT ![c].pc = "done"]
  /\ UNCHANGED <<closed, link, ctxDone, closer, postSeq, pendingMu, reader, wire>>

Post(c) == \/ Enter(c) \/ Register(c) \/ Write(c) \/ WriteFails(c)
           \/ TakeReply(c) \/ TakeErr(c) \/ GiveUp(c) \/ DropPending(c)
-----------------------------------------------------------------------------
(* failAllPending, run by the supervisor's cleanup and by Close *)

LockAll(who) == pendingMu = None /\ pendingMu' = who

\* One turn of the loop: the send blocks while the channel is full.
FailOne(who, error) ==
  /\ pendingMu = who
  /\ \E id \in Ids :
       /\ pending[id] # None /\ call[pending[id]].err = {}
       /\ call' = [call EXCEPT ![pending[id]].err = {error}]
       /\ pending' = [pending EXCEPT ![id] = None]

UnlockAll(who) == pendingMu = who /\ (\A id \in Ids : pending[id] = None) /\ pendingMu' = None
-----------------------------------------------------------------------------
(* The supervisor: dial, publish, read, clean up, back off *)

StartIt == /\ sup = "unstarted" /\ sup' = "top"
           /\ UNCHANGED <<closed, socket, dialled, open, wired, ctxDone, closer, postSeq,
                          pending, pendingMu, reader, call, wire>>

\* The head of the loop checks the context before every dial.
Attempt == /\ sup = "top" /\ sup' = IF ctxDone THEN "stopped" ELSE "dialling"
           /\ UNCHANGED <<closed, socket, dialled, open, wired, ctxDone, closer, postSeq,
                          pending, pendingMu, reader, call, wire>>

DialFails == /\ sup = "dialling" /\ sup' = "backoff"
             /\ UNCHANGED <<closed, socket, dialled, open, wired, ctxDone, closer, postSeq,
                            pending, pendingMu, reader, call, wire>>

Dialled == /\ sup = "dialling" /\ dialled < MaxSockets
           /\ dialled' = dialled + 1
           /\ open' = open \cup {dialled'} /\ wired' = wired \cup {dialled'}
           /\ sup' = "publish"
           /\ UNCHANGED <<closed, socket, ctxDone, closer, postSeq, pending, pendingMu,
                          reader, call, wire>>

\* Under c.mu: a connection closed meanwhile gives the socket up.
Publish == /\ sup = "publish"
           /\ IF closed THEN /\ open' = open \ {dialled} /\ sup' = "backoff"
                             /\ UNCHANGED socket
                        ELSE socket' = dialled /\ sup' = "run" /\ UNCHANGED open
           /\ UNCHANGED <<closed, dialled, wired, ctxDone, closer, postSeq, pending,
                          pendingMu, reader, call, wire>>

\* The pairing a reply finds in the table; replies nobody waits for are orphans.
FirstPending == IF \E i \in Ids : pending[i] # None
                THEN pending[CHOOSE i \in Ids : /\ pending[i] # None
                                                /\ \A j \in Ids : pending[j] # None => i <= j]
                ELSE None
WaiterFifo(id) == FirstPending
Waiter(id) == pending[id]

\* dispatchPost looks the id up and deletes the entry under pendingMu.  Frames
\* already buffered are still read after the socket broke.
ReceiveKeepsEntry(f) ==
  /\ sup = "run" /\ reader.to = None /\ pendingMu = None
  /\ f \in replies /\ f.sock = dialled
  /\ replies' = replies \ {f}
  /\ reader' = [to |-> Waiter(f.id), frame |-> {f}]
  /\ UNCHANGED <<closed, link, ctxDone, closer, postSeq, pending, pendingMu, call, requests, taken>>
ReceiveOrphanKeepsLock(f) ==
  /\ sup = "run" /\ reader.to = None /\ pendingMu = None
  /\ f \in replies /\ f.sock = dialled
  /\ replies' = replies \ {f}
  /\ reader' = [to |-> Waiter(f.id), frame |-> {f}]
  /\ pending' = [pending EXCEPT ![f.id] = None]
  /\ pendingMu' = IF pending[f.id] = None THEN "reader" ELSE None
  /\ UNCHANGED <<closed, link, ctxDone, closer, postSeq, call, requests, taken>>
Receive(f) ==
  /\ sup = "run" /\ reader.to = None /\ pendingMu = None
  /\ f \in replies /\ f.sock = dialled
  /\ replies' = replies \ {f}
  /\ reader' = IF Waiter(f.id) = None THEN reader ELSE [to |-> Waiter(f.id), frame |-> {f}]
  /\ pending' = [pending EXCEPT ![f.id] = None]
  /\ UNCHANGED <<closed, link, ctxDone, closer, postSeq, pendingMu, call, requests, taken>>

\* ... and sends on the waiter's channel after the unlock.
Deliver ==
  /\ reader.to # None /\ call[reader.to].reply = {}
  /\ call' = [call EXCEPT ![reader.to].reply = reader.frame]
  /\ reader' = [to |-> None, frame |-> {}]
  /\ UNCHANGED <<closed, link, ctxDone, closer, postSeq, pending, pendingMu, wire>>

\* The ping loop (failed write) and the context's watcher close the socket.
CloseFromLoop == /\ sup = "run" /\ dialled \in open /\ (ctxDone \/ dialled \notin wired)
                 /\ open' = open \ {dialled}
                 /\ UNCHANGED <<closed, socket, dialled, wired, sup, ctxDone, closer, postSeq,
                                pending, pendingMu, reader, call, wire>>

\* ReadMessage fails: local close, network failure or the read deadline.
ReadFails == /\ sup = "run" /\ reader.to = None
             /\ dialled \notin open \cap wired
             /\ sup' = "unpublish"
             /\ UNCHANGED <<closed, socket, dialled, open, wired, ctxDone, closer, postSeq,
                            pending, pendingMu, reader, call, wire>>

\* Answers nobody has read yet are gone with the read loop.
Unpublish == /\ sup = "unpublish" /\ socket' = 0 /\ sup' = "close"
             /\ replies' = {}
             /\ UNCHANGED <<closed, dialled, open, wired, ctxDone, closer, postSeq, pending,
                            pendingMu, reader, call, requests, taken>>

CloseSocketSkipped == /\ sup = "close" /\ sup' = "fail"
                      /\ UNCHANGED <<closed, socket, dialled, open, wired, ctxDone, closer,
                                     postSeq, pending, pendingMu, reader, call, wire>>
CloseSocket == /\ sup = "close" /\ open' = open \ {dialled} /\ sup' = "fail"
               /\ UNCHANGED <<closed, socket, dialled, wired, ctxDone, closer, postSeq,
                              pending, pendingMu, reader, call, wire>>

CleanupFails ==
  /\ sup = "fail"
  /\ \/ LockAll("cleanup") /\ UNCHANGED <<sup, pending, call>>
     \/ FailOne("cleanup", "Disconnected") /\ UNCHANGED <<sup, pendingMu>>
     \/ UnlockAll("cleanup") /\ sup' = "backoff" /\ UNCHANGED <<pending, call>>
  /\ UNCHANGED <<closed, socket, dialled, open, wired, ctxDone, closer, postSeq, reader, wire>>

\* After an attempt: return when cancelled, else sleep and go round.
BackOff == /\ sup = "backoff" /\ sup' \in IF ctxDone THEN {"stopped", "top"} ELSE {"top"}
           /\ UNCHANGED <<closed, socket, dialled, open, wired, ctxDone, closer, postSeq,
                          pending, pendingMu, reader, call, wire>>

Supervisor == \/ StartIt \/ Attempt \/ Dialled \/ DialFails \/ Publish
              \/ (\E f \in Frames : Receive(f)) \/ Deliver \/ CloseFromLoop \/ ReadFails
              \/ Unpublish \/ CloseSocket \/ CleanupFails \/ BackOff
-----------------------------------------------------------------------------
(* Close *)

CloseMarks == /\ closer.pc = "idle" /\ (sup # "unstarted" \/ CloseBeforeStart)
              /\ closed' = TRUE
              /\ closer' = [pc |-> "cancel", sock |-> socket, cancel |-> sup # "unstarted"]
              /\ UNCHANGED <<link, ctxDone, postSeq, pending, pendingMu, reader, call, wire>>

CloseCancelsNothing == /\ closer.pc = "cancel"
                       /\ open' = open \ {closer.sock}
                       /\ closer' = [closer EXCEPT !.pc = "fail"]
                       /\ UNCHANGED <<closed, socket, dialled, wired, sup, ctxDone, postSeq,
                                      pending, pendingMu, reader, call, wire>>
CloseCancels == /\ closer.pc = "cancel"
                /\ ctxDone' = (ctxDone \/ closer.cancel)
                /\ open' = open \ {closer.sock}
                /\ closer' = [closer EXCEPT !.pc = "fail"]
                /\ UNCHANGED <<closed, socket, dialled, wired, sup, postSeq, pending,
                               pendingMu, reader, call, wire>>

CloseFails ==
  /\ closer.pc = "fail"
  /\ \/ LockAll("close") /\ UNCHANGED <<closer, pending, call>>
     \/ FailOne("close", "ConnClosed") /\ UNCHANGED <<closer, pendingMu>>
     \/ /\ UnlockAll("close") /\ UNCHANGED <<pending, call>>
        /\ closer' = [closer EXCEPT !.pc = "done"]
  /\ UNCHANGED <<closed, link, ctxDone, postSeq, reader, wire>>

Close == CloseMarks \/ CloseCancels \/ CloseFails
-----------------------------------------------------------------------------
(* The network and the exchange *)

NetworkDies == /\ \E s \in wired : /\ wired' = wired \ {s}
                                    /\ requests' = {f \in requests : f.sock # s}
               /\ UNCHANGED <<closed, socket, dialled, open, sup, ctxDone, closer, postSeq,
                              pending, pendingMu, reader, call, replies, taken>>

\* The exchange processes a request and answers it, at once or never.
Process(f) == /\ f \in requests /\ f.sock \in wired
              /\ requests' = requests \ {f} /\ taken' = taken \cup {f.of}
              /\ \/ UNCHANGED replies
                 \/ socket = f.sock /\ replies' = replies \cup {f}
              /\ UNCHANGED <<closed, link, ctxDone, closer, postSeq, pending, pendingMu,
                             reader, call>>

Outside == NetworkDies \/ \E f \in Frames : Process(f)

\* All calls answered and the supervisor gone: nothing is left to do.
Finished == /\ sup = "stopped" /\ closer.pc = "done" /\ \A c \in Calls : At(c, "done")
            /\ UNCHANGED vars

Next == (\E c \in Calls : Post(c)) \/ Supervisor \/ Close \/ Outside \/ Finished

Spec == Init /\ [][Next]_vars

\* Every goroutine runs on and timers fire.  Weak fairness is enough for the
\* mutex too: within the bounds it is taken finitely often.
Fairness == /\ \A c \in Calls : WF_vars(Post(c))
            /\ WF_vars(CleanupFails) /\ WF_vars(CloseFails)
LiveSpec == Spec /\ Fairness
-----------------------------------------------------------------------------
CallType == [pc : {"idle", "register", "write", "wait", "drop", "done"},
             sock : 0..MaxSockets, id : 0..Cardinality(Calls),
             reply : SUBSET Frames, err : SUBSET {"Disconnected", "ConnClosed"},
             got : SUBSET Frames, result : Errors \cup {"Reply", None}]
TypeOK ==
  /\ closed \in BOOLEAN /\ ctxDone \in BOOLEAN
  /\ socket \in 0..MaxSockets /\ dialled \in 0..MaxSockets
  /\ open \subseteq Sockets /\ wired \subseteq Sockets
  /\ sup \in {"unstarted", "top", "dialling", "publish", "run", "unpublish", "close",
              "fail", "backoff", "stopped"}
  /\ closer \in [pc : {"idle", "cancel", "fail", "done"}, sock : 0..MaxSockets,
                 cancel : BOOLEAN]
  /\ postSeq \in 0..Cardinality(Calls)
  /\ pending \in [Ids -> Calls \cup {None}]
  /\ pendingMu \in {None, "cleanup", "close"}
  /\ reader \in [to : Calls \cup {None}, frame : SUBSET Frames]
  /\ call \in [Calls -> CallType]
  /\ requests \subseteq Frames /\ replies \subseteq Frames /\ taken \subseteq Calls

(* A caller that gets a reply gets the reply to its own request, which the    *)
(* exchange has processed: two orders in flight are never confused.           *)
OwnReply == \A c \in Calls : call[c].result = "Reply" =>
              c \in taken /\ \A f \in call[c].got : f.of = c

(* A call gets one verdict: neither the read loop nor failAllPending (which   *)
(* holds pendingMu) ever finds the channel it sends on occupied, so neither   *)
(* can block the connection.                                                  *)
OneVerdict == /\ reader.to # None => ~InHand(reader.to)
              /\ \A id \in Ids : pending[id] # None => ~InHand(pending[id])
              /\ reader.to # None => \A id \in Ids : pending[id] # reader.to

(* A written post is always going to hear: its verdict is in its channels, in *)
(* the reader's hands, or it is registered while the cleanup of its socket is *)
(* still to come.  Nobody is left to run into the timeout by a dead socket.   *)
NobodyForgotten ==
  \A c \in Calls : At(c, "wait") =>
    \/ InHand(c) \/ reader.to = c
    \/ /\ pending[call[c].id] = c /\ call[c].sock = dialled
       /\ sup \in {"run", "unpublish", "close", "fail"}

(* The table of pending posts holds no entry of a call that has returned.     *)
NoLeak == \A id \in Ids : pending[id] # None =>
            call[pending[id]].pc \in {"write", "wait", "drop"}

(* Every Post returns, also when the connection dies or is closed under it.   *)
EveryPostReturns == \A c \in Calls : At(c, "register") ~> At(c, "done")

(* conn.go:200 "Close terminates the connection permanently": once Close has  *)
(* returned the supervisor starts no further attempt.                         *)
CloseIsPermanent == [][closer.pc = "done" /\ sup # "dialling" => sup' # "dialling"]_vars
=============================================================================
