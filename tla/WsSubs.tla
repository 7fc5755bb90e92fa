------------------------------- MODULE WsSubs -------------------------------
(* Subscriptions over the supervised connection (internal/ws/conn.go) and     *)
(* their lifetime (register in internal/domain/streams.go): the registry of   *)
(* channels, the subscribe and unsubscribe frames written for it, the replay  *)
(* after a reconnect, and the dispatch of pushes to the members of a channel. *)
(*                                                                            *)
(* A thread performs Subscribe or Unsubscribe for one consumer: the registry  *)
(* is updated under c.mu, the frame is written after the unlock.  A consumer  *)
(* has its own thread (Subscribe; Unsubscribe when its context ends); workers *)
(* are the goroutines WatchOrderBook starts to resubscribe (BookStream).      *)
(* Posts and the steps of Close are WsPost's subject.                         *)
EXTENDS Integers, Sequences, FiniteSets, SequencesExt

CONSTANTS Consumers,   \* subscriptions, identified by the pointer
          Keys,        \* route keys
          KeyOf,       \* the channel of a consumer
          Private,     \* channels that need an auth token
          Leavers,     \* consumers whose context may be cancelled
          Workers,     \* goroutines of resubscribe ...
          WorkerOf,    \* ... and the consumer each works for
          MaxSockets,  \* bound: sockets dialled
          MaxVersion,  \* bound: changes of a channel's data
          MaxClose     \* 1: the application may call Close, 0: it does not

ASSUME ChannelsAssumption == KeyOf \in [Consumers -> Keys] /\ Private \subseteq Keys
ASSUME WorkersAssumption == WorkerOf \in [Workers -> Consumers] /\ Consumers \cap Workers = {}
ASSUME BoundsAssumption == MaxSockets \in Nat /\ MaxVersion \in Nat \ {0} /\ MaxClose \in 0..1

VARIABLES members,   \* c.subs: the members of a channel's group, <<>> for no group
          closed,    \* c.closed
          socket,    \* c.socket: 0 is nil
          dialled,   \* sockets dialled so far; the last one is the current one
          alive,     \* the current socket works in both directions
          sup,       \* where connectAndRun is
          toReplay,  \* groups still to be replayed on the new socket
          reader,    \* dispatch: the push and the members not yet called
          thread,    \* the threads: program counter and the socket read under c.mu
          cancelled, \* consumers whose context is done
          holds,     \* the socket whose data a consumer holds, 0 after a Reset
          feed,      \* channels the exchange pushes on the current socket
          inbox,     \* pushes on their way, in order
          version    \* the exchange's data of a channel
conn == <<members, closed, socket, dialled, alive, sup, toReplay, reader>>
side == <<thread, cancelled, holds>>
exchange == <<feed, inbox, version>>
vars == <<conn, side, exchange>>

Threads == Consumers \cup Workers
Of(t) == IF t \in Workers THEN WorkerOf[t] ELSE t
Key(t) == KeyOf[Of(t)]
IdleReader == [todo |-> <<>>, push |-> <<>>]

Init == /\ members = [k \in Keys |-> <<>>] /\ closed = FALSE
        /\ socket = 0 /\ dialled = 0 /\ alive = FALSE /\ sup = "dial" /\ toReplay = {}
        /\ reader = IdleReader
        /\ thread = [t \in Threads |-> [pc |-> "idle", sock |-> 0]]
        /\ cancelled = {} /\ holds = [s \in Consumers |-> 0]
        /\ feed = {} /\ inbox = <<>> /\ version = [k \in Keys |-> 1]

At(t, pc) == thread[t].pc = pc
Goto(t, pc) == thread' = [thread EXCEPT ![t].pc = pc]
\* Where a thread goes on after Subscribe and after Unsubscribe.
AfterSubscribe(t) == IF t \in Workers THEN "idle" ELSE "joined"
AfterFailure(t) == IF t \in Workers THEN "idle" ELSE "failed"
AfterUnsubscribe(t) == IF t \in Workers THEN "subscribe" ELSE "left"
-----------------------------------------------------------------------------
(* The exchange's answer to a frame that reached it: a subscription is        *)
(* answered with a snapshot.                                                  *)
Snapshot(k) == [key |-> k, sock |-> dialled, snapshot |-> TRUE, begin |-> 0, nonce |-> version[k]]
FrameTaken(kind, k) ==
  IF kind = "subscribe"
  THEN feed' = feed \cup {k} /\ inbox' = Append(inbox, Snapshot(k))
  ELSE feed' = feed \ {k} /\ UNCHANGED inbox

(* writeFrame on socket s: taken, lost in the buffers of a dying socket, or   *)
(* failed; a failed write means a dead socket.                                *)
WriteOk(s, kind, k) ==
  /\ s = socket
  /\ IF alive THEN FrameTaken(kind, k) ELSE UNCHANGED <<feed, inbox>>
  /\ UNCHANGED alive
WriteFails(s) ==
  /\ s # socket \/ ~alive \/ dialled < MaxSockets
  /\ alive' = (alive /\ s # socket)
  /\ UNCHANGED <<feed, inbox>>
-----------------------------------------------------------------------------
(* Subscribe, Unsubscribe and their callers *)

\* register calls Subscribe once the stream is built.
Watch(s) == /\ At(s, "idle") /\ Goto(s, "subscribe")
            /\ UNCHANGED <<conn, cancelled, holds, exchange>>

Cancel(s) == /\ s \in Leavers \ cancelled /\ cancelled' = cancelled \cup {s}
             /\ UNCHANGED <<conn, thread, holds, exchange>>

\* The goroutine register leaves behind when Subscribe succeeded.
ContextDone(s) == /\ At(s, "joined") /\ s \in cancelled /\ Goto(s, "unsubscribe")
                  /\ UNCHANGED <<conn, cancelled, holds, exchange>>

\* The group is created by whoever comes first; only that call writes.
Subscribe(t) ==
  /\ At(t, "subscribe")
  /\ IF closed
     THEN Goto(t, AfterFailure(t)) /\ UNCHANGED members
     ELSE /\ members' = [members EXCEPT ![Key(t)] = Append(@, Of(t))]
          /\ IF members[Key(t)] = <<>> /\ socket # 0
             THEN thread' = [thread EXCEPT ![t] = [pc |-> "sendSub", sock |-> socket]]
             ELSE Goto(t, AfterSubscribe(t))
  /\ UNCHANGED <<closed, socket, dialled, alive, sup, toReplay, reader, cancelled, holds, exchange>>

SendSubscribe(t) ==
  /\ At(t, "sendSub")
  /\ \/ WriteOk(thread[t].sock, "subscribe", Key(t)) /\ Goto(t, AfterSubscribe(t))
     \/ WriteFails(thread[t].sock) /\ Goto(t, AfterFailure(t))
  /\ UNCHANGED <<members, closed, socket, dialled, sup, toReplay, reader, cancelled, holds, version>>

\* The token of a private channel cannot be had: nothing is written.
AuthFails(t) ==
  /\ At(t, "sendSub") /\ Key(t) \in Private /\ Goto(t, AfterFailure(t))
  /\ UNCHANGED <<conn, cancelled, holds, exchange>>

\* The members but one, copied in their order.
Without(group, sub) ==
  FoldLeft(LAMBDA kept, m : IF m = sub THEN kept ELSE Append(kept, m), <<>>, group)

\* Removing every member of the channel.
UnsubscribeAll(t) ==
  /\ At(t, "unsubscribe")
  /\ members' = [members EXCEPT ![Key(t)] = <<>>]
  /\ IF members[Key(t)] # <<>> /\ socket # 0
     THEN thread' = [thread EXCEPT ![t] = [pc |-> "sendUnsub", sock |-> socket]]
     ELSE Goto(t, AfterUnsubscribe(t))
  /\ UNCHANGED <<closed, socket, dialled, alive, sup, toReplay, reader, cancelled, holds, exchange>>
Unsubscribe(t) ==
  /\ At(t, "unsubscribe")
  /\ LET left == Without(members[Key(t)], Of(t))
         last == members[Key(t)] # <<>> /\ left = <<>> IN
     IF closed
     THEN Goto(t, AfterUnsubscribe(t)) /\ UNCHANGED members
     ELSE /\ members' = [members EXCEPT ![Key(t)] = left]
          /\ IF last /\ socket # 0
             THEN thread' = [thread EXCEPT ![t] = [pc |-> "sendUnsub", sock |-> socket]]
             ELSE Goto(t, AfterUnsubscribe(t))
  /\ UNCHANGED <<closed, socket, dialled, alive, sup, toReplay, reader, cancelled, holds, exchange>>

\* The result of Unsubscribe is ignored by both callers.
SendUnsubscribe(t) ==
  /\ At(t, "sendUnsub")
  /\ \/ WriteOk(thread[t].sock, "unsubscribe", Key(t))
     \/ WriteFails(thread[t].sock)
  /\ Goto(t, AfterUnsubscribe(t))
  /\ UNCHANGED <<members, closed, socket, dialled, sup, toReplay, reader, cancelled, holds, version>>

Thread(t) == \/ Subscribe(t) \/ SendSubscribe(t) \/ AuthFails(t)
             \/ Unsubscribe(t) \/ SendUnsubscribe(t)
-----------------------------------------------------------------------------
(* connectAndRun: publish and reset, replay, read, clean up *)

Registered == {k \in Keys : members[k] # <<>>}
Joined == UNION {ToSet(members[k]) : k \in Keys}

\* Publishing without calling the Reset hooks.
PublishOnly ==
  /\ sup = "dial" /\ ~closed /\ dialled < MaxSockets
  /\ dialled' = dialled + 1 /\ socket' = dialled' /\ alive' = TRUE
  /\ feed' = {} /\ inbox' = <<>>
  /\ toReplay' = Registered /\ sup' = "replay"
  /\ UNCHANGED <<members, closed, reader, thread, cancelled, holds, version>>
\* The dial succeeded; under c.mu the socket is published and the members reset.
Publish ==
  /\ sup = "dial" /\ ~closed /\ dialled < MaxSockets
  /\ dialled' = dialled + 1 /\ socket' = dialled' /\ alive' = TRUE
  /\ feed' = {} /\ inbox' = <<>>
  /\ holds' = [s \in Consumers |-> IF s \in Joined THEN 0 ELSE holds[s]]
  /\ toReplay' = Registered /\ sup' = "replay"
  /\ UNCHANGED <<members, closed, reader, thread, cancelled, version>>

Replay(k) ==
  /\ sup = "replay" /\ k \in toReplay
  /\ WriteOk(dialled, "subscribe", k) /\ toReplay' = toReplay \ {k}
  /\ UNCHANGED <<members, closed, socket, dialled, sup, reader, side, version>>

\* Going on with the next channel when a token cannot be had.
ReplaySkips(k) ==
  /\ sup = "replay" /\ k \in toReplay /\ k \in Private /\ dialled < MaxSockets
  /\ toReplay' = toReplay \ {k}
  /\ UNCHANGED <<members, closed, socket, dialled, alive, sup, reader, side, exchange>>
\* A token or a write that fails takes the connection down: the next attempt
\* replays everything again.
ReplayFails(k) ==
  /\ sup = "replay" /\ k \in toReplay
  /\ (k \in Private /\ dialled < MaxSockets) \/ ~alive
  /\ sup' = "down" /\ alive' = FALSE
  /\ UNCHANGED <<members, closed, socket, dialled, toReplay, reader, side, exchange>>

\* Reading before the groups are replayed.
ReplayedEarly == /\ sup = "replay" /\ sup' = "run"
                 /\ UNCHANGED <<members, closed, socket, dialled, alive, toReplay, reader, side, exchange>>
Replayed == /\ sup = "replay" /\ toReplay = {} /\ sup' = "run"
            /\ UNCHANGED <<members, closed, socket, dialled, alive, toReplay, reader, side, exchange>>

\* dispatch looks the members up under c.mu ...
Lookup == /\ sup = "run" /\ reader.todo = <<>> /\ inbox # <<>>
          /\ reader' = [todo |-> members[Head(inbox).key], push |-> Head(inbox)]
          /\ inbox' = Tail(inbox)
          /\ UNCHANGED <<members, closed, socket, dialled, alive, sup, toReplay, side, feed, version>>

\* ... and calls their handlers one by one on the connection goroutine.
CallHandler ==
  /\ reader.todo # <<>>
  /\ reader' = IF Len(reader.todo) = 1 THEN IdleReader ELSE [reader EXCEPT !.todo = Tail(@)]
  /\ holds' = [holds EXCEPT ![Head(reader.todo)] = reader.push.sock]
  /\ UNCHANGED <<members, closed, socket, dialled, alive, sup, toReplay, cancelled, exchange>>
Handle == CallHandler /\ UNCHANGED thread

SocketDies == /\ alive /\ dialled < MaxSockets /\ alive' = FALSE
              /\ UNCHANGED <<members, closed, socket, dialled, sup, toReplay, reader, side, exchange>>

ReadFails == /\ sup = "run" /\ reader.todo = <<>> /\ ~alive /\ sup' = "down"
             /\ UNCHANGED <<members, closed, socket, dialled, alive, toReplay, reader, side, exchange>>

Cleanup == /\ sup = "down" /\ socket' = 0 /\ feed' = {} /\ inbox' = <<>> /\ toReplay' = {}
           /\ sup' = IF closed THEN "stopped" ELSE "dial"
           /\ UNCHANGED <<members, closed, dialled, alive, reader, side, version>>

Stop == /\ sup = "dial" /\ closed /\ sup' = "stopped"
        /\ UNCHANGED <<members, closed, socket, dialled, alive, toReplay, reader, side, exchange>>

Close == /\ MaxClose = 1 /\ ~closed /\ closed' = TRUE /\ alive' = FALSE
         /\ UNCHANGED <<members, socket, dialled, sup, toReplay, reader, side, exchange>>

Supervisor == \/ Publish \/ (\E k \in Keys : Replay(k) \/ ReplayFails(k)) \/ Replayed
              \/ Lookup \/ Handle \/ ReadFails \/ Cleanup \/ Stop
-----------------------------------------------------------------------------
(* The data of a channel changes: pushed to the subscribed socket. *)
Change(k) == /\ version[k] < MaxVersion
             /\ version' = [version EXCEPT ![k] = @ + 1]
             /\ inbox' = IF k \in feed /\ alive
                         THEN Append(inbox, [key |-> k, sock |-> dialled, snapshot |-> FALSE,
                                             begin |-> version[k], nonce |-> version[k] + 1])
                         ELSE inbox
             /\ UNCHANGED <<conn, side, feed>>

Next == \/ \E s \in Consumers : Watch(s) \/ Cancel(s) \/ ContextDone(s)
        \/ \E t \in Threads : Thread(t)
        \/ Supervisor \/ SocketDies \/ Close
        \/ \E k \in Keys : Change(k)

Spec == Init /\ [][Next]_vars

\* Goroutines run on; the last socket of a bounded behaviour stays up.
Fairness == /\ \A t \in Threads : WF_vars(Thread(t))
            /\ WF_vars(Supervisor)
            /\ \A k \in Keys : WF_vars(Replay(k))
LiveSpec == Spec /\ Fairness
-----------------------------------------------------------------------------
Pushes == [key : Keys, sock : 1..MaxSockets, snapshot : BOOLEAN,
           begin : 0..MaxVersion, nonce : 1..MaxVersion]
Pcs == {"idle", "check", "subscribe", "sendSub", "joined", "failed", "unsubscribe", "sendUnsub", "left"}
ThreadStates == [pc : Pcs, sock : 0..MaxSockets]
TypeOK ==
  /\ members \in [Keys -> Seq(Consumers)] /\ closed \in BOOLEAN /\ alive \in BOOLEAN
  /\ dialled \in 0..MaxSockets
  /\ socket = IF sup \in {"replay", "run", "down"} THEN dialled ELSE 0
  /\ sup \in {"dial", "replay", "run", "down", "stopped"} /\ toReplay \subseteq Keys
  /\ reader.todo \in Seq(Consumers) /\ (reader.todo # <<>> => reader.push \in Pushes)
  /\ thread \in [Threads -> ThreadStates]
  /\ cancelled \subseteq Consumers /\ holds \in [Consumers -> 0..MaxSockets]
  /\ feed \subseteq Keys /\ inbox \in Seq(Pushes) /\ version \in [Keys -> 1..MaxVersion]

\* No call is under way, none is about to begin, and the connection is up.
Settled == /\ sup = "run" /\ alive
           /\ \A t \in Threads : thread[t].pc \in {"idle", "joined", "failed", "left"}
           /\ \A s \in cancelled : ~At(s, "joined")

(* conn.go:252 "The exchange is subscribed ONCE - by the first of them - and   *)
(* every push is delivered to all handlers": once the connection has settled, *)
(* every channel somebody watches without an error is fed.                    *)
WatchedIsFed == Settled => \A s \in Consumers : At(s, "joined") => KeyOf[s] \in feed

(* The same for a channel nobody has left or failed to join: no reconnect, no *)
(* sharing and no early subscription loses its feed.                          *)
Undisturbed(k) == \A s \in Consumers : KeyOf[s] = k => s \notin cancelled /\ ~At(s, "failed")
UndisturbedIsFed == Settled => \A s \in Consumers :
  At(s, "joined") /\ Undisturbed(KeyOf[s]) => KeyOf[s] \in feed

(* conn.go:486 "a reconnect cannot mix old and new state": a handler is never *)
(* given a push of a new socket while it holds data of an older one.          *)
NoMixing == \A i \in 1..Len(reader.todo) : holds[reader.todo[i]] \in {0, reader.push.sock}

(* The registry lists a consumer that is watching exactly once: shared        *)
(* channels neither lose nor double a member.                                 *)
Places(s) == {i \in 1..Len(members[KeyOf[s]]) : members[KeyOf[s]][i] = s}
MemberOnce == \A s \in Consumers :
  ~closed /\ ~At(s, "failed") =>
    Cardinality(Places(s)) = IF thread[s].pc \in {"sendSub", "joined", "unsubscribe"} THEN 1 ELSE 0

(* A consumer of an undisturbed channel is fed in the end: subscribing while  *)
(* disconnected, during a replay or on a dying socket only delays it.         *)
UndisturbedIsFedAtLast == \A s \in Consumers :
  At(s, "joined") ~> \/ sup = "run" /\ KeyOf[s] \in feed
                    \/ ~Undisturbed(KeyOf[s]) \/ closed
=============================================================================
