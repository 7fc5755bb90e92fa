----------------------------- MODULE BookStream -----------------------------
(* WatchOrderBook (internal/domain/streams.go) on the connection of WsSubs:   *)
(* every consumer maintains a local book (internal/orderbook/book.go) from    *)
(* the order_book channel, and resubscribes in a goroutine of its own when an *)
(* update does not continue the book.                                         *)
(*                                                                            *)
(* The levels of a book are abstracted to the version of the exchange's book  *)
(* they are equal to; how they are kept is the orderbook package's matter.    *)
EXTENDS WsSubs

CONSTANT Breakable       \* consumers who may be given pushes that do not decode

VARIABLES book,          \* the local book: synced, the nonce it shows, its content
          resubscribing, \* consumers that drop everything but a snapshot
          missed,        \* history: those of them that could not decode one
          shown          \* history: what the handler was given last
bookVars == <<book, resubscribing, missed, shown>>

Empty == 0
Wrong == -1
NewBook == [synced |-> FALSE, nonce |-> 0, content |-> Empty]

BookInit == /\ Init /\ book = [s \in Consumers |-> NewBook]
            /\ resubscribing = {} /\ missed = {}
            /\ shown = [s \in Consumers |-> NewBook]

\* ApplySnapshot and ApplyUpdate.
FromSnapshot(p) == [synced |-> TRUE, nonce |-> p.nonce, content |-> p.nonce]
ContinuesAlways(s, p) == book[s].synced
Continues(s, p) == book[s].synced /\ p.begin = book[s].nonce
Updated(s, p) == [synced |-> TRUE, nonce |-> p.nonce,
                  content |-> IF book[s].content = p.begin THEN p.nonce ELSE Wrong]
-----------------------------------------------------------------------------
(* The handler of WatchOrderBook *)
Show(s, b) == /\ book' = [book EXCEPT ![s] = b] /\ shown' = [shown EXCEPT ![s] = b]
              /\ UNCHANGED thread

Skip(s, p) == s \in resubscribing /\ ~p.snapshot /\ UNCHANGED <<bookVars, thread>>

\* A push that does not decode is dropped before anything is changed.  Each
\* member of a group decodes for itself, and may here fail alone.  A lost delta
\* or first snapshot is noticed at the next delta; a snapshot that was to end a
\* gap is not, for the deltas after it are skipped (history).
DropBroken(s, p) == /\ s \in Breakable /\ (s \in resubscribing => p.snapshot)
                    /\ missed' = missed \cup ({s} \cap resubscribing)
                    /\ UNCHANGED <<book, resubscribing, shown, thread>>

TakeSnapshot(s, p) == /\ p.snapshot /\ Show(s, FromSnapshot(p))
                      /\ resubscribing' = resubscribing \ {s} /\ missed' = missed \ {s}

TakeUpdate(s, p) == /\ ~p.snapshot /\ s \notin resubscribing /\ Continues(s, p)
                    /\ Show(s, Updated(s, p)) /\ UNCHANGED <<resubscribing, missed>>

\* A gap: the book is marked unsynced and a goroutine is started.  Behaviours
\* in which every worker of the consumer is still running end here (bound).
Gap(s, p) == /\ ~p.snapshot /\ s \notin resubscribing /\ ~Continues(s, p)
             /\ book' = [book EXCEPT ![s].synced = FALSE]
             /\ resubscribing' = resubscribing \cup {s}
             /\ \E w \in Workers : Of(w) = s /\ At(w, "idle") /\ Goto(w, "check")
             /\ UNCHANGED <<missed, shown>>

BookHandle == /\ CallHandler
              /\ LET s == Head(reader.todo) p == reader.push IN
                 \/ Skip(s, p) \/ DropBroken(s, p)
                 \/ TakeSnapshot(s, p) \/ TakeUpdate(s, p) \/ Gap(s, p)

\* resubscribe gives up at once when the context is done.
WorkerSubscribesOnly(w) ==
  /\ At(w, "check") /\ Goto(w, IF Of(w) \in cancelled THEN "idle" ELSE "subscribe")
  /\ UNCHANGED <<conn, cancelled, holds, exchange, bookVars>>
WorkerChecks(w) ==
  /\ At(w, "check") /\ Goto(w, IF Of(w) \in cancelled THEN "idle" ELSE "unsubscribe")
  /\ UNCHANGED <<conn, cancelled, holds, exchange, bookVars>>

\* Reset runs under c.mu when a new socket is published.
BookPublish == /\ Publish
               /\ book' = [s \in Consumers |-> IF s \in Joined THEN NewBook ELSE book[s]]
               /\ resubscribing' = resubscribing \ Joined
               /\ missed' = missed \ Joined
               /\ UNCHANGED shown

\* The exchange's server drops an update.
LosePush(k) == /\ version[k] < MaxVersion /\ version' = [version EXCEPT ![k] = @ + 1]
               /\ UNCHANGED <<conn, side, feed, inbox, bookVars>>

Rest == \/ \E s \in Consumers : Watch(s) \/ Cancel(s) \/ ContextDone(s)
        \/ \E t \in Threads : Thread(t)
        \/ \E k \in Keys : Replay(k) \/ ReplayFails(k) \/ Change(k)
        \/ Replayed \/ Lookup \/ ReadFails \/ Cleanup \/ Stop \/ SocketDies \/ Close

BookNext == \/ BookPublish \/ BookHandle
            \/ \E w \in Workers : WorkerChecks(w)
            \/ \E k \in Keys : LosePush(k)
            \/ Rest /\ UNCHANGED bookVars

BookSpec == BookInit /\ [][BookNext]_<<vars, bookVars>>

\* As in WsSubs; the exchange keeps changing the book, within the bound.
BookFairness ==
  /\ \A t \in Threads : WF_<<vars, bookVars>>(Thread(t) /\ UNCHANGED bookVars)
  /\ \A w \in Workers : WF_<<vars, bookVars>>(WorkerChecks(w))
  /\ WF_<<vars, bookVars>>(BookPublish)
  /\ WF_<<vars, bookVars>>(BookHandle)
  /\ \A k \in Keys : WF_<<vars, bookVars>>(Replay(k) /\ UNCHANGED bookVars)
  /\ WF_<<vars, bookVars>>((Replayed \/ Lookup \/ ReadFails \/ Cleanup) /\ UNCHANGED bookVars)
  /\ WF_<<vars, bookVars>>((\E k \in Keys : ReplayFails(k)) /\ UNCHANGED bookVars)
BookLiveSpec == BookSpec /\ BookFairness
-----------------------------------------------------------------------------
Books == [synced : BOOLEAN, nonce : 0..MaxVersion, content : Wrong..MaxVersion]
BookTypeOK == /\ TypeOK /\ book \in [Consumers -> Books]
              /\ shown \in [Consumers -> Books]
              /\ resubscribing \subseteq Consumers /\ missed \subseteq resubscribing
              /\ \A s \in Consumers : book[s].synced => book[s].nonce # 0

(* Every book handed to a handler is the exchange's book of the nonce it      *)
(* shows: no lost or broken push and no reconnect leaves a wrong level in it. *)
ShownIsExact == \A s \in Consumers : shown[s].content = shown[s].nonce

(* streams.go:183 "On a continuity gap the SDK resubscribes to obtain a fresh *)
(* snapshot": on a settled connection with nothing left to read, a watcher    *)
(* still waits for the snapshot that ends a gap only when it was given one    *)
(* and could not decode it.  Nothing but a reconnect helps that one: the      *)
(* handler returns (227-230) before resubscribing is cleared (233), and with  *)
(* it set no delta is looked at again (222).                                  *)
GapHeals == Settled /\ inbox = <<>> /\ reader.todo = <<>> =>
              \A s \in Consumers : At(s, "joined") => s \notin resubscribing \/ s \in missed

(* A watcher left with a gap gets its book back, or at least a snapshot that  *)
(* does not decode.                                                           *)
GapHealsAtLast == \A s \in Consumers :
  s \in resubscribing ~> s \notin resubscribing \/ s \in missed \/ s \in cancelled \/ closed
=============================================================================
