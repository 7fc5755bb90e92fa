------------------------------- MODULE Streams --------------------------------
(* The streams of a section and what their handlers maintain: a Watch call    *)
(* (Pushes), with the local order book (OrderBook) for WatchOrderBook and the *)
(* TxTracker, fed by WatchTransactions, that Await calls of the same program  *)
(* ask and another client's stream feeds too.                                 *)
(*                                                                            *)
(* A behaviour is about one stream.  What its kind does not touch stands      *)
(* still; the markets change under the streams that filter by them (bound).   *)
EXTENDS Pushes, OrderBook, TxTracker

CONSTANTS Mine,   \* the observer that is the Watch call's goroutine
          Batches \* bound: batches of transactions a push may carry: [hash, pending]

ASSUME StreamsAssumption == /\ Mine \in Observers
                            /\ Batches \subseteq Seq([hash : Hashes, pending : BOOLEAN])

VARIABLE batch \* transactions of the push in hand not yet reported
vars == <<registryVars, watch, pushVars, localBookVars, trackerVars, batch>>

Kind == watch.call.kind
ForBook == Kind = "order_book"
ForTracker == Kind = "account_tx"

\* Bound: the two sides of the exchange's book begin alike.
Init == /\ RegistryInit /\ PushInit /\ BookInit /\ TrackerInit /\ batch = <<>>
        /\ truth["asks"] = truth["bids"]
        /\ ~ForBook => /\ maxDepth = CHOOSE d \in Depths : TRUE
                       /\ truth = [s \in Sides |-> [p \in Prices |-> 0]]
        /\ ForBook \/ ForTracker => shared = {}
        /\ ~ForTracker => \A c, d \in Calls : call[c].hash = call[d].hash
-----------------------------------------------------------------------------
\* WatchOrderBook maintains the book; its resubscription on a gap is in BookStream.
BookMoves == /\ ForBook /\ In("on") /\ BookNext
             /\ UNCHANGED <<registryVars, watch, pushVars, trackerVars, batch>>

\* WatchTransactions hands the handler, Observe, one transaction after the other.
Batch == /\ ForTracker /\ In("on") /\ batch = <<>> /\ batch' \in Batches
         /\ UNCHANGED trackerVars
\* Observe records nothing of a transaction that is still pending.
Report == /\ batch # <<>> /\ batch' = Tail(batch)
          /\ IF Head(batch).pending THEN waking[Mine].todo = {} /\ UNCHANGED trackerVars
             ELSE Record(Mine, Head(batch).hash)
TrackerMoves == /\ \/ Batch \/ Report
                   \/ /\ ForTracker /\ UNCHANGED batch
                      /\ \/ \E c \in Calls : Await(c)
                         \/ Wake(Mine)
                         \/ \E o \in Observers \ {Mine} : Observe(o)
                /\ UNCHANGED <<registryVars, watch, pushVars, localBookVars>>

RegistryMoves == /\ \/ Is.filters /\ Relist
                    \/ \E t \in Refreshers : Is.filters /\ Refresh(t)
                    \/ \E t \in Threads : LoadStep(t)
                 /\ UNCHANGED <<watch, pushVars, localBookVars, trackerVars, batch>>
StreamMoves == /\ WatchStep \/ (~ForBook /\ ~ForTracker /\ HandleStep)
               /\ UNCHANGED <<localBookVars, trackerVars, batch>>

Next == StreamMoves \/ RegistryMoves \/ BookMoves \/ TrackerMoves
Spec == Init /\ [][Next]_vars
-----------------------------------------------------------------------------
TypeOK == /\ RegistryTypeOK /\ PushTypeOK /\ BookTypeOK /\ TrackerTypeOK
          /\ batch \in Seq([hash : Hashes, pending : BOOLEAN])
=============================================================================
