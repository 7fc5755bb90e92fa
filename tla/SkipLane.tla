------------------------------- MODULE SkipLane ------------------------------
(***************************************************************************)
(* A nonce lane in skip mode (internal/nonce/lane.go, acquireSkip): calls  *)
(* share one atomic word, `last`, and advance it by compare-and-swap to    *)
(* max(now_ms, last+1) + n - 1.  No lock is held, sends are not            *)
(* serialised, and Release does nothing.                                   *)
(*                                                                         *)
(* Nothing is assumed of the wall clock: a read returns any member of      *)
(* Clocks, so it may stand still, jump, or be stepped back.                *)
(***************************************************************************)
EXTENDS Integers

CONSTANTS
  Sends,          \* the calls of Acquire of a behaviour
  Size,           \* how many nonces each one takes
  Clocks          \* what now_ms may return

ASSUME SkipAssumption ==
  /\ Size \in [Sends -> Nat \ {0}]
  /\ Clocks \subseteq Nat

VARIABLES
  last,      \* Lane.next: in this mode the last value handed out
  pc, seen, first,   \* of each call: where it stands, its locals
  old,       \* history: the calls that had returned at the last Invalidate
  high,      \* history: the largest clock value any call has used
  handed     \* history: how many nonces were handed out

skipVars == <<last, pc, seen, first, old, high, handed>>

Unknown == -1   \* unknownNonce

Later(a, b) == IF a >= b THEN a ELSE b

\* Mutants of FirstNonce: a strict comparison; the clock is added.
FirstNonceStrict(now, l) == IF now < l THEN l + 1 ELSE now
FirstNonceSum(now, l)    == IF now <= l THEN l + now ELSE now

\* The first nonce of a reservation, from the clock and the last one.
FirstNonce(now, l) == IF now <= l THEN l + 1 ELSE now

\* The nonces a finished call holds.
Held(s) == first[s] .. (first[s] + Size[s] - 1)
Done(s) == pc[s] = "done"

-----------------------------------------------------------------------------

SkipInit ==
  /\ last = Unknown
  /\ pc = [s \in Sends |-> "start"]
  /\ seen = [s \in Sends |-> Unknown]
  /\ first = [s \in Sends |-> 0]
  /\ old = {}
  /\ high = 0
  /\ handed = 0

\* One turn of the loop up to the swap: the load of next and the clock.
Load(s) ==
  /\ pc[s] = "start"
  /\ seen' = [seen EXCEPT ![s] = last]
  /\ \E now \in Clocks :
       /\ first' = [first EXCEPT ![s] = FirstNonce(now, last)]
       /\ high' = Later(high, now)
  /\ pc' = [pc EXCEPT ![s] = "swap"]
  /\ UNCHANGED <<last, old, handed>>

\* Mutants of Swap: a plain store; the failed swap is retried without loading again.
SwapStores(s) ==
  /\ pc[s] = "swap"
  /\ last' = first[s] + Size[s] - 1
  /\ handed' = handed + Size[s]
  /\ pc' = [pc EXCEPT ![s] = "done"]
  /\ UNCHANGED <<seen, first, old, high>>
SwapKeepsLocals(s) ==
  /\ pc[s] = "swap"
  /\ last = seen[s]
  /\ last' = first[s] + Size[s] - 1
  /\ handed' = handed + Size[s]
  /\ pc' = [pc EXCEPT ![s] = "done"]
  /\ UNCHANGED <<seen, first, old, high>>

\* l.next.CompareAndSwap(last, newLast)
Swap(s) ==
  /\ pc[s] = "swap"
  /\ IF last = seen[s]
       THEN /\ last' = first[s] + Size[s] - 1
            /\ handed' = handed + Size[s]
            /\ pc' = [pc EXCEPT ![s] = "done"]
       ELSE /\ pc' = [pc EXCEPT ![s] = "start"]
            /\ UNCHANGED <<last, old, handed>>
  /\ UNCHANGED <<seen, first, old, high>>

\* Lane.Invalidate stores the marker of an unsynchronised lane in this mode too.
Invalidate ==
  /\ last' = Unknown
  /\ old' = {s \in Sends : Done(s)}
  /\ UNCHANGED <<pc, seen, first, high, handed>>

Finished == (\A s \in Sends : Done(s)) /\ UNCHANGED skipVars

SkipNext == (\E s \in Sends : Load(s) \/ Swap(s)) \/ Invalidate \/ Finished

SkipSpec == SkipInit /\ [][SkipNext]_skipVars

\* A goroutine that can run does run.
FairSpec == SkipSpec /\ \A s \in Sends : WF_skipVars(Load(s) \/ Swap(s))

-----------------------------------------------------------------------------

TypeOK ==
  /\ last \in Nat \cup {Unknown}
  /\ pc \in [Sends -> {"start", "swap", "done"}]
  /\ seen \in [Sends -> Nat \cup {Unknown}]
  /\ first \in [Sends -> Nat]
  /\ old \subseteq Sends
  /\ high \in Nat
  /\ handed \in Nat

\* Between two Invalidates no nonce is handed out twice (lane.go:29-33:
\* "monotonic values are never reused"), however the calls interleave and
\* whatever the clock does.
NeverReused ==
  \A s, t \in Sends \ old : s # t /\ Done(s) /\ Done(t) => Held(s) \cap Held(t) = {}

\* A call that gets its nonces later gets larger ones: the exchange, which
\* takes any nonce above the last, can refuse one only when it was overtaken
\* on the way.
HandedOutInOrder ==
  [][\A s, t \in Sends :
       Done(s) /\ s \notin old /\ ~Done(t) /\ Done(t)' => first[s] + Size[s] <= first'[t]]_skipVars

\* The lane runs ahead of the clock by no more than what it has handed out,
\* so a burst cannot push it towards the 2^47-1 cap (lane.go:33).
RunsAheadBounded == last < high + handed

\* The loop is lock-free: a swap fails only because another one succeeded or
\* the lane was invalidated, so with finitely many calls every one returns.
EveryAcquireReturns == \A s \in Sends : <>Done(s)
=============================================================================
