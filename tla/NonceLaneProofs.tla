--------------------------- MODULE NonceLaneProofs ---------------------------
(***************************************************************************)
(* Proofs about NonceLane, for any number of calls, batch sizes and        *)
(* explicit nonces.                                                        *)
(***************************************************************************)
EXTENDS NonceLane, TLAPS

Inside == {"load", "fetch", "store", "swap", "prepare", "wait"}

\* The send mutex is held through the round trip, by the call it says.
MutexInv ==
  /\ \A s \in Lane : pc[s] \in Inside <=> sendMu = s
  /\ \A s \in Explicit : pc[s] \in {"start", "prepare", "wait", "done"}

\* Where the request of each call is, and what the exchange did with it.
FlightInv ==
  \A s \in Sends :
    /\ pc[s] \notin {"wait", "done"} => s \notin wire /\ reply[s] = "none"
    /\ s \in wire => reply[s] = "none"
    /\ reply[s] = "ok" => Taken(s) = Entries(s, resv[s], Size[s])
    /\ reply[s] # "ok" => Taken(s) = {}

\* What each call that returned was told, and from what.
ToldInv ==
  \A s \in Sends :
    /\ pc[s] = "done" <=> told[s] # "none"
    /\ told[s] = "Accepted" => reply[s] = "ok"
    /\ told[s] \in {"Rejected", "NonceError"} => reply[s] \in {"reject", "nonce"}
    /\ told[s] = "error" => reply[s] = "none" /\ s \notin wire

\* The distance between the lane, or the reservation that its holder carries,
\* and the exchange.
TrackInv ==
  /\ sendMu = None /\ next # Unknown => expected = next + foreign
  /\ \A s \in Lane :
       /\ pc[s] \in {"load", "swap"} /\ next # Unknown => expected = next + foreign
       /\ pc[s] = "swap" => seen[s] # Unknown
       /\ pc[s] \in {"fetch", "store"} => next = Unknown
       /\ pc[s] = "store" => seen[s] # Unknown /\ expected = seen[s] + foreign
       /\ pc[s] \in {"prepare", "wait"} =>
            /\ next \in {Unknown, resv[s] + Size[s]}
            /\ expected = resv[s] + foreign + (IF reply[s] = "ok" THEN Size[s] ELSE 0)
       /\ pc[s] = "wait" /\ reply[s] = "nonce" => foreign > 0

\* The same with inequalities, which survive a batch taken in part and a seed
\* of 0: while a reservation is out, the counter stands at its end or behind
\* the exchange, and its first nonce is behind the exchange too.
BehindInv ==
  /\ sendMu = None => next <= expected
  /\ \A s \in Sends : pc[s] \notin {"wait", "done"} => s \notin wire /\ reply[s] = "none"
  /\ \A s \in Lane :
       /\ pc[s] \in {"load", "fetch", "store", "swap"} => next <= expected
       /\ pc[s] = "store" => seen[s] <= expected
       /\ pc[s] = "swap" => seen[s] # Unknown
       /\ pc[s] \in {"prepare", "wait"} =>
            /\ resv[s] <= expected
            /\ (next = resv[s] + Size[s] \/ next <= expected)
       /\ pc[s] = "wait" /\ reply[s] = "ok" => resv[s] + Size[s] <= expected

IInv == TypeOK /\ MutexInv /\ FlightInv /\ ToldInv /\ TrackInv

USE DEF Lane, Unknown

\* Acquire never compares-and-swaps on the marker of an unsynchronised lane.
SeenInv == \A s \in Sends : pc[s] = "swap" => seen[s] # Unknown

LEMMA Typed == Spec => [](TypeOK /\ SeenInv)
<1> USE SendsAssumption
<1>1. Init => TypeOK /\ SeenInv
  BY DEF Init, SeenInv, TypeOK, PCs, Answers
<1>2. TypeOK /\ SeenInv /\ [Next]_vars => TypeOK' /\ SeenInv'
  <2> SUFFICES ASSUME TypeOK, SeenInv, [Next]_vars PROVE TypeOK' /\ SeenInv'
    OBVIOUS
  <2> USE DEF TypeOK, SeenInv, PCs, Answers, Outcomes, laneVars, exchVars, callVars
  <2>1. CASE UNCHANGED vars
    BY <2>1 DEF vars
  <2>2. ASSUME NEW s \in Sends, Client(s) PROVE TypeOK' /\ SeenInv'
    <3>1. CASE Refuse(s) BY <3>1 DEF Refuse
    <3>2. CASE Enter(s) BY <3>2 DEF Enter
    <3>3. CASE EnterExplicit(s) BY <3>3 DEF EnterExplicit
    <3>4. CASE Load(s) BY <3>4 DEF Load
    <3>5. CASE AlreadySynced(s) BY <3>5 DEF AlreadySynced
    <3>6. CASE FetchAnswered(s) BY <3>6 DEF FetchAnswered
    <3>7. CASE StoreFetched(s) BY <3>7 DEF StoreFetched
    <3>8. CASE FetchFailed(s) BY <3>8 DEF FetchFailed
    <3>9. CASE Swap(s) BY <3>9 DEF Swap
    <3>10. CASE PrepareFails(s)
      BY <3>10 DEF PrepareFails, Return, Released
    <3>11. CASE Transmit(s) BY <3>11 DEF Transmit
    <3>12. CASE Answered(s)
      BY <3>12 DEF Answered, Return, Released, OutcomeOf
    <3>13. CASE GaveUp(s)
      BY <3>13 DEF GaveUp, Return, Released, OutcomeOf
    <3> QED
      BY <2>2, <3>1, <3>2, <3>3, <3>4, <3>5, <3>6, <3>7, <3>8, <3>9, <3>10, <3>11,
         <3>12, <3>13 DEF Client
  <2>3. ASSUME NEW s \in Sends, Exchange(s) PROVE TypeOK' /\ SeenInv'
    <3>1. CASE Ingest(s) BY <3>1 DEF Ingest, Consume, Entries
    <3>2. CASE IngestPrefix(s) BY <3>2 DEF IngestPrefix, Consume, Entries
    <3>3. CASE RefuseNonce(s) BY <3>3 DEF RefuseNonce
    <3>4. CASE RefuseOther(s) BY <3>4 DEF RefuseOther
    <3>5. CASE Lose(s) BY <3>5 DEF Lose
    <3> QED
      BY <2>3, <3>1, <3>2, <3>3, <3>4, <3>5 DEF Exchange
  <2>4. CASE Invalidate BY <2>4 DEF Invalidate
  <2>5. CASE Seed BY <2>5 DEF Seed
  <2>6. CASE Finished BY <2>6 DEF Finished, vars
  <2> QED
    BY <2>1, <2>2, <2>3, <2>4, <2>5, <2>6 DEF Next
<1> QED
  BY <1>1, <1>2, PTL DEF Spec

LEMMA MutexStep ==
  ASSUME TypeOK, MutexInv, [Next]_vars
  PROVE  MutexInv'
<1> USE SendsAssumption DEF TypeOK, MutexInv, Inside, PCs, laneVars, exchVars, callVars
<1>1. CASE UNCHANGED vars
  BY <1>1 DEF vars
<1>2. ASSUME NEW s \in Sends, Client(s) PROVE MutexInv'
  <2>1. CASE Refuse(s) BY <2>1 DEF Refuse
  <2>2. CASE Enter(s) BY <2>2 DEF Enter
  <2>3. CASE EnterExplicit(s) BY <2>3 DEF EnterExplicit
  <2>4. CASE Load(s) BY <2>4 DEF Load
  <2>5. CASE AlreadySynced(s) BY <2>5 DEF AlreadySynced
  <2>6. CASE FetchAnswered(s) BY <2>6 DEF FetchAnswered
  <2>7. CASE StoreFetched(s) BY <2>7 DEF StoreFetched
  <2>8. CASE FetchFailed(s) BY <2>8 DEF FetchFailed
  <2>9. CASE Swap(s) BY <2>9 DEF Swap
  <2>10. CASE PrepareFails(s) BY <2>10 DEF PrepareFails, Return, Released
  <2>11. CASE Transmit(s) BY <2>11 DEF Transmit
  <2>12. CASE Answered(s) BY <2>12 DEF Answered, Return, Released, OutcomeOf
  <2>13. CASE GaveUp(s) BY <2>13 DEF GaveUp, Return, Released, OutcomeOf
  <2> QED
    BY <1>2, <2>1, <2>2, <2>3, <2>4, <2>5, <2>6, <2>7, <2>8,
       <2>9, <2>10, <2>11, <2>12, <2>13 DEF Client
<1>3. ASSUME NEW s \in Sends, Exchange(s) PROVE MutexInv'
  <2>1. CASE Ingest(s) BY <2>1 DEF Ingest, Consume
  <2>2. CASE IngestPrefix(s) BY <2>2 DEF IngestPrefix, Consume
  <2>3. CASE RefuseNonce(s) BY <2>3 DEF RefuseNonce
  <2>4. CASE RefuseOther(s) BY <2>4 DEF RefuseOther
  <2>5. CASE Lose(s) BY <2>5 DEF Lose
  <2> QED
    BY <1>3, <2>1, <2>2, <2>3, <2>4, <2>5 DEF Exchange
<1>4. CASE Invalidate BY <1>4 DEF Invalidate
<1>5. CASE Seed BY <1>5 DEF Seed
<1>6. CASE Finished BY <1>6 DEF Finished, vars
<1> QED
  BY <1>1, <1>2, <1>3, <1>4, <1>5, <1>6 DEF Next

LEMMA ToldStep ==
  ASSUME TypeOK, FlightInv, ToldInv, [Next]_vars
  PROVE  ToldInv'
<1> USE SendsAssumption DEF TypeOK, FlightInv, ToldInv, PCs, Answers, laneVars, exchVars, callVars
<1>1. CASE UNCHANGED vars
  BY <1>1 DEF vars
<1>2. ASSUME NEW s \in Sends, Client(s) PROVE ToldInv'
  <2>1. CASE Refuse(s) BY <2>1 DEF Refuse
  <2>2. CASE Enter(s) BY <2>2 DEF Enter
  <2>3. CASE EnterExplicit(s) BY <2>3 DEF EnterExplicit
  <2>4. CASE Load(s) BY <2>4 DEF Load
  <2>5. CASE AlreadySynced(s) BY <2>5 DEF AlreadySynced
  <2>6. CASE FetchAnswered(s) BY <2>6 DEF FetchAnswered
  <2>7. CASE StoreFetched(s) BY <2>7 DEF StoreFetched
  <2>8. CASE FetchFailed(s) BY <2>8 DEF FetchFailed
  <2>9. CASE Swap(s) BY <2>9 DEF Swap
  <2>10. CASE PrepareFails(s) BY <2>10 DEF PrepareFails, Return, Released
  <2>11. CASE Transmit(s) BY <2>11 DEF Transmit
  <2>12. CASE Answered(s) BY <2>12 DEF Answered, Return, Released, OutcomeOf
  <2>13. CASE GaveUp(s) BY <2>13 DEF GaveUp, Return, Released, OutcomeOf
  <2> QED
    BY <1>2, <2>1, <2>2, <2>3, <2>4, <2>5, <2>6, <2>7, <2>8,
       <2>9, <2>10, <2>11, <2>12, <2>13 DEF Client
<1>3. ASSUME NEW s \in Sends, Exchange(s) PROVE ToldInv'
  <2>1. CASE Ingest(s) BY <2>1 DEF Ingest, Consume
  <2>2. CASE IngestPrefix(s) BY <2>2 DEF IngestPrefix, Consume
  <2>3. CASE RefuseNonce(s) BY <2>3 DEF RefuseNonce
  <2>4. CASE RefuseOther(s) BY <2>4 DEF RefuseOther
  <2>5. CASE Lose(s) BY <2>5 DEF Lose
  <2> QED
    BY <1>3, <2>1, <2>2, <2>3, <2>4, <2>5 DEF Exchange
<1>4. CASE Invalidate BY <1>4 DEF Invalidate
<1>5. CASE Seed BY <1>5 DEF Seed
<1>6. CASE Finished BY <1>6 DEF Finished, vars
<1> QED
  BY <1>1, <1>2, <1>3, <1>4, <1>5, <1>6 DEF Next

LEMMA FlightStep ==
  ASSUME AtomicBatch, TypeOK, MutexInv, FlightInv, [Next]_vars
  PROVE  FlightInv'
<1> USE SendsAssumption DEF TypeOK, MutexInv, Inside, FlightInv, Taken, Entries, PCs, Answers, laneVars, exchVars, callVars
<1>1. CASE UNCHANGED vars
  BY <1>1 DEF vars
<1>2. ASSUME NEW s \in Sends, Client(s) PROVE FlightInv'
  <2>1. CASE Refuse(s) BY <2>1 DEF Refuse
  <2>2. CASE Enter(s) BY <2>2 DEF Enter
  <2>3. CASE EnterExplicit(s) BY <2>3 DEF EnterExplicit
  <2>4. CASE Load(s) BY <2>4 DEF Load
  <2>5. CASE AlreadySynced(s) BY <2>5 DEF AlreadySynced
  <2>6. CASE FetchAnswered(s) BY <2>6 DEF FetchAnswered
  <2>7. CASE StoreFetched(s) BY <2>7 DEF StoreFetched
  <2>8. CASE FetchFailed(s) BY <2>8 DEF FetchFailed
  <2>9. CASE Swap(s) BY <2>9 DEF Swap
  <2>10. CASE PrepareFails(s) BY <2>10 DEF PrepareFails, Return, Released
  <2>11. CASE Transmit(s) BY <2>11 DEF Transmit
  <2>12. CASE Answered(s) BY <2>12 DEF Answered, Return, Released, OutcomeOf
  <2>13. CASE GaveUp(s) BY <2>13 DEF GaveUp, Return, Released, OutcomeOf
  <2> QED
    BY <1>2, <2>1, <2>2, <2>3, <2>4, <2>5, <2>6, <2>7, <2>8,
       <2>9, <2>10, <2>11, <2>12, <2>13 DEF Client
<1>3. ASSUME NEW s \in Sends, Exchange(s) PROVE FlightInv'
  <2>1. CASE Ingest(s)
    <3>1. /\ expected = resv[s] /\ Taken(s) = {}
          /\ ledger' = ledger \cup Entries(s, resv[s], Size[s])
      BY <2>1 DEF Ingest, Consume
    <3>2. Taken(s)' = Entries(s, resv[s], Size[s])
      BY <3>1
    <3>3. \A t \in Sends \ {s} : Taken(t)' = Taken(t)
      BY <3>1
    <3> QED
      BY <2>1, <3>2, <3>3 DEF Ingest
  <2>2. CASE IngestPrefix(s) BY <2>2 DEF IngestPrefix, Consume
  <2>3. CASE RefuseNonce(s) BY <2>3 DEF RefuseNonce
  <2>4. CASE RefuseOther(s) BY <2>4 DEF RefuseOther
  <2>5. CASE Lose(s) BY <2>5 DEF Lose
  <2> QED
    BY <1>3, <2>1, <2>2, <2>3, <2>4, <2>5 DEF Exchange
<1>4. CASE Invalidate BY <1>4 DEF Invalidate
<1>5. CASE Seed BY <1>5 DEF Seed
<1>6. CASE Finished BY <1>6 DEF Finished, vars
<1> QED
  BY <1>1, <1>2, <1>3, <1>4, <1>5, <1>6 DEF Next

LEMMA TrackStep ==
  ASSUME AtomicBatch, Seeds = {}, TypeOK, MutexInv, FlightInv, TrackInv, [Next]_vars
  PROVE  TrackInv'
<1> USE SendsAssumption DEF TypeOK, MutexInv, Inside, FlightInv, TrackInv, Entries, PCs, Answers, laneVars, exchVars, callVars
<1>1. CASE UNCHANGED vars
  BY <1>1 DEF vars
<1>2. ASSUME NEW s \in Sends, Client(s) PROVE TrackInv'
  <2>1. CASE Refuse(s) BY <2>1 DEF Refuse
  <2>2. CASE Enter(s) BY <2>2 DEF Enter
  <2>3. CASE EnterExplicit(s) BY <2>3 DEF EnterExplicit
  <2>4. CASE Load(s) BY <2>4 DEF Load
  <2>5. CASE AlreadySynced(s) BY <2>5 DEF AlreadySynced
  <2>6. CASE FetchAnswered(s) BY <2>6 DEF FetchAnswered
  <2>7. CASE StoreFetched(s) BY <2>7 DEF StoreFetched
  <2>8. CASE FetchFailed(s) BY <2>8 DEF FetchFailed
  <2>9. CASE Swap(s) BY <2>9 DEF Swap
  <2>10. CASE PrepareFails(s) BY <2>10 DEF PrepareFails, Return, Released
  <2>11. CASE Transmit(s) BY <2>11 DEF Transmit
  <2>12. CASE Answered(s) BY <2>12 DEF Answered, Return, Released, OutcomeOf
  <2>13. CASE GaveUp(s) BY <2>13 DEF GaveUp, Return, Released, OutcomeOf
  <2> QED
    BY <1>2, <2>1, <2>2, <2>3, <2>4, <2>5, <2>6, <2>7, <2>8,
       <2>9, <2>10, <2>11, <2>12, <2>13 DEF Client
<1>3. ASSUME NEW s \in Sends, Exchange(s) PROVE TrackInv'
  <2>1. CASE Ingest(s) BY <2>1 DEF Ingest, Consume
  <2>2. CASE IngestPrefix(s) BY <2>2 DEF IngestPrefix, Consume
  <2>3. CASE RefuseNonce(s) BY <2>3 DEF RefuseNonce
  <2>4. CASE RefuseOther(s) BY <2>4 DEF RefuseOther
  <2>5. CASE Lose(s) BY <2>5 DEF Lose
  <2> QED
    BY <1>3, <2>1, <2>2, <2>3, <2>4, <2>5 DEF Exchange
<1>4. CASE Invalidate BY <1>4 DEF Invalidate
<1>5. CASE Seed BY <1>5 DEF Seed
<1>6. CASE Finished BY <1>6 DEF Finished, vars
<1> QED
  BY <1>1, <1>2, <1>3, <1>4, <1>5, <1>6 DEF Next

LEMMA BehindStep ==
  ASSUME Seeds \subseteq {0}, TypeOK, MutexInv, BehindInv, [Next]_vars
  PROVE  BehindInv'
<1> USE SendsAssumption DEF TypeOK, MutexInv, Inside, BehindInv, PCs, Answers, laneVars, exchVars, callVars
<1>1. CASE UNCHANGED vars
  BY <1>1 DEF vars
<1>2. ASSUME NEW s \in Sends, Client(s) PROVE BehindInv'
  <2>1. CASE Refuse(s) BY <2>1 DEF Refuse
  <2>2. CASE Enter(s) BY <2>2 DEF Enter
  <2>3. CASE EnterExplicit(s) BY <2>3 DEF EnterExplicit
  <2>4. CASE Load(s) BY <2>4 DEF Load
  <2>5. CASE AlreadySynced(s) BY <2>5 DEF AlreadySynced
  <2>6. CASE FetchAnswered(s) BY <2>6 DEF FetchAnswered
  <2>7. CASE StoreFetched(s) BY <2>7 DEF StoreFetched
  <2>8. CASE FetchFailed(s) BY <2>8 DEF FetchFailed
  <2>9. CASE Swap(s) BY <2>9 DEF Swap
  <2>10. CASE PrepareFails(s) BY <2>10 DEF PrepareFails, Return, Released
  <2>11. CASE Transmit(s) BY <2>11 DEF Transmit
  <2>12. CASE Answered(s) BY <2>12 DEF Answered, Return, Released, OutcomeOf
  <2>13. CASE GaveUp(s) BY <2>13 DEF GaveUp, Return, Released, OutcomeOf
  <2> QED
    BY <1>2, <2>1, <2>2, <2>3, <2>4, <2>5, <2>6, <2>7, <2>8,
       <2>9, <2>10, <2>11, <2>12, <2>13 DEF Client
<1>3. ASSUME NEW s \in Sends, Exchange(s) PROVE BehindInv'
  <2>1. CASE Ingest(s) BY <2>1 DEF Ingest, Consume
  <2>2. CASE IngestPrefix(s) BY <2>2 DEF IngestPrefix, Consume
  <2>3. CASE RefuseNonce(s) BY <2>3 DEF RefuseNonce
  <2>4. CASE RefuseOther(s) BY <2>4 DEF RefuseOther
  <2>5. CASE Lose(s) BY <2>5 DEF Lose
  <2> QED
    BY <1>3, <2>1, <2>2, <2>3, <2>4, <2>5 DEF Exchange
<1>4. CASE Invalidate BY <1>4 DEF Invalidate
<1>5. CASE Seed BY <1>5 DEF Seed
<1>6. CASE Finished BY <1>6 DEF Finished, vars
<1> QED
  BY <1>1, <1>2, <1>3, <1>4, <1>5, <1>6 DEF Next

-----------------------------------------------------------------------------
(***************************************************************************)
(* Theorems.  AtomicBatch and Seeds = {} are hypotheses where they are     *)
(* needed: the exchange takes a batch as a whole, and the application does *)
(* not set the lane's counter by hand.                                     *)
(***************************************************************************)

\* Every variable keeps its type, whatever the exchange and the application do.
THEOREM TypeCorrect == Spec => []TypeOK
  BY Typed, PTL

LEMMA MutexAlways == Spec => []MutexInv
<1>1. Init => MutexInv
  BY SendsAssumption DEF Init, MutexInv, Inside
<1>2. TypeOK /\ MutexInv /\ [Next]_vars => MutexInv'
  BY MutexStep
<1> QED
  BY <1>1, <1>2, TypeCorrect, PTL DEF Spec

LEMMA FlightAlways ==
  ASSUME AtomicBatch PROVE Spec => [](FlightInv /\ ToldInv)
<1>1. Init => FlightInv /\ ToldInv
  BY SendsAssumption DEF Init, FlightInv, ToldInv, Taken
<1>2. TypeOK /\ MutexInv /\ FlightInv /\ ToldInv /\ [Next]_vars => FlightInv' /\ ToldInv'
  BY AtomicBatch, FlightStep, ToldStep
<1> QED
  BY <1>1, <1>2, TypeCorrect, MutexAlways, PTL DEF Spec

\* What Send returns is the truth for good (see ToldTheTruth), also when the
\* application seeds the lane with a wrong nonce.
THEOREM TruthTold ==
  ASSUME AtomicBatch PROVE Spec => []ToldTheTruth
<1>1. TypeOK /\ FlightInv /\ ToldInv => ToldTheTruth
  BY DEF TypeOK, FlightInv, ToldInv, ToldTheTruth, Answers
<1> QED
  BY <1>1, TypeCorrect, FlightAlways, PTL

LEMMA TrackAlways ==
  ASSUME AtomicBatch, Seeds = {} PROVE Spec => []TrackInv
<1>1. Init => TrackInv
  BY DEF Init, TrackInv
<1>2. TypeOK /\ MutexInv /\ FlightInv /\ TrackInv /\ [Next]_vars => TrackInv'
  BY AtomicBatch, Seeds = {}, TrackStep
<1> QED
  BY <1>1, <1>2, TypeCorrect, MutexAlways, FlightAlways, PTL DEF Spec

\* The lane's counter is exact up to what others consumed since it last asked.
THEOREM LaneTracks ==
  ASSUME AtomicBatch, Seeds = {} PROVE Spec => []LaneTracksAccount
<1>1. TrackInv => LaneTracksAccount
  BY DEF TrackInv, LaneTracksAccount
<1> QED
  BY <1>1, TrackAlways, PTL

\* A nonce error on a lane send always has a cause outside the lane.
THEOREM NonceErrorsHaveACause ==
  ASSUME AtomicBatch, Seeds = {} PROVE Spec => []NonceErrorMeansOvertaken
<1>1. TrackInv => NonceErrorMeansOvertaken
  BY DEF TrackInv, NonceErrorMeansOvertaken
<1> QED
  BY <1>1, TrackAlways, PTL

\* Between sends the lane never runs ahead of the exchange, whatever part of a
\* batch the exchange takes, as long as the application seeds it with nothing
\* but 0, the one value no account is behind (see LaneNeverAhead).
THEOREM NeverAhead ==
  ASSUME Seeds \subseteq {0} PROVE Spec => []LaneNeverAhead
<1>1. Init => BehindInv
  BY DEF Init, BehindInv
<1>2. TypeOK /\ MutexInv /\ BehindInv /\ [Next]_vars => BehindInv'
  BY Seeds \subseteq {0}, BehindStep
<1>3. BehindInv => LaneNeverAhead
  BY DEF BehindInv, LaneNeverAhead
<1> QED
  BY <1>1, <1>2, <1>3, TypeCorrect, MutexAlways, PTL DEF Spec

LEMMA ContractStep ==
  ASSUME AtomicBatch, TypeOK, FlightInv, ToldInv, FlightInv', ToldInv', [Next]_vars
  PROVE  [Contract!Next]_(Contract!avars)
<1> USE SendsAssumption DEF Contract!Next, Contract!avars, Contract!Tell, Contract!Take,
      Contract!Entered, Contract!Refusals, TypeOK, FlightInv, ToldInv, Taken, PCs, Answers,
      laneVars, exchVars, callVars
<1>1. CASE UNCHANGED vars
  BY <1>1 DEF vars
<1>2. ASSUME NEW s \in Sends, Client(s) PROVE [Contract!Next]_(Contract!avars)
  <2>1. CASE UNCHANGED <<ledger, expected, told>>
    BY <2>1
  <2>2. CASE Refuse(s) \/ FetchFailed(s) \/ PrepareFails(s)
    <3>1. Contract!Tell(s, "error")
      BY <2>2 DEF Refuse, FetchFailed, PrepareFails, Return
    <3> QED
      BY <3>1
  <2>3. CASE Answered(s)
    <3> DEFINE r == OutcomeOf(reply[s])
    <3>1. \/ reply[s] = "ok" /\ r = "Accepted"
          \/ reply[s] \in {"nonce", "reject"} /\ r \in {"NonceError", "Rejected"}
      BY <2>3 DEF Answered, OutcomeOf
    <3>2. Contract!Tell(s, r)
      <4>1. told[s] = "none" /\ told' = [told EXCEPT ![s] = r]
        BY <2>3 DEF Answered, Return
      <4>2. reply[s] = "ok" => \E e \in ledger : e.send = s
        <5>1. [nonce |-> resv[s], send |-> s] \in Entries(s, resv[s], Size[s])
          <6>1. resv[s] \in resv[s] .. (resv[s] + Size[s] - 1)
            OBVIOUS
          <6> QED
            BY <6>1 DEF Entries
        <5> QED
          BY <5>1
      <4> QED
        BY <2>3, <3>1, <4>1, <4>2 DEF Answered
    <3> QED
      BY <3>1, <3>2, Zenon
  <2>4. CASE GaveUp(s)
    <3>1. Contract!Tell(s, "Unknown")
      BY <2>4 DEF GaveUp, Return, OutcomeOf
    <3> QED
      BY <3>1
  <2> QED
    BY <1>2, <2>1, <2>2, <2>3, <2>4
       DEF Client, Enter, EnterExplicit, Load, AlreadySynced, FetchAnswered, StoreFetched,
           Swap, Transmit
<1>3. ASSUME NEW s \in Sends, Exchange(s) PROVE [Contract!Next]_(Contract!avars)
  <2>1. CASE Ingest(s)
    <3>1. Contract!Take(s)
      BY <2>1 DEF Ingest, Consume, Entries
    <3> QED
      BY <3>1
  <2>2. CASE ~Ingest(s)
    BY <1>3, <2>2, AtomicBatch DEF Exchange, IngestPrefix, RefuseNonce, RefuseOther, Lose
  <2> QED
    BY <2>1, <2>2
<1>4. CASE Invalidate \/ Seed \/ Finished
  BY <1>4 DEF Invalidate, Seed, Finished, vars
<1> QED
  BY <1>1, <1>2, <1>3, <1>4 DEF Next

\* The calls implement the contract of SubmitOnce: at most once, as a whole,
\* and with an honest answer.
THEOREM LaneRefinesContract ==
  ASSUME AtomicBatch PROVE Spec => SubmitsOnce
<1>1. Init => Contract!Init
  BY DEF Init, Contract!Init
<1>2. TypeOK /\ FlightInv /\ ToldInv /\ FlightInv' /\ ToldInv' /\ [Next]_vars
        => [Contract!Next]_(Contract!avars)
  BY AtomicBatch, ContractStep
<1> QED
  BY <1>1, <1>2, TypeCorrect, FlightAlways, PTL DEF Spec, SubmitsOnce, Contract!Spec
=============================================================================
