------------------------------ MODULE SendProofs -----------------------------
(***************************************************************************)
(* Proofs about a send: the nonces that a lane in skip mode hands out      *)
(* (SkipLane), for any number of calls, batch sizes and clocks; and the    *)
(* call of a trading method from the request to the receipt (Requests),    *)
(* for any markets, figures, options and answers.                          *)
(***************************************************************************)
EXTENDS SkipLane, Requests, FoldLemmas, FiniteSetTheorems

(***************************************************************************)
(* The lane in skip mode                                                   *)
(***************************************************************************)


\* What a call about to swap carries.
SwapInv ==
  \A s \in Sends : pc[s] = "swap" =>
    /\ first[s] > seen[s]
    /\ first[s] <= high \/ first[s] = seen[s] + 1

\* Everything handed out since the last Invalidate is at or below the shared word, and nothing twice.
OrderInv ==
  /\ \A s \in Sends : Done(s) /\ s \notin old => first[s] + Size[s] - 1 <= last
  /\ NeverReused

LEMMA TypeStep ==
  ASSUME TypeOK, SwapInv, [SkipNext]_skipVars
  PROVE  TypeOK' /\ SwapInv'
<1> USE SkipAssumption DEF TypeOK, SwapInv, Unknown, Done, Held, Later, FirstNonce
<1>1. CASE UNCHANGED skipVars BY <1>1 DEF skipVars
<1>2. ASSUME NEW s \in Sends, Load(s) PROVE TypeOK' /\ SwapInv'
  <2>1. PICK now \in Clocks :
          /\ first' = [first EXCEPT ![s] = FirstNonce(now, last)]
          /\ high' = Later(high, now)
    BY <1>2 DEF Load
  <2>2. now \in Nat
    OBVIOUS
  <2>3. high' \in Nat /\ high' >= high /\ high' >= now
    BY <2>1, <2>2
  <2> QED
    BY <1>2, <2>1, <2>2, <2>3 DEF Load
<1>3. ASSUME NEW s \in Sends, Swap(s) PROVE TypeOK' /\ SwapInv'
  BY <1>3 DEF Swap
<1>4. CASE Invalidate BY <1>4 DEF Invalidate
<1>5. CASE Finished BY <1>5 DEF Finished, skipVars
<1> QED
  BY <1>1, <1>2, <1>3, <1>4, <1>5 DEF SkipNext

\* Every variable keeps its type.
THEOREM SkipTypeCorrect == SkipSpec => []TypeOK
<1>1. SkipInit => TypeOK /\ SwapInv
  BY DEF SkipInit, TypeOK, SwapInv, Unknown, Done, Held
<1>2. TypeOK /\ SwapInv /\ [SkipNext]_skipVars => TypeOK' /\ SwapInv'
  BY TypeStep
<1> QED
  BY <1>1, <1>2, PTL DEF SkipSpec

LEMMA SwapAlways == SkipSpec => []SwapInv
<1>1. SkipInit => TypeOK /\ SwapInv
  BY DEF SkipInit, TypeOK, SwapInv, Unknown, Done, Held
<1>2. TypeOK /\ SwapInv /\ [SkipNext]_skipVars => TypeOK' /\ SwapInv'
  BY TypeStep
<1> QED
  BY <1>1, <1>2, PTL DEF SkipSpec

LEMMA OrderStep ==
  ASSUME TypeOK, SwapInv, OrderInv, [SkipNext]_skipVars
  PROVE  OrderInv'
<1> USE SkipAssumption DEF TypeOK, SwapInv, OrderInv, NeverReused, Unknown, Done, Held, Later, FirstNonce
<1>1. CASE UNCHANGED skipVars BY <1>1 DEF skipVars
<1>2. ASSUME NEW s \in Sends, Load(s) PROVE OrderInv' BY <1>2 DEF Load
<1>3. ASSUME NEW s \in Sends, Swap(s) PROVE OrderInv' BY <1>3 DEF Swap
<1>4. CASE Invalidate BY <1>4 DEF Invalidate
<1>5. CASE Finished BY <1>5 DEF Finished, skipVars
<1> QED
  BY <1>1, <1>2, <1>3, <1>4, <1>5 DEF SkipNext

LEMMA OrderAlways == SkipSpec => []OrderInv
<1>1. SkipInit => OrderInv
  BY DEF SkipInit, OrderInv, NeverReused, Unknown, Done, Held
<1>2. TypeOK /\ SwapInv /\ OrderInv /\ [SkipNext]_skipVars => OrderInv'
  BY OrderStep
<1> QED
  BY <1>1, <1>2, SkipTypeCorrect, SwapAlways, PTL DEF SkipSpec

\* No nonce is handed out twice between two Invalidates.
THEOREM SkipNeverReuses == SkipSpec => []NeverReused
<1>1. OrderInv => NeverReused
  BY DEF OrderInv
<1> QED
  BY <1>1, OrderAlways, PTL

\* Of two reservations the later one is above the earlier one.
THEOREM SkipOrdered == SkipSpec => HandedOutInOrder
<1>1. TypeOK /\ SwapInv /\ OrderInv /\ [SkipNext]_skipVars =>
        [\A s, t \in Sends : Done(s) /\ s \notin old /\ ~Done(t) /\ Done(t)' => first[s] + Size[s] <= first'[t]]_skipVars
  <2> SUFFICES ASSUME TypeOK, SwapInv, OrderInv, [SkipNext]_skipVars,
                      NEW s \in Sends, NEW t \in Sends, Done(s), s \notin old, ~Done(t), Done(t)'
               PROVE  first[s] + Size[s] <= first'[t]
    OBVIOUS
  <2> USE SkipAssumption DEF TypeOK, SwapInv, OrderInv, Unknown, Done, Held, Later, FirstNonce
  <2>1. Swap(t)
    BY DEF SkipNext, Load, Swap, Invalidate, Finished, skipVars
  <2> QED
    BY <2>1 DEF Swap
<1> QED
  BY <1>1, SkipTypeCorrect, SwapAlways, OrderAlways, PTL DEF SkipSpec, HandedOutInOrder

LEMMA AheadStep ==
  ASSUME TypeOK, SwapInv, RunsAheadBounded, [SkipNext]_skipVars
  PROVE  RunsAheadBounded'
<1> USE SkipAssumption DEF TypeOK, SwapInv, RunsAheadBounded, Unknown, Done, Held, Later, FirstNonce
<1>1. CASE UNCHANGED skipVars BY <1>1 DEF skipVars
<1>2. ASSUME NEW s \in Sends, Load(s) PROVE RunsAheadBounded'
  <2>1. PICK now \in Clocks : high' = Later(high, now)
    BY <1>2 DEF Load
  <2> QED
    BY <1>2, <2>1 DEF Load
<1>3. ASSUME NEW s \in Sends, Swap(s) PROVE RunsAheadBounded' BY <1>3 DEF Swap
<1>4. CASE Invalidate BY <1>4 DEF Invalidate
<1>5. CASE Finished BY <1>5 DEF Finished, skipVars
<1> QED
  BY <1>1, <1>2, <1>3, <1>4, <1>5 DEF SkipNext

\* The lane stays within what it handed out of the clock, invalidated or not.
THEOREM SkipStaysNearClock == SkipSpec => []RunsAheadBounded
<1>1. SkipInit => RunsAheadBounded
  BY DEF SkipInit, RunsAheadBounded, Unknown, Done, Held
<1>2. TypeOK /\ SwapInv /\ RunsAheadBounded /\ [SkipNext]_skipVars => RunsAheadBounded'
  BY AheadStep
<1> QED
  BY <1>1, <1>2, SkipTypeCorrect, SwapAlways, PTL DEF SkipSpec
-----------------------------------------------------------------------------
(***************************************************************************)
(* The verdict                                                             *)
(***************************************************************************)
\* What VerdictSound says of the error of a send that the exchange took, or did not.
SoundFor(e, took) ==
  /\ outcomeOf(e) # "none"
  /\ outcomeOf(e) = "Accepted" => took
  /\ outcomeOf(e) \in {"Rejected", "NonceError"} => ~took
  /\ e.kind \notin {"none", "Network", "Unknown"} => ~took
  /\ outcomeOf(e) = "Unknown" => e.kind \in {"Network", "Unknown", "Auth"}
  /\ IsNonceError(e) <=> outcomeOf(e) = "NonceError"
  /\ IsMissingOrder(e) => outcomeOf(e) = "Rejected"

\* Success, silence, a code of the exchange, and a refusal without a code.
LEMMA SoundSuccess ==
  ASSUME NEW took \in BOOLEAN, took
  PROVE  SoundFor(NoError, took)
  BY DEF SoundFor, NoError, outcomeOf, IsNonceError, IsMissingOrder, CodeInvalidNonce,
         CodeNonIncreasingNonce, MissingOrderCodes

LEMMA SoundSilence ==
  ASSUME NEW took \in BOOLEAN, NEW kind \in {"Network", "Unknown"}, NEW status \in Int \ {429, 405}
  PROVE  SoundFor(Failure(kind, status, 0), took) /\ Failure(kind, status, 0) # NoError
  BY DEF SoundFor, Failure, NoError, outcomeOf, IsNonceError, IsMissingOrder, CodeInvalidNonce,
         CodeNonIncreasingNonce, MissingOrderCodes

LEMMA SoundCode ==
  ASSUME NEW took \in BOOLEAN, ~took, NEW status \in Int, NEW code \in Nat \ {0, CodeOK}
  PROVE  SoundFor(FromExchange(status, code), took) /\ FromExchange(status, code) # NoError
<1> DEFINE kind == MapCode(status, code)
<1>1. FromExchange(status, code) = [kind |-> kind, status |-> status, code |-> code]
  BY DEF FromExchange, Failure
<1>2. code \in Int /\ code # 0
  OBVIOUS
<1> HIDE DEF kind
<1> QED
  BY <1>1, <1>2 DEF SoundFor, NoError, outcomeOf, IsNonceError, IsMissingOrder, CodeInvalidNonce,
         CodeNonIncreasingNonce, MissingOrderCodes

LEMMA SoundRefusal ==
  ASSUME NEW took \in BOOLEAN, ~took, NEW status \in {400, 401, 403, 404, 405, 429}
  PROVE  SoundFor(Failure(MapHTTPStatus(status), status, 0), took)
         /\ Failure(MapHTTPStatus(status), status, 0) # NoError
<1>1. MapHTTPStatus(status) = CASE status \in {429, 405} -> "RateLimit"
                                [] status \in {401, 403} -> "Auth"
                                [] status \in {400, 404} -> "InvalidRequest"
  BY DEF MapHTTPStatus
<1> QED
  BY <1>1 DEF SoundFor, Failure, NoError, outcomeOf, IsNonceError, IsMissingOrder, CodeInvalidNonce,
         CodeNonIncreasingNonce, MissingOrderCodes

\* Every answer of an exchange that took the transactions, or did not, has a sound verdict.
LEMMA SilentIsSound ==
  ASSUME NEW took \in BOOLEAN, NEW a \in Silent
  PROVE  SoundFor(PostForm(a), took) /\ PostForm(a) # NoError
<1>1. CASE a = REST("lost", 0, NoBody)
  <2>1. PostForm(a) = Failure("Network", 0, 0)
    BY <1>1 DEF REST, Garbled, NoBody, Failure, NoError, PostForm, do, decodeReceipt, CodeOK
  <2> QED BY <2>1, SoundSilence
<1>2. CASE a = REST("cut", 200, NoBody)
  <2>1. PostForm(a) = Failure("Network", 200, 0)
    BY <1>2 DEF REST, Garbled, NoBody, Failure, NoError, PostForm, do, decodeReceipt, CodeOK
  <2> QED BY <2>1, SoundSilence
<1>3. ASSUME NEW s \in {502, 504}, a = REST("answered", s, Garbled)
      PROVE  SoundFor(PostForm(a), took) /\ PostForm(a) # NoError
  <2>1. PostForm(a) = Failure("Network", s, 0)
    BY <1>3 DEF REST, Garbled, NoBody, Failure, NoError, PostForm, do, decodeReceipt, CodeOK, MapHTTPStatus
  <2> QED BY <2>1, SoundSilence
<1>4. CASE a = REST("answered", 200, Garbled)
  <2>1. PostForm(a) = Failure("Unknown", 0, 0)
    BY <1>4 DEF REST, Garbled, NoBody, Failure, NoError, PostForm, do, decodeReceipt, CodeOK
  <2> QED BY <2>1, SoundSilence
<1> QED
  BY <1>1, <1>2, <1>3, <1>4 DEF Silent

LEMMA RESTIsSound ==
  ASSUME NEW batch \in BOOLEAN, NEW took \in BOOLEAN,
         NEW a \in IF took THEN Acceptances(batch) ELSE Rejections
  PROVE  SoundFor(PostForm(a), took) /\ (PostForm(a) = NoError => took)
<1>1. CASE took
  <2>1. PICK h \in {"none", HashForm(batch)} : a = REST("answered", 200, Body(CodeOK, h))
    BY <1>1 DEF Acceptances
  <2>2. PostForm(a) = NoError
    BY <2>1 DEF REST, Garbled, NoBody, Body, Failure, NoError, PostForm, do, decodeReceipt, CodeOK
  <2> QED BY <1>1, <2>2, SoundSuccess
<1>2. ASSUME ~took, NEW s \in {200, 400, 429, 500}, NEW c \in Refusals,
             a = REST("answered", s, Body(c, "none"))
      PROVE  SoundFor(PostForm(a), took) /\ PostForm(a) # NoError
  <2>1. c \in Nat \ {0, CodeOK} /\ s \in Int
    BY RequestsAssumption
  <2>2. FromExchange(s, c) # NoError
    BY <1>2, <2>1, SoundCode
  <2>3. PostForm(a) = FromExchange(s, c)
    BY <1>2, <2>1, <2>2 DEF REST, Body, NoError, PostForm, do, decodeReceipt, CodeOK
  <2> QED BY <1>2, <2>1, <2>3, SoundCode
<1>3. ASSUME ~took, NEW s \in {400, 401, 403, 404, 405, 429}, a = REST("answered", s, Garbled)
      PROVE  SoundFor(PostForm(a), took) /\ PostForm(a) # NoError
  <2>1. Failure(MapHTTPStatus(s), s, 0) # NoError
    BY <1>3, SoundRefusal
  <2>2. PostForm(a) = Failure(MapHTTPStatus(s), s, 0)
    BY <1>3, <2>1 DEF REST, Garbled, NoBody, Body, NoError, PostForm, do, decodeReceipt, CodeOK
  <2>3. SoundFor(Failure(MapHTTPStatus(s), s, 0), took)
    BY <1>3, SoundRefusal
  <2> QED BY <2>1, <2>2, <2>3
<1>4. CASE ~took
  <2>1. a \in Rejections
    BY <1>4
  <2> QED BY <1>2, <1>3, <1>4, <2>1 DEF Rejections
<1> QED
  BY <1>1, <1>4

LEMMA WSIsSound ==
  ASSUME NEW batch \in BOOLEAN, NEW took \in BOOLEAN,
         NEW a \in IF took THEN WSAcceptances(batch) ELSE WSRejections
  PROVE  SoundFor(postWS(a), took) /\ (postWS(a) = NoError => took)
<1>1. CASE took
  <2>1. postWS(a) = NoError
    BY <1>1 DEF WSAcceptances, Frame, NoBody, Body, HashForm, Failure, NoError, postWS, Payload, decodeReceipt, CodeOK
  <2> QED BY <1>1, <2>1, SoundSuccess
<1>2. CASE ~took
  <2>1. PICK c \in Refusals : \/ a = Frame(c, NoBody, NoBody)
                              \/ a = Frame(0, Body(c, "none"), NoBody)
                              \/ \E top \in {NoBody, Body(CodeOK, "none")} : a = Frame(0, top, Body(c, "none"))
    BY <1>2 DEF WSRejections
  <2>2. c \in Nat \ {0, CodeOK}
    BY RequestsAssumption
  <2>3. postWS(a) \in {FromExchange(0, c), FromExchange(200, c)}
    BY <2>1, <2>2 DEF Frame, NoBody, Body, HashForm, postWS, Payload, decodeReceipt, CodeOK
  <2>4. /\ SoundFor(FromExchange(0, c), took) /\ FromExchange(0, c) # NoError
        /\ SoundFor(FromExchange(200, c), took) /\ FromExchange(200, c) # NoError
    BY <1>2, <2>2, SoundCode
  <2> QED BY <1>2, <2>3, <2>4
<1> QED
  BY <1>1, <1>2

LEMMA BrokenIsSound ==
  ASSUME NEW took \in BOOLEAN
  PROVE  SoundFor(postWS(Broken), took) /\ postWS(Broken) # NoError
<1>1. postWS(Broken) = Failure("Network", 0, 0)
  BY DEF Broken, Frame, NoBody, postWS
<1> QED
  BY <1>1, SoundSilence

\* What holds before the caller is told, and what it is told.
ToldInv ==
  /\ stage \in {"ask", "asked", "sent", "answered", "done"}
  /\ stage \in {"ask", "asked", "sent", "answered"} => told = Untold
  /\ stage = "answered" => taken \in BOOLEAN /\ answer \in Answers(req.options.ws, Batched(req), taken)
  /\ VerdictSound

LEMMA AnswerIsSound ==
  ASSUME NEW took \in BOOLEAN, answer \in Answers(req.options.ws, Batched(req), took)
  PROVE  SoundFor(Read(answer), took) /\ (Read(answer) = NoError => took)
<1>1. Batched(req) \in BOOLEAN
  BY DEF Batched
<1>2. CASE req.options.ws
  BY <1>1, <1>2, WSIsSound, BrokenIsSound DEF Answers, Read
<1>3. CASE ~req.options.ws
  BY <1>1, <1>3, RESTIsSound, SilentIsSound DEF Answers, Read
<1> QED
  BY <1>2, <1>3

LEMMA ToldStep ==
  ASSUME ToldInv, [Next]_vars
  PROVE  ToldInv'
<1> USE DEF ToldInv, VerdictSound
<1>1. CASE UNCHANGED vars
  BY <1>1 DEF vars, Batched
<1>2. CASE Ask
  BY <1>2 DEF Ask, Untold
<1>3. CASE Draft
  BY <1>3 DEF Draft, Untold, LocalError
<1>4. CASE Refuse
  BY <1>4 DEF Refuse, Untold, LocalError
<1>5. CASE Prepare
  BY <1>5 DEF Prepare, Untold, LocalError
<1>6. CASE Decide
  BY <1>6 DEF Decide, Untold, Batched
<1>7. CASE Tell
  <2>1. /\ SoundFor(Read(answer), taken) /\ taken' = taken /\ stage' = "done"
        /\ Read(answer) = NoError => taken
    BY <1>7, AnswerIsSound DEF Tell
  <2>2. /\ told'.error = Read(answer) /\ told'.outcome = outcomeOf(Read(answer))
        /\ told'.hash = "theirs" => Read(answer) = NoError
    BY <1>7 DEF Tell
  <2> QED BY <2>1, <2>2 DEF SoundFor
<1> QED
  BY <1>1, <1>2, <1>3, <1>4, <1>5, <1>6, <1>7 DEF Next

\* Success, rejection, silence and the hash mean what the caller takes them for, over REST and
\* over the WebSocket, for every set of refusal codes.
THEOREM VerdictIsSound == Spec => []VerdictSound
<1>1. Init => ToldInv
  BY DEF Init, ToldInv, VerdictSound, Untold
<1>2. ToldInv /\ [Next]_vars => ToldInv'
  BY ToldStep
<1>3. ToldInv => VerdictSound
  BY DEF ToldInv
<1> QED
  BY <1>1, <1>2, <1>3, PTL DEF Spec
-----------------------------------------------------------------------------
(***************************************************************************)
(* Loops that append what they choose                                      *)
(***************************************************************************)
\* What was chosen so far, after each element looked at.
ChosenSoFar(t, q, kept) ==
  /\ t[0] = <<>>
  /\ \A i \in 1..Len(q) : t[i] = IF q[i] \in kept THEN Append(t[i - 1], q[i]) ELSE t[i - 1]
  /\ Chosen(q, kept) = t[Len(q)]

LEMMA ChosenTrace ==
  ASSUME NEW V, NEW q \in Seq(V), NEW kept
  PROVE  \E t \in [0..Len(q) -> Seq(V)] : ChosenSoFar(t, q, kept)
<1> DEFINE n == Len(q)
           Taken(f, s) == IF s = {} THEN <<>>
                          ELSE IF q[Max(s)] \in kept THEN Append(f[s \ {Max(s)}], q[Max(s)])
                               ELSE f[s \ {Max(s)}]
           IsFold(f) == f = [s \in SUBSET (1..n) |-> Taken(f, s)]
           fold == CHOOSE f : IsFold(f)
           t == [i \in 0..n |-> fold[1..i]]
<1>1. Chosen(q, kept) = fold[1..n]
  <2>1. DOMAIN q = 1..n
    OBVIOUS
  <2> QED BY <2>1 DEF Chosen, FoldLeft, MapThenFoldSet
<1>2. n \in Nat /\ \A i \in 1..n : q[i] \in V
  OBVIOUS
<1>3. \E f : IsFold(f)
  <2> DEFINE step == [p \in Seq(V) \X (1..n) |-> IF q[p[2]] \in kept THEN Append(p[1], q[p[2]]) ELSE p[1]]
  <2>1. step \in [Seq(V) \X (1..n) -> Seq(V)]
    <3> SUFFICES ASSUME NEW k \in Seq(V), NEW i \in 1..n
                 PROVE  (IF q[i] \in kept THEN Append(k, q[i]) ELSE k) \in Seq(V)
      OBVIOUS
    <3> QED BY <1>2
  <2>2. \A k \in Seq(V), i \in 1..n : step[<<k, i>>] = IF q[i] \in kept THEN Append(k, q[i]) ELSE k
    OBVIOUS
  <2>3. <<>> \in Seq(V)
    OBVIOUS
  <2> HIDE DEF step, n
  <2>4. PICK f \in [SUBSET (1..n) -> Seq(V)] : FoldsWith(f, n, <<>>, step)
    BY <1>2, <2>1, <2>3, FoldExists
  <2>5. ASSUME NEW s \in SUBSET (1..n) PROVE f[s] = Taken(f, s)
    <3>1. CASE s = {} BY <2>4, <3>1 DEF FoldsWith
    <3>2. CASE s # {}
      <4>1. Max(s) \in 1..n BY <1>2, <3>2, MaxOfIndices
      <4>2. f[s \ {Max(s)}] \in Seq(V) BY <2>4
      <4> QED BY <2>2, <2>4, <3>2, <4>1, <4>2 DEF FoldsWith
    <3> QED BY <3>1, <3>2
  <2> QED BY <2>4, <2>5
<1>4. IsFold(fold)
  <2> HIDE DEF IsFold
  <2> QED BY <1>3
<1> HIDE DEF fold
<1>5. t[0] = <<>>
  <2>1. 1..0 = {} /\ 1..0 \in SUBSET (1..n) OBVIOUS
  <2>2. fold[1..0] = <<>> BY <1>4, <2>1
  <2> QED BY <2>2
<1>6. ASSUME NEW i \in 1..n
      PROVE  t[i] = IF q[i] \in kept THEN Append(t[i - 1], q[i]) ELSE t[i - 1]
  <2>1. 1..i \in SUBSET (1..n) /\ 1..i # {} /\ (1..i) \ {i} = 1..(i - 1) /\ i \in Nat
    <3>1. i \in Nat /\ i >= 1 /\ i <= n /\ n \in Nat BY <1>2
    <3> HIDE DEF n
    <3>2. 1..i \in SUBSET (1..n) /\ 1..i # {} BY <3>1
    <3>3. \A j : j \in (1..i) \ {i} <=> j \in 1..(i - 1) BY <3>1
    <3> QED BY <3>1, <3>2, <3>3
  <2>2. Max(1..i) = i
    <3>1. Max(1..i) \in 1..i /\ \A y \in 1..i : y <= Max(1..i) BY <2>1, MaxOfIndices
    <3> QED BY <3>1, <2>1
  <2>3. fold[1..i] = Taken(fold, 1..i)
    BY <1>4, <2>1
  <2>4. fold[1..i] = IF q[i] \in kept THEN Append(fold[1..(i - 1)], q[i]) ELSE fold[1..(i - 1)]
    BY <2>1, <2>2, <2>3
  <2> QED BY <1>2, <2>4
<1>7. t \in [0..n -> Seq(V)]
  <2> DEFINE S == {i \in 0..n : t[i] \in Seq(V)}
  <2>0. <<>> \in Seq(V) /\ n \in Nat /\ 0 \in 0..n BY <1>2
  <2> HIDE DEF n, t
  <2>1. 0 \in S
    <3>1. t[0] \in Seq(V) BY <2>0, <1>5
    <3> QED BY <2>0, <3>1
  <2>2. \A i \in 1..n : i - 1 \in S => i \in S
    <3> SUFFICES ASSUME NEW i \in 1..n, t[i - 1] \in Seq(V) PROVE t[i] \in Seq(V)
      BY <2>0
    <3>1. q[i] \in V BY <1>2
    <3>2. Append(t[i - 1], q[i]) \in Seq(V) BY <3>1
    <3>3. t[i] = t[i - 1] \/ t[i] = Append(t[i - 1], q[i]) BY <1>6
    <3> QED BY <3>2, <3>3
  <2>3. \A i \in 0..n : i \in S
    <3> HIDE DEF S
    <3> QED BY <1>2, <2>1, <2>2, BoundedInduction
  <2> QED BY <2>3 DEF t
<1>8. t[n] = fold[1..n]
  BY <1>2
<1> QED
  BY <1>1, <1>5, <1>6, <1>7, <1>8 DEF ChosenSoFar

\* The loop returns exactly what is in the set, and no more than it looked at.
LEMMA ChosenIsKept ==
  ASSUME NEW V, NEW q \in Seq(V), NEW kept
  PROVE  /\ Chosen(q, kept) \in Seq(V) /\ Len(Chosen(q, kept)) <= Len(q)
         /\ \A x : x \in ToSet(Chosen(q, kept)) <=> x \in ToSet(q) /\ x \in kept
<1>0. PICK t \in [0..Len(q) -> Seq(V)] : ChosenSoFar(t, q, kept)
  BY ChosenTrace
<1>1. /\ t[0] = <<>> /\ Chosen(q, kept) = t[Len(q)]
      /\ \A i \in 1..Len(q) : t[i] = IF q[i] \in kept THEN Append(t[i - 1], q[i]) ELSE t[i - 1]
  BY <1>0 DEF ChosenSoFar
<1>2. Len(q) \in Nat /\ (\A i \in 1..Len(q) : q[i] \in V) /\ \A i \in 0..Len(q) : t[i] \in Seq(V)
  OBVIOUS
<1> DEFINE S == {i \in 0..Len(q) : /\ Len(t[i]) <= i
                                   /\ \A x : x \in ToSet(t[i]) <=> x \in kept /\ \E j \in 1..i : q[j] = x}
<1>3. 0 \in S
  <2>1. ToSet(<<>>) = {} /\ Len(<<>>) = 0 BY DEF ToSet
  <2>2. Len(t[0]) <= 0 /\ \A x : x \notin ToSet(t[0]) BY <1>1, <2>1
  <2>3. \A x : ~ \E j \in 1..0 : q[j] = x OBVIOUS
  <2> QED BY <1>2, <2>2, <2>3
<1>4. ASSUME NEW i \in 1..Len(q), i - 1 \in S PROVE i \in S
  <2> DEFINE r == t[i - 1]
  <2>1. /\ r \in Seq(V) /\ Len(r) \in Nat /\ Len(r) <= i - 1 /\ q[i] \in V /\ i \in 0..Len(q)
        /\ \A x : x \in ToSet(r) <=> x \in kept /\ \E j \in 1..(i - 1) : q[j] = x
    BY <1>2, <1>4
  <2>2. t[i] = IF q[i] \in kept THEN Append(r, q[i]) ELSE r
    BY <1>1
  <2>3. \A j : j \in 1..i <=> j \in 1..(i - 1) \/ j = i
    BY <1>2
  <2>4. \A x : (\E j \in 1..i : q[j] = x) <=> x = q[i] \/ \E j \in 1..(i - 1) : q[j] = x
    BY <2>3
  <2> HIDE DEF r
  <2>5. \A x : x \in ToSet(Append(r, q[i])) <=> x = q[i] \/ x \in ToSet(r)
    <3>1. /\ DOMAIN r = 1..Len(r) /\ DOMAIN Append(r, q[i]) = 1..(Len(r) + 1)
          /\ Append(r, q[i])[Len(r) + 1] = q[i]
          /\ \A j \in 1..Len(r) : Append(r, q[i])[j] = r[j]
      BY <2>1
    <3>2. \A j : j \in 1..(Len(r) + 1) <=> j \in 1..Len(r) \/ j = Len(r) + 1
      BY <2>1
    <3> QED BY <3>1, <3>2 DEF ToSet
  <2>6. Len(Append(r, q[i])) = Len(r) + 1
    BY <2>1
  <2>7. Len(t[i]) <= i
    BY <2>1, <2>2, <2>6
  <2>8. \A x : x \in ToSet(t[i]) <=> x \in kept /\ \E j \in 1..i : q[j] = x
    BY <2>1, <2>2, <2>4, <2>5
  <2> QED BY <2>1, <2>7, <2>8
<1>5. \A i \in 0..Len(q) : i \in S
  <2> HIDE DEF S
  <2> QED BY <1>2, <1>3, <1>4, BoundedInduction
<1>6. Len(q) \in S
  BY <1>2, <1>5
<1>7. \A x : x \in ToSet(q) <=> \E j \in 1..Len(q) : q[j] = x
  BY DEF ToSet
<1> QED
  BY <1>1, <1>2, <1>6, <1>7
-----------------------------------------------------------------------------
(***************************************************************************)
(* What was sent, and of which request                                     *)
(***************************************************************************)
IsCall(r) == r.do \in Methods /\ IsRequest(r)

\* A wire that is not empty is the transactions of a request of the program, filled, valid and signed.
Sent ==
  /\ ~NothingToDo /\ ~Refused
  /\ nonce \in IF req.options.nonce # 0 THEN {req.options.nonce} ELSE Nonces
  /\ txs = Filled(Build(req).value, nonce, req.options, laneSkips)
  /\ \A i \in 1..Len(txs) : Validate(txs[i])
  /\ wire = [i \in 1..Len(txs) |-> Signed(txs[i])]
SentInv ==
  /\ laneSkips \in BOOLEAN
  /\ stage \in {"ask", "asked"} => wire = <<>>
  /\ stage = "asked" => IsCall(req)
  /\ wire # <<>> => IsCall(req) /\ Sent

\* A draft with a price is a request.
LEMMA DraftIsCall ==
  ASSUME NEW d \in Drafts, NEW price \in Int
  PROVE  IsCall([d.request EXCEPT !.items[1].price = price])
<1>1. d.request \in Placements /\ Len(d.request.items) = 1
  BY RequestsAssumption
<1> DEFINE r == [d.request EXCEPT !.items[1].price = price]
<1>2. /\ d.request.do = "CreateOrder" /\ d.request.options \in SendOptions
      /\ d.request.items \in Seq(OrderRequests) /\ d.request.items[1] \in OrderRequests
  BY <1>1 DEF Placements
<1>3. [d.request.items[1] EXCEPT !.price = price] \in OrderRequests
  BY <1>2 DEF OrderRequests
<1>4. [d.request.items EXCEPT ![1].price = price] \in Seq(OrderRequests)
  BY <1>1, <1>2, <1>3
<1>5. r.do = "CreateOrder" /\ r.options = d.request.options
      /\ r.items = [d.request.items EXCEPT ![1].price = price] /\ Len(r.items) = 1
  BY <1>1, <1>2, <1>4 DEF Placements
<1> HIDE DEF r
<1> QED
  BY <1>2, <1>4, <1>5 DEF IsCall, IsRequest, Methods
-----------------------------------------------------------------------------
(***************************************************************************)
(* Powers, digits and prices                                               *)
(***************************************************************************)
\* The first powers of Base.
Powers(g, n) == g \in [0..n -> Nat] /\ g[0] = 1 /\ \A i \in 1..n : g[i] = Base * g[i - 1]

LEMMA PowersExist == \A n \in Nat : \E g : Powers(g, n)
<1> DEFINE S == {n \in Nat : \E g : Powers(g, n)}
<1>1. 0 \in S
  <2> DEFINE g == [i \in 0..0 |-> 1]
  <2>1. Powers(g, 0)
    BY DEF Powers
  <2> QED BY <2>1
<1>2. ASSUME NEW n \in Nat, n \in S PROVE n + 1 \in S
  <2>1. PICK g : Powers(g, n)
    BY <1>2
  <2> DEFINE f == [i \in 0..(n + 1) |-> IF i = n + 1 THEN Base * g[n] ELSE g[i]]
  <2>2. g[n] \in Nat /\ Base * g[n] \in Nat
    BY <2>1, WidthsAssumption DEF Powers
  <2>3. f \in [0..(n + 1) -> Nat]
    BY <2>1, <2>2 DEF Powers
  <2>4. f[0] = 1
    BY <2>1 DEF Powers
  <2>5. ASSUME NEW i \in 1..(n + 1) PROVE f[i] = Base * f[i - 1]
    <3>1. i - 1 \in 0..(n + 1) /\ i \in 0..(n + 1) /\ i - 1 # n + 1
      OBVIOUS
    <3>2. f[i - 1] = g[i - 1] /\ f[i] = IF i = n + 1 THEN Base * g[n] ELSE g[i]
      BY <3>1
    <3>3. i # n + 1 => g[i] = Base * g[i - 1]
      BY <2>1 DEF Powers
    <3>4. i = n + 1 => i - 1 = n
      OBVIOUS
    <3> HIDE DEF f
    <3> QED BY <3>2, <3>3, <3>4
  <2> HIDE DEF f
  <2> QED BY <2>3, <2>4, <2>5, Z3 DEF Powers
<1>3. \A n \in Nat : n \in S
  <2> HIDE DEF S
  <2> QED BY <1>1, <1>2, SetInduction
<1> QED
  BY <1>3

LEMMA PowersAgree ==
  ASSUME NEW n \in Nat, NEW m \in Nat, n <= m, NEW g, NEW h, Powers(g, n), Powers(h, m)
  PROVE  \A i \in 0..n : g[i] = h[i]
<1> DEFINE S == {i \in 0..n : g[i] = h[i]}
<1>1. 0 \in S
  BY DEF Powers
<1>2. \A i \in 1..n : i - 1 \in S => i \in S
  BY DEF Powers
<1>3. \A i \in 0..n : i \in S
  <2> HIDE DEF S
  <2> QED BY <1>1, <1>2, BoundedInduction
<1> QED
  BY <1>3

\* The recursion of pow10 has the powers of Base as its value.
LEMMA PowersOfTen ==
  /\ pow10[0] = 1
  /\ \A n \in Nat : pow10[n] \in Nat \ {0} /\ pow10[n + 1] = Base * pow10[n]
<1> DEFINE IsPow(f) == f = [n \in Nat |-> IF n = 0 THEN 1 ELSE Base * f[n - 1]]
           upTo(n) == CHOOSE g : Powers(g, n)
           p == [n \in Nat |-> upTo(n)[n]]
<1>1. \A n \in Nat : Powers(upTo(n), n)
  BY PowersExist
<1> HIDE DEF upTo
<1>2. ASSUME NEW n \in Nat PROVE p[n] = IF n = 0 THEN 1 ELSE Base * p[n - 1]
  <2>1. CASE n = 0
    BY <1>1, <2>1 DEF Powers
  <2>2. CASE n # 0
    <3>1. n - 1 \in Nat /\ n - 1 <= n /\ n - 1 \in 0..(n - 1) /\ n \in 1..n
      BY <2>2
    <3>2. upTo(n - 1)[n - 1] = upTo(n)[n - 1]
      BY <1>1, <3>1, PowersAgree
    <3>3. upTo(n)[n] = Base * upTo(n)[n - 1]
      BY <1>1, <3>1 DEF Powers
    <3> QED BY <2>2, <3>1, <3>2, <3>3
  <2> QED BY <2>1, <2>2
<1>3. IsPow(p)
  <2> DEFINE q == [n \in Nat |-> IF n = 0 THEN 1 ELSE Base * p[n - 1]]
  <2>1. \A n \in Nat : p[n] = q[n]
    BY <1>2
  <2>2. p = [n \in Nat |-> p[n]] /\ q = [n \in Nat |-> q[n]]
    OBVIOUS
  <2> HIDE DEF p, q
  <2>3. p = q
    BY <2>1, <2>2
  <2> QED BY <2>3 DEF q
<1>4. IsPow(pow10)
  <2>1. \E f : IsPow(f)
    <3> HIDE DEF IsPow
    <3> QED BY <1>3
  <2>2. pow10 = CHOOSE f : IsPow(f)
    BY DEF pow10
  <2> HIDE DEF IsPow
  <2> QED BY <2>1, <2>2
<1>5. \A n \in Nat : pow10[n] = IF n = 0 THEN 1 ELSE Base * pow10[n - 1]
  BY <1>4
<1> DEFINE S == {n \in Nat : pow10[n] \in Nat \ {0}}
<1>6. 0 \in S
  BY <1>5
<1>7. ASSUME NEW n \in Nat, n \in S PROVE n + 1 \in S
  <2>1. pow10[n + 1] = Base * pow10[n]
    BY <1>5
  <2>2. \A a, b \in Nat \ {0} : a * b \in Nat \ {0}
    OBVIOUS
  <2> QED BY <1>7, <2>1, <2>2, WidthsAssumption
<1>8. \A n \in Nat : n \in S
  <2> HIDE DEF S
  <2> QED BY <1>6, <1>7, SetInduction
<1>9. pow10[0] = 1
  BY <1>5
<1>10. \A n \in Nat : pow10[n + 1] = Base * pow10[n]
  BY <1>5
<1> QED
  BY <1>8, <1>9, <1>10
\* The value of the digits read so far.
ValueSoFar(t, q) ==
  /\ t[0] = 0
  /\ \A i \in 1..Len(q) : t[i] = t[i - 1] * Base + q[i]
  /\ ValueOf(q) = t[Len(q)]

LEMMA ValueTrace ==
  ASSUME NEW q \in Seq(Digits)
  PROVE  \E t \in [0..Len(q) -> Nat] : ValueSoFar(t, q)
<1> DEFINE n == Len(q)
           Taken(f, s) == IF s = {} THEN 0 ELSE f[s \ {Max(s)}] * Base + q[Max(s)]
           IsFold(f) == f = [s \in SUBSET (1..n) |-> Taken(f, s)]
           fold == CHOOSE f : IsFold(f)
           t == [i \in 0..n |-> fold[1..i]]
<1>1. ValueOf(q) = fold[1..n]
  <2>1. DOMAIN q = 1..n
    OBVIOUS
  <2> QED BY <2>1 DEF ValueOf, FoldLeft, MapThenFoldSet
<1>2. n \in Nat /\ \A i \in 1..n : q[i] \in Nat
  BY WidthsAssumption DEF Digits
<1>3. \E f : IsFold(f)
  <2> DEFINE step == [p \in Nat \X (1..n) |-> p[1] * Base + q[p[2]]]
  <2>1. step \in [Nat \X (1..n) -> Nat]
    <3> SUFFICES ASSUME NEW k \in Nat, NEW i \in 1..n
                 PROVE  k * Base + q[i] \in Nat
      OBVIOUS
    <3> QED BY <1>2, WidthsAssumption
  <2>2. \A k \in Nat, i \in 1..n : step[<<k, i>>] = k * Base + q[i]
    OBVIOUS
  <2>3. 0 \in Nat
    OBVIOUS
  <2> HIDE DEF step, n
  <2>4. PICK f \in [SUBSET (1..n) -> Nat] : FoldsWith(f, n, 0, step)
    BY <1>2, <2>1, <2>3, FoldExists
  <2>5. ASSUME NEW s \in SUBSET (1..n) PROVE f[s] = Taken(f, s)
    <3>1. CASE s = {} BY <2>4, <3>1 DEF FoldsWith
    <3>2. CASE s # {}
      <4>1. Max(s) \in 1..n BY <1>2, <3>2, MaxOfIndices
      <4>2. f[s \ {Max(s)}] \in Nat BY <2>4
      <4> QED BY <2>2, <2>4, <3>2, <4>1, <4>2 DEF FoldsWith
    <3> QED BY <3>1, <3>2
  <2> QED BY <2>4, <2>5
<1>4. IsFold(fold)
  <2> HIDE DEF IsFold
  <2> QED BY <1>3
<1> HIDE DEF fold
<1>5. t[0] = 0
  <2>1. 1..0 = {} /\ 1..0 \in SUBSET (1..n) OBVIOUS
  <2>2. fold[1..0] = 0 BY <1>4, <2>1
  <2> QED BY <2>2
<1>6. ASSUME NEW i \in 1..n
      PROVE  t[i] = t[i - 1] * Base + q[i]
  <2>1. 1..i \in SUBSET (1..n) /\ 1..i # {} /\ (1..i) \ {i} = 1..(i - 1) /\ i \in Nat
    <3>1. i \in Nat /\ i >= 1 /\ i <= n /\ n \in Nat BY <1>2
    <3> HIDE DEF n
    <3>2. 1..i \in SUBSET (1..n) /\ 1..i # {} BY <3>1
    <3>3. \A j : j \in (1..i) \ {i} <=> j \in 1..(i - 1) BY <3>1
    <3> QED BY <3>1, <3>2, <3>3
  <2>2. Max(1..i) = i
    <3>1. Max(1..i) \in 1..i /\ \A y \in 1..i : y <= Max(1..i) BY <2>1, MaxOfIndices
    <3> QED BY <3>1, <2>1
  <2>3. fold[1..i] = Taken(fold, 1..i)
    BY <1>4, <2>1
  <2>4. fold[1..i] = fold[1..(i - 1)] * Base + q[i]
    BY <2>1, <2>2, <2>3
  <2> QED BY <1>2, <2>4
<1>7. t \in [0..n -> Nat]
  <2> DEFINE S == {i \in 0..n : t[i] \in Nat}
  <2>0. 0 \in Nat /\ n \in Nat /\ 0 \in 0..n BY <1>2
  <2> HIDE DEF n, t
  <2>1. 0 \in S
    <3>1. t[0] \in Nat BY <2>0, <1>5
    <3> QED BY <2>0, <3>1
  <2>2. \A i \in 1..n : i - 1 \in S => i \in S
    <3> SUFFICES ASSUME NEW i \in 1..n, t[i - 1] \in Nat PROVE t[i] \in Nat
      BY <2>0
    <3>1. q[i] \in Nat BY <1>2
    <3>2. t[i - 1] * Base + q[i] \in Nat BY <3>1, WidthsAssumption
    <3> QED BY <1>6, <3>2
  <2>3. \A i \in 0..n : i \in S
    <3> HIDE DEF S
    <3> QED BY <1>2, <2>1, <2>2, BoundedInduction
  <2> QED BY <2>3 DEF t
<1>8. t[n] = fold[1..n]
  BY <1>2
<1> QED
  BY <1>1, <1>5, <1>6, <1>7, <1>8 DEF ValueSoFar

LEMMA ValueIsNat == \A q \in Seq(Digits) : ValueOf(q) \in Nat
<1> SUFFICES ASSUME NEW q \in Seq(Digits) PROVE ValueOf(q) \in Nat
  OBVIOUS
<1>1. PICK t \in [0..Len(q) -> Nat] : ValueSoFar(t, q)
  BY ValueTrace
<1>2. Len(q) \in 0..Len(q)
  OBVIOUS
<1> QED
  BY <1>1, <1>2 DEF ValueSoFar

\* Arithmetic of an int64 and of the grid.
LEMMA DivisionExact ==
  ASSUME NEW a \in Int, NEW b \in Nat \ {0}
  PROVE  /\ a \div b \in Int /\ a % b \in 0..(b - 1)
         /\ a % b = a - b * (a \div b)
         /\ (a \div b) * b <= a /\ a < (a \div b + 1) * b
         /\ a >= 0 => a \div b \in Nat
<1>1. a \div b \in Int /\ a % b \in 0..(b - 1) /\ (a >= 0 => a \div b \in Nat)
  OBVIOUS
<1>2. (a \div b) * b <= a /\ a < (a \div b + 1) * b
  OBVIOUS
<1>3. a % b = a - b * (a \div b)
  OBVIOUS
<1> QED
  BY <1>1, <1>2, <1>3

LEMMA WrapIsInt == \A v \in Int : Wrap(v) \in -(MaxInt + 1)..MaxInt
<1> SUFFICES ASSUME NEW v \in Int PROVE Wrap(v) \in -(MaxInt + 1)..MaxInt
  OBVIOUS
<1> DEFINE w == v + MaxInt + 1   m == 2 * (MaxInt + 1)
<1>1. MaxInt \in Nat
  BY WidthsAssumption
<1>2. w \in Int /\ m \in Nat \ {0}
  BY <1>1
<1>3. w % m \in 0..(m - 1)
  <2> HIDE DEF w, m
  <2> QED BY <1>2, DivisionExact
<1>4. Wrap(v) = (w % m) - (MaxInt + 1)
  BY DEF Wrap
<1> HIDE DEF w
<1> QED
  BY <1>1, <1>3, <1>4

LEMMA TickIsPositive == \A decimals \in Int : TickSize(decimals) \in Nat \ {0} /\ FixedScale \in Nat \ {0}
<1> SUFFICES ASSUME NEW decimals \in Int
             PROVE  TickSize(decimals) \in Nat \ {0} /\ FixedScale \in Nat \ {0}
  OBVIOUS
<1>1. FixedDecimals \in Nat /\ FixedDecimals - clampDecimals(decimals) \in Nat
  BY WidthsAssumption DEF clampDecimals
<1> QED
  BY <1>1, PowersOfTen DEF TickSize, FixedScale
\* The market of a symbol that is listed.
LEMMA ResolvedIsListed ==
  ASSUME NEW symbol, Known(symbol)
  PROVE  /\ Resolved(symbol) \in Markets /\ Resolved(symbol).symbol = symbol
         /\ Resolved(symbol).id \in Int \ {NilMarketIndex} /\ Resolved(symbol).minFraction \in Nat
         /\ Resolved(symbol).priceDecimals \in Int /\ Resolved(symbol).sizeDecimals \in Int
<1>1. Resolved(symbol) \in Markets /\ Resolved(symbol).symbol = symbol
  BY DEF Known, Resolved
<1> QED
  BY <1>1, MarketsAssumption

LEMMA NormalizeIsInt ==
  ASSUME NEW v \in Int, NEW decimals \in Int, NEW mode
  PROVE  Normalize(v, decimals, mode) \in Int
<1> DEFINE step == TickSize(decimals)
<1>1. step \in Nat \ {0}
  BY TickIsPositive
<1> HIDE DEF step
<1>2. v % step \in Int
  BY <1>1, DivisionExact
<1>3. v - (v % step) \in Int /\ v - (v % step) + step \in Int
  BY <1>1, <1>2
<1>4. Wrap(v - (v % step) + step) \in Int
  BY <1>3, WrapIsInt
<1>5. roundToStep(v, step, mode) \in {v, Wrap(v - (v % step) + step), v - (v % step)}
  <2> DEFINE up == mode = "up" \/ (mode = "nearest" /\ (v % step) * 2 >= step)
  <2>1. roundToStep(v, step, mode) =
          IF v % step = 0 THEN v ELSE IF up THEN Wrap(v - (v % step) + step) ELSE v - (v % step)
    BY DEF roundToStep
  <2> HIDE DEF up
  <2> QED BY <2>1
<1>6. Normalize(v, decimals, mode) \in {v, roundToStep(v, step, mode)}
  BY Zenon DEF Normalize, step
<1> QED
  BY <1>3, <1>4, <1>5, <1>6

LEMMA ParseIsInt ==
  ASSUME NEW t \in [neg : BOOLEAN, int : Seq(Digits), frac : Seq(Digits)], NEW strict
  PROVE  parseFixed(t, strict).ok => parseFixed(t, strict).value \in Int
<1> DEFINE kept == Prefix(t.frac, FixedDecimals)
           whole == ValueOf(t.int)
           behind == ValueOf(kept)
           shift == pow10[FixedDecimals - Len(kept)]
<1>1. kept \in Seq(Digits) /\ FixedDecimals - Len(kept) \in Nat
  <2>1. t.frac \in Seq(Digits) /\ FixedDecimals \in Nat
    BY WidthsAssumption
  <2> QED BY <2>1 DEF Prefix
<1>2. whole \in Nat /\ behind \in Nat
  BY <1>1, ValueIsNat
<1>3. shift \in Nat /\ FixedScale \in Nat
  BY <1>1, PowersOfTen, WidthsAssumption DEF FixedScale
<1> DEFINE size == whole * FixedScale + behind * shift
<1>4. size \in Int
  <2> HIDE DEF whole, behind, shift
  <2> QED BY <1>2, <1>3
<1>5. parseFixed(t, strict).ok => parseFixed(t, strict).value = (IF t.neg THEN -1 ELSE 1) * size
  BY DEF parseFixed, Ok, Fails
<1> HIDE DEF size
<1> QED
  BY <1>4, <1>5

LEMMA PriceIsInt ==
  ASSUME NEW d \in Drafts, Price(d).ok
  PROVE  Price(d).value \in Int
<1> DEFINE decimals == Resolved(d.request.items[1].symbol).priceDecimals
<1>1. decimals \in Int /\ (d.from = "text" \/ d.from = "reference")
  BY RequestsAssumption, ResolvedIsListed
<1>2. CASE d.from = "text"
  <2>1. /\ ParseFixed(d.text).ok
        /\ Price(d).value = IF d.mode = "none" THEN ParseFixed(d.text).value
                            ELSE Normalize(ParseFixed(d.text).value, decimals, d.mode)
    BY <1>2 DEF Price, Ok, Fails
  <2>2. ParseFixed(d.text).value \in Int
    BY <1>2, <2>1, ParseIsInt, RequestsAssumption DEF ParseFixed
  <2>3. Normalize(ParseFixed(d.text).value, decimals, d.mode) \in Int
    BY <1>1, <2>2, NormalizeIsInt
  <2> QED BY <2>1, <2>2, <2>3
<1>3. CASE d.from = "reference"
  <2> DEFINE ask == d.request.items[1].ask
             moved == Wrap(d.reference * d.bps)
             delta == IF moved < 0 THEN -(Magnitude(moved) \div d.parts) ELSE moved \div d.parts
  <2>1. Price(d).value = SlippagePrice(decimals, d.reference, ask, d.bps, d.parts)
    BY <1>3 DEF Price, Ok
  <2>2. d.reference \in Int /\ d.bps \in Int /\ d.parts \in Nat \ {0}
    BY <1>3, RequestsAssumption
  <2>3. moved \in Int
    <3>1. d.reference * d.bps \in Int
      BY <2>2
    <3> QED BY <3>1, WrapIsInt
  <2>4. delta \in Int
    <3> HIDE DEF moved
    <3>1. Magnitude(moved) \in Int
      BY <2>3 DEF Magnitude
    <3>2. Magnitude(moved) \div d.parts \in Int /\ moved \div d.parts \in Int
      BY <2>2, <2>3, <3>1, DivisionExact
    <3> QED BY <3>2
  <2>5. Wrap(d.reference - delta) \in Int /\ Wrap(d.reference + delta) \in Int
    <3> HIDE DEF delta
    <3>1. d.reference - delta \in Int /\ d.reference + delta \in Int
      BY <2>2, <2>4
    <3> QED BY <3>1, WrapIsInt
  <2>6. SlippagePrice(decimals, d.reference, ask, d.bps, d.parts) \in
          {d.reference, Normalize(Wrap(d.reference - delta), decimals, "down"),
                        Normalize(Wrap(d.reference + delta), decimals, "up")}
    BY DEF SlippagePrice
  <2> HIDE DEF delta, moved, decimals
  <2>7. /\ Normalize(Wrap(d.reference - delta), decimals, "down") \in Int
        /\ Normalize(Wrap(d.reference + delta), decimals, "up") \in Int
    BY <1>1, <2>5, NormalizeIsInt
  <2> QED BY <2>1, <2>2, <2>6, <2>7
<1> QED
  BY <1>1, <1>2, <1>3
LEMMA SentStep ==
  ASSUME SentInv, [Next]_vars
  PROVE  SentInv'
<1> USE DEF SentInv
<1>1. CASE UNCHANGED vars
  BY <1>1 DEF vars, Sent, IsCall, Refused, NothingToDo
<1>2. CASE Ask
  <2>1. stage' = "asked" /\ wire' = <<>> /\ laneSkips' \in BOOLEAN /\ req' \in Requested
    BY <1>2 DEF Ask
  <2>2. IsCall(req')
    BY <2>1, RequestsAssumption DEF IsCall
  <2> QED BY <2>1, <2>2
<1>3. CASE Draft
  <2>1. wire' = <<>> /\ laneSkips' \in BOOLEAN /\ draft' \in Drafts
    BY <1>3 DEF Draft
  <2>2. CASE Price(draft').ok
    <3>1. stage' = "asked" /\ req' = [draft'.request EXCEPT !.items[1].price = Price(draft').value]
      BY <1>3, <2>2 DEF Draft
    <3>2. \A d \in Drafts : Price(d).ok => IsCall([d.request EXCEPT !.items[1].price = Price(d).value])
      BY PriceIsInt, DraftIsCall
    <3>3. IsCall(req')
      BY <2>1, <2>2, <3>1, <3>2
    <3> QED BY <2>1, <3>1, <3>3
  <2>3. CASE ~Price(draft').ok
    <3>1. stage' = "done"
      BY <1>3, <2>3 DEF Draft
    <3> QED BY <2>1, <3>1
  <2> QED BY <2>2, <2>3
<1>4. CASE Refuse
  BY <1>4 DEF Refuse
<1>5. CASE Prepare
  <2>1. /\ stage = "asked" /\ wire = <<>> /\ req' = req /\ laneSkips' = laneSkips /\ IsCall(req)
        /\ ~NothingToDo /\ ~Refused /\ stage' \in {"sent", "done"}
    BY <1>5 DEF Prepare
  <2>2. (~NothingToDo /\ ~Refused)' /\ IsCall(req')
    BY <2>1 DEF NothingToDo, Refused
  <2>3. wire' # <<>> => Sent'
    BY <1>5, <2>1, <2>2 DEF Prepare, Sent
  <2> QED BY <2>1, <2>2, <2>3
<1>6. CASE Decide
  BY <1>6 DEF Decide, Sent, IsCall, Refused, NothingToDo
<1>7. CASE Tell
  BY <1>7 DEF Tell, Sent, IsCall, Refused, NothingToDo
<1> QED
  BY <1>1, <1>2, <1>3, <1>4, <1>5, <1>6, <1>7 DEF Next

LEMMA SentAlways == Spec => []SentInv
<1>1. Init => SentInv
  BY DEF Init, SentInv
<1>2. SentInv /\ [Next]_vars => SentInv'
  BY SentStep
<1> QED
  BY <1>1, <1>2, PTL DEF Spec
\* The kinds of the items that Items gives.
ItemsOf(method) ==
  CASE method \in {"CreateOrder", "CreateBatchOrders", "ClosePosition"} -> OrderRequests
    [] method \in {"ModifyOrder", "ModifyBatchOrders"} -> ModifyRequests
    [] method \in {"CancelOrder", "CancelBatchOrders", "CancelForgottenOrders"} -> CancelRequests
    [] method = "CancelAllOrders" -> CancelAllRequests
    [] method = "UpdateLeverage" -> LeverageRequests
    [] method = "UpdateMargin" -> MarginRequests
    [] method = "Send" -> L2Txs

LEMMA MarketByIDIsListed ==
  ASSUME NEW id, KnownID(id)
  PROVE  /\ MarketByID(id) \in Markets /\ MarketByID(id).id = id
         /\ MarketByID(id).symbol \in STRING /\ Known(MarketByID(id).symbol)
         /\ Resolved(MarketByID(id).symbol) = MarketByID(id)
<1>1. MarketByID(id) \in Markets /\ MarketByID(id).id = id
  BY DEF KnownID, MarketByID
<1>2. Known(MarketByID(id).symbol)
  BY <1>1 DEF Known
<1>3. /\ Resolved(MarketByID(id).symbol) \in Markets
      /\ Resolved(MarketByID(id).symbol).symbol = MarketByID(id).symbol
  BY <1>2, ResolvedIsListed
<1> QED
  BY <1>1, <1>2, <1>3, MarketsAssumption

\* The cancel of an open order.
CancelOf(o) == [symbol |-> MarketByID(o.market).symbol, index |-> o.index]
\* The cancels of a clean-up are those of the stale orders whose market is known.
LEMMA CancelsAreOfStale ==
  ASSUME NEW r, IsCall(r), r.do = "CancelForgottenOrders"
  PROVE  /\ Items(r) \in Seq(CancelRequests)
         /\ \A i \in 1..Len(Items(r)) : \E o \in ToSet(r.open) :
              /\ Created(o) <= r.deadline /\ KnownID(o.market)
              /\ Items(r)[i] = CancelOf(o)
         /\ \A o \in ToSet(r.open) : Created(o) <= r.deadline /\ KnownID(o.market) =>
              \E i \in 1..Len(Items(r)) :
                Items(r)[i] = CancelOf(o)
<1> DEFINE aged == {o \in ToSet(r.open) : Created(o) <= r.deadline}
           stale == Stale(r)
           ofKnown == {o \in ToSet(stale) : KnownID(o.market)}
           known == Chosen(stale, ofKnown)
<1>1. r.open \in Seq(OpenOrders)
  BY DEF IsCall, IsRequest
<1>2. stale \in Seq(OpenOrders) /\ \A o : o \in ToSet(stale) <=> o \in ToSet(r.open) /\ Created(o) <= r.deadline
  <2>1. stale = Chosen(r.open, aged)
    BY DEF Stale
  <2>2. \A o : o \in aged <=> o \in ToSet(r.open) /\ Created(o) <= r.deadline
    OBVIOUS
  <2> HIDE DEF stale, aged
  <2> QED BY <1>1, <2>1, <2>2, ChosenIsKept
<1> HIDE DEF stale
<1>3. known \in Seq(OpenOrders) /\ \A o : o \in ToSet(known) <=> o \in ToSet(stale) /\ KnownID(o.market)
  <2>1. \A o : o \in ofKnown <=> o \in ToSet(stale) /\ KnownID(o.market)
    OBVIOUS
  <2> HIDE DEF ofKnown
  <2> QED BY <1>2, <2>1, ChosenIsKept
<1>4. Items(r) = [i \in 1..Len(known) |-> CancelOf(known[i])]
  BY DEF Items, CancelsOf, CancelOf, stale
<1> HIDE DEF known
<1>5. /\ Len(known) \in Nat /\ \A i \in 1..Len(known) : known[i] \in OpenOrders /\ known[i] \in ToSet(known)
      /\ \A o \in ToSet(known) : \E i \in 1..Len(known) : known[i] = o
  BY <1>3 DEF ToSet
<1>6. ASSUME NEW i \in 1..Len(known)
      PROVE  CancelOf(known[i]) \in CancelRequests
  <2>1. KnownID(known[i].market) /\ known[i].index \in Int
    BY <1>3, <1>5 DEF OpenOrders
  <2>2. MarketByID(known[i].market).symbol \in STRING
    BY <2>1, MarketByIDIsListed
  <2> QED BY <2>1, <2>2 DEF CancelRequests, CancelOf
<1>7. Items(r) \in Seq(CancelRequests) /\ Len(Items(r)) = Len(known)
  BY <1>4, <1>5, <1>6
<1>8. \A i \in 1..Len(known) :
        Items(r)[i] = CancelOf(known[i])
  BY <1>4
<1>9. ASSUME NEW i \in 1..Len(Items(r))
      PROVE  \E o \in ToSet(r.open) :
               /\ Created(o) <= r.deadline /\ KnownID(o.market)
               /\ Items(r)[i] = CancelOf(o)
  <2>1. i \in 1..Len(known)
    BY <1>7
  <2>2. known[i] \in ToSet(r.open) /\ Created(known[i]) <= r.deadline /\ KnownID(known[i].market)
    BY <2>1, <1>2, <1>3, <1>5
  <2>3. Items(r)[i] = CancelOf(known[i])
    BY <2>1, <1>8
  <2> QED BY <2>2, <2>3
<1>10. ASSUME NEW o \in ToSet(r.open), Created(o) <= r.deadline, KnownID(o.market)
       PROVE  \E i \in 1..Len(Items(r)) :
                Items(r)[i] = CancelOf(o)
  <2>1. o \in ToSet(known)
    BY <1>10, <1>2, <1>3
  <2>2. PICK i \in 1..Len(known) : known[i] = o
    BY <2>1, <1>5
  <2>3. i \in 1..Len(Items(r)) /\ Items(r)[i] = CancelOf(o)
    BY <2>2, <1>7, <1>8
  <2> QED BY <2>3
<1> QED
  BY <1>7, <1>9, <1>10

LEMMA ItemsTyped ==
  ASSUME NEW r, IsCall(r)
  PROVE  Items(r) \in Seq(ItemsOf(r.do))
<1>1. CASE r.do = "CancelForgottenOrders"
  BY <1>1, CancelsAreOfStale DEF ItemsOf
<1>2. CASE r.do = "ClosePosition"
  <2>1. r.items \in Seq(CloseRequests) /\ Len(r.items) = 1 /\ r.position \in [size : Int, sign : Int]
    BY <1>2 DEF IsCall, IsRequest, Batched
  <2>2. r.items[1] \in CloseRequests
    BY <2>1
  <2>5. r.position.size \in Int /\ r.position.sign \in Int
    BY <2>1
  <2>3. Closing(r.items[1], r.position) \in OrderRequests
    BY <2>2, <2>5 DEF Closing, CloseRequests, OrderRequests, Market, IOC
  <2>4. Items(r) = <<Closing(r.items[1], r.position)>>
    BY <1>2 DEF Items
  <2> QED BY <1>2, <2>3, <2>4 DEF ItemsOf
<1>3. CASE r.do \in Methods \ {"CancelForgottenOrders", "ClosePosition"}
  <2>1. Items(r) = r.items
    BY <1>3 DEF Items
  <2> QED BY <1>3, <2>1 DEF IsCall, IsRequest, ItemsOf, Methods
<1> QED
  BY <1>1, <1>2, <1>3 DEF IsCall
-----------------------------------------------------------------------------
(***************************************************************************)
(* From an item to what is on the wire for it                              *)
(***************************************************************************)
\* A number on the grid is what its wire integer stands for.
LEMMA ToWireIsExact ==
  ASSUME NEW v \in Int, NEW decimals \in Int, NEW most \in Int
  PROVE  /\ ToWire(v, decimals, most).value \in Int
         /\ ToWire(v, decimals, most).ok =>
              /\ ToWire(v, decimals, most).value \in 1..most
              /\ Worth(ToWire(v, decimals, most).value, decimals) = v /\ v > 0
<1> DEFINE step == TickSize(decimals)
<1>1. step \in Nat \ {0}
  BY TickIsPositive
<1>2. v \div step \in Int /\ v % step = v - step * (v \div step)
  <2> HIDE DEF step
  <2> QED BY <1>1, DivisionExact
<1> DEFINE w == v \div step   rem == v % step
<1>3. ToWire(v, decimals, most) = IF v <= 0 \/ rem # 0 \/ w < 1 \/ w > most THEN Fails ELSE Ok(w)
  BY DEF ToWire
<1>4. rem = 0 => w * step = v
  <2> HIDE DEF step, w, rem
  <2>1. w \in Int /\ rem = v - step * w
    BY <1>2 DEF w, rem
  <2> QED BY <1>1, <2>1
<1>5. Worth(w, decimals) = w * step
  BY DEF Worth
<1>6. w \in Int
  BY <1>2
<1> HIDE DEF w, rem, step
<1> QED
  BY <1>3, <1>4, <1>5, <1>6 DEF Ok, Fails

LEMMA OrderWireTyped ==
  ASSUME NEW item \in OrderRequests, orderWire(item).ok
  PROVE  /\ Known(item.symbol) /\ ExpiryFits(item)
         /\ LET m == Resolved(item.symbol) IN
              /\ WirePrice(item.price, m.priceDecimals).ok /\ OrderSize(item, m).ok
              /\ Trigger(item, m).ok /\ WireOrder(item, m) \in OrderInfos
              /\ orderWire(item).value = [type |-> "CreateOrder", order |-> WireOrder(item, m),
                                          head |-> NoHead, attributes |-> NoAttributes]
<1> DEFINE m == Resolved(item.symbol)
<1>1. /\ Known(item.symbol) /\ ExpiryFits(item)
      /\ WirePrice(item.price, m.priceDecimals).ok /\ OrderSize(item, m).ok /\ Trigger(item, m).ok
      /\ orderWire(item).value = [type |-> "CreateOrder", order |-> WireOrder(item, m),
                                  head |-> NoHead, attributes |-> NoAttributes]
  BY DEF orderWire, Ok, Fails
<1>2. m.id \in Int /\ m.priceDecimals \in Int /\ m.sizeDecimals \in Int
  BY <1>1, ResolvedIsListed
<1>3. /\ item.price \in Int /\ item.size \in Int /\ item.trigger \in Int /\ item.expiry \in Int
      /\ item.client \in Int /\ item.type \in Int /\ item.tif \in Int
  BY DEF OrderRequests
<1>4. MaxWirePrice \in Int /\ MaxWireSize \in Int
  BY WidthsAssumption
<1> HIDE DEF m
<1>5. WirePrice(item.price, m.priceDecimals).value \in Int
  BY <1>2, <1>3, <1>4, ToWireIsExact DEF WirePrice
<1>6. OrderSize(item, m).value \in Int
  BY <1>2, <1>3, <1>4, ToWireIsExact DEF WireSize, OrderSize, Ok
<1>7. Trigger(item, m).value \in Int
  BY <1>2, <1>3, <1>4, ToWireIsExact DEF WirePrice, Trigger, Ok
<1>8. ExpiryOf(item) \in Int
  BY <1>3, PeriodsAssumption DEF ExpiryOf
<1>9. WireOrder(item, m) \in OrderInfos
  BY <1>2, <1>3, <1>5, <1>6, <1>7, <1>8 DEF WireOrder, OrderInfos, boolByte
<1> QED
  BY <1>1, <1>9 DEF m

LEMMA OrderWireShape ==
  ASSUME NEW item \in OrderRequests, orderWire(item).ok
  PROVE  orderWire(item).value.type = "CreateOrder" /\ orderWire(item).value.attributes = NoAttributes
<1> DEFINE o == WireOrder(item, Resolved(item.symbol))
<1>1. orderWire(item).value = [type |-> "CreateOrder", order |-> o, head |-> NoHead,
                               attributes |-> NoAttributes]
  BY OrderWireTyped
<1> HIDE DEF o
<1> QED
  BY <1>1

LEMMA EmptyHeadTyped == NoHead \in Heads /\ NoAttributes \in AttributeSets
  BY DEF NoHead, Heads, NoAttributes, AttributeSets

LEMMA TransactionTyped ==
  ASSUME NEW r, IsCall(r), NEW item \in ItemsOf(r.do), Transaction(r, item).ok
  PROVE  Transaction(r, item).value \in L2Txs
<1> DEFINE t == Transaction(r, item).value
<1>1. CASE r.do \in {"CreateOrder", "CreateBatchOrders", "ClosePosition"}
  <2>1. item \in OrderRequests /\ Transaction(r, item) = orderWire(item)
    BY <1>1 DEF ItemsOf, Transaction
  <2>2. /\ WireOrder(item, Resolved(item.symbol)) \in OrderInfos
        /\ t = [type |-> "CreateOrder", order |-> WireOrder(item, Resolved(item.symbol)),
                head |-> NoHead, attributes |-> NoAttributes]
    BY <2>1, OrderWireTyped
  <2> HIDE DEF t
  <2>3. t \in [type : {"CreateOrder"}, head : Heads, attributes : AttributeSets, order : OrderInfos]
    BY <2>2, EmptyHeadTyped
  <2> QED BY <2>3 DEF L2Txs, t
<1>2. CASE r.do \in {"ModifyOrder", "ModifyBatchOrders"}
  <2> DEFINE m == Resolved(item.symbol)
  <2>1. item \in ModifyRequests /\ Transaction(r, item) = modifyWire(item)
    BY <1>2 DEF ItemsOf, Transaction
  <2>2. /\ Known(item.symbol)
        /\ t = [type |-> "ModifyOrder", market |-> m.id, index |-> item.index,
                base |-> ModifiedSize(item, m).value, price |-> WirePrice(item.price, m.priceDecimals).value,
                trigger |-> Trigger(item, m).value,
                head |-> NoHead, attributes |-> [NoAttributes EXCEPT !.version = item.version]]
    BY <2>1 DEF modifyWire, Ok, Fails
  <2>3. m.id \in Int /\ m.priceDecimals \in Int /\ m.sizeDecimals \in Int
    BY <2>2, ResolvedIsListed
  <2>4. /\ item.price \in Int /\ item.size \in Int /\ item.trigger \in Int /\ item.index \in Int
        /\ item.version \in Int
    BY <2>1 DEF ModifyRequests
  <2>5. MaxWirePrice \in Int /\ MaxWireSize \in Int
    BY WidthsAssumption
  <2> HIDE DEF m, t
  <2>6. /\ WirePrice(item.price, m.priceDecimals).value \in Int /\ Trigger(item, m).value \in Int
        /\ ModifiedSize(item, m).value \in Int
    BY <2>3, <2>4, <2>5, ToWireIsExact DEF WirePrice, WireSize, Trigger, ModifiedSize, Ok
  <2>7. [NoAttributes EXCEPT !.version = item.version] \in AttributeSets
    BY <2>4, EmptyHeadTyped DEF AttributeSets
  <2>8. t \in [type : {"ModifyOrder"}, head : Heads, attributes : AttributeSets,
               market : Int, index : Int, base : Int, price : Int, trigger : Int]
    BY <2>2, <2>3, <2>4, <2>6, <2>7, EmptyHeadTyped
  <2> QED BY <2>8 DEF L2Txs, t
<1>3. CASE r.do \in {"CancelOrder", "CancelBatchOrders", "CancelForgottenOrders"}
  <2>1. item \in CancelRequests /\ Transaction(r, item) = cancelWire(item)
    BY <1>3 DEF ItemsOf, Transaction
  <2>2. /\ Known(item.symbol)
        /\ t = [type |-> "CancelOrder", market |-> Resolved(item.symbol).id, index |-> item.index,
                head |-> NoHead, attributes |-> NoAttributes]
    BY <2>1 DEF cancelWire, Ok, Fails
  <2>3. Resolved(item.symbol).id \in Int /\ item.index \in Int
    BY <2>1, <2>2, ResolvedIsListed DEF CancelRequests
  <2> HIDE DEF t
  <2>4. t \in [type : {"CancelOrder"}, head : Heads, attributes : AttributeSets, market : Int, index : Int]
    BY <2>2, <2>3, EmptyHeadTyped
  <2> QED BY <2>4 DEF L2Txs, t
<1>4. CASE r.do = "CancelAllOrders"
  <2>1. item \in CancelAllRequests /\ Transaction(r, item) = CancelAllOrders(item)
    BY <1>4 DEF ItemsOf, Transaction
  <2>2. CancelAllOrders(item).ok
    BY <2>1
  <2>7. t = CancelAll(item, Scope(item.symbol)) /\ (item.symbol # "" => Known(item.symbol))
    <3> HIDE DEF t
    <3>1. CancelAllOrders(item) \in {Fails, Ok(CancelAll(item, Scope(item.symbol)))}
      BY Zenon DEF CancelAllOrders
    <3>2. CancelAllOrders(item) # Fails
      BY <2>2 DEF Fails
    <3>3. item.symbol # "" => Known(item.symbol)
      BY <3>2, Zenon DEF CancelAllOrders
    <3>4. CancelAllOrders(item).value = CancelAll(item, Scope(item.symbol))
      BY <3>1, <3>2 DEF Ok
    <3> QED BY <2>1, <3>3, <3>4 DEF t
  <2>3. item.symbol # "" => Resolved(item.symbol).id \in Int
    BY <2>7, ResolvedIsListed
  <2>4. Scope(item.symbol) \in AttributeSets
    BY <2>3, EmptyHeadTyped DEF Scope, AttributeSets
  <2>5. item.tif \in Int /\ item.time \in Int
    BY <2>1 DEF CancelAllRequests
  <2> HIDE DEF t
  <2>6. t \in [type : {"CancelAllOrders"}, head : Heads, attributes : AttributeSets, tif : Int, time : Int]
    BY <2>7, <2>4, <2>5, EmptyHeadTyped DEF CancelAll
  <2> QED BY <2>6 DEF L2Txs, t
<1>5. CASE r.do = "UpdateLeverage"
  <2>1. item \in LeverageRequests /\ Transaction(r, item) = UpdateLeverage(item)
    BY <1>5 DEF ItemsOf, Transaction
  <2>2. /\ Known(item.symbol) /\ item.leverage >= 1
        /\ t = [type |-> "UpdateLeverage", market |-> Resolved(item.symbol).id,
                fraction |-> Fraction(item.leverage), mode |-> item.mode, head |-> NoHead,
                attributes |-> NoAttributes]
    BY <2>1 DEF UpdateLeverage, Ok, Fails
  <2>3. Resolved(item.symbol).id \in Int /\ item.leverage \in Nat \ {0} /\ item.mode \in Int
    BY <2>1, <2>2, ResolvedIsListed DEF LeverageRequests
  <2>4. Fraction(item.leverage) \in Int
    <3>1. MarginFractionTick \in Int
      BY DEF MarginFractionTick
    <3> QED BY <2>3, <3>1, DivisionExact DEF Fraction
  <2> HIDE DEF t
  <2>5. t \in [type : {"UpdateLeverage"}, head : Heads, attributes : AttributeSets,
               market : Int, fraction : Int, mode : Int]
    BY <2>2, <2>3, <2>4, EmptyHeadTyped
  <2> QED BY <2>5 DEF L2Txs, t
<1>6. CASE r.do = "UpdateMargin"
  <2> DEFINE amount == WireSize(item.usdc, USDCDecimals)
  <2>1. item \in MarginRequests /\ Transaction(r, item) = UpdateMargin(item)
    BY <1>6 DEF ItemsOf, Transaction
  <2>2. /\ Known(item.symbol)
        /\ t = [type |-> "UpdateMargin", market |-> Resolved(item.symbol).id, amount |-> amount.value,
                direction |-> boolByte(item.add), head |-> NoHead, attributes |-> NoAttributes]
    BY <2>1 DEF UpdateMargin, Ok, Fails
  <2>3. Resolved(item.symbol).id \in Int /\ item.usdc \in Int
    BY <2>1, <2>2, ResolvedIsListed DEF MarginRequests
  <2>4. amount.value \in Int
    BY <2>3, ToWireIsExact, MarketsAssumption, WidthsAssumption DEF WireSize
  <2> HIDE DEF t, amount
  <2>5. t \in [type : {"UpdateMargin"}, head : Heads, attributes : AttributeSets,
               market : Int, amount : Int, direction : Int]
    BY <2>2, <2>3, <2>4, EmptyHeadTyped DEF boolByte
  <2> QED BY <2>5 DEF L2Txs, t
<1>7. CASE r.do = "Send"
  <2>1. item \in L2Txs /\ t = item
    BY <1>7 DEF ItemsOf, Transaction, Ok
  <2> QED BY <2>1
<1> QED
  BY <1>1, <1>2, <1>3, <1>4, <1>5, <1>6, <1>7 DEF IsCall, Methods

\* fill sets the header and the skip attribute, and nothing else.
SameBody(t, u) ==
  /\ u.type = t.type /\ Fields(u) = Fields(t) /\ Elements(u) = Elements(t)
  /\ t.type = "CreateGroupedOrders" => u.orders = t.orders /\ u.grouping = t.grouping
  /\ t.type = "CreateOrder" => u.order = t.order
  /\ t.type = "CancelAllOrders" => u.tif = t.tif /\ u.time = t.time
SkipsFor(t, o, skips) == t.attributes.skipNonce \/ o.skip \/ (o.nonce = 0 /\ skips)
AttributesFor(t, o, skips) == [t.attributes EXCEPT !.skipNonce = SkipsFor(t, o, skips)]
HeadFor(i, n, o) ==
  [account |-> AccountIndex, key |-> KeyOf(o.key), nonce |-> n + i - 1,
   expiredAt |-> IF o.expiredAt # 0 THEN o.expiredAt ELSE Now + TxExpiry]
FilledFrom(u, t, i, n, o, skips) ==
  /\ SameBody(t, u) /\ u.head = HeadFor(i, n, o)
  /\ u.attributes = AttributesFor(t, o, skips) /\ u.attributes \in AttributeSets

LEMMA FillKeeps ==
  ASSUME NEW t \in L2Txs, NEW i, NEW n, NEW o \in SendOptions, NEW skips \in BOOLEAN,
         NEW u, u = fill(t, i, n, o, skips)
  PROVE  FilledFrom(u, t, i, n, o, skips)
<1> DEFINE h == HeadFor(i, n, o)
           took == SkipsFor(t, o, skips)
           a == AttributesFor(t, o, skips)
<1>1. t.attributes \in AttributeSets /\ {"attributes", "head"} \subseteq DOMAIN t
  BY DEF L2Txs
<1>2. u = [t EXCEPT !.attributes = a, !.head = h]
  BY <1>1, Zenon DEF fill, HeadFor, AttributesFor, SkipsFor
<1>3. took \in BOOLEAN
  BY <1>1 DEF AttributeSets, SendOptions, SkipsFor
<1>4. a \in AttributeSets
  <2>1. a = [t.attributes EXCEPT !.skipNonce = took]
    BY DEF AttributesFor
  <2> HIDE DEF took, a
  <2> QED BY <1>1, <1>3, <2>1 DEF AttributeSets
<1> HIDE DEF a, h
<1>5. u.attributes = a /\ u.head = h
  BY <1>1, <1>2
<1>6. \A f \in DOMAIN t \ {"attributes", "head"} : u[f] = t[f]
  BY <1>2
<1>7. u.type = t.type
  BY <1>2 DEF L2Txs
<1>8. /\ Fields(u) = Fields(t) /\ Elements(u) = Elements(t)
      /\ t.type = "CreateGroupedOrders" => u.orders = t.orders /\ u.grouping = t.grouping
      /\ t.type = "CreateOrder" => u.order = t.order
      /\ t.type = "CancelAllOrders" => u.tif = t.tif /\ u.time = t.time
  <2>1. CASE t \in [type : {"CreateOrder"}, head : Heads, attributes : AttributeSets, order : OrderInfos]
    <3>1. t.type = "CreateOrder" /\ u.order = t.order
      BY <1>2, <2>1
    <3> QED BY <1>7, <3>1 DEF Fields, Elements
  <2>2. CASE t \in [type : {"CreateGroupedOrders"}, head : Heads, attributes : AttributeSets,
                    grouping : Int, orders : Seq(OrderInfos)]
    <3>1. t.type = "CreateGroupedOrders" /\ u.orders = t.orders /\ u.grouping = t.grouping
      BY <1>2, <2>2
    <3> QED BY <1>7, <3>1 DEF Fields, Elements
  <2>3. CASE t \in [type : {"CancelOrder"}, head : Heads, attributes : AttributeSets, market : Int, index : Int]
    <3>1. t.type = "CancelOrder" /\ u.market = t.market /\ u.index = t.index
      BY <1>2, <2>3
    <3> QED BY <1>7, <3>1 DEF Fields, Elements
  <2>4. CASE t \in [type : {"ModifyOrder"}, head : Heads, attributes : AttributeSets,
                    market : Int, index : Int, base : Int, price : Int, trigger : Int]
    <3>1. /\ t.type = "ModifyOrder" /\ u.market = t.market /\ u.index = t.index
          /\ u.base = t.base /\ u.price = t.price /\ u.trigger = t.trigger
      BY <1>2, <2>4
    <3> QED BY <1>7, <3>1 DEF Fields, Elements
  <2>5. CASE t \in [type : {"CancelAllOrders"}, head : Heads, attributes : AttributeSets, tif : Int, time : Int]
    <3>1. t.type = "CancelAllOrders" /\ u.tif = t.tif /\ u.time = t.time
      BY <1>2, <2>5
    <3> QED BY <1>7, <3>1 DEF Fields, Elements
  <2>6. CASE t \in [type : {"UpdateLeverage"}, head : Heads, attributes : AttributeSets,
                    market : Int, fraction : Int, mode : Int]
    <3>1. /\ t.type = "UpdateLeverage" /\ u.market = t.market /\ u.fraction = t.fraction
          /\ u.mode = t.mode
      BY <1>2, <2>6
    <3> QED BY <1>7, <3>1 DEF Fields, Elements
  <2>7. CASE t \in [type : {"UpdateMargin"}, head : Heads, attributes : AttributeSets,
                    market : Int, amount : Int, direction : Int]
    <3>1. /\ t.type = "UpdateMargin" /\ u.market = t.market /\ u.amount = t.amount
          /\ u.direction = t.direction
      BY <1>2, <2>7
    <3> QED BY <1>7, <3>1 DEF Fields, Elements
  <2> QED BY <2>1, <2>2, <2>3, <2>4, <2>5, <2>6, <2>7 DEF L2Txs
<1> QED
  BY <1>4, <1>5, <1>7, <1>8 DEF a, h, SameBody, FilledFrom

\* Each transaction on the wire is its item's, filled, valid and signed.
LEMMA WiresOfItems ==
  ASSUME SentInv, wire # <<>>
  PROVE  /\ IsCall(req) /\ Items(req) \in Seq(ItemsOf(req.do)) /\ Len(wire) = Len(Items(req))
         /\ nonce \in Int /\ laneSkips \in BOOLEAN /\ req.options \in SendOptions
         /\ \A i \in 1..Len(wire) :
              LET t == Transaction(req, Items(req)[i])
                  u == fill(t.value, i, nonce, req.options, laneSkips) IN
              /\ t.ok /\ t.value \in L2Txs /\ Validate(u)
              /\ wire[i] = Signed(u)
<1>1. IsCall(req) /\ Sent /\ laneSkips \in BOOLEAN
  BY DEF SentInv
<1>2. Items(req) \in Seq(ItemsOf(req.do)) /\ req.options \in SendOptions
  BY <1>1, ItemsTyped DEF IsCall, IsRequest
<1>3. nonce \in Int
  <2>1. nonce \in {req.options.nonce} \cup Nonces
    BY <1>1 DEF Sent
  <2>2. req.options.nonce \in Int
    BY <1>2 DEF SendOptions
  <2>3. Nonces \subseteq Int
    BY RequestsAssumption
  <2> QED BY <2>1, <2>2, <2>3
<1> DEFINE n == Len(Items(req))
           built == [i \in 1..n |-> Transaction(req, Items(req)[i])]
           b == Build(req).value
<1>4. n \in Nat /\ \A i \in 1..n : Items(req)[i] \in ItemsOf(req.do)
  BY <1>2
<1>5. built \in Seq({built[i] : i \in 1..n}) /\ Len(built) = n /\ \A i \in 1..n : built[i] = Transaction(req, Items(req)[i])
  <2> HIDE DEF n
  <2> QED BY <1>4
<1>6. Build(req) = IF built = <<>> \/ \E i \in 1..Len(built) : ~built[i].ok THEN Fails
                   ELSE Ok([i \in 1..Len(built) |-> built[i].value])
  BY DEF Build
<1>7. b = [i \in 1..n |-> built[i].value] /\ \A i \in 1..n : built[i].ok
  <2>1. Build(req).ok
    BY <1>1 DEF Sent, Refused
  <2> HIDE DEF built
  <2> QED BY <1>5, <1>6, <2>1 DEF Ok, Fails
<1>8. Len(wire) = n /\ \A i \in 1..n : /\ wire[i] = Signed(fill(b[i], i, nonce, req.options, laneSkips))
                                      /\ Validate(fill(b[i], i, nonce, req.options, laneSkips))
  <2>1. txs = [i \in 1..Len(b) |-> fill(b[i], i, nonce, req.options, laneSkips)]
    BY <1>1 DEF Sent, Filled, b
  <2>2. wire = [i \in 1..Len(txs) |-> Signed(txs[i])] /\ \A i \in 1..Len(txs) : Validate(txs[i])
    BY <1>1 DEF Sent
  <2>3. Len(b) = n
    BY <1>4, <1>7
  <2> HIDE DEF b, n
  <2>4. Len(txs) = n /\ \A i \in 1..n : txs[i] = fill(b[i], i, nonce, req.options, laneSkips)
    BY <1>4, <2>1, <2>3
  <2> QED BY <1>4, <2>2, <2>4
<1> HIDE DEF n, built, b
<1>9. ASSUME NEW i \in 1..n
      PROVE  LET t == Transaction(req, Items(req)[i])
                 u == fill(t.value, i, nonce, req.options, laneSkips) IN
             t.ok /\ t.value \in L2Txs /\ Validate(u) /\ wire[i] = Signed(u)
  <2>1. built[i] = Transaction(req, Items(req)[i]) /\ built[i].ok /\ b[i] = built[i].value
    BY <1>5, <1>7
  <2>2. Items(req)[i] \in ItemsOf(req.do)
    BY <1>4
  <2>3. built[i].value \in L2Txs
    BY <1>1, <2>1, <2>2, TransactionTyped
  <2> QED BY <1>8, <2>1, <2>3
<1> QED
  BY <1>1, <1>2, <1>3, <1>8, <1>9 DEF n

\* The clean-up cancels the forgotten orders and no others: an order that was
\* modified late counts by its creation, and two of them are not confused.
THEOREM CancelsForgotten == Spec => []CancelsTheForgotten
<1>1. SentInv => CancelsTheForgotten
  <2> SUFFICES ASSUME SentInv, req.do = "CancelForgottenOrders", wire # <<>>, NEW o \in ToSet(req.open)
               PROVE  (\E i \in 1..Len(wire) :
                         wire[i].info.body = [MarketIndex |-> o.market, Index |-> o.index])
                        <=> KnownID(o.market) /\ Created(o) <= req.deadline
    BY DEF CancelsTheForgotten, Created
  <2>1. IsCall(req) /\ Len(wire) = Len(Items(req)) /\ Len(wire) \in Nat
    BY WiresOfItems
  <2>2. \A p \in ToSet(req.open) : o.market = p.market /\ o.index = p.index => o = p
    BY <2>1 DEF IsCall, IsRequest
  <2>3. ASSUME NEW p, KnownID(p.market), NEW i \in 1..Len(wire),
               Items(req)[i] = CancelOf(p)
        PROVE  wire[i].info.body = [MarketIndex |-> p.market, Index |-> p.index]
    <3> DEFINE item == Items(req)[i]
               t == Transaction(req, item)
               u == fill(t.value, i, nonce, req.options, laneSkips)
    <3>1. t.ok /\ t.value \in L2Txs /\ wire[i] = Signed(u)
      BY WiresOfItems
    <3>2. t = cancelWire(item) /\ item.index = p.index /\ item.symbol = MarketByID(p.market).symbol
      BY <2>3 DEF Transaction, CancelOf
    <3>3. Resolved(MarketByID(p.market).symbol).id = p.market
      BY <2>3, MarketByIDIsListed
    <3> HIDE DEF t, item
    <3>4. t.value.type = "CancelOrder" /\ t.value.market = p.market /\ t.value.index = p.index
      BY <3>1, <3>2, <3>3 DEF cancelWire, Ok, Fails
    <3>5. Fields(t.value) = [MarketIndex |-> p.market, Index |-> p.index]
      BY <3>4 DEF Fields
    <3>6. Fields(u) = Fields(t.value)
      <4>1. i \in Nat /\ nonce \in Int /\ laneSkips \in BOOLEAN /\ req.options \in SendOptions
        BY <2>1, WiresOfItems
      <4> HIDE DEF u
      <4>2. u = fill(t.value, i, nonce, req.options, laneSkips)
        BY DEF u
      <4> HIDE DEF u
      <4>3. FilledFrom(u, t.value, i, nonce, req.options, laneSkips)
        BY <3>1, <4>1, <4>2, FillKeeps, Zenon
      <4> QED BY <4>3 DEF FilledFrom, SameBody
    <3>7. wire[i].info.body = Fields(u)
      BY <3>1 DEF Signed, AppendInfo
    <3> QED BY <3>5, <3>6, <3>7
  <2>4. ASSUME NEW i \in 1..Len(wire), wire[i].info.body = [MarketIndex |-> o.market, Index |-> o.index]
        PROVE  KnownID(o.market) /\ Created(o) <= req.deadline
    <3>1. PICK p \in ToSet(req.open) :
            /\ Created(p) <= req.deadline /\ KnownID(p.market)
            /\ Items(req)[i] = CancelOf(p)
      <4>1. i \in 1..Len(Items(req))
        BY <2>1
      <4>2. \A k \in 1..Len(Items(req)) : \E p \in ToSet(req.open) :
              /\ Created(p) <= req.deadline /\ KnownID(p.market)
              /\ Items(req)[k] = CancelOf(p)
        BY <2>1, CancelsAreOfStale
      <4> QED BY <4>1, <4>2
    <3>2. wire[i].info.body = [MarketIndex |-> p.market, Index |-> p.index]
      BY <2>3, <3>1
    <3>3. o.market = p.market /\ o.index = p.index
      BY <2>4, <3>2
    <3> QED BY <2>2, <3>1, <3>3
  <2>5. ASSUME KnownID(o.market), Created(o) <= req.deadline
        PROVE  \E i \in 1..Len(wire) : wire[i].info.body = [MarketIndex |-> o.market, Index |-> o.index]
    <3>1. PICK i \in 1..Len(Items(req)) :
            Items(req)[i] = CancelOf(o)
      BY <2>1, <2>5, CancelsAreOfStale
    <3> QED BY <2>1, <2>3, <2>5, <3>1
  <2> QED BY <2>4, <2>5
<1> QED
  BY <1>1, SentAlways, PTL

TimeFits(t) == \/ t.tif \in {CancelNow, CancelAbort} /\ t.time = 0
               \/ t.tif = CancelScheduled /\ t.time >= 1
\* The transaction of the i-th item, and what is on the wire of it.
Source(i) == Transaction(req, Items(req)[i]).value
Attributed(i) == AttributesFor(Source(i), req.options, laneSkips)
OnWire(i) ==
  /\ Transaction(req, Items(req)[i]).ok /\ Source(i) \in L2Txs /\ Items(req)[i] \in ItemsOf(req.do)
  /\ wire[i].type = Source(i).type /\ wire[i].info.body = Fields(Source(i))
  /\ wire[i].info.AccountIndex = AccountIndex /\ wire[i].info.ApiKeyIndex = KeyOf(req.options.key)
  /\ wire[i].info.Nonce = nonce + i - 1
  /\ wire[i].info.L2TxAttributes = collect(Attributed(i)) /\ Attributed(i) \in AttributeSets
  /\ AttributesValid(Attributed(i))
  /\ wire[i].info.Sig.prefix = <<ChainID, TxType[wire[i].type], wire[i].info.Nonce, wire[i].info.ExpiredAt,
                                 wire[i].info.AccountIndex, wire[i].info.ApiKeyIndex>>
  /\ wire[i].info.Sig.elements = Elements(Source(i))
  /\ wire[i].info.Sig.attributes = aggregate(Attributed(i))
  /\ Source(i).type = "CreateGroupedOrders" => GroupValid(Source(i).grouping, Source(i).orders)
  /\ Source(i).type = "CreateOrder" => OrderValid(Source(i).order)
  /\ Source(i).type = "CancelAllOrders" => TimeFits(Source(i))

LEMMA WireIsOfSource ==
  ASSUME SentInv, wire # <<>>, NEW i \in 1..Len(wire)
  PROVE  OnWire(i)
<1> DEFINE t == Source(i)
           u == fill(t, i, nonce, req.options, laneSkips)
<1>1. /\ Transaction(req, Items(req)[i]).ok /\ t \in L2Txs /\ Validate(u) /\ wire[i] = Signed(u)
      /\ req.options \in SendOptions /\ laneSkips \in BOOLEAN
  BY WiresOfItems DEF Source
<1>2. Items(req)[i] \in ItemsOf(req.do)
  <2>1. Items(req) \in Seq(ItemsOf(req.do)) /\ i \in 1..Len(Items(req))
    BY WiresOfItems
  <2> QED BY <2>1
<1> HIDE DEF t
<1>3. PICK v : v = fill(t, i, nonce, req.options, laneSkips)
  OBVIOUS
<1>4. /\ SameBody(t, v) /\ v.head = HeadFor(i, nonce, req.options)
      /\ v.attributes = AttributesFor(t, req.options, laneSkips) /\ v.attributes \in AttributeSets
  <2>1. t \in L2Txs /\ req.options \in SendOptions /\ laneSkips \in BOOLEAN
    BY <1>1
  <2>2. FilledFrom(v, t, i, nonce, req.options, laneSkips)
    BY <2>1, <1>3, FillKeeps, Zenon
  <2> QED BY <2>2 DEF FilledFrom
<1>5. v.attributes = Attributed(i)
  BY <1>4 DEF Attributed, t
<1>6. Validate(v) /\ wire[i] = Signed(v)
  BY <1>1, <1>3
<1> HIDE DEF u
<1>7. /\ wire[i].type = v.type /\ wire[i].info = AppendInfo(v, Hash(v))
      /\ wire[i].info.Sig = Hash(v)
  BY <1>6 DEF Signed, AppendInfo
<1>8. /\ wire[i].info.body = Fields(v) /\ wire[i].info.AccountIndex = v.head.account
      /\ wire[i].info.ApiKeyIndex = v.head.key /\ wire[i].info.Nonce = v.head.nonce
      /\ wire[i].info.ExpiredAt = v.head.expiredAt /\ wire[i].info.L2TxAttributes = collect(v.attributes)
  BY <1>7 DEF AppendInfo
<1>9. /\ wire[i].info.Sig.elements = Elements(v) /\ wire[i].info.Sig.attributes = aggregate(v.attributes)
      /\ wire[i].info.Sig.prefix = <<ChainID, TxType[wire[i].type], wire[i].info.Nonce,
           wire[i].info.ExpiredAt, wire[i].info.AccountIndex, wire[i].info.ApiKeyIndex>>
  <2>1. Hash(v).elements = Elements(v) /\ Hash(v).attributes = aggregate(v.attributes)
    BY DEF Hash
  <2>2. Hash(v).prefix = <<ChainID, TxType[v.type], v.head.nonce, v.head.expiredAt, v.head.account, v.head.key>>
    BY DEF Hash
  <2> QED BY <1>7, <1>8, <2>1, <2>2
<1>10. /\ v.head.account = AccountIndex /\ v.head.key = KeyOf(req.options.key)
       /\ v.head.nonce = nonce + i - 1
  BY <1>4 DEF HeadFor
<1>11. AttributesValid(v.attributes)
  BY <1>6 DEF Validate, HeadValid
<1>12. t.type = "CreateGroupedOrders" => GroupValid(t.grouping, t.orders)
  BY <1>4, <1>6 DEF Validate, SameBody
<1>13. t.type = "CreateOrder" => OrderValid(t.order)
  BY <1>4, <1>6 DEF Validate, SameBody
<1>15. t.type = "CancelAllOrders" => TimeFits(t)
  BY <1>4, <1>6 DEF Validate, CancelAllValid, TimeFits, SameBody
<1>14. v.type = t.type /\ Fields(v) = Fields(t) /\ Elements(v) = Elements(t)
  BY <1>4 DEF SameBody
<1> QED
  BY <1>1, <1>2, <1>4, <1>5, <1>7, <1>8, <1>9, <1>10, <1>11, <1>12, <1>13, <1>14, <1>15 DEF OnWire, t

\* The orders of a group that Validate lets pass.
LEMMA GroupReduces ==
  ASSUME NEW g, NEW os \in Seq(OrderInfos), GroupValid(g, os)
  PROVE  LET parents == {k \in 1..Len(os) : os[k].trigger = 0}
             children == (1..Len(os)) \ parents IN
         /\ parents \subseteq {1} /\ children # {}
         /\ \A k \in children : os[k].reduceOnly = 1 /\ os[k].expiry # 0
         /\ \A k \in children, p \in parents : os[k].ask # os[p].ask /\ os[k].base = 0
         /\ \A j \in children, k \in children : j # k =>
              /\ os[j].ask = os[k].ask /\ os[j].base = os[k].base
              /\ os[j].expiry = os[k].expiry /\ (os[j].type \in Stops <=> os[k].type \in Profits)
         /\ \A j, k \in 1..Len(os) : j # k => os[j].client # os[k].client \/ os[j].client = 0
<1> DEFINE parents == {k \in 1..Len(os) : os[k].trigger = 0}
           children == (1..Len(os)) \ parents
<1>1. GroupRangesValid(os) /\ (OCOValid(os) \/ OTOValid(os) \/ OTOCOValid(os))
  BY DEF GroupValid
<1>2. /\ \A i \in 1..Len(os) : RangesValid(os[i])
      /\ \A j, k \in 1..Len(os) : j # k => os[j].client # os[k].client \/ os[j].client = 0
  BY <1>1 DEF GroupRangesValid
<1>3. \A i \in 1..Len(os) : /\ os[i] \in OrderInfos /\ os[i].ask \in {0, 1}
                            /\ os[i].base = 0 => os[i].reduceOnly = 1
  BY <1>2 DEF RangesValid
<1>4. CASE OCOValid(os)
  <2>1. Len(os) = 2 /\ 1 \in 1..Len(os) /\ 2 \in 1..Len(os)
    BY <1>4 DEF OCOValid
  <2>2. /\ os[1].trigger # 0 /\ os[2].trigger # 0 /\ os[1].expiry # 0 /\ os[2].expiry # 0
        /\ os[1].type \in Stops <=> os[2].type \in Profits
        /\ os[2].type \in Stops <=> os[1].type \in Profits
    BY <1>4 DEF OCOValid, Siblings, ChildTypeValid, Stops, Profits, StopLoss, StopLossLimit, TakeProfit, TakeProfitLimit
  <2>3. parents = {} /\ children = {1, 2}
    BY <2>1, <2>2
  <2> HIDE DEF parents, children
  <2> QED BY <1>2, <1>3, <1>4, <2>1, <2>2, <2>3 DEF OCOValid, parents, children
<1>5. CASE OTOValid(os)
  <2>1. Len(os) = 2 /\ 1 \in 1..Len(os) /\ 2 \in 1..Len(os)
    BY <1>5 DEF OTOValid
  <2>2. os[1].trigger = 0 /\ os[2].trigger # 0 /\ os[2].expiry # 0
    BY <1>5 DEF OTOValid, ParentTypeValid, ChildTypeValid
  <2>3. os[2].base = 0 /\ os[2].ask # os[1].ask
    BY <1>5, <2>1 DEF OTOValid, Triggers
  <2>4. parents = {1} /\ children = {2}
    BY <2>1, <2>2
  <2> HIDE DEF parents, children
  <2> QED BY <1>2, <1>3, <2>1, <2>2, <2>3, <2>4 DEF parents, children
<1>6. CASE OTOCOValid(os)
  <2>1. Len(os) = 3 /\ 1 \in 1..Len(os) /\ 2 \in 1..Len(os) /\ 3 \in 1..Len(os)
    BY <1>6 DEF OTOCOValid
  <2>2. /\ os[1].trigger = 0 /\ os[2].trigger # 0 /\ os[3].trigger # 0
        /\ os[2].expiry # 0 /\ os[3].expiry # 0 /\ os[2].expiry = os[3].expiry
    BY <1>6 DEF OTOCOValid, ParentTypeValid, ChildTypeValid, Siblings
  <2>3. /\ os[2].type \in Stops <=> os[3].type \in Profits
        /\ os[3].type \in Stops <=> os[2].type \in Profits
    BY <1>6 DEF OTOCOValid, Siblings, ChildTypeValid, Stops, Profits, StopLoss, StopLossLimit, TakeProfit, TakeProfitLimit
  <2>4. /\ os[2].base = 0 /\ os[2].ask # os[1].ask
        /\ os[3].base = 0 /\ os[3].ask # os[1].ask /\ os[2].ask = os[3].ask
    BY <1>3, <1>6, <2>1 DEF OTOCOValid, Triggers
  <2>5. parents = {1} /\ children = {2, 3}
    <3>1. \A k : k \in 1..Len(os) <=> k = 1 \/ k = 2 \/ k = 3
      BY <2>1
    <3> QED BY <2>2, <3>1, Zenon
  <2> HIDE DEF parents, children
  <2> QED BY <1>2, <1>3, <2>1, <2>2, <2>3, <2>4, <2>5 DEF parents, children
<1> QED
  BY <1>1, <1>4, <1>5, <1>6

\* GroupOnlyReduces, of the orders of one group.
Reduces(os, parents, children) ==
  /\ parents \subseteq {1} /\ children # {}
  /\ \A k \in children : os[k].ReduceOnly = 1 /\ os[k].OrderExpiry # 0
  /\ \A k \in children, p \in parents : os[k].IsAsk # os[p].IsAsk /\ os[k].BaseAmount = 0
  /\ \A j \in children, k \in children : j # k =>
       /\ os[j].IsAsk = os[k].IsAsk /\ os[j].BaseAmount = os[k].BaseAmount
       /\ os[j].OrderExpiry = os[k].OrderExpiry
       /\ (os[j].Type \in Stops <=> os[k].Type \in Profits)
  /\ \A j, k \in 1..Len(os) : j # k => os[j].ClientOrderIndex # os[k].ClientOrderIndex
                                         \/ os[j].ClientOrderIndex = 0

\* The groups that reach the exchange only reduce a position: one order at
\* most waits for nothing, and those that wait for it are on its other side.
THEOREM GroupsReduce == Spec => []GroupOnlyReduces
<1>1. SentInv => GroupOnlyReduces
  <2> SUFFICES ASSUME SentInv, NEW i \in 1..Len(wire), wire[i].type = "CreateGroupedOrders"
               PROVE  LET os == wire[i].info.body.Orders
                          parents == {k \in 1..Len(os) : os[k].TriggerPrice = 0}
                          children == (1..Len(os)) \ parents IN Reduces(os, parents, children)
    BY Zenon DEF GroupOnlyReduces, Reduces
  <2> DEFINE ts == Source(i).orders
             os == wire[i].info.body.Orders
  <2>1. wire # <<>>
    OBVIOUS
  <2>2. OnWire(i)
    BY <2>1, WireIsOfSource
  <2>3. /\ Source(i) \in L2Txs /\ Source(i).type = "CreateGroupedOrders"
        /\ GroupValid(Source(i).grouping, ts) /\ wire[i].info.body = Fields(Source(i))
    BY <2>2 DEF OnWire
  <2>4. ts \in Seq(OrderInfos)
    BY <2>3 DEF L2Txs
  <2>5. os = [k \in 1..Len(ts) |-> OrderFields(ts[k])]
    BY <2>3 DEF Fields
  <2> HIDE DEF ts, os
  <2>6. Len(os) = Len(ts) /\ \A k \in 1..Len(os) :
          /\ os[k].TriggerPrice = ts[k].trigger /\ os[k].ReduceOnly = ts[k].reduceOnly
          /\ os[k].OrderExpiry = ts[k].expiry /\ os[k].IsAsk = ts[k].ask
          /\ os[k].BaseAmount = ts[k].base /\ os[k].Type = ts[k].type
          /\ os[k].ClientOrderIndex = ts[k].client
    BY <2>4, <2>5 DEF OrderFields
  <2> DEFINE parents == {k \in 1..Len(os) : os[k].TriggerPrice = 0}
             children == (1..Len(os)) \ parents
             firsts == {k \in 1..Len(ts) : ts[k].trigger = 0}
  <2>7. parents = firsts
    BY <2>6
  <2>8. /\ firsts \subseteq {1} /\ (1..Len(ts)) \ firsts # {}
        /\ \A k \in (1..Len(ts)) \ firsts : ts[k].reduceOnly = 1 /\ ts[k].expiry # 0
        /\ \A k \in (1..Len(ts)) \ firsts, p \in firsts : ts[k].ask # ts[p].ask /\ ts[k].base = 0
        /\ \A j \in (1..Len(ts)) \ firsts, k \in (1..Len(ts)) \ firsts : j # k =>
             /\ ts[j].ask = ts[k].ask /\ ts[j].base = ts[k].base
             /\ ts[j].expiry = ts[k].expiry /\ (ts[j].type \in Stops <=> ts[k].type \in Profits)
        /\ \A j, k \in 1..Len(ts) : j # k => ts[j].client # ts[k].client \/ ts[j].client = 0
    BY <2>3, <2>4, GroupReduces
  <2>9. children = (1..Len(ts)) \ firsts /\ parents \subseteq 1..Len(os) /\ children \subseteq 1..Len(os)
    BY <2>6, <2>7
  <2> HIDE DEF parents, children, firsts
  <2>10. parents \subseteq {1} /\ children # {}
    BY <2>7, <2>8, <2>9
  <2>11. \A k \in children : os[k].ReduceOnly = 1 /\ os[k].OrderExpiry # 0
    BY <2>6, <2>8, <2>9
  <2>12. \A k \in children, p \in parents : os[k].IsAsk # os[p].IsAsk /\ os[k].BaseAmount = 0
    <3> SUFFICES ASSUME NEW k \in children, NEW p \in parents
                 PROVE  os[k].IsAsk # os[p].IsAsk /\ os[k].BaseAmount = 0
      OBVIOUS
    <3>1. k \in 1..Len(os) /\ p \in 1..Len(os) /\ k \in (1..Len(ts)) \ firsts /\ p \in firsts
      BY <2>7, <2>9
    <3> QED BY <2>6, <2>8, <3>1
  <2>13. \A j \in children, k \in children : j # k =>
           /\ os[j].IsAsk = os[k].IsAsk /\ os[j].BaseAmount = os[k].BaseAmount
           /\ os[j].OrderExpiry = os[k].OrderExpiry
           /\ (os[j].Type \in Stops <=> os[k].Type \in Profits)
    <3> SUFFICES ASSUME NEW j \in children, NEW k \in children, j # k
                 PROVE  /\ os[j].IsAsk = os[k].IsAsk /\ os[j].BaseAmount = os[k].BaseAmount
                        /\ os[j].OrderExpiry = os[k].OrderExpiry
                        /\ (os[j].Type \in Stops <=> os[k].Type \in Profits)
      OBVIOUS
    <3>1. /\ k \in 1..Len(os) /\ j \in 1..Len(os)
          /\ k \in (1..Len(ts)) \ firsts /\ j \in (1..Len(ts)) \ firsts
      BY <2>9
    <3>2. /\ ts[j].ask = ts[k].ask /\ ts[j].base = ts[k].base
          /\ ts[j].expiry = ts[k].expiry /\ (ts[j].type \in Stops <=> ts[k].type \in Profits)
      BY <2>8, <3>1
    <3> QED BY <2>6, <3>1, <3>2
  <2>14. \A j, k \in 1..Len(os) : j # k => os[j].ClientOrderIndex # os[k].ClientOrderIndex
                                         \/ os[j].ClientOrderIndex = 0
    BY <2>6, <2>8
  <2>15. Reduces(os, parents, children)
    BY <2>10, <2>11, <2>12, <2>13, <2>14, Zenon DEF Reduces
  <2> QED BY <2>15, Zenon DEF parents, children, os
<1> QED
  BY <1>1, SentAlways, PTL
-----------------------------------------------------------------------------
(***************************************************************************)
(* What the signature covers                                               *)
(***************************************************************************)
\* The attributes that are sent: those that are present, the market scope when
\* it was given.
LEMMA CollectedSlots ==
  ASSUME NEW a \in AttributeSets
  PROVE  /\ collect(a) \in Seq(Nat \X Int)
         /\ \A s : s \in ToSet(collect(a)) <=>
              \E j \in 1..8 : s = slots(a)[j] /\ (IF j = 5 THEN Scoped(a) ELSE slots(a)[j][2] # 0)
         /\ \A j \in 1..8 : slots(a)[j][1] = j
<1> DEFINE q == slots(a)
           kept == {s \in ToSet(q) : IF s[1] = 5 THEN Scoped(a) ELSE s[2] # 0}
<1>1. /\ a.integrator \in Int /\ a.takerFee \in Int /\ a.makerFee \in Int /\ a.skipNonce \in BOOLEAN
      /\ a.market \in Int /\ a.behavior \in Int /\ a.equality \in Int /\ a.version \in Int
  BY DEF AttributeSets
<1>2. q \in Seq(Nat \X Int) /\ Len(q) = 8
  BY <1>1 DEF slots
<1>3. \A j \in 1..8 : q[j][1] = j
  BY DEF slots
<1>4. collect(a) = Chosen(q, kept)
  BY DEF collect
<1>5. \A s : s \in kept <=> s \in ToSet(q) /\ (IF s[1] = 5 THEN Scoped(a) ELSE s[2] # 0)
  OBVIOUS
<1> HIDE DEF q, kept
<1>6. collect(a) \in Seq(Nat \X Int) /\ \A s : s \in ToSet(collect(a)) <=> s \in ToSet(q) /\ s \in kept
  BY <1>2, <1>4, ChosenIsKept
<1>7. \A s : s \in ToSet(q) <=> \E j \in 1..8 : s = q[j]
  BY <1>2 DEF ToSet
<1>8. \A s : s \in ToSet(collect(a)) <=>
        \E j \in 1..8 : s = q[j] /\ (IF j = 5 THEN Scoped(a) ELSE q[j][2] # 0)
  <2> TAKE s
  <2>1. ASSUME NEW j \in 1..8, s = q[j]
        PROVE  s \in kept <=> (IF j = 5 THEN Scoped(a) ELSE q[j][2] # 0)
    <3>1. s \in ToSet(q) /\ s[1] = j
      BY <1>3, <1>7, <2>1
    <3> QED BY <1>5, <2>1, <3>1
  <2> QED BY <1>6, <1>7, <2>1
<1> QED
  BY <1>3, <1>6, <1>8 DEF q

\* The digests of two orders, and of three.
LEMMA FoldOfFew ==
  ASSUME NEW b, NEW n \in {1, 2}, NEW q, DOMAIN q = 1..n
  PROVE  FoldLeft(LAMBDA agg, o : <<agg, OrderElements(o)>>, b, q) =
           IF n = 1 THEN <<b, OrderElements(q[1])>>
           ELSE <<<<b, OrderElements(q[1])>>, OrderElements(q[2])>>
<1> DEFINE e(k) == OrderElements(q[k])
           Taken(f, s) == IF s = {} THEN b ELSE <<f[s \ {Max(s)}], OrderElements(q[Max(s)])>>
           IsFold(f) == f = [s \in SUBSET (1..n) |-> Taken(f, s)]
           fold == CHOOSE f : IsFold(f)
           one(s) == IF 1 \in s THEN <<b, e(1)>> ELSE b
           two(s) == IF 2 \in s THEN <<one(s), e(2)>> ELSE one(s)
           g == [s \in SUBSET (1..n) |-> two(s)]
<1>1. FoldLeft(LAMBDA agg, o : <<agg, OrderElements(o)>>, b, q) = fold[1..n]
  BY DEF FoldLeft, MapThenFoldSet
<1>2. ASSUME NEW s \in SUBSET (1..n), s # {}
      PROVE  Max(s) = IF 2 \in s THEN 2 ELSE 1
  <2>1. Max(s) \in s /\ \A y \in s : y <= Max(s)
    <3>1. n \in Nat
      OBVIOUS
    <3> QED BY <1>2, <3>1, MaxOfIndices
  <2>2. PICK m : m = Max(s)
    OBVIOUS
  <2>3. m \in s /\ (m = 1 \/ m = 2) /\ \A y \in s : y <= m
    <3>1. m \in s /\ \A y \in s : y <= m
      BY <2>1, <2>2, Zenon
    <3>2. n = 1 \/ n = 2
      OBVIOUS
    <3>3. m \in 1..n
      BY <3>1
    <3>4. m = 1 \/ m = 2
      BY <3>2, <3>3
    <3> QED BY <3>1, <3>4
  <2>4. 2 \in s => m = 2
    BY <2>3
  <2>5. 2 \notin s => m = 1
    BY <2>3
  <2> QED BY <2>2, <2>4, <2>5
<1>3. ASSUME NEW s \in SUBSET (1..n)
      PROVE  Taken(g, s) = two(s)
  <2> HIDE DEF e
  <2>0. s \subseteq {1, 2}
    OBVIOUS
  <2>1. CASE s = {}
    BY <2>1
  <2>2. CASE 2 \in s
    <3>1. Max(s) = 2 /\ s # {}
      BY <1>2, <2>2
    <3>2. s \ {2} \in SUBSET (1..n) /\ 2 \notin s \ {2} /\ (1 \in s \ {2} <=> 1 \in s)
      OBVIOUS
    <3>3. two(s \ {2}) = one(s)
      BY <3>2
    <3>4. g[s \ {2}] = one(s)
      BY <3>2, <3>3
    <3> HIDE DEF g, one
    <3> QED BY <2>2, <3>1, <3>4 DEF e
  <2>3. CASE s # {} /\ 2 \notin s
    <3>1. Max(s) = 1 /\ 1 \in s
      BY <1>2, <2>0, <2>3
    <3>2. s \ {1} \in SUBSET (1..n) /\ 2 \notin s \ {1} /\ 1 \notin s \ {1}
      BY <2>3
    <3>3. g[s \ {1}] = b
      BY <3>2
    <3> HIDE DEF g
    <3> QED BY <2>3, <3>1, <3>3 DEF e
  <2> QED BY <2>1, <2>2, <2>3
<1>4. IsFold(g)
  <2> HIDE DEF Taken, two
  <2>1. \A s \in SUBSET (1..n) : Taken(g, s) = two(s)
    BY <1>3
  <2>2. g = [s \in SUBSET (1..n) |-> two(s)]
    OBVIOUS
  <2> HIDE DEF g
  <2> QED BY <2>1, <2>2
<1>5. IsFold(fold)
  <2> HIDE DEF IsFold
  <2> QED BY <1>4
<1> HIDE DEF fold, g, two, one, e
<1>6. \A s \in SUBSET (1..n) : fold[s] = Taken(fold, s)
  BY <1>5
<1>7. fold[{}] = b /\ fold[{1}] = <<b, e(1)>>
  <2>1. {} \in SUBSET (1..n) /\ {1} \in SUBSET (1..n) /\ {1} \ {1} = {} /\ {1} # {} /\ 2 \notin {1}
    OBVIOUS
  <2>2. Max({1}) = 1
    BY <1>2, <2>1
  <2>3. fold[{}] = b
    BY <1>6, <2>1
  <2>4. fold[{1}] = <<fold[{1} \ {1}], e(1)>>
    BY <1>6, <2>1, <2>2 DEF e
  <2> QED BY <2>1, <2>3, <2>4
<1>8. n = 2 => fold[{1, 2}] = <<<<b, e(1)>>, e(2)>>
  <2> SUFFICES ASSUME n = 2 PROVE fold[{1, 2}] = <<<<b, e(1)>>, e(2)>>
    OBVIOUS
  <2>1. {1, 2} \in SUBSET (1..n) /\ {1, 2} \ {2} = {1} /\ {1, 2} # {} /\ 2 \in {1, 2}
    OBVIOUS
  <2>2. Max({1, 2}) = 2
    BY <1>2, <2>1
  <2>3. fold[{1, 2}] = <<fold[{1, 2} \ {2}], e(2)>>
    BY <1>6, <2>1, <2>2 DEF e
  <2> QED BY <1>7, <2>1, <2>3
<1>9. n = 1 => 1..n = {1}
  OBVIOUS
<1>10. n = 2 => 1..n = {1, 2}
  OBVIOUS
<1> QED
  BY <1>1, <1>7, <1>8, <1>9, <1>10 DEF e

LEMMA DigestOfGroup ==
  ASSUME NEW os \in Seq(OrderInfos), Len(os) = 2 \/ Len(os) = 3
  PROVE  \A i \in 1..Len(os) : Unfolded(GroupDigest(os), Len(os))[i] = OrderElements(os[i])
<1> DEFINE q == Tail(os)
<1>1. \E n \in {1, 2} : DOMAIN q = 1..n /\ Len(os) = n + 1
  <2>1. DOMAIN q = 1..Len(q) /\ Len(q) = Len(os) - 1
    <3>1. os # <<>>
      OBVIOUS
    <3> QED BY <3>1
  <2> HIDE DEF q
  <2>2. Len(q) \in {1, 2} /\ Len(os) = Len(q) + 1
    BY <2>1
  <2> QED BY <2>1, <2>2
<1>2. q[1] = os[2] /\ Head(os) = os[1] /\ (Len(os) = 3 => q[2] = os[3])
  OBVIOUS
<1> HIDE DEF q
<1>3. PICK n \in {1, 2} : DOMAIN q = 1..n /\ Len(os) = n + 1
  BY <1>1
<1>4. GroupDigest(os) = FoldLeft(LAMBDA agg, o : <<agg, OrderElements(o)>>, OrderElements(Head(os)), q)
  BY DEF GroupDigest, q
<1>5. GroupDigest(os) =
        IF n = 1 THEN <<OrderElements(Head(os)), OrderElements(q[1])>>
        ELSE <<<<OrderElements(Head(os)), OrderElements(q[1])>>, OrderElements(q[2])>>
  BY <1>3, <1>4, FoldOfFew
<1>6. CASE n = 1
  <2>1. GroupDigest(os) = <<OrderElements(os[1]), OrderElements(os[2])>> /\ Len(os) = 2
    BY <1>2, <1>3, <1>5, <1>6
  <2> QED BY <2>1 DEF Unfolded
<1>7. CASE n = 2
  <2>1. /\ GroupDigest(os) = <<<<OrderElements(os[1]), OrderElements(os[2])>>, OrderElements(os[3])>>
        /\ Len(os) = 3
    BY <1>2, <1>3, <1>5, <1>7
  <2> QED BY <2>1 DEF Unfolded
<1> QED
  BY <1>6, <1>7

LEMMA OrderIsCovered ==
  \A o : InOrder(OrderElements(o), HashFields["CreateOrder"], OrderFields(o))
  BY DEF InOrder, OrderElements, OrderFields, HashFields

LEMMA CoversAll ==
  ASSUME NEW t \in L2Txs,
         t.type = "CreateGroupedOrders" => Len(t.orders) = 2 \/ Len(t.orders) = 3
  PROVE  Covers(t.type, Elements(t), Fields(t))
<1>1. CASE t.type = "CreateOrder"
  <2>1. Elements(t) = OrderElements(t.order) /\ Fields(t) = OrderFields(t.order)
    BY <1>1 DEF Elements, Fields
  <2> QED BY <1>1, <2>1, OrderIsCovered DEF Covers
<1>2. CASE t.type = "CreateGroupedOrders"
  <2> DEFINE e == Elements(t)
             f == Fields(t)
  <2>1. t.orders \in Seq(OrderInfos)
    BY <1>2 DEF L2Txs
  <2>2. e = <<t.grouping, GroupDigest(t.orders)>>
    BY <1>2 DEF Elements
  <2>3. /\ f.GroupingType = t.grouping
        /\ f.Orders = [i \in 1..Len(t.orders) |-> OrderFields(t.orders[i])]
    BY <1>2 DEF Fields
  <2>4. e[1] = f.GroupingType /\ e[2] = GroupDigest(t.orders)
    BY <2>2, <2>3
  <2>5. /\ Len(f.Orders) = Len(t.orders)
        /\ \A i \in 1..Len(t.orders) : f.Orders[i] = OrderFields(t.orders[i])
    BY <2>1, <2>3
  <2>6. \A i \in 1..Len(t.orders) : Unfolded(e[2], Len(t.orders))[i] = OrderElements(t.orders[i])
    BY <1>2, <2>1, <2>4, DigestOfGroup
  <2> HIDE DEF e, f
  <2>7. ASSUME NEW i \in 1..Len(f.Orders)
        PROVE  InOrder(Unfolded(e[2], Len(f.Orders))[i], HashFields["CreateOrder"], f.Orders[i])
    <3>1. f.Orders[i] = OrderFields(t.orders[i]) /\ Unfolded(e[2], Len(f.Orders))[i] = OrderElements(t.orders[i])
      BY <2>5, <2>6
    <3> QED BY <3>1, OrderIsCovered
  <2>8. Covers("CreateGroupedOrders", e, f)
    BY <2>4, <2>7, Zenon DEF Covers
  <2> QED BY <1>2, <2>8 DEF e, f
<1>3. CASE t.type = "CancelOrder"
  BY <1>3 DEF Elements, Fields, Covers, InOrder, HashFields
<1>4. CASE t.type = "ModifyOrder"
  BY <1>4 DEF Elements, Fields, Covers, InOrder, HashFields
<1>5. CASE t.type = "CancelAllOrders"
  BY <1>5 DEF Elements, Fields, Covers, InOrder, HashFields
<1>6. CASE t.type = "UpdateLeverage"
  BY <1>6 DEF Elements, Fields, Covers, InOrder, HashFields
<1>7. CASE t.type = "UpdateMargin"
  <2>1. t.amount \in Int /\ Word \in Nat \ {0}
    BY <1>7, RangesAssumption DEF L2Txs
  <2> DEFINE low == t.amount % Word   high32 == t.amount \div Word
  <2>2. low \in 0..(Word - 1) /\ low = t.amount - Word * high32 /\ high32 \in Int
    BY <2>1, DivisionExact
  <2>3. Elements(t) = <<t.market, low, high32, t.direction>>
    BY <1>7 DEF Elements
  <2>4. Fields(t) = [MarketIndex |-> t.market, USDCAmount |-> t.amount, Direction |-> t.direction]
    BY <1>7 DEF Fields
  <2> HIDE DEF low, high32
  <2>5. low + Word * high32 = t.amount
    BY <2>1, <2>2
  <2> QED BY <1>7, <2>2, <2>3, <2>4, <2>5 DEF Covers
<1> QED
  BY <1>1, <1>2, <1>3, <1>4, <1>5, <1>6, <1>7 DEF L2Txs

\* Nothing that is sent is left out of what is signed, nor read otherwise.
THEOREM SignatureCovers == Spec => []SignatureCoversInfo
<1>1. SentInv => SignatureCoversInfo
  <2> SUFFICES ASSUME SentInv, NEW i \in 1..Len(wire)
               PROVE  LET info == wire[i].info  sig == info.Sig IN
                 /\ sig.prefix = <<ChainID, TxType[wire[i].type], info.Nonce, info.ExpiredAt,
                                   info.AccountIndex, info.ApiKeyIndex>>
                 /\ Covers(wire[i].type, sig.elements, info.body)
                 /\ Len(info.L2TxAttributes) <= Len(sig.attributes)
                 /\ \A k \in 1..Len(sig.attributes) :
                      sig.attributes[k] = IF k <= Len(info.L2TxAttributes) THEN info.L2TxAttributes[k] ELSE <<0, 0>>
                 /\ \A k \in 1..Len(info.L2TxAttributes) : info.L2TxAttributes[k][1] # 0
    BY DEF SignatureCoversInfo
  <2> DEFINE t == Source(i)  a == Attributed(i)  c == collect(a)
  <2>1. wire # <<>>
    OBVIOUS
  <2>2. OnWire(i)
    BY <2>1, WireIsOfSource
  <2>3. /\ wire[i].type = t.type /\ wire[i].info.body = Fields(t) /\ t \in L2Txs
        /\ wire[i].info.L2TxAttributes = c /\ a \in AttributeSets /\ AttributesValid(a)
        /\ wire[i].info.Sig.elements = Elements(t) /\ wire[i].info.Sig.attributes = aggregate(a)
        /\ wire[i].info.Sig.prefix = <<ChainID, TxType[wire[i].type], wire[i].info.Nonce,
             wire[i].info.ExpiredAt, wire[i].info.AccountIndex, wire[i].info.ApiKeyIndex>>
        /\ t.type = "CreateGroupedOrders" => GroupValid(t.grouping, t.orders)
    BY <2>2 DEF OnWire
  <2> HIDE DEF t, a
  <2>4. t.type = "CreateGroupedOrders" => Len(t.orders) = 2 \/ Len(t.orders) = 3
    BY <2>3 DEF GroupValid, OCOValid, OTOValid, OTOCOValid
  <2>5. Covers(t.type, Elements(t), Fields(t))
    BY <2>3, <2>4, CoversAll
  <2>6. c \in Seq(Nat \X Int) /\ (c = <<>> \/ Len(c) <= NbAttributesPerTx)
    BY <2>3, CollectedSlots DEF AttributesValid
  <2>7. \A k \in 1..Len(c) : c[k][1] # 0
    <3> SUFFICES ASSUME NEW k \in 1..Len(c) PROVE c[k][1] # 0
      OBVIOUS
    <3>1. c[k] \in ToSet(c)
      BY <2>6 DEF ToSet
    <3>2. PICK j \in 1..8 : c[k] = slots(a)[j]
      <4>1. \A s : s \in ToSet(c) <=>
              \E j \in 1..8 : s = slots(a)[j] /\ (IF j = 5 THEN Scoped(a) ELSE slots(a)[j][2] # 0)
        BY <2>3, CollectedSlots
      <4> QED BY <3>1, <4>1
    <3>3. slots(a)[j][1] = j
      BY <2>3, CollectedSlots
    <3> QED BY <3>2, <3>3
  <2>8. aggregate(a) = IF c = <<>> THEN <<>>
                       ELSE [k \in 1..NbAttributesPerTx |-> IF k <= Len(c) THEN c[k] ELSE <<0, 0>>]
    BY DEF aggregate
  <2> HIDE DEF c
  <2>9. /\ Len(c) <= Len(aggregate(a))
        /\ \A k \in 1..Len(aggregate(a)) : aggregate(a)[k] = IF k <= Len(c) THEN c[k] ELSE <<0, 0>>
    <3>1. CASE c = <<>>
      BY <2>8, <3>1
    <3>2. CASE c # <<>>
      <4>1. /\ aggregate(a) = [k \in 1..NbAttributesPerTx |-> IF k <= Len(c) THEN c[k] ELSE <<0, 0>>]
            /\ Len(c) <= NbAttributesPerTx /\ Len(c) \in Nat
        BY <2>6, <2>8, <3>2
      <4>2. Len(aggregate(a)) = NbAttributesPerTx
        BY <4>1 DEF NbAttributesPerTx
      <4> QED BY <4>1, <4>2
    <3> QED BY <3>1, <3>2
  <2> QED BY <2>3, <2>5, <2>7, <2>9
<1> QED
  BY <1>1, SentAlways, PTL
-----------------------------------------------------------------------------
(***************************************************************************)
(* What is asked is what is sent                                           *)
(***************************************************************************)
\* The attributes but the skip one, and the skip one.
LEMMA AttributesSent ==
  ASSUME NEW a \in AttributeSets
  PROVE  /\ <<4, 1>> \in ToSet(collect(a)) <=> a.skipNonce
         /\ \A s : s \in ToSet(collect(a)) /\ s[1] # 4 <=>
              \/ s = <<1, a.integrator>> /\ a.integrator # 0
              \/ s = <<2, a.takerFee>> /\ a.takerFee # 0
              \/ s = <<3, a.makerFee>> /\ a.makerFee # 0
              \/ s = <<5, a.market>> /\ Scoped(a)
              \/ s = <<6, a.behavior>> /\ a.behavior # 0
              \/ s = <<7, a.equality>> /\ a.equality # 0
              \/ s = <<8, a.version>> /\ a.version # 0
<1> DEFINE q == slots(a)
           in(s, j) == s = q[j] /\ (IF j = 5 THEN Scoped(a) ELSE q[j][2] # 0)
<1>1. /\ q[1] = <<1, a.integrator>> /\ q[2] = <<2, a.takerFee>> /\ q[3] = <<3, a.makerFee>>
      /\ q[4] = <<4, IF a.skipNonce THEN 1 ELSE 0>> /\ q[5] = <<5, a.market>>
      /\ q[6] = <<6, a.behavior>> /\ q[7] = <<7, a.equality>> /\ q[8] = <<8, a.version>>
  BY DEF slots
<1>2. \A s : s \in ToSet(collect(a)) <=> \E j \in 1..8 : in(s, j)
  BY CollectedSlots
<1> HIDE DEF q
<1>3. a.skipNonce \in BOOLEAN
  BY DEF AttributeSets
<1>4. \A s : s \in ToSet(collect(a)) <=> \/ in(s, 1) \/ in(s, 2) \/ in(s, 3) \/ in(s, 4)
                                         \/ in(s, 5) \/ in(s, 6) \/ in(s, 7) \/ in(s, 8)
  <2> HIDE DEF in
  <2>1. 1..8 = {1, 2, 3, 4, 5, 6, 7, 8}
    OBVIOUS
  <2> QED BY <1>2, <2>1
<1>5. \A s, j : in(s, j) /\ j \in 1..8 => s[1] = j
  <2>1. \A j \in 1..8 : q[j][1] = j
    BY CollectedSlots DEF q
  <2> QED BY <2>1
<1>6. <<4, 1>> \in ToSet(collect(a)) <=> in(<<4, 1>>, 4)
  <2>1. <<4, 1>>[1] = 4
    OBVIOUS
  <2> HIDE DEF in
  <2> QED BY <1>4, <1>5, <2>1
<1>7. in(<<4, 1>>, 4) <=> a.skipNonce
  BY <1>1, <1>3
<1>8. \A s : s \in ToSet(collect(a)) /\ s[1] # 4 <=>
        in(s, 1) \/ in(s, 2) \/ in(s, 3) \/ in(s, 5) \/ in(s, 6) \/ in(s, 7) \/ in(s, 8)
  <2> HIDE DEF in
  <2> QED BY <1>4, <1>5
<1>9. \A s : /\ in(s, 1) <=> s = <<1, a.integrator>> /\ a.integrator # 0
             /\ in(s, 2) <=> s = <<2, a.takerFee>> /\ a.takerFee # 0
             /\ in(s, 3) <=> s = <<3, a.makerFee>> /\ a.makerFee # 0
             /\ in(s, 5) <=> s = <<5, a.market>> /\ Scoped(a)
             /\ in(s, 6) <=> s = <<6, a.behavior>> /\ a.behavior # 0
             /\ in(s, 7) <=> s = <<7, a.equality>> /\ a.equality # 0
             /\ in(s, 8) <=> s = <<8, a.version>> /\ a.version # 0
  BY <1>1
<1> HIDE DEF in
<1> QED
  BY <1>6, <1>7, <1>8, <1>9

\* The attributes of the section's transactions, whatever the engine adds.
LEMMA PlainAttributes ==
  ASSUME NEW a \in AttributeSets, NEW took, a = [NoAttributes EXCEPT !.skipNonce = took]
  PROVE  {s \in ToSet(collect(a)) : s[1] # 4} = {}
<1>1. /\ a.integrator = 0 /\ a.takerFee = 0 /\ a.makerFee = 0 /\ ~Scoped(a) /\ a.behavior = 0
      /\ a.equality = 0 /\ a.version = 0
  BY DEF NoAttributes, Scoped
<1>2. \A s : ~(s \in ToSet(collect(a)) /\ s[1] # 4)
  BY <1>1, AttributesSent
<1> QED
  BY <1>2

LEMMA VersionAttribute ==
  ASSUME NEW a \in AttributeSets, NEW took, NEW version \in Int,
         a = [[NoAttributes EXCEPT !.version = version] EXCEPT !.skipNonce = took]
  PROVE  {s \in ToSet(collect(a)) : s[1] # 4} = IF version = 0 THEN {} ELSE {<<8, version>>}
<1>1. /\ a.integrator = 0 /\ a.takerFee = 0 /\ a.makerFee = 0 /\ ~Scoped(a) /\ a.behavior = 0
      /\ a.equality = 0 /\ a.version = version
  BY DEF NoAttributes, Scoped
<1>2. \A s : (s \in ToSet(collect(a)) /\ s[1] # 4) <=> s = <<8, version>> /\ version # 0
  BY <1>1, AttributesSent
<1> QED
  BY <1>2

LEMMA ScopeAttribute ==
  ASSUME NEW a \in AttributeSets, NEW took, NEW symbol, a = [Scope(symbol) EXCEPT !.skipNonce = took],
         symbol # "" => Known(symbol)
  PROVE  {s \in ToSet(collect(a)) : s[1] # 4} =
           IF symbol = "" THEN {} ELSE {<<5, Resolved(symbol).id>>}
<1>1. CASE symbol = ""
  <2>1. a = [NoAttributes EXCEPT !.skipNonce = took]
    BY <1>1 DEF Scope
  <2> QED BY <1>1, <2>1, PlainAttributes
<1>2. CASE symbol # ""
  <2>1. Resolved(symbol).id # NilMarketIndex
    BY <1>2, ResolvedIsListed
  <2>2. /\ a.integrator = 0 /\ a.takerFee = 0 /\ a.makerFee = 0 /\ a.behavior = 0
        /\ a.equality = 0 /\ a.version = 0 /\ a.hasMarket /\ a.market = Resolved(symbol).id
    BY <1>2 DEF NoAttributes, Scope
  <2>3. \A s : (s \in ToSet(collect(a)) /\ s[1] # 4) <=> s = <<5, Resolved(symbol).id>>
    <3>1. Scoped(a)
      BY <2>1, <2>2 DEF Scoped
    <3>2. \A s : (s \in ToSet(collect(a)) /\ s[1] # 4) <=> s = <<5, a.market>>
      BY <2>2, <3>1, AttributesSent
    <3> QED BY <2>2, <3>2
  <2> QED BY <1>2, <2>3
<1> QED
  BY <1>1, <1>2

LEMMA ZeroIsExact == \A decimals \in Int : Worth(0, decimals) = 0
<1> SUFFICES ASSUME NEW decimals \in Int PROVE Worth(0, decimals) = 0
  OBVIOUS
<1>1. TickSize(decimals) \in Nat
  BY TickIsPositive
<1> QED
  BY <1>1 DEF Worth

LEMMA PlacedAsAsked ==
  ASSUME NEW item \in OrderRequests, orderWire(item).ok, OrderValid(orderWire(item).value.order)
  PROVE  Places(item, OrderFields(orderWire(item).value.order))
<1> DEFINE m == Resolved(item.symbol)
           o == WireOrder(item, m)
           b == OrderFields(o)
<1>1. /\ Known(item.symbol) /\ ExpiryFits(item) /\ OrderValid(o) /\ o \in OrderInfos
      /\ WirePrice(item.price, m.priceDecimals).ok /\ OrderSize(item, m).ok /\ Trigger(item, m).ok
      /\ orderWire(item).value.order = o
  <2>1. /\ Known(item.symbol) /\ ExpiryFits(item) /\ o \in OrderInfos
        /\ WirePrice(item.price, m.priceDecimals).ok /\ OrderSize(item, m).ok /\ Trigger(item, m).ok
        /\ orderWire(item).value = [type |-> "CreateOrder", order |-> o,
                                    head |-> NoHead, attributes |-> NoAttributes]
    BY OrderWireTyped
  <2> HIDE DEF o, m
  <2> QED BY <2>1
<1>2. m.priceDecimals \in Int /\ m.sizeDecimals \in Int
  BY <1>1, ResolvedIsListed
<1>3. /\ item.price \in Int /\ item.size \in Int /\ item.trigger \in Int /\ item.expiry \in Int
      /\ item.type \in Nat /\ item.tif \in Nat /\ item.ask \in BOOLEAN /\ item.reduceOnly \in BOOLEAN
  BY DEF OrderRequests
<1>4. MaxWirePrice \in Int /\ MaxWireSize \in Int
  BY WidthsAssumption
<1>5. /\ o.market = m.id /\ o.client = item.client /\ o.base = OrderSize(item, m).value
      /\ o.price = WirePrice(item.price, m.priceDecimals).value /\ o.ask = boolByte(item.ask)
      /\ o.type = item.type /\ o.tif = item.tif /\ o.reduceOnly = boolByte(item.reduceOnly)
      /\ o.trigger = Trigger(item, m).value /\ o.expiry = ExpiryOf(item)
  BY DEF WireOrder
<1>6. /\ b.MarketIndex = o.market /\ b.ClientOrderIndex = o.client /\ b.BaseAmount = o.base
      /\ b.Price = o.price /\ b.IsAsk = o.ask /\ b.Type = o.type /\ b.TimeInForce = o.tif
      /\ b.ReduceOnly = o.reduceOnly /\ b.TriggerPrice = o.trigger /\ b.OrderExpiry = o.expiry
  BY DEF OrderFields
<1> HIDE DEF m, o, b
<1>7. Worth(o.price, m.priceDecimals) = item.price
  BY <1>1, <1>2, <1>3, <1>4, <1>5, ToWireIsExact DEF WirePrice
<1>8. Worth(o.base, m.sizeDecimals) = item.size /\ (item.size = 0 => o.reduceOnly = 1)
  <2>1. CASE item.size = 0 /\ item.reduceOnly
    BY <1>2, <1>5, <2>1, ZeroIsExact DEF OrderSize, Ok, boolByte
  <2>2. CASE ~(item.size = 0 /\ item.reduceOnly)
    <3>1. OrderSize(item, m) = ToWire(item.size, m.sizeDecimals, MaxWireSize)
      BY <2>2 DEF OrderSize, WireSize
    <3>2. /\ ToWire(item.size, m.sizeDecimals, MaxWireSize).ok
          /\ o.base = ToWire(item.size, m.sizeDecimals, MaxWireSize).value
      BY <1>1, <1>5, <3>1
    <3>3. Worth(o.base, m.sizeDecimals) = item.size /\ item.size > 0
      <4>1. item.size \in Int /\ m.sizeDecimals \in Int /\ MaxWireSize \in Int
        BY <1>2, <1>3, <1>4
      <4>2. /\ Worth(ToWire(item.size, m.sizeDecimals, MaxWireSize).value, m.sizeDecimals) = item.size
            /\ item.size > 0
        BY <3>2, <4>1, ToWireIsExact
      <4> QED BY <3>2, <4>2
    <3> QED BY <3>3
  <2> QED BY <2>1, <2>2
<1>9. Worth(o.trigger, m.priceDecimals) = item.trigger
  <2>1. CASE item.trigger = 0
    BY <1>2, <1>5, <2>1, ZeroIsExact DEF Trigger, Ok
  <2>2. CASE item.trigger # 0
    <3>1. Trigger(item, m) = ToWire(item.trigger, m.priceDecimals, MaxWirePrice)
      BY <2>2 DEF Trigger, WirePrice
    <3>2. /\ ToWire(item.trigger, m.priceDecimals, MaxWirePrice).ok
          /\ o.trigger = ToWire(item.trigger, m.priceDecimals, MaxWirePrice).value
      BY <1>1, <1>5, <3>1
    <3>3. item.trigger \in Int /\ m.priceDecimals \in Int /\ MaxWirePrice \in Int
      BY <1>2, <1>3, <1>4
    <3>4. Worth(ToWire(item.trigger, m.priceDecimals, MaxWirePrice).value, m.priceDecimals) = item.trigger
      BY <3>2, <3>3, ToWireIsExact
    <3> QED BY <3>2, <3>4
  <2> QED BY <2>1, <2>2
<1>10. TypeValid(o) /\ RangesValid(o)
  BY <1>1 DEF OrderValid
<1>11. (o.trigger # 0) <=> (o.type \in (Stops \cup Profits))
  BY <1>10 DEF TypeValid, ParentTypeValid, ChildTypeValid, Stops, Profits, StopLoss, StopLossLimit,
               TakeProfit, TakeProfitLimit, Limit, Market, TWAP
<1>12. IF o.tif = IOC /\ o.type \in {Limit, Market} THEN o.expiry = 0
       ELSE /\ Within(o.expiry, MinOrderExpiryPeriod, MaxOrderExpiryPeriod)
            /\ item.expiry # 0 => o.expiry = item.expiry
  <2>1. CASE o.tif = IOC /\ o.type \in {Limit, Market}
    BY <1>10, <2>1 DEF TypeValid, ParentTypeValid, ChildTypeValid, Stops, Profits, StopLoss, StopLossLimit,
                       TakeProfit, TakeProfitLimit, Limit, Market, TWAP, IOC, GTT
  <2>2. CASE ~(o.tif = IOC /\ o.type \in {Limit, Market})
    <3>1. ~Immediate(item)
      BY <1>5, <1>10, <2>2 DEF Immediate, TypeValid, ParentTypeValid, ChildTypeValid, Stops, Profits,
               StopLoss, StopLossLimit, TakeProfit, TakeProfitLimit, Limit, Market, TWAP, IOC, GTT
    <3>2. Within(ExpiryOf(item), MinOrderExpiryPeriod, MaxOrderExpiryPeriod)
      BY <1>1, <3>1 DEF ExpiryFits
    <3>3. item.expiry # 0 => ExpiryOf(item) = item.expiry
      BY DEF ExpiryOf
    <3> QED BY <1>5, <2>2, <3>2, <3>3
  <2> QED BY <2>1, <2>2
<1>13. (o.ask = 1 <=> item.ask) /\ (o.reduceOnly = 1 <=> item.reduceOnly)
  BY <1>3, <1>5 DEF boolByte
<1>14. Places(item, b)
  <2> HIDE DEF m
  <2>1. m = Resolved(item.symbol)
    BY DEF m
  <2> QED BY <1>5, <1>6, <1>7, <1>8, <1>9, <1>11, <1>12, <1>13, <2>1 DEF Places
<1> QED
  BY <1>1, <1>14 DEF b

LEMMA ModifiedAsAsked ==
  ASSUME NEW item \in ModifyRequests, modifyWire(item).ok, NEW attributes,
         attributes = IF item.version = 0 THEN {} ELSE {<<8, item.version>>}
  PROVE  Modifies(item, Fields(modifyWire(item).value), attributes)
<1> DEFINE m == Resolved(item.symbol)
           t == modifyWire(item).value
           b == Fields(t)
<1>1. /\ Known(item.symbol) /\ WirePrice(item.price, m.priceDecimals).ok
      /\ ModifiedSize(item, m).ok /\ Trigger(item, m).ok
      /\ t.type = "ModifyOrder" /\ t.market = m.id /\ t.index = item.index
      /\ t.base = ModifiedSize(item, m).value /\ t.trigger = Trigger(item, m).value
      /\ t.price = WirePrice(item.price, m.priceDecimals).value
  BY DEF modifyWire, Ok, Fails
<1>2. m.priceDecimals \in Int /\ m.sizeDecimals \in Int
  BY <1>1, ResolvedIsListed
<1>3. item.price \in Int /\ item.size \in Int /\ item.trigger \in Int
  BY DEF ModifyRequests
<1>4. MaxWirePrice \in Int /\ MaxWireSize \in Int
  BY WidthsAssumption
<1> HIDE DEF t
<1>5. /\ b.MarketIndex = t.market /\ b.Index = t.index /\ b.BaseAmount = t.base
      /\ b.Price = t.price /\ b.TriggerPrice = t.trigger
  BY <1>1 DEF Fields
<1> HIDE DEF m, b
<1>6. Worth(t.price, m.priceDecimals) = item.price
  BY <1>1, <1>2, <1>3, <1>4, ToWireIsExact, Z3 DEF WirePrice
<1>7. Worth(t.base, m.sizeDecimals) = item.size
  <2>1. CASE item.size = 0
    BY <1>1, <1>2, <2>1, ZeroIsExact DEF ModifiedSize, Ok
  <2>2. CASE item.size # 0
    <3>1. ModifiedSize(item, m) = ToWire(item.size, m.sizeDecimals, MaxWireSize)
      BY <2>2 DEF ModifiedSize, WireSize
    <3>2. /\ ToWire(item.size, m.sizeDecimals, MaxWireSize).ok
          /\ t.base = ToWire(item.size, m.sizeDecimals, MaxWireSize).value
      BY <1>1, <3>1
    <3>3. Worth(ToWire(item.size, m.sizeDecimals, MaxWireSize).value, m.sizeDecimals) = item.size
      BY <1>2, <1>3, <1>4, <3>2, ToWireIsExact
    <3> QED BY <3>2, <3>3
  <2> QED BY <2>1, <2>2
<1>8. Worth(t.trigger, m.priceDecimals) = item.trigger
  <2>1. CASE item.trigger = 0
    BY <1>1, <1>2, <2>1, ZeroIsExact DEF Trigger, Ok
  <2>2. CASE item.trigger # 0
    <3>1. Trigger(item, m) = ToWire(item.trigger, m.priceDecimals, MaxWirePrice)
      BY <2>2 DEF Trigger, WirePrice
    <3>2. /\ ToWire(item.trigger, m.priceDecimals, MaxWirePrice).ok
          /\ t.trigger = ToWire(item.trigger, m.priceDecimals, MaxWirePrice).value
      BY <1>1, <3>1
    <3>3. Worth(ToWire(item.trigger, m.priceDecimals, MaxWirePrice).value, m.priceDecimals) = item.trigger
      BY <1>2, <1>3, <1>4, <3>2, ToWireIsExact
    <3> QED BY <3>2, <3>3
  <2> QED BY <2>1, <2>2
<1>9. Modifies(item, b, attributes)
  <2>1. m = Resolved(item.symbol)
    BY DEF m
  <2> QED BY <1>1, <1>5, <1>6, <1>7, <1>8, <2>1 DEF Modifies
<1> QED
  BY <1>9 DEF b, t

\* A larger factor makes a larger product.
LEMMA Monotone ==
  \A x, y, z \in Nat : x <= y => x * z <= y * z
  OBVIOUS

LEMMA LeverageAsAsked ==
  ASSUME NEW item \in LeverageRequests, UpdateLeverage(item).ok
  PROVE  SetsLeverage(item, Fields(UpdateLeverage(item).value))
<1> DEFINE m == Resolved(item.symbol)
           t == UpdateLeverage(item).value
           b == Fields(t)
           tick == MarginFractionTick
           lev == item.leverage
           f == Fraction(lev)
<1>1. /\ Known(item.symbol) /\ item.leverage >= 1 /\ LeverageFits(item.leverage, m)
      /\ t.type = "UpdateLeverage" /\ t.market = m.id /\ t.mode = item.mode
      /\ t.fraction = Fraction(item.leverage)
  BY DEF UpdateLeverage, Ok, Fails
<1> HIDE DEF t
<1>2. b.MarketIndex = t.market /\ b.MarginMode = t.mode /\ b.InitialMarginFraction = t.fraction
  BY <1>1 DEF Fields
<1>3. m.minFraction \in Nat
  BY <1>1, ResolvedIsListed
<1>4. lev \in Nat \ {0} /\ tick \in Nat
  BY <1>1 DEF LeverageRequests, MarginFractionTick
<1>5. f = tick \div lev
  BY DEF Fraction
<1> HIDE DEF m, b, f, lev, tick
<1>6. f \in Nat /\ f * lev <= tick /\ (f + 1) * lev > tick
  BY <1>4, <1>5, DivisionExact
<1>7. m.minFraction = 0 \/ lev <= MaxLeverage(m)
  <2> SUFFICES ASSUME m.minFraction # 0 PROVE lev <= MaxLeverage(m)
    OBVIOUS
  <2> DEFINE least == m.minFraction   most == tick \div least
  <2>1. least \in Nat \ {0} /\ MaxLeverage(m) = most /\ least <= f
    BY <1>1, <1>3 DEF MaxLeverage, LeverageFits, tick, f, lev
  <2> HIDE DEF least
  <2>2. most \in Nat /\ tick < (most + 1) * least
    <3>1. most = tick \div least
      OBVIOUS
    <3> HIDE DEF most
    <3>2. least \in Nat \ {0} /\ tick \in Int /\ tick >= 0
      BY <1>4, <2>1
    <3>3. tick \div least \in Nat /\ tick < (tick \div least + 1) * least
      BY <3>2, DivisionExact
    <3> QED BY <3>1, <3>3
  <2> HIDE DEF most
  <2>3. least * lev <= f * lev
    BY <1>4, <1>6, <2>1, Monotone
  <2>4. ASSUME most + 1 <= lev PROVE FALSE
    <3>1. (most + 1) * least <= lev * least
      BY <1>4, <2>1, <2>2, <2>4, Monotone
    <3>2. lev * least = least * lev /\ {lev * least, f * lev, (most + 1) * least} \subseteq Int
      BY <1>4, <1>6, <2>1, <2>2
    <3> QED BY <1>4, <1>6, <2>2, <2>3, <3>1, <3>2
  <2> QED BY <1>4, <2>1, <2>2, <2>4
<1> QED
  BY <1>1, <1>2, <1>6, <1>7 DEF SetsLeverage, m, b, f, lev, tick, t

LEMMA MarginAsAsked ==
  ASSUME NEW item \in MarginRequests, UpdateMargin(item).ok
  PROVE  LET b == Fields(UpdateMargin(item).value) IN
         Worth(b.USDCAmount, USDCDecimals) = item.usdc /\ (b.Direction = 1 <=> item.add)
<1> DEFINE t == UpdateMargin(item).value
<1>1. /\ t.type = "UpdateMargin" /\ t.direction = boolByte(item.add)
      /\ t.amount = ToWire(item.usdc, USDCDecimals, MaxWireSize).value
      /\ ToWire(item.usdc, USDCDecimals, MaxWireSize).ok
  BY DEF UpdateMargin, Ok, Fails, WireSize
<1> HIDE DEF t
<1>2. Fields(t).USDCAmount = t.amount /\ Fields(t).Direction = t.direction
  BY <1>1 DEF Fields
<1>3. item.usdc \in Int /\ item.add \in BOOLEAN /\ USDCDecimals \in Int /\ MaxWireSize \in Int
  BY MarketsAssumption, WidthsAssumption DEF MarginRequests
<1>4. Worth(ToWire(item.usdc, USDCDecimals, MaxWireSize).value, USDCDecimals) = item.usdc
  BY <1>1, <1>3, ToWireIsExact
<1> QED
  BY <1>1, <1>2, <1>3, <1>4 DEF t, boolByte

\* The attributes a transaction leaves the section with.
LEMMA SourceAttributes ==
  ASSUME SentInv, wire # <<>>, NEW i \in 1..Len(wire)
  PROVE  LET item == Items(req)[i]  a == Source(i).attributes IN
         /\ req.do \in {"CreateOrder", "CreateBatchOrders", "ClosePosition"} => a = NoAttributes
         /\ req.do \in {"ModifyOrder", "ModifyBatchOrders"} =>
              a = [NoAttributes EXCEPT !.version = item.version]
         /\ req.do = "CancelAllOrders" =>
              a = Scope(item.symbol) /\ (item.symbol # "" => Known(item.symbol))
         /\ req.do # "Send" => a.skipNonce = FALSE
         /\ req.do = "Send" => a = item.attributes
<1> DEFINE item == Items(req)[i]
           made == Transaction(req, item)
           a == made.value.attributes
<1>1. made.ok /\ item \in ItemsOf(req.do) /\ req.do \in Methods
  <2>1. OnWire(i)
    BY WireIsOfSource
  <2> QED BY <2>1, WiresOfItems DEF OnWire, IsCall
<1>2. a = Source(i).attributes
  BY DEF Source
<1> HIDE DEF item
<1>3. CASE req.do \in {"CreateOrder", "CreateBatchOrders", "ClosePosition"}
  <2>1. made = orderWire(item) /\ item \in OrderRequests
    BY <1>1, <1>3 DEF Transaction, ItemsOf
  <2>2. a = NoAttributes
    BY <1>1, <2>1, OrderWireShape
  <2>3. a.skipNonce = FALSE
    BY <2>2 DEF NoAttributes
  <2> HIDE DEF a
  <2> QED BY <1>2, <1>3, <2>2, <2>3
<1>4. CASE req.do \in {"ModifyOrder", "ModifyBatchOrders"}
  <2>1. made = modifyWire(item)
    BY <1>4 DEF Transaction
  <2>2. a = [NoAttributes EXCEPT !.version = item.version]
    BY <1>1, <2>1 DEF modifyWire, Ok, Fails
  <2>3. a.skipNonce = FALSE
    BY <2>2 DEF NoAttributes
  <2> HIDE DEF a
  <2> QED BY <1>2, <1>4, <2>2, <2>3 DEF item
<1>5. CASE req.do \in {"CancelOrder", "CancelBatchOrders", "CancelForgottenOrders"}
  <2>1. made = cancelWire(item)
    BY <1>5 DEF Transaction
  <2>2. a = NoAttributes
    BY <1>1, <2>1 DEF cancelWire, Ok, Fails
  <2>3. a.skipNonce = FALSE
    BY <2>2 DEF NoAttributes
  <2> HIDE DEF a
  <2> QED BY <1>2, <1>5, <2>3
<1>6. CASE req.do = "CancelAllOrders"
  <2>1. made = CancelAllOrders(item) /\ made # Fails
    BY <1>1, <1>6 DEF Transaction, Fails
  <2>2. item.symbol # "" => Known(item.symbol)
    BY <2>1, Zenon DEF CancelAllOrders
  <2>3. made = Ok(CancelAll(item, Scope(item.symbol)))
    BY <2>1, Zenon DEF CancelAllOrders
  <2>4. a = Scope(item.symbol)
    BY <2>3 DEF Ok, CancelAll
  <2>5. Scope(item.symbol).skipNonce = FALSE
    BY DEF Scope, NoAttributes
  <2> HIDE DEF a
  <2> QED BY <1>2, <1>6, <2>2, <2>4, <2>5 DEF item
<1>7. CASE req.do = "UpdateLeverage"
  <2>1. made = UpdateLeverage(item)
    BY <1>7 DEF Transaction
  <2>2. a = NoAttributes
    BY <1>1, <2>1 DEF UpdateLeverage, Ok, Fails
  <2>3. a.skipNonce = FALSE
    BY <2>2 DEF NoAttributes
  <2> HIDE DEF a
  <2> QED BY <1>2, <1>7, <2>3
<1>8. CASE req.do = "UpdateMargin"
  <2>1. made = UpdateMargin(item)
    BY <1>8 DEF Transaction
  <2>2. a = NoAttributes
    BY <1>1, <2>1 DEF UpdateMargin, Ok, Fails
  <2>3. a.skipNonce = FALSE
    BY <2>2 DEF NoAttributes
  <2> HIDE DEF a
  <2> QED BY <1>2, <1>8, <2>3
<1>9. CASE req.do = "Send"
  <2>1. a = item.attributes
    BY <1>9 DEF Transaction, Ok
  <2> QED BY <1>2, <1>9, <2>1 DEF item
<1> QED
  BY <1>1, <1>3, <1>4, <1>5, <1>6, <1>7, <1>8, <1>9 DEF Methods

LEMMA DoesAsAsked ==
  ASSUME SentInv, wire # <<>>, NEW i \in 1..Len(wire)
  PROVE  Does(Items(req)[i], wire[i].info)
<1> DEFINE item == Items(req)[i]
           made == Transaction(req, item)
           others == {s \in ToSet(wire[i].info.L2TxAttributes) : s[1] # 4}
           body == wire[i].info.body
           took == SkipsFor(Source(i), req.options, laneSkips)
<1>1. /\ made.ok /\ item \in ItemsOf(req.do) /\ body = Fields(made.value)
      /\ others = {s \in ToSet(collect(Attributed(i))) : s[1] # 4} /\ Attributed(i) \in AttributeSets
      /\ made.value.type = "CreateOrder" => OrderValid(made.value.order)
      /\ made.value.type = "CancelAllOrders" => TimeFits(made.value)
      /\ Attributed(i) = [Source(i).attributes EXCEPT !.skipNonce = took]
  <2>1. OnWire(i)
    BY WireIsOfSource
  <2> QED BY <2>1 DEF OnWire, Source, Attributed, AttributesFor
<1>2. req.do \in Methods /\ IsCall(req)
  BY WiresOfItems DEF IsCall
<1>3. /\ req.do \in {"CreateOrder", "CreateBatchOrders", "ClosePosition"} => Source(i).attributes = NoAttributes
      /\ req.do \in {"ModifyOrder", "ModifyBatchOrders"} =>
           Source(i).attributes = [NoAttributes EXCEPT !.version = item.version]
      /\ req.do = "CancelAllOrders" =>
           Source(i).attributes = Scope(item.symbol) /\ (item.symbol # "" => Known(item.symbol))
  BY SourceAttributes
<1> HIDE DEF item, took
<1>4. CASE req.do \in {"CreateOrder", "CreateBatchOrders", "ClosePosition"}
  <2>1. made = orderWire(item) /\ item \in OrderRequests
    BY <1>1, <1>4 DEF Transaction, ItemsOf
  <2>2. made.value.type = "CreateOrder"
    BY <1>1, <2>1, OrderWireShape
  <2>3. Fields(made.value) = OrderFields(made.value.order)
    BY <2>2 DEF Fields
  <2>4. Places(item, body)
    BY <1>1, <2>1, <2>2, <2>3, PlacedAsAsked
  <2>5. others = {}
    BY <1>1, <1>3, <1>4, PlainAttributes
  <2>6. req.do = "ClosePosition" => body.ReduceOnly = 1 /\ (body.IsAsk = 1 <=> req.position.sign > 0)
    <3> SUFFICES ASSUME req.do = "ClosePosition"
                 PROVE  body.ReduceOnly = 1 /\ (body.IsAsk = 1 <=> req.position.sign > 0)
      OBVIOUS
    <3>1. Items(req) = <<Closing(req.items[1], req.position)>> /\ i = 1
      <4>1. Items(req) = <<Closing(req.items[1], req.position)>>
        BY DEF Items
      <4>2. Len(wire) = Len(Items(req))
        BY WiresOfItems
      <4> QED BY <4>1, <4>2
    <3>2. item = Closing(req.items[1], req.position)
      BY <3>1 DEF item
    <3>3. item.reduceOnly = TRUE /\ item.ask = (req.position.sign > 0)
      BY <3>2 DEF Closing
    <3> QED BY <2>4, <3>3 DEF Places
  <2> QED BY <1>4, <2>4, <2>5, <2>6 DEF Does, item
<1>5. CASE req.do \in {"ModifyOrder", "ModifyBatchOrders"}
  <2>1. made = modifyWire(item) /\ item \in ModifyRequests /\ item.version \in Int
    BY <1>1, <1>5 DEF Transaction, ItemsOf, ModifyRequests
  <2>2. others = IF item.version = 0 THEN {} ELSE {<<8, item.version>>}
    <3>1. Attributed(i) = [[NoAttributes EXCEPT !.version = item.version] EXCEPT !.skipNonce = took]
      BY <1>1, <1>3, <1>5
    <3>2. {s \in ToSet(collect(Attributed(i))) : s[1] # 4} =
            IF item.version = 0 THEN {} ELSE {<<8, item.version>>}
      BY <1>1, <2>1, <3>1, VersionAttribute, Zenon
    <3> HIDE DEF others
    <3> QED BY <1>1, <3>2
  <2>3. Modifies(item, body, others)
    <3> HIDE DEF others, body
    <3>1. modifyWire(item).ok /\ body = Fields(modifyWire(item).value)
      BY <1>1, <2>1
    <3>2. Modifies(item, Fields(modifyWire(item).value), others)
      BY <2>1, <2>2, <3>1, ModifiedAsAsked, Zenon
    <3> QED BY <3>1, <3>2
  <2> QED BY <1>5, <2>3 DEF Does, item
<1>6. CASE req.do = "CancelAllOrders"
  <2>1. made = CancelAllOrders(item) /\ made # Fails
    BY <1>1, <1>6 DEF Transaction, Fails
  <2>2. made = Ok(CancelAll(item, Scope(item.symbol)))
    BY <2>1, Zenon DEF CancelAllOrders
  <2>3. made.value.type = "CancelAllOrders" /\ made.value.tif = item.tif /\ made.value.time = item.time
    BY <2>2 DEF Ok, CancelAll
  <2>4. body.TimeInForce = item.tif /\ body.Time = item.time
    BY <1>1, <2>3 DEF Fields
  <2>5. item.time # 0 <=> item.tif = CancelScheduled
    BY <1>1, <2>3 DEF TimeFits, CancelScheduled, CancelNow, CancelAbort
  <2>6. others = IF item.symbol = "" THEN {} ELSE {<<5, Resolved(item.symbol).id>>}
    <3>1. Attributed(i) = [Scope(item.symbol) EXCEPT !.skipNonce = took]
      BY <1>1, <1>3, <1>6
    <3>2. {s \in ToSet(collect(Attributed(i))) : s[1] # 4} =
            IF item.symbol = "" THEN {} ELSE {<<5, Resolved(item.symbol).id>>}
      <4>1. (item.symbol # "" => Known(item.symbol)) /\ Attributed(i) \in AttributeSets
        BY <1>1, <1>3, <1>6
      <4> QED BY <3>1, <4>1, ScopeAttribute
    <3> HIDE DEF others
    <3> QED BY <1>1, <3>2
  <2>7. CancelsAll(item, body, others)
    BY <2>4, <2>5, <2>6 DEF CancelsAll
  <2> QED BY <1>6, <2>7 DEF Does, item
<1>7. CASE req.do = "UpdateLeverage"
  <2>1. made = UpdateLeverage(item) /\ item \in LeverageRequests
    BY <1>1, <1>7 DEF Transaction, ItemsOf
  <2>2. SetsLeverage(item, body)
    BY <1>1, <2>1, LeverageAsAsked
  <2> QED BY <1>7, <2>2 DEF Does, item
<1>8. CASE req.do = "UpdateMargin"
  <2>1. made = UpdateMargin(item) /\ item \in MarginRequests
    BY <1>1, <1>8 DEF Transaction, ItemsOf
  <2>2. Worth(body.USDCAmount, USDCDecimals) = item.usdc /\ (body.Direction = 1 <=> item.add)
    BY <1>1, <2>1, MarginAsAsked
  <2> QED BY <1>8, <2>2 DEF Does, item
<1>9. CASE req.do \in {"CancelOrder", "CancelBatchOrders", "CancelForgottenOrders", "Send"}
  BY <1>9 DEF Does
<1> QED
  BY <1>2, <1>4, <1>5, <1>6, <1>7, <1>8, <1>9 DEF Methods

\* The section and the engine send what they were asked to: every figure to the
\* last digit, in the asked scope, with consecutive nonces, nothing left out.
THEOREM SendsAsAsked == Spec => []SentAsAsked
<1>1. SentInv => SentAsAsked
  <2> SUFFICES ASSUME SentInv, wire # <<>> PROVE SentAsAsked
    BY DEF SentAsAsked
  <2>1. Len(wire) = Len(Items(req))
    BY WiresOfItems
  <2>2. ASSUME NEW i \in 1..Len(wire)
        PROVE  LET info == wire[i].info IN
               /\ Does(Items(req)[i], info)
               /\ info.Nonce = nonce + i - 1 /\ info.AccountIndex = AccountIndex
               /\ info.ApiKeyIndex = KeyOf(req.options.key)
               /\ <<4, 1>> \in ToSet(info.L2TxAttributes) <=>
                    \/ req.options.skip \/ (req.options.nonce = 0 /\ laneSkips)
                    \/ (req.do = "Send" /\ Items(req)[i].attributes.skipNonce)
    <3> DEFINE info == wire[i].info
               a == Attributed(i)
               b == Source(i).attributes
    <3>1. Does(Items(req)[i], info)
      BY DoesAsAsked
    <3>2. /\ info.Nonce = nonce + i - 1 /\ info.AccountIndex = AccountIndex
          /\ info.ApiKeyIndex = KeyOf(req.options.key)
          /\ info.L2TxAttributes = collect(a) /\ a \in AttributeSets /\ Source(i) \in L2Txs
      <4>1. OnWire(i)
        BY WireIsOfSource
      <4> QED BY <4>1 DEF OnWire
    <3>3. <<4, 1>> \in ToSet(collect(a)) <=> a.skipNonce
      BY <3>2, AttributesSent
    <3>4. b \in AttributeSets
      BY <3>2 DEF L2Txs
    <3>5. a = [b EXCEPT !.skipNonce = SkipsFor(Source(i), req.options, laneSkips)]
      BY DEF Attributed, AttributesFor
    <3>6. a.skipNonce = SkipsFor(Source(i), req.options, laneSkips)
      <4> HIDE DEF a, b
      <4> QED BY <3>4, <3>5 DEF AttributeSets
    <3>7. SkipsFor(Source(i), req.options, laneSkips) <=>
            b.skipNonce \/ req.options.skip \/ (req.options.nonce = 0 /\ laneSkips)
      BY DEF SkipsFor
    <3>8. b.skipNonce <=> req.do = "Send" /\ Items(req)[i].attributes.skipNonce
      <4>1. (req.do # "Send" => b.skipNonce = FALSE) /\ (req.do = "Send" => b = Items(req)[i].attributes)
        BY SourceAttributes
      <4> HIDE DEF b
      <4> QED BY <4>1
    <3> HIDE DEF a, b
    <3>9. <<4, 1>> \in ToSet(info.L2TxAttributes) <=>
            \/ req.options.skip \/ (req.options.nonce = 0 /\ laneSkips)
            \/ (req.do = "Send" /\ Items(req)[i].attributes.skipNonce)
      BY <3>2, <3>3, <3>6, <3>7, <3>8
    <3> QED BY <3>1, <3>2, <3>9
  <2> QED BY <2>1, <2>2 DEF SentAsAsked
<1> QED
  BY <1>1, SentAlways, PTL
-----------------------------------------------------------------------------
(***************************************************************************)
(* Decimal texts and their values                                          *)
(***************************************************************************)
LEMMA PowersAdd ==
  ASSUME NEW m \in Nat
  PROVE  \A n \in Nat : pow10[m + n] = pow10[m] * pow10[n]
<1> DEFINE S == {n \in Nat : pow10[m + n] = pow10[m] * pow10[n]}
<1>1. 0 \in S
  BY PowersOfTen
<1>2. ASSUME NEW n \in Nat, n \in S PROVE n + 1 \in S
  <2>1. pow10[(m + n) + 1] = Base * pow10[m + n] /\ pow10[n + 1] = Base * pow10[n]
    BY PowersOfTen
  <2>2. pow10[m] \in Nat /\ pow10[n] \in Nat /\ Base \in Nat
    BY PowersOfTen, WidthsAssumption
  <2>3. Base * (pow10[m] * pow10[n]) = pow10[m] * (Base * pow10[n])
    BY <2>2
  <2>4. (m + n) + 1 = m + (n + 1)
    OBVIOUS
  <2>5. pow10[m + n] = pow10[m] * pow10[n]
    BY <1>2
  <2>6. pow10[m + (n + 1)] = pow10[m] * pow10[n + 1]
    BY <2>1, <2>3, <2>4, <2>5
  <2> QED BY <2>6
<1>3. \A n \in Nat : n \in S
  <2> HIDE DEF S
  <2> QED BY <1>1, <1>2, SetInduction
<1> QED
  BY <1>3

\* The values of the first digits of a text.
Reads(t, q) == t \in [0..Len(q) -> Nat] /\ ValueSoFar(t, q)

LEMMA TracesAgree ==
  ASSUME NEW q \in Seq(Digits), NEW r \in Seq(Digits), NEW t, NEW u, Reads(t, q), Reads(u, r),
         NEW n \in Nat, n <= Len(q), n <= Len(r), \A i \in 1..n : q[i] = r[i]
  PROVE  \A i \in 0..n : t[i] = u[i]
<1> DEFINE S == {i \in 0..n : t[i] = u[i]}
<1>1. 0 \in S
  BY DEF Reads, ValueSoFar
<1>2. \A i \in 1..n : i - 1 \in S => i \in S
  <2> SUFFICES ASSUME NEW i \in 1..n, t[i - 1] = u[i - 1] PROVE t[i] = u[i]
    OBVIOUS
  <2>1. i \in 1..Len(q) /\ i \in 1..Len(r)
    OBVIOUS
  <2> QED BY <2>1 DEF Reads, ValueSoFar
<1>3. \A i \in 0..n : i \in S
  <2> HIDE DEF S
  <2> QED BY <1>1, <1>2, BoundedInduction
<1> QED
  BY <1>3

LEMMA ValueOfFirst ==
  ASSUME NEW q \in Seq(Digits), NEW t, Reads(t, q), NEW r \in Seq(Digits), Len(r) <= Len(q),
         \A i \in 1..Len(r) : r[i] = q[i]
  PROVE  ValueOf(r) = t[Len(r)]
<1>1. PICK u : Reads(u, r)
  BY ValueTrace DEF Reads
<1>2. Len(r) \in Nat /\ Len(r) \in 0..Len(r)
  OBVIOUS
<1>3. \A i \in 0..Len(r) : t[i] = u[i]
  BY <1>1, <1>2, TracesAgree
<1> QED
  BY <1>1, <1>2, <1>3 DEF Reads, ValueSoFar

LEMMA TraceBound ==
  ASSUME NEW q \in Seq(Digits), NEW t, Reads(t, q)
  PROVE  \A i \in 0..Len(q) : t[i] \in Nat /\ t[i] < pow10[i]
<1> DEFINE n == Len(q)  S == {i \in 0..n : t[i] < pow10[i]}
<1>1. 0 \in S
  BY PowersOfTen DEF Reads, ValueSoFar
<1>2. \A i \in 1..n : i - 1 \in S => i \in S
  <2> SUFFICES ASSUME NEW i \in 1..n, t[i - 1] < pow10[i - 1] PROVE t[i] < pow10[i]
    OBVIOUS
  <2>1. t[i] = t[i - 1] * Base + q[i] /\ t[i - 1] \in Nat
    BY DEF Reads, ValueSoFar
  <2>2. q[i] \in 0..(Base - 1) /\ Base \in Nat
    BY WidthsAssumption DEF Digits
  <2>3. i - 1 \in Nat /\ i = (i - 1) + 1
    OBVIOUS
  <2>4. pow10[i] = Base * pow10[i - 1] /\ pow10[i - 1] \in Nat
    BY <2>3, PowersOfTen
  <2>5. \A a, b, c, d \in Nat : a < b /\ c < d => a * d + c < d * b
    <3> SUFFICES ASSUME NEW a \in Nat, NEW b \in Nat, NEW c \in Nat, NEW d \in Nat, a < b, c < d
                 PROVE  a * d + c < d * b
      OBVIOUS
    <3>1. (a + 1) * d <= b * d
      OBVIOUS
    <3> QED BY <3>1
  <2>6. PICK a, b, c, d : a = t[i - 1] /\ b = pow10[i - 1] /\ c = q[i] /\ d = Base
    OBVIOUS
  <2>7. a \in Nat /\ b \in Nat /\ c \in Nat /\ d \in Nat /\ a < b /\ c < d
    BY <2>1, <2>2, <2>4, <2>6
  <2>8. a * d + c < d * b
    BY <2>5, <2>7
  <2>9. t[i] = a * d + c /\ pow10[i] = d * b
    BY <2>1, <2>4, <2>6, Zenon
  <2> QED BY <2>8, <2>9, Zenon
<1>3. \A i \in 0..n : i \in S
  <2>1. n \in Nat
    OBVIOUS
  <2> HIDE DEF S, n
  <2> QED BY <1>1, <1>2, <2>1, BoundedInduction
<1> QED
  BY <1>3 DEF Reads

\* Zeros behind a text scale its value.
LEMMA TraceTail ==
  ASSUME NEW q \in Seq(Digits), NEW t, Reads(t, q), NEW k \in 0..Len(q),
         \A j \in (k + 1)..Len(q) : q[j] = 0
  PROVE  ValueOf(q) = t[k] * pow10[Len(q) - k]
<1> DEFINE n == Len(q) - k  S == {i \in 0..n : t[k + i] = t[k] * pow10[i]}
<1>0. n \in Nat /\ k \in Nat /\ Len(q) \in Nat
  OBVIOUS
<1>1. 0 \in S
  <2>1. t[k] \in Nat /\ k + 0 = k
    BY DEF Reads
  <2>2. pow10[0] = 1
    BY PowersOfTen
  <2>3. t[k] * 1 = t[k]
    BY <2>1
  <2> QED BY <1>0, <2>1, <2>2, <2>3
<1>2. \A i \in 1..n : i - 1 \in S => i \in S
  <2> SUFFICES ASSUME NEW i \in 1..n, t[k + (i - 1)] = t[k] * pow10[i - 1] PROVE t[k + i] = t[k] * pow10[i]
    OBVIOUS
  <2>1. k + i \in 1..Len(q) /\ k + i \in (k + 1)..Len(q) /\ (k + i) - 1 = k + (i - 1)
    OBVIOUS
  <2>2. t[k + i] = t[k + (i - 1)] * Base + q[k + i]
    BY <2>1 DEF Reads, ValueSoFar
  <2>3. q[k + i] = 0
    BY <2>1
  <2>4. pow10[i] = Base * pow10[i - 1] /\ pow10[i - 1] \in Nat
    <3>1. i - 1 \in Nat /\ i = (i - 1) + 1
      OBVIOUS
    <3> QED BY <3>1, PowersOfTen
  <2>5. t[k] \in Nat /\ Base \in Nat
    BY WidthsAssumption DEF Reads
  <2>6. \A a, b, c \in Nat : (a * b) * c + 0 = a * (c * b)
    OBVIOUS
  <2> QED BY <2>2, <2>3, <2>4, <2>5, <2>6
<1>3. \A i \in 0..n : i \in S
  <2> HIDE DEF S, n
  <2> QED BY <1>0, <1>1, <1>2, BoundedInduction
<1>4. n \in S /\ k + n = Len(q)
  BY <1>0, <1>3
<1> QED
  BY <1>4 DEF Reads, ValueSoFar

LEMMA ValueOfConcat ==
  ASSUME NEW a \in Seq(Digits), NEW b \in Seq(Digits)
  PROVE  ValueOf(a \o b) = ValueOf(a) * pow10[Len(b)] + ValueOf(b)
<1> DEFINE q == a \o b  m == Len(a)  n == Len(b)
<1>0. /\ q \in Seq(Digits) /\ Len(q) = m + n /\ m \in Nat /\ n \in Nat
      /\ \A i \in 1..m : q[i] = a[i]
      /\ \A i \in 1..n : q[m + i] = b[i]
  OBVIOUS
<1>1. PICK t : Reads(t, q)
  BY <1>0, ValueTrace DEF Reads
<1>2. PICK u : Reads(u, b)
  BY ValueTrace DEF Reads
<1>3. ValueOf(a) = t[m]
  <2>1. Len(a) <= Len(q) /\ \A i \in 1..Len(a) : a[i] = q[i]
    BY <1>0
  <2> HIDE DEF q
  <2> QED BY <1>0, <1>1, <2>1, ValueOfFirst
<1> DEFINE S == {i \in 0..n : t[m + i] = t[m] * pow10[i] + u[i]}
<1> HIDE DEF q, m
<1>4. t[m] \in Nat
  BY <1>0, <1>1 DEF Reads
<1>5. 0 \in S
  <2>1. pow10[0] = 1 /\ u[0] = 0
    BY <1>2, PowersOfTen DEF Reads, ValueSoFar
  <2>2. m + 0 = m /\ t[m] * 1 + 0 = t[m]
    BY <1>0, <1>4
  <2> QED BY <1>0, <2>1, <2>2
<1>6. \A i \in 1..n : i - 1 \in S => i \in S
  <2> SUFFICES ASSUME NEW i \in 1..n, t[m + (i - 1)] = t[m] * pow10[i - 1] + u[i - 1]
               PROVE  t[m + i] = t[m] * pow10[i] + u[i]
    OBVIOUS
  <2>1. m + i \in 1..Len(q) /\ (m + i) - 1 = m + (i - 1)
    BY <1>0
  <2>2. t[m + i] = t[m + (i - 1)] * Base + b[i]
    BY <1>0, <1>1, <2>1 DEF Reads, ValueSoFar
  <2>3. u[i] = u[i - 1] * Base + b[i] /\ u[i - 1] \in Nat
    BY <1>2 DEF Reads, ValueSoFar
  <2>4. pow10[i] = Base * pow10[i - 1] /\ pow10[i - 1] \in Nat
    <3>1. i - 1 \in Nat /\ i = (i - 1) + 1
      BY <1>0
    <3> QED BY <3>1, PowersOfTen
  <2>5. b[i] \in Nat /\ Base \in Nat
    BY WidthsAssumption DEF Digits
  <2>6. \A v, p, w, c, d \in Nat : (v * p + w) * c + d = v * (c * p) + (w * c + d)
    OBVIOUS
  <2>7. (t[m] * pow10[i - 1] + u[i - 1]) * Base + b[i]
          = t[m] * (Base * pow10[i - 1]) + (u[i - 1] * Base + b[i])
    <3>1. PICK v, p, w, d \in Nat : v = t[m] /\ p = pow10[i - 1] /\ w = u[i - 1] /\ d = b[i]
      BY <1>4, <2>3, <2>4, <2>5
    <3>2. (v * p + w) * Base + d = v * (Base * p) + (w * Base + d)
      BY <2>5, <2>6
    <3> QED BY <3>1, <3>2
  <2> HIDE DEF S
  <2> QED BY <2>2, <2>3, <2>4, <2>7
<1>7. \A i \in 0..n : i \in S
  <2> HIDE DEF S, n
  <2> QED BY <1>0, <1>5, <1>6, BoundedInduction
<1>8. n \in S
  BY <1>0, <1>7
<1>9. ValueOf(q) = t[m + n] /\ ValueOf(b) = u[n]
  BY <1>0, <1>1, <1>2 DEF Reads, ValueSoFar
<1> QED
  BY <1>3, <1>8, <1>9 DEF q

LEMMA HigherDigits ==
  ASSUME NEW i \in Nat, i >= Base
  PROVE  i \div Base \in Nat /\ i \div Base < i /\ i % Base \in Digits /\ (i \div Base) * Base + (i % Base) = i
<1>1. Base \in Nat \ {0} /\ Base >= 2
  BY WidthsAssumption
<1> DEFINE w == i \div Base  r == i % Base
<1>2. w \in Nat /\ r \in 0..(Base - 1) /\ r = i - Base * w
  BY <1>1, DivisionExact
<1> HIDE DEF w, r
<1>3. w * Base + r = i
  BY <1>1, <1>2
<1>4. w < i
  <2> SUFFICES ASSUME w >= i PROVE FALSE
    BY <1>2
  <2>1. w * Base >= w * 2
    BY <1>1, <1>2
  <2> QED BY <1>1, <1>2, <1>3, <2>1
<1>5. w \in Nat /\ w < i /\ r \in Digits /\ w * Base + r = i
  BY <1>2, <1>3, <1>4 DEF Digits
<1>6. i \div Base = w /\ i % Base = r
  BY DEF w, r
<1> QED
  BY <1>5, <1>6, Zenon

\* The texts of the numbers up to n.
Texts(g, n) ==
  /\ g \in [0..n -> Seq(Digits)]
  /\ \A i \in 0..n : g[i] = IF i < Base THEN <<i>> ELSE Append(g[i \div Base], i % Base)

LEMMA TextsExist == \A n \in Nat : \E g : Texts(g, n)
<1> DEFINE S == {n \in Nat : \E g : Texts(g, n)}
<1>0. Base \in Nat /\ Base >= 2
  BY WidthsAssumption
<1>1. 0 \in S
  <2> DEFINE g == [i \in 0..0 |-> <<i>>]
  <2>1. \A i \in 0..0 : <<i>> \in Seq(Digits) /\ i < Base
    BY <1>0 DEF Digits
  <2>2. g \in [0..0 -> Seq(Digits)]
    BY <2>1
  <2>3. \A i \in 0..0 : g[i] = <<i>>
    OBVIOUS
  <2> HIDE DEF g
  <2>4. Texts(g, 0)
    BY <2>1, <2>2, <2>3 DEF Texts
  <2> QED BY <2>4
<1>2. ASSUME NEW n \in Nat, n \in S PROVE n + 1 \in S
  <2>1. PICK g : Texts(g, n)
    BY <1>2
  <2> DEFINE added == IF n + 1 < Base THEN <<n + 1>> ELSE Append(g[(n + 1) \div Base], (n + 1) % Base)
             f == [i \in 0..(n + 1) |-> IF i = n + 1 THEN added ELSE g[i]]
  <2>2. added \in Seq(Digits)
    <3>1. CASE n + 1 < Base
      BY <1>0, <3>1 DEF Digits
    <3>2. CASE n + 1 >= Base
      <4>1. (n + 1) \div Base \in 0..n /\ (n + 1) % Base \in Digits
        BY <3>2, HigherDigits
      <4>2. g[(n + 1) \div Base] \in Seq(Digits)
        BY <2>1, <4>1 DEF Texts
      <4>3. Append(g[(n + 1) \div Base], (n + 1) % Base) \in Seq(Digits)
        BY <4>1, <4>2
      <4> QED BY <1>0, <3>2, <4>3
    <3> QED BY <1>0, <3>1, <3>2
  <2> HIDE DEF added
  <2>3. f \in [0..(n + 1) -> Seq(Digits)]
    BY <2>1, <2>2 DEF Texts
  <2>4. ASSUME NEW i \in 0..(n + 1)
        PROVE  f[i] = IF i < Base THEN <<i>> ELSE Append(f[i \div Base], i % Base)
    <3>1. i >= Base => i \div Base \in 0..n /\ i \div Base # n + 1
      <4> HAVE i >= Base
      <4>1. i \div Base \in Nat /\ i \div Base < i
        BY HigherDigits
      <4> QED BY <4>1
    <3>2. i >= Base => f[i \div Base] = g[i \div Base]
      <4> HAVE i >= Base
      <4>1. i \div Base \in 0..(n + 1) /\ i \div Base # n + 1
        BY <3>1
      <4> QED BY <4>1, Zenon
    <3>3. f[i] = IF i = n + 1 THEN added ELSE g[i]
      OBVIOUS
    <3> HIDE DEF f
    <3>4. CASE i = n + 1
      BY <1>0, <3>2, <3>3, <3>4 DEF added
    <3>5. CASE i # n + 1
      <4>1. i \in 0..n
        BY <3>5
      <4>2. g[i] = IF i < Base THEN <<i>> ELSE Append(g[i \div Base], i % Base)
        BY <2>1, <4>1 DEF Texts
      <4> QED BY <1>0, <3>2, <3>3, <3>5, <4>2
    <3> QED BY <3>4, <3>5
  <2> HIDE DEF f
  <2>5. Texts(f, n + 1)
    BY <2>3, <2>4 DEF Texts
  <2> QED BY <2>5
<1>3. \A n \in Nat : n \in S
  <2> HIDE DEF S
  <2> QED BY <1>1, <1>2, SetInduction
<1> QED
  BY <1>3

LEMMA TextsAgree ==
  ASSUME NEW n \in Nat, NEW m \in Nat, NEW g, NEW h, Texts(g, n), Texts(h, m)
  PROVE  \A i \in 0..n : i <= m => g[i] = h[i]
<1> DEFINE S == {k \in Nat : \A i \in 0..k : i <= n /\ i <= m => g[i] = h[i]}
<1>0. Base \in Nat /\ Base >= 2
  BY WidthsAssumption
<1>1. 0 \in S
  BY <1>0 DEF Texts
<1>2. ASSUME NEW k \in Nat, k \in S PROVE k + 1 \in S
  <2> SUFFICES ASSUME NEW i \in 0..(k + 1), i <= n, i <= m PROVE g[i] = h[i]
    OBVIOUS
  <2>1. /\ g[i] = IF i < Base THEN <<i>> ELSE Append(g[i \div Base], i % Base)
        /\ h[i] = IF i < Base THEN <<i>> ELSE Append(h[i \div Base], i % Base)
    BY DEF Texts
  <2>2. i >= Base => g[i \div Base] = h[i \div Base]
    <3> HAVE i >= Base
    <3>1. i \div Base \in Nat /\ i \div Base < i
      BY HigherDigits
    <3>2. i \div Base \in 0..k /\ i \div Base <= n /\ i \div Base <= m
      BY <3>1
    <3> QED BY <1>2, <3>2
  <2> QED BY <1>0, <2>1, <2>2
<1>3. \A k \in Nat : k \in S
  <2> HIDE DEF S
  <2> QED BY <1>1, <1>2, SetInduction
<1>4. \A i \in 0..n : i \in S
  BY <1>3
<1> QED
  BY <1>4

\* The recursion of digitsOf has the texts of the numbers as its value.
LEMMA DigitsRecursion ==
  \A n \in Nat : digitsOf[n] = IF n < Base THEN <<n>> ELSE Append(digitsOf[n \div Base], n % Base)
<1> DEFINE Step(f, n) == IF n < Base THEN <<n>> ELSE Append(f[n \div Base], n % Base)
           IsText(f) == f = [n \in Nat |-> Step(f, n)]
           upTo(n) == CHOOSE g : Texts(g, n)
           d == [n \in Nat |-> upTo(n)[n]]
<1>0. Base \in Nat /\ Base >= 2
  BY WidthsAssumption
<1>1. \A n \in Nat : Texts(upTo(n), n)
  BY TextsExist
<1> HIDE DEF upTo
<1>2. ASSUME NEW n \in Nat PROVE d[n] = Step(d, n)
  <2>1. upTo(n)[n] = Step(upTo(n), n)
    BY <1>1 DEF Texts
  <2>2. n >= Base => d[n \div Base] = upTo(n)[n \div Base]
    <3> HAVE n >= Base
    <3>1. n \div Base \in Nat /\ n \div Base < n
      BY HigherDigits
    <3> DEFINE k == n \div Base
    <3> HIDE DEF k
    <3>2. k \in Nat /\ k < n
      BY <3>1 DEF k
    <3>3. Texts(upTo(k), k) /\ Texts(upTo(n), n)
      BY <1>1, <3>2
    <3>4. \A i \in 0..k : i <= n => upTo(k)[i] = upTo(n)[i]
      BY <3>2, <3>3, TextsAgree
    <3>5. upTo(k)[k] = upTo(n)[k]
      BY <3>2, <3>4
    <3>6. d[k] = upTo(n)[k]
      BY <3>2, <3>5
    <3> QED BY <3>6 DEF k
  <2>3. d[n] = upTo(n)[n]
    OBVIOUS
  <2> HIDE DEF d
  <2> QED BY <1>0, <2>1, <2>2, <2>3
<1>3. IsText(d)
  <2> DEFINE e == [n \in Nat |-> Step(d, n)]
  <2>1. \A n \in Nat : d[n] = e[n]
    BY <1>2
  <2>2. d = [n \in Nat |-> d[n]] /\ e = [n \in Nat |-> e[n]]
    OBVIOUS
  <2> HIDE DEF d, e
  <2>3. d = e
    BY <2>1, <2>2
  <2> QED BY <2>3 DEF e
<1>4. IsText(digitsOf)
  <2>1. \E f : IsText(f)
    <3> HIDE DEF IsText
    <3> QED BY <1>3
  <2>2. digitsOf = CHOOSE f : IsText(f)
    BY DEF digitsOf
  <2> HIDE DEF IsText
  <2> QED BY <2>1, <2>2
<1> QED
  BY <1>4

LEMMA ValueOfShort ==
  /\ ValueOf(<<>>) = 0
  /\ \A d \in Digits : ValueOf(<<d>>) = d
  /\ \A q \in Seq(Digits), d \in Digits : ValueOf(Append(q, d)) = ValueOf(q) * Base + d
<1>0. Base \in Nat /\ pow10[1] = Base
  <2>1. pow10[0 + 1] = Base * pow10[0] /\ pow10[0] = 1
    BY PowersOfTen
  <2>2. Base \in Nat /\ Base * 1 = Base /\ 0 + 1 = 1
    BY WidthsAssumption
  <2> QED BY <2>1, <2>2
<1>1. ValueOf(<<>>) = 0
  <2>0. <<>> \in Seq(Digits) /\ Len(<<>>) = 0
    OBVIOUS
  <2>1. PICK t : Reads(t, <<>>)
    BY <2>0, ValueTrace DEF Reads
  <2> QED BY <2>0, <2>1 DEF Reads, ValueSoFar
<1>2. ASSUME NEW d \in Digits PROVE ValueOf(<<d>>) = d
  <2>0. <<d>> \in Seq(Digits) /\ Len(<<d>>) = 1 /\ <<d>>[1] = d
    OBVIOUS
  <2>1. PICK t : Reads(t, <<d>>)
    BY <2>0, ValueTrace DEF Reads
  <2>2. t[1] = t[1 - 1] * Base + <<d>>[1] /\ t[0] = 0 /\ ValueOf(<<d>>) = t[1]
    BY <2>0, <2>1 DEF Reads, ValueSoFar
  <2>3. t[1] = 0 * Base + d
    BY <2>0, <2>2
  <2> QED BY <1>0, <2>2, <2>3 DEF Digits
<1>3. ASSUME NEW q \in Seq(Digits), NEW d \in Digits PROVE ValueOf(Append(q, d)) = ValueOf(q) * Base + d
  <2>1. Append(q, d) = q \o <<d>> /\ <<d>> \in Seq(Digits) /\ Len(<<d>>) = 1
    OBVIOUS
  <2>2. ValueOf(q \o <<d>>) = ValueOf(q) * pow10[Len(<<d>>)] + ValueOf(<<d>>)
    BY <2>1, ValueOfConcat
  <2> QED BY <1>0, <1>2, <2>1, <2>2
<1> QED
  BY <1>1, <1>2, <1>3

\* The text of a number has the number as its value.
LEMMA NumberReadsBack ==
  \A n \in Nat : digitsOf[n] \in Seq(Digits) /\ digitsOf[n] # <<>> /\ ValueOf(digitsOf[n]) = n
<1> DEFINE Back(i) == digitsOf[i] \in Seq(Digits) /\ digitsOf[i] # <<>> /\ ValueOf(digitsOf[i]) = i
           S == {k \in Nat : \A i \in 0..k : Back(i)}
<1>0. Base \in Nat /\ Base >= 2
  BY WidthsAssumption
<1>1. ASSUME NEW i \in Nat, i < Base PROVE Back(i)
  <2>1. digitsOf[i] = <<i>> /\ i \in Digits
    <3>1. digitsOf[i] = IF i < Base THEN <<i>> ELSE Append(digitsOf[i \div Base], i % Base)
      BY DigitsRecursion, Zenon
    <3>2. i \in Digits
      BY <1>0, <1>1 DEF Digits
    <3> QED BY <1>1, <3>1, <3>2, Zenon
  <2>2. ValueOf(<<i>>) = i
    BY <2>1, ValueOfShort
  <2> QED BY <2>1, <2>2
<1>2. 0 \in S
  <2>1. \A i \in 0..0 : i \in Nat /\ i < Base
    BY <1>0
  <2> HIDE DEF Back
  <2> QED BY <1>1, <2>1
<1>3. ASSUME NEW k \in Nat, k \in S PROVE k + 1 \in S
  <2> SUFFICES ASSUME NEW i \in 0..(k + 1) PROVE Back(i)
    OBVIOUS
  <2>1. CASE i < Base
    BY <1>1, <2>1
  <2>2. CASE i >= Base
    <3> DEFINE w == i \div Base  r == i % Base
    <3>1. w \in Nat /\ w < i /\ r \in Digits /\ w * Base + r = i
      <4>1. i \in Nat
        OBVIOUS
      <4> QED BY <2>2, <4>1, HigherDigits, Zenon
    <3>2. digitsOf[i] = Append(digitsOf[w], r)
      <4>1. i \in Nat /\ ~(i < Base)
        BY <1>0, <2>2
      <4>2. digitsOf[i] = IF i < Base THEN <<i>> ELSE Append(digitsOf[w], r)
        BY <4>1, DigitsRecursion, Zenon
      <4> QED BY <4>1, <4>2, Zenon
    <3> HIDE DEF w, r
    <3>3. digitsOf[w] \in Seq(Digits) /\ ValueOf(digitsOf[w]) = w
      <4>1. w \in 0..k
        BY <3>1
      <4> QED BY <1>3, <4>1
    <3>4. ValueOf(Append(digitsOf[w], r)) = w * Base + r
      BY <3>1, <3>3, ValueOfShort
    <3>5. Append(digitsOf[w], r) \in Seq(Digits) /\ Append(digitsOf[w], r) # <<>>
      BY <3>1, <3>3
    <3> QED BY <3>1, <3>2, <3>4, <3>5
  <2> QED BY <1>0, <2>1, <2>2
<1>4. \A k \in Nat : k \in S
  <2> HIDE DEF S
  <2> QED BY <1>2, <1>3, SetInduction
<1>5. ASSUME NEW n \in Nat PROVE Back(n)
  <2>1. n \in S /\ n \in 0..n
    BY <1>4
  <2> HIDE DEF Back
  <2> QED BY <2>1
<1> QED
  BY <1>5

LEMMA DivisionTwice ==
  ASSUME NEW a \in Nat, NEW b \in Nat \ {0}, NEW c \in Nat \ {0}
  PROVE  (a \div b) \div c = a \div (b * c)
<1> DEFINE p == a \div b  w == p \div c  d == b * c  v == a \div d
<1>1. d \in Nat \ {0}
  BY SMT
<1>2. p \in Nat /\ p * b <= a /\ a < (p + 1) * b
  BY DivisionExact
<1> HIDE DEF p, d
<1>3. w \in Nat /\ w * c <= p /\ p < (w + 1) * c
  BY <1>2, DivisionExact
<1>4. v \in Nat /\ v * d <= a /\ a < (v + 1) * d
  BY <1>1, DivisionExact
<1> HIDE DEF w, v
<1>5. w * d <= a
  <2>1. (w * c) * b <= p * b
    BY <1>2, <1>3
  <2>2. (w * c) * b = w * d
    BY <1>3 DEF d
  <2> QED BY <1>1, <1>2, <1>3, <2>1, <2>2
<1>6. a < (w + 1) * d
  <2>1. (p + 1) * b <= ((w + 1) * c) * b
    <3>1. p + 1 <= (w + 1) * c
      BY <1>2, <1>3
    <3> DEFINE x == p + 1  y == (w + 1) * c
    <3>2. x \in Nat /\ y \in Nat /\ x <= y
      BY <1>2, <1>3, <3>1
    <3> HIDE DEF x, y
    <3>3. x * b <= y * b
      BY <3>2
    <3> QED BY <3>3 DEF x, y
  <2>2. ((w + 1) * c) * b = (w + 1) * d
    BY <1>3 DEF d
  <2> DEFINE x == (p + 1) * b  y == (w + 1) * d
  <2>3. x \in Nat /\ y \in Nat
    BY <1>1, <1>2, <1>3
  <2>4. x <= y
    BY <2>1, <2>2
  <2> HIDE DEF x, y
  <2>5. a < x
    BY <1>2 DEF x
  <2>6. a < y
    BY <2>3, <2>4, <2>5
  <2> QED BY <2>6 DEF y
<1>7. ~(w < v) /\ ~(v < w)
  <2>1. w < v => (w + 1) * d <= v * d
    BY <1>1, <1>3, <1>4
  <2>2. v < w => (v + 1) * d <= w * d
    BY <1>1, <1>3, <1>4
  <2> QED BY <1>1, <1>3, <1>4, <1>5, <1>6, <2>1, <2>2
<1>8. w = v
  BY <1>3, <1>4, <1>7
<1> QED
  BY <1>8 DEF w, v, p, d

LEMMA InitialSegment ==
  ASSUME NEW n \in Nat, NEW s \in SUBSET (1..n), \A i \in s : 1..i \subseteq s
  PROVE  \E k \in 0..n : s = 1..k
<1>1. CASE s = {}
  <2>1. s = 1..0 /\ 0 \in 0..n
    BY <1>1
  <2> QED BY <2>1
<1>2. CASE s # {}
  <2>1. Max(s) \in s /\ \A y \in s : y <= Max(s)
    BY <1>2, MaxOfIndices
  <2>2. PICK k : k = Max(s)
    OBVIOUS
  <2>3. k \in s /\ \A y \in s : y <= k
    BY <2>1, <2>2, Zenon
  <2>4. k \in 0..n
    BY <2>3
  <2>5. \A y : y \in s => y \in 1..k
    BY <2>3, <2>4
  <2>6. 1..k \subseteq s
    BY <2>3, Zenon
  <2>7. s = 1..k
    BY <2>5, <2>6, Zenon
  <2> QED BY <2>4, <2>7
<1> QED
  BY <1>1, <1>2

LEMMA FractionTrace ==
  ASSUME NEW f \in Nat, NEW q \in Seq(Digits), Len(q) = FixedDecimals, f < FixedScale,
         \A i \in 1..FixedDecimals : q[i] = (f \div pow10[FixedDecimals - i]) % Base,
         NEW t, Reads(t, q)
  PROVE  \A i \in 0..FixedDecimals : t[i] = f \div pow10[FixedDecimals - i]
<1> DEFINE n == FixedDecimals  S == {i \in 0..n : t[i] = f \div pow10[n - i]}
<1>0. n \in Nat /\ Base \in Nat \ {0}
  BY WidthsAssumption
<1>1. 0 \in S
  <2>1. FixedScale = pow10[n] /\ pow10[n] \in Nat \ {0} /\ n - 0 = n
    BY <1>0, PowersOfTen DEF FixedScale
  <2> DEFINE w == f \div pow10[n]
  <2>2. w \in Nat /\ w * pow10[n] <= f
    <3>1. PICK p : p = pow10[n]
      OBVIOUS
    <3>2. f \in Int /\ f >= 0 /\ p \in Nat \ {0}
      BY <2>1, <3>1
    <3>3. (f \div p) * p <= f /\ f \div p \in Nat
      BY <3>2, DivisionExact
    <3> QED BY <3>1, <3>3
  <2> HIDE DEF w
  <2>3. ~(w >= 1)
    <3> SUFFICES ASSUME w >= 1 PROVE FALSE
      OBVIOUS
    <3>1. PICK p \in Nat : p = pow10[n]
      BY <2>1
    <3>2. 1 * p <= w * p /\ 1 * p = p
      BY <2>2, Monotone
    <3>3. w * p <= f /\ f < p
      BY <2>1, <2>2, <3>1
    <3>4. w * p \in Nat
      BY <2>2
    <3> QED BY <3>2, <3>3, <3>4
  <2>4. w = 0
    BY <2>2, <2>3
  <2>5. t[0] = 0
    BY DEF Reads, ValueSoFar
  <2>6. t[0] = f \div pow10[n - 0]
    BY <2>1, <2>4, <2>5 DEF w
  <2> QED BY <1>0, <2>6
<1>2. \A i \in 1..n : i - 1 \in S => i \in S
  <2> SUFFICES ASSUME NEW i \in 1..n, t[i - 1] = f \div pow10[n - (i - 1)]
               PROVE  t[i] = f \div pow10[n - i]
    OBVIOUS
  <2>1. t[i] = t[i - 1] * Base + q[i]
    BY DEF Reads, ValueSoFar
  <2>2. n - i \in Nat /\ n - (i - 1) = (n - i) + 1
    BY <1>0
  <2>3. pow10[n - (i - 1)] = Base * pow10[n - i] /\ pow10[n - i] \in Nat \ {0}
    BY <2>2, PowersOfTen
  <2> DEFINE a == f \div pow10[n - i]
  <2>4. a \in Nat
    <3>1. PICK p : p = pow10[n - i]
      OBVIOUS
    <3>2. f \in Int /\ f >= 0 /\ p \in Nat \ {0}
      BY <2>3, <3>1
    <3>3. f \div p \in Nat
      BY <3>2, DivisionExact
    <3> QED BY <3>1, <3>3
  <2>5. a \div Base = f \div (pow10[n - i] * Base)
    BY <1>0, <2>3, DivisionTwice
  <2>6. pow10[n - i] * Base = Base * pow10[n - i]
    BY <1>0, <2>3
  <2>7. q[i] = a % Base
    OBVIOUS
  <2> HIDE DEF a
  <2>8. a % Base = a - Base * (a \div Base) /\ a \div Base \in Nat
    <3>1. a \in Int /\ a >= 0 /\ Base \in Nat \ {0}
      BY <1>0, <2>4
    <3> HIDE DEF n, S
    <3> QED BY <3>1, DivisionExact
  <2>9. t[i - 1] = a \div Base
    BY <2>3, <2>5, <2>6
  <2>10. t[i] = a
    <3> DEFINE w == a \div Base
    <3>1. t[i] = w * Base + (a - Base * w) /\ w \in Nat
      BY <2>1, <2>7, <2>8, <2>9
    <3> HIDE DEF w
    <3> QED BY <1>0, <2>4, <3>1
  <2> QED BY <2>10 DEF a
<1>3. \A i \in 0..n : i \in S
  <2> HIDE DEF S, n
  <2> QED BY <1>0, <1>1, <1>2, BoundedInduction
<1> QED
  BY <1>3

\* The digits behind the dot stand for the fraction.
LEMMA FractionReadsBack ==
  ASSUME NEW f \in Nat, f < FixedScale
  PROVE  /\ FracDigits(f) \in Seq(Digits) /\ Len(FracDigits(f)) <= FixedDecimals
         /\ ValueOf(FracDigits(f)) * pow10[FixedDecimals - Len(FracDigits(f))] = f
<1> DEFINE n == FixedDecimals
           all == [i \in 1..n |-> (f \div pow10[n - i]) % Base]
           lasting == {i \in 1..n : \E j \in i..n : all[j] # 0}
<1>0. n \in Nat /\ Base \in Nat \ {0}
  BY WidthsAssumption
<1>1. all \in Seq(Digits) /\ Len(all) = n
  <2>1. ASSUME NEW i \in 1..n PROVE (f \div pow10[n - i]) % Base \in Digits
    <3>1. PICK p : p = pow10[n - i]
      OBVIOUS
    <3>2. n - i \in Nat
      BY <1>0
    <3>3. p \in Nat \ {0} /\ f \in Int /\ f >= 0
      BY <3>1, <3>2, PowersOfTen
    <3>4. f \div p \in Int
      BY <3>3, DivisionExact
    <3>5. PICK w : w = f \div p
      OBVIOUS
    <3>6. w % Base \in 0..(Base - 1)
      BY <1>0, <3>4, <3>5, DivisionExact
    <3> QED BY <3>1, <3>5, <3>6 DEF Digits
  <2> HIDE DEF n
  <2> QED BY <1>0, <2>1
<1>2. PICK k \in 0..n : lasting = 1..k
  <2>1. lasting \in SUBSET (1..n)
    OBVIOUS
  <2>2. \A i \in lasting : 1..i \subseteq lasting
    <3> SUFFICES ASSUME NEW i \in lasting, NEW h \in 1..i PROVE h \in lasting
      OBVIOUS
    <3>1. PICK j \in i..n : all[j] # 0
      OBVIOUS
    <3>2. h \in 1..n /\ j \in h..n
      BY <1>0
    <3> HIDE DEF all, n
    <3> QED BY <3>1, <3>2
  <2> HIDE DEF lasting, n
  <2> QED BY <1>0, <2>1, <2>2, InitialSegment
<1>3. Cardinality(lasting) = k
  <2>1. Cardinality(1..k) = IF 1 > k THEN 0 ELSE k - 1 + 1
    BY FS_Interval
  <2> HIDE DEF lasting
  <2> QED BY <1>0, <1>2, <2>1
<1>4. \A j \in (k + 1)..n : all[j] = 0
  <2> SUFFICES ASSUME NEW j \in (k + 1)..n, all[j] # 0 PROVE FALSE
    OBVIOUS
  <2>1. j \in 1..n /\ j \in j..n /\ j \notin 1..k
    BY <1>0
  <2>2. j \in lasting
    <3> HIDE DEF all, n
    <3> QED BY <2>1
  <2> QED BY <1>2, <2>1, <2>2
<1>5. FracDigits(f) = Prefix(all, k)
  BY <1>3 DEF FracDigits
<1>6. /\ Prefix(all, k) \in Seq(Digits) /\ Len(Prefix(all, k)) = k
      /\ \A i \in 1..k : Prefix(all, k)[i] = all[i]
  <2>1. Prefix(all, k) = SubSeq(all, 1, k)
    <3> HIDE DEF all, n
    <3> QED BY <1>0, <1>1 DEF Prefix
  <2> HIDE DEF all, n
  <2> QED BY <1>0, <1>1, <2>1
<1>7. PICK t : Reads(t, all)
  <2> HIDE DEF all
  <2> QED BY <1>1, ValueTrace DEF Reads
<1>8. \A i \in 1..n : all[i] = (f \div pow10[n - i]) % Base
  OBVIOUS
<1>9. \A i \in 0..n : t[i] = f \div pow10[n - i]
  <2> HIDE DEF all
  <2> QED BY <1>1, <1>7, <1>8, FractionTrace
<1>10. t[n] = f
  <2>1. n \in 0..n /\ n - n = 0
    BY <1>0
  <2>2. f \div 1 = f
    OBVIOUS
  <2>3. pow10[0] = 1
    BY PowersOfTen
  <2> HIDE DEF all, n
  <2> QED BY <1>9, <2>1, <2>2, <2>3
<1>11. ValueOf(Prefix(all, k)) = t[k]
  <2> HIDE DEF all, n
  <2> QED BY <1>0, <1>1, <1>6, <1>7, ValueOfFirst
<1>12. ValueOf(all) = t[k] * pow10[n - k] /\ ValueOf(all) = t[n]
  <2> HIDE DEF all, n
  <2>1. ValueOf(all) = t[k] * pow10[Len(all) - k]
    BY <1>1, <1>4, <1>7, TraceTail
  <2> QED BY <1>1, <1>7, <2>1 DEF Reads, ValueSoFar
<1> HIDE DEF all, n
<1>13. ValueOf(FracDigits(f)) * pow10[n - Len(FracDigits(f))] = f
  BY <1>5, <1>6, <1>10, <1>11, <1>12
<1> QED
  BY <1>0, <1>5, <1>6, <1>13 DEF n

\* What the exchange prints reads back as the same number.
LEMMA PrintParse ==
  ASSUME NEW v \in Nat, v <= MaxInt
  PROVE  UnmarshalFixed(AppendWire(v)) = Ok(v)
<1> DEFINE w == v \div FixedScale  f == v % FixedScale
           most == fixedMaxIntPart  spare == MaxInt % FixedScale
           t == AppendWire(v)
<1>0. FixedScale \in Nat \ {0} /\ MaxInt \in Nat /\ FixedDecimals \in Nat
  BY WidthsAssumption, PowersOfTen DEF FixedScale
<1>1. /\ w \in Nat /\ f \in Nat /\ f < FixedScale /\ f = v - FixedScale * w
      /\ w * FixedScale <= v
  <2>1. v \in Int /\ v >= 0
    OBVIOUS
  <2>2. /\ w \in Nat /\ f \in 0..(FixedScale - 1) /\ f = v - FixedScale * w
        /\ w * FixedScale <= v
    BY <1>0, <2>1, DivisionExact
  <2> HIDE DEF w, f
  <2> QED BY <1>0, <2>2
<1>2. /\ most \in Nat /\ spare = MaxInt - FixedScale * most /\ MaxInt < (most + 1) * FixedScale
  <2>1. MaxInt \in Int /\ MaxInt >= 0
    BY <1>0
  <2>2. most = MaxInt \div FixedScale
    BY DEF fixedMaxIntPart
  <2> HIDE DEF most
  <2> QED BY <1>0, <2>1, <2>2, DivisionExact
<1>3. t.neg = FALSE /\ t.int = digitsOf[w] /\ t.frac = FracDigits(f)
  <2>1. Magnitude(v) = v /\ (v < 0) = FALSE
    BY DEF Magnitude
  <2>2. t = [neg |-> FALSE, int |-> digitsOf[w], frac |-> FracDigits(f)]
    BY <2>1, Zenon DEF AppendWire
  <2> HIDE DEF t, w, f
  <2> QED BY <2>2
<1> HIDE DEF w, f, most, spare, t
<1>4. t.int \in Seq(Digits) /\ Len(t.int) >= 1 /\ ValueOf(t.int) = w
  <2>1. digitsOf[w] \in Seq(Digits) /\ digitsOf[w] # <<>> /\ ValueOf(digitsOf[w]) = w
    BY <1>1, NumberReadsBack
  <2> QED BY <1>3, <2>1
<1>5. /\ t.frac \in Seq(Digits) /\ Len(t.frac) <= FixedDecimals
      /\ ValueOf(t.frac) * pow10[FixedDecimals - Len(t.frac)] = f
  BY <1>1, <1>3, FractionReadsBack
<1>6. Prefix(t.frac, FixedDecimals) = t.frac
  <2>1. Prefix(t.frac, FixedDecimals) = SubSeq(t.frac, 1, Len(t.frac))
    BY <1>0, <1>5 DEF Prefix
  <2> QED BY <1>5, <2>1
<1>7. w <= most
  <2> SUFFICES ASSUME w >= most + 1 PROVE FALSE
    BY <1>1, <1>2
  <2>1. w * FixedScale >= (most + 1) * FixedScale
    BY <1>0, <1>1, <1>2
  <2> DEFINE x == w * FixedScale  y == (most + 1) * FixedScale
  <2>2. x \in Nat /\ y \in Nat
    BY <1>0, <1>1, <1>2
  <2>3. x >= y /\ x <= v /\ MaxInt < y
    BY <1>1, <1>2, <2>1
  <2> HIDE DEF x, y
  <2> QED BY <1>0, <2>2, <2>3
<1>8. w = most => f <= spare
  <2> HAVE w = most
  <2>1. f = v - FixedScale * most /\ spare = MaxInt - FixedScale * most
    BY <1>1, <1>2
  <2>2. FixedScale * most \in Nat
    BY <1>0, <1>2
  <2> QED BY <1>0, <2>1, <2>2
<1>9. w * FixedScale + f = v
  <2>1. w * FixedScale = FixedScale * w /\ FixedScale * w \in Nat
    BY <1>0, <1>1
  <2> QED BY <1>1, <2>1
<1>10. parseFixed(t, FALSE) = Ok(w * FixedScale + f)
  <2>1. ~(Len(t.int) + Len(t.frac) = 0) /\ ~(w > most) /\ ~(w = most /\ f > spare)
    <3>1. Len(t.int) \in Nat /\ Len(t.frac) \in Nat
      BY <1>4, <1>5
    <3>2. spare \in Int
      BY <1>2
    <3>3. PICK j, k : j = Len(t.int) /\ k = Len(t.frac)
      OBVIOUS
    <3>4. j \in Nat /\ k \in Nat /\ j >= 1
      BY <1>4, <3>1, <3>3
    <3>5. j + k # 0
      BY <3>4
    <3>6. Len(t.int) + Len(t.frac) # 0
      BY <3>3, <3>5, Zenon
    <3>7. ~(w > most) /\ ~(w = most /\ f > spare)
      BY <1>1, <1>2, <1>7, <1>8, <3>2
    <3> QED BY <3>6, <3>7
  <2>2. parseFixed(t, FALSE) =
          IF \/ Len(t.int) + Len(t.frac) = 0
             \/ w > most \/ FALSE
             \/ (w = most /\ f > spare)
          THEN Fails ELSE Ok(1 * (w * FixedScale + f))
    BY <1>3, <1>4, <1>5, <1>6 DEF parseFixed, most, spare
  <2>3. 1 * (w * FixedScale + f) = w * FixedScale + f
    BY <1>0, <1>1, <1>9
  <2> QED BY <2>1, <2>2, <2>3
<1>11. Len(t.int) + Len(t.frac) # 0
  <2>1. Len(t.int) \in Nat /\ Len(t.frac) \in Nat
    BY <1>4, <1>5
  <2>2. PICK j, k : j = Len(t.int) /\ k = Len(t.frac)
    OBVIOUS
  <2>3. j \in Nat /\ k \in Nat /\ j >= 1
    BY <1>4, <2>1, <2>2
  <2>4. j + k # 0
    BY <2>3
  <2> QED BY <2>2, <2>4, Zenon
<1> QED
  BY <1>9, <1>10, <1>11 DEF UnmarshalFixed, t

\* The digits that are kept stand for all of them, when those behind are zeros.
LEMMA KeptDigits ==
  ASSUME NEW q \in Seq(Digits), \A d \in ToSet(Beyond(q, FixedDecimals)) : d = 0
  PROVE  LET kept == Prefix(q, FixedDecimals) IN
         /\ kept \in Seq(Digits) /\ Len(kept) <= FixedDecimals
         /\ ValueOf(q) * FixedScale = (ValueOf(kept) * pow10[FixedDecimals - Len(kept)]) * pow10[Len(q)]
         /\ ValueOf(kept) * pow10[FixedDecimals - Len(kept)] < FixedScale
<1> DEFINE kept == Prefix(q, FixedDecimals)  n == FixedDecimals  h == Len(q)  k == Len(kept)
           b == ValueOf(kept)
<1>0. n \in Nat /\ h \in Nat
  BY WidthsAssumption
<1>1. /\ kept \in Seq(Digits) /\ k \in Nat /\ k = (IF h < n THEN h ELSE n) /\ k <= h /\ k <= n
      /\ \A i \in 1..k : kept[i] = q[i]
  <2>1. kept = SubSeq(q, 1, IF h < n THEN h ELSE n)
    BY DEF Prefix
  <2> HIDE DEF n, kept
  <2> QED BY <1>0, <2>1
<1> HIDE DEF kept, n, h, k, b
<1>2. PICK t : Reads(t, q)
  BY ValueTrace DEF Reads
<1>3. b = t[k] /\ b \in Nat
  <2>1. b = t[k]
    BY <1>1, <1>2, ValueOfFirst DEF b, k, h
  <2>2. b \in Nat
    BY <1>1, ValueIsNat DEF b
  <2> QED BY <2>1, <2>2
<1>4. \A j \in (k + 1)..h : q[j] = 0
  <2> SUFFICES ASSUME NEW j \in (k + 1)..h PROVE q[j] = 0
    OBVIOUS
  <2>1. k = n /\ n < h
    BY <1>0, <1>1
  <2> DEFINE tail == SubSeq(q, n + 1, h)
  <2>2. /\ Len(tail) = h - n /\ j - n \in 1..Len(tail) /\ tail[j - n] = q[j]
        /\ tail \in Seq(Digits)
    BY <1>0, <2>1 DEF h
  <2>3. Beyond(q, n) = tail
    BY DEF Beyond, h
  <2> HIDE DEF tail
  <2>4. tail[j - n] \in ToSet(tail)
    BY <2>2 DEF ToSet
  <2> QED BY <2>2, <2>3, <2>4 DEF n
<1>5. ValueOf(q) = b * pow10[h - k]
  <2>1. k \in 0..Len(q)
    BY <1>0, <1>1 DEF h
  <2>2. ValueOf(q) = t[k] * pow10[Len(q) - k]
    BY <1>2, <1>4, <2>1, TraceTail DEF h
  <2> QED BY <1>3, <2>2 DEF h
<1>6. n - k \in Nat /\ h - k \in Nat /\ k \in Nat
  BY <1>0, <1>1
<1>7. /\ pow10[k + (n - k)] = pow10[k] * pow10[n - k]
      /\ pow10[(h - k) + k] = pow10[h - k] * pow10[k]
  BY <1>6, PowersAdd
<1>8. k + (n - k) = n /\ (h - k) + k = h /\ FixedScale = pow10[n]
  BY <1>0, <1>1 DEF FixedScale, n
<1>9. pow10[k] \in Nat \ {0} /\ pow10[n - k] \in Nat \ {0} /\ pow10[h - k] \in Nat \ {0}
  BY <1>6, PowersOfTen
<1>10. ValueOf(q) * FixedScale = (b * pow10[n - k]) * pow10[h]
  <2>1. \A x, y, z, u \in Nat : (x * y) * (z * u) = (x * u) * (y * z)
    OBVIOUS
  <2>2. (b * pow10[h - k]) * (pow10[k] * pow10[n - k]) = (b * pow10[n - k]) * (pow10[h - k] * pow10[k])
    BY <1>3, <1>9, <2>1
  <2> QED BY <1>5, <1>7, <1>8, <2>2
<1>11. b * pow10[n - k] < FixedScale
  <2>1. t[k] < pow10[k]
    <3>1. k \in 0..Len(q)
      BY <1>0, <1>1 DEF h
    <3> QED BY <1>2, <3>1, TraceBound
  <2>2. \A x, y, z \in Nat : x < y /\ z # 0 => x * z < y * z
    OBVIOUS
  <2>3. b * pow10[n - k] < pow10[k] * pow10[n - k]
    BY <1>3, <1>9, <2>1, <2>2
  <2> QED BY <1>7, <1>8, <2>3
<1> QED
  BY <1>1, <1>10, <1>11 DEF kept, n, h, k, b

\* What a text that is taken stands for.
ReadAs(t, size) ==
  /\ size \in Nat /\ size <= MaxInt
  /\ ParseFixed(t).value = (IF t.neg THEN -1 ELSE 1) * size
  /\ size * pow10[Len(t.frac)] = ValueOf(t.int \o t.frac) * FixedScale

LEMMA ParseExact ==
  ASSUME NEW t \in [neg : BOOLEAN, int : Seq(Digits), frac : Seq(Digits)], ParseFixed(t).ok
  PROVE  \E size : ReadAs(t, size)
<1> DEFINE kept == Prefix(t.frac, FixedDecimals)
           a == ValueOf(t.int)
           f == ValueOf(kept) * pow10[FixedDecimals - Len(kept)]
           most == fixedMaxIntPart  spare == MaxInt % FixedScale
           size == a * FixedScale + f
           p == pow10[Len(t.frac)]
<1>0. /\ t.int \in Seq(Digits) /\ t.frac \in Seq(Digits)
      /\ FixedScale \in Nat \ {0} /\ MaxInt \in Nat /\ FixedDecimals \in Nat
  BY WidthsAssumption, PowersOfTen DEF FixedScale
<1>1. /\ a <= most /\ ~(a = most /\ f > spare)
      /\ \A d \in ToSet(Beyond(t.frac, FixedDecimals)) : d = 0
      /\ ParseFixed(t).value = (IF t.neg THEN -1 ELSE 1) * size
  <2> DEFINE much == a > most
             behind == \E d \in ToSet(Beyond(t.frac, FixedDecimals)) : d # 0
             over == a = most /\ f > spare
             none == Len(t.int) + Len(t.frac) = 0
  <2>1. ParseFixed(t) = IF none \/ much \/ behind \/ over
                        THEN Fails ELSE Ok((IF t.neg THEN -1 ELSE 1) * size)
    BY DEF ParseFixed, parseFixed
  <2>2. a \in Nat /\ most \in Int
    <3>1. fixedMaxIntPart = MaxInt \div FixedScale
      BY DEF fixedMaxIntPart
    <3>2. MaxInt \div FixedScale \in Int
      BY <1>0, DivisionExact
    <3> QED BY <1>0, <3>1, <3>2, ValueIsNat
  <2> HIDE DEF size, none, f, spare, a, most
  <2>3. ~much /\ ~behind /\ ~over /\ ParseFixed(t).value = (IF t.neg THEN -1 ELSE 1) * size
    BY <2>1 DEF Ok, Fails
  <2> QED BY <2>2, <2>3
<1>2. /\ most \in Nat /\ spare = MaxInt - FixedScale * most
  <2>1. MaxInt \in Int /\ MaxInt >= 0
    BY <1>0
  <2>2. most = MaxInt \div FixedScale
    BY DEF fixedMaxIntPart
  <2> HIDE DEF most
  <2> QED BY <1>0, <2>1, <2>2, DivisionExact
<1>3. /\ kept \in Seq(Digits) /\ Len(kept) <= FixedDecimals /\ f < FixedScale
      /\ ValueOf(t.frac) * FixedScale = f * p
  <2>1. \A d \in ToSet(Beyond(t.frac, FixedDecimals)) : d = 0
    BY <1>1
  <2> QED BY <1>0, <2>1, KeptDigits
<1> HIDE DEF kept, most, spare
<1>4. a \in Nat /\ f \in Nat /\ p \in Nat /\ ValueOf(t.frac) \in Nat
  <2>1. a \in Nat /\ ValueOf(t.frac) \in Nat /\ ValueOf(kept) \in Nat
    BY <1>0, <1>3, ValueIsNat
  <2>2. FixedDecimals - Len(kept) \in Nat /\ Len(t.frac) \in Nat
    BY <1>0, <1>3
  <2>3. pow10[FixedDecimals - Len(kept)] \in Nat /\ p \in Nat
    BY <2>2, PowersOfTen
  <2> QED BY <2>1, <2>3
<1>5. ValueOf(t.int \o t.frac) = a * p + ValueOf(t.frac)
  BY <1>0, ValueOfConcat
<1> HIDE DEF a, f, p
<1>6. size \in Nat
  BY <1>0, <1>4
<1>7. size <= MaxInt
  <2>1. FixedScale * most \in Nat
    BY <1>0, <1>2
  <2>2. CASE a = most
    <3>1. f <= spare /\ spare \in Int
      BY <1>0, <1>1, <1>2, <1>4, <2>1, <2>2
    <3>2. a * FixedScale = FixedScale * most
      BY <1>0, <1>2, <2>2
    <3> QED BY <1>0, <1>2, <1>4, <2>1, <3>1, <3>2
  <2>3. CASE a # most
    <3>1. a + 1 <= most
      BY <1>1, <1>2, <1>4, <2>3
    <3>2. (a + 1) * FixedScale <= most * FixedScale
      BY <1>0, <1>2, <1>4, <3>1
    <3>3. (a + 1) * FixedScale = a * FixedScale + FixedScale /\ most * FixedScale = FixedScale * most
      BY <1>0, <1>2, <1>4
    <3>4. FixedScale * most <= MaxInt
      <4>1. MaxInt % FixedScale \in 0..(FixedScale - 1)
        <5>1. MaxInt \in Int
          BY <1>0
        <5> QED BY <1>0, <5>1, DivisionExact
      <4>2. spare >= 0
        BY <4>1 DEF spare
      <4> QED BY <1>0, <1>2, <2>1, <4>2
    <3>5. a * FixedScale \in Nat
      BY <1>0, <1>4
    <3> QED BY <1>0, <1>3, <1>4, <2>1, <3>2, <3>3, <3>4, <3>5
  <2> QED BY <2>2, <2>3
<1>8. size * p = ValueOf(t.int \o t.frac) * FixedScale
  <2>1. ValueOf(t.frac) * FixedScale = f * p
    BY <1>3
  <2>2. (a * FixedScale + f) * p = (a * p + ValueOf(t.frac)) * FixedScale
    <3>1. PICK x, y, z, u, w : x = a /\ y = FixedScale /\ z = p /\ u = f /\ w = ValueOf(t.frac)
      OBVIOUS
    <3>2. x \in Nat /\ y \in Nat /\ z \in Nat /\ u \in Nat /\ w \in Nat /\ w * y = u * z
      BY <1>0, <1>4, <2>1, <3>1
    <3>3. (x * y + u) * z = x * y * z + u * z
      BY <3>2
    <3>4. (x * z + w) * y = x * y * z + w * y
      BY <3>2
    <3> QED BY <3>1, <3>2, <3>3, <3>4
  <2> QED BY <1>5, <2>2
<1> HIDE DEF size
<1>9. ReadAs(t, size)
  BY <1>1, <1>6, <1>7, <1>8 DEF ReadAs, p
<1> QED
  BY <1>9

\* An int64 keeps what fits, and turns what is a little too large negative.
LEMMA WrapOf ==
  ASSUME NEW x \in Int, x >= -(MaxInt + 1), x <= 2 * MaxInt
  PROVE  Wrap(x) = IF x <= MaxInt THEN x ELSE x - 2 * (MaxInt + 1)
<1> DEFINE w == x + MaxInt + 1   m == 2 * (MaxInt + 1)
<1>1. MaxInt \in Nat
  BY WidthsAssumption
<1>2. w \in Nat /\ m \in Nat \ {0} /\ w < 2 * m /\ (w < m <=> x <= MaxInt)
  BY <1>1
<1>3. Wrap(x) = (w % m) - (MaxInt + 1)
  BY DEF Wrap
<1>4. w % m = IF w < m THEN w ELSE w - m
  <2> HIDE DEF w, m
  <2>1. \A c \in Nat, d \in Nat \ {0} : c < 2 * d => c % d = IF c < d THEN c ELSE c - d
    OBVIOUS
  <2> QED BY <1>2, <2>1
<1>5. w = x + MaxInt + 1 /\ m = 2 * (MaxInt + 1)
  OBVIOUS
<1> HIDE DEF w, m
<1>6. CASE x <= MaxInt
  <2>1. Wrap(x) = w - (MaxInt + 1)
    BY <1>2, <1>3, <1>4, <1>6
  <2> QED BY <1>1, <1>5, <1>6, <2>1
<1>7. CASE ~(x <= MaxInt)
  <2>1. Wrap(x) = w - m - (MaxInt + 1)
    BY <1>2, <1>3, <1>4, <1>7
  <2> QED BY <1>1, <1>5, <1>7, <2>1
<1> QED
  BY <1>6, <1>7

LEMMA TickFits == \A decimals \in Int : TickSize(decimals) \in Nat \ {0} /\ TickSize(decimals) <= MaxInt
<1> SUFFICES ASSUME NEW decimals \in Int
             PROVE  TickSize(decimals) \in Nat \ {0} /\ TickSize(decimals) <= MaxInt
  OBVIOUS
<1> DEFINE c == clampDecimals(decimals)  k == FixedDecimals - c
<1>1. c \in Nat /\ k \in Nat /\ c + k = FixedDecimals
  BY WidthsAssumption DEF clampDecimals
<1> HIDE DEF c, k
<1>2. pow10[c + k] = pow10[c] * pow10[k] /\ pow10[c] \in Nat \ {0} /\ pow10[k] \in Nat \ {0}
  BY <1>1, PowersAdd, PowersOfTen
<1>3. pow10[k] <= pow10[c] * pow10[k]
  <2>1. \A x, y \in Nat \ {0} : y <= x * y
    OBVIOUS
  <2> QED BY <1>2, <2>1
<1>4. FixedScale = pow10[FixedDecimals] /\ TickSize(decimals) = pow10[k]
  BY DEF FixedScale, TickSize, c, k
<1>5. MaxInt \in Nat /\ FixedScale <= MaxInt
  BY WidthsAssumption, ScaleAssumption
<1> DEFINE whole == pow10[c] * pow10[k]
<1>6. whole \in Nat /\ whole = FixedScale /\ pow10[k] <= whole
  BY <1>1, <1>2, <1>3, <1>4
<1> HIDE DEF whole
<1> QED
  BY <1>2, <1>4, <1>5, <1>6

\* A rounded price is on the side of the asked mode, less than a step away.
Near(r, v, step, mode) ==
  /\ r - v < step /\ v - r < step
  /\ mode = "down" => r <= v
  /\ mode = "up" => r >= v
  /\ mode = "nearest" => 2 * (r - v) <= step /\ 2 * (v - r) <= step

LEMMA NormalizeNear ==
  ASSUME NEW v \in Int, v > 0, v <= MaxInt, NEW decimals \in Int,
         NEW mode \in {"down", "up", "nearest"}, Normalize(v, decimals, mode) > 0
  PROVE  /\ Normalize(v, decimals, mode) <= MaxInt
         /\ Near(Normalize(v, decimals, mode), v, TickSize(decimals), mode)
<1> DEFINE step == TickSize(decimals)  rem == v % step
           up == mode = "up" \/ (mode = "nearest" /\ rem * 2 >= step)
           r == Normalize(v, decimals, mode)
<1>1. step \in Nat \ {0} /\ step <= MaxInt /\ MaxInt \in Nat
  BY TickFits, WidthsAssumption
<1>2. rem \in 0..(step - 1) /\ rem <= v
  <2> HIDE DEF step
  <2>1. /\ v % step \in 0..(step - 1) /\ v % step = v - step * (v \div step)
        /\ v \div step \in Nat
    <3>1. v \in Int /\ v >= 0
      OBVIOUS
    <3> HIDE DEF up, r
    <3> QED BY <1>1, <3>1, DivisionExact
  <2>2. step * (v \div step) \in Nat
    BY <1>1, <2>1
  <2> QED BY <2>1, <2>2
<1>3. r = IF rem = 0 THEN v ELSE IF up THEN Wrap(v - rem + step) ELSE v - rem
  BY DEF Normalize, roundToStep
<1> HIDE DEF step, rem, r
<1>4. /\ v - rem + step \in Int /\ v - rem + step >= -(MaxInt + 1) /\ v - rem + step <= 2 * MaxInt
  BY <1>1, <1>2
<1>5. Wrap(v - rem + step) = IF v - rem + step <= MaxInt THEN v - rem + step
                             ELSE (v - rem + step) - 2 * (MaxInt + 1)
  <2>1. PICK x : x = v - rem + step
    OBVIOUS
  <2>2. Wrap(x) = IF x <= MaxInt THEN x ELSE x - 2 * (MaxInt + 1)
    BY <1>4, <2>1, WrapOf
  <2> QED BY <2>1, <2>2, Zenon
<1>6. r > 0
  BY DEF r
<1>7. r <= MaxInt /\ Near(r, v, step, mode)
  <2>1. CASE rem = 0
    BY <1>1, <1>3, <2>1 DEF Near
  <2>2. CASE rem # 0 /\ ~up
    <3>1. r = v - rem
      BY <1>3, <2>2
    <3>2. mode # "up" /\ (mode = "nearest" => 2 * rem < step)
      BY <1>1, <1>2, <2>2
    <3> HIDE DEF up
    <3> QED BY <1>1, <1>2, <3>1, <3>2 DEF Near
  <2>3. CASE rem # 0 /\ up
    <3>1. r = v - rem + step /\ r <= MaxInt
      <4>1. r = Wrap(v - rem + step)
        BY <1>3, <2>3
      <4> HIDE DEF up
      <4> QED BY <1>1, <1>2, <1>4, <1>5, <1>6, <4>1
    <3>2. mode # "down" /\ (mode = "nearest" => 2 * rem >= step)
      BY <1>1, <1>2, <2>3
    <3> HIDE DEF up
    <3> QED BY <1>1, <1>2, <2>3, <3>1, <3>2 DEF Near
  <2> QED BY <2>1, <2>2, <2>3
<1> QED
  BY <1>7 DEF r, step

\* A slippage price is beyond its reference, seen from the order.
LEMMA SlippageSide ==
  ASSUME NEW decimals \in Int, NEW reference \in Int, NEW bps \in Int, NEW parts \in Nat \ {0},
         NEW ask \in BOOLEAN, reference <= MaxInt,
         SlippagePrice(decimals, reference, ask, bps, parts) > 0
  PROVE  /\ SlippagePrice(decimals, reference, ask, bps, parts) <= MaxInt
         /\ bps >= 0 /\ reference * bps <= MaxInt =>
              IF ask THEN SlippagePrice(decimals, reference, ask, bps, parts) <= reference
              ELSE SlippagePrice(decimals, reference, ask, bps, parts) >= reference
<1> DEFINE r == SlippagePrice(decimals, reference, ask, bps, parts)
           moved == Wrap(reference * bps)
           delta == IF moved < 0 THEN -(Magnitude(moved) \div parts) ELSE moved \div parts
           v == IF ask THEN Wrap(reference - delta) ELSE Wrap(reference + delta)
           mode == IF ask THEN "down" ELSE "up"
<1>0. MaxInt \in Nat /\ mode \in {"down", "up", "nearest"}
  BY WidthsAssumption
<1>1. r = IF reference <= 0 THEN reference ELSE Normalize(v, decimals, mode)
  BY Zenon DEF SlippagePrice
<1>2. moved \in Int
  <2>1. PICK x \in Int : x = reference * bps
    OBVIOUS
  <2> QED BY <2>1, WrapIsInt
<1>3. delta \in Int
  <2> HIDE DEF moved
  <2>1. Magnitude(moved) \in Int
    BY <1>2 DEF Magnitude
  <2>2. Magnitude(moved) \div parts \in Int /\ moved \div parts \in Int
    BY <1>2, <2>1, DivisionExact
  <2> QED BY <2>2
<1> HIDE DEF moved
<1>4. v \in Int /\ v <= MaxInt
  <2> HIDE DEF delta
  <2>1. PICK x \in Int, y \in Int : x = reference - delta /\ y = reference + delta
    BY <1>3
  <2>2. Wrap(x) \in -(MaxInt + 1)..MaxInt /\ Wrap(y) \in -(MaxInt + 1)..MaxInt
    BY <2>1, WrapIsInt
  <2>3. v \in -(MaxInt + 1)..MaxInt
    BY <2>1, <2>2
  <2> HIDE DEF v
  <2> QED BY <1>0, <2>3
<1>5. r > 0 /\ r \in Int
  <2>1. r > 0
    OBVIOUS
  <2> HIDE DEF r, v, mode
  <2>2. Normalize(v, decimals, mode) \in Int
    BY <1>4, NormalizeIsInt
  <2> QED BY <1>1, <2>1, <2>2
<1> HIDE DEF r, v, mode, delta
<1>6. reference > 0 /\ r = Normalize(v, decimals, mode)
  BY <1>1, <1>5
<1>7. v > 0
  <2> SUFFICES ASSUME v <= 0 PROVE FALSE
    BY <1>4
  <2>1. Normalize(v, decimals, mode) = v
    BY DEF Normalize
  <2> QED BY <1>4, <1>5, <1>6, <2>1
<1>8. r <= MaxInt /\ Near(r, v, TickSize(decimals), mode)
  <2>1. Normalize(v, decimals, mode) > 0
    BY <1>5, <1>6
  <2> QED BY <1>0, <1>4, <1>6, <1>7, <2>1, NormalizeNear
<1>9. ASSUME bps >= 0, reference * bps <= MaxInt
      PROVE  IF ask THEN r <= reference ELSE r >= reference
  <2>1. reference * bps \in Nat
    BY <1>6, <1>9
  <2>2. moved = reference * bps
    <3>1. PICK x : x = reference * bps
      OBVIOUS
    <3>2. x \in Int /\ x >= -(MaxInt + 1) /\ x <= 2 * MaxInt /\ x <= MaxInt
      BY <1>0, <1>9, <2>1, <3>1
    <3>3. Wrap(x) = x
      BY <3>2, WrapOf
    <3> QED BY <3>1, <3>3 DEF moved
  <2>3. moved \in Nat /\ moved <= MaxInt
    BY <1>9, <2>1, <2>2
  <2>4. delta \in Nat /\ delta <= moved
    <3>1. moved >= 0 /\ delta = moved \div parts
      BY <2>3 DEF delta
    <3> DEFINE d == moved \div parts
    <3>2. d \in Nat /\ d * parts <= moved
      BY <1>2, <3>1, DivisionExact
    <3> HIDE DEF d
    <3>3. d <= d * parts
      BY <3>2
    <3>4. d <= moved
      BY <2>3, <3>2, <3>3
    <3> QED BY <3>1, <3>2, <3>4 DEF d
  <2>5. CASE ask
    <3>1. PICK x : x = reference - delta
      OBVIOUS
    <3>2. x \in Int /\ x >= -(MaxInt + 1) /\ x <= MaxInt /\ x <= 2 * MaxInt /\ x <= reference
      BY <1>0, <1>6, <2>3, <2>4, <3>1
    <3>3. Wrap(x) = x
      BY <3>2, WrapOf
    <3>4. v = x /\ mode = "down"
      BY <2>5, <3>1, <3>3 DEF v, mode
    <3>5. r <= v
      BY <1>8, <3>4 DEF Near
    <3> QED BY <1>5, <2>5, <3>2, <3>4, <3>5
  <2>6. CASE ~ask
    <3>1. PICK x : x = reference + delta
      OBVIOUS
    <3>2. x \in Int /\ x >= -(MaxInt + 1) /\ x <= 2 * MaxInt /\ x >= reference
      BY <1>0, <1>6, <2>3, <2>4, <3>1
    <3>3. Wrap(x) = IF x <= MaxInt THEN x ELSE x - 2 * (MaxInt + 1)
      BY <3>2, WrapOf
    <3>4. v = Wrap(x) /\ mode = "up"
      BY <2>6, <3>1 DEF v, mode
    <3>5. v = x
      BY <1>0, <1>7, <3>2, <3>3, <3>4
    <3>6. r >= v
      BY <1>8, <3>4 DEF Near
    <3> QED BY <1>5, <2>6, <3>2, <3>5, <3>6
  <2> QED BY <2>5, <2>6
<1> QED
  BY <1>8, <1>9 DEF r

DecimalsOf(d) == Resolved(d.request.items[1].symbol).priceDecimals
\* The price of a text, and how far it is from what was written.
PricedFrom(d, size) ==
  /\ ~d.text.neg /\ size > 0 /\ ReadAs(d.text, size) /\ Price(d).value <= MaxInt
  /\ d.mode = "none" => Price(d).value = size
  /\ d.mode # "none" => Near(Price(d).value, size, TickSize(DecimalsOf(d)), d.mode)

LEMMA PriceOfText ==
  ASSUME NEW d \in Drafts, d.from = "text", Price(d).ok, Price(d).value > 0
  PROVE  \E size : PricedFrom(d, size)
<1> DEFINE v == ParseFixed(d.text).value  dec == DecimalsOf(d)
<1>1. /\ ParseFixed(d.text).ok
      /\ Price(d).value = IF d.mode = "none" THEN v ELSE Normalize(v, dec, d.mode)
  BY DEF Price, Ok, Fails, DecimalsOf
<1>2. /\ d.text \in [neg : BOOLEAN, int : Seq(Digits), frac : Seq(Digits)]
      /\ d.mode \in {"none", "down", "up", "nearest"} /\ Known(d.request.items[1].symbol)
  BY RequestsAssumption
<1>3. PICK size : ReadAs(d.text, size)
  BY <1>1, <1>2, ParseExact
<1>4. size \in Nat /\ size <= MaxInt /\ v = (IF d.text.neg THEN -1 ELSE 1) * size /\ MaxInt \in Nat
  BY <1>3, WidthsAssumption DEF ReadAs
<1> HIDE DEF v, dec
<1>5. v > 0
  <2> SUFFICES ASSUME ~(v > 0) PROVE FALSE
    OBVIOUS
  <2>1. v \in Int /\ v <= 0
    BY <1>4
  <2>2. Normalize(v, dec, d.mode) = v
    BY <2>1 DEF Normalize
  <2>3. Price(d).value = v
    BY <1>1, <2>2
  <2> QED BY <2>1, <2>3
<1>6. ~d.text.neg /\ v = size
  <2>1. d.text.neg => v = -1 * size
    BY <1>4
  <2>2. ~d.text.neg
    BY <1>4, <1>5, <2>1
  <2>3. v = 1 * size
    BY <1>4, <2>2
  <2> QED BY <1>4, <2>2, <2>3
<1>7. CASE d.mode = "none"
  <2>1. Price(d).value = size
    BY <1>1, <1>6, <1>7
  <2> QED BY <1>3, <1>4, <1>5, <1>6, <1>7, <2>1 DEF PricedFrom
<1>8. CASE d.mode # "none"
  <2>1. dec \in Int
    BY <1>2, ResolvedIsListed DEF dec, DecimalsOf
  <2>2. Price(d).value = Normalize(v, dec, d.mode)
    BY <1>1, <1>8
  <2>3. PICK mode \in {"down", "up", "nearest"} : mode = d.mode
    BY <1>2, <1>8
  <2>4. size \in Int /\ size > 0 /\ size <= MaxInt /\ Normalize(size, dec, mode) > 0
    BY <1>4, <1>5, <1>6, <2>2, <2>3
  <2>5. Normalize(size, dec, mode) <= MaxInt /\ Near(Normalize(size, dec, mode), size, TickSize(dec), mode)
    BY <2>1, <2>4, NormalizeNear
  <2>6. Price(d).value <= MaxInt /\ Near(Price(d).value, size, TickSize(DecimalsOf(d)), d.mode)
    BY <1>6, <2>2, <2>3, <2>5 DEF dec
  <2> QED BY <1>3, <1>6, <1>8, <2>4, <2>6 DEF PricedFrom
<1> QED
  BY <1>7, <1>8

\* A comparison of two numbers is one of their multiples.
LEMMA Scaled ==
  ASSUME NEW a \in Int, NEW b \in Int, NEW step \in Nat \ {0}, NEW c \in Nat \ {0}
  PROVE  /\ a <= b => a * c <= b * c
         /\ a - b < step /\ b - a < step => Magnitude(a * c - b * c) < step * c
         /\ 2 * (a - b) <= step /\ 2 * (b - a) <= step => 2 * Magnitude(a * c - b * c) <= step * c
<1>1. PICK e \in Int : e = a - b
  OBVIOUS
<1>2. a * c - b * c = e * c
  BY <1>1
<1>3. PICK x \in Int, y \in Int : x = e * c /\ y = step * c
  OBVIOUS
<1>4. \A p, q \in Int : p <= q => p * c <= q * c
  OBVIOUS
<1>5. \A p, q \in Int : p < q => p * c < q * c
  OBVIOUS
<1>6. a <= b => a * c <= b * c
  BY <1>4
<1>7. a - b < step /\ b - a < step => Magnitude(a * c - b * c) < step * c
  <2> HAVE a - b < step /\ b - a < step
  <2>1. e < step /\ -e < step
    BY <1>1
  <2>2. e * c < step * c /\ (-e) * c < step * c
    BY <1>5, <2>1
  <2>3. (-e) * c = -(e * c)
    OBVIOUS
  <2>4. x < y /\ -x < y
    BY <1>3, <2>2, <2>3
  <2>5. Magnitude(x) < y
    BY <2>4 DEF Magnitude
  <2> QED BY <1>2, <1>3, <2>5
<1>8. 2 * (a - b) <= step /\ 2 * (b - a) <= step => 2 * Magnitude(a * c - b * c) <= step * c
  <2> HAVE 2 * (a - b) <= step /\ 2 * (b - a) <= step
  <2>1. 2 * e <= step /\ -2 * e <= step
    BY <1>1
  <2>2. (2 * e) * c <= step * c /\ (-2 * e) * c <= step * c
    BY <1>4, <2>1
  <2>3. (2 * e) * c = 2 * (e * c) /\ (-2 * e) * c = -2 * (e * c)
    OBVIOUS
  <2>4. 2 * x <= y /\ -2 * x <= y
    BY <1>3, <2>2, <2>3
  <2>5. 2 * Magnitude(x) <= y
    BY <2>4 DEF Magnitude
  <2> QED BY <1>2, <1>3, <2>5
<1> QED
  BY <1>6, <1>7, <1>8
-----------------------------------------------------------------------------
(***************************************************************************)
(* Figures                                                                 *)
(***************************************************************************)
\* The request of a draft is its request with its price, or there is none.
DraftInv ==
  /\ stage = "ask" => draft = None
  /\ draft # None =>
       /\ draft \in Drafts
       /\ \/ Price(draft).ok /\ req = [draft.request EXCEPT !.items[1].price = Price(draft).value]
          \/ stage = "done" /\ wire = <<>>

LEMMA DraftStep ==
  ASSUME DraftInv, SentInv, [Next]_vars
  PROVE  DraftInv'
<1> USE DEF DraftInv
<1>1. CASE UNCHANGED vars
  BY <1>1 DEF vars
<1>2. CASE Ask
  BY <1>2 DEF Ask
<1>3. CASE Draft
  <2>1. draft' \in Drafts /\ stage' # "ask" /\ wire' = <<>>
    BY <1>3 DEF Draft, SentInv
  <2>2. CASE Price(draft').ok
    <3>1. req' = [draft'.request EXCEPT !.items[1].price = Price(draft').value]
      BY <1>3, <2>2 DEF Draft
    <3>2. Price(draft') = Price(draft)'
      BY DEF Price
    <3> QED BY <2>1, <2>2, <3>1, <3>2
  <2>3. CASE ~Price(draft').ok
    <3>1. stage' = "done"
      BY <1>3, <2>3 DEF Draft
    <3> QED BY <2>1, <3>1
  <2> QED BY <2>2, <2>3
<1>4. CASE Refuse
  BY <1>4 DEF Refuse
<1>5. CASE Prepare
  BY <1>5 DEF Prepare
<1>6. CASE Decide
  BY <1>6 DEF Decide
<1>7. CASE Tell
  BY <1>7 DEF Tell
<1> QED
  BY <1>1, <1>2, <1>3, <1>4, <1>5, <1>6, <1>7 DEF Next

LEMMA DraftAlways == Spec => []DraftInv
<1>1. Init => DraftInv
  BY DEF Init, DraftInv
<1>2. SentInv /\ DraftInv /\ [Next]_vars => DraftInv'
  BY DraftStep
<1> QED
  BY <1>1, <1>2, SentAlways, PTL DEF Spec

\* What is sent for a draft is its price.
SentPrice(sent) ==
  /\ draft \in Drafts /\ Price(draft).ok /\ sent = Price(draft).value /\ sent > 0
  /\ req.items[1].symbol = draft.request.items[1].symbol
  /\ req.items[1].ask = draft.request.items[1].ask
  /\ DecimalsOf(draft) \in Int /\ draft.request.items[1].ask \in BOOLEAN

LEMMA DraftIsSent ==
  ASSUME SentInv, DraftInv, draft # None, wire # <<>>
  PROVE  SentPrice(Worth(wire[1].info.body.Price, Resolved(req.items[1].symbol).priceDecimals))
<1> DEFINE item == req.items[1]  m == Resolved(item.symbol)  b == wire[1].info.body
           asked == draft.request.items[1]
<1>1. /\ draft \in Drafts /\ Price(draft).ok
      /\ req = [draft.request EXCEPT !.items[1].price = Price(draft).value]
  BY DEF DraftInv
<1>2. /\ draft.request \in Placements /\ Len(draft.request.items) = 1 /\ Known(asked.symbol)
  BY <1>1, RequestsAssumption
<1>3. /\ draft.request.do = "CreateOrder" /\ draft.request.items \in Seq(OrderRequests)
      /\ asked \in OrderRequests
  BY <1>2 DEF Placements
<1>4. Price(draft).value \in Int
  BY <1>1, PriceIsInt
<1>5. /\ req.do = "CreateOrder" /\ item = [asked EXCEPT !.price = Price(draft).value]
  BY <1>1, <1>2, <1>3 DEF Placements
<1> HIDE DEF item, asked
<1>6. /\ item \in OrderRequests /\ item.price = Price(draft).value /\ item.symbol = asked.symbol
      /\ item.ask = asked.ask /\ asked.ask \in BOOLEAN
  BY <1>3, <1>4, <1>5 DEF OrderRequests
<1>7. Items(req)[1] = item
  BY <1>5 DEF Items, item
<1>8. 1 \in 1..Len(wire)
  <2>1. Len(wire) = Len(Items(req)) /\ Items(req) = req.items
    BY <1>5, WiresOfItems DEF Items
  <2>2. Len(req.items) = 1
    BY <1>1, <1>2, <1>3 DEF Placements
  <2> QED BY <2>1, <2>2
<1>9. OnWire(1)
  BY <1>8, WireIsOfSource
<1>10. Transaction(req, item) = orderWire(item)
  BY <1>5 DEF Transaction
<1>11. orderWire(item).ok /\ b = Fields(Source(1)) /\ Source(1) = orderWire(item).value
  BY <1>7, <1>9, <1>10 DEF OnWire, Source
<1>12. orderWire(item).value.type = "CreateOrder"
  BY <1>6, <1>11, OrderWireShape
<1>13. OrderValid(orderWire(item).value.order)
  BY <1>9, <1>11, <1>12 DEF OnWire
<1>14. b = OrderFields(orderWire(item).value.order)
  BY <1>11, <1>12 DEF Fields
<1>15. Places(item, b)
  BY <1>6, <1>11, <1>13, <1>14, PlacedAsAsked
<1>16. Worth(b.Price, m.priceDecimals) = item.price
  BY <1>15 DEF Places
<1>17. m.priceDecimals \in Int
  BY <1>2, <1>6, ResolvedIsListed
<1>18. item.price > 0
  <2>1. ToWire(item.price, m.priceDecimals, MaxWirePrice).ok
    BY <1>6, <1>11, OrderWireTyped DEF WirePrice
  <2>2. item.price \in Int /\ MaxWirePrice \in Int
    BY <1>4, <1>6, WidthsAssumption
  <2> QED BY <1>17, <2>1, <2>2, ToWireIsExact
<1> QED
  BY <1>1, <1>6, <1>16, <1>17, <1>18 DEF SentPrice, DecimalsOf, item, asked

LEMMA PriceFits ==
  ASSUME NEW d \in Drafts, Price(d).ok, Price(d).value > 0, DecimalsOf(d) \in Int,
         d.request.items[1].ask \in BOOLEAN
  PROVE  /\ Price(d).value <= MaxInt
         /\ d.from = "reference" /\ d.bps >= 0 /\ d.reference * d.bps <= MaxInt =>
              IF d.request.items[1].ask THEN Price(d).value <= d.reference
              ELSE Price(d).value >= d.reference
<1>1. d.from = "text" \/ d.from = "reference"
  BY RequestsAssumption
<1>2. CASE d.from = "text"
  <2>1. PICK size : PricedFrom(d, size)
    BY <1>2, PriceOfText
  <2> QED BY <1>2, <2>1 DEF PricedFrom
<1>3. CASE d.from = "reference"
  <2> DEFINE ask == d.request.items[1].ask  dec == DecimalsOf(d)
  <2>1. Price(d).value = SlippagePrice(dec, d.reference, ask, d.bps, d.parts)
    BY <1>3 DEF Price, Ok, DecimalsOf
  <2>2. d.reference \in Int /\ d.reference <= MaxInt /\ d.bps \in Int /\ d.parts \in Nat \ {0}
    BY <1>3, RequestsAssumption, WidthsAssumption
  <2>3. ask \in BOOLEAN /\ dec \in Int /\ SlippagePrice(dec, d.reference, ask, d.bps, d.parts) > 0
    BY <2>1
  <2> HIDE DEF ask, dec
  <2>4. /\ SlippagePrice(dec, d.reference, ask, d.bps, d.parts) <= MaxInt
        /\ d.bps >= 0 /\ d.reference * d.bps <= MaxInt =>
             IF ask THEN SlippagePrice(dec, d.reference, ask, d.bps, d.parts) <= d.reference
             ELSE SlippagePrice(dec, d.reference, ask, d.bps, d.parts) >= d.reference
    BY <2>2, <2>3, SlippageSide
  <2> QED BY <2>1, <2>4 DEF ask
<1> QED
  BY <1>1, <1>2, <1>3

(* Any price, as text of any length or from any reference, for any number of  *)
(* decimals and any widths: FiguresKept (types/fixed.go, precision.go,        *)
(* perpetuals/market.go).                                                     *)
THEOREM FiguresAreKept == Spec => []FiguresKept
<1>1. SentInv /\ DraftInv => FiguresKept
  <2> SUFFICES ASSUME SentInv, DraftInv, draft # None, wire # <<>>
               PROVE  FiguresKept
    BY DEF FiguresKept
  <2> DEFINE m == Resolved(req.items[1].symbol)  w == wire[1].info.body.Price
             sent == Worth(w, m.priceDecimals)
             places == Len(draft.text.frac)
             written == ValueOf(draft.text.int \o draft.text.frac) * FixedScale
             c == pow10[places]
             step == TickSize(m.priceDecimals)
  <2>1. SentPrice(sent)
    BY DraftIsSent
  <2>2. /\ draft \in Drafts /\ Price(draft).ok /\ sent = Price(draft).value /\ sent > 0
        /\ m.priceDecimals = DecimalsOf(draft) /\ m.priceDecimals \in Int
        /\ req.items[1].ask = draft.request.items[1].ask /\ draft.request.items[1].ask \in BOOLEAN
    <3> HIDE DEF sent
    <3> QED BY <2>1 DEF SentPrice, DecimalsOf
  <2>3. sent \in Int /\ MaxInt \in Nat /\ step \in Nat \ {0}
    <3> HIDE DEF sent, m
    <3> QED BY <2>2, PriceIsInt, WidthsAssumption, TickFits
  <2>4. /\ sent <= MaxInt
        /\ draft.from = "reference" /\ draft.bps >= 0 /\ draft.reference * draft.bps <= MaxInt =>
             IF req.items[1].ask THEN sent <= draft.reference ELSE sent >= draft.reference
    <3> HIDE DEF sent, m
    <3> QED BY <2>2, PriceFits
  <2>5. UnmarshalFixed(AppendWire(FromWire(w, m.priceDecimals))) = Ok(sent)
    <3>1. FromWire(w, m.priceDecimals) = Wrap(sent)
      BY DEF FromWire, Worth
    <3> HIDE DEF sent, m, w
    <3>2. sent >= -(MaxInt + 1) /\ sent <= 2 * MaxInt /\ sent \in Nat
      BY <2>2, <2>3, <2>4
    <3>3. Wrap(sent) = sent
      BY <2>3, <2>4, <3>2, WrapOf
    <3>4. UnmarshalFixed(AppendWire(sent)) = Ok(sent)
      BY <2>4, <3>2, PrintParse
    <3> QED BY <3>1, <3>3, <3>4
  <2>6. ASSUME draft.from = "text"
        PROVE  /\ ~draft.text.neg
               /\ CASE draft.mode = "none" -> sent * c = written
                    [] draft.mode = "down" -> sent * c <= written
                    [] draft.mode = "up" -> sent * c >= written
                    [] draft.mode = "nearest" -> 2 * Magnitude(sent * c - written) <= step * c
               /\ Magnitude(sent * c - written) < step * c
    <3> HIDE DEF sent, m
    <3>1. PICK size : PricedFrom(draft, size)
      BY <2>2, <2>6, PriceOfText
    <3>2. /\ ~draft.text.neg /\ size \in Int /\ written = size * c
          /\ draft.mode = "none" => sent = size
          /\ draft.mode # "none" => Near(sent, size, step, draft.mode)
      BY <2>2, <3>1 DEF PricedFrom, ReadAs
    <3>3. c \in Nat \ {0}
      <4>1. draft.text.frac \in Seq(Digits)
        BY <2>2, <2>6, RequestsAssumption
      <4>2. places \in Nat
        BY <4>1
      <4> QED BY <4>2, PowersOfTen
    <3>4. draft.mode \in {"none", "down", "up", "nearest"}
      BY <2>2, <2>6, RequestsAssumption
    <3> HIDE DEF c, written, step, places
    <3>5. /\ sent <= size => sent * c <= written
          /\ size <= sent => written <= sent * c
          /\ sent - size < step /\ size - sent < step => Magnitude(sent * c - written) < step * c
          /\ 2 * (sent - size) <= step /\ 2 * (size - sent) <= step =>
               2 * Magnitude(sent * c - written) <= step * c
      BY <2>3, <3>2, <3>3, Scaled
    <3>6. CASE draft.mode = "none"
      <4>1. sent = size /\ sent * c = written
        BY <3>2, <3>6
      <4>2. sent - size < step /\ size - sent < step
        BY <2>3, <4>1
      <4> QED BY <3>2, <3>5, <3>6, <4>1, <4>2
    <3>7. CASE draft.mode # "none"
      <4>1. /\ sent - size < step /\ size - sent < step
            /\ draft.mode = "down" => sent <= size
            /\ draft.mode = "up" => sent >= size
            /\ draft.mode = "nearest" => 2 * (sent - size) <= step /\ 2 * (size - sent) <= step
        BY <3>2, <3>7 DEF Near
      <4>2. draft.mode = "up" => size <= sent
        BY <2>3, <3>2, <4>1
      <4>3. sent * c \in Int /\ written \in Int
        BY <2>3, <3>2, <3>3
      <4>4. /\ draft.mode = "down" => sent * c <= written
            /\ draft.mode = "up" => sent * c >= written
            /\ draft.mode = "nearest" => 2 * Magnitude(sent * c - written) <= step * c
            /\ Magnitude(sent * c - written) < step * c
        BY <3>5, <4>1, <4>2, <4>3
      <4> QED BY <3>2, <3>4, <3>7, <4>4
    <3> QED BY <3>6, <3>7
  <2> HIDE DEF c, written, places
  <2>7. FiguresKept
    BY <2>4, <2>5, <2>6 DEF FiguresKept, c, written, places
  <2> QED BY <2>7
<1> QED
  BY <1>1, SentAlways, DraftAlways, PTL
=============================================================================
