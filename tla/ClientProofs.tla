----------------------------- MODULE ClientProofs -----------------------------
(***************************************************************************)
(* Proofs about Registry and AuthToken, each alone, and about Queries,     *)
(* which composes them: whatever the reads of a section do, in whatever    *)
(* order, the two run as they would alone and keep what is shown of them.  *)
(***************************************************************************)
EXTENDS Queries, FoldLemmas, TLAPS

(***************************************************************************)
(* The registry, for any listings, any number of calls that Get the        *)
(* markets and of goroutines that Refresh them.                            *)
(***************************************************************************)
Loads(t) == at[t] \in {"load", "store"}

\* A load is under way exactly at the holder of loadMu.
MutexInv == \A t \in Threads : Loads(t) <=> loadMu = t

\* An answer in hand is no older than the snapshot it will replace.
AgeInv == /\ current <= listed
          /\ \A t \in Threads : at[t] = "store" => current <= got[t] /\ got[t] <= listed

LoadInv == RegistryTypeOK /\ MutexInv /\ AgeInv /\ LoadsShared

LEMMA LoadInvInit == RegistryInit => LoadInv
<1> SUFFICES ASSUME RegistryInit PROVE LoadInv
  OBVIOUS
<1>1. Len(Listings) \in Nat /\ Len(Listings) >= 1
  BY RegistryAssumption
<1> QED
  BY <1>1, RegistryAssumption
  DEF RegistryInit, LoadInv, RegistryTypeOK, MutexInv, AgeInv, LoadsShared, Loads, Threads

LEMMA LoadInvStep ==
  ASSUME LoadInv, [RegistryNext]_registryVars
  PROVE  LoadInv'
<1>0. Len(Listings) \in Nat /\ Readers \subseteq Threads /\ Refreshers \subseteq Threads
      /\ NoOne \notin Threads /\ Readers \cap Refreshers = {}
  BY RegistryAssumption DEF Threads
<1> USE <1>0 DEF LoadInv, RegistryTypeOK, MutexInv, AgeInv, LoadsShared, Loads
<1>1. CASE UNCHANGED registryVars
  BY <1>1 DEF registryVars
<1>2. CASE Relist
  BY <1>2 DEF Relist
<1>3. ASSUME NEW t \in Readers, Get(t) PROVE LoadInv'
  BY <1>3 DEF Get
<1>4. ASSUME NEW t \in Refreshers, Refresh(t) PROVE LoadInv'
  BY <1>4 DEF Refresh
<1>5. ASSUME NEW t \in Threads, Lock(t) PROVE LoadInv'
  <2>1. CASE t \in Readers /\ current # 0
    <3>1. /\ have' = [have EXCEPT ![t] = current] /\ at' = [at EXCEPT ![t] = "out"]
          /\ UNCHANGED <<loadMu, listed, current, got>> /\ at[t] = "queue"
      BY <1>5, <2>1 DEF Lock
    <3>2. \A u \in Threads : at'[u] = IF u = t THEN "out" ELSE at[u]
      BY <3>1
    <3>3. RegistryTypeOK'
      BY <2>1, <3>1
    <3>4. MutexInv' /\ LoadsShared'
      BY <3>1, <3>2
    <3>5. AgeInv'
      BY <3>1, <3>2
    <3> QED BY <3>3, <3>4, <3>5
  <2>2. CASE ~(t \in Readers /\ current # 0)
    BY <1>5, <2>2 DEF Lock
  <2> QED BY <2>1, <2>2
<1>6. ASSUME NEW t \in Threads, Load(t) PROVE LoadInv'
  BY <1>6 DEF Load
<1>7. ASSUME NEW t \in Threads, LoadFails(t) PROVE LoadInv'
  BY <1>7 DEF LoadFails
<1>8. ASSUME NEW t \in Threads, Store(t) PROVE LoadInv'
  BY <1>8 DEF Store
<1> QED
  BY <1>1, <1>2, <1>3, <1>4, <1>5, <1>6, <1>7, <1>8 DEF RegistryNext, LoadStep

LEMMA LoadInvAlways == RegistrySpec => []LoadInv
  BY LoadInvInit, LoadInvStep, PTL DEF RegistrySpec

\* Every variable of the registry keeps its type.
THEOREM RegistryTypeCorrect == RegistrySpec => []RegistryTypeOK
<1>1. LoadInv => RegistryTypeOK
  BY DEF LoadInv
<1> QED
  BY <1>1, LoadInvAlways, PTL

\* Once there is a snapshot, no Get asks the exchange again.
THEOREM FirstCallersShare == RegistrySpec => []LoadsShared
<1>1. LoadInv => LoadsShared
  BY DEF LoadInv
<1> QED
  BY <1>1, LoadInvAlways, PTL

\* A snapshot is never replaced by one of an older answer of the exchange.
THEOREM RegistryNeverGoesBack == RegistrySpec => MarketsNeverGoBack
<1>1. LoadInv /\ [RegistryNext]_registryVars => [current' >= current]_current
  <2> SUFFICES ASSUME LoadInv, RegistryNext, current' # current
               PROVE  current' >= current
    BY DEF registryVars
  <2>1. PICK t \in Threads : Store(t)
    BY DEF RegistryNext, Relist, Get, Refresh, LoadStep, Lock, Load, LoadFails
  <2> QED
    BY <2>1 DEF LoadInv, AgeInv, Store
<1> QED
  BY <1>1, LoadInvAlways, PTL DEF RegistrySpec, MarketsNeverGoBack
-----------------------------------------------------------------------------
(***************************************************************************)
(* The token cache, for any number of calls, any lifetime and any margin   *)
(* below it, however long a call waits for authMu.                         *)
(***************************************************************************)
\* Whoever was given a token judged it, or signed it, by the time it had read.
GivenInv == \A a \in Askers : asking[a] = "yes" => token[a] > now[a] + Margin

TokenInv == TokenTypeOK /\ GivenInv

LEMMA TokenInvInit == TokenInit => TokenInv
  BY DEF TokenInit, TokenInv, TokenTypeOK, GivenInv

LEMMA TokenInvStep ==
  ASSUME TokenInv, [TokenNext]_tokenVars
  PROVE  TokenInv'
<1> USE TokenAssumption DEF TokenInv, TokenTypeOK, GivenInv
<1>1. CASE UNCHANGED tokenVars
  BY <1>1 DEF tokenVars
<1>2. CASE Tick
  BY <1>2 DEF Tick
<1>3. CASE CloseKeys
  BY <1>3 DEF CloseKeys
<1>4. ASSUME NEW a \in Askers, AskToken(a) PROVE TokenInv'
  <2>1. CASE Fresh(clock)
    BY <1>4, <2>1 DEF AskToken, Give, Fresh
  <2>2. CASE ~Fresh(clock)
    BY <1>4, <2>2 DEF AskToken
  <2> QED
    BY <2>1, <2>2
<1>5. ASSUME NEW a \in Askers, Sign(a) PROVE TokenInv'
  <2>1. CASE Fresh(now[a])
    <3>1. Give(a, auth) /\ UNCHANGED <<clock, enabled, now, auth>>
      BY <1>5, <2>1 DEF Sign
    <3>2. auth > now[a] + Margin
      BY <2>1 DEF Fresh
    <3> QED
      BY <3>1, <3>2 DEF Give
  <2>2. CASE ~Fresh(now[a]) /\ ~enabled
    BY <1>5, <2>2 DEF Sign
  <2>3. CASE ~Fresh(now[a]) /\ enabled
    <3>1. /\ Give(a, now[a] + Lifetime) /\ auth' = now[a] + Lifetime
          /\ UNCHANGED <<clock, enabled, now>>
      BY <1>5, <2>3 DEF Sign
    <3> QED
      BY <3>1 DEF Give
  <2> QED
    BY <2>1, <2>2, <2>3
<1> QED
  BY <1>1, <1>2, <1>3, <1>4, <1>5 DEF TokenNext

LEMMA TokenInvAlways == TokenSpec => []TokenInv
  BY TokenInvInit, TokenInvStep, PTL DEF TokenSpec

\* Every variable of the token cache keeps its type.
THEOREM TokenTypeCorrect == TokenSpec => []TokenTypeOK
<1>1. TokenInv => TokenTypeOK
  BY DEF TokenInv
<1> QED
  BY <1>1, TokenInvAlways, PTL

\* A token given to a call is alive for Margin after the call began.
THEOREM TokenIsAlive == TokenSpec => []TokenLasts
<1>1. TokenInv => TokenLasts
  BY TokenAssumption DEF TokenInv, TokenTypeOK, GivenInv, TokenLasts
<1> QED
  BY <1>1, TokenInvAlways, PTL

\* A cached token is replaced only by one that lives longer.
THEOREM CacheNeverShortened == TokenSpec => TokenNeverShortened
<1>1. TokenInv /\ [TokenNext]_tokenVars => [auth' > auth]_auth
  <2> SUFFICES ASSUME TokenInv, TokenNext, auth' # auth
               PROVE  auth' > auth
    BY DEF tokenVars
  <2>1. PICK a \in Askers : Sign(a)
    BY DEF TokenNext, Tick, CloseKeys, AskToken
  <2>2. ~Fresh(now[a]) /\ auth' = now[a] + Lifetime
    BY <2>1 DEF Sign
  <2> QED
    BY <2>2, TokenAssumption DEF TokenInv, TokenTypeOK, Fresh
<1> QED
  BY <1>1, TokenInvAlways, PTL DEF TokenSpec, TokenNeverShortened
-----------------------------------------------------------------------------
(***************************************************************************)
(* The client.                                                             *)
(***************************************************************************)
\* The steps of a read that touch neither the registry nor the token.
Aside(c) == \/ Ensured(c) \/ Resolved(c) \/ Overrun(c) \/ Send(c) \/ NoToken(c)
            \/ Answer(c) \/ NoAnswer(c) \/ Judge(c) \/ Show(c)

LEMMA AsideTouchesNothing ==
  ASSUME NEW c \in Readers, Aside(c)
  PROVE  UNCHANGED <<registryVars, tokenVars>>
<1>1. CASE Ensured(c) BY <1>1 DEF Ensured
<1>2. CASE Resolved(c) BY <1>2 DEF Resolved
<1>3. CASE Overrun(c) BY <1>3 DEF Overrun
<1>4. CASE Send(c) BY <1>4 DEF Send
<1>5. CASE NoToken(c) BY <1>5 DEF NoToken
<1>6. CASE Answer(c) BY <1>6 DEF Answer
<1>7. CASE NoAnswer(c) BY <1>7 DEF NoAnswer
<1>8. CASE Judge(c) BY <1>8 DEF Judge
<1>9. CASE Show(c) BY <1>9 DEF Show
<1> QED
  BY <1>1, <1>2, <1>3, <1>4, <1>5, <1>6, <1>7, <1>8, <1>9 DEF Aside

\* Every step of the client is a step of the registry, or of the token cache, or of neither.
LEMMA OneAtATime ==
  ASSUME Next
  PROVE  \/ RegistryNext /\ UNCHANGED tokenVars
         \/ TokenNext /\ UNCHANGED registryVars
         \/ UNCHANGED <<registryVars, tokenVars>>
<1>1. ASSUME NEW c \in Readers, Call(c) PROVE UNCHANGED <<registryVars, tokenVars>>
  BY <1>1 DEF Call
<1>2. ASSUME NEW c \in Readers, GetRegistry(c) PROVE RegistryNext /\ UNCHANGED tokenVars
  BY <1>2 DEF GetRegistry, RegistryNext
<1>3. ASSUME NEW c \in Readers, Admit(c)
      PROVE  UNCHANGED registryVars /\ (TokenNext \/ UNCHANGED tokenVars)
  <2>1. UNCHANGED registryVars /\ (AskToken(c) \/ UNCHANGED tokenVars)
    BY <1>3 DEF Admit
  <2> QED
    BY <2>1, QueriesAssumption DEF TokenNext
<1>4. ASSUME NEW c \in Readers, SignToken(c) PROVE TokenNext /\ UNCHANGED registryVars
  BY <1>4, QueriesAssumption DEF SignToken, TokenNext
<1>5. ASSUME NEW c \in Readers, Aside(c) PROVE UNCHANGED <<registryVars, tokenVars>>
  BY <1>5, AsideTouchesNothing
<1>6. ASSUME NEW t \in Threads, Loading(t) PROVE RegistryNext /\ UNCHANGED tokenVars
  BY <1>6 DEF Loading, RegistryNext
<1>7. ASSUME NEW t \in Refreshers, Tock(t) PROVE RegistryNext /\ UNCHANGED tokenVars
  BY <1>7 DEF Tock, RegistryNext
<1>8. ASSUME NEW k \in Connections, Open(k) \/ ConnEnds(k) PROVE UNCHANGED <<registryVars, tokenVars>>
  BY <1>8 DEF Open, ConnEnds
<1>9. CASE LoopEnds \/ Close BY <1>9 DEF LoopEnds, Close
<1>10. CASE ZeroKeys BY <1>10 DEF ZeroKeys, TokenNext
<1>11. CASE Elsewhere BY <1>11 DEF Elsewhere, RegistryNext, TokenNext
<1>12. ASSUME NEW c \in Readers, Proceed(c)
       PROVE  GetRegistry(c) \/ Admit(c) \/ SignToken(c) \/ Aside(c)
  BY <1>12 DEF Proceed, Aside
<1> QED
  BY <1>1, <1>2, <1>3, <1>4, <1>5, <1>6, <1>7, <1>8, <1>9, <1>10, <1>11, <1>12 DEF Next

\* Within the client the registry behaves as Registry specifies.
THEOREM ClientRunsRegistry == Spec => RegistrySpec
<1>1. Init => RegistryInit
  BY DEF Init
<1>2. [Next]_vars => [RegistryNext]_registryVars
  BY OneAtATime DEF vars
<1> QED
  BY <1>1, <1>2, PTL DEF Spec, RegistrySpec

\* Within the client the token cache behaves as AuthToken specifies.
THEOREM ClientRunsToken == Spec => TokenSpec
<1>1. Init => TokenInit
  BY DEF Init
<1>2. [Next]_vars => [TokenNext]_tokenVars
  BY OneAtATime DEF vars
<1> QED
  BY <1>1, <1>2, PTL DEF Spec, TokenSpec

\* No refresh, load or first call of the client replaces the markets by older ones.
THEOREM ClientMarketsNeverGoBack == Spec => MarketsNeverGoBack
  BY ClientRunsRegistry, RegistryNeverGoesBack, PTL

\* However long a private call waits, its token is alive for Margin after it asked.
THEOREM ClientTokensLast == Spec => TokensLast
  BY ClientRunsToken, TokenIsAlive, CacheNeverShortened, PTL DEF TokensLast
-----------------------------------------------------------------------------
(***************************************************************************)
(* What a read shows.  A side of a book first: the levels made of the      *)
(* orders one by one, and the sums over both, as sequences of values.      *)
(***************************************************************************)
Order == [price : Nat, left : Int]
Level == [price : Nat, size : Nat]
RestingOf(sum, o, p) == IF o.price = p /\ o.left > 0 THEN sum + o.left ELSE sum
TotalOf(sum, l, p) == IF l.price = p THEN sum + l.size ELSE sum

\* The indices of a prefix, as the folds take them.
LEMMA PrefixSets ==
  ASSUME NEW n \in Nat, NEW k \in 1..n
  PROVE  /\ 1..k \in SUBSET (1..n) /\ 1..k # {} /\ Max(1..k) = k
         /\ (1..k) \ {k} = 1..(k - 1)
<1>1. 1..k \in SUBSET (1..n) /\ k \in 1..k /\ 1..k # {} /\ k \in Nat
  <2>1. k \in Nat /\ k <= n /\ k \in 1..k
    OBVIOUS
  <2>2. \A x : x \in 1..k => x \in 1..n
    BY <2>1
  <2> QED BY <2>1, <2>2, Zenon
<1>2. Max(1..k) \in 1..k /\ k <= Max(1..k)
  <2>1. 1..k \in SUBSET (1..k) BY <1>1
  <2> QED BY <1>1, <2>1, MaxOfIndices
<1>3. \A x : x \in (1..k) \ {k} <=> x \in 1..(k - 1)
  BY <1>1
<1>4. (1..k) \ {k} = 1..(k - 1)
  BY <1>3, Zenon
<1>5. Max(1..k) = k
  BY <1>2
<1> QED
  BY <1>1, <1>4, <1>5

\* An order added to the levels: left out, joined to the last, or a new one.
LEMMA AddOrderIs ==
  ASSUME NEW s \in Seq(Level), NEW o \in Order
  PROVE  /\ AddOrder(s, o) \in Seq(Level)
         /\ o.left <= 0 => AddOrder(s, o) = s
         /\ o.left > 0 /\ s # <<>> /\ s[Len(s)].price = o.price =>
              /\ Len(AddOrder(s, o)) = Len(s)
              /\ \A i \in 1..(Len(s) - 1) : AddOrder(s, o)[i] = s[i]
              /\ AddOrder(s, o)[Len(s)] = [price |-> o.price, size |-> s[Len(s)].size + o.left]
         /\ o.left > 0 /\ ~(s # <<>> /\ s[Len(s)].price = o.price) =>
              AddOrder(s, o) = Append(s, [price |-> o.price, size |-> o.left])
<1>0. o.left \in Int /\ o.price \in Nat /\ Len(s) \in Nat
  BY DEF Order
<1>1. CASE o.left <= 0
  <2>1. AddOrder(s, o) = s
    BY <1>0, <1>1 DEF AddOrder
  <2> QED BY <1>0, <1>1, <2>1
<1>2. CASE o.left > 0 /\ s # <<>> /\ s[Len(s)].price = o.price
  <2> DEFINE l == [price |-> o.price, size |-> s[Len(s)].size + o.left]
  <2>1. Len(s) \in 1..Len(s) /\ s[Len(s)] \in Level
    BY <1>0, <1>2
  <2>2. l \in Level
    BY <1>0, <1>2, <2>1 DEF Level
  <2>3. AddOrder(s, o) = [s EXCEPT ![Len(s)] = l]
    BY <1>0, <1>2 DEF AddOrder, Last, ReplaceAt
  <2> HIDE DEF l
  <2> DEFINE r == [s EXCEPT ![Len(s)] = l]
  <2>4. r \in Seq(Level) /\ Len(r) = Len(s) /\ r[Len(s)] = l
        /\ \A i \in 1..(Len(s) - 1) : r[i] = s[i]
    BY <1>0, <2>1, <2>2
  <2> HIDE DEF r
  <2>5. AddOrder(s, o) = r
    BY <2>3 DEF r
  <2> QED BY <1>0, <1>2, <2>4, <2>5 DEF l
<1>3. CASE o.left > 0 /\ ~(s # <<>> /\ s[Len(s)].price = o.price)
  <2>1. AddOrder(s, o) = Append(s, [price |-> o.price, size |-> o.left])
    BY <1>0, <1>3 DEF AddOrder, Last
  <2>2. [price |-> o.price, size |-> o.left] \in Level
    BY <1>0, <1>3 DEF Level
  <2> QED BY <1>0, <1>3, <2>1, <2>2
<1> QED
  BY <1>0, <1>1, <1>2, <1>3

LEMMA AggregateRuns ==
  ASSUME NEW b \in Seq(Order)
  PROVE  \E g \in [0..Len(b) -> Seq(Level)] :
           /\ g[0] = <<>> /\ \A k \in 1..Len(b) : g[k] = AddOrder(g[k - 1], b[k])
           /\ aggregateLevels(b) = g[Len(b)]
<1> DEFINE n == Len(b)
           Taken(f, s) == IF s = {} THEN <<>> ELSE AddOrder(f[s \ {Max(s)}], b[Max(s)])
           IsFold(f) == f = [s \in SUBSET (1..n) |-> Taken(f, s)]
           fold == CHOOSE f : IsFold(f)
           step == [x \in Seq(Level) \X (1..n) |-> AddOrder(x[1], b[x[2]])]
           g == [k \in 0..n |-> fold[1..k]]
<1>0. n \in Nat /\ DOMAIN b = 1..n /\ \A i \in 1..n : b[i] \in Order
  OBVIOUS
<1>1. aggregateLevels(b) = fold[1..n]
  BY <1>0 DEF aggregateLevels, FoldLeft, MapThenFoldSet
<1>2. \E f : IsFold(f)
  <2>1. step \in [Seq(Level) \X (1..n) -> Seq(Level)]
    <3>1. \A x \in Seq(Level) \X (1..n) : AddOrder(x[1], b[x[2]]) \in Seq(Level)
      BY <1>0, AddOrderIs
    <3> QED BY <3>1
  <2>2. <<>> \in Seq(Level)
    OBVIOUS
  <2>3. PICK f \in [SUBSET (1..n) -> Seq(Level)] : FoldsWith(f, n, <<>>, step)
    <3> HIDE DEF n, step
    <3> QED BY <1>0, <2>1, <2>2, FoldExists
  <2>4. ASSUME NEW s \in SUBSET (1..n) PROVE f[s] = Taken(f, s)
    <3>1. CASE s = {}
      BY <2>3, <3>1 DEF FoldsWith
    <3>2. CASE s # {}
      <4>1. Max(s) \in 1..n /\ s \ {Max(s)} \in SUBSET (1..n)
        BY <1>0, <3>2, MaxOfIndices
      <4>2. f[s] = step[<<f[s \ {Max(s)}], Max(s)>>]
        BY <2>3, <3>2 DEF FoldsWith
      <4>3. f[s \ {Max(s)}] \in Seq(Level)
        BY <2>3, <4>1
      <4>4. <<f[s \ {Max(s)}], Max(s)>> \in Seq(Level) \X (1..n)
        BY <4>1, <4>3
      <4> QED BY <3>2, <4>2, <4>4
    <3> QED BY <3>1, <3>2
  <2>5. IsFold(f)
    <3> HIDE DEF Taken
    <3>1. f = [s \in SUBSET (1..n) |-> f[s]]
      BY <2>3
    <3> QED BY <2>4, <3>1
  <2> QED BY <2>5
<1>3. IsFold(fold)
  <2> HIDE DEF IsFold
  <2> QED BY <1>2
<1> HIDE DEF fold, step
<1>4. \A s \in SUBSET (1..n) : fold[s] = Taken(fold, s)
  <2> HIDE DEF Taken
  <2>1. fold = [s \in SUBSET (1..n) |-> Taken(fold, s)]
    BY <1>3
  <2> DEFINE F == [s \in SUBSET (1..n) |-> Taken(fold, s)]
  <2>2. \A s \in SUBSET (1..n) : F[s] = Taken(fold, s)
    OBVIOUS
  <2> HIDE DEF F
  <2> QED BY <2>1, <2>2 DEF F
<1>5. g[0] = <<>>
  <2>1. 1..0 = {} /\ 1..0 \in SUBSET (1..n)
    BY <1>0
  <2>2. fold[1..0] = <<>>
    BY <1>4, <2>1
  <2> QED BY <1>0, <2>2
<1>6. ASSUME NEW k \in 1..n PROVE g[k] = AddOrder(g[k - 1], b[k])
  <2>1. fold[1..k] = AddOrder(fold[1..(k - 1)], b[k])
    <3>1. /\ 1..k \in SUBSET (1..n) /\ 1..k # {} /\ Max(1..k) = k /\ (1..k) \ {k} = 1..(k - 1)
      BY <1>0, PrefixSets, Zenon
    <3>2. fold[1..k] = Taken(fold, 1..k)
      BY <1>4, <3>1
    <3> QED BY <3>1, <3>2
  <2>2. k \in 0..n /\ k - 1 \in 0..n
    BY <1>0
  <2> QED BY <2>1, <2>2
<1> HIDE DEF g
<1>7. \A k \in 0..n : g[k] \in Seq(Level)
  <2> DEFINE T == {k \in 0..n : g[k] \in Seq(Level)}
  <2>1. 0 \in T
    <3>1. <<>> \in Seq(Level)
      OBVIOUS
    <3>2. g[0] \in Seq(Level)
      BY <1>5, <3>1, Zenon
    <3>3. 0 \in 0..n
      BY <1>0
    <3> QED BY <3>2, <3>3, Zenon
  <2>2. ASSUME NEW k \in 1..n, k - 1 \in T PROVE k \in T
    <3>1. b[k] \in Order /\ g[k - 1] \in Seq(Level) /\ k \in 0..n
      BY <1>0, <2>2
    <3> QED BY <1>6, <3>1, AddOrderIs
  <2> HIDE DEF T
  <2>3. \A k \in 0..n : k \in T
    <3> HIDE DEF n
    <3> QED BY <1>0, <2>1, <2>2, BoundedInduction
  <2> QED BY <2>3 DEF T
<1>8. g \in [0..n -> Seq(Level)] /\ g[n] = fold[1..n]
  BY <1>0, <1>7 DEF g
<1> QED
  BY <1>1, <1>5, <1>6, <1>8

LEMMA RestingRuns ==
  ASSUME NEW b \in Seq(Order), NEW p
  PROVE  \E g \in [0..Len(b) -> Int] :
           /\ g[0] = 0 /\ \A k \in 1..Len(b) : g[k] = RestingOf(g[k - 1], b[k], p)
           /\ Resting(b, p) = g[Len(b)]
<1> DEFINE n == Len(b)
           Taken(f, s) == IF s = {} THEN 0 ELSE RestingOf(f[s \ {Max(s)}], b[Max(s)], p)
           IsFold(f) == f = [s \in SUBSET (1..n) |-> Taken(f, s)]
           fold == CHOOSE f : IsFold(f)
           step == [x \in Int \X (1..n) |-> RestingOf(x[1], b[x[2]], p)]
           g == [k \in 0..n |-> fold[1..k]]
<1>0. n \in Nat /\ DOMAIN b = 1..n /\ \A i \in 1..n : b[i] \in Order
  OBVIOUS
<1>1. Resting(b, p) = fold[1..n]
  BY <1>0 DEF Resting, RestingOf, FoldLeft, MapThenFoldSet
<1>a. \A sum \in Int, i \in 1..n : RestingOf(sum, b[i], p) \in Int
  BY <1>0 DEF RestingOf, Order
<1>2. \E f : IsFold(f)
  <2>1. step \in [Int \X (1..n) -> Int]
    BY <1>a
  <2>2. 0 \in Int
    OBVIOUS
  <2>3. PICK f \in [SUBSET (1..n) -> Int] : FoldsWith(f, n, 0, step)
    <3> HIDE DEF n, step
    <3> QED BY <1>0, <2>1, <2>2, FoldExists
  <2>4. ASSUME NEW s \in SUBSET (1..n) PROVE f[s] = Taken(f, s)
    <3>1. CASE s = {}
      BY <2>3, <3>1 DEF FoldsWith
    <3>2. CASE s # {}
      <4>1. Max(s) \in 1..n /\ s \ {Max(s)} \in SUBSET (1..n)
        BY <1>0, <3>2, MaxOfIndices
      <4>2. f[s] = step[<<f[s \ {Max(s)}], Max(s)>>]
        BY <2>3, <3>2 DEF FoldsWith
      <4>3. f[s \ {Max(s)}] \in Int
        BY <2>3, <4>1
      <4>4. <<f[s \ {Max(s)}], Max(s)>> \in Int \X (1..n)
        BY <4>1, <4>3
      <4> QED BY <3>2, <4>2, <4>4
    <3> QED BY <3>1, <3>2
  <2>5. IsFold(f)
    <3> HIDE DEF Taken
    <3>1. f = [s \in SUBSET (1..n) |-> f[s]]
      BY <2>3
    <3> QED BY <2>4, <3>1
  <2> QED BY <2>5
<1>3. IsFold(fold)
  <2> HIDE DEF IsFold
  <2> QED BY <1>2
<1> HIDE DEF fold, step
<1>4. \A s \in SUBSET (1..n) : fold[s] = Taken(fold, s)
  <2> HIDE DEF Taken
  <2>1. fold = [s \in SUBSET (1..n) |-> Taken(fold, s)]
    BY <1>3
  <2> DEFINE F == [s \in SUBSET (1..n) |-> Taken(fold, s)]
  <2>2. \A s \in SUBSET (1..n) : F[s] = Taken(fold, s)
    OBVIOUS
  <2> HIDE DEF F
  <2> QED BY <2>1, <2>2 DEF F
<1>5. g[0] = 0
  <2>1. 1..0 = {} /\ 1..0 \in SUBSET (1..n)
    BY <1>0
  <2>2. fold[1..0] = 0
    BY <1>4, <2>1
  <2> QED BY <1>0, <2>2
<1>6. ASSUME NEW k \in 1..n PROVE g[k] = RestingOf(g[k - 1], b[k], p)
  <2>1. fold[1..k] = RestingOf(fold[1..(k - 1)], b[k], p)
    <3>1. /\ 1..k \in SUBSET (1..n) /\ 1..k # {} /\ Max(1..k) = k /\ (1..k) \ {k} = 1..(k - 1)
      BY <1>0, PrefixSets, Zenon
    <3>2. fold[1..k] = Taken(fold, 1..k)
      BY <1>4, <3>1
    <3> QED BY <3>1, <3>2
  <2>2. k \in 0..n /\ k - 1 \in 0..n
    BY <1>0
  <2> QED BY <2>1, <2>2
<1> HIDE DEF g
<1>7. \A k \in 0..n : g[k] \in Int
  <2> DEFINE T == {k \in 0..n : g[k] \in Int}
  <2>1. 0 \in T
    BY <1>0, <1>5
  <2>2. ASSUME NEW k \in 1..n, k - 1 \in T PROVE k \in T
    <3>1. g[k - 1] \in Int /\ k \in 0..n
      BY <1>0, <2>2
    <3>2. g[k] \in Int
      BY <1>6, <1>a, <3>1
    <3> QED BY <3>1, <3>2
  <2> HIDE DEF T
  <2>3. \A k \in 0..n : k \in T
    <3> HIDE DEF n
    <3> QED BY <1>0, <2>1, <2>2, BoundedInduction
  <2> QED BY <2>3 DEF T
<1>8. g \in [0..n -> Int] /\ g[n] = fold[1..n]
  BY <1>0, <1>7 DEF g
<1> QED
  BY <1>1, <1>5, <1>6, <1>8

LEMMA TotalRuns ==
  ASSUME NEW b \in Seq(Level), NEW p
  PROVE  \E g \in [0..Len(b) -> Int] :
           /\ g[0] = 0 /\ \A k \in 1..Len(b) : g[k] = TotalOf(g[k - 1], b[k], p)
           /\ Total(b, p) = g[Len(b)]
<1> DEFINE n == Len(b)
           Taken(f, s) == IF s = {} THEN 0 ELSE TotalOf(f[s \ {Max(s)}], b[Max(s)], p)
           IsFold(f) == f = [s \in SUBSET (1..n) |-> Taken(f, s)]
           fold == CHOOSE f : IsFold(f)
           step == [x \in Int \X (1..n) |-> TotalOf(x[1], b[x[2]], p)]
           g == [k \in 0..n |-> fold[1..k]]
<1>0. n \in Nat /\ DOMAIN b = 1..n /\ \A i \in 1..n : b[i] \in Level
  OBVIOUS
<1>1. Total(b, p) = fold[1..n]
  BY <1>0 DEF Total, TotalOf, FoldLeft, MapThenFoldSet
<1>a. \A sum \in Int, i \in 1..n : TotalOf(sum, b[i], p) \in Int
  BY <1>0 DEF TotalOf, Level
<1>2. \E f : IsFold(f)
  <2>1. step \in [Int \X (1..n) -> Int]
    BY <1>a
  <2>2. 0 \in Int
    OBVIOUS
  <2>3. PICK f \in [SUBSET (1..n) -> Int] : FoldsWith(f, n, 0, step)
    <3> HIDE DEF n, step
    <3> QED BY <1>0, <2>1, <2>2, FoldExists
  <2>4. ASSUME NEW s \in SUBSET (1..n) PROVE f[s] = Taken(f, s)
    <3>1. CASE s = {}
      BY <2>3, <3>1 DEF FoldsWith
    <3>2. CASE s # {}
      <4>1. Max(s) \in 1..n /\ s \ {Max(s)} \in SUBSET (1..n)
        BY <1>0, <3>2, MaxOfIndices
      <4>2. f[s] = step[<<f[s \ {Max(s)}], Max(s)>>]
        BY <2>3, <3>2 DEF FoldsWith
      <4>3. f[s \ {Max(s)}] \in Int
        BY <2>3, <4>1
      <4>4. <<f[s \ {Max(s)}], Max(s)>> \in Int \X (1..n)
        BY <4>1, <4>3
      <4> QED BY <3>2, <4>2, <4>4
    <3> QED BY <3>1, <3>2
  <2>5. IsFold(f)
    <3> HIDE DEF Taken
    <3>1. f = [s \in SUBSET (1..n) |-> f[s]]
      BY <2>3
    <3> QED BY <2>4, <3>1
  <2> QED BY <2>5
<1>3. IsFold(fold)
  <2> HIDE DEF IsFold
  <2> QED BY <1>2
<1> HIDE DEF fold, step
<1>4. \A s \in SUBSET (1..n) : fold[s] = Taken(fold, s)
  <2> HIDE DEF Taken
  <2>1. fold = [s \in SUBSET (1..n) |-> Taken(fold, s)]
    BY <1>3
  <2> DEFINE F == [s \in SUBSET (1..n) |-> Taken(fold, s)]
  <2>2. \A s \in SUBSET (1..n) : F[s] = Taken(fold, s)
    OBVIOUS
  <2> HIDE DEF F
  <2> QED BY <2>1, <2>2 DEF F
<1>5. g[0] = 0
  <2>1. 1..0 = {} /\ 1..0 \in SUBSET (1..n)
    BY <1>0
  <2>2. fold[1..0] = 0
    BY <1>4, <2>1
  <2> QED BY <1>0, <2>2
<1>6. ASSUME NEW k \in 1..n PROVE g[k] = TotalOf(g[k - 1], b[k], p)
  <2>1. fold[1..k] = TotalOf(fold[1..(k - 1)], b[k], p)
    <3>1. /\ 1..k \in SUBSET (1..n) /\ 1..k # {} /\ Max(1..k) = k /\ (1..k) \ {k} = 1..(k - 1)
      BY <1>0, PrefixSets, Zenon
    <3>2. fold[1..k] = Taken(fold, 1..k)
      BY <1>4, <3>1
    <3> QED BY <3>1, <3>2
  <2>2. k \in 0..n /\ k - 1 \in 0..n
    BY <1>0
  <2> QED BY <2>1, <2>2
<1> HIDE DEF g
<1>7. \A k \in 0..n : g[k] \in Int
  <2> DEFINE T == {k \in 0..n : g[k] \in Int}
  <2>1. 0 \in T
    BY <1>0, <1>5
  <2>2. ASSUME NEW k \in 1..n, k - 1 \in T PROVE k \in T
    <3>1. g[k - 1] \in Int /\ k \in 0..n
      BY <1>0, <2>2
    <3>2. g[k] \in Int
      BY <1>6, <1>a, <3>1
    <3> QED BY <3>1, <3>2
  <2> HIDE DEF T
  <2>3. \A k \in 0..n : k \in T
    <3> HIDE DEF n
    <3> QED BY <1>0, <2>1, <2>2, BoundedInduction
  <2> QED BY <2>3 DEF T
<1>8. g \in [0..n -> Int] /\ g[n] = fold[1..n]
  BY <1>0, <1>7 DEF g
<1> QED
  BY <1>1, <1>5, <1>6, <1>8


\* One level more.
LEMMA TotalExtends ==
  ASSUME NEW s \in Seq(Level), NEW r \in Seq(Level), Len(r) = Len(s) + 1,
         \A i \in 1..Len(s) : r[i] = s[i], NEW p
  PROVE  Total(s, p) \in Int /\ Total(r, p) = TotalOf(Total(s, p), r[Len(r)], p)
<1> DEFINE n == Len(s)
<1>0. n \in Nat /\ Len(r) = n + 1
  OBVIOUS
<1>1. PICK g \in [0..n -> Int] : g[0] = 0 /\ (\A k \in 1..n : g[k] = TotalOf(g[k - 1], s[k], p))
                                 /\ Total(s, p) = g[n]
  BY TotalRuns
<1>2. PICK h \in [0..(n + 1) -> Int] :
         h[0] = 0 /\ (\A k \in 1..(n + 1) : h[k] = TotalOf(h[k - 1], r[k], p))
         /\ Total(r, p) = h[n + 1]
  BY <1>0, TotalRuns
<1> DEFINE T == {k \in 0..n : g[k] = h[k]}
<1>3. 0 \in T
  BY <1>0, <1>1, <1>2
<1>4. ASSUME NEW k \in 1..n, k - 1 \in T PROVE k \in T
  <2>1. k \in 0..n /\ k \in 1..(n + 1) /\ r[k] = s[k]
    BY <1>0
  <2>2. g[k] = TotalOf(g[k - 1], s[k], p) /\ h[k] = TotalOf(h[k - 1], r[k], p) /\ g[k - 1] = h[k - 1]
    BY <1>1, <1>2, <1>4, <2>1
  <2> QED BY <2>1, <2>2
<1>5. n \in T
  <2> HIDE DEF n, T
  <2>1. n \in 0..n BY <1>0
  <2> QED BY <1>0, <1>3, <1>4, <2>1, BoundedInduction
<1>6. n + 1 \in 1..(n + 1) /\ (n + 1) - 1 = n
  BY <1>0
<1>7. h[n + 1] = TotalOf(h[n], r[n + 1], p) /\ g[n] \in Int
  <2>1. n \in 0..n BY <1>0
  <2> QED BY <1>1, <1>2, <1>6, <2>1
<1> QED
  BY <1>0, <1>1, <1>2, <1>5, <1>7

\* An order adds to the total of its price what it adds to what rests there.
LEMMA TotalAdded ==
  ASSUME NEW s \in Seq(Level), NEW o \in Order, NEW p
  PROVE  Total(AddOrder(s, o), p) = RestingOf(Total(s, p), o, p)
<1> DEFINE r == AddOrder(s, o)
           n == Len(s)
<1>0. n \in Nat /\ r \in Seq(Level) /\ o.left \in Int /\ o.price \in Nat
  <2>1. r \in Seq(Level)
    BY AddOrderIs
  <2>2. o.left \in Int /\ o.price \in Nat
    BY DEF Order
  <2> QED BY <2>1, <2>2
<1>1. CASE o.left <= 0
  <2>1. r = s
    BY <1>1, AddOrderIs
  <2> QED BY <1>0, <1>1, <2>1 DEF RestingOf
<1>2. CASE o.left > 0 /\ s # <<>> /\ s[n].price = o.price
  <2> DEFINE t == SubSeq(s, 1, n - 1)
  <2>1. n >= 1 /\ t \in Seq(Level) /\ Len(t) = n - 1 /\ \A i \in 1..(n - 1) : t[i] = s[i]
    <3>1. n >= 1
      BY <1>2
    <3> DEFINE e == n - 1
    <3>2. e \in 0..Len(s)
      BY <1>0, <3>1
    <3>3. \A i \in 1..e : i \in 1..Len(s)
      BY <1>0
    <3> HIDE DEF e
    <3>4. SubSeq(s, 1, e) \in Seq(Level) /\ Len(SubSeq(s, 1, e)) = e
          /\ \A i \in 1..e : SubSeq(s, 1, e)[i] = s[i]
      BY <3>2, <3>3
    <3> QED BY <3>1, <3>4 DEF e
  <2>2. /\ Len(r) = n /\ \A i \in 1..(n - 1) : r[i] = s[i]
        /\ r[n] = [price |-> o.price, size |-> s[n].size + o.left]
    BY <1>2, AddOrderIs
  <2>3. s[n] \in Level /\ s[n].size \in Nat
    <3>1. n \in 1..n BY <1>0, <2>1
    <3>2. s[n] \in Level BY <3>1
    <3> QED BY <3>2 DEF Level
  <2> HIDE DEF r, t, n
  <2>4. Len(s) = Len(t) + 1 /\ \A i \in 1..Len(t) : s[i] = t[i]
    BY <1>0, <2>1 DEF n
  <2>5. Total(t, p) \in Int /\ Total(s, p) = TotalOf(Total(t, p), s[n], p)
    BY <2>1, <2>4, TotalExtends DEF n
  <2>6. Len(r) = Len(t) + 1 /\ \A i \in 1..Len(t) : r[i] = t[i]
    BY <1>0, <2>1, <2>2
  <2>7. Total(r, p) = TotalOf(Total(t, p), r[n], p)
    BY <1>0, <2>1, <2>2, <2>6, TotalExtends
  <2>8. r[n].price = o.price /\ r[n].size = s[n].size + o.left
    BY <2>2
  <2>9. Total(r, p) = RestingOf(Total(s, p), o, p)
    <3>1. CASE o.price = p
      BY <1>0, <1>2, <2>3, <2>5, <2>7, <2>8, <3>1 DEF TotalOf, RestingOf
    <3>2. CASE o.price # p
      BY <1>2, <2>5, <2>7, <2>8, <3>2 DEF TotalOf, RestingOf
    <3> QED BY <3>1, <3>2
  <2> QED BY <2>9 DEF r
<1>3. CASE o.left > 0 /\ ~(s # <<>> /\ s[n].price = o.price)
  <2> DEFINE l == [price |-> o.price, size |-> o.left]
  <2>1. r = Append(s, l) /\ l \in Level
    <3>1. r = Append(s, l)
      BY <1>3, AddOrderIs
    <3>2. l \in Level
      BY <1>0, <1>3 DEF Level
    <3> QED BY <3>1, <3>2
  <2>2. Len(r) = n + 1 /\ r[n + 1] = l /\ \A i \in 1..n : r[i] = s[i]
    <3> HIDE DEF l, r
    <3> QED BY <1>0, <2>1
  <2>3. Total(s, p) \in Int /\ Total(r, p) = TotalOf(Total(s, p), r[Len(r)], p)
    <3> HIDE DEF r, l
    <3> QED BY <1>0, <2>2, TotalExtends
  <2>4. TotalOf(Total(s, p), l, p) = RestingOf(Total(s, p), o, p)
    BY <1>3 DEF TotalOf, RestingOf
  <2> QED BY <2>2, <2>3, <2>4
<1> QED
  BY <1>0, <1>1, <1>2, <1>3

\* The levels of a book whose orders of one price are neighbours: each price
\* once, with everything that rests there, and nothing empty.
LEMMA LevelsAreFaithful ==
  ASSUME NEW b \in Seq(Order),
         \A i, j, k \in DOMAIN b :
           i < j /\ j < k /\ b[i].price = b[k].price => b[j].price = b[i].price
  PROVE  /\ \A p : Resting(b, p) = Total(aggregateLevels(b), p)
         /\ \A i, j \in 1..Len(aggregateLevels(b)) :
              i # j => aggregateLevels(b)[i].price # aggregateLevels(b)[j].price
         /\ \A l \in ToSet(aggregateLevels(b)) : l.size > 0
<1> DEFINE n == Len(b)
<1>0. n \in Nat /\ DOMAIN b = 1..n /\ \A i \in 1..n : b[i] \in Order
  OBVIOUS
<1>1. PICK a \in [0..n -> Seq(Level)] :
         /\ a[0] = <<>> /\ \A k \in 1..n : a[k] = AddOrder(a[k - 1], b[k])
         /\ aggregateLevels(b) = a[n]
  BY AggregateRuns
<1>2. ASSUME NEW p PROVE Resting(b, p) = Total(a[n], p)
  <2>1. PICK g \in [0..n -> Int] :
           g[0] = 0 /\ (\A k \in 1..n : g[k] = RestingOf(g[k - 1], b[k], p)) /\ Resting(b, p) = g[n]
    BY RestingRuns
  <2> DEFINE T == {k \in 0..n : Total(a[k], p) = g[k]}
  <2>2. 0 \in T
    <3>1. PICK h \in [0..Len(<<>>) -> Int] : h[0] = 0 /\ Total(<<>>, p) = h[Len(<<>>)]
      <4>1. <<>> \in Seq(Level)
        OBVIOUS
      <4> QED BY <4>1, TotalRuns
    <3>2. Len(<<>>) = 0
      OBVIOUS
    <3> QED BY <1>0, <1>1, <2>1, <3>1, <3>2
  <2>3. ASSUME NEW k \in 1..n, k - 1 \in T PROVE k \in T
    <3>1. k \in 0..n /\ k - 1 \in 0..n
      BY <1>0
    <3>2. Total(a[k - 1], p) = g[k - 1] /\ a[k - 1] \in Seq(Level) /\ b[k] \in Order
      BY <1>0, <1>1, <2>3, <3>1
    <3>3. Total(a[k], p) = RestingOf(Total(a[k - 1], p), b[k], p)
      BY <1>1, <3>2, TotalAdded
    <3> QED BY <2>1, <3>1, <3>2, <3>3
  <2>4. n \in T
    <3> HIDE DEF n, T
    <3>1. n \in 0..n BY <1>0
    <3> QED BY <1>0, <2>2, <2>3, <3>1, BoundedInduction
  <2> QED BY <2>1, <2>4
<1> DEFINE Good(s, k) ==
             /\ \A i, j \in 1..Len(s) : i # j => s[i].price # s[j].price
             /\ \A i \in 1..Len(s) : s[i].size > 0
             /\ s = <<>> \/ \E j \in 1..k : /\ s[Len(s)].price = b[j].price
                                            /\ \A m \in 1..Len(s) : \E i \in 1..j : b[i].price = s[m].price
           G == {k \in 0..n : Good(a[k], k)}
<1>3. 0 \in G
  <2>1. Len(a[0]) = 0 /\ a[0] = <<>> /\ 0 \in 0..n
    BY <1>0, <1>1
  <2> QED BY <2>1
<1>4. ASSUME NEW k \in 1..n, k - 1 \in G PROVE k \in G
  <2> DEFINE s == a[k - 1]
             o == b[k]
             r == a[k]
             m0 == Len(s)
  <2>1. k \in 0..n /\ k - 1 \in 0..n /\ k \in Nat
    BY <1>0
  <2>2. s \in Seq(Level) /\ o \in Order /\ r = AddOrder(s, o) /\ Good(s, k - 1) /\ m0 \in Nat
    <3> HIDE DEF Good
    <3>1. Good(s, k - 1)
      BY <1>4, Zenon
    <3>2. s \in Seq(Level) /\ o \in Order /\ r = AddOrder(s, o)
      BY <1>0, <1>1, <2>1
    <3> QED BY <3>1, <3>2
  <2>3. o.left \in Int /\ o.price \in Nat
    BY <2>2 DEF Order
  <2>4. Good(r, k)
    <3>1. CASE o.left <= 0
      <4>1. r = s
        BY <2>2, <3>1, AddOrderIs
      <4>2. \A j \in 1..(k - 1) : j \in 1..k
        BY <2>1
      <4> HIDE DEF s, r, o, m0
      <4> QED BY <2>2, <4>1, <4>2
    <3>2. CASE o.left > 0 /\ s # <<>> /\ s[m0].price = o.price
      <4>1. /\ Len(r) = m0 /\ \A i \in 1..(m0 - 1) : r[i] = s[i]
            /\ r[m0] = [price |-> o.price, size |-> s[m0].size + o.left]
        <5>1. s \in Seq(Level) /\ o \in Order /\ r = AddOrder(s, o)
          BY <2>2
        <5> HIDE DEF s, o, r
        <5> QED BY <3>2, <5>1, AddOrderIs DEF m0
      <4>2. \A i \in 1..m0 : s[i] \in Level
        BY <2>2
      <4> HIDE DEF s, r, o, m0
      <4>3. \A i \in 1..m0 : r[i].price = s[i].price
        BY <2>2, <3>2, <4>1
      <4>4. m0 >= 1 /\ m0 \in 1..m0
        BY <2>2, <3>2 DEF m0
      <4>5. \A i, j \in 1..Len(s) : i # j => s[i].price # s[j].price
        BY <2>2
      <4>6. \A i \in 1..Len(s) : s[i].size > 0
        BY <2>2
      <4>7. PICK j \in 1..(k - 1) : /\ s[m0].price = b[j].price
                                    /\ \A m \in 1..m0 : \E i \in 1..j : b[i].price = s[m].price
        BY <2>2, <3>2 DEF m0
      <4>8. \A i, d \in 1..Len(r) : i # d => r[i].price # r[d].price
        BY <4>1, <4>3, <4>5 DEF m0
      <4>9. \A i \in 1..Len(r) : r[i].size > 0
        <5>1. s[m0].size \in Nat
          BY <4>2, <4>4 DEF Level
        <5>2. r[m0].size > 0
          BY <2>3, <3>2, <4>1, <5>1
        <5>3. \A i \in 1..(m0 - 1) : r[i].size > 0 /\ i \in 1..m0
          BY <2>2, <4>1, <4>6 DEF m0
        <5>4. \A i \in 1..m0 : i = m0 \/ i \in 1..(m0 - 1)
          BY <2>2
        <5> QED BY <4>1, <5>2, <5>3, <5>4
      <4>10. j \in 1..k /\ r[Len(r)].price = b[j].price
             /\ \A m \in 1..Len(r) : \E i \in 1..j : b[i].price = r[m].price
        <5>1. j \in 1..k
          BY <2>1
        <5>2. r[m0].price = b[j].price
          BY <4>3, <4>4, <4>7
        <5>3. \A m \in 1..m0 : \E i \in 1..j : b[i].price = r[m].price
          BY <4>3, <4>7, Zenon
        <5> QED BY <4>1, <5>1, <5>2, <5>3
      <4> QED BY <4>8, <4>9, <4>10
    <3>3. CASE o.left > 0 /\ ~(s # <<>> /\ s[m0].price = o.price)
      <4> DEFINE l == [price |-> o.price, size |-> o.left]
      <4>1. r = Append(s, l) /\ l.price = o.price /\ l.size = o.left
        BY <2>2, <3>3, AddOrderIs
      <4> HIDE DEF l, s, r, o, m0
      <4>2. Len(r) = m0 + 1 /\ r[m0 + 1] = l /\ \A i \in 1..m0 : r[i] = s[i]
        BY <2>2, <4>1 DEF m0
      <4>3. \A i \in 1..(m0 + 1) : i = m0 + 1 \/ i \in 1..m0
        BY <2>2
      <4>4. ASSUME NEW m \in 1..m0 PROVE s[m].price # o.price
        <5>1. s # <<>> /\ s[m0].price # o.price
          BY <3>3, <4>4 DEF m0
        <5>2. PICK j \in 1..(k - 1) : /\ s[m0].price = b[j].price
                                      /\ \A d \in 1..m0 : \E i \in 1..j : b[i].price = s[d].price
          BY <2>2, <5>1 DEF m0
        <5>3. PICK i \in 1..j : b[i].price = s[m].price
          BY <4>4, <5>2
        <5>4. SUFFICES ASSUME s[m].price = o.price PROVE FALSE
          OBVIOUS
        <5>5. i # j
          BY <5>1, <5>2, <5>3, <5>4
        <5>6. i \in 1..n /\ j \in 1..n /\ k \in 1..n /\ i < j /\ j < k
          BY <1>0, <2>1, <5>5
        <5>7. b[i].price = b[k].price
          BY <5>3, <5>4 DEF o
        <5>8. b[j].price = b[i].price
          BY <1>0, <5>6, <5>7
        <5> QED BY <5>1, <5>2, <5>3, <5>4, <5>8
      <4>5. \A i, d \in 1..Len(s) : i # d => s[i].price # s[d].price
        BY <2>2
      <4>6. \A i \in 1..Len(s) : s[i].size > 0
        BY <2>2
      <4>7. \A i, d \in 1..Len(r) : i # d => r[i].price # r[d].price
        BY <4>1, <4>2, <4>3, <4>4, <4>5 DEF m0
      <4>8. \A i \in 1..Len(r) : r[i].size > 0
        BY <3>3, <4>1, <4>2, <4>3, <4>6 DEF m0
      <4>9. \A m \in 1..Len(r) : \E i \in 1..k : b[i].price = r[m].price
        <5> SUFFICES ASSUME NEW m \in 1..Len(r) PROVE \E i \in 1..k : b[i].price = r[m].price
          OBVIOUS
        <5>1. CASE m = m0 + 1
          <6>1. k \in 1..k BY <2>1
          <6> QED BY <4>1, <4>2, <5>1, <6>1 DEF o
        <5>2. CASE m \in 1..m0
          <6>1. s # <<>>
            BY <5>2 DEF m0
          <6>2. PICK j \in 1..(k - 1) : \A d \in 1..m0 : \E i \in 1..j : b[i].price = s[d].price
            BY <2>2, <6>1 DEF m0
          <6>3. PICK i \in 1..j : b[i].price = s[m].price
            BY <5>2, <6>2
          <6>4. i \in 1..k
            BY <2>1
          <6> QED BY <4>2, <5>2, <6>3, <6>4
        <5> QED BY <4>2, <4>3, <5>1, <5>2
      <4>10. k \in 1..k /\ r[Len(r)].price = b[k].price
        BY <2>1, <4>1, <4>2 DEF o
      <4> QED BY <4>7, <4>8, <4>9, <4>10
    <3> QED BY <2>2, <2>3, <3>1, <3>2, <3>3
  <2> QED BY <2>1, <2>4
<1>5. n \in G
  <2> HIDE DEF n, G
  <2>1. n \in 0..n BY <1>0
  <2> QED BY <1>0, <1>3, <1>4, <2>1, BoundedInduction
<1>6. Good(a[n], n) /\ a[n] \in Seq(Level)
  BY <1>0, <1>1, <1>5
<1>7. \A l \in ToSet(a[n]) : l.size > 0
  BY <1>6 DEF ToSet
<1> QED
  BY <1>1, <1>2, <1>6, <1>7

(***************************************************************************)
(* The registry a read gets: never newer than the current snapshot, and    *)
(* there once it was got.                                                  *)
(***************************************************************************)
HaveInv == /\ \A r \in Readers : have[r] <= current
           /\ \A t \in Threads : at[t] = "store" => got[t] # 0

LEMMA HaveInvInit == RegistryInit => HaveInv
  BY DEF RegistryInit, HaveInv, Threads

LEMMA HaveInvStep ==
  ASSUME LoadInv, HaveInv, [RegistryNext]_registryVars
  PROVE  /\ HaveInv'
         /\ listed \in Nat /\ listed' \in Nat /\ listed <= listed'
         /\ \A r \in Readers : have[r] # 0 => have'[r] # 0
<1>0. Len(Listings) \in Nat /\ Readers \subseteq Threads /\ Refreshers \subseteq Threads
      /\ NoOne \notin Threads /\ Readers \cap Refreshers = {}
  BY RegistryAssumption DEF Threads
<1> USE <1>0 DEF LoadInv, RegistryTypeOK, MutexInv, AgeInv, Loads, HaveInv
<1> DEFINE Goal == /\ HaveInv'
                   /\ listed \in Nat /\ listed' \in Nat /\ listed <= listed'
                   /\ \A r \in Readers : have[r] # 0 => have'[r] # 0
<1>1. CASE UNCHANGED registryVars
  BY <1>1 DEF registryVars
<1>2. CASE Relist
  BY <1>2 DEF Relist
<1>3. ASSUME NEW t \in Readers, Get(t) PROVE Goal
  BY <1>3 DEF Get
<1>4. ASSUME NEW t \in Refreshers, Refresh(t) PROVE Goal
  BY <1>4 DEF Refresh
<1>5. ASSUME NEW t \in Threads, Lock(t) PROVE Goal
  BY <1>5 DEF Lock
<1>6. ASSUME NEW t \in Threads, Load(t) PROVE Goal
  BY <1>6 DEF Load
<1>7. ASSUME NEW t \in Threads, LoadFails(t) PROVE Goal
  BY <1>7 DEF LoadFails
<1>8. ASSUME NEW t \in Threads, Store(t) PROVE Goal
  BY <1>8 DEF Store
<1> QED
  BY <1>1, <1>2, <1>3, <1>4, <1>5, <1>6, <1>7, <1>8 DEF RegistryNext, LoadStep

(***************************************************************************)
(* A read, from its call to what it shows.                                 *)
(***************************************************************************)
LEMMA OwnedEnsures ==
  ASSUME NEW c, c.op \in Operations, Operation(c).keeps = "owned"
  PROVE  Operation(c).ensures
<1>1. CASE c.op \in {"ActiveOrders", "InactiveOrders", "OrdersByClientIndex", "Positions"}
  BY <1>1 DEF Operation, Read
<1>2. CASE c.op \in {"Position", "Account", "Balance", "AccountsByL1Address"}
  BY <1>2 DEF Operation, Read
<1>3. CASE c.op \in {"APIKeys", "CheckAPIKey", "AccountLimits", "AccountTrades"}
  BY <1>3 DEF Operation, Read
<1>4. CASE c.op \in {"MarketDetails", "OrderBookSnapshot", "RecentTrades", "Candles"}
  BY <1>4 DEF Operation, MarketRead, Read
<1>5. CASE c.op \in {"FundingRates", "GetMarketInfo", "SlippagePrice", "GetMarkets"}
  BY <1>5 DEF Operation, MarketRead, Read
<1> QED
  BY <1>1, <1>2, <1>3, <1>4, <1>5 DEF Operations

\* The least of a set of naturals is one of them.
LEMMA MinIsIn ==
  ASSUME NEW S \in SUBSET Nat, S # {}
  PROVE  Min(S) \in S
<1> DEFINE T == {n \in Nat : (\E m \in S : m <= n) => \E x \in S : \A y \in S : x <= y}
<1>1. 0 \in T
  OBVIOUS
<1>2. ASSUME NEW n \in Nat, n \in T PROVE n + 1 \in T
  <2>1. CASE \E m \in S : m <= n
    BY <1>2, <2>1
  <2>2. CASE ~\E m \in S : m <= n
    <3>1. ASSUME NEW m \in S, m <= n + 1 PROVE \A y \in S : m <= y
      BY <2>2, <3>1
    <3> QED BY <3>1
  <2> QED BY <2>1, <2>2
<1>3. \A n \in Nat : n \in T
  <2> HIDE DEF T
  <2> QED BY <1>1, <1>2, SetInduction
<1>4. \E x \in S : \A y \in S : x <= y
  <2>1. PICK m \in S : TRUE
    OBVIOUS
  <2>2. m \in Nat /\ m <= m
    OBVIOUS
  <2> QED BY <1>3, <2>1, <2>2
<1> QED
  BY <1>4 DEF Min

Stages == {"idle", "ensure", "ensuring", "resolve", "resolving", "admit",
           "token", "send", "wait", "answered", "done", "failed"}
Ready == {"resolve", "resolving", "admit", "token", "send", "wait", "answered", "done"}
Shape(f) == f = [c \in Readers |-> f[c]]
Shapes == Shape(call) /\ Shape(answer) /\ Shape(left) /\ Shape(shown)

\* Where a read waits for the registry, what it may have shown, and that an
\* owned-only read has the markets; then what it keeps of its answer.
StageInv(c) == /\ stage[c] \notin {"ensuring", "resolving"} => at[c] = "out"
               /\ stage[c] \notin {"answered", "done", "failed"} => shown[c] = {}
               /\ stage[c] # "idle" => call[c].op \in Operations
               /\ stage[c] \in Ready /\ Op(c).ensures => have[c] # 0
OwnedInv(c) == stage[c] \in {"answered", "done"} /\ Op(c).keeps = "owned" =>
                 /\ answer[c] \subseteq Nat /\ left[c] \subseteq answer[c]
                 /\ OwnedThroughout(c) \subseteq shown[c] \cup left[c]
                 /\ shown[c] \subseteq OwnedAtSomeTime(c)
                 /\ stage[c] = "done" => left[c] = {}
BookInv(c) == stage[c] \in {"answered", "done"} /\ Op(c).keeps = "levels" =>
                \E b \in Books : /\ answer[c] = {b}
                                 /\ stage[c] = "done" => shown[c] = {aggregateLevels(b)}
ReadInv(c) == StageInv(c) /\ OwnedInv(c) /\ BookInv(c)
ClientInv == /\ LoadInv /\ HaveInv /\ TokenInv /\ Shapes
             /\ setting \in Settings /\ stage \in [Readers -> Stages]
             /\ closed \in BOOLEAN /\ loopUp \in BOOLEAN
             /\ conn \in [Connections -> {"none", "up", "down"}]
             /\ \A c \in Readers : ReadInv(c)

\* What a step leaves of a read it is not about.
Still(d) == /\ stage'[d] = stage[d] /\ call'[d] = call[d] /\ answer'[d] = answer[d]
            /\ left'[d] = left[d] /\ shown'[d] = shown[d]

\* A read that a step leaves alone keeps its invariant, while its registry is
\* awaited and while the exchange lists other markets.
LEMMA Frame ==
  ASSUME NEW d \in Readers, ReadInv(d), Still(d), listed \in Nat, listed' \in Nat, listed <= listed',
         have[d] \in Nat,
         stage[d] \notin {"ensuring", "resolving"} => at'[d] = at[d] /\ have'[d] = have[d],
         have[d] # 0 => have'[d] # 0
  PROVE  ReadInv(d)'
<1>1. StageInv(d)'
  BY DEF Still, ReadInv, StageInv, Op
<1>2. OwnedInv(d)'
  <2> SUFFICES ASSUME stage[d] \in {"answered", "done"}, Operation(call[d]).keeps = "owned"
               PROVE  OwnedInv(d)'
    BY DEF Still, OwnedInv, Op
  <2>1. have'[d] = have[d]
    OBVIOUS
  <2>2. Since(d) \subseteq Since(d)'
    BY <2>1 DEF Since
  <2>3. OwnedThroughout(d)' \subseteq OwnedThroughout(d) /\ OwnedAtSomeTime(d) \subseteq OwnedAtSomeTime(d)'
    <3> HIDE DEF Since
    <3>1. answer'[d] = answer[d]
      BY DEF Still
    <3> QED BY <2>2, <3>1 DEF OwnedThroughout, OwnedAtSomeTime
  <2> HIDE DEF OwnedThroughout, OwnedAtSomeTime
  <2> QED BY <2>3 DEF Still, ReadInv, OwnedInv, Op
<1>3. BookInv(d)'
  BY DEF Still, ReadInv, BookInv, Op
<1> QED
  BY <1>1, <1>2, <1>3 DEF ReadInv

\* A read that fails has nothing more to keep.
LEMMA FailedRead ==
  ASSUME NEW c \in Readers, stage'[c] = "failed", at'[c] = "out", call'[c].op \in Operations
  PROVE  ReadInv(c)'
  BY DEF ReadInv, StageInv, OwnedInv, BookInv, Ready

\* A read that has not been answered has shown nothing.
LEMMA EarlyRead ==
  ASSUME NEW c \in Readers, stage'[c] \in Stages \ {"answered", "done", "failed"},
         stage'[c] \notin {"ensuring", "resolving"} => at'[c] = "out",
         shown'[c] = {}, call'[c].op \in Operations,
         stage'[c] \in Ready /\ Operation(call'[c]).ensures => have'[c] # 0
  PROVE  ReadInv(c)'
  BY DEF ReadInv, StageInv, OwnedInv, BookInv, Op

\* What is known of a read in any state, and of the registry it has.
LEMMA ReadFacts ==
  ASSUME ClientInv, NEW c \in Readers
  PROVE  /\ ReadInv(c) /\ stage[c] \in Stages /\ stage \in [Readers -> Stages]
         /\ listed \in Nat /\ have[c] \in Nat /\ current \in Nat
         /\ have[c] <= current /\ current <= listed /\ listed \in 1..Len(Listings)
         /\ c \in Threads /\ setting \in Settings
<1>0. Len(Listings) \in Nat
  BY RegistryAssumption
<1> QED
  BY <1>0 DEF ClientInv, LoadInv, RegistryTypeOK, HaveInv, AgeInv, Threads

\* A read's own step leaves the others alone.
Alone(c) == \A d \in Readers \ {c} : Still(d) /\ at'[d] = at[d] /\ have'[d] = have[d]

LEMMA OthersKept ==
  ASSUME ClientInv, NEW c \in Readers, Alone(c), ReadInv(c)', listed' \in Nat, listed <= listed'
  PROVE  \A d \in Readers : ReadInv(d)'
<1> SUFFICES ASSUME NEW d \in Readers PROVE ReadInv(d)'
  OBVIOUS
<1>1. CASE d = c
  BY <1>1
<1>2. CASE d # c
  <2>1. Still(d) /\ at'[d] = at[d] /\ have'[d] = have[d]
    BY <1>2 DEF Alone
  <2>2. ReadInv(d) /\ listed \in Nat /\ have[d] \in Nat
    BY ReadFacts
  <2> QED BY <2>1, <2>2, Frame
<1> QED
  BY <1>1, <1>2

\* A step of c that leaves the registry.
Own(f, g, c) == g = [f EXCEPT ![c] = g[c]]

\* What is assigned, and what is not.
LEMMA OwnAssigned ==
  ASSUME NEW f, NEW c \in Readers, Shape(f)
  PROVE  Own(f, f, c) /\ \A v : Own(f, [f EXCEPT ![c] = v], c) /\ [f EXCEPT ![c] = v][c] = v
  BY DEF Own, Shape

LEMMA ReadShapes ==
  ASSUME ClientInv
  PROVE  Shape(stage) /\ Shape(call) /\ Shape(answer) /\ Shape(left) /\ Shape(shown)
<1>1. Shape(stage)
  BY DEF ClientInv, Shape
<1> QED
  BY <1>1 DEF ClientInv, Shapes

LEMMA OwnStep ==
  ASSUME ClientInv, NEW c \in Readers, UNCHANGED registryVars, Own(stage, stage', c),
         Own(call, call', c), Own(answer, answer', c), Own(left, left', c), Own(shown, shown', c)
  PROVE  Alone(c) /\ listed' \in Nat /\ listed <= listed'
<1>1. ASSUME NEW f, NEW g, Own(f, g, c), NEW d \in Readers, d # c, Shape(f)
      PROVE  g[d] = f[d]
  <2>1. d \in DOMAIN f
    BY <1>1 DEF Shape
  <2> QED BY <1>1, <2>1 DEF Own
<1>2. /\ Shape(stage) /\ listed \in Nat
      /\ Shape(call) /\ Shape(answer) /\ Shape(left) /\ Shape(shown)
  BY ReadShapes, ReadFacts
<1>3. \A d \in Readers \ {c} : stage'[d] = stage[d]
  BY <1>1, <1>2
<1>4. \A d \in Readers \ {c} : call'[d] = call[d]
  BY <1>1, <1>2
<1>5. \A d \in Readers \ {c} : answer'[d] = answer[d]
  BY <1>1, <1>2
<1>6. \A d \in Readers \ {c} : left'[d] = left[d]
  BY <1>1, <1>2
<1>7. \A d \in Readers \ {c} : shown'[d] = shown[d]
  BY <1>1, <1>2
<1>8. at' = at /\ have' = have /\ listed' = listed
  BY DEF registryVars
<1> QED
  BY <1>2, <1>3, <1>4, <1>5, <1>6, <1>7, <1>8 DEF Alone, Still

\* A read moves on, or fails, and nothing else changes.
LEMMA MovesOn ==
  ASSUME ClientInv, NEW c \in Readers, UNCHANGED <<registryVars, call, answer, left, shown>>,
         NEW s \in {"failed", "resolve", "admit", "token", "send", "wait"}, Stage(c, s), stage[c] # "idle",
         at[c] = "out",
         s # "failed" => shown[c] = {} /\ (Op(c).ensures => have[c] # 0)
  PROVE  \A d \in Readers : ReadInv(d)'
<1>1. /\ Alone(c) /\ listed' \in Nat /\ listed <= listed'
      /\ stage'[c] = s /\ call'[c] = call[c] /\ shown'[c] = shown[c]
  <2>1. /\ stage' = [stage EXCEPT ![c] = s] /\ UNCHANGED registryVars
        /\ call' = call /\ answer' = answer /\ left' = left /\ shown' = shown
    BY DEF Stage
  <2>2. Own(stage, stage', c) /\ stage'[c] = s
    BY <2>1, ReadShapes, OwnAssigned
  <2>3. Own(call, call', c) /\ Own(answer, answer', c) /\ Own(left, left', c) /\ Own(shown, shown', c)
    BY <2>1, ReadShapes, OwnAssigned
  <2>4. Alone(c) /\ listed' \in Nat /\ listed <= listed'
    BY <2>1, <2>2, <2>3, OwnStep
  <2> QED BY <2>1, <2>2, <2>4
<1>2. at' = at /\ have' = have
  BY DEF registryVars
<1>3. call[c].op \in Operations
  BY ReadFacts DEF ReadInv, StageInv
<1>4. ReadInv(c)'
  <2>1. CASE s = "failed"
    BY <1>1, <1>2, <1>3, <2>1, FailedRead
  <2>2. CASE s # "failed"
    <3>1. s \in Stages \ {"answered", "done", "failed"} /\ s \notin {"ensuring", "resolving"}
      BY <2>2 DEF Stages
    <3> QED BY <1>1, <1>2, <1>3, <2>2, <3>1, EarlyRead DEF Op
  <2> QED BY <2>1, <2>2
<1> QED
  BY <1>1, <1>4, OthersKept

LEMMA AskedOperations ==
  ASSUME ClientInv, NEW c \in Readers, NEW a \in setting.asks[c]
  PROVE  a.op \in Operations
  BY QueriesAssumption, ReadFacts

\* Where a call leads: a call that ensures the markets goes to them first.
Leads(c, a, s) == /\ call' = [call EXCEPT ![c] = a] /\ Stage(c, s)
                  /\ \/ s \in {"failed", "ensure"}
                     \/ s \in {"resolve", "admit"} /\ ~Operation(a).ensures

LEMMA CallLeads ==
  ASSUME NEW c \in Readers, Call(c)
  PROVE  \E a \in setting.asks[c], s \in Stages : Leads(c, a, s)
<1>1. PICK a \in setting.asks[c] :
        /\ call' = [call EXCEPT ![c] = a]
        /\ Stage(c, CASE RefusedFirst(a) -> "failed"
                     [] ~RefusedFirst(a) /\ Operation(a).ensures -> "ensure"
                     [] ~RefusedFirst(a) /\ ~Operation(a).ensures /\ Operation(a).resolves ->
                          IF a.symbol = "" THEN "failed" ELSE "resolve"
                     [] OTHER -> "admit")
  BY DEF Call
<1>2. \E s \in Stages : Leads(c, a, s)
  <2> USE DEF Stages, Leads
  <2> HIDE DEF Stage
  <2>1. CASE RefusedFirst(a)
    BY <1>1, <2>1
  <2>2. CASE ~RefusedFirst(a) /\ Operation(a).ensures
    BY <1>1, <2>2
  <2>3. CASE ~RefusedFirst(a) /\ ~Operation(a).ensures /\ Operation(a).resolves
    BY <1>1, <2>3
  <2>4. CASE ~RefusedFirst(a) /\ ~Operation(a).ensures /\ ~Operation(a).resolves
    BY <1>1, <2>4
  <2> QED BY <2>1, <2>2, <2>3, <2>4
<1> QED
  BY <1>2

LEMMA CallKeeps ==
  ASSUME ClientInv, NEW c \in Readers, Call(c)
  PROVE  \A d \in Readers : ReadInv(d)'
<1>1. PICK a \in setting.asks[c], s \in Stages : Leads(c, a, s)
  BY CallLeads
<1>2. /\ call' = [call EXCEPT ![c] = a] /\ Stage(c, s)
      /\ \/ s \in {"failed", "ensure"}
         \/ s \in {"resolve", "admit"} /\ ~Operation(a).ensures
  BY <1>1 DEF Leads
<1>3. stage[c] = "idle" /\ UNCHANGED registryVars /\ UNCHANGED <<answer, left, shown>>
  BY DEF Call
<1>4. /\ Alone(c) /\ listed' \in Nat /\ listed <= listed'
      /\ stage'[c] = s /\ call'[c] = a /\ shown'[c] = shown[c]
  <2>1. /\ stage' = [stage EXCEPT ![c] = s] /\ call' = [call EXCEPT ![c] = a]
        /\ answer' = answer /\ left' = left /\ shown' = shown
    BY <1>1, <1>2, <1>3 DEF Stage
  <2>2. Own(stage, stage', c) /\ stage'[c] = s /\ Own(call, call', c) /\ call'[c] = a
    BY <2>1, ReadShapes, OwnAssigned
  <2>3. Own(answer, answer', c) /\ Own(left, left', c) /\ Own(shown, shown', c)
    BY <2>1, ReadShapes, OwnAssigned
  <2>4. Alone(c) /\ listed' \in Nat /\ listed <= listed'
    BY <1>3, <2>2, <2>3, OwnStep
  <2> QED BY <2>1, <2>2, <2>4
<1>5. at[c] = "out" /\ shown[c] = {} /\ at' = at
  BY <1>3, ReadFacts DEF ReadInv, StageInv, registryVars
<1>6. a.op \in Operations
  BY AskedOperations
<1>7. ReadInv(c)'
  <2>1. CASE s = "failed"
    BY <1>4, <1>5, <1>6, <2>1, FailedRead
  <2>2. CASE s # "failed"
    <3>1. s \in Stages \ {"answered", "done", "failed"} /\ s \notin {"ensuring", "resolving"}
      BY <1>2, <2>2 DEF Stages
    <3>2. s \in Ready => ~Operation(a).ensures
      BY <1>2, <2>2 DEF Ready
    <3> QED BY <1>4, <1>5, <1>6, <3>1, <3>2, EarlyRead
  <2> QED BY <2>1, <2>2
<1> QED
  BY <1>4, <1>7, OthersKept

LEMMA GetRegistryKeeps ==
  ASSUME ClientInv, NEW c \in Readers, GetRegistry(c), \A r \in Readers : have[r] # 0 => have'[r] # 0
  PROVE  \A d \in Readers : ReadInv(d)'
<1> DEFINE s == IF stage[c] = "ensure" THEN "ensuring" ELSE "resolving"
<1>1. stage[c] \in {"ensure", "resolve"} /\ Get(c) /\ Stage(c, s)
      /\ UNCHANGED <<call, answer, left, shown>>
  BY DEF GetRegistry
<1>2. /\ listed' = listed /\ listed \in Nat /\ c \in Threads
      /\ at \in [Threads -> {"out", "queue", "load", "store"}] /\ have \in [Readers -> 0..Len(Listings)]
      /\ Readers \subseteq Threads
  BY <1>1, ReadFacts DEF Get, ClientInv, LoadInv, RegistryTypeOK, Threads
<1>3. \A d \in Readers \ {c} : at'[d] = at[d] /\ have'[d] = have[d]
  BY <1>1, <1>2 DEF Get
<1>4. \A d \in Readers \ {c} : stage'[d] = stage[d]
  BY <1>1, ReadFacts DEF Stage
<1>5. Alone(c)
  BY <1>1, <1>3, <1>4 DEF Alone, Still
<1>6. stage'[c] = s
  BY <1>1, ReadFacts DEF Stage
<1>7. ReadInv(c)'
  <2>1. s \in Stages \ {"answered", "done", "failed"} /\ s \in {"ensuring", "resolving"}
    BY <1>1 DEF Stages
  <2>2. ReadInv(c)
    BY ReadFacts
  <2>3. shown[c] = {} /\ call[c].op \in Operations
    BY <1>1, <2>2 DEF ReadInv, StageInv
  <2>4. s \in Ready /\ Op(c).ensures => have'[c] # 0
    <3>1. s \in Ready => stage[c] = "resolve"
      BY <1>1 DEF Ready
    <3>2. stage[c] = "resolve" /\ Op(c).ensures => have[c] # 0
      BY <2>2 DEF ReadInv, StageInv, Ready
    <3> HIDE DEF s
    <3> QED BY <3>1, <3>2
  <2> HIDE DEF s
  <2> QED BY <1>1, <1>6, <2>1, <2>3, <2>4, EarlyRead DEF Op
<1> QED
  BY <1>2, <1>5, <1>7, OthersKept

LEMMA AdmitKeeps ==
  ASSUME ClientInv, NEW c \in Readers, Admit(c)
  PROVE  \A d \in Readers : ReadInv(d)'
<1>1. stage[c] = "admit" /\ UNCHANGED registryVars /\ UNCHANGED <<call, answer, left>>
  BY DEF Admit
<1>2. /\ at[c] = "out" /\ shown[c] = {} /\ call[c].op \in Operations
      /\ Op(c).ensures => have[c] # 0
  BY <1>1, ReadFacts DEF ReadInv, StageInv, Ready
<1>3. CASE Op(c).keeps = "market"
  <2>1. PICK v : shown' = [shown EXCEPT ![c] = v] /\ stage' = [stage EXCEPT ![c] = "done"]
    BY <1>3 DEF Admit, Stage
  <2>2. Own(stage, stage', c) /\ stage'[c] = "done" /\ Own(shown, shown', c)
    BY <2>1, ReadShapes, OwnAssigned
  <2>3. Own(call, call', c) /\ Own(answer, answer', c) /\ Own(left, left', c)
    BY <1>1, ReadShapes, OwnAssigned
  <2>4. Alone(c) /\ listed' \in Nat /\ listed <= listed'
    BY <1>1, <2>2, <2>3, OwnStep
  <2>5. call' = call /\ at' = at /\ have' = have
    BY <1>1 DEF registryVars
  <2>6. Op(c)' = Op(c)
    BY <2>5 DEF Op
  <2>7. StageInv(c)' /\ OwnedInv(c)' /\ BookInv(c)'
    BY <1>2, <1>3, <2>2, <2>5, <2>6 DEF StageInv, OwnedInv, BookInv
  <2>8. ReadInv(c)'
    BY <2>7 DEF ReadInv
  <2> QED BY <2>4, <2>8, OthersKept
<1>4. CASE Op(c).keeps # "market"
  <2>1. UNCHANGED shown /\ \E s \in {"failed", "token", "send"} : Stage(c, s)
    <3>1. CASE RefusedLate(call[c])
      BY <1>4, <3>1 DEF Admit, Fail
    <3>2. CASE ~RefusedLate(call[c]) /\ Op(c).private
      BY <1>4, <3>2 DEF Admit
    <3>3. CASE ~RefusedLate(call[c]) /\ ~Op(c).private
      BY <1>4, <3>3 DEF Admit
    <3> QED BY <3>1, <3>2, <3>3
  <2>2. PICK s \in {"failed", "token", "send"} : Stage(c, s)
    BY <2>1
  <2>3. UNCHANGED <<registryVars, call, answer, left, shown>> /\ stage[c] # "idle"
    BY <1>1, <2>1
  <2> QED BY <1>2, <2>2, <2>3, MovesOn
<1> QED
  BY <1>3, <1>4

\* The steps of a read that only move it on.
LEMMA AsideKeeps ==
  ASSUME ClientInv, NEW c \in Readers,
         Ensured(c) \/ Resolved(c) \/ Overrun(c) \/ Send(c) \/ NoToken(c) \/ NoAnswer(c)
  PROVE  \A d \in Readers : ReadInv(d)'
<1>1. UNCHANGED <<registryVars, call, answer, left, shown>>
  BY DEF Ensured, Resolved, Overrun, Send, NoToken, NoAnswer
<1>2. /\ stage[c] \in {"ensuring", "resolving", "admit", "token", "send", "wait"} /\ at[c] = "out"
      /\ shown[c] = {}
  BY ReadFacts DEF Ensured, Resolved, Overrun, Send, NoToken, NoAnswer, ReadInv, StageInv
<1>3. stage[c] # "ensuring" /\ Op(c).ensures => have[c] # 0
  BY <1>2, ReadFacts DEF ReadInv, StageInv, Ready
<1>4. PICK s \in {"failed", "resolve", "admit", "token", "send", "wait"} :
         Stage(c, s) /\ (s # "failed" /\ Op(c).ensures => have[c] # 0)
  <2>1. CASE Ensured(c)
    BY <2>1 DEF Ensured, Fail, AfterMarkets
  <2>2. CASE Resolved(c)
    BY <1>3, <2>2 DEF Resolved, Fail
  <2>3. CASE Overrun(c) \/ NoToken(c) \/ NoAnswer(c)
    BY <2>3 DEF Overrun, NoToken, NoAnswer, Fail
  <2>4. CASE Send(c)
    BY <1>3, <2>4 DEF Send
  <2> QED BY <2>1, <2>2, <2>3, <2>4
<1> QED
  BY <1>1, <1>2, <1>4, MovesOn

\* A row is of a market: a natural number.
LEMMA RowsAreIDs ==
  ASSUME ClientInv, NEW q
  PROVE  \A a \in Rows(q) : a \subseteq Nat
<1>1. listed \in 1..Len(Listings)
  BY DEF ClientInv, LoadInv, RegistryTypeOK
<1>2. Listings[listed] \subseteq [symbol : STRING, id : Nat, type : STRING, digits : Nat]
  BY <1>1, RegistryAssumption
<1>3. \A m \in Listings[listed] : m.id \in Nat
  BY <1>2
<1>4. ListedIDs \subseteq Nat
  BY <1>3 DEF ListedIDs
<1> QED
  BY <1>4 DEF Rows

LEMMA AnswerKeeps ==
  ASSUME ClientInv, NEW c \in Readers, Answer(c)
  PROVE  \A d \in Readers : ReadInv(d)'
<1>1. stage[c] = "wait" /\ UNCHANGED registryVars /\ UNCHANGED <<call, shown>>
  BY DEF Answer
<1>2. /\ at[c] = "out" /\ shown[c] = {} /\ call[c].op \in Operations
      /\ Op(c).ensures => have[c] # 0
  BY <1>1, ReadFacts DEF ReadInv, StageInv, Ready
<1>3. CASE Served(Query(c))
  <2>1. PICK a \in IF Op(c).keeps = "levels" THEN {{b} : b \in Books} ELSE Rows(Query(c)) :
          /\ answer' = [answer EXCEPT ![c] = a]
          /\ left' = [left EXCEPT ![c] = IF Op(c).keeps = "owned" THEN a ELSE {}]
    BY <1>3 DEF Answer
  <2>2. stage' = [stage EXCEPT ![c] = "answered"]
    BY <1>3 DEF Answer, Stage
  <2>3. /\ Own(stage, stage', c) /\ stage'[c] = "answered"
        /\ Own(answer, answer', c) /\ answer'[c] = a
        /\ Own(left, left', c) /\ (Op(c).keeps = "owned" => left'[c] = a)
    <3>1. Own(stage, stage', c) /\ stage'[c] = "answered"
      BY <2>2, ReadShapes, OwnAssigned
    <3>2. Own(answer, answer', c) /\ answer'[c] = a
      BY <2>1, ReadShapes, OwnAssigned
    <3>3. PICK v : left' = [left EXCEPT ![c] = v] /\ (Op(c).keeps = "owned" => v = a)
      BY <2>1
    <3>4. Own(left, left', c) /\ left'[c] = v
      BY <3>3, ReadShapes, OwnAssigned
    <3> QED BY <3>1, <3>2, <3>3, <3>4
  <2>4. Own(call, call', c) /\ Own(shown, shown', c)
    BY <1>1, ReadShapes, OwnAssigned
  <2>5. Alone(c) /\ listed' \in Nat /\ listed <= listed'
    BY <1>1, <2>3, <2>4, OwnStep
  <2>6. call' = call /\ at' = at /\ have' = have /\ shown' = shown
    BY <1>1 DEF registryVars
  <2>7. Op(c)' = Op(c)
    BY <2>6 DEF Op
  <2>8. StageInv(c)'
    BY <1>2, <2>3, <2>6, <2>7 DEF StageInv
  <2>9. OwnedInv(c)'
    <3> SUFFICES ASSUME Op(c).keeps = "owned" PROVE OwnedInv(c)'
      BY <2>7 DEF OwnedInv
    <3>1. a \subseteq Nat
      BY <2>1, RowsAreIDs
    <3>2. OwnedThroughout(c)' \subseteq answer'[c]
      BY DEF OwnedThroughout
    <3> QED BY <1>2, <2>3, <2>6, <3>1, <3>2 DEF OwnedInv
  <2>10. BookInv(c)'
    BY <2>1, <2>3, <2>7 DEF BookInv
  <2>11. ReadInv(c)'
    BY <2>8, <2>9, <2>10 DEF ReadInv
  <2> QED BY <2>5, <2>11, OthersKept
<1>4. CASE ~Served(Query(c))
  <2>1. UNCHANGED <<registryVars, call, answer, left, shown>> /\ Stage(c, "failed")
    BY <1>4 DEF Answer, Fail
  <2> QED BY <1>1, <1>2, <2>1, MovesOn
<1> QED
  BY <1>3, <1>4

LEMMA JudgeKeeps ==
  ASSUME ClientInv, NEW c \in Readers, Judge(c)
  PROVE  \A d \in Readers : ReadInv(d)'
<1>1. /\ stage[c] = "answered" /\ left[c] # {} /\ UNCHANGED registryVars
      /\ stage' = stage /\ call' = call /\ answer' = answer
  BY DEF Judge
<1>2. PICK id : /\ id = Min(left[c]) /\ left' = [left EXCEPT ![c] = left[c] \ {id}]
                /\ shown' = [shown EXCEPT ![c] = IF Owns(id) THEN shown[c] \cup {id} ELSE shown[c]]
  BY DEF Judge
<1>3. /\ Own(left, left', c) /\ left'[c] = left[c] \ {id}
      /\ Own(shown, shown', c) /\ shown'[c] = IF Owns(id) THEN shown[c] \cup {id} ELSE shown[c]
  <2>1. Shape(left) /\ Shape(shown)
    BY ReadShapes
  <2>2. Own(left, left', c) /\ left'[c] = left[c] \ {id}
    BY <1>2, <2>1, OwnAssigned, Zenon
  <2>3. /\ Own(shown, shown', c)
        /\ shown'[c] = IF Owns(id) THEN shown[c] \cup {id} ELSE shown[c]
    BY <1>2, <2>1, OwnAssigned, Zenon
  <2> QED BY <2>2, <2>3
<1>4. Own(stage, stage', c) /\ Own(call, call', c) /\ Own(answer, answer', c)
  BY <1>1, ReadShapes, OwnAssigned
<1>5. Alone(c) /\ listed' \in Nat /\ listed <= listed'
  BY <1>1, <1>3, <1>4, OwnStep
<1>6. at' = at /\ have' = have /\ listed' = listed /\ Op(c)' = Op(c)
  BY <1>1 DEF registryVars, Op
<1>7. ReadInv(c)
  BY ReadFacts
<1>8. StageInv(c)'
  BY <1>1, <1>6, <1>7 DEF ReadInv, StageInv
<1>9. OwnedInv(c)'
  <2> SUFFICES ASSUME Op(c).keeps = "owned" PROVE OwnedInv(c)'
    BY <1>6 DEF OwnedInv
  <2>1. /\ answer[c] \subseteq Nat /\ left[c] \subseteq answer[c]
        /\ OwnedThroughout(c) \subseteq shown[c] \cup left[c]
        /\ shown[c] \subseteq OwnedAtSomeTime(c)
    BY <1>1, <1>7 DEF ReadInv, OwnedInv
  <2>2. id \in left[c]
    <3>1. left[c] \in SUBSET Nat
      BY <2>1
    <3> QED BY <1>1, <1>2, <3>1, MinIsIn
  <2>3. current \in Since(c)
    <3>1. call[c].op \in Operations /\ (Op(c).ensures => have[c] # 0)
      BY <1>1, <1>7 DEF ReadInv, StageInv, Ready
    <3>2. have[c] # 0
      BY <3>1, OwnedEnsures DEF Op
    <3> QED BY <3>2, ReadFacts DEF Since
  <2>4. /\ OwnedThroughout(c)' = OwnedThroughout(c)
        /\ OwnedAtSomeTime(c)' = OwnedAtSomeTime(c)
    BY <1>1, <1>6 DEF OwnedThroughout, OwnedAtSomeTime, Since
  <2>5. id \in OwnedThroughout(c) => Owns(id)
    <3>1. current # 0
      <4>1. current \in Nat /\ have[c] \in Nat /\ listed \in Nat
        BY ReadFacts
      <4> QED BY <2>3, <4>1 DEF Since
    <3> QED BY <2>3, <3>1 DEF OwnedThroughout, Owns
  <2>6. Owns(id) => id \in OwnedAtSomeTime(c)
    BY <2>1, <2>2, <2>3 DEF OwnedAtSomeTime, Owns
  <2>7. OwnedThroughout(c) \subseteq shown'[c] \cup left'[c]
    BY <1>3, <2>1, <2>5
  <2>8. shown'[c] \subseteq OwnedAtSomeTime(c)
    BY <1>3, <2>1, <2>6
  <2> QED BY <1>1, <1>3, <2>1, <2>4, <2>7, <2>8 DEF OwnedInv
<1>10. BookInv(c)'
  BY <1>1, <1>6, <1>7 DEF ReadInv, BookInv
<1>11. ReadInv(c)'
  BY <1>8, <1>9, <1>10 DEF ReadInv
<1> QED
  BY <1>5, <1>11, OthersKept

LEMMA ShowKeeps ==
  ASSUME ClientInv, NEW c \in Readers, Show(c)
  PROVE  \A d \in Readers : ReadInv(d)'
<1>1. /\ stage[c] = "answered" /\ left[c] = {} /\ UNCHANGED registryVars
      /\ left' = left /\ call' = call /\ answer' = answer
  BY DEF Show
<1>2. ReadInv(c)
  BY ReadFacts
<1>3. at[c] = "out"
  BY <1>1, <1>2 DEF ReadInv, StageInv
<1>4. CASE Missing(c)
  <2>1. UNCHANGED <<registryVars, call, answer, left, shown>> /\ Stage(c, "failed")
    BY <1>4 DEF Show, Fail
  <2> QED BY <1>1, <1>3, <2>1, MovesOn
<1>5. CASE ~Missing(c)
  <2>1. /\ shown' = [shown EXCEPT ![c] = Kept(c)]
        /\ stage' = [stage EXCEPT ![c] = "done"]
    BY <1>5 DEF Show, Stage
  <2>2. /\ Own(shown, shown', c) /\ shown'[c] = Kept(c)
        /\ Own(stage, stage', c) /\ stage'[c] = "done"
    BY <2>1, ReadShapes, OwnAssigned
  <2>3. Own(left, left', c) /\ Own(call, call', c) /\ Own(answer, answer', c)
    BY <1>1, ReadShapes, OwnAssigned
  <2>4. Alone(c) /\ listed' \in Nat /\ listed <= listed'
    BY <1>1, <2>2, <2>3, OwnStep
  <2>5. at' = at /\ have' = have /\ listed' = listed /\ Op(c)' = Op(c)
    BY <1>1 DEF registryVars, Op
  <2>6. StageInv(c)'
    BY <1>1, <1>2, <1>3, <2>2, <2>5 DEF ReadInv, StageInv, Ready
  <2>7. OwnedInv(c)'
    <3> SUFFICES ASSUME Op(c).keeps = "owned" PROVE OwnedInv(c)'
      BY <2>5 DEF OwnedInv
    <3>1. /\ answer[c] \subseteq Nat /\ left[c] \subseteq answer[c]
          /\ OwnedThroughout(c) \subseteq shown[c] \cup left[c]
          /\ shown[c] \subseteq OwnedAtSomeTime(c)
      BY <1>1, <1>2 DEF ReadInv, OwnedInv
    <3>2. Kept(c) = shown[c]
      BY DEF Kept
    <3>3. /\ OwnedThroughout(c)' = OwnedThroughout(c)
          /\ OwnedAtSomeTime(c)' = OwnedAtSomeTime(c)
      BY <1>1, <2>5 DEF OwnedThroughout, OwnedAtSomeTime, Since
    <3> QED BY <1>1, <2>2, <3>1, <3>2, <3>3 DEF OwnedInv
  <2>8. BookInv(c)'
    <3> SUFFICES ASSUME Op(c).keeps = "levels" PROVE BookInv(c)'
      BY <2>5 DEF BookInv
    <3>1. Kept(c) = {aggregateLevels(b) : b \in answer[c]}
      BY DEF Kept
    <3>2. PICK b \in Books : answer[c] = {b}
      BY <1>1, <1>2 DEF ReadInv, BookInv
    <3>3. shown'[c] = {aggregateLevels(b)}
      BY <2>2, <3>1, <3>2
    <3> QED BY <1>1, <3>2, <3>3 DEF BookInv
  <2>9. ReadInv(c)'
    BY <2>6, <2>7, <2>8 DEF ReadInv
  <2> QED BY <2>4, <2>9, OthersKept
<1> QED
  BY <1>4, <1>5

\* The registry's own steps reach a read that waits for it, and no other.
LEMMA LoadingKeeps ==
  ASSUME ClientInv, NEW t \in Threads, LoadStep(t), UNCHANGED queryVars, listed' \in Nat, listed <= listed',
         \A r \in Readers : have[r] # 0 => have'[r] # 0
  PROVE  \A d \in Readers : ReadInv(d)'
<1> SUFFICES ASSUME NEW d \in Readers PROVE ReadInv(d)'
  OBVIOUS
<1>1. Still(d)
  BY DEF Still, queryVars
<1>2. ReadInv(d) /\ listed \in Nat /\ have[d] \in Nat /\ d \in Threads
  BY ReadFacts
<1>3. /\ at \in [Threads -> {"out", "queue", "load", "store"}]
      /\ have \in [Readers -> 0..Len(Listings)]
  BY DEF ClientInv, LoadInv, RegistryTypeOK
<1>4. at[t] # "out"
  BY DEF LoadStep, Lock, Load, LoadFails, Store
<1>5. d # t => at'[d] = at[d] /\ have'[d] = have[d]
  BY <1>2, <1>3 DEF LoadStep, Lock, Load, LoadFails, Store
<1>6. stage[d] \notin {"ensuring", "resolving"} => d # t
  BY <1>2, <1>4 DEF ReadInv, StageInv
<1> QED
  BY <1>1, <1>2, <1>5, <1>6, Frame

LEMMA TockKeeps ==
  ASSUME ClientInv, NEW t \in Refreshers, Tock(t)
  PROVE  \A d \in Readers : ReadInv(d)'
<1> SUFFICES ASSUME NEW d \in Readers PROVE ReadInv(d)'
  OBVIOUS
<1>1. d # t
  BY RegistryAssumption
<1>2. at \in [Threads -> {"out", "queue", "load", "store"}] /\ d \in Threads
  BY DEF ClientInv, LoadInv, RegistryTypeOK, Threads
<1>3. at'[d] = at[d] /\ have' = have /\ listed' = listed
  BY <1>1, <1>2 DEF Tock, Refresh
<1>4. Still(d)
  BY DEF Tock, Still, queryVars
<1> QED
  BY <1>3, <1>4, ReadFacts, Frame

\* What leaves every read and its registry alone.
LEMMA ElsewhereKeeps ==
  ASSUME ClientInv, UNCHANGED <<queryVars, at, have>>, listed' \in Nat, listed <= listed'
  PROVE  \A d \in Readers : ReadInv(d)'
<1> SUFFICES ASSUME NEW d \in Readers PROVE ReadInv(d)'
  OBVIOUS
<1>1. Still(d)
  BY DEF Still, queryVars
<1> QED
  BY <1>1, ReadFacts, Frame

\* A read's variables stay functions of the reads, and the client's keep their types.
LEMMA ShapesKept ==
  ASSUME ClientInv, [Next]_vars
  PROVE  /\ Shapes' /\ setting' \in Settings /\ stage' \in [Readers -> Stages]
         /\ closed' \in BOOLEAN /\ loopUp' \in BOOLEAN
         /\ conn' \in [Connections -> {"none", "up", "down"}]
<1> DEFINE Kept1(f, g) == g = f \/ \E c \in Readers : \E v : g = [f EXCEPT ![c] = v]
           Types == /\ setting' \in Settings /\ closed' \in BOOLEAN /\ loopUp' \in BOOLEAN
                    /\ conn' \in [Connections -> {"none", "up", "down"}]
           Reads == /\ Kept1(call, call') /\ Kept1(answer, answer')
                    /\ Kept1(left, left') /\ Kept1(shown, shown')
                    /\ stage' = stage \/ \E c \in Readers, s \in Stages : stage' = [stage EXCEPT ![c] = s]
<1>0. /\ setting \in Settings /\ stage \in [Readers -> Stages]
      /\ closed \in BOOLEAN /\ loopUp \in BOOLEAN
      /\ conn \in [Connections -> {"none", "up", "down"}]
      /\ Shape(call) /\ Shape(answer) /\ Shape(left) /\ Shape(shown)
  BY DEF ClientInv, Shapes
<1>1. UNCHANGED clientVars => Types
  BY <1>0 DEF clientVars
<1>2. UNCHANGED queryVars => Reads
  BY DEF queryVars
<1>3. ASSUME NEW c \in Readers, Call(c) \/ Proceed(c) PROVE Reads /\ Types
  <2> USE DEF Stages, Stage, Fail, AfterMarkets
  <2>1. CASE Call(c)
    <3>1. PICK a \in setting.asks[c], s \in Stages : Leads(c, a, s)
      BY <2>1, CallLeads
    <3> HIDE DEF Stages
    <3>2. UNCHANGED <<answer, left, shown, clientVars>>
      BY <2>1 DEF Call
    <3>3. call' = [call EXCEPT ![c] = a] /\ stage' = [stage EXCEPT ![c] = s]
      BY <3>1 DEF Leads
    <3> QED BY <1>1, <3>2, <3>3
  <2>2. CASE GetRegistry(c)
    BY <1>1, <2>2 DEF GetRegistry
  <2>3. CASE Ensured(c)
    BY <1>1, <2>3 DEF Ensured
  <2>4. CASE Resolved(c)
    BY <1>1, <2>4 DEF Resolved
  <2>5. CASE Overrun(c) \/ NoToken(c) \/ NoAnswer(c) \/ Send(c)
    BY <1>1, <2>5 DEF Overrun, Send, NoToken, NoAnswer
  <2>6. CASE Admit(c)
    <3>1. UNCHANGED <<call, answer, left, clientVars>>
      BY <2>6 DEF Admit
    <3>2. \E s \in {"done", "failed", "token", "send"} : stage' = [stage EXCEPT ![c] = s]
      <4>1. CASE Op(c).keeps = "market"
        BY <2>6, <4>1 DEF Admit
      <4>2. CASE Op(c).keeps # "market" /\ RefusedLate(call[c])
        BY <2>6, <4>2 DEF Admit
      <4>3. CASE Op(c).keeps # "market" /\ ~RefusedLate(call[c]) /\ Op(c).private
        BY <2>6, <4>3 DEF Admit
      <4>4. CASE Op(c).keeps # "market" /\ ~RefusedLate(call[c]) /\ ~Op(c).private
        BY <2>6, <4>4 DEF Admit
      <4> QED BY <4>1, <4>2, <4>3, <4>4
    <3>3. Kept1(shown, shown')
      <4>1. CASE Op(c).keeps = "market"
        BY <2>6, <4>1 DEF Admit
      <4>2. CASE Op(c).keeps # "market" /\ RefusedLate(call[c])
        BY <2>6, <4>2 DEF Admit
      <4>3. CASE Op(c).keeps # "market" /\ ~RefusedLate(call[c]) /\ Op(c).private
        BY <2>6, <4>3 DEF Admit
      <4>4. CASE Op(c).keeps # "market" /\ ~RefusedLate(call[c]) /\ ~Op(c).private
        BY <2>6, <4>4 DEF Admit
      <4> QED BY <4>1, <4>2, <4>3, <4>4
    <3> QED BY <1>1, <3>1, <3>2, <3>3
  <2>7. CASE SignToken(c)
    BY <1>1, <1>2, <2>7 DEF SignToken
  <2>8. CASE Answer(c)
    <3>1. UNCHANGED <<call, shown, clientVars>>
      BY <2>8 DEF Answer
    <3>2. \E s \in {"answered", "failed"} : stage' = [stage EXCEPT ![c] = s]
      BY <2>8 DEF Answer
    <3>3. Kept1(answer, answer') /\ Kept1(left, left')
      BY <2>8 DEF Answer
    <3> QED BY <1>1, <3>1, <3>2, <3>3
  <2>9. CASE Judge(c)
    <3>1. UNCHANGED <<call, stage, answer, clientVars>> /\ Kept1(left, left') /\ Kept1(shown, shown')
      BY <2>9 DEF Judge
    <3> QED BY <1>1, <3>1
  <2>10. CASE Show(c)
    BY <1>1, <2>10 DEF Show
  <2> QED BY <1>3, <2>1, <2>2, <2>3, <2>4, <2>5, <2>6, <2>7, <2>8, <2>9, <2>10 DEF Proceed
<1>4. ASSUME NEW k \in Connections, Open(k) \/ ConnEnds(k) PROVE Reads /\ Types
  <2>1. UNCHANGED queryVars /\ setting' = setting /\ closed' = closed /\ loopUp' = loopUp
    BY <1>4 DEF Open, ConnEnds
  <2>2. conn' \in [Connections -> {"none", "up", "down"}]
    BY <1>0, <1>4 DEF Open, ConnEnds
  <2> QED BY <1>0, <1>2, <2>1, <2>2
<1>5. ASSUME LoopEnds PROVE Reads /\ Types
  <2>1. UNCHANGED queryVars /\ UNCHANGED <<setting, closed, conn>> /\ loopUp' = FALSE
    BY <1>5 DEF LoopEnds
  <2>2. Reads
    BY <1>2, <2>1
  <2>3. Types
    BY <1>0, <2>1
  <2> QED BY <2>2, <2>3
<1>6. ASSUME Close PROVE Reads /\ Types
  <2>1. UNCHANGED queryVars /\ UNCHANGED <<setting, loopUp, conn>> /\ closed' = TRUE
    BY <1>6 DEF Close
  <2>2. Reads
    BY <1>2, <2>1
  <2>3. Types
    BY <1>0, <2>1
  <2> QED BY <2>2, <2>3
<1>7. ASSUME \/ \E t \in Threads : Loading(t)
             \/ \E t \in Refreshers : Tock(t)
             \/ ZeroKeys \/ Elsewhere \/ UNCHANGED vars
      PROVE  Reads /\ Types
  <2>1. UNCHANGED queryVars /\ UNCHANGED clientVars
    BY <1>7 DEF Loading, Tock, ZeroKeys, Elsewhere, vars
  <2> QED BY <1>1, <1>2, <2>1
<1>8. Reads /\ Types
  <2> HIDE DEF Reads, Types
  <2> QED BY <1>3, <1>4, <1>5, <1>6, <1>7, Zenon DEF Next
<1>9. ASSUME NEW f, NEW g, Shape(f), Kept1(f, g) PROVE Shape(g)
  BY <1>9 DEF Shape
<1>10. Shape(call)' /\ Shape(answer)' /\ Shape(left)' /\ Shape(shown)'
  <2> HIDE DEF Kept1, Types
  <2>1. Kept1(call, call') /\ Kept1(answer, answer') /\ Kept1(left, left') /\ Kept1(shown, shown')
    BY <1>8
  <2>2. Shape(call') /\ Shape(answer') /\ Shape(left') /\ Shape(shown')
    BY <1>0, <1>9, <2>1
  <2> QED BY <2>2 DEF Shape
<1>11. stage' \in [Readers -> Stages]
  <2> HIDE DEF Kept1, Types
  <2> QED BY <1>0, <1>8
<1> QED
  BY <1>8, <1>10, <1>11 DEF Shapes

LEMMA ClientInit == Init => ClientInv
<1> SUFFICES ASSUME Init PROVE ClientInv
  OBVIOUS
<1>1. LoadInv /\ HaveInv /\ TokenInv
  BY LoadInvInit, HaveInvInit, TokenInvInit DEF Init
<1>2. Shapes
  BY DEF Init, Shapes, Shape
<1>3. setting \in Settings /\ closed \in BOOLEAN /\ loopUp \in BOOLEAN
  BY QueriesAssumption DEF Init
<1>4. stage \in [Readers -> Stages] /\ conn \in [Connections -> {"none", "up", "down"}]
  BY DEF Init, Stages
<1>5. ASSUME NEW c \in Readers PROVE ReadInv(c)
  <2>1. stage[c] = "idle" /\ shown[c] = {} /\ at[c] = "out"
    BY DEF Init, RegistryInit, Threads
  <2> QED BY <2>1 DEF ReadInv, StageInv, OwnedInv, BookInv, Ready
<1> QED
  BY <1>1, <1>2, <1>3, <1>4, <1>5 DEF ClientInv

LEMMA ClientInvStep ==
  ASSUME ClientInv, [Next]_vars
  PROVE  ClientInv'
<1>1. [RegistryNext]_registryVars /\ [TokenNext]_tokenVars
  BY OneAtATime DEF vars
<1>2. LoadInv' /\ TokenInv'
  BY <1>1, LoadInvStep, TokenInvStep DEF ClientInv
<1>3. /\ HaveInv'
      /\ listed \in Nat /\ listed' \in Nat /\ listed <= listed'
      /\ \A r \in Readers : have[r] # 0 => have'[r] # 0
  BY <1>1, HaveInvStep DEF ClientInv
<1>4. \A d \in Readers : ReadInv(d)'
  <2>1. ASSUME NEW c \in Readers, Call(c) PROVE \A d \in Readers : ReadInv(d)'
    BY <2>1, CallKeeps
  <2>2. ASSUME NEW c \in Readers, GetRegistry(c) PROVE \A d \in Readers : ReadInv(d)'
    BY <1>3, <2>2, GetRegistryKeeps
  <2>3. ASSUME NEW c \in Readers, Admit(c) PROVE \A d \in Readers : ReadInv(d)'
    BY <2>3, AdmitKeeps
  <2>4. ASSUME NEW c \in Readers,
               Ensured(c) \/ Resolved(c) \/ Overrun(c) \/ Send(c) \/ NoToken(c) \/ NoAnswer(c)
        PROVE \A d \in Readers : ReadInv(d)'
    BY <2>4, AsideKeeps
  <2>5. ASSUME NEW c \in Readers, Answer(c) PROVE \A d \in Readers : ReadInv(d)'
    BY <2>5, AnswerKeeps
  <2>6. ASSUME NEW c \in Readers, Judge(c) PROVE \A d \in Readers : ReadInv(d)'
    BY <2>6, JudgeKeeps
  <2>7. ASSUME NEW c \in Readers, Show(c) PROVE \A d \in Readers : ReadInv(d)'
    BY <2>7, ShowKeeps
  <2>8. ASSUME NEW t \in Threads, Loading(t) PROVE \A d \in Readers : ReadInv(d)'
    BY <1>3, <2>8, LoadingKeeps DEF Loading
  <2>9. ASSUME NEW t \in Refreshers, Tock(t) PROVE \A d \in Readers : ReadInv(d)'
    BY <2>9, TockKeeps
  <2>10. ASSUME \/ \E k \in Connections : Open(k) \/ ConnEnds(k)
                \/ \E c \in Readers : SignToken(c)
                \/ LoopEnds \/ Close \/ ZeroKeys \/ Elsewhere \/ UNCHANGED vars
         PROVE \A d \in Readers : ReadInv(d)'
    <3>1. UNCHANGED <<queryVars, at, have>>
      BY <2>10 DEF Open, ConnEnds, SignToken, LoopEnds, Close, ZeroKeys, Elsewhere, Relist, vars,
                   registryVars
    <3> QED BY <1>3, <3>1, ElsewhereKeeps
  <2>11. ASSUME NEW c \in Readers, Proceed(c)
         PROVE  \/ GetRegistry(c) \/ Admit(c) \/ SignToken(c) \/ Answer(c) \/ Judge(c) \/ Show(c)
                \/ Ensured(c) \/ Resolved(c) \/ Overrun(c) \/ Send(c) \/ NoToken(c) \/ NoAnswer(c)
    BY <2>11 DEF Proceed
  <2> QED
    BY <2>1, <2>2, <2>3, <2>4, <2>5, <2>6, <2>7, <2>8, <2>9, <2>10, <2>11, Zenon DEF Next
<1>5. /\ Shapes' /\ setting' \in Settings /\ stage' \in [Readers -> Stages]
      /\ closed' \in BOOLEAN /\ loopUp' \in BOOLEAN
      /\ conn' \in [Connections -> {"none", "up", "down"}]
  BY ShapesKept
<1> QED
  BY <1>2, <1>3, <1>4, <1>5, Zenon DEF ClientInv

LEMMA ClientInvAlways == Spec => []ClientInv
  BY ClientInit, ClientInvStep, PTL DEF Spec

\* Every variable of the client's reads keeps its type.
THEOREM QueriesTypeCorrect == Spec => []TypeOK
<1>1. ClientInv => TypeOK
  BY DEF ClientInv, LoadInv, TokenInv, TypeOK, Stages
<1> QED
  BY <1>1, ClientInvAlways, PTL

\* Whatever is listed, delisted and refreshed while a read is under way, for any
\* markets, rows and books: it hides no row whose market the section had all
\* along, shows none whose market it never had, and shows of a book each price
\* once with everything that rests there.
THEOREM NothingIsHidden == Spec => []NothingHidden
<1>1. ASSUME ClientInv PROVE NothingHidden
  <2> DEFINE Shown(c) ==
        CASE Op(c).keeps = "owned" ->
               OwnedThroughout(c) \subseteq shown[c] /\ shown[c] \subseteq OwnedAtSomeTime(c)
          [] Op(c).keeps = "levels" -> \A orders \in answer[c], levels \in shown[c] :
               /\ \A o \in ToSet(orders) : Resting(orders, o.price) = Total(levels, o.price)
               /\ \A i, j \in 1..Len(levels) : i # j => levels[i].price # levels[j].price
               /\ \A l \in ToSet(levels) : l.size > 0
          [] OTHER -> TRUE
  <2> SUFFICES ASSUME NEW c \in Readers, stage[c] = "done" PROVE Shown(c)
    BY DEF NothingHidden
  <2>0. ReadInv(c)
    BY <1>1, ReadFacts
  <2>1. CASE Op(c).keeps = "owned"
    <3>1. OwnedThroughout(c) \subseteq shown[c] /\ shown[c] \subseteq OwnedAtSomeTime(c)
      BY <2>0, <2>1 DEF ReadInv, OwnedInv
    <3> QED BY <2>1, <3>1
  <2>2. CASE Op(c).keeps = "levels"
    <3>1. PICK b \in Books : answer[c] = {b} /\ shown[c] = {aggregateLevels(b)}
      BY <2>0, <2>2 DEF ReadInv, BookInv
    <3>2. b \in Seq(Order) /\ \A i, j, k \in DOMAIN b :
            i < j /\ j < k /\ b[i].price = b[k].price => b[j].price = b[i].price
      BY QueriesAssumption DEF Order
    <3>3. /\ \A p : Resting(b, p) = Total(aggregateLevels(b), p)
          /\ \A i, j \in 1..Len(aggregateLevels(b)) :
               i # j => aggregateLevels(b)[i].price # aggregateLevels(b)[j].price
          /\ \A l \in ToSet(aggregateLevels(b)) : l.size > 0
      BY <3>2, LevelsAreFaithful
    <3>4. ASSUME NEW orders \in answer[c], NEW levels \in shown[c]
          PROVE  /\ \A o \in ToSet(orders) : Resting(orders, o.price) = Total(levels, o.price)
                 /\ \A i, j \in 1..Len(levels) : i # j => levels[i].price # levels[j].price
                 /\ \A l \in ToSet(levels) : l.size > 0
      <4>1. orders = b /\ levels = aggregateLevels(b)
        BY <3>1
      <4> QED BY <3>3, <4>1
    <3> QED BY <2>2, <3>4
  <2>3. CASE Op(c).keeps \notin {"owned", "levels"}
    BY <2>3
  <2> QED BY <2>1, <2>2, <2>3
<1> QED
  BY <1>1, ClientInvAlways, PTL
=============================================================================
