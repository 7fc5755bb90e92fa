------------------------------- MODULE Queries -------------------------------
(* The reads of a section (internal/domain: account.go, markets.go,           *)
(* profile.go) while the exchange lists and delists markets, the registry is  *)
(* loaded and refreshed, the token ages and the client is closed.             *)
(*                                                                            *)
(* Registry and AuthToken are composed here: a read gets the markets, may     *)
(* resolve a symbol, is admitted, is given a token when it is private, asks   *)
(* the exchange (external), and shows the caller what it keeps of the answer. *)
(* A row of an answer is known by its market; a book is one row.              *)
EXTENDS Registry, AuthToken, FiniteSetsExt, SequencesExt

CONSTANTS Settings, \* what behaviours are about: [asks: reader -> the calls it may make,
                    \* refreshes: is there a loop (MarketRefreshInterval > 0), and bounds:
                    \* lasts: the last time, relists, closes: may that happen]
          Books, \* orders of one side of a book, best first, as answered
          Loop,  \* the background refresher, one of Refreshers
          Connections \* the client's shared connections

Operations == {"ActiveOrders", "InactiveOrders", "OrdersByClientIndex", "Positions", "Position",
               "Account", "Balance", "AccountsByL1Address", "APIKeys", "CheckAPIKey",
               "AccountLimits", "AccountTrades", "MarketDetails", "OrderBookSnapshot",
               "RecentTrades", "Candles", "FundingRates", "GetMarketInfo", "SlippagePrice",
               "GetMarkets"}
\* A side of a book is sorted by price: the orders of one price are neighbours.
ASSUME QueriesAssumption ==
  /\ Askers = Readers /\ Loop \in Refreshers
  /\ \A s \in Settings : /\ s.refreshes \in BOOLEAN
                         /\ \A c \in Readers : \A a \in s.asks[c] : a.op \in Operations
  /\ Books \subseteq Seq([price : Nat, left : Int])
  /\ \A b \in Books : \A i, j, k \in DOMAIN b :
       i < j /\ j < k /\ b[i].price = b[k].price => b[j].price = b[i].price

VARIABLES setting,
          call,   \* reader -> its call
          stage,  \* reader -> where it stands
          answer, left, shown, \* reader -> what the exchange answered, its rows not yet
                               \* judged, what the caller was given
          closed, \* the client's life context has ended
          loopUp, \* the background loop runs
          conn    \* the shared connections: "none" before first use, "up", "down"
queryVars == <<call, stage, answer, left, shown>>
clientVars == <<setting, closed, loopUp, conn>>
vars == <<registryVars, tokenVars, queryVars, clientVars>>

NoCall == [op |-> "none"]
Init == /\ RegistryInit /\ TokenInit /\ setting \in Settings
        /\ call = [c \in Readers |-> NoCall] /\ stage = [c \in Readers |-> "idle"]
        /\ answer = [c \in Readers |-> {}] /\ left = [c \in Readers |-> {}]
        /\ shown = [c \in Readers |-> {}]
        /\ closed = FALSE /\ loopUp = setting.refreshes /\ conn = [k \in Connections |-> "none"]
-----------------------------------------------------------------------------
(* The reads: what each does before it asks, and what it keeps.               *)
(* limit: the default and the most, 0 for none.                               *)

Read(ensures, resolves, private, endpoint, limit, keeps) ==
  [ensures |-> ensures, resolves |-> resolves, private |-> private, endpoint |-> endpoint,
   limit |-> limit, keeps |-> keeps]
NoLimit == <<0, 0>>
MarketRead(endpoint, limit, keeps) == Read(FALSE, TRUE, FALSE, endpoint, limit, keeps)

OperationsEnsuringNothing(c) ==
  CASE c.op = "ActiveOrders" ->
         Read(FALSE, c.symbol # "", TRUE, "accountActiveOrders", NoLimit, "owned")
    [] c.op = "AccountTrades" -> Read(FALSE, TRUE, TRUE, "trades", <<100, 0>>, "rows")
    [] OTHER -> Read(FALSE, FALSE, FALSE, "account", NoLimit, "rows")
Operation(c) ==
  CASE c.op = "ActiveOrders" ->
         Read(TRUE, c.symbol # "", TRUE, "accountActiveOrders", NoLimit, "owned")
    [] c.op = "InactiveOrders" ->
         Read(TRUE, c.symbol # "", TRUE, "accountInactiveOrders", <<100, 0>>, "owned")
    [] c.op = "OrdersByClientIndex" -> Read(TRUE, FALSE, TRUE, "accountOrders", NoLimit, "owned")
    [] c.op = "Positions" -> Read(TRUE, FALSE, FALSE, "account", NoLimit, "owned")
    [] c.op = "Position" -> Read(FALSE, TRUE, FALSE, "account", NoLimit, "its row")
    [] c.op \in {"Account", "Balance", "AccountsByL1Address"} ->
         Read(FALSE, FALSE, FALSE, "account", NoLimit, "rows")
    [] c.op \in {"APIKeys", "CheckAPIKey"} -> Read(FALSE, FALSE, FALSE, "apikeys", NoLimit, "rows")
    [] c.op = "AccountLimits" -> Read(FALSE, FALSE, TRUE, "accountLimits", NoLimit, "rows")
    [] c.op = "AccountTrades" -> Read(FALSE, TRUE, TRUE, "trades", <<100, 0>>, "rows")
    [] c.op = "MarketDetails" -> MarketRead("orderBookDetails", NoLimit, "its row or fails")
    [] c.op = "OrderBookSnapshot" -> MarketRead("orderBookOrders", <<100, 250>>, "levels")
    [] c.op = "RecentTrades" -> MarketRead("recentTrades", <<100, 0>>, "rows")
    [] c.op = "Candles" -> MarketRead("candles", <<500, 0>>, "rows")
    [] c.op = "FundingRates" -> Read(FALSE, FALSE, FALSE, "funding-rates", NoLimit, "rows")
    [] c.op \in {"GetMarketInfo", "SlippagePrice"} -> MarketRead("none", NoLimit, "market")
    [] c.op = "GetMarkets" -> Read(TRUE, FALSE, FALSE, "none", NoLimit, "market")

\* A malformed argument: an address, a key index, a list of indexes before
\* anything else, a cursor or a resolution once the markets are known.
RefusedFirst(c) == c.bad /\ c.op \in {"AccountsByL1Address", "CheckAPIKey", "OrdersByClientIndex"}
RefusedLate(c) == c.bad /\ c.op \in {"InactiveOrders", "Candles"}
Limit(c) ==
  LET default == Operation(c).limit[1]
      most == Operation(c).limit[2]
      given == IF c.limit <= 0 THEN default ELSE c.limit IN
  IF most # 0 /\ given > most THEN most ELSE given

\* Consecutive orders of one price are one level; an empty order is none.
AddOrder(levels, o) ==
  CASE o.left <= 0 -> levels
    [] o.left > 0 /\ levels # <<>> /\ Last(levels).price = o.price ->
         ReplaceAt(levels, Len(levels), [price |-> o.price, size |-> Last(levels).size + o.left])
    [] OTHER -> Append(levels, [price |-> o.price, size |-> o.left])
aggregateLevels(orders) == FoldLeft(AddOrder, <<>>, orders)
-----------------------------------------------------------------------------
(* Before the query *)

Stage(c, s) == stage' = [stage EXCEPT ![c] = s]
Fail(c) == Stage(c, "failed")
Op(c) == Operation(call[c])
AfterMarkets(c) == IF Op(c).resolves THEN "resolve" ELSE "admit"

Call(c) ==
  /\ stage[c] = "idle"
  /\ \E a \in setting.asks[c] :
       /\ call' = [call EXCEPT ![c] = a]
       /\ Stage(c, CASE RefusedFirst(a) -> "failed"
                     [] ~RefusedFirst(a) /\ Operation(a).ensures -> "ensure"
                     [] ~RefusedFirst(a) /\ ~Operation(a).ensures /\ Operation(a).resolves ->
                          IF a.symbol = "" THEN "failed" ELSE "resolve"
                     [] OTHER -> "admit")
  /\ UNCHANGED <<registryVars, tokenVars, answer, left, shown, clientVars>>

\* ensureMarkets and resolve: both Get the registry.
GetRegistry(c) ==
  /\ stage[c] \in {"ensure", "resolve"} /\ Get(c)
  /\ Stage(c, IF stage[c] = "ensure" THEN "ensuring" ELSE "resolving")
  /\ UNCHANGED <<tokenVars, call, answer, left, shown, clientVars>>

Ensured(c) ==
  /\ stage[c] = "ensuring" /\ at[c] = "out"
  /\ IF have[c] = 0 THEN Fail(c) ELSE Stage(c, AfterMarkets(c))
  /\ UNCHANGED <<registryVars, tokenVars, call, answer, left, shown, clientVars>>

Resolved(c) ==
  /\ stage[c] = "resolving" /\ at[c] = "out"
  /\ IF have[c] = 0 \/ ~Known(have[c], call[c].symbol) THEN Fail(c) ELSE Stage(c, "admit")
  /\ UNCHANGED <<registryVars, tokenVars, call, answer, left, shown, clientVars>>

\* The answer needs no query, or the limiter and the token come first.
Admit(c) ==
  /\ stage[c] = "admit"
  /\ CASE Op(c).keeps = "market" ->
            /\ shown' = [shown EXCEPT ![c] =
                 IF Op(c).resolves THEN {BySymbol(have[c], call[c].symbol).id} ELSE ByID(have[c])]
            /\ Stage(c, "done") /\ UNCHANGED tokenVars
       [] Op(c).keeps # "market" /\ RefusedLate(call[c]) -> Fail(c) /\ UNCHANGED <<shown, tokenVars>>
       [] Op(c).keeps # "market" /\ ~RefusedLate(call[c]) /\ Op(c).private ->
            AskToken(c) /\ Stage(c, "token") /\ UNCHANGED shown
       [] OTHER -> Stage(c, "send") /\ UNCHANGED <<shown, tokenVars>>
  /\ UNCHANGED <<registryVars, call, answer, left, clientVars>>

\* The budget of the limiter is used up (RejectWhenRateLimited).
Overrun(c) == /\ stage[c] = "admit" /\ Op(c).keeps # "market" /\ Fail(c)
              /\ UNCHANGED <<registryVars, tokenVars, call, answer, left, shown, clientVars>>

SignToken(c) == /\ stage[c] = "token" /\ Sign(c)
                /\ UNCHANGED <<registryVars, queryVars, clientVars>>

Query(c) ==
  [endpoint |-> Op(c).endpoint, auth |-> IF Op(c).private THEN token[c] ELSE 0,
   market |-> IF Op(c).resolves /\ Op(c).keeps # "its row" THEN BySymbol(have[c], call[c].symbol).id
              ELSE 0, limit |-> Limit(call[c])]
Send(c) ==
  /\ \/ stage[c] = "send"
     \/ stage[c] = "token" /\ asking[c] = "yes"
  /\ Stage(c, "wait") /\ UNCHANGED <<registryVars, tokenVars, call, answer, left, shown, clientVars>>
NoToken(c) == /\ stage[c] = "token" /\ asking[c] = "failed" /\ Fail(c)
              /\ UNCHANGED <<registryVars, tokenVars, call, answer, left, shown, clientVars>>
-----------------------------------------------------------------------------
(* The exchange (external) and the answer *)

PrivateEndpoints == {"accountActiveOrders", "accountInactiveOrders", "accountOrders",
                     "accountLimits", "trades"}
ListedIDs == {m.id : m \in Listings[listed]}
Served(q) == q.endpoint \in PrivateEndpoints => q.auth > clock
\* Rows of markets that are listed, of the one that was asked for if any.
Rows(q) == SUBSET (IF q.market = 0 THEN ListedIDs ELSE ListedIDs \cap {q.market})

Answer(c) ==
  /\ stage[c] = "wait"
  /\ IF Served(Query(c))
     THEN /\ Stage(c, "answered")
          /\ \E a \in IF Op(c).keeps = "levels" THEN {{b} : b \in Books} ELSE Rows(Query(c)) :
               /\ answer' = [answer EXCEPT ![c] = a]
               /\ left' = [left EXCEPT ![c] = IF Op(c).keeps = "owned" THEN a ELSE {}]
     ELSE Fail(c) /\ UNCHANGED <<answer, left>>
  /\ UNCHANGED <<registryVars, tokenVars, call, shown, clientVars>>
\* Lost, late, refused or not readable.
NoAnswer(c) == /\ stage[c] = "wait" /\ Fail(c)
               /\ UNCHANGED <<registryVars, tokenVars, call, answer, left, shown, clientVars>>

\* The owned-only reads ask the registry anew for every row (bound: the rows
\* of an answer are ordered by market).
Judge(c) ==
  /\ stage[c] = "answered" /\ left[c] # {}
  /\ LET id == Min(left[c]) IN
     /\ left' = [left EXCEPT ![c] = @ \ {id}]
     /\ shown' = [shown EXCEPT ![c] = IF Owns(id) THEN @ \cup {id} ELSE @]
  /\ UNCHANGED <<registryVars, tokenVars, call, stage, answer, clientVars>>

ItsRow(c) == answer[c] \cap {BySymbol(have[c], call[c].symbol).id}
Kept(c) == CASE Op(c).keeps = "owned"  -> shown[c]
             [] Op(c).keeps = "levels" -> {aggregateLevels(b) : b \in answer[c]}
             [] Op(c).keeps \in {"its row", "its row or fails"} -> ItsRow(c)
             [] OTHER -> answer[c]
\* Account, Balance and CheckAPIKey (the row of the configured public key) need
\* a row; a flat Position is none.
Missing(c) == \/ Op(c).keeps = "its row or fails" /\ ItsRow(c) = {}
              \/ call[c].op \in {"Account", "Balance", "CheckAPIKey"} /\ answer[c] = {}
Show(c) ==
  /\ stage[c] = "answered" /\ left[c] = {}
  /\ IF Missing(c) THEN Fail(c) /\ UNCHANGED shown
     ELSE shown' = [shown EXCEPT ![c] = Kept(c)] /\ Stage(c, "done")
  /\ UNCHANGED <<registryVars, tokenVars, call, answer, left, clientVars>>
-----------------------------------------------------------------------------
(* The registry's threads, the clock and the client *)

Loading(t) == LoadStep(t) /\ UNCHANGED <<tokenVars, queryVars, clientVars>>
\* The loop refreshes on its ticks until the client is closed, others when
\* they are asked to.
Tock(t) == /\ (t = Loop => loopUp) /\ Refresh(t) /\ UNCHANGED <<tokenVars, queryVars, clientVars>>
LoopEnds == /\ loopUp /\ closed /\ at[Loop] = "out" /\ loopUp' = FALSE
            /\ UNCHANGED <<registryVars, tokenVars, queryVars, closed, conn, setting>>

\* StreamConn and PostConn start the connection on first use.
Open(k) == /\ setting.closes /\ conn[k] = "none" /\ conn' = [conn EXCEPT ![k] = "up"]
           /\ UNCHANGED <<registryVars, tokenVars, queryVars, closed, loopUp, setting>>
ConnEnds(k) == /\ conn[k] = "up" /\ closed /\ conn' = [conn EXCEPT ![k] = "down"]
               /\ UNCHANGED <<registryVars, tokenVars, queryVars, closed, loopUp, setting>>

\* Close cancels the life context first, and zeroes the keys last.
Close == /\ setting.closes /\ ~closed /\ closed' = TRUE
         /\ UNCHANGED <<registryVars, tokenVars, queryVars, loopUp, conn, setting>>
ZeroKeys == /\ closed /\ enabled /\ CloseKeys
            /\ UNCHANGED <<registryVars, queryVars, clientVars>>

Proceed(c) == \/ GetRegistry(c) \/ Ensured(c) \/ Resolved(c) \/ Admit(c) \/ Overrun(c)
              \/ SignToken(c) \/ Send(c) \/ NoToken(c) \/ Answer(c) \/ NoAnswer(c) \/ Judge(c) \/ Show(c)
Elsewhere == \/ setting.relists /\ Relist /\ UNCHANGED <<tokenVars, queryVars, clientVars>>
             \/ clock < setting.lasts /\ Tick /\ UNCHANGED <<registryVars, queryVars, clientVars>>
Next == \/ \E c \in Readers : Call(c) \/ Proceed(c)
        \/ \E t \in Threads : Loading(t)
        \/ \E t \in Refreshers : Tock(t)
        \/ \E k \in Connections : Open(k) \/ ConnEnds(k)
        \/ LoopEnds \/ Close \/ ZeroKeys \/ Elsewhere
\* A load and a query end, with an answer or at the REST timeout; a mutex is
\* handed on (Go's mutex does not starve); goroutines run; a select with two
\* ready cases takes either.
Fairness == /\ \A c \in Readers : WF_vars(Proceed(c))
            /\ \A t \in Threads : SF_vars(Lock(t) /\ UNCHANGED <<tokenVars, queryVars, clientVars>>)
            /\ \A t \in Threads : WF_vars(Loading(t))
            /\ \A k \in Connections : WF_vars(ConnEnds(k))
            /\ SF_vars(LoopEnds) /\ WF_vars(ZeroKeys)
Spec == Init /\ [][Next]_vars /\ Fairness
-----------------------------------------------------------------------------
TypeOK == /\ RegistryTypeOK /\ TokenTypeOK
          /\ stage \in [Readers -> {"idle", "ensure", "ensuring", "resolve", "resolving", "admit",
                                    "token", "send", "wait", "answered", "done", "failed"}]
          /\ closed \in BOOLEAN /\ loopUp \in BOOLEAN
          /\ conn \in [Connections -> {"none", "up", "down"}]

(* profile.go:82-87 and account.go:153-158 "every order of the section": what *)
(* a call shows is its answer, without the rows of other sections.  A row     *)
(* whose market the section has had since the call got the markets is never   *)
(* hidden, one whose market it never had is never shown; a book shows each    *)
(* price once with everything that rests there.                               *)
Since(c) == (IF have[c] = 0 THEN 1 ELSE have[c])..listed
OwnedThroughout(c) == {id \in answer[c] : \A l \in Since(c) : id \in ByID(l)}
OwnedAtSomeTime(c) == {id \in answer[c] : \E l \in Since(c) : id \in ByID(l)}
Resting(orders, p) ==
  FoldLeft(LAMBDA sum, o : IF o.price = p /\ o.left > 0 THEN sum + o.left ELSE sum, 0, orders)
Total(levels, p) ==
  FoldLeft(LAMBDA sum, l : IF l.price = p THEN sum + l.size ELSE sum, 0, levels)
NothingHidden == \A c \in Readers : stage[c] = "done" =>
  CASE Op(c).keeps = "owned" ->
         OwnedThroughout(c) \subseteq shown[c] /\ shown[c] \subseteq OwnedAtSomeTime(c)
    [] Op(c).keeps = "levels" -> \A orders \in answer[c], levels \in shown[c] :
         /\ \A o \in ToSet(orders) : Resting(orders, o.price) = Total(levels, o.price)
         /\ \A i, j \in 1..Len(levels) : i # j => levels[i].price # levels[j].price
         /\ \A l \in ToSet(levels) : l.size > 0
    [] OTHER -> TRUE

(* A private call whose query reaches the exchange within Margin of its start *)
(* carries a token that is alive, and no token is replaced by a shorter one.  *)
TokensLast == [](TokenLasts) /\ TokenNeverShortened

(* client.go:242-243 "Close stops the background work": the refresh loop and  *)
(* the connections end, those first used after Close included; and every call *)
(* returns, closed or not, although calls and refreshes share one lock.       *)
EverythingEnds ==
  /\ \A c \in Readers : (stage[c] # "idle") ~> (stage[c] \in {"done", "failed"})
  /\ closed ~> ~loopUp /\ \A k \in Connections : (closed /\ conn[k] = "up") ~> (conn[k] = "down")
=============================================================================
