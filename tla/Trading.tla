------------------------------- MODULE Trading -------------------------------
(* From the requests of the public API to signed transactions: the checks and *)
(* conversions of internal/domain/trading.go, the order view's clean-up of    *)
(* perpetuals/trading.go, and the engine's fill and sign.                     *)
(*                                                                            *)
(* A request is a record whose field do names the method; the batch methods   *)
(* have a sequence of items, the others one item.                             *)
EXTENDS Transactions

CONSTANTS Markets,      \* the section's market metadata, MarketInfo records
          Keys,         \* the configured API keys, the default one first
          AccountIndex,
          Now,          \* the clock, in ms; it stands still while a request is built
          MinOrderExpiryPeriod, MaxOrderExpiryPeriod, DefaultOrderExpiry,
          MinCancelAllPeriod, MaxCancelAllPeriod, TxExpiry,
          MaxBatchSizeREST, MaxBatchSizeWS,
          USDCDecimals  \* of a margin amount: 6

ASSUME PeriodsAssumption ==
  /\ {MinOrderExpiryPeriod, MaxOrderExpiryPeriod, DefaultOrderExpiry,
      MinCancelAllPeriod, MaxCancelAllPeriod} \subseteq Int
  /\ 0 < MinOrderExpiryPeriod /\ MinOrderExpiryPeriod <= DefaultOrderExpiry
  /\ DefaultOrderExpiry <= MaxOrderExpiryPeriod /\ MinCancelAllPeriod <= MaxCancelAllPeriod
  /\ Now \in Nat /\ TxExpiry \in Nat /\ AccountIndex \in Int
  /\ Keys \in Seq(Nat) /\ Keys # <<>>

\* What a market's listing gives, each symbol once.
ASSUME MarketsAssumption ==
  /\ Markets \subseteq [symbol : STRING, id : Int \ {NilMarketIndex}, status : STRING,
                        priceDecimals : Int, sizeDecimals : Int, minFraction : Nat]
  /\ \A m, n \in Markets : m.symbol = n.symbol => m = n
  /\ USDCDecimals \in Int

\* The fields of the requests (types/orders.go) and of an open order.
OrderRequests == [symbol : STRING, type : Nat, tif : Nat, client : Int, price : Int, size : Int,
                  reduceOnly : BOOLEAN, ask : BOOLEAN, trigger : Int, expiry : Int]
ModifyRequests == [symbol : STRING, index : Int, price : Int, size : Int, trigger : Int, version : Int]
CancelRequests == [symbol : STRING, index : Int]
CancelAllRequests == [symbol : STRING, tif : Nat, time : Int]
LeverageRequests == [symbol : STRING, leverage : Nat, mode : Nat]
MarginRequests == [symbol : STRING, usdc : Int, add : BOOLEAN]
CloseRequests == [symbol : STRING, price : Int]
SendOptions == [key : Nat, nonce : Int, expiredAt : Int, skip : BOOLEAN, ws : BOOLEAN]
OpenOrders == [market : Int, index : Int, createdAt : Int, timestamp : Int]

boolByte(b) == IF b THEN 1 ELSE 0

\* resolve: the market of a symbol.  The symbol "" is nobody's.
Known(symbol) == \E m \in Markets : m.symbol = symbol
Resolved(symbol) == CHOOSE m \in Markets : m.symbol = symbol
KnownID(id) == \E m \in Markets : m.id = id
MarketByID(id) == CHOOSE m \in Markets : m.id = id
Active(m) == m.status \in {"", "active"}
-----------------------------------------------------------------------------
(* One order, one modification, one cancel *)

Within(time, least, most) == time >= Now + least /\ time <= Now + most

Immediate(r) == r.type = Market \/ (r.type = Limit /\ r.tif = IOC)
ExpiryOf(r) == IF r.expiry = 0 /\ ~Immediate(r) THEN Now + DefaultOrderExpiry ELSE r.expiry
ExpiryFits(r) ==
  ~Immediate(r) => Within(ExpiryOf(r), MinOrderExpiryPeriod, MaxOrderExpiryPeriod)

Trigger(r, m) == IF r.trigger = 0 THEN Ok(0) ELSE WirePrice(r.trigger, m.priceDecimals)
OrderSize(r, m) == IF r.size = 0 /\ r.reduceOnly THEN Ok(0) ELSE WireSize(r.size, m.sizeDecimals)
WireOrder(r, m) ==
  [market |-> m.id, client |-> r.client, base |-> OrderSize(r, m).value,
   price |-> WirePrice(r.price, m.priceDecimals).value, ask |-> boolByte(r.ask), type |-> r.type,
   tif |-> r.tif, reduceOnly |-> boolByte(r.reduceOnly), trigger |-> Trigger(r, m).value,
   expiry |-> ExpiryOf(r)]

orderWire(r) ==
  LET m == Resolved(r.symbol) IN
  IF /\ Known(r.symbol) /\ Active(m)
     /\ r.type <= TWAP /\ r.tif <= PostOnly /\ r.client \in 0..MaxClientOrderIndex
     /\ WirePrice(r.price, m.priceDecimals).ok /\ OrderSize(r, m).ok /\ Trigger(r, m).ok
     /\ ExpiryFits(r)
  THEN Ok([type |-> "CreateOrder", order |-> WireOrder(r, m), head |-> NoHead,
           attributes |-> NoAttributes])
  ELSE Fails

ModifiedSize(r, m) == IF r.size = 0 THEN Ok(0) ELSE WireSize(r.size, m.sizeDecimals)
modifyWire(r) ==
  LET m == Resolved(r.symbol) IN
  IF /\ Known(r.symbol) /\ r.index > 0 /\ WirePrice(r.price, m.priceDecimals).ok
     /\ ModifiedSize(r, m).ok /\ Trigger(r, m).ok /\ r.version >= 0
  THEN Ok([type |-> "ModifyOrder", market |-> m.id, index |-> r.index,
           base |-> ModifiedSize(r, m).value,
           price |-> WirePrice(r.price, m.priceDecimals).value,
           trigger |-> Trigger(r, m).value,
           head |-> NoHead, attributes |-> [NoAttributes EXCEPT !.version = r.version]])
  ELSE Fails

cancelWire(r) ==
  IF Known(r.symbol) /\ r.index > 0
  THEN Ok([type |-> "CancelOrder", market |-> Resolved(r.symbol).id, index |-> r.index,
           head |-> NoHead, attributes |-> NoAttributes])
  ELSE Fails
-----------------------------------------------------------------------------
(* The account's requests *)

CancelAll(r, scope) ==
  [type |-> "CancelAllOrders", tif |-> r.tif, time |-> r.time, head |-> NoHead,
   attributes |-> scope]
ScopeByValue(symbol) ==
  IF symbol = "" THEN NoAttributes
  ELSE [NoAttributes EXCEPT !.hasMarket = Resolved(symbol).id # 0, !.market = Resolved(symbol).id]
Scope(symbol) ==
  IF symbol = "" THEN NoAttributes
  ELSE [NoAttributes EXCEPT !.hasMarket = TRUE, !.market = Resolved(symbol).id]
CancelAllOrders(r) ==
  IF /\ r.tif \in {CancelNow, CancelScheduled, CancelAbort}
     /\ r.symbol # "" => r.tif = CancelNow /\ Known(r.symbol)
     /\ r.tif = CancelScheduled => Within(r.time, MinCancelAllPeriod, MaxCancelAllPeriod)
  THEN Ok(CancelAll(r, Scope(r.symbol)))
  ELSE Fails

Fraction(leverage) == MarginFractionTick \div leverage
MaxLeverage(m) == IF m.minFraction = 0 THEN 0 ELSE MarginFractionTick \div m.minFraction
LeverageFits(leverage, m) == Fraction(leverage) >= m.minFraction
UpdateLeverage(r) ==
  IF /\ Known(r.symbol) /\ r.leverage >= 1 /\ r.mode \in {0, 1}
     /\ LeverageFits(r.leverage, Resolved(r.symbol))
  THEN Ok([type |-> "UpdateLeverage", market |-> Resolved(r.symbol).id,
           fraction |-> Fraction(r.leverage), mode |-> r.mode, head |-> NoHead,
           attributes |-> NoAttributes])
  ELSE Fails

UpdateMargin(r) ==
  LET amount == WireSize(r.usdc, USDCDecimals) IN
  IF Known(r.symbol) /\ amount.ok
  THEN Ok([type |-> "UpdateMargin", market |-> Resolved(r.symbol).id, amount |-> amount.value,
           direction |-> boolByte(r.add), head |-> NoHead, attributes |-> NoAttributes])
  ELSE Fails
-----------------------------------------------------------------------------
(* Requests *)

\* CancelForgottenOrders: the orders created before the deadline, and the
\* cancels of those whose market is known.  Order times are in seconds.
Created(o) == IF o.createdAt = 0 THEN o.timestamp ELSE o.createdAt
StaleByUpdate(r) == Chosen(r.open, {o \in ToSet(r.open) : o.timestamp <= r.deadline})
Stale(r) == Chosen(r.open, {o \in ToSet(r.open) : Created(o) <= r.deadline})
CancelsOf(orders) ==
  LET known == Chosen(orders, {o \in ToSet(orders) : KnownID(o.market)}) IN
  [i \in 1..Len(known) |-> [symbol |-> MarketByID(known[i].market).symbol, index |-> known[i].index]]

\* ClosePosition: a market order for the position that was read.
Flat(p) == p.size = 0 \/ p.sign = 0
Closing(item, p) ==
  [symbol |-> item.symbol, price |-> item.price, ask |-> p.sign > 0, size |-> p.size,
   type |-> Market, tif |-> IOC, reduceOnly |-> TRUE, client |-> 0, trigger |-> 0, expiry |-> 0]

Items(r) == CASE r.do = "CancelForgottenOrders" -> CancelsOf(Stale(r))
              [] r.do = "ClosePosition"         -> <<Closing(r.items[1], r.position)>>
              [] OTHER                          -> r.items
Transaction(r, item) ==
  CASE r.do \in {"CreateOrder", "CreateBatchOrders", "ClosePosition"} -> orderWire(item)
    [] r.do \in {"ModifyOrder", "ModifyBatchOrders"} -> modifyWire(item)
    [] r.do \in {"CancelOrder", "CancelBatchOrders", "CancelForgottenOrders"} -> cancelWire(item)
    [] r.do = "CancelAllOrders" -> CancelAllOrders(item)
    [] r.do = "UpdateLeverage" -> UpdateLeverage(item)
    [] r.do = "UpdateMargin" -> UpdateMargin(item)
    [] r.do = "Send" -> Ok(item)  \* a transaction built outside the section
Batched(r) == r.do \in {"CreateBatchOrders", "ModifyBatchOrders", "CancelBatchOrders",
                        "CancelForgottenOrders"}

\* The transactions of a request, or the failure of the first item that fails.
Build(r) ==
  LET built == [i \in 1..Len(Items(r)) |-> Transaction(r, Items(r)[i])] IN
  IF built = <<>> \/ \E i \in 1..Len(built) : ~built[i].ok THEN Fails
  ELSE Ok([i \in 1..Len(built) |-> built[i].value])
-----------------------------------------------------------------------------
(* The engine *)

\* selectKey: 0 stands for the first key.
KeyKnown(index) == index = 0 \/ \E i \in 1..Len(Keys) : Keys[i] = index
KeyOf(index) == IF index = 0 THEN Keys[1] ELSE index
BatchFits(r, txs) ==
  Batched(r) => Len(txs) <= (IF r.options.ws THEN MaxBatchSizeWS ELSE MaxBatchSizeREST)

\* An explicit nonce bypasses the lane, which may be in skip mode.
fill(t, i, nonce, o, laneSkips) ==
  [t EXCEPT !.attributes.skipNonce = @ \/ o.skip \/ (o.nonce = 0 /\ laneSkips),
            !.head = [account |-> AccountIndex, key |-> KeyOf(o.key), nonce |-> nonce + i - 1,
                      expiredAt |-> IF o.expiredAt # 0 THEN o.expiredAt ELSE Now + TxExpiry]]
Filled(txs, nonce, o, laneSkips) ==
  [i \in 1..Len(txs) |-> fill(txs[i], i, nonce, o, laneSkips)]

\* What is put on the wire for a transaction: its type and its signed tx_info.
Signed(t) == [type |-> t.type, info |-> AppendInfo(t, Hash(t))]
=============================================================================
