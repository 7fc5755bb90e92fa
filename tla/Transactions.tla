----------------------------- MODULE Transactions -----------------------------
(* The seven transactions of internal/tx: their fields, the rules Validate    *)
(* checks, the elements that are hashed and signed, and the tx_info that is   *)
(* sent.  A transaction is a record with its type, its header and its own     *)
(* fields.  A hash is its preimage: hashing is taken to be injective.         *)
EXTENDS Precision

CONSTANTS ChainID,
          MaxAccountIndex, MaxClientOrderIndex, MaxOrderIndex, MaxTimestamp,
          MaxTransferAmount, FeeTick,
          Word        \* 2^32: the halves of a margin amount

ASSUME RangesAssumption ==
  /\ MaxClientOrderIndex \in Nat \ {0} /\ MaxOrderIndex > MaxClientOrderIndex
  /\ Word \in Nat \ {0} /\ MaxTimestamp \in Nat

\* types/enums.go
Limit == 0 Market == 1 StopLoss == 2 StopLossLimit == 3 TakeProfit == 4
TakeProfitLimit == 5 TWAP == 6
IOC == 0 GTT == 1 PostOnly == 2
CancelNow == 0 CancelScheduled == 1 CancelAbort == 2
OTO == 1 OCO == 2 OTOCO == 3
Stops == {StopLoss, StopLossLimit}
Profits == {TakeProfit, TakeProfitLimit}

TxType == [CreateOrder |-> 14, CancelOrder |-> 15, CancelAllOrders |-> 16, ModifyOrder |-> 17,
           UpdateLeverage |-> 20, CreateGroupedOrders |-> 28, UpdateMargin |-> 29]

\* internal/tx/errors.go
NilMarketIndex == 255
MaxMarketIndex == 32767
MaxAPIKeyIndex == 254
MarginFractionTick == 10000
NbAttributesPerTx == 4
MaxGroupedOrderCount == 3
-----------------------------------------------------------------------------
(* Attributes: 0 is the value of an absent one, but for the market scope.     *)

\* The loop that appends to a slice what is in a set: those elements, in order.
Chosen(q, kept) == FoldLeft(LAMBDA r, x : IF x \in kept THEN Append(r, x) ELSE r, <<>>, q)

NoAttributes == [integrator |-> 0, takerFee |-> 0, makerFee |-> 0, skipNonce |-> FALSE,
                 hasMarket |-> FALSE, market |-> 0, behavior |-> 0, equality |-> 0, version |-> 0]

\* The present attributes, by ascending type, as <<type, value>>.
slots(a) == <<<<1, a.integrator>>, <<2, a.takerFee>>, <<3, a.makerFee>>,
              <<4, IF a.skipNonce THEN 1 ELSE 0>>, <<5, a.market>>, <<6, a.behavior>>,
              <<7, a.equality>>, <<8, a.version>>>>
Scoped(a) == a.hasMarket /\ a.market # NilMarketIndex
collect(a) == Chosen(slots(a), {s \in ToSet(slots(a)) : IF s[1] = 5 THEN Scoped(a) ELSE s[2] # 0})

\* The header is empty until the engine fills it.
NoHead == [account |-> 0, key |-> 0, nonce |-> 0, expiredAt |-> 0]

HasFees(a) == a.takerFee # 0 \/ a.makerFee # 0
AttributesValid(a) ==
  \/ collect(a) = <<>>
  \/ /\ Len(collect(a)) <= NbAttributesPerTx
     /\ a.integrator \in 0..MaxAccountIndex
     /\ a.takerFee <= FeeTick /\ a.makerFee <= FeeTick
     /\ a.hasMarket => a.market \in 0..MaxMarketIndex
     /\ a.behavior <= 3 /\ a.equality <= 1 /\ a.version \in 0..MaxTimestamp
     /\ HasFees(a) => a.integrator # 0 /\ a.behavior = 0 /\ a.equality = 0
     /\ ~(a.behavior = 3 /\ a.equality = 1)

HeadValid(t, allowNilAPIKey) ==
  LET h == t.head IN
  /\ AttributesValid(t.attributes)
  /\ h.account \in -1..MaxAccountIndex
  /\ h.key <= MaxAPIKeyIndex \/ allowNilAPIKey
  /\ h.nonce >= 0 /\ h.expiredAt \in 0..MaxTimestamp
-----------------------------------------------------------------------------
(* Validation of orders *)

OrderInfos == [market : Int, client : Int, base : Int, price : Int, ask : Int, type : Int, tif : Int,
               reduceOnly : Int, trigger : Int, expiry : Int]

MarketValid(m) == m \in 0..MaxMarketIndex /\ m # NilMarketIndex
\* A reference by client order index or by order index.
RefValid(index) == index >= 1 /\ index <= MaxOrderIndex

RangesValid(o) ==
  /\ o.client \in 0..MaxClientOrderIndex
  /\ o.base \in 0..MaxWireSize /\ (o.base = 0 => o.reduceOnly = 1)
  /\ o.price \in 1..MaxWirePrice
  /\ o.ask \in {0, 1} /\ o.tif \in {IOC, GTT, PostOnly} /\ o.reduceOnly \in {0, 1}
  /\ o.expiry >= 0

\* validateParent: a limit or market order; validateChild: a stop or a profit.
ParentTypeValid(o) ==
  /\ o.type \in {Limit, Market} /\ o.trigger = 0
  /\ o.type = Market => o.tif = IOC
  /\ (o.tif = IOC) <=> (o.expiry = 0)
ChildTypeValid(o) ==
  /\ o.type \in Stops \cup Profits /\ o.trigger # 0 /\ o.expiry # 0
  /\ o.type \in {StopLoss, TakeProfit} => o.tif = IOC
TypeValid(o) ==
  \/ ParentTypeValid(o) \/ ChildTypeValid(o)
  \/ o.type = TWAP /\ o.tif = GTT /\ o.trigger = 0 /\ o.expiry # 0

OrderValid(o) == MarketValid(o.market) /\ RangesValid(o) /\ TypeValid(o)

Siblings(a, b) ==
  /\ ChildTypeValid(a) /\ ChildTypeValid(b)
  /\ {a.type, b.type} \cap Stops # {} /\ {a.type, b.type} \cap Profits # {}
OCOValid(os) ==
  /\ Len(os) = 2 /\ os[1].base = os[2].base /\ os[1].ask = os[2].ask
  /\ os[1].reduceOnly = 1 /\ os[2].reduceOnly = 1 /\ os[1].expiry = os[2].expiry
  /\ Siblings(os[1], os[2])
\* The parent against each child.
Triggers(os) == \A i \in 2..Len(os) :
  /\ os[i].base = 0 /\ os[i].ask # os[1].ask
  /\ os[1].expiry # 0 => os[i].expiry = os[1].expiry
OTOValid(os) == /\ Len(os) = 2 /\ Triggers(os)
                /\ ParentTypeValid(os[1]) /\ ChildTypeValid(os[2])
OTOCOValid(os) == /\ Len(os) = 3 /\ Triggers(os) /\ os[2].expiry = os[3].expiry
                  /\ ParentTypeValid(os[1]) /\ Siblings(os[2], os[3])
GroupRangesValidUnchecked(os) ==
  /\ os # <<>> /\ Len(os) <= MaxGroupedOrderCount /\ MarketValid(os[1].market)
  /\ \A i \in 1..Len(os) : os[i].market = os[1].market /\ os[i].price \in 1..MaxWirePrice
GroupRangesValid(os) ==
  /\ os # <<>> /\ Len(os) <= MaxGroupedOrderCount /\ MarketValid(os[1].market)
  /\ \A i \in 1..Len(os) : os[i].market = os[1].market /\ RangesValid(os[i])
  /\ \A i, j \in 1..Len(os) : os[i].client = os[j].client => i = j \/ os[i].client = 0
GroupValid(grouping, os) ==
  /\ GroupRangesValid(os)
  /\ \/ grouping = OCO /\ OCOValid(os)
     \/ grouping = OTO /\ OTOValid(os)
     \/ grouping = OTOCO /\ OTOCOValid(os)

CancelAllValid(t) ==
  LET a == t.attributes IN
  /\ a.hasMarket /\ a.market # NilMarketIndex => t.tif = CancelNow
  /\ \/ t.tif \in {CancelNow, CancelAbort} /\ t.time = 0
     \/ t.tif = CancelScheduled /\ t.time >= 1

Validate(t) ==
  /\ HeadValid(t, t.type = "CancelAllOrders")
  /\ CASE t.type = "CreateOrder" -> OrderValid(t.order)
       [] t.type = "CreateGroupedOrders" -> GroupValid(t.grouping, t.orders)
       [] t.type = "CancelOrder" -> MarketValid(t.market) /\ RefValid(t.index)
       [] t.type = "ModifyOrder" -> /\ MarketValid(t.market) /\ RefValid(t.index)
                                    /\ t.base \in 0..MaxWireSize /\ t.price \in 1..MaxWirePrice
       [] t.type = "CancelAllOrders" -> CancelAllValid(t)
       [] t.type = "UpdateLeverage" -> /\ t.market # NilMarketIndex /\ t.mode \in {0, 1}
                                       /\ t.fraction \in 1..MarginFractionTick
       [] t.type = "UpdateMargin" -> /\ MarketValid(t.market) /\ t.direction \in {0, 1}
                                     /\ t.amount # 0 /\ t.amount <= MaxTransferAmount
-----------------------------------------------------------------------------
(* Transactions *)

Heads == [account : Int, key : Int, nonce : Int, expiredAt : Int]
AttributeSets == [integrator : Int, takerFee : Int, makerFee : Int, skipNonce : BOOLEAN,
                  hasMarket : BOOLEAN, market : Int, behavior : Int, equality : Int, version : Int]
L2Txs ==
       [type : {"CreateOrder"}, head : Heads, attributes : AttributeSets, order : OrderInfos]
  \cup [type : {"CreateGroupedOrders"}, head : Heads, attributes : AttributeSets,
        grouping : Int, orders : Seq(OrderInfos)]
  \cup [type : {"CancelOrder"}, head : Heads, attributes : AttributeSets, market : Int, index : Int]
  \cup [type : {"ModifyOrder"}, head : Heads, attributes : AttributeSets,
        market : Int, index : Int, base : Int, price : Int, trigger : Int]
  \cup [type : {"CancelAllOrders"}, head : Heads, attributes : AttributeSets, tif : Int, time : Int]
  \cup [type : {"UpdateLeverage"}, head : Heads, attributes : AttributeSets,
        market : Int, fraction : Int, mode : Int]
  \cup [type : {"UpdateMargin"}, head : Heads, attributes : AttributeSets,
        market : Int, amount : Int, direction : Int]
-----------------------------------------------------------------------------
(* Hash and tx_info *)

OrderElements(o) == <<o.market, o.client, o.base, o.price, o.ask, o.type, o.tif,
                      o.reduceOnly, o.trigger, o.expiry>>
OrderFields(o) == [MarketIndex |-> o.market, ClientOrderIndex |-> o.client, BaseAmount |-> o.base,
                   Price |-> o.price, IsAsk |-> o.ask, Type |-> o.type, TimeInForce |-> o.tif,
                   ReduceOnly |-> o.reduceOnly, TriggerPrice |-> o.trigger, OrderExpiry |-> o.expiry]

\* The digests of a group are folded from the left.
GroupDigest(os) == FoldLeft(LAMBDA agg, o : <<agg, OrderElements(o)>>,
                            OrderElements(Head(os)), Tail(os))

Elements(t) ==
  CASE t.type = "CreateOrder" -> OrderElements(t.order)
    [] t.type = "CreateGroupedOrders" -> <<t.grouping, GroupDigest(t.orders)>>
    [] t.type = "CancelOrder" -> <<t.market, t.index>>
    [] t.type = "ModifyOrder" -> <<t.market, t.index, t.base, t.price, t.trigger>>
    [] t.type = "CancelAllOrders" -> <<t.tif, t.time>>
    [] t.type = "UpdateLeverage" -> <<t.market, t.fraction, t.mode>>
    [] t.type = "UpdateMargin" -> <<t.market, t.amount % Word, t.amount \div Word, t.direction>>

\* The attributes are hashed apart, padded to four slots, and hashed with the rest.
aggregate(a) == IF collect(a) = <<>> THEN <<>>
                ELSE [i \in 1..NbAttributesPerTx |->
                        IF i <= Len(collect(a)) THEN collect(a)[i] ELSE <<0, 0>>]
HashWithoutExpiry(t) ==
  [prefix |-> <<ChainID, TxType[t.type], t.head.nonce, t.head.account, t.head.key>>,
   elements |-> Elements(t), attributes |-> aggregate(t.attributes)]
Hash(t) ==
  [prefix |-> <<ChainID, TxType[t.type], t.head.nonce, t.head.expiredAt,
                t.head.account, t.head.key>>,
   elements |-> Elements(t), attributes |-> aggregate(t.attributes)]

Fields(t) ==
  CASE t.type = "CreateOrder" -> OrderFields(t.order)
    [] t.type = "CreateGroupedOrders" ->
         [GroupingType |-> t.grouping, Orders |-> [i \in 1..Len(t.orders) |-> OrderFields(t.orders[i])]]
    [] t.type = "CancelOrder" -> [MarketIndex |-> t.market, Index |-> t.index]
    [] t.type = "ModifyOrder" -> [MarketIndex |-> t.market, Index |-> t.index, BaseAmount |-> t.base,
                                  Price |-> t.price, TriggerPrice |-> t.trigger]
    [] t.type = "CancelAllOrders" -> [TimeInForce |-> t.tif, Time |-> t.time]
    [] t.type = "UpdateLeverage" -> [MarketIndex |-> t.market, MarginMode |-> t.mode,
                                     InitialMarginFraction |-> t.fraction]
    [] t.type = "UpdateMargin" -> [MarketIndex |-> t.market, USDCAmount |-> t.amount,
                                   Direction |-> t.direction]
AppendInfo(t, sig) ==
  [AccountIndex |-> t.head.account, ApiKeyIndex |-> t.head.key, body |-> Fields(t),
   ExpiredAt |-> t.head.expiredAt, Nonce |-> t.head.nonce, Sig |-> sig,
   L2TxAttributes |-> collect(t.attributes)]
=============================================================================
