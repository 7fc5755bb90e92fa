----------------------------- MODULE MCRequests -----------------------------
(***************************************************************************)
(* Requests for TLC: every shape of an order, every figure around its      *)
(* limits, and groups, batches, attributes and options of each kind.       *)
(***************************************************************************)
EXTENDS Requests

\* A market without a minimal fraction, one that is halted, and market 0.
MarketOf(symbol, id, status, price, size, fraction) ==
  [symbol |-> symbol, id |-> id, status |-> status, priceDecimals |-> price,
   sizeDecimals |-> size, minFraction |-> fraction]
ThreeMarkets == {MarketOf("A", 0, "active", 1, 2, 200), MarketOf("B", 1, "", 2, 1, 0),
                 MarketOf("H", 2, "frozen", 1, 1, 0)}
TwoKeys == <<3, 5>>

Plain == [key |-> 0, nonce |-> 0, expiredAt |-> 0, skip |-> FALSE, ws |-> FALSE]
OverWS == [Plain EXCEPT !.ws = TRUE]
Request(method, items) == [do |-> method, items |-> items, options |-> Plain]
Soon == Now + 20
Order == [symbol |-> "A", type |-> Limit, tif |-> GTT, client |-> 1, price |-> 1230, size |-> 7,
          reduceOnly |-> FALSE, ask |-> TRUE, trigger |-> 0, expiry |-> Soon]

\* Every combination of the fields the rules of an order relate.
Shapes == {[Order EXCEPT !.type = t, !.tif = f, !.reduceOnly = r, !.trigger = g, !.expiry = e,
                         !.size = s, !.ask = a] :
             t \in 0..7, f \in 0..3, r, a \in BOOLEAN, g \in {0, 1210}, e \in {0, Soon}, s \in {0, 7}}
\* One field at a time, around its limits.
Odd == {[Order EXCEPT !.symbol = s] : s \in {"B", "H", "X", ""}}
  \cup {[Order EXCEPT !.expiry = e] : e \in {-1, 1, Now + 4, Now + 5, Now + 30, Now + 31}}
  \cup {[Order EXCEPT !.price = p] : p \in {-10, 0, 5, 10, 1235, 5000, 5010}}
  \cup {[Order EXCEPT !.trigger = p, !.type = StopLossLimit] : p \in {-10, 5, 5000, 5010}}
  \cup {[Order EXCEPT !.size = s] : s \in {-1, 1, 900, 901}}
  \cup {[Order EXCEPT !.size = s, !.symbol = "B"] : s \in {5, 10, 15, 9000, 9010}}
  \cup {[Order EXCEPT !.client = c] : c \in {-1, 0, 8, 9}}
Modify == [symbol |-> "A", index |-> 4, price |-> 1230, size |-> 7, trigger |-> 0, version |-> 0]
Modified == {Modify, [Modify EXCEPT !.symbol = "X"], [Modify EXCEPT !.symbol = "H"]}
  \cup {[Modify EXCEPT !.index = i] : i \in {0, 1, 12, 13}}
  \cup {[Modify EXCEPT !.price = p] : p \in {0, 1235, 5010}}
  \cup {[Modify EXCEPT !.size = s] : s \in {-1, 0, 900, 901}}
  \cup {[Modify EXCEPT !.trigger = p] : p \in {-10, 5, 1210}}
  \cup {[Modify EXCEPT !.version = v] : v \in {-1, 9, 2000, 2001}}
Cancel(symbol, index) == [symbol |-> symbol, index |-> index]
Cancels == {Cancel(s, i) : s \in {"A", "B", "H", "X"}, i \in {0, 3, 12, 13}}
CancelAlls == [symbol : {"", "A", "B", "X"}, tif : 0..3, time : {0, 1, Now + 4, Now + 5, Now + 15, Now + 16}]
Leverages == [symbol : {"A", "B", "X"}, leverage : {0, 1, 3, 49, 50, 51, 10000, 10001}, mode : 0..2]
Margins == [symbol : {"A", "X"}, usdc : {-5, 0, 1, 5, 30, 330, 8000, 8010}, add : BOOLEAN]

Options == {OverWS, [Plain EXCEPT !.key = 5], [Plain EXCEPT !.key = 4], [Plain EXCEPT !.skip = TRUE],
            [Plain EXCEPT !.nonce = 9], [OverWS EXCEPT !.nonce = 9, !.skip = TRUE, !.key = 3]}
  \cup {[Plain EXCEPT !.expiredAt = e] : e \in {-1, 1, 2000, 2001}}
Calls == {Request("CreateOrder", <<Order>>), Request("ModifyOrder", <<Modify>>),
            Request("CancelOrder", <<Cancel("B", 3)>>),
            Request("CreateBatchOrders", <<Order, [Order EXCEPT !.client = 2, !.ask = FALSE]>>),
            Request("CancelAllOrders", <<[symbol |-> "A", tif |-> CancelNow, time |-> 0]>>)}

\* Batches, of one to three, with an item that fails at either end.
Batches == UNION {
  {Request("CreateBatchOrders", b) : b \in {<<>>, <<Order>>, <<Order, Order, Order>>,
     <<Order, [Order EXCEPT !.symbol = "B", !.price = 1235, !.size = 10]>>,
     <<[Order EXCEPT !.price = 5], Order>>, <<Order, [Order EXCEPT !.client = 9]>>,
     <<Order, [Order EXCEPT !.type = StopLoss]>>}},
  {Request("ModifyBatchOrders", b) : b \in {<<>>, <<Modify, [Modify EXCEPT !.version = 9]>>,
     <<Modify, [Modify EXCEPT !.index = 0]>>}},
  {Request("CancelBatchOrders", b) : b \in {<<>>, <<Cancel("A", 3), Cancel("B", 2)>>,
     <<Cancel("A", 3), Cancel("A", 3), Cancel("A", 3)>>, <<Cancel("A", 13), Cancel("B", 2)>>}}}

\* Open orders, in seconds; market 9 is not the section's.
Open == {[market |-> m, index |-> m + 3, createdAt |-> c, timestamp |-> t] :
           m \in {0, 1, 9}, c \in {0, 4, 6}, t \in {5, 7}}
Forgotten == {[do |-> "CancelForgottenOrders", items |-> <<>>, options |-> Plain,
               open |-> SetToSeq(s), deadline |-> 5] :
                s \in {s \in kSubset(1, Open) \cup kSubset(2, Open) \cup {{}} :
                         \A a, b \in s : a.market = b.market => a = b}}

Closes == {[do |-> "ClosePosition", items |-> <<[symbol |-> s, price |-> p]>>, options |-> o,
            position |-> [size |-> q, sign |-> g]] :
             s \in {"A", "X"}, p \in {0, 1230}, q \in {0, 7}, g \in {-1, 0, 1}, o \in {Plain, OverWS}}

\* Groups: a parent, a first and a last child, with what relates them varied.
Raw(type) == [type |-> type, head |-> NoHead, attributes |-> NoAttributes]
Child(t, a, b, r, e, c) ==
  [market |-> 1, client |-> c, base |-> b, price |-> 9, ask |-> a, type |-> t,
   tif |-> IF t = TakeProfit THEN IOC ELSE GTT, reduceOnly |-> r, trigger |-> 8, expiry |-> e]
Children == {Child(t, a, b, r, e, c) : t \in {StopLossLimit, TakeProfitLimit, TakeProfit}, a, r \in {0, 1},
                                       b \in {0, 2}, e \in {Soon, Soon + 1}, c \in {0, 2}}
Parents == {[market |-> 1, client |-> 2, base |-> 2, price |-> 9, ask |-> a, type |-> t,
             tif |-> IF e = 0 THEN IOC ELSE GTT, reduceOnly |-> 0, trigger |-> 0, expiry |-> e] :
              t \in {Limit, Market}, a \in {0, 1}, e \in {0, Soon}}
First == {Child(StopLossLimit, 1, b, 1, Soon, 1) : b \in {0, 2}}
Grouped(grouping, orders) ==
  Request("Send", <<Raw("CreateGroupedOrders") @@ [grouping |-> grouping, orders |-> orders]>>)
Groups == {Grouped(g, <<p, c>>) : g \in {OTO, OTOCO}, p \in Parents, c \in Children}
  \cup {Grouped(g, <<f, c>>) : g \in 0..OCO, f \in First, c \in Children}
  \cup {Grouped(OTOCO, <<p, f, c>>) : p \in Parents, f \in First, c \in Children}
  \cup {Grouped(OTO, <<CHOOSE p \in Parents : TRUE>>), Grouped(OCO, <<>>)}
  \cup {Grouped(OTO, <<p, [c EXCEPT !.market = m, !.price = r, !.ask = 1 - p.ask]>>) :
          p \in Parents, c \in {Child(StopLossLimit, 1, 0, 1, Soon, 1)}, m \in {0, 1}, r \in {0, 9}}
Attributes == [integrator : {0, 9, 10}, takerFee : {0, 3, 4}, makerFee : {0}, skipNonce : BOOLEAN,
               hasMarket : BOOLEAN, market : {0, 255}, behavior : {0, 3, 4}, equality : {0, 1}, version : {0, 4}]
Attributed == {Request("Send", <<[type |-> "CancelOrder", head |-> NoHead, attributes |-> a, market |-> 1, index |-> 3]>>) :
                 a \in Attributes}

ManyRequests ==
  {Request("CreateOrder", <<o>>) : o \in Shapes \cup Odd}
  \cup {Request("ModifyOrder", <<m>>) : m \in Modified}
  \cup {Request("CancelOrder", <<c>>) : c \in Cancels}
  \cup {Request("CancelAllOrders", <<c>>) : c \in CancelAlls}
  \cup {Request("UpdateLeverage", <<l>>) : l \in Leverages}
  \cup {Request("UpdateMargin", <<m>>) : m \in Margins}
  \cup {[m EXCEPT !.options = o] : m \in Calls, o \in Options}
  \cup Batches \cup {[b EXCEPT !.options.ws = TRUE] : b \in Batches}
  \cup Forgotten \cup Closes \cup Groups \cup Attributed

\* Prices as text, with more and fewer digits than the grid and the range have;
\* and references, with a slippage.
Texts == {[neg |-> n, int |-> i, frac |-> f] :
            n \in BOOLEAN, i \in {<<>>, <<2>>, <<9, 9>>, <<1, 0, 0>>},
            f \in {<<>>, <<3>>, <<3, 5>>, <<0, 4>>, <<4, 9>>, <<5, 0>>, <<3, 5, 0>>, <<3, 5, 1>>}}
Limits == {Request("CreateOrder", <<[Order EXCEPT !.symbol = s, !.ask = a, !.size = 10]>>) :
             s \in {"A", "B"}, a \in BOOLEAN}
FiguresOf == {[from |-> "text", text |-> t, mode |-> m, request |-> r] :
                t \in Texts, m \in {"none", "down", "up", "nearest"},
                r \in {r \in Limits : r.items[1].ask}}
  \cup {[from |-> "reference", reference |-> p, bps |-> b, parts |-> 100, request |-> r] :
           p \in {0, 10, 30, 99, 120, 500}, b \in {0, 1, 5, 10, 100}, r \in Limits}

TwoRefusals == {21104, 21600, 21701, 23000}
=============================================================================
