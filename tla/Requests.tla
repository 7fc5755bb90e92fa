------------------------------- MODULE Requests -------------------------------
(* One call of a trading method from the request to the receipt: the figures  *)
(* the caller writes, the section's checks (Trading), the engine's header and *)
(* validation, the signed payload, the exchange's decision, its answer, and   *)
(* what the caller is told (Replies).  Nonces come from a lane, which is a    *)
(* matter of its own (NonceLane): here a lane hands out one of Nonces.        *)
(*                                                                            *)
(* The exchange is external: it takes the transactions of a request or does   *)
(* not, and answers in one of the documented ways, through proxies that may   *)
(* lose, cut or replace the answer.                                           *)
EXTENDS Trading, Replies

CONSTANTS Requested,  \* the requests of the behaviours
          Drafts,     \* requests whose price is still text or a reference
          Nonces, Refusals \* what a lane hands out; the codes of refusals

\* The requests of a program that the compiler takes: a batch method has many
\* items, a single one has one.  The exchange's open orders are told apart by
\* market and index, and it refuses with a code.  A draft is of a known market.
IsRequest(r) ==
  /\ r.options \in SendOptions
  /\ r.items \in
       CASE r.do \in {"CreateOrder", "CreateBatchOrders"} -> Seq(OrderRequests)
         [] r.do \in {"ModifyOrder", "ModifyBatchOrders"} -> Seq(ModifyRequests)
         [] r.do \in {"CancelOrder", "CancelBatchOrders"} -> Seq(CancelRequests)
         [] r.do = "CancelAllOrders" -> Seq(CancelAllRequests)
         [] r.do = "UpdateLeverage" -> Seq(LeverageRequests)
         [] r.do = "UpdateMargin" -> Seq(MarginRequests)
         [] r.do = "ClosePosition" -> Seq(CloseRequests)
         [] r.do = "CancelForgottenOrders" -> {<<>>}
         [] r.do = "Send" -> Seq(L2Txs)
  /\ Len(r.items) = 1 \/ Batched(r)
  /\ r.do = "ClosePosition" => r.position \in [size : Int, sign : Int]
  /\ r.do = "CancelForgottenOrders" =>
       /\ r.open \in Seq(OpenOrders) /\ r.deadline \in Int
       /\ \A o, p \in ToSet(r.open) : o.market = p.market /\ o.index = p.index => o = p
Methods == {"CreateOrder", "CreateBatchOrders", "ModifyOrder", "ModifyBatchOrders", "CancelOrder",
            "CancelBatchOrders", "CancelForgottenOrders", "CancelAllOrders", "UpdateLeverage",
            "UpdateMargin", "ClosePosition", "Send"}
Placements == [do : {"CreateOrder"}, items : Seq(OrderRequests), options : SendOptions]

ASSUME RequestsAssumption ==
  /\ \A r \in Requested : r.do \in Methods /\ IsRequest(r)
  /\ \A d \in Drafts :
       /\ d.request \in Placements /\ Len(d.request.items) = 1
       /\ Known(d.request.items[1].symbol) /\ d.from \in {"text", "reference"}
       /\ d.from = "text" => /\ d.text \in [neg : BOOLEAN, int : Seq(Digits), frac : Seq(Digits)]
                             /\ d.mode \in {"none", "down", "up", "nearest"}
       /\ d.from = "reference" => /\ {d.reference, d.bps} \subseteq -(MaxInt + 1)..MaxInt
                                  /\ d.parts \in Nat \ {0}
  /\ Nonces \subseteq Nat /\ Refusals \subseteq Nat \ {0, CodeOK}

VARIABLES stage,     \* where the call stands
          req, draft, \* the request; the draft it was made from
          laneSkips, nonce, \* the lane's mode; the first nonce
          txs,       \* the transactions, built and then filled
          wire,      \* what was sent for them
          taken,     \* did the exchange take them?
          answer,    \* what came back
          told       \* the error, outcome and hash the caller and the lane see
vars == <<stage, req, draft, laneSkips, nonce, txs, wire, taken, answer, told>>

None == [do |-> "none"]
Untold == [error |-> NoError, outcome |-> "none", hash |-> "none"]
LocalError(kind) == [error |-> Failure(kind, 0, 0), outcome |-> "none", hash |-> "none"]

Init == /\ stage = "ask" /\ req = None /\ draft = None /\ laneSkips \in BOOLEAN /\ nonce = 0
        /\ txs = <<>> /\ wire = <<>> /\ taken = FALSE /\ answer = None /\ told = Untold
-----------------------------------------------------------------------------
(* The caller *)

Ask == /\ stage = "ask" /\ stage' = "asked" /\ req' \in Requested
       /\ UNCHANGED <<draft, laneSkips, nonce, txs, wire, taken, answer, told>>

\* The price of a draft: parsed and normalised, or the slippage price.
Price(d) ==
  LET decimals == Resolved(d.request.items[1].symbol).priceDecimals IN
  CASE d.from = "text" /\ ~ParseFixed(d.text).ok -> Fails
    [] d.from = "text" /\ ParseFixed(d.text).ok ->
         Ok(IF d.mode = "none" THEN ParseFixed(d.text).value
            ELSE Normalize(ParseFixed(d.text).value, decimals, d.mode))
    [] d.from = "reference" ->
         Ok(SlippagePrice(decimals, d.reference, d.request.items[1].ask, d.bps, d.parts))

Draft == /\ stage = "ask" /\ draft' \in Drafts
         /\ IF Price(draft').ok
            THEN /\ req' = [draft'.request EXCEPT !.items[1].price = Price(draft').value]
                 /\ stage' = "asked" /\ UNCHANGED told
            ELSE stage' = "done" /\ told' = LocalError("InvalidRequest") /\ UNCHANGED req
         /\ UNCHANGED <<laneSkips, nonce, txs, wire, taken, answer>>
-----------------------------------------------------------------------------
(* The section and the engine *)

Refused == Build(req).ok => \/ ~KeyKnown(req.options.key)
                            \/ ~BatchFits(req, Build(req).value)
\* CancelForgottenOrders sends nothing when nothing is stale, ClosePosition when
\* the position is flat.
NothingToDo == \/ req.do = "CancelForgottenOrders" /\ Stale(req) = <<>>
               \/ req.do = "ClosePosition" /\ Flat(req.position)

Refuse == /\ stage = "asked" /\ stage' = "done"
          /\ IF NothingToDo THEN UNCHANGED told
             ELSE Refused /\ told' = LocalError("InvalidRequest")
          /\ UNCHANGED <<req, draft, laneSkips, nonce, txs, wire, taken, answer>>

\* fill and sign of every transaction; the first that is not valid ends it.
Prepare ==
  /\ stage = "asked" /\ ~NothingToDo /\ ~Refused
  /\ nonce' \in IF req.options.nonce # 0 THEN {req.options.nonce} ELSE Nonces
  /\ txs' = Filled(Build(req).value, nonce', req.options, laneSkips)
  /\ IF \A i \in 1..Len(txs') : Validate(txs'[i])
     THEN /\ wire' = [i \in 1..Len(txs') |-> Signed(txs'[i])] /\ stage' = "sent"
          /\ UNCHANGED told
     ELSE /\ stage' = "done" /\ told' = LocalError("InvalidRequest") /\ UNCHANGED wire
  /\ UNCHANGED <<req, draft, laneSkips, taken, answer>>
-----------------------------------------------------------------------------
(* The exchange and the way back (external) *)

Body(code, hash) == [json |-> TRUE, code |-> code, hash |-> hash]
NoBody == [json |-> TRUE, code |-> 0, hash |-> "none"]
HashForm(batch) == IF batch THEN "list" ELSE "string"

\* Over REST an answer is its body, the status it came with and its fate.
REST(fate, status, body) == [fate |-> fate, status |-> status, json |-> body.json,
                             code |-> body.code, hash |-> body.hash]
Garbled == [NoBody EXCEPT !.json = FALSE]
\* The connection breaks, the body is cut, or a gateway fails.
Silent == {REST("lost", 0, NoBody), REST("cut", 200, NoBody), REST("answered", 502, Garbled),
           REST("answered", 504, Garbled), REST("answered", 200, Garbled)}
Acceptances(batch) == {REST("answered", 200, Body(CodeOK, h)) : h \in {"none", HashForm(batch)}}
\* The API server refuses with a code, or something before it does without.
Rejections == {REST("answered", s, Body(c, "none")) : s \in {200, 400, 429, 500}, c \in Refusals}
              \cup {REST("answered", s, Garbled) : s \in {400, 401, 403, 404, 405, 429}}

Frame(error, top, data) == [fate |-> "answered", error |-> error, top |-> top, data |-> data]
Broken == [Frame(0, NoBody, NoBody) EXCEPT !.fate = "lost"]
WSAcceptances(batch) == {Frame(0, Body(CodeOK, HashForm(batch)), NoBody)} \cup
  {Frame(0, top, Body(CodeOK, HashForm(batch))) : top \in {NoBody, Body(CodeOK, "none")}}
WSRejections == {Frame(c, NoBody, NoBody) : c \in Refusals} \cup
  {Frame(0, Body(c, "none"), NoBody) : c \in Refusals} \cup
  {Frame(0, top, Body(c, "none")) : top \in {NoBody, Body(CodeOK, "none")}, c \in Refusals}

Answers(ws, batch, accepts) ==
  IF ws THEN {Broken} \cup (IF accepts THEN WSAcceptances(batch) ELSE WSRejections)
  ELSE Silent \cup (IF accepts THEN Acceptances(batch) ELSE Rejections)

Decide == /\ stage = "sent" /\ stage' = "answered" /\ taken' \in BOOLEAN
          /\ answer' \in Answers(req.options.ws, Batched(req), taken')
          /\ UNCHANGED <<req, draft, laneSkips, nonce, txs, wire, told>>
-----------------------------------------------------------------------------
(* What the caller is told *)

Read(a) == IF req.options.ws THEN postWS(a) ELSE PostForm(a)
ReceiptOf(a) == IF req.options.ws THEN Payload(a) ELSE a
Tell == /\ stage = "answered" /\ stage' = "done"
        /\ told' = [error |-> Read(answer), outcome |-> outcomeOf(Read(answer)),
                    hash |-> IF Read(answer) # NoError THEN "none"
                             ELSE HashOf(ReceiptOf(answer), Batched(req))]
        /\ UNCHANGED <<req, draft, laneSkips, nonce, txs, wire, taken, answer>>

Next == Ask \/ Draft \/ Refuse \/ Prepare \/ Decide \/ Tell
Spec == Init /\ [][Next]_vars
-----------------------------------------------------------------------------
(* What is sent, read by an exchange that knows the market's decimals.        *)

Worth(wireValue, decimals) == wireValue * TickSize(decimals)
Places(item, b) ==
  LET m == Resolved(item.symbol) IN
  /\ b.MarketIndex = m.id /\ b.ClientOrderIndex = item.client
  /\ b.IsAsk = 1 <=> item.ask
  /\ b.ReduceOnly = 1 <=> item.reduceOnly
  /\ b.Type = item.type /\ b.TimeInForce = item.tif
  /\ Worth(b.Price, m.priceDecimals) = item.price
  /\ Worth(b.BaseAmount, m.sizeDecimals) = item.size /\ (item.size = 0 => b.ReduceOnly = 1)
  /\ Worth(b.TriggerPrice, m.priceDecimals) = item.trigger
  /\ (b.TriggerPrice # 0) <=> (b.Type \in Stops \cup Profits)
  /\ IF b.TimeInForce = IOC /\ b.Type \in {Limit, Market} THEN b.OrderExpiry = 0
     ELSE /\ Within(b.OrderExpiry, MinOrderExpiryPeriod, MaxOrderExpiryPeriod)
          /\ item.expiry # 0 => b.OrderExpiry = item.expiry
Modifies(item, b, attributes) ==
  LET m == Resolved(item.symbol) IN
  /\ b.MarketIndex = m.id /\ b.Index = item.index
  /\ Worth(b.Price, m.priceDecimals) = item.price
  /\ Worth(b.BaseAmount, m.sizeDecimals) = item.size
  /\ Worth(b.TriggerPrice, m.priceDecimals) = item.trigger
  /\ attributes = IF item.version = 0 THEN {} ELSE {<<8, item.version>>}
CancelsAll(item, b, attributes) ==
  /\ b.TimeInForce = item.tif /\ b.Time = item.time
  /\ b.Time # 0 <=> b.TimeInForce = CancelScheduled
  /\ attributes = IF item.symbol = "" THEN {} ELSE {<<5, Resolved(item.symbol).id>>}
SetsLeverage(item, b) ==
  LET m == Resolved(item.symbol) IN
  /\ b.MarketIndex = m.id /\ b.MarginMode = item.mode
  /\ b.InitialMarginFraction * item.leverage <= MarginFractionTick
  /\ (b.InitialMarginFraction + 1) * item.leverage > MarginFractionTick
  /\ m.minFraction = 0 \/ item.leverage <= MaxLeverage(m)
Does(item, info) ==
  LET attributes == {s \in ToSet(info.L2TxAttributes) : s[1] # 4} IN
  CASE req.do \in {"CreateOrder", "CreateBatchOrders"} -> attributes = {} /\ Places(item, info.body)
    [] req.do = "ClosePosition" ->
         /\ attributes = {} /\ Places(item, info.body) /\ info.body.ReduceOnly = 1
         /\ info.body.IsAsk = 1 <=> req.position.sign > 0
    [] req.do \in {"ModifyOrder", "ModifyBatchOrders"} -> Modifies(item, info.body, attributes)
    [] req.do = "CancelAllOrders" -> CancelsAll(item, info.body, attributes)
    [] req.do = "UpdateLeverage" -> SetsLeverage(item, info.body)
    [] req.do = "UpdateMargin" -> /\ Worth(info.body.USDCAmount, USDCDecimals) = item.usdc
                                  /\ info.body.Direction = 1 <=> item.add
    [] OTHER -> TRUE

(* trading.go:9-19 "Validation before network ... the SDK does NOT round      *)
(* silently": each transaction that is sent does what its item of the request *)
(* asks, to the last digit and in the asked scope, with consecutive nonces of *)
(* the asked key, and nothing is left out.                                    *)
SentAsAsked == wire # <<>> =>
  /\ Len(wire) = Len(Items(req))
  /\ \A i \in 1..Len(wire) :
       LET info == wire[i].info IN
       /\ Does(Items(req)[i], info)
       /\ info.Nonce = nonce + i - 1 /\ info.AccountIndex = AccountIndex
       /\ info.ApiKeyIndex = KeyOf(req.options.key)
       /\ <<4, 1>> \in ToSet(info.L2TxAttributes) <=>
            \/ req.options.skip \/ (req.options.nonce = 0 /\ laneSkips)
            \/ (req.do = "Send" /\ Items(req)[i].attributes.skipNonce)

\* The order of the fields in the hash, as the reference signer has it (the
\* headers of the files of internal/tx).
HashFields ==
  [CreateOrder |-> <<"MarketIndex", "ClientOrderIndex", "BaseAmount", "Price", "IsAsk", "Type",
                     "TimeInForce", "ReduceOnly", "TriggerPrice", "OrderExpiry">>,
   CancelOrder |-> <<"MarketIndex", "Index">>,
   ModifyOrder |-> <<"MarketIndex", "Index", "BaseAmount", "Price", "TriggerPrice">>,
   CancelAllOrders |-> <<"TimeInForce", "Time">>,
   UpdateLeverage |-> <<"MarketIndex", "InitialMarginFraction", "MarginMode">>]
InOrder(elements, names, fields) == elements = [i \in 1..Len(names) |-> fields[names[i]]]
Unfolded(digest, n) == IF n = 2 THEN digest ELSE <<digest[1][1], digest[1][2], digest[2]>>
Covers(type, elements, b) ==
  CASE type = "CreateGroupedOrders" ->
         /\ elements[1] = b.GroupingType
         /\ \A i \in 1..Len(b.Orders) :
              InOrder(Unfolded(elements[2], Len(b.Orders))[i], HashFields["CreateOrder"], b.Orders[i])
    [] type = "UpdateMargin" ->
         /\ elements[1] = b.MarketIndex /\ elements[4] = b.Direction
         /\ elements[2] + Word * elements[3] = b.USDCAmount /\ elements[2] \in 0..(Word - 1)
    [] OTHER -> InOrder(elements, HashFields[type], b)

(* The signature covers everything that is sent, field by field and attribute *)
(* by attribute, for the right chain: a tx_info read with the reference       *)
(* signer's field order has the hash that was signed, and no other meaning.   *)
SignatureCoversInfo == \A i \in 1..Len(wire) :
  LET info == wire[i].info  sig == info.Sig IN
  /\ sig.prefix = <<ChainID, TxType[wire[i].type], info.Nonce, info.ExpiredAt,
                    info.AccountIndex, info.ApiKeyIndex>>
  /\ Covers(wire[i].type, sig.elements, info.body)
  /\ Len(info.L2TxAttributes) <= Len(sig.attributes)
  /\ \A k \in 1..Len(sig.attributes) :
       sig.attributes[k] = IF k <= Len(info.L2TxAttributes) THEN info.L2TxAttributes[k] ELSE <<0, 0>>
  /\ \A k \in 1..Len(info.L2TxAttributes) : info.L2TxAttributes[k][1] # 0

(* create-grouped-orders.go:8-13: whatever passes Validate, the orders of a   *)
(* group that wait for a trigger are reduce-only, on the other side than the  *)
(* order they protect, cancelled together (a stop and a profit of one         *)
(* expiry), and can be told apart.                                            *)
GroupOnlyReduces == \A i \in 1..Len(wire) : wire[i].type = "CreateGroupedOrders" =>
  LET os == wire[i].info.body.Orders
      parents == {k \in 1..Len(os) : os[k].TriggerPrice = 0}
      children == (1..Len(os)) \ parents IN
  /\ parents \subseteq {1} /\ children # {}
  /\ \A k \in children : os[k].ReduceOnly = 1 /\ os[k].OrderExpiry # 0
  /\ \A k \in children, p \in parents : os[k].IsAsk # os[p].IsAsk /\ os[k].BaseAmount = 0
  /\ \A j \in children, k \in children : j # k =>
       /\ os[j].IsAsk = os[k].IsAsk /\ os[j].BaseAmount = os[k].BaseAmount
       /\ os[j].OrderExpiry = os[k].OrderExpiry /\ (os[j].Type \in Stops <=> os[k].Type \in Profits)
  /\ \A j, k \in 1..Len(os) : j # k => os[j].ClientOrderIndex # os[k].ClientOrderIndex
                                       \/ os[j].ClientOrderIndex = 0

(* A price written as text is sent as written, or next to it on the side the  *)
(* caller chose, and the exchange's text of it reads back as the same price;  *)
(* a slippage price whose move is not negative and fits an int64 is never on  *)
(* the wrong side of its reference.                                           *)
FiguresKept == draft # None /\ wire # <<>> =>
  LET m == Resolved(req.items[1].symbol)
      sent == Worth(wire[1].info.body.Price, m.priceDecimals) IN
  /\ UnmarshalFixed(AppendWire(FromWire(wire[1].info.body.Price, m.priceDecimals))) = Ok(sent)
  /\ draft.from = "text" =>
       LET places == Len(draft.text.frac)
           written == ValueOf(draft.text.int \o draft.text.frac) * FixedScale
           shown == sent * pow10[places] IN
       /\ ~draft.text.neg
       /\ CASE draft.mode = "none" -> shown = written
            [] draft.mode = "down" -> shown <= written
            [] draft.mode = "up" -> shown >= written
            [] draft.mode = "nearest" ->
                 2 * Magnitude(shown - written) <= TickSize(m.priceDecimals) * pow10[places]
       /\ Magnitude(shown - written) < TickSize(m.priceDecimals) * pow10[places]
  /\ draft.from = "reference" /\ draft.bps >= 0 /\ draft.reference * draft.bps <= MaxInt =>
       IF req.items[1].ask THEN sent <= draft.reference ELSE sent >= draft.reference

(* perpetuals/trading.go:98-103 "cancels the active orders older than ttl":   *)
(* the batch cancels an open order exactly if it was created before the       *)
(* deadline, however late it was modified, and its market is the section's.   *)
CancelsTheForgotten == req.do = "CancelForgottenOrders" /\ wire # <<>> =>
  \A o \in ToSet(req.open) :
    (\E i \in 1..Len(wire) : wire[i].info.body = [MarketIndex |-> o.market, Index |-> o.index])
      <=> KnownID(o.market) /\ (IF o.createdAt = 0 THEN o.timestamp ELSE o.createdAt) <= req.deadline

(* outcomeOf and the kinds of lterr (errors.go:38-56): success means that the *)
(* exchange took the transactions, every kind but Network and Unknown and     *)
(* every definite outcome that it did not; a refused nonce resynchronises the *)
(* lane; a receipt of the exchange's own hash is not invented.                *)
VerdictSound == told.outcome # "none" =>
  /\ told.outcome = "Accepted" => taken
  /\ told.outcome \in {"Rejected", "NonceError"} => ~taken
  /\ told.error.kind \notin {"none", "Network", "Unknown"} => ~taken
  /\ told.outcome = "Unknown" => told.error.kind \in {"Network", "Unknown", "Auth"}
  /\ IsNonceError(told.error) <=> told.outcome = "NonceError"
  /\ IsMissingOrder(told.error) => told.outcome = "Rejected"
  /\ told.hash = "theirs" => taken
=============================================================================
