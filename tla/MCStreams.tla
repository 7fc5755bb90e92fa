------------------------------ MODULE MCStreams -------------------------------
(* Streams for TLC: a perp market that stays, one that is delisted, one that  *)
(* comes, whose id is how that of the first begins, and a spot market.        *)
EXTENDS Streams

Listing(symbol, id, type) == [symbol |-> symbol, id |-> id, type |-> type, digits |-> 4]
Stays == Listing("A", 12, "perp")
Goes == Listing("B", 2, "perp")
Comes == Listing("C", 1, "perp")
TwoListings == <<{Stays, Goes, Listing("S", 4, "spot")}, {Stays, Comes}>>

Call(kind, symbol, bad) == [kind |-> kind, symbol |-> symbol, bad |-> bad]
MarketKinds == {"order_book", "order_book_updates", "ticker", "market_stats", "trade", "candle"}
SomeWatches ==
  {Call(k, "A", FALSE) : k \in MarketKinds} \cup {Call("candle", "B", TRUE), Call("ticker", "", FALSE)}
  \cup {Call("orders", s, FALSE) : s \in {"", "A"}}
  \cup {Call(k, "", FALSE) : k \in {"account_all_positions", "account_all_trades", "account_tx", "user_stats"}}
Shareds == {{}, {marketChannel("account_orders", 1) \o <<"/", "account">>,
                 marketChannel("order_book", 1), accountChannel("account_all_trades")}}

Transactions == [hash : Hashes, pending : BOOLEAN]
Pairs == {<<t>> : t \in Transactions} \cup {<<t, u>> : t, u \in Transactions}
Interchangeable == Permutations(Calls) \cup Permutations(Hashes)
=============================================================================
