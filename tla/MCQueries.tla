------------------------------ MODULE MCQueries ------------------------------
(***************************************************************************)
(* Queries for TLC: a perp market that stays, one that is delisted, one    *)
(* that comes, a spot market and one with too many digits.                 *)
(***************************************************************************)
EXTENDS Queries

CONSTANTS c1, c2

Listing(symbol, id, type, digits) == [symbol |-> symbol, id |-> id, type |-> type, digits |-> digits]
Stays == Listing("A", 1, "perp", 4)
Goes == Listing("B", 2, "perp", 8)
Comes == Listing("C", 3, "perp", 2)
Others == {Listing("S", 4, "spot", 2), Listing("D", 5, "perp", 9)}
TwoListings == <<{Stays, Goes} \cup Others, {Stays, Comes} \cup Others>>

Ask(op, symbol, limit, bad) == [op |-> op, symbol |-> symbol, limit |-> limit, bad |-> bad]
Account == {Ask("Positions", "", 0, FALSE), Ask("Position", "B", 0, FALSE), Ask("APIKeys", "", 0, FALSE),
            Ask("AccountLimits", "", 0, FALSE), Ask("AccountTrades", "A", 0, FALSE)}
           \cup {Ask(op, "", 0, b) : op \in {"OrdersByClientIndex", "AccountsByL1Address", "CheckAPIKey"},
                                     b \in BOOLEAN}
           \cup {Ask(op, "", 0, FALSE) : op \in {"Account", "Balance"}}
Orders == {Ask("ActiveOrders", s, 0, FALSE) : s \in {"", "C"}}
          \cup {Ask("InactiveOrders", "", 20, b) : b \in BOOLEAN}
Market == {Ask("MarketDetails", s, 0, FALSE) : s \in {"B", ""}}
          \cup {Ask("OrderBookSnapshot", "A", 300, FALSE), Ask("RecentTrades", "D", 5, FALSE),
                Ask("FundingRates", "", 0, FALSE)}
          \cup {Ask("Candles", "C", 0, b) : b \in BOOLEAN}
          \cup {Ask("GetMarkets", "", 0, FALSE), Ask("GetMarketInfo", "B", 0, FALSE),
                Ask("SlippagePrice", "S", 0, FALSE)}
Setting(first, second, refreshes, lasts, relists, closes) ==
  [asks |-> (c1 :> first @@ c2 :> second), refreshes |-> refreshes, lasts |-> lasts,
   relists |-> relists, closes |-> closes]
AllOrders == {Ask("ActiveOrders", "", 0, FALSE)}
Limits == {Ask("AccountLimits", "", 0, FALSE)}
\* Every call alone next to the loop; two first calls, a loop and a relisting;
\* two private calls while time goes on; a client that is closed.
FourSettings == {Setting(Account \cup Orders \cup Market, {}, TRUE, 1, TRUE, FALSE),
                 Setting(AllOrders, {Ask("GetMarkets", "", 0, FALSE)}, TRUE, 1, TRUE, FALSE),
                 Setting(Limits, Limits, FALSE, 4, FALSE, FALSE),
                 Setting(Limits \cup {Ask("GetMarkets", "", 0, FALSE)}, {}, TRUE, 2, FALSE, TRUE)}

SomeBooks == {<<>>} \cup {<<[price |-> 5, left |-> a], [price |-> 5, left |-> b], [price |-> p, left |-> 2]>> :
                            a, b \in 0..1, p \in 5..6}
=============================================================================
