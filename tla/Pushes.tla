-------------------------------- MODULE Pushes --------------------------------
(* One Watch call of a section (internal/domain/streams.go) and the pushes it *)
(* is handed, while markets come and go and the registry is refreshed.        *)
(*                                                                            *)
(* A push is handled in one go on the connection's read goroutine, but the    *)
(* registry it filters by moves between two rows.  A row is known by its      *)
(* market and the push that carried it, and has one field more, a fee, which  *)
(* the JSON may leave out; the frame it is decoded into is the same for every *)
(* push.  Subscriptions and reconnects are in WsSubs.                         *)
EXTENDS Registry, SequencesExt

CONSTANTS Watches,  \* the Watch calls of a behaviour: [kind, symbol, bad]
          Watcher,  \* the reader that makes the call
          Shared,   \* sets of other channels subscribed on the connection
          MaxPushes \* bound: pushes handled

ASSUME PushesAssumption == Watcher \in Readers /\ MaxPushes \in Nat

VARIABLES watch,  \* the call and where it stands
          shared, \* the other channels of the connection
          pushes, \* how many pushes were handled
          frame,  \* what every push is decoded into: rows, time (0 when zero),
                  \* and the fees its elements may hold from rows of the past
          wire,   \* the push being handled, a set of at most one
          left, kept, \* its rows not yet judged, its rows kept
          handed  \* what the handler was given last, a set of at most one
pushVars == <<shared, pushes, frame, wire, left, kept, handed>>

PushInit == /\ watch \in [call : Watches, stage : {"start"}] /\ shared \in Shared
            /\ pushes = 0 /\ frame = [rows |-> {}, time |-> 0, held |-> {0}]
            /\ wire = {} /\ left = {} /\ kept = {} /\ handed = {}
-----------------------------------------------------------------------------
(* Channels, as sequences of their characters' groups *)

Digits == [d \in 0..9 |-> <<"0", "1", "2", "3", "4", "5", "6", "7", "8", "9">>[d + 1]]
FormatInt(id) == IF id < 10 THEN <<Digits[id]>> ELSE <<Digits[id \div 10], Digits[id % 10]>>
marketChannel(name, id) == <<name, "/">> \o FormatInt(id)
accountChannel(name) == <<name, "/", "account">>

\* What the Watch functions subscribe; ids of two digits suffice (bound).
Ids == 0..99
Channels ==
  {marketChannel(n, id) : n \in {"order_book", "ticker", "market_stats", "trade"}, id \in Ids}
  \cup {marketChannel("account_orders", id) \o <<"/", "account">> : id \in Ids}
  \cup {marketChannel("candle", id) \o <<"/", "resolution">> : id \in Ids}
  \cup {accountChannel(n) : n \in {"account_all_orders", "account_all_positions",
                                    "account_all_trades", "account_tx", "user_stats"}}
Kinds == {"order_book", "order_book_updates", "ticker", "market_stats", "trade", "candle", "orders",
          "account_all_positions", "account_all_trades", "account_tx", "user_stats"}

ASSUME ChannelsAssumption ==
  /\ Watches \subseteq [kind : Kinds, symbol : STRING, bad : BOOLEAN]
  /\ \A sh \in Shared : sh \subseteq Channels
  /\ \A l \in 1..Len(Listings) : \A m \in Listings[l] : m.id \in Ids

\* The exchange writes ':' after the name, and no account for the orders of
\* one market (external); RouteKey puts the '/' back.
OnTheWire(channel) ==
  LET c == ReplaceAt(channel, 2, ":") IN
  IF c[1] = "account_orders" THEN SubSeq(c, 1, Len(c) - 2) ELSE c
RouteKey(c) == [i \in 1..Len(c) |-> IF c[i] = ":" THEN "/" ELSE c[i]]

\* lookup: the key itself, else a channel that extends it, whichever the map
\* yields first.
Lookup(key, channels) ==
  IF key \in channels THEN {key} ELSE {c \in channels : IsStrictPrefix(Append(key, "/"), c)}
-----------------------------------------------------------------------------
(* The Watch functions *)

\* What a push is decoded into: fresh values, a slice truncated to [:0], or one
\* struct that keeps what it has.  The account's trades come in two shapes, an
\* array and an object.
Watch(ensures, resolves, into, filters) ==
  [ensures |-> ensures, resolves |-> resolves, into |-> into, filters |-> filters]
MarketWatch == Watch(FALSE, TRUE, {"truncated"}, FALSE)
Function(w) ==
  CASE w.kind \in {"order_book", "order_book_updates", "trade", "candle"} -> MarketWatch
    [] w.kind = "ticker" -> Watch(FALSE, TRUE, {"fresh"}, FALSE)
    [] w.kind = "market_stats" -> Watch(FALSE, TRUE, {"kept"}, FALSE)
    [] w.kind = "orders" -> Watch(TRUE, w.symbol # "", {"fresh"}, TRUE)
    [] w.kind = "account_all_positions" -> Watch(TRUE, FALSE, {"fresh"}, TRUE)
    [] w.kind = "account_all_trades" -> Watch(TRUE, FALSE, {"truncated", "fresh"}, TRUE)
    [] w.kind = "account_tx" -> Watch(FALSE, FALSE, {"truncated"}, FALSE)
    [] w.kind = "user_stats" -> Watch(FALSE, FALSE, {"kept"}, FALSE)
Is == Function(watch.call)

\* The channel of the stream; info is what the symbol resolved to.
Channel ==
  LET w == watch.call
      id == BySymbol(have[Watcher], w.symbol).id IN
  CASE w.kind = "orders" /\ w.symbol = "" -> accountChannel("account_all_orders")
    [] w.kind = "orders" /\ w.symbol # "" -> marketChannel("account_orders", id) \o <<"/", "account">>
    [] w.kind \in {"order_book", "order_book_updates"} -> marketChannel("order_book", id)
    [] w.kind = "candle" -> marketChannel("candle", id) \o <<"/", "resolution">>
    [] w.kind \in {"ticker", "market_stats", "trade"} -> marketChannel(w.kind, id)
    [] OTHER -> accountChannel(w.kind)

Stage(s) == watch' = [watch EXCEPT !.stage = s]
In(s) == watch.stage = s
Resolving(w) == CASE ~Function(w).resolves -> "register"
                  [] Function(w).resolves /\ w.symbol = "" -> "failed"
                  [] OTHER -> "resolve"

Begin == /\ In("start") /\ Stage(IF Is.ensures THEN "ensure" ELSE Resolving(watch.call))
         /\ UNCHANGED <<registryVars, pushVars>>
GetRegistry == /\ watch.stage \in {"ensure", "resolve"} /\ Get(Watcher)
               /\ Stage(IF In("ensure") THEN "ensuring" ELSE "resolving")
               /\ UNCHANGED pushVars
Ensured == /\ In("ensuring") /\ at[Watcher] = "out"
           /\ Stage(IF have[Watcher] = 0 THEN "failed" ELSE Resolving(watch.call))
           /\ UNCHANGED <<registryVars, pushVars>>
\* An unknown symbol, or an invalid resolution.
Resolved == /\ In("resolving") /\ at[Watcher] = "out"
            /\ Stage(IF have[Watcher] = 0 \/ ~Known(have[Watcher], watch.call.symbol) \/ watch.call.bad
                     THEN "failed" ELSE "register")
            /\ UNCHANGED <<registryVars, pushVars>>
\* Subscribe fails when the connection is closed.
Register == /\ In("register") /\ (Stage("on") \/ Stage("failed"))
            /\ UNCHANGED <<registryVars, pushVars>>
\* The context ends: the consumer leaves; a push in hand is still handled.
Leaves == In("on") /\ Stage("off") /\ UNCHANGED <<registryVars, pushVars>>
-----------------------------------------------------------------------------
(* The handler *)

\* The rows a frame of a kind may carry (external): of any market, or of its own
\* (for a struct, its fields).  All have their fee or all leave it out (bound).
Carried(n) ==
  LET ids == IF Is.filters THEN {m.id : m \in Listings[listed]} ELSE {1, 2}
      fees == IF "kept" \in Is.into THEN {n} ELSE {0, n} IN
  UNION {SUBSET [market : ids, n : {n}, fee : {fee}] : fee \in fees}

\* The decoder (external) leaves what the JSON does not carry as it finds it: a
\* row left out of a struct, a field left out of the row of a slice, whose
\* element may hold one of the past (fill says which).
Absent(old, new) == {r \in old : \A s \in new : s.market # r.market}
Filled(new, fill) == {[r EXCEPT !.fee = IF @ = 0 THEN fill[r] ELSE @] : r \in new}
Held(into, new) == frame.held \cup (IF into = "truncated" THEN {r.fee : r \in new} ELSE {})
decodeIntoOld(into, new, fill, time) ==
  [rows |-> new \cup Absent(frame.rows, new),
   time |-> IF time = 0 THEN frame.time ELSE time, held |-> Held(into, new)]
decode(into, new, fill, time) ==
  [rows |-> CASE into = "fresh" -> new
              [] into = "truncated" -> Filled(new, fill)
              [] into = "kept" -> new \cup Absent(frame.rows, new),
   time |-> IF time = 0 THEN frame.time ELSE time, held |-> Held(into, new)]

\* A push for the stream or for another channel; a broken one is dropped, with
\* what was read of it in the frame.
Arrive ==
  /\ In("on") /\ wire = {} /\ pushes < MaxPushes
  /\ \E channel \in shared \cup {Channel}, into \in Is.into,
        rows \in Carried(pushes + 1), time \in {0, pushes + 1} :
       /\ Channel \in Lookup(RouteKey(OnTheWire(channel)), shared \cup {Channel})
       /\ \E fill \in [rows -> frame.held] : frame' = decode(into, rows, fill, time)
       /\ \/ /\ wire' = {[channel |-> channel, into |-> into, rows |-> rows, time |-> time]}
             /\ left' = frame'.rows
          \/ UNCHANGED <<wire, left>>
  /\ pushes' = pushes + 1 /\ kept' = {} /\ handed' = {}
  /\ UNCHANGED <<registryVars, watch, shared>>

\* Owns asks the registry anew for every row; the rows of a map come in any order.
Judge ==
  /\ wire # {} /\ \E r \in left :
       /\ left' = left \ {r}
       /\ kept' = IF Is.filters => Owns(r.market) THEN kept \cup {r} ELSE kept
  /\ UNCHANGED <<registryVars, watch, shared, pushes, frame, wire, handed>>

Hand ==
  /\ wire # {} /\ left = {} /\ wire' = {}
  /\ \E p \in wire : handed' = {[push |-> p, rows |-> kept, time |-> frame.time]}
  /\ UNCHANGED <<registryVars, watch, shared, pushes, frame, left, kept>>

WatchStep == Begin \/ GetRegistry \/ Ensured \/ Resolved \/ Register \/ Leaves
HandleStep == Arrive \/ Judge \/ Hand
-----------------------------------------------------------------------------
PushTypeOK ==
  /\ watch.call \in Watches
  /\ watch.stage \in {"start", "ensure", "ensuring", "resolve", "resolving", "register", "on",
                      "off", "failed"}
  /\ shared \in Shared /\ pushes \in 0..MaxPushes
  /\ Cardinality(wire) <= 1 /\ Cardinality(handed) <= 1
  /\ frame.time \in 0..pushes /\ frame.held \subseteq 0..pushes

(* streams.go:26-27 "the connection subscribes the exchange once and delivers *)
(* every push": what a stream is handed is a push of its own channel, and     *)
(* what that push carried: every row whose market the section has had since   *)
(* the stream began, none it never had, and the time the push carried if it   *)
(* carried one.  No row is an earlier push's, except in the one struct of     *)
(* market_stats and of user_stats, where what a push leaves out stays.  A     *)
(* field a row leaves out is zero where the rows are fresh; in a truncated    *)
(* slice it may be that of a row of an earlier push.                          *)
Throughout(rows) == {r \in rows : \A l \in have[Watcher]..listed : r.market \in ByID(l)}
AtSomeTime(rows) == {r \in rows : \E l \in have[Watcher]..listed : r.market \in ByID(l)}
Tells(s, r, into) == /\ s.market = r.market /\ s.n = r.n
                     /\ s.fee = r.fee \/ (into = "truncated" /\ r.fee = 0)
Covers(rows, rs, into) == \A r \in rows : \E s \in rs : Tells(s, r, into)
Honest(rs, rows, into) == \A s \in rs : \E r \in rows : Tells(s, r, into)
PushIsOwn == \A h \in handed :
  LET due == IF Is.filters THEN Throughout(h.push.rows) ELSE h.push.rows
      allowed == IF Is.filters THEN AtSomeTime(h.push.rows) ELSE h.push.rows IN
  /\ h.push.channel = Channel
  /\ Covers(due, h.rows, h.push.into)
  /\ h.push.into # "kept" => Honest(h.rows, allowed, h.push.into)
  /\ h.push.time # 0 => h.time = h.push.time
=============================================================================
