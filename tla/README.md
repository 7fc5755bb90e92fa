# A verification project for go-lighter

go-lighter is a Go SDK for one exchange: it signs transactions, orders them by
nonce, sends them over REST or a WebSocket, reads accounts and markets,
subscribes to streams and keeps order books.  This directory holds TLA+ models
of it, the TLC configurations that check them on small instances, and TLAPS
proofs of what matters most for every instance.  Paths below are relative to
the repository; `lane.go:204` is a line of `internal/nonce/lane.go`, and so on.

`PROJECT.json` maps each definition of a model to the lines it stands for,
lists the hazards of the code with the properties that watch them, and names
for every property a mutation of the model that breaks it.

## 1. Inventory

| Component | State | Operations | Correct when |
|---|---|---|---|
| Nonce lane, sequential (`internal/nonce/lane.go`) | `next` (atomic), `sendMu` | Acquire, sync, Release, Lock/Unlock, Invalidate, Seed | its counter is the account's nonce, up to what others consumed; never ahead of it |
| Nonce lane, skip mode (same file) | the same atomic word, "last issued" | acquireSkip, Invalidate | no nonce is handed out twice, they grow in hand-out order, they stay near the clock |
| Engine (`internal/engine/engine.go`) | key lanes, cached auth token | Send, SendBatch, Query, AuthToken | what a caller is told about an order is true, and stays true; a token in use is alive |
| Rate limiter (`internal/ratelimit`) | rings of 60 one-second buckets, cooldown | Admit*, Account*, OnRateLimited | no charge is lost, the overrun is bounded, a cooldown is kept |
| Connection, posts (`internal/ws/conn.go`) | socket, pending posts, supervisor | Start, Close, Post, dispatchPost, failAllPending | each post gets its own answer or an error, nobody is forgotten, Close is final |
| Connection, subscriptions (same file) | groups of subscriptions, the socket | Subscribe, Unsubscribe, replay, dispatch | whoever watches is fed, across reconnects, and never with mixed data |
| Streams (`internal/domain/streams.go`) | per watcher: frame, value, book, `resubscribing` | the eleven Watch functions, register, resubscribe | what is handed over is what the push of that stream carried; gaps heal once a snapshot decodes |
| Local book (`internal/orderbook/book.go`) | levels, nonce, synced | ApplySnapshot, ApplyUpdate, Reset, trim | a synced book is the exchange's book |
| Transaction tracker (`tx-tracker.go`) | ring of outcomes, waiters | Observe, Await, Lookup | the newest are kept, no waiter is forgotten, no stream is held up |
| Market registry (`internal/markets`) | snapshot pointer, load mutex | Get, Peek, Refresh, auto refresh | one load for many first callers, never an older snapshot over a newer one |
| Reads (`internal/domain/account.go`, `markets.go`, `profile.go`) | none of their own | sixteen methods | nothing of the section is hidden, nothing of another is shown |
| Trading requests (`internal/domain/trading.go`, `types/precision.go`, `fixed.go`) | none | checks, the grid, defaults, batches | what is sent is what was asked, to the last digit |
| Transactions (`internal/tx`) | none | seven types: Validate, hash, tx_info | what is signed is what is sent; groups only reduce |
| Error classification (`internal/lterr`, `internal/rest`) | none | code and HTTP status to kind, verdict, receipt | a definite verdict is true |
| Client (`client.go`) | two lazy connections, refresh loop, keys | New, Close | everything stops at Close |
| Signing, codec, logging, configuration | | one call each | vectors and unit tests |

How they interact.  A trading call of a section goes to `domain`, which looks a
market up in the *registry*, scales the order and calls the *engine*.  The
engine asks the *limiter*, locks the key's *lane*, reserves nonces, fills,
validates and signs the *transaction*, and transmits by REST or by a *post* on
the trading connection; the answer is *classified*, reported to the lane
(Release) and to the limiter (Account), and returned.  A read looks the market
up, is admitted, takes a *token* if it is private, asks, and filters the rows by
the registry as it is by then.  Independently a supervisor goroutine per
*connection* dials, replays the subscriptions, reads, and dispatches: replies to
posts, pushes to the stream handlers, which run on that goroutine and call the
user.  The account_tx stream feeds the *tracker*, on which other goroutines wait
for receipts.

What is hard here: the outcome of a send that timed out is unknown and its
request may still arrive (lane and engine); frames are written after the lock
that ordered the registry was released (subscriptions); replies, timeouts,
cleanup and Close race for one pending entry (posts); a gap is repaired by a
goroutine of its own while the stream goes on (book stream); the limiter is
lock-free; the lane may be invalidated at any moment; the registry is replaced
between two rows of one answer or push; a caller that waited for a lock acts on
what it read before; and the pure parts have many fields, in three encodings
(request, hash, JSON), that must say the same.

## 2. The modules

| Module | Models | Uses |
|---|---|---|
| `SubmitOnce` | the contract of Send and SendBatch towards a caller: abstract specification | |
| `NonceLane` | a sequential lane under Send and SendBatch, with the exchange | implements `SubmitOnce` |
| `SkipLane` | acquireSkip under an arbitrary clock | |
| `WsPost` | Post, the supervisor, dispatchPost, Close | |
| `WsSubs` | Subscribe, Unsubscribe, replay, dispatch, register | |
| `BookStream` | WatchOrderBook with its resubscribe goroutines | extends `WsSubs` |
| `RateLimiter` | windows, admission, accounting, cooldown | |
| `Precision` | Fixed, decimal text, the grid, slippage prices | |
| `Transactions` | the seven transactions: rules, hashed elements, tx_info | extends `Precision` |
| `Trading` | the trading methods, fill and sign | extends `Transactions` |
| `Replies` | answers to errors, outcomes and receipts | |
| `Requests` | one trading call from the request to the verdict | extends `Trading`, `Replies` |
| `Registry` | snapshots, Get, Refresh, loads | |
| `AuthToken` | the cached token | |
| `Queries` | the reads, the client's loop, connections and Close | extends `Registry`, `AuthToken` |
| `Pushes` | the Watch functions, routing, decoding, filtering | extends `Registry` |
| `OrderBook` | the levels of a local book | what `BookStream` abstracts to a version |
| `TxTracker` | outcomes and waiters | |
| `Streams` | a Watch call with its book or its tracker | extends the last three |
| `NonceLaneProofs`, `RateLimiterProofs`, `WsPostProofs` | theorems about the module named | extend it |
| `SendProofs` | theorems about `SkipLane` and `Requests` | extends both |
| `WsSubsProofs` | theorems about `WsSubs` and `BookStream` | extends `BookStream` |
| `ClientProofs` | theorems about `Registry`, `AuthToken` and `Queries` | extends `Queries` |
| `StreamsProofs` | theorems about `TxTracker`, `OrderBook`, `Pushes` and `Streams` | extends `Streams` |
| `FoldLemmas` | induction and folds, for the proofs | |
| `MC*` | instances for TLC | extend the modules they instantiate |

Operators next to a definition whose names add to its own (`SwapStores`,
`GiveUpWithoutDrop`, `SignBlind`) are mutations: bugs of the kind this code
could have, used to see that each property would notice.

### NonceLane

A member of `Sends` is one call of Send or SendBatch.  `Enter` is
`lane.Lock()`; `Load`, `AlreadySynced`, `FetchAnswered`, `StoreFetched` and
`Swap` are Acquire with its double-checked sync, one action per atomic
operation, so that Invalidate can fall between any two of them; `PrepareFails`
is an error of fill or sign after the reservation; `Transmit`, `Answered` and
`GaveUp` are the round trip.  `Return` is what every exit does: `OutcomeOf`,
`Lane.Release`, the deferred Unlock.  Calls of `Explicit` bring their own nonce
and touch no lane.  The exchange is external: it takes a request only at the
account's nonce, takes a batch as a whole or (with `AtomicBatch = FALSE`) a
prefix of it, refuses, or never answers; a request may reach it after its
caller gave up.  `foreign` is a history variable: the nonces consumed by
anybody but the holder of the lane since the lane last read nextNonce.

Refusals before the lock (key selection, limiter, batch size) are one action,
`Refuse`: nothing was touched.  Form bytes, buffers and frames are left out.

### SkipLane

`Load` is the load of the word together with the clock, `Swap` the
compare-and-swap.  The clock returns any member of `Clocks` at each read: it
may repeat or step back.  `old` and `high`, `handed` are history variables.

### WsPost and WsSubs

One connection seen from two sides, because their states multiply and share
only the socket.  `WsPost` keeps the life of the socket in detail (published
under `c.mu`, closed by either end, cleaned up in three separate steps) with
the pending table, whose mutex is a variable because failAllPending sends on
channels while holding it.  `WsSubs` reduces the socket to alive or not and
keeps the registry, the frames and the pushes: each Subscribe and Unsubscribe is an
update under `c.mu` followed, later, by the write of its frame.  The
exchange's server is external: it feeds a channel while the last frame it read
for it was a subscribe, beginning with a snapshot.  A push carries its route key.

### BookStream and OrderBook

`BookStream` adds to `WsSubs` the handler of WatchOrderBook and the goroutines
it starts on a gap.  There a book is reduced to the version of the exchange's
book it equals (or `Wrong`).  `OrderBook` shows what that reduction assumes: the
level arithmetic keeps a book of unlimited depth equal to the exchange's, and a
trimmed one a selection of its levels.

`BookHandle` is the handler, one disjunct per way through it: `Skip` (222), `DropBroken`
(227), `TakeSnapshot` (231), `TakeUpdate` and `Gap` (237).  A push may fail to decode
for any member of a group in `Breakable`, and is dropped before `resubscribing` is
cleared.  When it was the snapshot that should end a gap, every delta after it is
skipped and no gap is noticed again: a watcher with no other in its group stays silent
in this one case, until a reconnect.  `missed` is a history variable: who is in that
state.  `GapHeals` excepts exactly those.

### RateLimiter

A thread is a goroutine in the engine: `Begin`, `LoadCooldown`, `Judge` and
`Check` are Admit*; `Answer` or `Abandon` is the request; `NextNonce` is the read that
a send makes when its lane has to synchronise, after the send's own admission and before
its accounting (`engine.go:512`, 251): the goroutine goes through all of Admit and
Account for it, as often as the lane is invalidated, and comes back to the send, or gives it
up with the read (`waiting`).  `AddLoad`/`AddSwap` are one turn of Window.Add, once per
window in the code's order; `Limited`, `Extend` and `ExtendSwap` are OnRateLimited; the event's read of the cooldown runs the same
clean-up as Admit's.  A sum over a ring is one step.  The clock is monotonic, and
no goroutine sleeps for a whole window between reading it and its swap (the
guard of `Tick`): both are assumptions, see section 6.  Weights and limits are
parameters; the saturation of a bucket at 2^32-1 is out of reach of real
weights and left out.

### Requests, with Trading, Transactions, Precision and Replies

Pure code, so the modules are operators: `Precision` the arithmetic of a Fixed
(an integer count of 10^-FixedDecimals, wrapped to `MaxInt`), `Transactions` what
Validate accepts and what is hashed and sent, `Trading` the way from a request to
transactions, `Replies` the way from an answer to an error.  `Requests` strings
them together: `Ask` or `Draft` (a price still written as text, or to be derived
from a reference and a slippage), `Refuse` and `Prepare`, the exchange's
`Decide`, `Tell`.  A request is a record whose `do` names the method.  A hash is
its preimage, that is, hashing is taken to be injective.  What is sent is
compared with what was asked by an exchange's reading of it (`Worth`, `Places`,
`Modifies` ...), written from the meaning of the fields and not from the
conversions, and what is signed with the field orders in the headers of
`internal/tx`.  The clock stands still while one request is built.

### Registry, AuthToken and Queries

`Registry` has one action per step of a load: the look without the lock (`Get`),
`Lock` with the second look, `Load` (the exchange answers with its listing of
that moment), `LoadFails`, `Store`.  A snapshot is known by the listing it was
built from.  `AuthToken` reads the clock in `AskToken` and judges by it in `Sign`,
after any wait; a token is its expiry.  `Queries` composes them: a read takes
the registry (`GetRegistry`, `Ensured`, `Resolved`), is admitted or refused
(`Admit`, `Overrun`), gets its token, is answered, and filters the answer row by
row (`Judge`) with the registry as it is at that row.  `Operation` tabulates the sixteen
reads.  The client around them: the refresh loop, the lazy connections, `Close`
and, last, `ZeroKeys`.

### Pushes, OrderBook and TxTracker in Streams

`Pushes` follows one Watch call: markets, symbol, channel, registration, then each
push of the connection through `RouteKey` and `Lookup` into the frame that all
pushes share (`decode`), through the filter, to the handler.  A row is its market, the
push that carried it, and one field, `fee`, that the JSON may leave out.  What it then
holds depends on what the Watch function decodes into: fresh maps and values (orders,
positions, the ticker, the object form of the account's trades) give zero; slices
truncated to `[:0]` (levels, trades, candles, transactions, the array form of the account's
trades) are decoded into element by element, and json-iterator leaves a field as the
element had it, which `fill` chooses from what elements may hold (`held`); the one struct
of market_stats and of user_stats keeps all that a push leaves out.  Channels are
sequences so that a prefix is a prefix.  `TxTracker`: `Record` is the critical
section of Observe and `Wake` each send after it; `Enter`, `Receive`,
`ContextDone` and `Leave` are Await.  A transaction has one outcome, so the map is
the set of known hashes; the channels of one hash are a set, woken in any order.  In `Streams` a behaviour is about one Watch call; with an
order book its handler maintains the book, with account_tx it feeds the tracker
one transaction of a push after the other, next to another client's stream.

## 3. The runs

| Run | Bounds | Distinct states | Shows |
|---|---|---|---|
| `nonce_lane` | a batch of 2, two sends, one explicit; exchange atomic | 169 000 | the lane is exact up to foreign traffic; nonce errors have a cause; callers are told the truth; SubmitOnce is implemented |
| `nonce_lane_hostile` | a batch of 2, one send, one explicit; prefixes taken; Seed(0) | 34 000 | the lane never runs ahead; every call returns |
| `skip_lane` | 4 Acquires, clock in 3..6, Invalidate at will | 288 000 | no reuse, order, nearness to the clock, termination |
| `ws_post` | 2 posts, 2 sockets, Close | 514 000 | own reply, one verdict, nobody forgotten, no leak, Close is final, every Post returns |
| `ws_subs` | 2 watchers of one private channel, one may leave; 3 sockets, 2 versions, Close | 48 000 | feeding, no mixing of sockets, exact membership |
| `ws_subs_reordered` | the same channel, 1 socket | violation | finding 1 |
| `book_stream` | 1 watcher, 2 repair goroutines, 2 sockets, 4 versions, broken pushes, Close | 61 000 | shown books are exact, gaps heal unless the repair does not decode |
| `book_stream_shared` | 2 watchers of one market | violation | finding 2 |
| `rate_limiter` | 2 goroutines, 4 requests with the nextNonce reads among them, 2 tiers, windows of 2 s, 4 s | 3 384 000 | no lost charge, bounded overrun, cooldowns kept |
| `requests` | 2 decimals, int64 up to 9949 units, every method, about 10 000 requests | 114 000 | sent as asked, signed as sent, groups only reduce, figures kept, the forgotten cancelled, verdicts sound |
| `queries` | 2 readers, a loop, 2 listings, 4 instants, Close | 124 000 | nothing hidden, markets never go back, tokens alive, everything ends |
| `streams` | 16 Watch calls, 2 pushes, 2 listings; 3 prices, depth unlimited or 2, 3 versions; 2 Awaits, 2 observers, 3 hashes, ring of 2, 5 outcomes | 1 246 000 | pushes are the stream's own, books exact, the newest outcomes kept, nobody forgotten |

Why the bounds are enough for the questions asked.  The lane's hazards need one
send that is in doubt, one that follows it, and a foreign one; a batch of two has
a proper prefix; the fourth call covers the follow-up after a resynchronisation.
`skip_lane` has two contenders and two earlier reservations to collide with.
Two posts are what a mix-up of replies needs, two sockets what a stale socket
needs.  Two members are the least for "first" and "last" to differ; the third
socket gives a reconnect during a replay.  Four versions give a gap, a lost
snapshot and an update after it.  Three prices with depth 2 give one level that was
trimmed away.  Windows of two seconds over four seconds make every bucket pass
to a later second; budgets are so small that two requests exceed them.  Four requests
let both goroutines be in a send with a read inside it: the bound of `OverrunBounded` is
reached.  Two pushes let a row be decoded into an element of an earlier one; the rows of a push
have their fee or leave it out together.

`Requests` scales the widths down (base 10, two decimals, prices up to 500 and
sizes up to 900 on the wire, periods of a few instants), so that every limit has
requests on both sides of it: every combination of the fields that the rules of
an order relate, and one field at a time around its limits; batches of none to
three against limits of 2 (REST) and 1 (WebSocket); groups with each relation
of parent and children met and missed; texts with fewer, as many and more digits
than the grid.  Two listings give a market that stays, one that goes and one that
comes; ids 12, 1 and 2 give a channel whose name another one extends.  The four
instants of `Queries`, with lifetime 2 and margin 1, let a token age, be
replaced and outlive a caller that waited.  A ring of two with three hashes
evicts, re-inserts, and wraps around.

`Settings` of `Queries` divides the behaviours: every read alone next to the loop
and a relisting; two first calls and the loop; two private calls while time goes
on; a client that is closed.  `Streams` divides them by the kind of its Watch call.
Counters are capped by `MaxSockets`, `MaxVersion`, `MaxClose`, `MaxRequests`,
`MaxSecond`, `MaxReports`, `MaxPushes`, `LastTime` and `MaxPrice`/`MaxSize` only.
`Breakable` says whose pushes may be broken: nobody's in `book_stream_shared`, where the gap
must stay open for another reason.

Deadlock is checked except in the runs of `WsSubs`, `BookStream`, `RateLimiter`,
`Requests`, `Queries` and `Streams`, which really may stop: all watchers gone, the
call made, all requests done.  `NonceLane`, `SkipLane` and `WsPost` have an
explicit `Finished` step, so a state where somebody is stuck is reported.

## 4. Fairness

- Goroutines run: weak fairness of every step that needs nobody else.
- A wait for an answer ends: `GaveUp`, `FetchFailed`, WsPost's `GiveUp`, `NoAnswer`
  and `LoadFails` are part of the fair steps, because REST calls and posts carry
  timeouts.  No answer of the exchange is assumed.
- `sendMu` and `loadMu` are Go mutexes: after 1 ms of starvation they are handed to
  the longest waiter, so a waiter is not overtaken for ever.  Strong fairness of
  `Enter` and of `Lock`.
- The refresh loop selects between its ticker and the client's context; a select with
  two ready cases takes either, so it is not drawn to the ticker for ever.  Strong
  fairness of `LoopEnds`.
- `EveryCallReturns` is conditional on the application not calling Invalidate
  for ever: each one can send an Acquire round its loop again.
- The network owes nothing, but a bounded behaviour has a last socket, and it
  stays up (`SocketDies` needs a socket to follow).  Liveness of subscriptions
  and gaps is stated under it; `BookStream` also lets Close end the obligation,
  and a snapshot that does not decode (`missed`).
- Within the bounds `pendingMu` is taken finitely often, so weak fairness suffices.

## 5. What is proved

All theorems hold for every value of the constants under the named assumptions
of each module.  Every safety invariant and every action property of a passing run
is one of them.

**NonceLaneProofs.** `TypeCorrect` needs no further assumption.  `TruthTold` and
`LaneRefinesContract` assume that the exchange takes a batch as a whole or not at
all; `LaneTracks` and `NonceErrorsHaveACause` also that the application never
seeds the lane (`Seeds = {}`).  `NeverAhead` lets the exchange take a part of a
batch and the application seed 0, which is below every nonce the account expects;
with a seed above that it is false, by the application's doing.
None of the properties is inductive.
The invariant adds four parts.  `MutexInv`: the mutex is held from Enter to
Return by the call it names.  `FlightInv`: a request is on the wire, answered,
or neither, and the ledger agrees with the answer.  `ToldInv`: what was told
follows from the answer that was read.  `TrackInv`: at every step between two
sends the distance of lane and account is known, in terms of the reservation its
holder carries and of `foreign`.  `BehindInv`, for `NeverAhead`, is what is left of
`TrackInv` when a batch may be taken in part: whatever the lane holds, has read or
is about to store is at most what the exchange expects.  `LaneRefinesContract` maps every step to `Take`,
`Tell` or a stutter of `SubmitOnce`, by the identity on `ledger`, `expected` and `told`.

**SendProofs.** The skip lane, with no assumption beyond the types.  `SwapInv` says that a
pending reservation begins above the value it was computed from, and no further than the
clock or right above that value; `OrderInv` that `last` is at least the end of every
reservation since the last Invalidate and that these do not overlap.
`SkipStaysNearClock` follows from a separate invariant.

The request, for any widths, markets, periods, listings of open orders and batch sizes.
Three invariants carry the six theorems.  `ToldInv` (for `VerdictIsSound`): what was told
is what `Read` makes of an answer, and the answer is one the exchange gives to what it
decided.  `SentInv` (for the four about what is on the wire): what is on the wire is the signed
transactions, these are valid, and they are what `Filled` makes of what `Build` made of
the request, with the asked nonce or one of the lane's.  What remains is to say, step by
step, what the functions in between do to a field: `ToWireIsExact` (a figure that passes
the check is the wire value times its step, with nothing rounded), `OrderWireShape`,
`FillKeeps` (the body is untouched, the head is the one asked for, the attributes gain
the nonce's), `TransactionTyped` (what the section builds is of the types of the
transactions, so that an absent attribute is absent), `AttributesSent` (`collect` names
the present attributes in order, at most as many as the hash has room for).
`PlacedAsAsked`, `ModifiedAsAsked` and so on put them together, one method at a time.

`FiguresAreKept` is about the decimal figures of a program that parses, prints, rounds
and slips its prices with the SDK, for texts of any length and any number of decimals.
`DraftInv` says that the request is the one its draft makes with a price it got from
the SDK; the rest is arithmetic.  `KeptDigits`, `TraceTail` and `ValueOfConcat` give the
value of a text read digit by digit, so that by `ParseExact` a text that is taken has
exactly the value of its digits and fits an int64.  `NumberReadsBack`, `FractionReadsBack`
and `PrintParse` turn it around: what is printed is read back as the same number.
`NormalizeNear` says that rounding goes to the asked side and by less than a step; under
`ScaleAssumption` a sum that wraps comes out negative and is never sent.  `SlippageSide`
says on which side of its reference a slippage price lies.
`GroupReduces` is the argument about groups: it uses nothing but what Validate accepts,
so it holds for any three orders.  Three lemmas are about the way the model is written:
`ChosenTrace` (a filtered sequence holds, in order, the elements that are kept),
`PowersOfTen` and `ValueSoFar` (the recursive functions behind powers and digits are
total and do what their definitions ask).

The assumptions: `MarketsAssumption` (the ids of markets are not 255, which means "no
market" to the signer, and a symbol names one market), `PeriodsAssumption` (limits and
periods are integers in their order), `ScaleAssumption` (an int64 holds at least the
number one) and `RequestsAssumption`: requests are of the types of
`types/orders.go`, which the compiler enforces, the exchange tells open orders apart, and
refuses with a code.  Any value of these types is allowed, valid or not: what Validate
rejects is not on the wire, and the theorems are about the wire.

**RateLimiterProofs.** For any number of goroutines, windows of any length, any
weights, limits and tiers.  `RingInv` has three parts: a thread about to swap
carries a second of the current window; a bucket's stamp is in the past and
belongs to that bucket; every second of the window *and every second to come*
is held exactly.  The last extension is what makes it inductive.  The
arithmetic heart is the lemma `SharedSlot`: two seconds with one bucket are a
window apart, so a swap can only reset what has expired.  `CooldownIsKept` needs
one fact more: whoever is about to swap a cooldown swaps it for a longer one.

`OverrunIsBounded` is about the sum of a ring.  A debtor is a goroutine as a reader or
as a sender (`Debtors`), for it may owe a window its send and the nextNonce read inside
it; both count in one window only where the tier has sends and reads share it
(`AtOnce`, `Shares`).  The invariant `BudgetInv` counts ahead of the charges: what is
used, plus the largest request once for each debtor that owes a window a charge, fits
into the limit plus the largest request of all debtors but one; or does so when one of
the debtors, who fills the window up, is taken at its own debt.  `LocalInv` says that a
request owes a window once at most, and that only a read has a send waiting for it.
A charge moves its amount from the debts into the ring (`WithinPaid`), time only takes
from it (`WithinLess`), and `Check` admits a debtor only below the limit (`WithinTaken`).
`Turns` sorts the actions by what they do to what their goroutine owes.  The largest
request exists because endpoints and sizes of batches are finitely many, and
goroutines are counted, so `Threads` is finite: `LimiterAssumption` says so.  `Used` is a recursive function of the
seconds of the window, so its sums are compared by induction.

**WsPostProofs.** For any number of posts and sockets.  `TypeCorrect` needs `IdInv`:
an id belongs to one call, and as many ids were taken as calls entered.  Three
properties follow from `VerdictInv`, which says where a call's verdict is: an entry
of the table belongs to the call of its id, whose channels are empty
(`PendingInv`); a reply in the reader's hands has left the table
(`ReaderInv`); a frame carries the id of its call (`FrameInv`), and a channel
only frames of its own (`ChannelInv`).  `PostsForgetNobody` adds the life of a socket:
it is written on only between its publication and its cleanup (`LinkInv`), so a post
written on it is found by that cleanup (`HopeInv`).  `CloseIsFinal` assumes that
Close comes after Start, see section 6.

**WsSubsProofs.** `Typed` adds to the types that a frame is written on a socket
that was dialled.  The invariant `Calm` of `WsSubs`: a consumer is in the group of its
channel from its Subscribe to its Unsubscribe, at one place (`OnceInv`), and in no
other group (`GroupInv`); the reader calls only members, with a push of the current
socket (`CallInv`); what members hold is of that socket or nothing (`HoldInv`); and
an undisturbed channel with members is fed, or is still to be replayed, or the
consumer that came first is about to write its frame on the current socket
(`FedInv`).  `ListedOnce`, `ReconnectNeverMixes` and `SettledMeansFed` follow for any
number of consumers, channels and sockets.

Of `BookStream`, `ShownBooksAreExact` holds for any consumers, goroutines and channels,
shared ones included: a synced book has the content its nonce names (`BookInv`).
`GapsOfOneWatcherHeal`, for any pushes lost or broken, assumes that no two watchers share
a channel (`Alone`), since with two it is false (finding 2), and that a book's channel needs no token
(`Public`), since a token that fails ends the repair; order book channels are public.
Its invariant `Healing`: somebody who still wants to watch is in its group, or a goroutine
that took it out is about to put it back (`KeptInv`); and whoever waits for a snapshot
has one on its way, in the reader's hands, about to be asked for, or after the next
unsubscription, or was given it and could not decode it (`AwaitInv`).

**ClientProofs.** The registry, for any listings and any number of loaders:
`MarketsNeverGoBack` needs two facts: a load is under way exactly at the holder of
`loadMu` (`MutexInv`), and an answer in hand lies between the snapshot it will replace
and the listing in force (`AgeInv`).  `FirstCallersShare` adds that no Get loads once
there is a snapshot.  The token, for any lifetime above the margin: `GivenInv`, a
token given outlives, by more than the margin, the time its owner judged by.  That a
later signature never shortens the cache follows from the second look alone, although
the time it is made with may be older than the cached token's.  Every step of
`Queries` is a step of the registry, or of the token cache, or of neither
(`OneAtATime`); so the client implements both specifications, whatever its reads do,
and inherits what was proved of them.

`NothingIsHidden` has two halves.  Rows: the snapshot a read got is no newer than the
current one, which is no newer than the listing (`HaveInv`); an owned-only read has a
snapshot from the moment it passes `Ensured`; so every later look of the filter falls
on a snapshot between the two, and what the section had throughout passes while what
it never had does not (`OwnedInv`, with the rows that are not yet judged).  This is
where `ensureMarkets` matters: without it the filter would look at no snapshot at all.
Books: `LevelsAreFaithful`, by induction over the orders of a side, says that
`aggregateLevels` names each price once, with all that rests there and nothing empty.
It needs that the orders of one price are neighbours (`QueriesAssumption`), which
`markets.go:205-206` states of the exchange.

**StreamsProofs.** The tracker, for any number of Awaits, streams and hashes, and a
ring of any length.  `NobodyForgotten` follows from where a channel can be: registered
and empty (`RegisteredInv`), or empty in the hands of one observer, which holds the
outcome of its own hash (`TodoInv`), or filled, with that outcome (`ChannelInv`); and
whoever waits unregistered is in one of the last two places (`HopeInv`).  So a send
never finds a full channel, which is why Observe cannot block a stream.
`RingKeepsNewest` rests on `RingInv`: read from the head, the ring holds the
newest hashes in the order they were recorded, each once; so the slot that is
overwritten is the oldest, and it is the only one that leaves the map.

The book, for any prices, sizes and depths and any losses (`BookFollows`).  First the
algorithm: the binary search finds where the levels before a price end
(`PlaceSplits`), one level of a delta replaces, adds or removes the level of its price
and keeps the order (`ApplyLevelKeepsOrder`), and a sequence in the order of a side is
determined by its levels (`SortedIsUnique`).  Then the invariant `ExactInv`: the sides
are in order, of unlimited depth they hold exactly what the exchange had at the book's
nonce, and of limited depth only levels it had.  `Sorted` is defined by CHOOSE, so that
the sequence exists is proved as well (`SortedExists`).

The pushes (`PushesAreOwn`), for any set of channels on the connection: `RoutedHome`
says that the exact match and the prefix fallback of `lookup` lead a push to our stream
only when it is of our channel.  Market ids have at most two digits there, the bound of
`Ids`.  `Decoded` says of each way to decode what the values show of the JSON: every row of
it, and but for the one struct no other.  `PushInv` follows a push row by row, with the registry as for the reads.
`StreamsImplement` composes the three, and `StreamsCorrect` collects the four
invariants for the whole.

**FoldLemmas.** The library states induction for an operator, which the installed
provers cannot instantiate.  A set is a value: `SetInduction` is induction for a set
of naturals, proved from the well-foundedness of their order, and `FoldExists` that
the fold of a finite sequence is the function its definition asks for.  What the
proofs above say of sums, rings, sorted levels and aggregated orders rests on it.

**Only model-checked.** All liveness (`EveryCallReturns`, `EveryAcquireReturns`,
`EveryPostReturns`, `UndisturbedIsFedAtLast`, `GapHealsAtLast`, `EverythingEnds`): the
prover handles neither fairness nor ENABLED.

## 6. Findings and observations

Findings, each shown by a run:

1. `conn.go:340` — subscribe and unsubscribe frames can be written in the other
   order than the registry was updated: a channel is registered and not fed
   until the next reconnect (`ws_subs_reordered`).
2. `streams.go:215` — the repair of a gap resubscribes, which does nothing for a
   channel with a second watcher: the book stays silent (`book_stream_shared`).

Observations met while modelling, not kept as runs.

Connections and streams:

- A Close before Start finds no cancel function, and a later Start redials for
  ever (`conn.go:205`).  `WsPost` with `CloseBeforeStart = TRUE` violates
  `CloseIsPermanent`.
- A Subscribe whose token or write fails leaves its group registered
  (`conn.go:266`, 298): the next Subscribe of the channel writes nothing, and
  register starts no goroutine that would unsubscribe (`streams.go:90`).
- An Unsubscribe between publication and replay leaves a channel fed that
  nobody watches (`conn.go:518`).
- A context that ends between the check of the resubscribe goroutine and its
  Subscribe registers a consumer for good (`streams.go:212`).
- A book of limited depth forgets levels for good (`book.go:157`): once the kept
  ones are removed, BestBid and BestAsk (`types/market.go:144`, 152) name a worse
  level or none.  `BookIsExact` therefore asks a trimmed book only for levels
  that are real.
- A snapshot that does not decode while `resubscribing` is set is dropped before the flag
  is cleared (`streams.go:227-233`), and with the flag set no delta is looked at
  (222): the book stays silent until a reconnect, although nobody shares its channel.
- A watcher's frame is reused: a field absent from a push keeps the value of an
  earlier one (nonce, begin_nonce, and transaction_time, which `streams.go:478-490`
  hands on as zero "when the frame carries none").  Slices truncated with `[:0]`
  (`streams.go:168`, 225, 360, 398, 574, 662) do the same to the fields of their
  rows: json-iterator decodes into the old elements.  `docs/API-NOTES.md:33` says of
  taker_fee and maker_fee that they are "omitted if zero", so a trade without a fee may be
  handed over with that of an earlier one; in the object form of account_all_trades
  it is decoded fresh.
  `PushIsOwn` allows exactly this.  Levels carry price and size always; a transaction
  without event_info would keep an earlier error.
- The prefix fallback of lookup (`conn.go:652`) iterates a map.  With one account
  per client no two registered channels fit one push; with two they would.
- `Await` on a hash whose outcome was evicted waits for its context, and one whose
  context ends with the outcome in its channel may return either.

Engine, lane and limiter:

- An Invalidate between the answer of nextNonce and the store is lost
  (`lane.go:178`); in skip mode an Invalidate forgets the last issued value
  (`lane.go:155`), so nonces may repeat across it.
- Builder accounts: `limiter.go:12` says reads are "weighted only", the default
  case of New counts them against the 60 requests as well.
- A cooldown is computed from a clock of whole seconds: one of 100 ms may last
  only until the next full second, less than the "at least 100 ms" of
  `limiter.go:258`.  A send over the WebSocket accounts with status 0, so its
  rate-limit codes start no cooldown.  A batch of several types is charged to the
  type of its first transaction.
- A clock that steps back hides the buckets of the future from usedAt, and an
  Add then overwrites them (`window.go:102`): charges are lost.  `RateLimiter`
  assumes that it does not.

Requests and answers:

- An explicit nonce of 0 cannot be asked for: zero means "from the lane".
- CancelForgottenOrders over more than MaxBatchSize stale orders is refused as a
  whole; when all of them belong to unknown markets it fails as an empty batch.
- A market with the id 255 would make a cancel-all scoped to it account-wide.
- SlippagePrice wraps for a reference times basis points beyond 63 bits, and takes a
  negative slippage, which moves the price to the other side of its reference.
  `FiguresKept` excludes both.
- Two extra keys with the same index are not refused, although the error of that
  check speaks of duplicates.
- PriceProtection is only sent by the REST sendTx; MaxSkipNonce is enforced nowhere.
- Codes 21600 and 21700 are classified as invalid requests, where the comment beside
  them speaks of inactive orders.
- A WebSocket error without a numeric code decodes as an accepted send
  (`engine.go:841`), and a non-200 status with code 200 as a rejection.

Reads and the client:

- Markets listed after the last load are hidden from filtered reads until the
  next refresh.  `NothingHidden` speaks of the listing that was loaded.
- Candles does not cap countBack at the documented 500.
- A negative AuthTokenLifetime, or one below the 30 minutes' margin, is accepted:
  every private call then signs a token anew.  A cached token is still served
  after Close.
- Close zeroes the keys while a Sign may read them, and reads the connection fields
  that StreamConnected reads without a lock.

## 7. What is not modelled

The arithmetic of signing and hashing is cryptography; the repository checks it
against vectors of a reference implementation.  Hashing and signing are taken to
be injective and to succeed or fail.  The codec, logger and metrics keep no state
the rest reads.  Of the REST client the verdict on an answer is modelled
(`Replies`), not its pools, headers and query encoding.  Backoff times, ping
intervals and jitter are abstracted to "later".  Defaults of the configuration, the
construction of a client, and fields that are only passed on have no
behaviour to check.  The examples and scripts are users of the package.

## 8. Plan

1. A clock that steps back in `RateLimiter`, as a run that shows the lost charge.
2. Two accounts on one connection, when a client can have them: the prefix
   fallback.
