------------------------------ MODULE OrderBook ------------------------------
(* The local order book (internal/orderbook/book.go) next to the book of the  *)
(* exchange it follows: a snapshot, then deltas whose begin_nonce continues   *)
(* the previous nonce; deltas may be lost on the way.                         *)
EXTENDS Integers, Sequences, FiniteSets, SequencesExt

CONSTANTS MaxPrice,   \* prices are 1..MaxPrice
          MaxSize,    \* sizes are 1..MaxSize, 0 removes a level
          Depths,     \* the values of maxDepth: 0 keeps every level
          MaxVersion  \* bound: nonces of the exchange's book

ASSUME BookAssumption == /\ MaxPrice \in Nat \ {0} /\ MaxSize \in Nat \ {0}
                         /\ Depths \subseteq Nat /\ MaxVersion \in Nat \ {0}

VARIABLES truth,    \* the exchange's book: side -> price -> size
          version,  \* its nonce
          asks, bids, nonce, \* b.view
          synced,   \* b.synced
          maxDepth  \* b.maxDepth
localBookVars == <<truth, version, asks, bids, nonce, synced, maxDepth>>
view == <<asks, bids>>

Prices == 1..MaxPrice
Levels == [price : Prices, size : 0..MaxSize]
Sides == {"asks", "bids"}

Before(side, p, q) == IF side = "bids" THEN p > q ELSE p < q
LevelsOf(sizes) == {[price |-> p, size |-> sizes[p]] : p \in Prices}
InOrder(s, side) == \A i, j \in 1..Len(s) : i < j => Before(side, s[i].price, s[j].price)
Sorted(levels, side) == CHOOSE s \in SetToSeqs(levels) : InOrder(s, side)

\* The first maxDepth levels.
Trim(s) == IF maxDepth > 0 /\ Len(s) > maxDepth THEN SubSeq(s, 1, maxDepth) ELSE s

\* One level of a delta: found by its place in the order of the side.
Place(s, side, p) == 1 + Cardinality({i \in 1..Len(s) : Before(side, s[i].price, p)})
ApplyLevel(s, side, level) ==
  LET idx == Place(s, side, level.price)
      found == idx <= Len(s) /\ s[idx].price = level.price IN
  CASE found /\ level.size = 0   -> RemoveAt(s, idx)
    [] found /\ level.size # 0   -> ReplaceAt(s, idx, level)
    [] ~found /\ level.size = 0  -> s
    [] ~found /\ level.size # 0  -> InsertAt(s, idx, level)
ApplyLevels(s, side, levels) == FoldLeft(LAMBDA acc, l : ApplyLevel(acc, side, l), s, levels)

BookInit == /\ truth \in [Sides -> [Prices -> 0..MaxSize]] /\ version = 1
            /\ asks = <<>> /\ bids = <<>> /\ nonce = 0 /\ synced = FALSE
            /\ maxDepth \in Depths

\* ApplySnapshot sorts, drops empty levels and trims.
ApplySnapshot ==
  /\ asks' = Trim(Sorted({l \in LevelsOf(truth["asks"]) : l.size > 0}, "asks"))
  /\ bids' = Trim(Sorted({l \in LevelsOf(truth["bids"]) : l.size > 0}, "bids"))
  /\ nonce' = version /\ synced' = TRUE
  /\ UNCHANGED <<truth, version, maxDepth>>

\* ApplyUpdate: a delta that does not continue the book leaves it untouched.
AcceptsAny(begin) == synced
Accepts(begin) == synced /\ (nonce = 0 \/ begin = 0 \/ begin = nonce)
ApplyUpdate(begin, next, newAsks, newBids) ==
  IF Accepts(begin)
  THEN /\ asks' = Trim(ApplyLevels(asks, "asks", newAsks))
       /\ bids' = Trim(ApplyLevels(bids, "bids", newBids))
       /\ nonce' = next /\ UNCHANGED synced
  ELSE synced' = FALSE /\ UNCHANGED <<view, nonce>>

Reset == /\ synced' = FALSE /\ asks' = <<>> /\ bids' = <<>> /\ nonce' = 0
         /\ UNCHANGED <<truth, version, maxDepth>>

\* The exchange changes one level; the delta arrives or is lost.
Change(side, level) ==
  /\ version < MaxVersion /\ version' = version + 1 /\ UNCHANGED maxDepth
  /\ truth' = [truth EXCEPT ![side][level.price] = level.size]
Delta(side, level, of) == IF side = of THEN <<level>> ELSE <<>>
Updated == \E side \in Sides, level \in Levels :
  /\ Change(side, level)
  /\ ApplyUpdate(version, version + 1, Delta(side, level, "asks"), Delta(side, level, "bids"))
Lost == \E side \in Sides, level \in Levels : Change(side, level) /\ UNCHANGED <<view, nonce, synced>>

BookNext == ApplySnapshot \/ Updated \/ Lost \/ Reset
BookSpec == BookInit /\ [][BookNext]_localBookVars
-----------------------------------------------------------------------------
Shown(side) == IF side = "asks" THEN asks ELSE bids
Real(side) == {l \in LevelsOf(truth[side]) : l.size > 0}
BookTypeOK == /\ truth \in [Sides -> [Prices -> 0..MaxSize]] /\ version \in 1..MaxVersion
              /\ asks \in Seq(Levels) /\ bids \in Seq(Levels) /\ synced \in BOOLEAN
              /\ nonce \in 0..version /\ (synced => nonce # 0)
              /\ maxDepth \in Depths
              /\ maxDepth > 0 => Len(asks) <= maxDepth /\ Len(bids) <= maxDepth

(* A synced book that shows the exchange's nonce is the exchange's book, best *)
(* level first: whatever was lost before was noticed.  With a limited depth   *)
(* it shows levels of the exchange's book only, each once and in order.       *)
BookIsExact == synced /\ nonce = version => \A side \in Sides :
  LET s == Shown(side) IN
  /\ maxDepth = 0 => s = Sorted(Real(side), side)
  /\ ToSet(s) \subseteq Real(side)
  /\ InOrder(s, side)
=============================================================================
