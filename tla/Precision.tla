------------------------------ MODULE Precision ------------------------------
(* Fixed-point numbers (types/fixed.go) and the price and size grid of a      *)
(* market (types/precision.go).  A Fixed is an integer: the number of units   *)
(* of 10^-FixedDecimals.  Base, the digits and the widths are parameters, so  *)
(* that small instances meet every limit; in the code they are 10, 8, 2^63-1, *)
(* 2^32-1 and 2^48-1.                                                         *)
(*                                                                            *)
(* A decimal text is a record: its sign, the digits before the dot and those  *)
(* behind it.                                                                 *)
EXTENDS Integers, SequencesExt

CONSTANTS Base, FixedDecimals,
          MaxInt,       \* of an int64
          MaxWirePrice, MaxWireSize

ASSUME WidthsAssumption ==
  /\ Base \in Nat \ {0, 1} /\ FixedDecimals \in Nat
  /\ MaxWirePrice \in Nat /\ MaxWireSize \in Nat /\ MaxInt \in Nat
  /\ MaxWirePrice <= MaxInt /\ MaxWireSize <= MaxInt

Digits == 0..(Base - 1)
Magnitude(v) == IF v < 0 THEN -v ELSE v

\* What an int64 holds when v was computed.
Wrap(v) == ((v + MaxInt + 1) % (2 * (MaxInt + 1))) - (MaxInt + 1)

pow10[n \in Nat] == IF n = 0 THEN 1 ELSE Base * pow10[n - 1]
FixedScale == pow10[FixedDecimals]
fixedMaxIntPart == MaxInt \div FixedScale

\* An int64 holds at least the number one.
ASSUME ScaleAssumption == FixedScale <= MaxInt

\* Success and failure of a conversion.
Ok(v) == [ok |-> TRUE, value |-> v]
Fails == [ok |-> FALSE, value |-> 0]
-----------------------------------------------------------------------------
(* Parsing and printing *)

ValueOf(digits) == FoldLeft(LAMBDA v, d : v * Base + d, 0, digits)
Prefix(s, n) == SubSeq(s, 1, IF Len(s) < n THEN Len(s) ELSE n)
Beyond(s, n) == SubSeq(s, n + 1, Len(s))

\* strict: a digit behind the last place is an error, else it is cut off.
parseFixedUnscaled(t, strict) ==
  LET intPart == ValueOf(t.int)
      kept == Prefix(t.frac, FixedDecimals) IN
  IF \/ Len(t.int) + Len(t.frac) = 0
     \/ intPart > fixedMaxIntPart
     \/ (strict /\ \E d \in ToSet(Beyond(t.frac, FixedDecimals)) : d # 0)
  THEN Fails ELSE Ok((IF t.neg THEN -1 ELSE 1) * (intPart * FixedScale + ValueOf(kept)))
parseFixed(t, strict) ==
  LET intPart == ValueOf(t.int)
      kept == Prefix(t.frac, FixedDecimals)
      fracPart == ValueOf(kept) * pow10[FixedDecimals - Len(kept)] IN
  IF \/ Len(t.int) + Len(t.frac) = 0
     \/ intPart > fixedMaxIntPart
     \/ (strict /\ \E d \in ToSet(Beyond(t.frac, FixedDecimals)) : d # 0)
     \/ (intPart = fixedMaxIntPart /\ fracPart > MaxInt % FixedScale)
  THEN Fails
  ELSE Ok((IF t.neg THEN -1 ELSE 1) * (intPart * FixedScale + fracPart))
ParseFixed(t) == parseFixed(t, TRUE)
\* UnmarshalJSON of a value the exchange sends; null and "" are read as 0.
UnmarshalFixed(t) == IF Len(t.int) + Len(t.frac) = 0 THEN Ok(0) ELSE parseFixed(t, FALSE)

digitsOf[n \in Nat] == IF n < Base THEN <<n>> ELSE Append(digitsOf[n \div Base], n % Base)
\* The digits behind the dot, without trailing zeros.
FracDigits(frac) ==
  LET all == [i \in 1..FixedDecimals |-> (frac \div pow10[FixedDecimals - i]) % Base]
  IN Prefix(all, Cardinality({i \in 1..FixedDecimals : \E j \in i..FixedDecimals : all[j] # 0}))
AppendWire(v) == [neg |-> v < 0, int |-> digitsOf[Magnitude(v) \div FixedScale],
                  frac |-> FracDigits(Magnitude(v) % FixedScale)]
-----------------------------------------------------------------------------
(* The grid *)

clampDecimals(d) == IF d < 0 THEN 0 ELSE IF d > FixedDecimals THEN FixedDecimals ELSE d
TickSize(decimals) == pow10[FixedDecimals - clampDecimals(decimals)]

roundToStep(v, step, mode) ==
  LET rem == v % step
      up == mode = "up" \/ (mode = "nearest" /\ rem * 2 >= step) IN
  IF rem = 0 THEN v ELSE IF up THEN Wrap(v - rem + step) ELSE v - rem
Normalize(v, decimals, mode) == IF v <= 0 THEN v ELSE roundToStep(v, TickSize(decimals), mode)

\* The wire integer of a price or size that is on the grid and in its range.
ToWire(v, decimals, most) ==
  LET wire == v \div TickSize(decimals) IN
  IF v <= 0 \/ v % TickSize(decimals) # 0 \/ wire < 1 \/ wire > most
  THEN Fails ELSE Ok(wire)
WirePrice(v, decimals) == ToWire(v, decimals, MaxWirePrice)
WireSize(v, decimals) == ToWire(v, decimals, MaxWireSize)
FromWire(wire, decimals) == Wrap(wire * TickSize(decimals))

\* The worst acceptable price of a taker order: the reference moved against
\* the order by bps of parts parts (perpetuals/market.go).
SlippagePrice(decimals, reference, ask, bps, parts) ==
  LET moved == Wrap(reference * bps)
      delta == IF moved < 0 THEN -(Magnitude(moved) \div parts) ELSE moved \div parts IN
  IF reference <= 0 THEN reference
  ELSE IF ask THEN Normalize(Wrap(reference - delta), decimals, "down")
  ELSE Normalize(Wrap(reference + delta), decimals, "up")
=============================================================================
