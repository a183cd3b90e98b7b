---------------------------------- MODULE Ranges ---------------------------------
(***************************************************************************)
(* src/Common/src/math (Range.js, SimpleConditional.js), RangeSeq.js,      *)
(* modulo() and round() of NumberUtil.js, and the ranges of dates in       *)
(* src/Common/src/date.                                                    *)
(***************************************************************************)
EXTENDS Integers, Sequences

CONSTANTS
  Bounds,      \* the bounds of ranges, besides infinity
  Infinity,    \* above all bounds and values; as a lower bound it is negated
  Dates,       \* of which ranges are made
  Open,        \* no date, at the open end of a range
  MillisPerDay

VARIABLES
  range, other,        \* two ranges of numbers
  value,
  dates, otherDates    \* two ranges of dates

rangeVars == <<range, other, value, dates, otherDates>>

--------------------------------------------------------------------------------
(* Numbers                                                                 *)

Check(conditional, left, right) ==
  CASE conditional = "==" -> left = right
    [] conditional = "!=" -> left # right
    [] conditional = "<" -> left < right
    [] conditional = "<=" -> left <= right
    [] conditional = ">" -> left > right
    [] conditional = ">=" -> left >= right

AboveLowerBound(r, v) == IF r.inclusive THEN v >= r.lower ELSE v > r.lower
BelowUpperBound(r, v) == IF r.inclusive THEN v <= r.upper ELSE v < r.upper
InBounds(r, v) == AboveLowerBound(r, v) /\ BelowUpperBound(r, v)
IsBoundless(r) == r.lower = -Infinity /\ r.upper = Infinity

ToValueInBounds(r, v) ==
  CASE ~AboveLowerBound(r, v) -> r.lower
    [] AboveLowerBound(r, v) /\ ~BelowUpperBound(r, v) -> r.upper
    [] OTHER -> v

DoesOverlap(r, o) == AboveLowerBound(r, o.upper) /\ BelowUpperBound(r, o.lower)

SeqOf(start, end) == [i \in 1 .. (IF end < start THEN 0 ELSE end - start + 1) |-> start + i - 1]
Exclusive(start, end) == SeqOf(start, end - 1)

\* JavaScript's % has the sign of the value.
Remainder(v, modulus) == IF v >= 0 THEN v % modulus ELSE -((-v) % modulus)
Modulo(v, modulus) ==
  IF Remainder(v, modulus) < 0 THEN Remainder(v, modulus) + modulus ELSE Remainder(v, modulus)

\* A number of halves, rounded to a whole one; halves are rounded away from zero.
Round(halves) ==
  LET abs == IF halves < 0 THEN -halves ELSE halves
      rounded == (abs + 1) \div 2
  IN IF halves < 0 /\ rounded # 0 THEN -rounded ELSE rounded

--------------------------------------------------------------------------------
(* Dates: [grain, offset, fiscal] is a relative one, [millis] a DateOnly.  *)

IsRelative(date) == "grain" \in DOMAIN date
\* A hash is a string: what has a name, dashes, and digits.
Dash == <<"-", 0>>
Digits(n) == IF n < 0 THEN <<Dash, <<"digits", -n>>>> ELSE <<<<"digits", n>>>>
DateHash(date) ==
  IF IsRelative(date)
  THEN <<<<date.grain, 0>>, Dash>> \o Digits(date.offset)
         \o <<Dash, <<IF date.fiscal THEN "true" ELSE "false", 0>>>>
  ELSE Digits(date.millis)

DateIsEqual(date, otherDate, isDateOnly) ==
  /\ IsRelative(date) = IsRelative(otherDate)
  /\ IF IsRelative(date) \/ ~isDateOnly THEN date = otherDate
     ELSE date.millis \div MillisPerDay = otherDate.millis \div MillisPerDay

EndIsEqual(end, otherEnd, isDateOnly) ==
  \/ end = Open /\ otherEnd = Open
  \/ end # Open /\ otherEnd # Open /\ DateIsEqual(end, otherEnd, isDateOnly)

DateRangeIsEqual(r, o, isDateOnly) ==
  EndIsEqual(r.from, o.from, isDateOnly) /\ EndIsEqual(r.to, o.to, isDateOnly)

HashOf(end) == IF end = Open THEN <<>> ELSE DateHash(end)
GetHash(r) == HashOf(r.from) \o <<Dash>> \o HashOf(r.to)

Ends(r) == {r.from, r.to} \ {Open}
GetGrain(r) ==
  IF r.from # Open /\ (r.to = Open \/ r.from.grain # "DAY") THEN r.from.grain ELSE r.to.grain
IsFiscal(r) == \E end \in Ends(r) : end.fiscal

--------------------------------------------------------------------------------
NumberRanges ==
  {r \in [lower : Bounds \cup {-Infinity}, upper : Bounds \cup {Infinity},
          inclusive : BOOLEAN] :
     r.lower < r.upper \/ (r.inclusive /\ r.lower = r.upper)}
Boundless == [lower |-> -Infinity, upper |-> Infinity, inclusive |-> TRUE]
DateRanges ==
  {r \in [from : Dates \cup {Open}, to : Dates \cup {Open}] :
     Ends(r) # {} /\ \A date, end \in Ends(r) : IsRelative(date) = IsRelative(end)}
NoDates == [from |-> Open, to |-> Open]

Init ==
  /\ \/ range \in NumberRanges /\ dates = NoDates
     \/ range = Boundless /\ dates \in DateRanges
  /\ other = range /\ value = 0 /\ otherDates = dates

\* The ranges are compared before a value is entered.
Compare ==
  /\ dates = NoDates /\ value = 0
  /\ other' \in NumberRanges
  /\ UNCHANGED <<range, value, dates, otherDates>>
CompareDates ==
  /\ dates # NoDates
  /\ otherDates' \in DateRanges
  /\ UNCHANGED <<range, other, value, dates>>
Enter ==
  /\ dates = NoDates
  /\ value' \in -4 .. 4
  /\ UNCHANGED <<range, other, dates, otherDates>>
Confine ==
  /\ value' = ToValueInBounds(range, value)
  /\ UNCHANGED <<range, other, dates, otherDates>>

Next == Compare \/ CompareDates \/ Enter \/ Confine

Spec == Init /\ [][Next]_rangeVars

--------------------------------------------------------------------------------
(* Properties                                                              *)

\* A range restricts a value to the nearest one it has or ends at, ranges of a kind
\* overlap if and only if they have a value in common, and rounding and modulo treat
\* negative numbers like positive ones (Range, SimpleConditional, NumberUtil).
NumbersAreInRange ==
  LET least == IF range.inclusive THEN ">=" ELSE ">"
      most == IF range.inclusive THEN "<=" ELSE "<"
      values == (-2 * Infinity) .. 2 * Infinity    \* in halves
      Has(r, half) == InBounds([r EXCEPT !.lower = 2 * @, !.upper = 2 * @], half)
      Elements(seq) == {seq[i] : i \in DOMAIN seq}
      restricted == ToValueInBounds(range, value)
  IN /\ InBounds(range, value)
          <=> Check(least, value, range.lower) /\ Check(most, value, range.upper)
     /\ InBounds([range EXCEPT !.inclusive = TRUE], restricted)
     /\ InBounds(range, value) => restricted = value
     /\ IsBoundless(range) => InBounds(range, value)
     /\ ToValueInBounds(range, restricted) = restricted
     /\ range.inclusive = other.inclusive =>
          /\ DoesOverlap(range, other) <=> DoesOverlap(other, range)
          /\ DoesOverlap(range, other) <=> \E half \in values : Has(range, half) /\ Has(other, half)
     /\ Modulo(value, 3) = value % 3
     /\ Round(-value) = -Round(value) /\ 2 * Round(value) - value \in -1 .. 1
     /\ \A n \in -4 .. 4 :
          n \in Elements(SeqOf(value, 4)) <=> InBounds([lower |-> value, upper |-> 4, inclusive |-> TRUE], n)
     /\ Exclusive(value, value) = <<>>

\* Ranges of dates are equal if and only if they have the same hash; a range of mixed
\* grains has the one that is not DAY, and one with a fiscal end is fiscal
\* (AbstractDateRange, RelativeDateRange).
DateRangesAgree ==
  LET relative == dates # NoDates /\ \A end \in Ends(dates) : IsRelative(end)
      grains == {end.grain : end \in Ends(dates)}
  IN /\ DateRangeIsEqual(dates, otherDates, FALSE) <=> GetHash(dates) = GetHash(otherDates)
     /\ DateRangeIsEqual(dates, otherDates, FALSE) => DateRangeIsEqual(dates, otherDates, TRUE)
     /\ DateRangeIsEqual(dates, otherDates, TRUE) <=> DateRangeIsEqual(otherDates, dates, TRUE)
     /\ relative =>
          /\ IsFiscal(dates) <=> TRUE \in {end.fiscal : end \in Ends(dates)}
          /\ GetGrain(dates) \in grains
          /\ GetGrain(dates) = "DAY" <=> grains = {"DAY"}
================================================================================
