------------------------------- MODULE BigInt -------------------------------
(***************************************************************************)
(* The big integers of BigInt::Rossi (src/src/common/BigInt.cpp) and what  *)
(* kad::KadID makes of them (src/src/kademlia/kadid.cpp).                  *)
(*                                                                         *)
(* A number is a sequence of units, the least significant first, in words  *)
(* of UnitBits bits.  One object goes through any sequence of operations;  *)
(* number is the natural number it should stand for by then.               *)
(***************************************************************************)
EXTENDS Integers, Sequences, FiniteSets
LOCAL INSTANCE SequencesExt
LOCAL INSTANCE FiniteSetsExt
LOCAL INSTANCE Bitwise

CONSTANTS
    UnitBits,     \* the bits of an unsigned long, 64 in the program
    NibbleBits,   \* NIBBLE_BIT: of a hexadecimal digit, 4 in the program
    DecDigits,    \* BASE1 - 1: how many decimal digits a unit of a Vin has
    Operands,     \* the numbers that occur as second operands
    WordValues,   \* of the five words of a hash
    KMaxDigits,   \* how many digits KMaxID has
    MaxNumber     \* bound: larger results are not looked at

VARIABLES
    units,        \* m_units of the object
    number,       \* history: the number it should stand for
    stopped       \* why an ASSERTION has ended the program, or "no"

bigVars == <<units, number, stopped>>

Base == 2^UnitBits
ULONG_MSB == 2^(UnitBits - 1)
HEX_DIGIT == 2^NibbleBits
HEX_SETW == UnitBits \div NibbleBits
DEC_DIGIT == 10
BASE2 == 10^DecDigits
Strays == {0, 1}  \* the bit that stands past the end of a vector

\* What m_units can be.
Numbers == Seq(0 .. Base - 1)

\* The meaning of a vector of units.
Natural(u) == FoldRight(LAMBDA unit, sum : unit + Base * sum, u, 0)

Longer(u, v) == IF Len(u) < Len(v) THEN Len(v) ELSE Len(u)

Resized(u, size) == [i \in 1 .. size |-> IF i <= Len(u) THEN u[i] ELSE 0]

\* smartTruncateUnits: no zero in front, but for the number 0.
Truncated(u) == SubSeq(u, 1, Max({1} \cup {i \in DOMAIN u : u[i] # 0}))

Repeated(Op(_), times, u) ==
    LET Again[n \in Nat, v \in Seq(Nat)] == IF n = 0 THEN v ELSE Again[n - 1, Op(v)]
    IN  Again[times, u]

-----------------------------------------------------------------------------
(***************************************************************************)
(* Comparison, which takes the longer vector for the larger number.        *)
(***************************************************************************)
Less(u, v) ==
    \/ Len(u) < Len(v)
    \/ /\ Len(u) = Len(v)
       /\ \E i \in DOMAIN u :
              u[i] < v[i] /\ \A j \in i + 1 .. Len(u) : u[j] = v[j]

IsEqual(u, v) == ~Less(u, v) /\ ~Less(v, u)

LessOrEqual(u, v) == Less(u, v) \/ IsEqual(u, v)

(***************************************************************************)
(* Sums and differences.  A carry is seen by a sum that is smaller than a  *)
(* summand; with a carry coming in, by one that is not larger.             *)
(***************************************************************************)
Carries(sum, a, b, carry) ==
    IF carry = 0 THEN sum < a \/ sum < b ELSE sum <= a \/ sum <= b

Sum(u, v) ==
    LET a == Resized(u, Longer(u, v) + 1)
        b == Resized(v, Longer(u, v) + 1)
        Step(s, i) ==
            LET sum == (a[i] + b[i] + s.carry) % Base
            IN  [units |-> Append(s.units, sum),
                 carry |-> IF Carries(sum, a[i], b[i], s.carry) THEN 1 ELSE 0]
    IN  Truncated(FoldLeftDomain(Step, [units |-> <<>>, carry |-> 0], a).units)

\* Faulty: the borrow that comes in is not looked at.
BorrowsAlone(a, b, borrow) == a < b

Borrows(a, b, borrow) == IF borrow = 0 THEN a < b ELSE a <= b

Difference(u, v) ==
    LET a == Resized(u, Longer(u, v) + 1)
        b == Resized(v, Longer(u, v) + 1)
        Step(s, i) ==
            [units |-> Append(s.units, (a[i] - (b[i] + s.borrow)) % Base),
             borrow |-> IF Borrows(a[i], b[i], s.borrow) THEN 1 ELSE 0]
    IN  Truncated(FoldLeftDomain(Step, [units |-> <<>>, borrow |-> 0], a).units)

\* A unit is counted up when all the units below it came to 0.
Incremented(u) ==
    LET v == Append(u, 0)
    IN  Truncated([i \in DOMAIN v |->
            IF \A j \in 1 .. i - 1 : v[j] = Base - 1 THEN (v[i] + 1) % Base ELSE v[i]])

\* Without a borrow; with one, the ASSERTION of operator-- does not hold.
Decremented(u) == Truncated([u EXCEPT ![1] = (@ - 1) % Base])

Negated(u) ==
    Sum([i \in 1 .. Len(u) + 1 |-> IF i <= Len(u) THEN Base - 1 - u[i] ELSE 0], <<1>>)

(***************************************************************************)
(* Bits.                                                                   *)
(***************************************************************************)
BitAnd(u, v) == Truncated([i \in 1 .. Longer(u, v) |->
                    Resized(u, i)[i] & Resized(v, i)[i]])
BitOr(u, v) == Truncated([i \in 1 .. Longer(u, v) |->
                    Resized(u, i)[i] | Resized(v, i)[i]])
BitXor(u, v) == Truncated([i \in 1 .. Longer(u, v) |->
                    Resized(u, i)[i] ^^ Resized(v, i)[i]])
Inverted(u) == Truncated([i \in DOMAIN u |-> Base - 1 - u[i]])

\* One bit to the right; above is the bit that comes in at the top.
RightOnce(u, above) ==
    [i \in DOMAIN u |->
        (u[i] \div 2) + ULONG_MSB * (IF i = Len(u) THEN above ELSE u[i + 1] % 2)]

\* operator>>=, which shifts a vector with a zero on top.
RightBy(u, shift) == Truncated(Repeated(LAMBDA v : RightOnce(v, 0), shift, Append(u, 0)))

\* operator>>, whose top bits come from the unit past the end.
RightCopy(u, shift, stray) ==
    Truncated(Repeated(LAMBDA v : RightOnce(v, stray), shift, u))

LeftOnce(u) ==
    [i \in DOMAIN u |->
        ((2 * u[i]) % Base) + (IF i > 1 /\ u[i - 1] >= ULONG_MSB THEN 1 ELSE 0)]

\* operator<<=, which makes room first.
LeftBy(u, shift) ==
    Truncated(Repeated(LeftOnce, shift, Resized(u, Len(u) + shift \div UnitBits + 2)))

(***************************************************************************)
(* Products and quotients, bit by bit.                                     *)
(***************************************************************************)
Multiplied[arg, tmp, ret \in Numbers] ==
    LET added == IF arg[1] % 2 = 1 THEN Sum(ret, tmp) ELSE ret
        rest == RightBy(arg, 1)
    IN  IF IsEqual(rest, <<0>>) THEN added ELSE Multiplied[rest, LeftBy(tmp, 1), added]

Product(u, v) == Multiplied[v, u, <<0>>]

\* The divisor moved up to the dividend's size, and by how many bits.
Scaled[divisor, dividend \in Numbers, shiftcnt \in Nat] ==
    IF Less(divisor, dividend) THEN Scaled[LeftBy(divisor, 1), dividend, shiftcnt + 1]
    ELSE IF IsEqual(divisor, dividend) THEN [divisor |-> divisor, shiftcnt |-> shiftcnt]
    ELSE [divisor |-> RightBy(divisor, 1), shiftcnt |-> shiftcnt - 1]

LongDivision[dividend, divisor, quotient \in Numbers, steps \in Nat] ==
    IF steps = 0 THEN [quotient |-> quotient, remainder |-> dividend]
    ELSE LET half == RightBy(divisor, 1)
             twice == LeftBy(quotient, 1)
         IN  IF LessOrEqual(divisor, dividend)
             THEN LongDivision[Difference(dividend, divisor), half, Incremented(twice), steps - 1]
             ELSE LongDivision[dividend, half, twice, steps - 1]

Divided(u, v) ==
    LET s == Scaled[v, u, 0] IN LongDivision[u, s.divisor, <<0>>, s.shiftcnt + 1]

\* The ASSERTION at the end of divide.
DivisionHolds(u, v, d) == IsEqual(Sum(Product(d.quotient, v), d.remainder), u)
-----------------------------------------------------------------------------
(***************************************************************************)
(* Texts are sequences of digits, the first one first.  A stream writes at *)
(* least as many digits as its width asks for.                             *)
(***************************************************************************)
Written(n, base, width) ==
    LET len == Max({width} \cup {i \in 1 .. UnitBits + 1 : n >= base^(i - 1)})
    IN  [i \in 1 .. len |-> (n \div base^(len - i)) % base]

HexText(u) ==
    FoldRight(LAMBDA unit, text : text \o Written(unit, HEX_DIGIT, HEX_SETW),
              Front(u), Written(Last(u), HEX_DIGIT, 1))

\* initViaString with one of the two bases it accepts.
FromText(text, base) ==
    LET Read[u \in Numbers, rest \in Seq(Nat)] ==
            IF rest = <<>> THEN u
            ELSE Read[Sum(Product(u, <<base>>), <<Head(rest)>>), Tail(rest)]
    IN  Read[<<0>>, text]

\* Vin::operator+, in decimal units.
VinSum(u, v) ==
    LET a == Resized(u, Longer(u, v))
        b == Resized(v, Longer(u, v))
        AddUnits(s, i) ==
            LET sum == a[i] + b[i] + s.carry
            IN  [units |-> Append(s.units, sum % BASE2), carry |-> sum \div BASE2]
        all == FoldLeftDomain(AddUnits, [units |-> <<>>, carry |-> 0], a)
    IN  IF all.carry = 0 THEN all.units ELSE Append(all.units, all.carry)

VinTimes(u, n) == Repeated(LAMBDA v : VinSum(v, u), n, <<0>>)

VinFromText(text, base) ==
    LET Read[u, rest \in Seq(Nat)] ==
            IF rest = <<>> THEN u
            ELSE Read[VinSum(VinTimes(u, base), <<Head(rest)>>), Tail(rest)]
    IN  Read[<<0>>, text]

VinText(u) ==
    FoldRight(LAMBDA unit, text : text \o Written(unit, DEC_DIGIT, DecDigits),
              Front(u), Written(Last(u), DEC_DIGIT, 1))

\* Rossi::toStrDec, by way of the hexadecimal text.
DecText(u) == VinText(VinFromText(HexText(u), HEX_DIGIT))

\* rossiLog of a number above 0.
RossiLog[u \in Numbers] ==
    IF LessOrEqual(u, <<0>>) THEN -1 ELSE RossiLog[RightBy(u, 1)] + 1

\* SHA1::Result: the five words of the hash, each half a unit.
OfDigest(words) ==
    FoldLeft(LAMBDA u, word : Sum(LeftBy(u, UnitBits \div 2), <<word>>),
             <<words[1]>>, Tail(words))

\* The object that stands for an operand.
Operand(k) == Truncated([i \in 1 .. UnitBits |-> (k \div Base^(i - 1)) % Base])
-----------------------------------------------------------------------------
\* The object is a KadID(), the smallest or the largest one.
DefaultId ==
    \E words \in [1 .. 5 -> WordValues] :
        /\ units = OfDigest(words)
        /\ number = FoldLeft(LAMBDA n, word : (n * 2^(UnitBits \div 2)) + word, 0, words)
KMinID == units = <<0>> /\ number = 0
KMaxID ==
    /\ units = FromText([i \in 1 .. KMaxDigits |-> 1], DEC_DIGIT)
    /\ number = 10^KMaxDigits \div 9

Init == (DefaultId \/ KMinID \/ KMaxID) /\ stopped = "no"

Become(u, n) == n <= MaxNumber /\ units' = u /\ number' = n /\ UNCHANGED stopped

Stop(why) == stopped' = why /\ UNCHANGED <<units, number>>

Add(k) == Become(Sum(units, Operand(k)), number + k)

Subtract(k) ==
    IF Less(units, Operand(k)) THEN Stop("minuend < subtracter")
    ELSE Become(Difference(units, Operand(k)), number - k)

Increment == Become(Incremented(units), number + 1)

\* A single unit wraps; where a borrow is needed, the ASSERTION that there is none fails.
Decrement ==
    IF Len(units) > 1 /\ units[1] = 0 THEN Stop("borrow")
    ELSE Become(Decremented(units), (number - 1) % Base^Len(units))

\* The complement to as many units as the number has, but 0 becomes one more.
Negate == Become(Negated(units), Base^Len(units) - number)

AndWith(k) == Become(BitAnd(units, Operand(k)), number & k)
OrWith(k) == Become(BitOr(units, Operand(k)), number | k)
XorWith(k) == Become(BitXor(units, Operand(k)), number ^^ k)
Invert == Become(Inverted(units), Base^Len(units) - 1 - number)

ShiftRight(shift) == Become(RightBy(units, shift), number \div 2^shift)
ShiftLeft(shift) == Become(LeftBy(units, shift), number * 2^shift)

\* What operator>> should give, if it is granted the bits it reads past the end.
Shifted(u, n, shift, stray) ==
    (n \div 2^shift) + stray * (2^(UnitBits * Len(u)) - 2^(UnitBits * Len(u) - shift))

ShiftRightCopy(shift, stray) ==
    Become(RightCopy(units, shift, stray), Shifted(units, number, shift, stray))

\* The ASSERTION of operator<< has the sizes of its two vectors swapped.
ShiftLeftCopy == Stop("size")

Multiply(k) == Become(Product(units, Operand(k)), number * k)

\* operator/ and operator%.
Divide(k) ==
    IF IsEqual(Operand(k), <<0>>) THEN Stop("divisor == Zero")
    ELSE LET d == Divided(units, Operand(k))
         IN  IF ~DivisionHolds(units, Operand(k), d) THEN Stop("quotient")
             ELSE \/ Become(d.quotient, number \div k)
                  \/ Become(d.remainder, number % k)

\* KadID(min, max), the identifier halfway.
Halfway(k, stray) ==
    LET sum == Sum(units, Operand(k))
    IN  Become(RightCopy(sum, 1, stray), Shifted(sum, number + k, 1, stray))

\* SplitRange of the object and another: what it stores for max1 and min1.
SplitRange(k, s1, s2) ==
    LET max1 == Sum(RightCopy(units, 1, s1), RightCopy(Operand(k), 1, s2))
        n == Shifted(units, number, 1, s1) + Shifted(Operand(k), k, 1, s2)
    IN  Become(max1, n) \/ Become(Sum(max1, <<1>>), n + 1)

\* KadID(raw) asks for octal digits, a base that initViaString refuses.
KadIDOfText == Stop("base")

Next ==
    /\ stopped = "no"
    /\ \/ \E k \in Operands :
              \/ Add(k) \/ Subtract(k) \/ Multiply(k) \/ Divide(k)
              \/ AndWith(k) \/ OrWith(k) \/ XorWith(k)
              \/ \E s1, s2 \in Strays : Halfway(k, s1) \/ SplitRange(k, s1, s2)
       \/ \E shift \in {1, 2, UnitBits} :
              \/ ShiftRight(shift) \/ ShiftLeft(shift)
              \/ \E stray \in Strays : ShiftRightCopy(shift, stray)
       \/ Increment \/ Decrement \/ Negate \/ Invert \/ ShiftLeftCopy \/ KadIDOfText
-----------------------------------------------------------------------------
\* After any sequence of calls the units are the number in base 2^UnitBits, without zeros
\* in front: the comparisons rely on that (BigInt.cpp:1006-1035, 1047-1857).
StandsForNumber ==
    /\ Natural(units) = number
    /\ \A i \in DOMAIN units : units[i] \in 0 .. Base - 1
    /\ Len(units) = 1 \/ Last(units) # 0

\* The comparisons, which look at sizes first, are those of the numbers (BigInt.cpp:1087-1168).
ComparesAsNumbers ==
    \A k \in Operands :
        /\ Less(units, Operand(k)) <=> number < k
        /\ Less(Operand(k), units) <=> k < number
        /\ IsEqual(units, Operand(k)) <=> number = k
        /\ LessOrEqual(units, Operand(k)) <=> number <= k

\* A number that is written, in either base, is read back, and its decimal text is that of
\* the number, by way of the hexadecimal one and decimal units (BigInt.cpp:406-782, 925-992,
\* 1907-1958).
TextsReadBack ==
    /\ FromText(HexText(units), HEX_DIGIT) = units
    /\ DecText(units) = Written(number, DEC_DIGIT, 1)
    /\ FromText(DecText(units), DEC_DIGIT) = units

\* No division fails its own test at the end (BigInt.cpp:1856), and rossiLog is the number of
\* the highest bit (BigInt.cpp:1992-2010).
DivisionAndLog ==
    /\ stopped # "quotient"
    /\ number > 0 => LET log == RossiLog[units] IN 2^log <= number /\ number < 2^(log + 1)
=============================================================================
