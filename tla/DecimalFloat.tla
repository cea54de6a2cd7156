----------------------------- MODULE DecimalFloat -----------------------------
(***************************************************************************)
(* The decimal_float class of demangle.cxx and print_IEEE_fp(), with which *)
(* the demangler prints the value of a floating literal.  A number is      *)
(* mantissa[1] + 10000 * mantissa[2] + ... + 10000^4 * mantissa[5], times  *)
(* 10^exponent; full is max_precision_reached.  An IEEE number is a        *)
(* sequence of bits: the sign, the exponent, the fraction.  A step is an   *)
(* iteration of a loop of print_IEEE_fp().                                 *)
(***************************************************************************)
EXTENDS Integers, Sequences, FiniteSetsExt, SequencesExt

CONSTANT Numbers        \* the numbers to print, of 32 or 64 bits

ASSUME NumbersAssumption ==
  \A bits \in Numbers : bits \in Seq({0, 1}) /\ Len(bits) \in {32, 64}

VARIABLES
  number,      \* the number that is printed
  stage,       \* where print_IEEE_fp() is
  bitCount,    \* iterations of the loop
  result, bit, power,
  printed,     \* what was written to the buffer
  exact        \* the same number in exact arithmetic: no part of the code

fvars == <<number, stage, bitCount, result, bit, power, printed, exact>>

Size == 5          \* mantissa_size_c
Base == 10000
Elements == 1 .. Size
FromTop == <<5, 4, 3, 2, 1>>

Float(mantissa, exponent, full) ==
  [mantissa |-> mantissa, exponent |-> exponent, full |-> full]

\* 2 ** (1 - 2 ** (bits - 1)), by the number of bits of the exponent.
ExpStart ==
  [b \in {8, 11} |->
    IF b = 11 THEN Float(<<6915, 3600, 2925, 5369, 1112>>, -327, TRUE)
              ELSE Float(<<5398, 1437, 5411, 4717, 5877>>, -58, TRUE)]

\* 2 ** (2 ** power).
TwoPowTwoPow ==
  [n \in 0 .. 10 |->
    << Float(<<2, 0, 0, 0, 0>>, 0, FALSE),
       Float(<<4, 0, 0, 0, 0>>, 0, FALSE),
       Float(<<16, 0, 0, 0, 0>>, 0, FALSE),
       Float(<<256, 0, 0, 0, 0>>, 0, FALSE),
       Float(<<5536, 6, 0, 0, 0>>, 0, FALSE),
       Float(<<7296, 9496, 42, 0, 0>>, 0, FALSE),
       Float(<<1616, 955, 737, 6744, 1844>>, 0, TRUE),
       Float(<<6346, 9384, 6920, 8236, 3402>>, 19, TRUE),
       Float(<<9542, 3161, 9237, 9208, 1157>>, 58, TRUE),
       Float(<<7100, 4259, 9299, 7807, 1340>>, 135, TRUE),
       Float(<<9077, 2315, 3486, 6931, 1797>>, 289, TRUE) >>[n + 1]]

Half == Float(<<5, 0, 0, 0, 0>>, -1, FALSE)          \* constants[m1]
One == Float(<<10, 0, 0, 0, 0>>, -1, FALSE)          \* constants[m0]
Zero == [One EXCEPT !.mantissa[1] = 0]

Divider(excess) == Min({d \in {10, 100, 1000, 10000, 100000} : excess < d})
Digits(divider) == CHOOSE n \in 1 .. 5 : 10 ^ n = divider

\* Shift the digits above the most significant element back into it.
DoOverflow(d, excess) ==
  LET divider == Divider(excess)
      Above(i) == IF i = Size THEN excess ELSE d.mantissa[i + 1] % divider
      Round(i) == IF i = 1 THEN divider \div 2 ELSE 0
  IN Float([i \in Elements |-> (d.mantissa[i] + Round(i)) \div divider
                                + Above(i) * (Base \div divider)],
          d.exponent + Digits(divider), TRUE)

Carry(d) ==
  LET m == d.mantissa
      carry[i \in 0 .. Size - 1] == IF i = 0 THEN 0 ELSE (m[i] + carry[i - 1]) \div Base
  IN [d EXCEPT !.mantissa = [i \in Elements |-> IF i = Size THEN m[i] + carry[i - 1]
                                                ELSE (m[i] + carry[i - 1]) % Base]]

DoCarry(d) ==
  LET carried == Carry(d)
  IN IF carried.mantissa[Size] < Base THEN carried ELSE DoOverflow(carried, 0)

Times(d, n) == DoCarry([d EXCEPT !.mantissa = [i \in Elements |-> n * @[i]]])

\* The division of the mantissa, when the exponent has to stay.
Halved(d) ==
  LET m == d.mantissa
      Above(i) == IF i = Size THEN 0 ELSE m[i + 1] % 2
      half == Float([i \in Elements |-> m[i] \div 2 + Above(i) * (Base \div 2)],
                   d.exponent, d.full /\ m[Size] \div 2 >= 1000)
  IN IF m[1] % 2 = 0 THEN half ELSE DoCarry([half EXCEPT !.mantissa[1] = @ + 1])

DivideByTwo(d, decrementExponent) ==
  IF decrementExponent THEN LET t == Times(d, 5) IN [t EXCEPT !.exponent = @ - 1]
                       ELSE Halved(d)

CanDecrement(d) == ~d.full

DecrementExponentNeverFull(d) ==
  LET t == Times(d, 10) IN Float(t.mantissa, t.exponent - 1, t.full)
DecrementExponent(d) ==
  LET t == Times(d, 10)
  IN Float(t.mantissa, t.exponent - 1, t.full \/ t.mantissa[Size] >= 1000)

Plus(d, term) ==
  DoCarry([d EXCEPT !.mantissa = [i \in Elements |-> @[i] + term.mantissa[i]]])

\* The most significant elements of the product that are known to be zero.
ZeroDigits(d, factor) ==
  LET Leading(m) == Max({n \in 0 .. Size - 1 : \A i \in 1 .. n : m[Size + 1 - i] = 0})
  IN Min({Leading(d.mantissa) + Leading(factor.mantissa), Size - 1})

Multiply(d, factor) ==
  LET lss == Size - 1 - ZeroDigits(d, factor)
      \* The sum of the products of the elements with weight 10000 ** k.
      Sum(k) == FoldLeft(LAMBDA s, i : IF k - i \in 0 .. Size - 1
                                         THEN s + d.mantissa[i + 1] * factor.mantissa[k - i + 1]
                                         ELSE s, 0, <<0, 1, 2, 3, 4>>)
      below == IF lss = 0 THEN 0 ELSE Sum(lss - 1)
      Column(acc, j) == LET sum == acc.sum + Sum(lss + j)
                        IN [sum |-> sum \div Base, m |-> Append(acc.m, sum % Base)]
      columns == FoldLeft(Column, [sum |-> (below + Base \div 2) \div Base, m |-> <<>>],
                          <<0, 1, 2, 3, 4>>)
      product == Float(columns.m, d.exponent + factor.exponent + 4 * lss, d.full)
  IN IF columns.sum = 0 THEN product ELSE DoOverflow(product, columns.sum)
-----------------------------------------------------------------------------
\* The 20 digits of the mantissa, the most significant first.
MantissaDigits(d) ==
  FlattenSeq([i \in Elements |->
    LET m == d.mantissa[Size + 1 - i]
    IN <<(m \div 1000), (m \div 100) % 10, (m \div 10) % 10, m % 10>>])

LeadingZeros(digits) ==
  Max({n \in 0 .. Len(digits) : \A i \in 1 .. n : digits[i] = 0})
TrailingZeros(digits) ==
  Max({n \in 0 .. Len(digits) : \A i \in Len(digits) - n + 1 .. Len(digits) : digits[i] = 0})

RoundOffTruncates(d, precision) == d

\* Adds one half of the last digit that is printed.
RoundOff(d, precision) ==
  LET cut == 4 * Size - 1 - precision
      element == cut \div 4 + 1
      rounded == [d EXCEPT !.mantissa[element] = @ + 5 * 10 ^ (cut % 4)]
  IN IF precision >= 4 * Size THEN d
     ELSE IF rounded.mantissa[element] >= Base THEN DoCarry(rounded) ELSE rounded

\* The digits, the dot being behind the first, and the exponent behind the e.
PrintWithPrecision(d, precision) ==
  LET leading == IF d.full THEN 0 ELSE LeadingZeros(MantissaDigits(d))
      tmp == RoundOff(d, precision + leading)
      all == MantissaDigits(tmp)
      zeros == LeadingZeros(all)
      written == SubSeq(all, zeros + 1, Min({Len(all), zeros + precision + leading}))
  IN [digits |-> SubSeq(written, 1, Len(written) - TrailingZeros(written)),
      exponent |-> 4 * Size - 1 - zeros + tmp.exponent]

NbitsExponent(bits) == IF Len(bits) = 64 THEN 11 ELSE 8
Precision(bits) == IF Len(bits) = 64 THEN 17 ELSE 8

ExponentBits(bits) == SubSeq(bits, 2, NbitsExponent(bits) + 1)
FractionBits(bits) == SubSeq(bits, NbitsExponent(bits) + 2, Len(bits))
AllOnes(bits) == \A i \in DOMAIN bits : bits[i] = 1
AllZeros(bits) == \A i \in DOMAIN bits : bits[i] = 0
Normalized(bits) == ~AllZeros(ExponentBits(bits))

\* The exponent of a denormalized number counts as one.
Exponent(bits) ==
  LET exponent == ExponentBits(bits)
  IN IF Normalized(bits) THEN exponent ELSE [exponent EXCEPT ![Len(exponent)] = 1]

SpecialNumber(bits) ==
  CASE AllOnes(ExponentBits(bits)) /\ ~AllZeros(FractionBits(bits)) -> "nan"
    [] AllOnes(ExponentBits(bits)) /\ AllZeros(FractionBits(bits)) -> "inf"
    [] AllZeros(Tail(bits)) -> "0"
    [] OTHER -> "finite"

NumberText(kind, negative, digits, exponent) ==
  [kind |-> kind, negative |-> negative, digits |-> digits, exponent |-> exponent]
Nothing == NumberText("nothing", FALSE, <<>>, 0)

\* exact is the number limbs * 10^tens * 2^twos.
Limbs(limbs, factor, term) ==
  LET Column(acc, limb) ==
        LET sum == acc.carry + limb * factor
        IN [carry |-> sum \div Base, limbs |-> Append(acc.limbs, sum % Base)]
      columns == FoldLeft(Column, [carry |-> term, limbs |-> <<>>], limbs)
  IN IF columns.carry = 0 THEN columns.limbs ELSE Append(columns.limbs, columns.carry)

Bias(bits) == 2 ^ (NbitsExponent(bits) - 1) - 1
Twos(bits) ==
  FoldLeft(LAMBDA n, b : 2 * n + b, 0, Exponent(bits)) - Bias(bits) - Len(FractionBits(bits))

\* The call: nan, infinity and zero are written at once.
Begin(bits) ==
  /\ number = bits
  /\ bitCount = 0
  /\ stage = IF SpecialNumber(bits) = "finite" THEN "sum" ELSE "done"
  /\ result = IF Normalized(bits) THEN One ELSE Zero
  /\ bit = Half
  /\ power = ExpStart[NbitsExponent(bits)]
  /\ printed = IF SpecialNumber(bits) = "finite" THEN Nothing
               ELSE NumberText(SpecialNumber(bits), bits[1] = 1 /\ SpecialNumber(bits) # "nan", <<>>, 0)
  /\ exact = [limbs |-> IF Normalized(bits) THEN <<1>> ELSE <<>>, tens |-> 0,
              twos |-> Twos(bits)]

FInit == \E bits \in Numbers : Begin(bits)

\* One bit of the fraction.
AddBit ==
  LET fraction == FractionBits(number)
      sum == IF fraction[bitCount + 1] = 1 THEN Plus(result, bit) ELSE result
      success == CanDecrement(sum)
  IN /\ stage = "sum"
     /\ result' = IF success THEN DecrementExponent(sum) ELSE sum
     /\ bit' = DivideByTwo(bit, success)
     /\ exact' = [exact EXCEPT !.limbs = Limbs(@, 2, fraction[bitCount + 1])]
     /\ IF bitCount + 1 < Len(fraction)
          THEN bitCount' = bitCount + 1 /\ UNCHANGED stage
          ELSE bitCount' = 0 /\ stage' = "power"
     /\ UNCHANGED <<number, power, printed>>

\* One bit of the exponent, the most significant first.
RaisePower ==
  LET exponent == Exponent(number)
      place == Len(exponent) - 1 - bitCount
  IN /\ stage = "power"
     /\ power' = IF exponent[bitCount + 1] = 1 THEN Multiply(power, TwoPowTwoPow[place])
                                               ELSE power
     /\ IF place > 0
          THEN bitCount' = bitCount + 1 /\ UNCHANGED stage
          ELSE bitCount' = 0 /\ stage' = "print"
     /\ UNCHANGED <<number, result, bit, printed, exact>>

PrintNumber ==
  LET text == PrintWithPrecision(Multiply(result, power), Precision(number))
  IN /\ stage = "print"
     /\ printed' = NumberText("finite", number[1] = 1, text.digits, text.exponent)
     /\ stage' = IF exact.twos = 0 THEN "done" ELSE "compare"
     /\ UNCHANGED <<number, bitCount, result, bit, power, exact>>

\* No part of the code: exact takes over its powers of two, five at a time.
Compare ==
  LET n == IF exact.twos > 0 THEN Min({exact.twos, 5}) ELSE Min({-exact.twos, 5})
      next == IF exact.twos > 0
                THEN [limbs |-> Limbs(exact.limbs, 2 ^ n, 0), tens |-> 0,
                      twos |-> exact.twos - n]
                ELSE [limbs |-> Limbs(exact.limbs, 5 ^ n, 0), tens |-> exact.tens - n,
                      twos |-> exact.twos + n]
  IN /\ stage = "compare"
     /\ exact' = next
     /\ stage' = IF next.twos = 0 THEN "done" ELSE "compare"
     /\ UNCHANGED <<number, bitCount, result, bit, power, printed>>

FNext == AddBit \/ RaisePower \/ PrintNumber \/ Compare

FSpec == FInit /\ [][FNext]_fvars
-----------------------------------------------------------------------------
\* operator+= adds mantissas: "Add two decimal_floats that have the same
\* exponent".  The exponents of result and bit are kept equal by
\* decrement_exponent() and divide_by_two(), one of which may overflow when
\* the other does not.
SameExponent ==
  stage = "sum" /\ FractionBits(number)[bitCount + 1] = 1
    => result.exponent = bit.exponent

ExactDigits ==
  LET all == FlattenSeq([i \in DOMAIN exact.limbs |->
                LET m == exact.limbs[Len(exact.limbs) + 1 - i]
                IN <<m \div 1000, (m \div 100) % 10, (m \div 10) % 10, m % 10>>])
  IN SubSeq(all, LeadingZeros(all) + 1, Len(all))

PaddedTo(digits, n) == [i \in 1 .. n |-> IF i <= Len(digits) THEN digits[i] ELSE 0]

Following(digits) ==
  LET nines == Max({n \in 0 .. Len(digits) :
                      \A i \in Len(digits) - n + 1 .. Len(digits) : digits[i] = 9})
      place == Len(digits) - nines
  IN [i \in DOMAIN digits |-> IF i < place THEN digits[i]
                              ELSE IF i = place THEN digits[i] + 1 ELSE 0]

\* What is printed is the number: within one unit of the last digit of the
\* precision, and for single precision the nearest, however the roundings of
\* the sum, of the power and of the product add up.
PrintsTheNumber ==
  (stage = "done" /\ printed.kind = "finite") =>
    LET n == Precision(number)
        digits == ExactDigits
        down == PaddedTo(digits, n)
        exponent == Len(digits) - 1 + exact.tens
        up == Following(down)
        text == PaddedTo(printed.digits, n)
        roundsUp == Len(digits) > n /\ digits[n + 1] >= 5
        IsDown == text = down /\ printed.exponent = exponent
        IsUp == IF \A i \in DOMAIN down : down[i] = 9
                  THEN printed.digits = <<1>> /\ printed.exponent = exponent + 1
                  ELSE text = up /\ printed.exponent = exponent
    IN /\ Len(printed.digits) \in 1 .. n
       /\ IF Len(number) = 32 THEN IF roundsUp THEN IsUp ELSE IsDown
                               ELSE IsUp \/ IsDown
=============================================================================
