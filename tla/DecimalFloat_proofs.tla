-------------------------- MODULE DecimalFloat_proofs --------------------------
(***************************************************************************)
(* operator+= adds the mantissas of two numbers as if they had the same    *)
(* exponent.  While print_IEEE_fp() adds the bits of a normal number they  *)
(* do, for every number of 32 or 64 bits: until max_precision_reached the  *)
(* mantissa of the sum is between 10^n and 2 * 10^n, where n counts the    *)
(* decrements of the exponents, and the bit is half of what is left, so    *)
(* that no mantissa ever gets more than 20 digits.                         *)
(***************************************************************************)
EXTENDS DecimalFloat, SequenceTheorems, TLAPS

Mantissas == [Elements -> 0 .. Base - 1]
Floats == [mantissa : Mantissas, exponent : Int, full : BOOLEAN]

\* The mantissa as a number.
Value(m) == m[1] + Base * (m[2] + Base * (m[3] + Base * (m[4] + Base * m[5])))

\* The powers of ten that a mantissa can hold.
Ten == <<10, 100, 1000, 10000, 100000, 1000000, 10000000, 100000000, 1000000000, 10000000000,
         100000000000, 1000000000000, 10000000000000, 100000000000000, 1000000000000000,
         10000000000000000, 100000000000000000, 1000000000000000000, 10000000000000000000>>

\* The sum is full when its mantissa has 20 digits, and has room for another digit after that.
Fits(sum, term, added) ==
  IF sum.full
  THEN Value(sum.mantissa) + 2 * Value(term.mantissa) <= 2 * Ten[19] + added
  ELSE \E n \in 1 .. 18 : /\ sum.exponent = -n
                          /\ Ten[n] <= Value(sum.mantissa)
                          /\ Value(sum.mantissa) + 2 * Value(term.mantissa) <= 2 * Ten[n]

\* While the bits of a normal number are added.
IInv ==
  stage = "sum" /\ Normalized(number) =>
    /\ number \in Numbers
    /\ bitCount \in 0 .. 63
    /\ result \in Floats /\ bit \in Floats
    /\ result.exponent = bit.exponent
    /\ Fits(result, bit, bitCount)
-----------------------------------------------------------------------------
(***************************************************************************)
(* The arithmetic of decimal_float.                                        *)
(***************************************************************************)
\* The remainder is an element, the quotient goes to the next.
LEMMA Division ==
  ASSUME NEW n \in Nat
  PROVE  /\ n \div Base \in Nat /\ n % Base \in 0 .. Base - 1
         /\ n = Base * (n \div Base) + (n % Base)
  BY DEF Base

\* do_carry() keeps the value and leaves elements below 10000, but for the last.
LEMMA CarryValue ==
  ASSUME NEW d, NEW m \in [Elements -> Nat], NEW e, NEW f, d = Float(m, e, f)
  PROVE  \E x \in [Elements -> Nat] :
           /\ Carry(d) = Float(x, e, f) /\ Value(x) = Value(m)
           /\ \A i \in 1 .. 4 : x[i] < Base
<1> DEFINE c1 == m[1] \div Base
           c2 == (m[2] + c1) \div Base
           c3 == (m[3] + c2) \div Base
           c4 == (m[4] + c3) \div Base
           Eq(g) == g = [i \in 0 .. Size - 1 |->
                           IF i = 0 THEN 0 ELSE (d.mantissa[i] + g[i - 1]) \div Base]
           c == CHOOSE g : Eq(g)
           x == [i \in Elements |-> IF i = Size THEN d.mantissa[i] + c[i - 1]
                                    ELSE (d.mantissa[i] + c[i - 1]) % Base]
<1>1. \A i \in 1 .. 5 : m[i] \in Nat
  BY DEF Elements, Size
<1>2. d.mantissa = m /\ d.exponent = e /\ d.full = f
  BY DEF Float
<1>3. c1 \in Nat /\ c2 \in Nat /\ c3 \in Nat /\ c4 \in Nat
  <2>1. c1 \in Nat
    BY <1>1, Division
  <2> HIDE DEF c1
  <2>2. c2 \in Nat
    BY <1>1, <2>1, Division
  <2> HIDE DEF c2
  <2>3. c3 \in Nat
    BY <1>1, <2>2, Division
  <2> HIDE DEF c3
  <2>4. c4 \in Nat
    BY <1>1, <2>3, Division
  <2> QED
    BY <2>1, <2>2, <2>3, <2>4
<1>4. c[0] = 0 /\ c[1] = c1 /\ c[2] = c2 /\ c[3] = c3 /\ c[4] = c4
  <2> DEFINE h == [i \in 0 .. Size - 1 |->
                     IF i = 0 THEN 0 ELSE IF i = 1 THEN c1 ELSE
                     IF i = 2 THEN c2 ELSE IF i = 3 THEN c3 ELSE c4]
  <2>1. h[0] = 0 /\ h[1] = c1 /\ h[2] = c2 /\ h[3] = c3 /\ h[4] = c4
    <3> HIDE DEF c1, c2, c3, c4
    <3> QED
      BY DEF Size
  <2>2. Eq(h)
    <3> DEFINE w == [i \in 0 .. Size - 1 |-> IF i = 0 THEN 0 ELSE (m[i] + h[i - 1]) \div Base]
    <3>1. w[0] = 0 /\ w[1] = (m[1] + h[0]) \div Base /\ w[2] = (m[2] + h[1]) \div Base
          /\ w[3] = (m[3] + h[2]) \div Base /\ w[4] = (m[4] + h[3]) \div Base
      <4> HIDE DEF h
      <4> QED
        BY DEF Size
    <3>2. \A i \in 0 .. Size - 1 : i \in {0, 1, 2, 3, 4}
      BY DEF Size
    <3>3. \A i \in 0 .. Size - 1 : w[i] = h[i]
      <4>1. m[1] + 0 = m[1]
        BY <1>1
      <4> HIDE DEF w, h
      <4> QED
        BY <2>1, <3>1, <3>2, <4>1
    <3>4. w = h
      <4>1. DOMAIN w = 0 .. Size - 1 /\ DOMAIN h = 0 .. Size - 1
        OBVIOUS
      <4>2. w = [i \in DOMAIN w |-> w[i]] /\ h = [i \in DOMAIN h |-> h[i]]
        OBVIOUS
      <4> HIDE DEF w, h
      <4> QED
        BY <3>3, <4>1, <4>2
    <3> HIDE DEF h
    <3> QED
      BY <1>2, <3>4 DEF w
  <2>3. Eq(c)
    <3> HIDE DEF Eq, h
    <3> QED
      BY <2>2
  <2>4. c = [i \in 0 .. Size - 1 |-> IF i = 0 THEN 0 ELSE (m[i] + c[i - 1]) \div Base]
    BY <1>2, <2>3
  <2> HIDE DEF c, Eq, h
  <2>5. \A i \in 0 .. 4 : c[i] = IF i = 0 THEN 0 ELSE (m[i] + c[i - 1]) \div Base
    BY <2>4 DEF Size
  <2>6. c[0] = 0 /\ c[1] = (m[1] + c[0]) \div Base /\ c[2] = (m[2] + c[1]) \div Base
        /\ c[3] = (m[3] + c[2]) \div Base /\ c[4] = (m[4] + c[3]) \div Base
    BY <2>5
  <2>7. m[1] + 0 = m[1]
    BY <1>1
  <2> QED
    BY <2>6, <2>7
<1>5. Carry(d) = Float(x, e, f)
  <2>1. Carry(d) = [d EXCEPT !.mantissa = x]
    BY DEF Carry
  <2> HIDE DEF x
  <2> QED
    BY <2>1 DEF Float
<1>6. \A i \in Elements : x[i] = IF i = Size THEN m[i] + c[i - 1] ELSE (m[i] + c[i - 1]) % Base
  <2> HIDE DEF c
  <2> QED
    BY <1>2
<1>7. x[1] = m[1] % Base /\ x[2] = (m[2] + c1) % Base /\ x[3] = (m[3] + c2) % Base
      /\ x[4] = (m[4] + c3) % Base /\ x[5] = m[5] + c4
  <2>1. m[1] + 0 = m[1]
    BY <1>1
  <2> HIDE DEF c, x, c1, c2, c3, c4
  <2>2. x[1] = (m[1] + c[0]) % Base /\ x[2] = (m[2] + c[1]) % Base /\ x[3] = (m[3] + c[2]) % Base
        /\ x[4] = (m[4] + c[3]) % Base /\ x[5] = m[5] + c[4]
    BY <1>6 DEF Elements, Size
  <2> QED
    BY <1>4, <2>1, <2>2
<1>8. /\ x[1] \in 0 .. Base - 1 /\ x[2] \in 0 .. Base - 1 /\ x[3] \in 0 .. Base - 1
      /\ x[4] \in 0 .. Base - 1 /\ x[5] \in Nat
      /\ m[1] = Base * c1 + x[1] /\ m[2] + c1 = Base * c2 + x[2] /\ m[3] + c2 = Base * c3 + x[3]
      /\ m[4] + c3 = Base * c4 + x[4] /\ x[5] = m[5] + c4
  <2> HIDE DEF x
  <2>1. m[1] \in Nat /\ m[2] + c1 \in Nat /\ m[3] + c2 \in Nat /\ m[4] + c3 \in Nat
        /\ m[5] + c4 \in Nat
    <3> HIDE DEF c1, c2, c3, c4
    <3> QED
      BY <1>1, <1>3
  <2>2. x[1] \in 0 .. Base - 1 /\ m[1] = Base * c1 + x[1]
    BY <1>7, <2>1, Division
  <2>3. x[2] \in 0 .. Base - 1 /\ m[2] + c1 = Base * c2 + x[2]
    <3> HIDE DEF c1
    <3> QED
      BY <1>7, <2>1, Division
  <2>4. x[3] \in 0 .. Base - 1 /\ m[3] + c2 = Base * c3 + x[3]
    <3> HIDE DEF c2
    <3> QED
      BY <1>7, <2>1, Division
  <2>5. x[4] \in 0 .. Base - 1 /\ m[4] + c3 = Base * c4 + x[4]
    <3> HIDE DEF c3
    <3> QED
      BY <1>7, <2>1, Division
  <2> HIDE DEF c1, c2, c3, c4
  <2> QED
    BY <1>7, <2>1, <2>2, <2>3, <2>4, <2>5
<1>9. /\ x[1] \in Nat /\ x[2] \in Nat /\ x[3] \in Nat /\ x[4] \in Nat /\ x[5] \in Nat
      /\ x[1] < Base /\ x[2] < Base /\ x[3] < Base /\ x[4] < Base
  <2>1. \A y \in 0 .. Base - 1 : y \in Nat /\ y < Base
    BY DEF Base
  <2> HIDE DEF x
  <2> QED
    BY <1>8, <2>1
<1>10. x \in [Elements -> Nat]
  <2>1. \A i \in Elements : i \in {1, 2, 3, 4, 5}
    BY DEF Elements, Size
  <2>2. \A i \in Elements : x[i] \in Nat
    <3> HIDE DEF x
    <3> QED
      BY <1>9, <2>1
  <2>3. DOMAIN x = Elements /\ x = [i \in DOMAIN x |-> x[i]]
    OBVIOUS
  <2> HIDE DEF x
  <2> QED
    BY <2>2, <2>3
<1>11. Value(x) = Value(m)
  <2> HIDE DEF x, c1, c2, c3, c4
  <2>1. /\ m[1] = Base * c1 + x[1] /\ m[2] + c1 = Base * c2 + x[2] /\ m[3] + c2 = Base * c3 + x[3]
        /\ m[4] + c3 = Base * c4 + x[4] /\ x[5] = m[5] + c4
    BY <1>8
  <2>2. m[1] \in Nat /\ m[2] \in Nat /\ m[3] \in Nat /\ m[4] \in Nat /\ m[5] \in Nat
    BY <1>1
  <2> DEFINE u5 == x[5]                v5 == m[5]
             u4 == x[4] + Base * u5    v4 == m[4] + Base * v5
             u3 == x[3] + Base * u4    v3 == m[3] + Base * v4
             u2 == x[2] + Base * u3    v2 == m[2] + Base * v3
             u1 == x[1] + Base * u2    v1 == m[1] + Base * v2
  <2>3. u5 = v5 + c4 /\ u5 \in Nat /\ v5 \in Nat
    BY <1>9, <2>1, <2>2
  <2> HIDE DEF u5, v5
  <2>4. u4 = v4 + c3 /\ u4 \in Nat /\ v4 \in Nat
    <3>1. m[4] \in Nat /\ x[4] \in Nat /\ c3 \in Nat /\ c4 \in Nat /\ m[4] + c3 = Base * c4 + x[4]
      BY <1>3, <1>9, <2>1, <2>2
    <3> QED
      BY <3>1, <2>3 DEF Base
  <2> HIDE DEF u4, v4
  <2>5. u3 = v3 + c2 /\ u3 \in Nat /\ v3 \in Nat
    <3>1. m[3] \in Nat /\ x[3] \in Nat /\ c2 \in Nat /\ c3 \in Nat /\ m[3] + c2 = Base * c3 + x[3]
      BY <1>3, <1>9, <2>1, <2>2
    <3> QED
      BY <3>1, <2>4 DEF Base
  <2> HIDE DEF u3, v3
  <2>6. u2 = v2 + c1 /\ u2 \in Nat /\ v2 \in Nat
    <3>1. m[2] \in Nat /\ x[2] \in Nat /\ c1 \in Nat /\ c2 \in Nat /\ m[2] + c1 = Base * c2 + x[2]
      BY <1>3, <1>9, <2>1, <2>2
    <3> QED
      BY <3>1, <2>5 DEF Base
  <2> HIDE DEF u2, v2
  <2>7. u1 = v1
    <3>1. m[1] \in Nat /\ x[1] \in Nat /\ c1 \in Nat /\ m[1] = Base * c1 + x[1]
      BY <1>3, <1>9, <2>1, <2>2
    <3> QED
      BY <3>1, <2>6 DEF Base
  <2> QED
    BY <2>7 DEF Value, u1, u2, u3, u4, u5, v1, v2, v3, v4, v5
<1>12. \A i \in 1 .. 4 : x[i] < Base
  <2>1. \A i \in 1 .. 4 : i \in {1, 2, 3, 4}
    OBVIOUS
  <2> HIDE DEF x
  <2> QED
    BY <1>9, <2>1
<1> HIDE DEF x
<1> QED
  BY <1>5, <1>10, <1>11, <1>12

-----------------------------------------------------------------------------
\* The elements of a mantissa are below 10000.
LEMMA MantissaElements ==
  ASSUME NEW m \in Mantissas
  PROVE  /\ m[1] \in Nat /\ m[2] \in Nat /\ m[3] \in Nat /\ m[4] \in Nat /\ m[5] \in Nat
         /\ m[1] < Base /\ m[2] < Base /\ m[3] < Base /\ m[4] < Base /\ m[5] < Base
<1>1. \A y \in 0 .. Base - 1 : y \in Nat /\ y < Base
  BY DEF Base
<1>2. \A i \in 1 .. 5 : m[i] \in 0 .. Base - 1
  BY DEF Mantissas, Elements, Size
<1> QED
  BY <1>1, <1>2

\* What the elements stand for is a natural number.
LEMMA ValueIsNat ==
  ASSUME NEW m \in [Elements -> Nat]
  PROVE  Value(m) \in Nat
<1>1. m[1] \in Nat /\ m[2] \in Nat /\ m[3] \in Nat /\ m[4] \in Nat /\ m[5] \in Nat
  BY DEF Elements, Size
<1> QED
  BY <1>1 DEF Value, Base

\* Only the last element can exceed 9999 behind do_carry(), and it does when the value has 21 digits.
LEMMA LastElement ==
  ASSUME NEW x \in [Elements -> Nat], \A i \in 1 .. 4 : x[i] < Base
  PROVE  /\ x[5] < Base <=> Value(x) < 10 * Ten[19]
         /\ x[5] >= 1000 <=> Value(x) >= Ten[19]
<1> DEFINE a == x[1]  b == x[2]  c == x[3]  e == x[4]  t == x[5]
<1>1. /\ a \in Nat /\ b \in Nat /\ c \in Nat /\ e \in Nat /\ t \in Nat
      /\ a < Base /\ b < Base /\ c < Base /\ e < Base
  BY DEF Elements, Size
<1>2. Value(x) = a + Base * (b + Base * (c + Base * (e + Base * t)))
  BY DEF Value
<1> HIDE DEF a, b, c, e
<1>3. \E r \in Nat : r < Base * Base * Base * Base /\ Value(x) = r + Base * Base * Base * Base * t
  <2> DEFINE r == a + Base * (b + Base * (c + Base * e))
  <2>1. r \in Nat /\ r < Base * Base * Base * Base
    BY <1>1 DEF Base
  <2>2. Value(x) = r + Base * Base * Base * Base * t
    BY <1>1, <1>2 DEF Base
  <2> QED
    BY <2>1, <2>2
<1> HIDE DEF t
<1>4. PICK r \in Nat : r < 10000000000000000 /\ Value(x) = r + 10000000000000000 * t
  BY <1>3 DEF Base
<1>5. (t < Base <=> Value(x) < 100000000000000000000)
      /\ (t >= 1000 <=> Value(x) >= 10000000000000000000)
  BY <1>1, <1>4 DEF Base
<1>6. Ten[19] = 10000000000000000000 /\ 10 * Ten[19] = 100000000000000000000
  BY DEF Ten
<1> QED
  BY <1>5, <1>6 DEF t

\* Without overflow, do_carry() only normalizes.
LEMMA DoCarryValue ==
  ASSUME NEW d, NEW m \in [Elements -> Nat], NEW e, NEW f, d = Float(m, e, f),
         Value(m) < 10 * Ten[19]
  PROVE  \E x \in Mantissas :
           /\ DoCarry(d) = Float(x, e, f) /\ Value(x) = Value(m)
           /\ x[5] >= 1000 <=> Value(m) >= Ten[19]
<1>1. PICK x \in [Elements -> Nat] : /\ Carry(d) = Float(x, e, f) /\ Value(x) = Value(m)
                                     /\ \A i \in 1 .. 4 : x[i] < Base
  BY CarryValue
<1>2. x[5] < Base /\ (x[5] >= 1000 <=> Value(m) >= Ten[19])
  BY <1>1, LastElement
<1>3. x \in Mantissas
  <2>1. \A i \in Elements : i = 5 \/ i \in 1 .. 4
    BY DEF Elements, Size
  <2>2. \A i \in Elements : x[i] \in Nat /\ x[i] < Base
    BY <1>1, <1>2, <2>1
  <2>3. \A y \in Nat : y < Base => y \in 0 .. Base - 1
    BY DEF Base
  <2>4. \A i \in Elements : x[i] \in 0 .. Base - 1
    BY <2>2, <2>3
  <2>5. x = [i \in Elements |-> x[i]]
    OBVIOUS
  <2> QED
    BY <2>4, <2>5 DEF Mantissas
<1>4. DoCarry(d) = Float(x, e, f)
  <2>1. Carry(d).mantissa = x
    BY <1>1 DEF Float
  <2> QED
    BY <1>1, <1>2, <2>1 DEF DoCarry, Size
<1> QED
  BY <1>1, <1>2, <1>3, <1>4
-----------------------------------------------------------------------------
\* The mantissa of n * x before the carry ...
LEMMA Scaled ==
  ASSUME NEW x \in Mantissas, NEW n \in {5, 10}
  PROVE  LET m == [i \in Elements |-> n * x[i]]
         IN m \in [Elements -> Nat] /\ Value(m) = n * Value(x)
<1> DEFINE m == [i \in Elements |-> n * x[i]]
<1>1. x[1] \in Nat /\ x[2] \in Nat /\ x[3] \in Nat /\ x[4] \in Nat /\ x[5] \in Nat
  BY MantissaElements
<1>2. \A i \in Elements : i \in {1, 2, 3, 4, 5}
  BY DEF Elements, Size
<1>3. \A k \in Nat : 5 * k \in Nat /\ 10 * k \in Nat
  OBVIOUS
<1>4. \A i \in Elements : n * x[i] \in Nat
  BY <1>1, <1>2, <1>3
<1>5. m[1] = n * x[1] /\ m[2] = n * x[2] /\ m[3] = n * x[3] /\ m[4] = n * x[4] /\ m[5] = n * x[5]
  BY DEF Elements, Size
<1>6. m \in [Elements -> Nat]
  BY <1>4
<1> HIDE DEF m
<1>7. Value(m) = n * Value(x)
  <2>1. CASE n = 5
    BY <1>1, <1>5, <2>1 DEF Value, Base
  <2>2. CASE n = 10
    BY <1>1, <1>5, <2>2 DEF Value, Base
  <2> QED
    BY <2>1, <2>2
<1> QED
  BY <1>6, <1>7 DEF m

\* ... and of x + y.
LEMMA Added ==
  ASSUME NEW x \in Mantissas, NEW y \in Mantissas
  PROVE  LET m == [i \in Elements |-> x[i] + y[i]]
         IN m \in [Elements -> Nat] /\ Value(m) = Value(x) + Value(y)
<1> DEFINE m == [i \in Elements |-> x[i] + y[i]]
<1>1. /\ x[1] \in Nat /\ x[2] \in Nat /\ x[3] \in Nat /\ x[4] \in Nat /\ x[5] \in Nat
      /\ y[1] \in Nat /\ y[2] \in Nat /\ y[3] \in Nat /\ y[4] \in Nat /\ y[5] \in Nat
  BY MantissaElements
<1>2. \A i \in Elements : i \in {1, 2, 3, 4, 5}
  BY DEF Elements, Size
<1>4. \A i \in Elements : x[i] + y[i] \in Nat
  BY <1>1, <1>2
<1>5. m[1] = x[1] + y[1] /\ m[2] = x[2] + y[2] /\ m[3] = x[3] + y[3] /\ m[4] = x[4] + y[4]
      /\ m[5] = x[5] + y[5]
  BY DEF Elements, Size
<1>6. m \in [Elements -> Nat]
  BY <1>4
<1> HIDE DEF m
<1>7. Value(m) = Value(x) + Value(y)
  BY <1>1, <1>5 DEF Value, Base
<1> QED
  BY <1>6, <1>7 DEF m

\* While there is room for its digits, a product is exact.
LEMMA TimesValue ==
  ASSUME NEW x \in Mantissas, NEW e, NEW f, NEW n \in {5, 10}, n * Value(x) < 10 * Ten[19]
  PROVE  \E y \in Mantissas :
           /\ Times(Float(x, e, f), n) = Float(y, e, f) /\ Value(y) = n * Value(x)
           /\ y[5] >= 1000 <=> n * Value(x) >= Ten[19]
<1> DEFINE m == [i \in Elements |-> n * x[i]]
           d == Float(m, e, f)
<1>1. m \in [Elements -> Nat] /\ Value(m) = n * Value(x)
  BY Scaled
<1>2. Times(Float(x, e, f), n) = DoCarry(d)
  BY DEF Times, Float
<1> HIDE DEF m
<1> QED
  BY <1>1, <1>2, DoCarryValue

\* So is a sum.
LEMMA PlusValue ==
  ASSUME NEW x \in Mantissas, NEW e, NEW f, NEW y \in Mantissas, NEW e2, NEW f2,
         Value(x) + Value(y) < 10 * Ten[19]
  PROVE  \E z \in Mantissas :
           /\ Plus(Float(x, e, f), Float(y, e2, f2)) = Float(z, e, f)
           /\ Value(z) = Value(x) + Value(y)
<1> DEFINE m == [i \in Elements |-> x[i] + y[i]]
           d == Float(m, e, f)
<1>1. m \in [Elements -> Nat] /\ Value(m) = Value(x) + Value(y)
  BY Added
<1>2. Plus(Float(x, e, f), Float(y, e2, f2)) = DoCarry(d)
  BY DEF Plus, Float
<1> HIDE DEF m
<1> QED
  BY <1>1, <1>2, DoCarryValue
-----------------------------------------------------------------------------
\* What an element and its half have to do with each other.
LEMMA Halves ==
  ASSUME NEW n \in Nat, n < Base
  PROVE  /\ n \div 2 \in Nat /\ n \div 2 < 5000 /\ (n % 2 = 0 \/ n % 2 = 1)
         /\ n = 2 * (n \div 2) + (n % 2)
  BY DEF Base

\* A half that is moved to the element below is 5000 there.
LEMMA HalvedMantissa ==
  ASSUME NEW x \in Mantissas
  PROVE  LET h == [i \in Elements |->
                     x[i] \div 2 + (IF i = Size THEN 0 ELSE x[i + 1] % 2) * (Base \div 2)]
         IN h \in Mantissas /\ 2 * Value(h) + (x[1] % 2) = Value(x)
<1> DEFINE h == [i \in Elements |->
                   x[i] \div 2 + (IF i = Size THEN 0 ELSE x[i + 1] % 2) * (Base \div 2)]
           q1 == x[1] \div 2  q2 == x[2] \div 2  q3 == x[3] \div 2  q4 == x[4] \div 2  q5 == x[5] \div 2
           p1 == x[1] % 2     p2 == x[2] % 2     p3 == x[3] % 2     p4 == x[4] % 2     p5 == x[5] % 2
<1>1. /\ x[1] \in Nat /\ x[2] \in Nat /\ x[3] \in Nat /\ x[4] \in Nat /\ x[5] \in Nat
      /\ x[1] < Base /\ x[2] < Base /\ x[3] < Base /\ x[4] < Base /\ x[5] < Base
  BY MantissaElements
<1>2. /\ q1 \in Nat /\ q1 < 5000 /\ (p1 = 0 \/ p1 = 1) /\ x[1] = 2 * q1 + p1
      /\ q2 \in Nat /\ q2 < 5000 /\ (p2 = 0 \/ p2 = 1) /\ x[2] = 2 * q2 + p2
      /\ q3 \in Nat /\ q3 < 5000 /\ (p3 = 0 \/ p3 = 1) /\ x[3] = 2 * q3 + p3
      /\ q4 \in Nat /\ q4 < 5000 /\ (p4 = 0 \/ p4 = 1) /\ x[4] = 2 * q4 + p4
      /\ q5 \in Nat /\ q5 < 5000 /\ (p5 = 0 \/ p5 = 1) /\ x[5] = 2 * q5 + p5
  BY <1>1, Halves
<1>3. Base \div 2 = 5000
  BY DEF Base
<1>4. /\ h[1] = q1 + p2 * 5000 /\ h[2] = q2 + p3 * 5000 /\ h[3] = q3 + p4 * 5000
      /\ h[4] = q4 + p5 * 5000 /\ h[5] = q5 + 0 * 5000
  <2>1. h = [i \in Elements |-> x[i] \div 2 + (IF i = Size THEN 0 ELSE x[i + 1] % 2) * 5000]
    BY <1>3
  <2>2. 1 \in Elements /\ 2 \in Elements /\ 3 \in Elements /\ 4 \in Elements /\ 5 \in Elements
    BY DEF Elements, Size
  <2> HIDE DEF h
  <2>3. \A i \in Elements : h[i] = x[i] \div 2 + (IF i = Size THEN 0 ELSE x[i + 1] % 2) * 5000
    BY <2>1
  <2>4. 1 + 1 = 2 /\ 2 + 1 = 3 /\ 3 + 1 = 4 /\ 4 + 1 = 5
        /\ 1 # Size /\ 2 # Size /\ 3 # Size /\ 4 # Size /\ 5 = Size
    BY DEF Size
  <2>5. h[1] = q1 + p2 * 5000
    BY <2>2, <2>3, <2>4
  <2>6. h[2] = q2 + p3 * 5000
    BY <2>2, <2>3, <2>4
  <2>7. h[3] = q3 + p4 * 5000
    BY <2>2, <2>3, <2>4
  <2>8. h[4] = q4 + p5 * 5000
    BY <2>2, <2>3, <2>4
  <2>9. h[5] = q5 + 0 * 5000
    BY <2>2, <2>3, <2>4
  <2> QED
    BY <2>5, <2>6, <2>7, <2>8, <2>9
<1> HIDE DEF q1, q2, q3, q4, q5, p1, p2, p3, p4, p5
<1>5. /\ h[1] \in Nat /\ h[2] \in Nat /\ h[3] \in Nat /\ h[4] \in Nat /\ h[5] \in Nat
      /\ h[1] < Base /\ h[2] < Base /\ h[3] < Base /\ h[4] < Base /\ h[5] < Base
  <2> HIDE DEF h
  <2>1. \A q \in Nat : q < 5000 => /\ q + 0 * 5000 \in Nat /\ q + 0 * 5000 < Base
                                   /\ q + 1 * 5000 \in Nat /\ q + 1 * 5000 < Base
    BY DEF Base
  <2> QED
    BY <1>2, <1>4, <2>1
<1>6. h \in Mantissas
  <2>1. \A i \in Elements : i \in {1, 2, 3, 4, 5}
    BY DEF Elements, Size
  <2>2. DOMAIN h = Elements /\ h = [i \in DOMAIN h |-> h[i]]
    OBVIOUS
  <2> HIDE DEF h
  <2>3. \A y \in Nat : y < Base => y \in 0 .. Base - 1
    BY DEF Base
  <2>4. \A i \in Elements : h[i] \in 0 .. Base - 1
    BY <1>5, <2>1, <2>3
  <2> QED
    BY <2>2, <2>4 DEF Mantissas
<1>7. 2 * Value(h) + p1 = Value(x)
  <2> HIDE DEF h
  <2> DEFINE u4 == h[4] + Base * h[5]  v4 == x[4] + Base * x[5]
             u3 == h[3] + Base * u4    v3 == x[3] + Base * v4
             u2 == h[2] + Base * u3    v2 == x[2] + Base * v3
             u1 == h[1] + Base * u2    v1 == x[1] + Base * v2
  <2>1. p1 \in Nat /\ p2 \in Nat /\ p3 \in Nat /\ p4 \in Nat /\ p5 \in Nat
    BY <1>2
  <2>2. 2 * h[5] + p5 = x[5] /\ h[5] \in Nat /\ x[5] \in Nat
    BY <1>1, <1>2, <1>4, <1>5, <2>1
  <2>3. 2 * u4 + p4 = v4 /\ u4 \in Nat /\ v4 \in Nat
    <3>1. h[4] = q4 + p5 * 5000 /\ x[4] = 2 * q4 + p4 /\ q4 \in Nat /\ p4 \in Nat /\ p5 \in Nat
      BY <1>2, <1>4, <2>1
    <3> QED
      BY <2>2, <3>1 DEF Base
  <2> HIDE DEF u4, v4
  <2>4. 2 * u3 + p3 = v3 /\ u3 \in Nat /\ v3 \in Nat
    <3>1. h[3] = q3 + p4 * 5000 /\ x[3] = 2 * q3 + p3 /\ q3 \in Nat /\ p3 \in Nat /\ p4 \in Nat
      BY <1>2, <1>4, <2>1
    <3> QED
      BY <2>3, <3>1 DEF Base
  <2> HIDE DEF u3, v3
  <2>5. 2 * u2 + p2 = v2 /\ u2 \in Nat /\ v2 \in Nat
    <3>1. h[2] = q2 + p3 * 5000 /\ x[2] = 2 * q2 + p2 /\ q2 \in Nat /\ p2 \in Nat /\ p3 \in Nat
      BY <1>2, <1>4, <2>1
    <3> QED
      BY <2>4, <3>1 DEF Base
  <2> HIDE DEF u2, v2
  <2>6. 2 * u1 + p1 = v1
    <3>1. h[1] = q1 + p2 * 5000 /\ x[1] = 2 * q1 + p1 /\ q1 \in Nat /\ p1 \in Nat /\ p2 \in Nat
      BY <1>2, <1>4, <2>1
    <3> QED
      BY <2>5, <3>1 DEF Base
  <2> QED
    BY <2>6 DEF Value, u1, u2, u3, u4, v1, v2, v3, v4
<1> QED
  BY <1>6, <1>7 DEF h, p1

\* The rounding of a half adds one to the value.
LEMMA OneAdded ==
  ASSUME NEW x \in Mantissas
  PROVE  LET m == [x EXCEPT ![1] = @ + 1]
         IN m \in [Elements -> Nat] /\ Value(m) = Value(x) + 1
<1> DEFINE m == [x EXCEPT ![1] = @ + 1]
<1>1. x[1] \in Nat /\ x[2] \in Nat /\ x[3] \in Nat /\ x[4] \in Nat /\ x[5] \in Nat
  BY MantissaElements
<1>2. \A i \in Elements : i \in {1, 2, 3, 4, 5}
  BY DEF Elements, Size
<1>3. DOMAIN x = Elements /\ 1 \in Elements /\ 2 \in Elements /\ 3 \in Elements /\ 4 \in Elements
      /\ 5 \in Elements
  BY DEF Mantissas, Elements, Size
<1>4. m[1] = x[1] + 1 /\ m[2] = x[2] /\ m[3] = x[3] /\ m[4] = x[4] /\ m[5] = x[5]
  BY <1>3
<1>5. DOMAIN m = Elements /\ m = [i \in DOMAIN m |-> m[i]]
  BY <1>3
<1> HIDE DEF m
<1>6. m[1] \in Nat /\ m[2] \in Nat /\ m[3] \in Nat /\ m[4] \in Nat /\ m[5] \in Nat
  BY <1>1, <1>4
<1>7. \A i \in Elements : m[i] \in Nat
  BY <1>2, <1>6
<1>8. Value(m) = Value(x) + 1
  BY <1>1, <1>4 DEF Value, Base
<1>9. m \in [Elements -> Nat]
  BY <1>5, <1>7
<1> QED
  BY <1>8, <1>9 DEF m

\* A mantissa has 20 digits at most.
LEMMA MantissaValue ==
  ASSUME NEW x \in Mantissas
  PROVE  x \in [Elements -> Nat] /\ Value(x) \in Nat /\ Value(x) < 10 * Ten[19]
<1>1. x \in [Elements -> Nat]
  <2>1. \A y \in 0 .. Base - 1 : y \in Nat
    BY DEF Base
  <2> QED
    BY <2>1 DEF Mantissas
<1>2. x[1] < Base /\ x[2] < Base /\ x[3] < Base /\ x[4] < Base /\ x[5] < Base
  BY MantissaElements
<1>3. \A i \in 1 .. 4 : i = 1 \/ i = 2 \/ i = 3 \/ i = 4
  OBVIOUS
<1> QED
  BY <1>1, <1>2, <1>3, LastElement, ValueIsNat

\* Without decrement of the exponent, divide_by_two() rounds up and keeps the exponent.
LEMMA HalvedValue ==
  ASSUME NEW x \in Mantissas, NEW e, NEW f \in BOOLEAN
  PROVE  \E y \in Mantissas, g \in BOOLEAN :
           /\ Halved(Float(x, e, f)) = Float(y, e, g)
           /\ 2 * Value(y) <= Value(x) + 1
<1> DEFINE h == [i \in Elements |->
                   x[i] \div 2 + (IF i = Size THEN 0 ELSE x[i + 1] % 2) * (Base \div 2)]
           g == f /\ x[Size] \div 2 >= 1000
           m == [h EXCEPT ![1] = @ + 1]
<1>1. h \in Mantissas /\ 2 * Value(h) + (x[1] % 2) = Value(x)
  BY HalvedMantissa
<1>2. Halved(Float(x, e, f)) = IF x[1] % 2 = 0 THEN Float(h, e, g) ELSE DoCarry(Float(m, e, g))
  BY DEF Halved, Float
<1>3. x[1] % 2 = 0 \/ x[1] % 2 = 1
  BY MantissaElements, Halves
<1>4. g \in BOOLEAN
  OBVIOUS
<1>5. Value(x) \in Nat /\ Value(x) < 10 * Ten[19]
  BY MantissaValue
<1> HIDE DEF h, g
<1>6. Value(h) \in Nat
  BY <1>1, MantissaValue
<1>7. CASE x[1] % 2 = 0
  <2>1. 2 * Value(h) <= Value(x) + 1
    BY <1>1, <1>5, <1>6, <1>7
  <2> QED
    BY <1>1, <1>2, <1>4, <1>7, <2>1
<1>8. CASE x[1] % 2 = 1
  <2>1. m \in [Elements -> Nat] /\ Value(m) = Value(h) + 1
    BY <1>1, OneAdded
  <2> HIDE DEF m
  <2>2. Ten[19] = 10000000000000000000
    BY DEF Ten
  <2>3. Value(m) < 10 * Ten[19] /\ 2 * Value(m) <= Value(x) + 1
    BY <1>1, <1>5, <1>6, <1>8, <2>1, <2>2
  <2>4. PICK y \in Mantissas : DoCarry(Float(m, e, g)) = Float(y, e, g) /\ Value(y) = Value(m)
    BY <2>1, <2>3, DoCarryValue
  <2>5. Halved(Float(x, e, f)) = Float(y, e, g)
    BY <1>2, <1>8, <2>4
  <2> QED
    BY <1>4, <2>3, <2>4, <2>5
<1> QED
  BY <1>3, <1>7, <1>8
-----------------------------------------------------------------------------
(***************************************************************************)
(* An iteration of the loop over the bits of the fraction.                 *)
(***************************************************************************)
\* The powers of ten in Ten.
LEMMA PowersOfTen ==
  ASSUME NEW n \in 1 .. 18
  PROVE  /\ Ten[n] \in Nat /\ Ten[n + 1] = 10 * Ten[n] /\ 10 * Ten[n] <= Ten[19]
         /\ n < 18 => 100 * Ten[n] <= Ten[19]
         /\ n + 1 = 19 \/ n + 1 \in 1 .. 18
  BY DEF Ten

\* A number is made of its parts ...
LEMMA Parts ==
  ASSUME NEW d \in Floats
  PROVE  /\ d = Float(d.mantissa, d.exponent, d.full)
         /\ d.mantissa \in Mantissas /\ d.exponent \in Int /\ d.full \in BOOLEAN
  BY DEF Floats, Float

\* ... and parts make a number.
LEMMA FloatType ==
  ASSUME NEW m \in Mantissas, NEW e \in Int, NEW f \in BOOLEAN
  PROVE  Float(m, e, f) \in Floats
  BY DEF Floats, Float

\* Room for the term once more, behind the addition.
FitsAdded(sum, term, added) ==
  IF sum.full
  THEN Value(sum.mantissa) + Value(term.mantissa) <= 2 * Ten[19] + added
  ELSE \E n \in 1 .. 18 : /\ sum.exponent = -n
                          /\ Ten[n] <= Value(sum.mantissa)
                          /\ Value(sum.mantissa) + Value(term.mantissa) <= 2 * Ten[n]

\* The bit of the fraction is added, or not.
LEMMA Addition ==
  ASSUME NEW a \in Floats, NEW t \in Floats, a.exponent = t.exponent, NEW k \in 0 .. 63,
         Fits(a, t, k), NEW s, s = a \/ s = Plus(a, t)
  PROVE  s \in Floats /\ s.exponent = t.exponent /\ s.full = a.full /\ FitsAdded(s, t, k)
<1> DEFINE v == Value(a.mantissa)
           w == Value(t.mantissa)
<1>1. v \in Nat /\ w \in Nat
  BY Parts, MantissaValue
<1>2. Ten[19] = 10000000000000000000
  BY DEF Ten
<1> HIDE DEF v, w
<1>3. v + w < 10 * Ten[19]
  <2>1. CASE a.full
    <3>1. v + 2 * w <= 2 * Ten[19] + k
      BY <2>1 DEF Fits, v, w
    <3> QED
      BY <1>1, <1>2, <3>1
  <2>2. CASE ~a.full
    <3>1. PICK n \in 1 .. 18 : v + 2 * w <= 2 * Ten[n]
      BY <2>2 DEF Fits, v, w
    <3>2. Ten[n] \in Nat /\ 10 * Ten[n] <= Ten[19]
      BY PowersOfTen
    <3> QED
      BY <1>1, <1>2, <3>1, <3>2
  <2> QED
    BY <2>1, <2>2
<1>4. \E x \in Mantissas : s = Float(x, a.exponent, a.full) /\ (Value(x) = v \/ Value(x) = v + w)
  <2>1. CASE s = a
    BY <2>1, Parts DEF v
  <2>2. CASE s = Plus(a, t)
    <3>1. /\ a = Float(a.mantissa, a.exponent, a.full) /\ a.mantissa \in Mantissas
          /\ t = Float(t.mantissa, t.exponent, t.full) /\ t.mantissa \in Mantissas
      BY Parts
    <3>2. \E z \in Mantissas :
            /\ Plus(Float(a.mantissa, a.exponent, a.full), Float(t.mantissa, t.exponent, t.full))
                 = Float(z, a.exponent, a.full)
            /\ Value(z) = Value(a.mantissa) + Value(t.mantissa)
      BY <1>3, <3>1, PlusValue DEF v, w
    <3> QED
      BY <2>2, <3>1, <3>2 DEF v, w
  <2> QED
    BY <2>1, <2>2
<1>5. PICK x \in Mantissas : s = Float(x, a.exponent, a.full)
                             /\ (Value(x) = v \/ Value(x) = v + w)
  BY <1>4
<1>6. s \in Floats /\ s.exponent = t.exponent /\ s.full = a.full
  BY <1>5, Parts, FloatType DEF Float
<1>7. s.mantissa = x /\ s.exponent = a.exponent
  BY <1>5 DEF Float
<1>8. FitsAdded(s, t, k)
  <2>1. CASE a.full
    <3>1. v + 2 * w <= 2 * Ten[19] + k
      BY <2>1 DEF Fits, v, w
    <3>2. Value(x) + w <= 2 * Ten[19] + k
      BY <1>1, <1>2, <1>5, <3>1
    <3> QED
      BY <1>6, <1>7, <2>1, <3>2 DEF FitsAdded, w
  <2>2. CASE ~a.full
    <3>1. PICK n \in 1 .. 18 : a.exponent = -n /\ Ten[n] <= v /\ v + 2 * w <= 2 * Ten[n]
      BY <2>2 DEF Fits, v, w
    <3>2. Ten[n] \in Nat
      BY PowersOfTen
    <3>3. Ten[n] <= Value(x) /\ Value(x) + w <= 2 * Ten[n]
      BY <1>1, <1>5, <3>1, <3>2
    <3> QED
      BY <1>6, <1>7, <2>2, <3>1, <3>3 DEF FitsAdded, w
  <2> QED
    BY <2>1, <2>2
<1> QED
  BY <1>6, <1>8

\* max_precision_reached is not set yet: the exponents of both are decremented.
LEMMA Decrement ==
  ASSUME NEW s \in Floats, NEW t \in Floats, s.exponent = t.exponent, NEW k \in 0 .. 63,
         FitsAdded(s, t, k), ~s.full
  PROVE  LET a == DecrementExponent(s)
             b == DivideByTwo(t, TRUE)
         IN a \in Floats /\ b \in Floats /\ a.exponent = b.exponent /\ Fits(a, b, k)
<1> DEFINE v == Value(s.mantissa)
           w == Value(t.mantissa)
           e == s.exponent
<1>1. v \in Nat /\ w \in Nat
  BY Parts, MantissaValue
<1>2. Ten[19] \in Nat /\ 1 <= Ten[19]
  BY DEF Ten
<1> HIDE DEF v, w
<1>3. PICK n \in 1 .. 18 : e = -n /\ Ten[n] <= v /\ v + w <= 2 * Ten[n]
  BY DEF FitsAdded, v, w
<1>4. /\ Ten[n] \in Nat /\ Ten[n + 1] = 10 * Ten[n] /\ 10 * Ten[n] <= Ten[19]
      /\ n < 18 => 100 * Ten[n] <= Ten[19]
      /\ n + 1 = 19 \/ n + 1 \in 1 .. 18
  BY PowersOfTen
<1>5. 10 * v < 10 * Ten[19] /\ 5 * w < 10 * Ten[19]
  BY <1>1, <1>2, <1>3, <1>4
<1>6. /\ s = Float(s.mantissa, e, s.full) /\ s.mantissa \in Mantissas
      /\ t = Float(t.mantissa, e, t.full) /\ t.mantissa \in Mantissas
      /\ e \in Int /\ t.full \in BOOLEAN
  BY Parts
<1>7. PICK x \in Mantissas : /\ Times(Float(s.mantissa, e, s.full), 10) = Float(x, e, s.full)
                             /\ Value(x) = 10 * v
                             /\ x[5] >= 1000 <=> 10 * v >= Ten[19]
  <2>1. 10 * Value(s.mantissa) < 10 * Ten[19] /\ 10 \in {5, 10}
    BY <1>5 DEF v
  <2> QED
    BY <1>6, <2>1, TimesValue DEF v
<1>8. PICK y \in Mantissas : /\ Times(Float(t.mantissa, e, t.full), 5) = Float(y, e, t.full)
                             /\ Value(y) = 5 * w
  <2>1. 5 * Value(t.mantissa) < 10 * Ten[19] /\ 5 \in {5, 10}
    BY <1>5 DEF w
  <2> QED
    BY <1>6, <2>1, TimesValue DEF w
<1> DEFINE g == x[Size] >= 1000
<1>9. DecrementExponent(s) = Float(x, e - 1, g)
  <2>1. Times(s, 10) = Float(x, e, s.full)
    BY <1>6, <1>7
  <2> QED
    BY <2>1 DEF DecrementExponent, Float
<1>10. DivideByTwo(t, TRUE) = Float(y, e - 1, t.full)
  <2>1. Times(t, 5) = Float(y, e, t.full)
    BY <1>6, <1>8
  <2> QED
    BY <2>1 DEF DivideByTwo, Float
<1>11. g \in BOOLEAN /\ (g <=> 10 * v >= Ten[19])
  BY <1>7 DEF Size
<1> HIDE DEF g, e
<1>12. e - 1 \in Int /\ e - 1 = -(n + 1)
  BY <1>3, <1>6
<1>13. Float(x, e - 1, g) \in Floats /\ Float(y, e - 1, t.full) \in Floats
  BY <1>6, <1>11, <1>12, FloatType
<1>14. 10 * Ten[n] <= Value(x) /\ Value(x) + 2 * Value(y) <= 20 * Ten[n]
  BY <1>1, <1>3, <1>4, <1>7, <1>8
<1>15. IF g THEN Value(x) + 2 * Value(y) <= 2 * Ten[19] + k
            ELSE /\ n + 1 \in 1 .. 18 /\ Ten[n + 1] <= Value(x)
                 /\ Value(x) + 2 * Value(y) <= 2 * Ten[n + 1]
  <2>1. CASE g
    <3>1. 20 * Ten[n] <= 2 * Ten[19]
      BY <1>2, <1>4
    <3>2. Value(x) \in Nat /\ Value(y) \in Nat
      BY MantissaValue
    <3> QED
      BY <1>2, <1>4, <1>14, <2>1, <3>1, <3>2
  <2>2. CASE ~g
    <3>1. 10 * v < Ten[19]
      BY <1>1, <1>2, <1>11, <2>2
    <3>2. n + 1 # 19
      BY <1>1, <1>3, <1>4, <3>1
    <3>3. Value(x) + 2 * Value(y) <= 2 * Ten[n + 1]
      <4>1. 20 * Ten[n] = 2 * Ten[n + 1]
        BY <1>4
      <4> QED
        BY <1>14, <4>1
    <3> QED
      BY <1>4, <1>14, <2>2, <3>2, <3>3
  <2> QED
    BY <2>1, <2>2
<1>16. Fits(Float(x, e - 1, g), Float(y, e - 1, t.full), k)
  <2> DEFINE a == Float(x, e - 1, g)
             b == Float(y, e - 1, t.full)
  <2>1. a.mantissa = x /\ a.exponent = e - 1 /\ a.full = g /\ b.mantissa = y
    BY DEF Float
  <2> HIDE DEF a, b
  <2>2. Fits(a, b, k)
    <3>1. CASE g
      BY <1>15, <2>1, <3>1 DEF Fits
    <3>2. CASE ~g
      <4>1. /\ n + 1 \in 1 .. 18 /\ a.exponent = -(n + 1) /\ Ten[n + 1] <= Value(a.mantissa)
            /\ Value(a.mantissa) + 2 * Value(b.mantissa) <= 2 * Ten[n + 1]
        BY <1>12, <1>15, <2>1, <3>2
      <4> HIDE DEF Fits
      <4>2. ~a.full
        BY <2>1, <3>2
      <4> QED
        BY <4>1, <4>2 DEF Fits
    <3> QED
      BY <3>1, <3>2
  <2> QED
    BY <2>2 DEF a, b
<1>17. Float(x, e - 1, g).exponent = Float(y, e - 1, t.full).exponent
  BY DEF Float
<1> QED
  BY <1>9, <1>10, <1>13, <1>16, <1>17

\* It is set: the exponents stay and the mantissa of the term is halved.
LEMMA Stay ==
  ASSUME NEW s \in Floats, NEW t \in Floats, s.exponent = t.exponent, NEW k \in 0 .. 63,
         FitsAdded(s, t, k), s.full
  PROVE  LET b == DivideByTwo(t, FALSE)
         IN b \in Floats /\ s.exponent = b.exponent /\ Fits(s, b, k + 1)
<1> DEFINE v == Value(s.mantissa)
           w == Value(t.mantissa)
<1>1. v \in Nat /\ w \in Nat
  BY Parts, MantissaValue
<1>2. Ten[19] \in Nat
  BY DEF Ten
<1>3. /\ t = Float(t.mantissa, t.exponent, t.full) /\ t.mantissa \in Mantissas
      /\ t.exponent \in Int /\ t.full \in BOOLEAN
  BY Parts
<1>4. \E y \in Mantissas, g \in BOOLEAN :
        Halved(Float(t.mantissa, t.exponent, t.full)) = Float(y, t.exponent, g) /\ 2 * Value(y) <= w + 1
  BY <1>3, HalvedValue
<1>5. PICK y \in Mantissas, g \in BOOLEAN :
        Halved(Float(t.mantissa, t.exponent, t.full)) = Float(y, t.exponent, g) /\ 2 * Value(y) <= w + 1
  BY <1>4
<1>6. DivideByTwo(t, FALSE) = Float(y, t.exponent, g)
  BY <1>3, <1>5 DEF DivideByTwo
<1>7. v + w <= 2 * Ten[19] + k
  BY DEF FitsAdded
<1> HIDE DEF v, w
<1>8. v + 2 * Value(y) <= 2 * Ten[19] + (k + 1)
  <2>1. Value(y) \in Nat
    BY MantissaValue
  <2> QED
    BY <1>1, <1>2, <1>5, <1>7, <2>1
<1>9. Float(y, t.exponent, g).mantissa = y /\ Float(y, t.exponent, g).exponent = t.exponent
  BY DEF Float
<1>10. Float(y, t.exponent, g) \in Floats
  BY <1>3, FloatType
<1>11. Fits(s, Float(y, t.exponent, g), k + 1)
  BY <1>8, <1>9 DEF Fits, v
<1> QED
  BY <1>6, <1>9, <1>10, <1>11
-----------------------------------------------------------------------------
(***************************************************************************)
(* The invariant.                                                          *)
(***************************************************************************)
\* A loop over the fraction has less than 63 iterations.
LEMMA FractionLength ==
  ASSUME NEW bits \in Numbers
  PROVE  Len(FractionBits(bits)) \in Nat /\ Len(FractionBits(bits)) < 63
<1>1. bits \in Seq({0, 1}) /\ (Len(bits) = 32 \/ Len(bits) = 64)
  BY NumbersAssumption
<1>2. CASE Len(bits) = 32
  <2>1. FractionBits(bits) = SubSeq(bits, 10, 32)
    BY <1>2 DEF FractionBits, NbitsExponent
  <2> QED
    BY <1>1, <1>2, <2>1
<1>3. CASE Len(bits) = 64
  <2>1. FractionBits(bits) = SubSeq(bits, 13, 64)
    BY <1>3 DEF FractionBits, NbitsExponent
  <2> QED
    BY <1>1, <1>3, <2>1
<1> QED
  BY <1>1, <1>2, <1>3

\* At first the sum is 10 and the bit 5, both times 10^-1.
LEMMA InitInv == FInit => IInv
<1> SUFFICES ASSUME NEW bits \in Numbers, Begin(bits), Normalized(number)
             PROVE  /\ number \in Numbers
                    /\ bitCount \in 0 .. 63
                    /\ result \in Floats /\ bit \in Floats
                    /\ result.exponent = bit.exponent
                    /\ Fits(result, bit, bitCount)
  BY DEF FInit, IInv
<1>1. number = bits /\ bitCount = 0 /\ result = One /\ bit = Half
  BY DEF Begin
<1> DEFINE x == <<10, 0, 0, 0, 0>>
           y == <<5, 0, 0, 0, 0>>
<1>2. x \in Mantissas /\ y \in Mantissas
  <2>1. 10 \in 0 .. Base - 1 /\ 5 \in 0 .. Base - 1 /\ 0 \in 0 .. Base - 1
    BY DEF Base
  <2> DEFINE z == 0 .. Base - 1
  <2> HIDE DEF z
  <2>2. 10 \in z /\ 5 \in z /\ 0 \in z
    BY <2>1 DEF z
  <2>3. <<10, 0, 0, 0, 0>> \in [1 .. 5 -> z] /\ <<5, 0, 0, 0, 0>> \in [1 .. 5 -> z]
    BY <2>2
  <2> QED
    BY <2>3 DEF Mantissas, Elements, Size, z
<1>3. Value(x) = 10 /\ Value(y) = 5
  BY DEF Value, Base
<1>4. /\ One.mantissa = x /\ One.exponent = -1 /\ One.full = FALSE
      /\ Half.mantissa = y /\ Half.exponent = -1
  BY DEF One, Half, Float
<1>5. One \in Floats /\ Half \in Floats
  BY <1>2 DEF One, Half, Float, Floats
<1> HIDE DEF x, y
<1>6. Fits(One, Half, 0)
  <2>1. Ten[1] = 10 /\ 1 \in 1 .. 18
    BY DEF Ten
  <2>2. One.exponent = -1 /\ Ten[1] <= Value(One.mantissa)
        /\ Value(One.mantissa) + 2 * Value(Half.mantissa) <= 2 * Ten[1]
    BY <1>3, <1>4, <2>1
  <2> QED
    BY <1>4, <2>1, <2>2 DEF Fits
<1> QED
  BY <1>1, <1>4, <1>5, <1>6

\* With the exponents of both decremented, or neither.
LEMMA AddBitInv ==
  ASSUME IInv, AddBit
  PROVE  IInv'
<1> SUFFICES ASSUME stage' = "sum", Normalized(number)'
             PROVE  /\ number' \in Numbers
                    /\ bitCount' \in 0 .. 63
                    /\ result' \in Floats /\ bit' \in Floats
                    /\ result'.exponent = bit'.exponent
                    /\ Fits(result', bit', bitCount')
  BY DEF IInv
<1>1. number' = number /\ Normalized(number)
  BY DEF AddBit, Normalized, AllZeros, ExponentBits, NbitsExponent
<1>2. /\ number \in Numbers
      /\ bitCount \in 0 .. 63
      /\ result \in Floats /\ bit \in Floats
      /\ result.exponent = bit.exponent
      /\ Fits(result, bit, bitCount)
  BY <1>1 DEF IInv, AddBit
<1> DEFINE fraction == FractionBits(number)
           sum == IF fraction[bitCount + 1] = 1 THEN Plus(result, bit) ELSE result
<1>3. bitCount + 1 < Len(fraction) /\ bitCount' = bitCount + 1
  BY DEF AddBit
<1>4. bitCount' \in 0 .. 63
  BY <1>2, <1>3, FractionLength
<1>5. sum = result \/ sum = Plus(result, bit)
  OBVIOUS
<1>6. /\ result' = IF CanDecrement(sum) THEN DecrementExponent(sum) ELSE sum
      /\ bit' = DivideByTwo(bit, CanDecrement(sum))
  BY DEF AddBit
<1> HIDE DEF sum
<1>7. sum \in Floats /\ sum.exponent = bit.exponent /\ FitsAdded(sum, bit, bitCount)
  BY <1>2, <1>5, Addition
<1>8. CASE ~sum.full
  <2>1. CanDecrement(sum) = TRUE
    BY <1>8 DEF CanDecrement
  <2>2. result' = DecrementExponent(sum) /\ bit' = DivideByTwo(bit, TRUE)
    BY <1>6, <2>1
  <2>3. result' \in Floats /\ bit' \in Floats /\ result'.exponent = bit'.exponent
        /\ Fits(result', bit', bitCount)
    BY <1>2, <1>7, <1>8, <2>2, Decrement
  <2>4. Fits(result', bit', bitCount + 1)
    <3>1. \A v, w : v \in Nat /\ w \in Nat /\ v + 2 * w <= 2 * Ten[19] + bitCount
                      => v + 2 * w <= 2 * Ten[19] + (bitCount + 1)
      BY <1>2 DEF Ten
    <3>2. Value(result'.mantissa) \in Nat /\ Value(bit'.mantissa) \in Nat
      BY <2>3, Parts, MantissaValue
    <3> QED
      BY <2>3, <3>1, <3>2 DEF Fits
  <2> QED
    BY <1>1, <1>2, <1>3, <1>4, <2>3, <2>4
<1>9. CASE sum.full
  <2>1. CanDecrement(sum) = FALSE
    BY <1>9 DEF CanDecrement
  <2>2. result' = sum /\ bit' = DivideByTwo(bit, FALSE)
    BY <1>6, <2>1
  <2>3. bit' \in Floats /\ sum.exponent = bit'.exponent /\ Fits(sum, bit', bitCount + 1)
    BY <1>2, <1>7, <1>9, <2>2, Stay
  <2> QED
    BY <1>1, <1>2, <1>3, <1>4, <1>7, <2>2, <2>3
<1> QED
  BY <1>8, <1>9

\* The other steps are behind the sum.
LEMMA NextInv == IInv /\ [FNext]_fvars => IInv'
<1> SUFFICES ASSUME IInv, [FNext]_fvars
             PROVE  IInv'
  OBVIOUS
<1>1. CASE AddBit
  BY <1>1, AddBitInv
<1>2. CASE RaisePower
  <2>1. stage' # "sum"
    BY <1>2 DEF RaisePower
  <2> QED
    BY <2>1 DEF IInv
<1>3. CASE PrintNumber
  <2>1. stage' # "sum"
    BY <1>3 DEF PrintNumber
  <2> QED
    BY <2>1 DEF IInv
<1>4. CASE Compare
  <2>1. stage' # "sum"
    BY <1>4 DEF Compare
  <2> QED
    BY <2>1 DEF IInv
<1>5. CASE UNCHANGED fvars
  BY <1>5 DEF IInv, fvars, Fits, Normalized, AllZeros, ExponentBits, NbitsExponent
<1> QED
  BY <1>1, <1>2, <1>3, <1>4, <1>5 DEF FNext

\* While the bits of a normal number are added the sum has its 20 digits, or
\* the exponents are those of the bits added so far, and nothing overflows.
THEOREM Inductive == FSpec => []IInv
<1>1. FInit => IInv
  BY InitInv
<1>2. IInv /\ [FNext]_fvars => IInv'
  BY NextInv
<1> QED
  BY <1>1, <1>2, PTL DEF FSpec

\* Of every normal number, of 32 or 64 bits, print_IEEE_fp() adds only
\* mantissas that have the same exponent.
THEOREM NormalNumbersAddUp == FSpec => [](Normalized(number) => SameExponent)
<1>1. IInv => (Normalized(number) => SameExponent)
  BY DEF IInv, SameExponent
<1> QED
  BY <1>1, Inductive, PTL
=============================================================================
