-------------------------- MODULE SymbolTables_proofs --------------------------
(***************************************************************************)
(* For any number of threads, addresses and symbols, and whatever the      *)
(* symbols of the file are: the table stays a set of disjoint fragments,   *)
(* a lookup finds what covers an address, what it found stays, and every   *)
(* address belongs to the best symbol (AddressOwners).                     *)
(***************************************************************************)
EXTENDS SymbolTables, WellFoundedInduction, TLAPS

Contains(r, a) == r.start <= a /\ a < r.end

\* T is a set of fragments of symbols that do not overlap.
Extents(T) == \A r \in T : r.symbol.start <= r.start /\ r.start < r.end /\ r.end <= r.symbol.end
Disjoint(T) == \A r, q \in T : r # q => r.end <= q.start \/ q.end <= r.start
WellFormed(T) == T \subseteq Ranges /\ Extents(T) /\ Disjoint(T)
-----------------------------------------------------------------------------
(***************************************************************************)
(* Sets of numbers: the end points between which a piece is cut.           *)
(***************************************************************************)

LEMMA Smallest ==
  ASSUME NEW S \in SUBSET Nat, S # {}
  PROVE  \E n \in S : \A m \in S : n <= m
<1>1. \E n \in S : \A m \in S : ~ (<<m, n>> \in OpToRel(<, Nat))
  BY NatLessThanWellFounded, WFMin, Zenon
<1>2. PICK n \in S : \A m \in S : ~ (<<m, n>> \in OpToRel(<, Nat))
  BY <1>1
<1>3. ASSUME NEW m \in S PROVE n <= m
  <2>1. ~ (<<m, n>> \in {ss \in Nat \X Nat : ss[1] < ss[2]})
    BY <1>2, <1>3 DEF OpToRel
  <2>2. <<m, n>> \in Nat \X Nat /\ <<m, n>>[1] = m /\ <<m, n>>[2] = n
    OBVIOUS
  <2> QED
    BY <2>1, <2>2
<1> QED
  BY <1>3

LEMMA Largest ==
  ASSUME NEW e \in Nat, NEW S \in SUBSET (0 .. e), S # {}
  PROVE  \E n \in S : \A m \in S : m <= n
<1> DEFINE T == {k \in 0 .. e : e - k \in S}
<1>1. \A m \in S : e - m \in 0 .. e /\ e - (e - m) = m
  OBVIOUS
<1>2. \A m \in S : e - m \in T
  BY <1>1
<1>3. T \in SUBSET Nat /\ T # {}
  <2>1. T \in SUBSET Nat
    OBVIOUS
  <2>2. PICK m \in S : TRUE
    OBVIOUS
  <2> QED
    BY <1>2, <2>1, <2>2
<1>4. PICK k \in T : \A m \in T : k <= m
  BY <1>3, Smallest
<1>5. e - k \in S /\ k \in 0 .. e
  OBVIOUS
<1>6. \A m \in S : k <= e - m
  BY <1>2, <1>4
<1>7. \A m \in S : m <= e - k
  BY <1>5, <1>6
<1> QED
  BY <1>5, <1>7
-----------------------------------------------------------------------------
(***************************************************************************)
(* Cutting: what insert_function_symbol_range() leaves in the table.       *)
(***************************************************************************)

\* The sizes and the ends of a symbol, and those of a range, are numbers.
LEMMA SymbolNumbers ==
  ASSUME NEW s \in Symbols
  PROVE  s.start \in 0 .. End /\ s.end \in 0 .. End /\ s.elf \in BOOLEAN /\ Size(s) \in Int
BY EndAssumption, SymbolsAssumption DEF Addresses, Size

LEMMA RangeNumbers ==
  ASSUME NEW r \in Ranges
  PROVE  r.start \in Addresses /\ r.end \in 1 .. End /\ r.symbol \in Symbols
         /\ r.start \in 0 .. End /\ r.end \in 0 .. End
BY EndAssumption DEF Ranges, Addresses

\* new_symbol_range_wins() is what AddressOwners calls better.
LEMMA WinsIsBetter ==
  ASSUME NEW s \in Symbols, NEW q \in Symbols
  PROVE  Wins(q, s) <=> Owners!Better(s, q)
BY SymbolNumbers DEF Wins, Size, Owners!Better

\* An address of s that no range keeps is in a piece of s.
LEMMA PieceExists ==
  ASSUME WellFormed(table), NEW s \in Symbols, NEW a \in Addresses, Contains(s, a),
         \A r \in Overlapping(s) \ Losers(s) : ~ Contains(r, a)
  PROVE  \E p \in Pieces(s) : Contains(p, a)
<1> DEFINE keepers == Overlapping(s) \ Losers(s)
           starts == {s.start} \cup {r.end : r \in keepers}
           ends == {s.end} \cup {r.start : r \in keepers}
           before == {b \in starts : b <= a}
           after == {e \in ends : a < e}
<1>1. a \in 0 .. End /\ s.start \in 0 .. End /\ s.end \in 0 .. End /\ End \in Nat
  BY SymbolNumbers, EndAssumption DEF Addresses
<1>2. \A r \in keepers : /\ r.start \in 0 .. End /\ r.end \in 0 .. End /\ r.start < r.end
                         /\ r.end <= a \/ a < r.start
  <2> SUFFICES ASSUME NEW r \in keepers
               PROVE  /\ r.start \in 0 .. End /\ r.end \in 0 .. End /\ r.start < r.end
                      /\ r.end <= a \/ a < r.start
    OBVIOUS
  <2>1. r \in table /\ r \in Ranges /\ r.start < r.end /\ ~ Contains(r, a)
    BY DEF Overlapping, WellFormed, Extents
  <2>2. r.start \in 0 .. End /\ r.end \in 0 .. End
    BY <2>1, RangeNumbers
  <2> QED
    BY <1>1, <2>1, <2>2 DEF Contains
<1>3. before \in SUBSET (0 .. End) /\ s.start \in before
  BY <1>1, <1>2 DEF Contains
<1>4. after \in SUBSET Nat /\ s.end \in after
  BY <1>1, <1>2 DEF Contains
<1>5. PICK b \in before : \A m \in before : m <= b
  BY <1>1, <1>3, Largest, Zenon
<1>6. PICK e \in after : \A m \in after : e <= m
  BY <1>4, Smallest, Zenon
<1> DEFINE p == Range(b, e, s)
<1>7. p.start = b /\ p.end = e
  BY DEF Range
<1>8. s.start <= b /\ b <= a /\ a < e /\ e <= s.end
  BY <1>3, <1>4, <1>5, <1>6
<1>9. b \in starts /\ e \in ends /\ b \in 0 .. End /\ e \in Nat
  BY <1>3, <1>4
<1>10. ASSUME NEW r \in keepers PROVE r.end <= p.start \/ p.end <= r.start
  <2>1. CASE r.end <= a
    <3>1. r.end \in before
      BY <2>1
    <3> QED
      BY <1>5, <1>7, <3>1
  <2>2. CASE a < r.start
    <3>1. r.start \in after
      BY <2>2
    <3> QED
      BY <1>6, <1>7, <3>1
  <2> QED
    BY <1>2, <2>1, <2>2
<1>11. s.start <= p.start /\ p.start < p.end /\ p.end <= s.end /\ Contains(p, a)
  BY <1>1, <1>7, <1>8, <1>9 DEF Contains
<1>12. p \in Pieces(s)
  <2>1. p \in {Range(x, y, s) : x \in starts, y \in ends}
    BY <1>9
  <2> QED
    BY <2>1, <1>10, <1>11 DEF Pieces
<1> QED
  BY <1>11, <1>12

\* A piece is a part of s, and no range that is kept overlaps it.
LEMMA PieceFacts ==
  ASSUME WellFormed(table), NEW s \in Symbols, NEW p \in Pieces(s)
  PROVE  /\ p \in Ranges /\ p.symbol = s
         /\ s.start <= p.start /\ p.start < p.end /\ p.end <= s.end
         /\ p.start = s.start \/ \E r \in Overlapping(s) \ Losers(s) : p.start = r.end
         /\ p.end = s.end \/ \E r \in Overlapping(s) \ Losers(s) : p.end = r.start
         /\ \A r \in Overlapping(s) \ Losers(s) : r.end <= p.start \/ p.end <= r.start
<1> DEFINE keepers == Overlapping(s) \ Losers(s)
           starts == {s.start} \cup {r.end : r \in keepers}
           ends == {s.end} \cup {r.start : r \in keepers}
<1>1. /\ p \in {Range(b, e, s) : b \in starts, e \in ends}
      /\ s.start <= p.start /\ p.start < p.end /\ p.end <= s.end
      /\ \A r \in keepers : r.end <= p.start \/ p.end <= r.start
  BY DEF Pieces
<1>2. PICK b \in starts, e \in ends : p = Range(b, e, s)
  BY <1>1
<1>3. p = [start |-> b, end |-> e, symbol |-> s] /\ p.start = b /\ p.end = e /\ p.symbol = s
  BY <1>2 DEF Range
<1>4. \A r \in keepers : r.start \in 0 .. End /\ r.end \in 0 .. End
  BY RangeNumbers DEF WellFormed, Overlapping
<1>5. b \in 0 .. End /\ e \in 0 .. End
  BY <1>4, SymbolNumbers
<1>6. b \in Addresses /\ e \in 1 .. End
  BY <1>1, <1>3, <1>5, EndAssumption DEF Addresses
<1>7. p \in Ranges
  BY <1>3, <1>6 DEF Ranges
<1> QED
  BY <1>1, <1>3, <1>7

\* Two pieces of s do not overlap: between them is a range that is kept.
LEMMA PiecesAreApart ==
  ASSUME WellFormed(table), NEW s \in Symbols, NEW p \in Pieces(s), NEW q \in Pieces(s),
         p.start < q.start \/ p.end < q.end
  PROVE  p.end <= q.start
<1>1. /\ p.start \in 0 .. End /\ p.end \in 0 .. End /\ q.start \in 0 .. End /\ q.end \in 0 .. End
      /\ s.start \in 0 .. End /\ s.end \in 0 .. End
  BY PieceFacts, RangeNumbers, SymbolNumbers
<1>2. ASSUME NEW r \in Overlapping(s) \ Losers(s)
      PROVE  /\ r.start \in 0 .. End /\ r.end \in 0 .. End /\ r.start < r.end
             /\ r.end <= p.start \/ p.end <= r.start
             /\ r.end <= q.start \/ q.end <= r.start
  BY <1>2, PieceFacts, RangeNumbers DEF WellFormed, Extents, Overlapping
<1>3. s.start <= p.start /\ p.start < p.end /\ p.end <= s.end
      /\ s.start <= q.start /\ q.start < q.end /\ q.end <= s.end
  BY PieceFacts
<1>4. CASE p.start < q.start
  <2>1. PICK r \in Overlapping(s) \ Losers(s) : q.start = r.end
    BY <1>1, <1>3, <1>4, PieceFacts
  <2> QED
    BY <1>1, <1>2, <1>3, <1>4, <2>1
<1>5. CASE p.end < q.end
  <2>1. PICK r \in Overlapping(s) \ Losers(s) : p.end = r.start
    BY <1>1, <1>3, <1>5, PieceFacts
  <2> QED
    BY <1>1, <1>2, <1>3, <1>5, <2>1
<1> QED
  BY <1>4, <1>5

\* What is left of a range that s wins from is the part of it before s, or after s.
LEMMA LeftoverFacts ==
  ASSUME WellFormed(table), NEW s \in Symbols, NEW p \in Leftovers(s)
  PROVE  /\ p \in Ranges /\ p.start < p.end
         /\ \E r \in Losers(s) :
              /\ p.symbol = r.symbol
              /\ \/ p.start = r.start /\ p.end = s.start /\ s.start < r.end
                 \/ p.start = s.end /\ p.end = r.end /\ r.start < s.end
<1>1. ASSUME NEW r \in Losers(s)
      PROVE  /\ r \in table /\ r.start \in 0 .. End /\ r.end \in 0 .. End /\ r.symbol \in Symbols
             /\ r.start < s.end /\ s.start < r.end
             /\ r.start \in Addresses /\ r.end \in 1 .. End
  BY <1>1, RangeNumbers DEF WellFormed, Losers, Overlapping
<1>2. s.start \in 0 .. End /\ s.end \in 0 .. End /\ End \in Nat
  BY SymbolNumbers, EndAssumption
<1>3. ASSUME NEW r \in Losers(s), r.start < s.start, p = Range(r.start, s.start, r.symbol)
      PROVE  p \in Ranges /\ p.symbol = r.symbol /\ p.start = r.start /\ p.end = s.start
  <2>1. s.start \in 1 .. End
    BY <1>1, <1>2, <1>3
  <2> QED
    BY <1>1, <1>3, <2>1 DEF Range, Ranges
<1>4. ASSUME NEW r \in Losers(s), s.end < r.end, p = Range(s.end, r.end, r.symbol)
      PROVE  p \in Ranges /\ p.symbol = r.symbol /\ p.start = s.end /\ p.end = r.end
  <2>1. s.end \in Addresses
    BY <1>1, <1>2, <1>4 DEF Addresses
  <2> QED
    BY <1>1, <1>4, <2>1 DEF Range, Ranges
<1>5. \/ \E r \in Losers(s) : r.start < s.start /\ p = Range(r.start, s.start, r.symbol)
      \/ \E r \in Losers(s) : s.end < r.end /\ p = Range(s.end, r.end, r.symbol)
  BY DEF Leftovers
<1>6. CASE \E r \in Losers(s) : r.start < s.start /\ p = Range(r.start, s.start, r.symbol)
  BY <1>1, <1>3, <1>6
<1>7. CASE \E r \in Losers(s) : s.end < r.end /\ p = Range(s.end, r.end, r.symbol)
  BY <1>1, <1>4, <1>7
<1> QED
  BY <1>5, <1>6, <1>7
-----------------------------------------------------------------------------
\* The table after s was inserted.
WithInserted(s) == (table \ Losers(s)) \cup Leftovers(s) \cup Pieces(s)

\* A range that stays as it is and s do not overlap, or it is one that s does not win from.
LEMMA KeptFacts ==
  ASSUME WellFormed(table), NEW s \in Symbols, NEW r \in table \ Losers(s), NEW p \in Pieces(s)
  PROVE  r.end <= p.start \/ p.end <= r.start
<1>1. /\ p.start \in 0 .. End /\ p.end \in 0 .. End /\ r.start \in 0 .. End /\ r.end \in 0 .. End
      /\ s.start \in 0 .. End /\ s.end \in 0 .. End
  BY PieceFacts, RangeNumbers, SymbolNumbers DEF WellFormed
<1>2. CASE r \in Overlapping(s)
  BY <1>2, PieceFacts
<1>3. CASE r \notin Overlapping(s)
  BY <1>1, <1>3, PieceFacts DEF Overlapping
<1> QED
  BY <1>2, <1>3

\* A range that stays as it is does not overlap what is left of another.
LEMMA KeptLeftover ==
  ASSUME WellFormed(table), NEW s \in Symbols, s.start < s.end,
         NEW r \in table \ Losers(s), NEW p \in Leftovers(s)
  PROVE  r.end <= p.start \/ p.end <= r.start
<1>1. PICK q \in Losers(s) : \/ p.start = q.start /\ p.end = s.start /\ s.start < q.end
                             \/ p.start = s.end /\ p.end = q.end /\ q.start < s.end
  BY LeftoverFacts
<1>2. q \in table /\ q # r
  BY DEF Losers, Overlapping
<1>3. /\ q.start \in 0 .. End /\ q.end \in 0 .. End /\ r.start \in 0 .. End /\ r.end \in 0 .. End
      /\ s.start \in 0 .. End /\ s.end \in 0 .. End /\ q.start < q.end /\ r.start < r.end
      /\ r.end <= q.start \/ q.end <= r.start
  BY <1>2, RangeNumbers, SymbolNumbers DEF WellFormed, Extents, Disjoint
<1>4. q.start < s.end /\ s.start < q.end
  BY DEF Losers, Overlapping
<1> QED
  BY <1>1, <1>3, <1>4

\* What is left of two ranges, or of one, does not overlap.
LEMMA LeftoversAreApart ==
  ASSUME WellFormed(table), NEW s \in Symbols, s.start < s.end,
         NEW p \in Leftovers(s), NEW q \in Leftovers(s), p # q
  PROVE  p.end <= q.start \/ q.end <= p.start
<1>1. PICK r \in Losers(s) :
        /\ p.symbol = r.symbol
        /\ \/ p.start = r.start /\ p.end = s.start /\ s.start < r.end
           \/ p.start = s.end /\ p.end = r.end /\ r.start < s.end
  BY LeftoverFacts
<1>2. PICK o \in Losers(s) :
        /\ q.symbol = o.symbol
        /\ \/ q.start = o.start /\ q.end = s.start /\ s.start < o.end
           \/ q.start = s.end /\ q.end = o.end /\ o.start < s.end
  BY LeftoverFacts
<1>3. r \in table /\ o \in table
  BY DEF Losers, Overlapping
<1>4. /\ r.start \in 0 .. End /\ r.end \in 0 .. End /\ o.start \in 0 .. End /\ o.end \in 0 .. End
      /\ s.start \in 0 .. End /\ s.end \in 0 .. End
      /\ r # o => r.end <= o.start \/ o.end <= r.start
  BY <1>3, RangeNumbers, SymbolNumbers DEF WellFormed, Disjoint
<1>5. CASE r = o
  <2>1. p.start # q.start \/ p.end # q.end
    <3>1. p \in Ranges /\ q \in Ranges
      BY LeftoverFacts
    <3> QED
      BY <1>1, <1>2, <1>5, <3>1 DEF Ranges
  <2> QED
    BY <1>1, <1>2, <1>4, <1>5, <2>1
<1>6. CASE r # o
  <2>1. p.start < p.end /\ q.start < q.end
    BY LeftoverFacts
  <2>2. r.start < s.end /\ s.start < r.end /\ o.start < s.end /\ s.start < o.end
    BY DEF Losers, Overlapping
  <2> QED
    BY <1>1, <1>2, <1>4, <1>6, <2>1, <2>2
<1> QED
  BY <1>5, <1>6

\* What is left of a range does not overlap s.
LEMMA LeftoverPiece ==
  ASSUME WellFormed(table), NEW s \in Symbols, NEW p \in Leftovers(s), NEW q \in Pieces(s)
  PROVE  p.end <= q.start \/ q.end <= p.start
<1>1. p.end = s.start \/ p.start = s.end
  BY LeftoverFacts
<1>2. /\ p.start \in 0 .. End /\ p.end \in 0 .. End /\ q.start \in 0 .. End /\ q.end \in 0 .. End
      /\ s.start \in 0 .. End /\ s.end \in 0 .. End
  BY PieceFacts, LeftoverFacts, RangeNumbers, SymbolNumbers
<1> QED
  BY <1>1, <1>2, PieceFacts

\* Inserting s leaves a set of fragments that do not overlap.
LEMMA InsertedWellFormed ==
  ASSUME WellFormed(table), NEW s \in Symbols, s.start < s.end
  PROVE  WellFormed(WithInserted(s))
<1> DEFINE T == WithInserted(s)
<1>1. \A r \in T : r \in table \ Losers(s) \/ r \in Leftovers(s) \/ r \in Pieces(s)
  BY DEF WithInserted
<1>2. ASSUME NEW r \in T
      PROVE  r \in Ranges /\ r.symbol.start <= r.start /\ r.start < r.end /\ r.end <= r.symbol.end
  <2>1. CASE r \in table \ Losers(s)
    BY <2>1 DEF WellFormed, Extents
  <2>2. CASE r \in Leftovers(s)
    <3>1. PICK q \in Losers(s) :
            /\ r.symbol = q.symbol
            /\ \/ r.start = q.start /\ r.end = s.start /\ s.start < q.end
               \/ r.start = s.end /\ r.end = q.end /\ q.start < s.end
      BY <2>2, LeftoverFacts
    <3>2. q \in table /\ q.symbol.start <= q.start /\ q.end <= q.symbol.end
      BY DEF Losers, Overlapping, WellFormed, Extents
    <3>3. /\ q.start \in 0 .. End /\ q.end \in 0 .. End /\ q.symbol.start \in 0 .. End
          /\ q.symbol.end \in 0 .. End /\ s.start \in 0 .. End /\ s.end \in 0 .. End
      BY <3>2, RangeNumbers, SymbolNumbers DEF WellFormed
    <3>4. r \in Ranges /\ r.start < r.end
      BY <2>2, LeftoverFacts
    <3> QED
      BY <3>1, <3>2, <3>3, <3>4
  <2>3. CASE r \in Pieces(s)
    BY <2>3, PieceFacts
  <2> QED
    BY <1>1, <2>1, <2>2, <2>3
<1>3. ASSUME NEW r \in T, NEW q \in T, r # q
      PROVE  r.end <= q.start \/ q.end <= r.start
  <2>1. CASE r \in table \ Losers(s) /\ q \in table \ Losers(s)
    BY <1>3, <2>1 DEF WellFormed, Disjoint
  <2>2. CASE r \in Leftovers(s) /\ q \in Leftovers(s)
    BY <1>3, <2>2, LeftoversAreApart
  <2>3. CASE r \in Pieces(s) /\ q \in Pieces(s)
    <3>1. /\ r \in Ranges /\ q \in Ranges /\ r.symbol = q.symbol
          /\ r.start \in 0 .. End /\ r.end \in 0 .. End /\ q.start \in 0 .. End /\ q.end \in 0 .. End
      BY <2>3, PieceFacts, RangeNumbers
    <3>2. r.start # q.start \/ r.end # q.end
      BY <1>3, <3>1 DEF Ranges
    <3>3. r.start < q.start \/ r.end < q.end \/ q.start < r.start \/ q.end < r.end
      BY <3>1, <3>2
    <3> QED
      BY <2>3, <3>3, PiecesAreApart
  <2> QED
    BY <1>1, <2>1, <2>2, <2>3, KeptFacts, KeptLeftover, LeftoverPiece
<1> QED
  BY <1>2, <1>3 DEF WellFormed, Extents, Disjoint
-----------------------------------------------------------------------------
(***************************************************************************)
(* The owner of an address: the symbol of the one range that contains it.  *)
(***************************************************************************)

Owner(T, a) == IF \E r \in T : r.start <= a /\ a < r.end
               THEN (CHOOSE r \in T : r.start <= a /\ a < r.end).symbol
               ELSE NULL

LEMMA OneContains ==
  ASSUME NEW T, WellFormed(T), NEW a \in Addresses, NEW r \in T, Contains(r, a),
         NEW q \in T, Contains(q, a)
  PROVE  q = r
<1>1. /\ r.start \in 0 .. End /\ r.end \in 0 .. End /\ q.start \in 0 .. End /\ q.end \in 0 .. End
      /\ a \in 0 .. End
  BY RangeNumbers, EndAssumption DEF WellFormed, Addresses
<1> QED
  BY <1>1 DEF WellFormed, Disjoint, Contains

LEMMA OwnerIs ==
  ASSUME NEW T, WellFormed(T), NEW a \in Addresses, NEW r \in T, Contains(r, a)
  PROVE  Owner(T, a) = r.symbol
<1>1. \E q \in T : q.start <= a /\ a < q.end
  BY DEF Contains
<1> DEFINE c == CHOOSE q \in T : q.start <= a /\ a < q.end
<1>2. c \in T /\ c.start <= a /\ a < c.end
  BY <1>1
<1>3. c = r
  BY <1>2, OneContains DEF Contains
<1> QED
  BY <1>1, <1>3 DEF Owner

LEMMA NoOwner ==
  ASSUME NEW T, NEW a, \A r \in T : ~ Contains(r, a)
  PROVE  Owner(T, a) = NULL
BY DEF Owner, Contains

\* The ranges that contain an address after s was inserted.
LEMMA InsertedContains ==
  ASSUME WellFormed(table), NEW s \in Symbols, s.start < s.end, NEW a \in Addresses
  PROVE  /\ \A r \in table : Contains(r, a) /\ Contains(s, a) /\ Wins(r.symbol, s) =>
              \E p \in WithInserted(s) : Contains(p, a) /\ p.symbol = s
         /\ \A r \in table : Contains(r, a) /\ ~ (Contains(s, a) /\ Wins(r.symbol, s)) =>
              \E p \in WithInserted(s) : Contains(p, a) /\ p.symbol = r.symbol
         /\ (\A r \in table : ~ Contains(r, a)) /\ Contains(s, a) =>
              \E p \in WithInserted(s) : Contains(p, a) /\ p.symbol = s
         /\ (\A r \in table : ~ Contains(r, a)) /\ ~ Contains(s, a) =>
              \A p \in WithInserted(s) : ~ Contains(p, a)
<1>1. a \in 0 .. End /\ s.start \in 0 .. End /\ s.end \in 0 .. End /\ End \in Nat
  BY SymbolNumbers, EndAssumption DEF Addresses
<1>2. ASSUME NEW r \in table
      PROVE  r \in Ranges /\ r.start \in 0 .. End /\ r.end \in 0 .. End
  BY RangeNumbers DEF WellFormed
<1>3. ASSUME Contains(s, a), \A r \in Overlapping(s) \ Losers(s) : ~ Contains(r, a)
      PROVE  \E p \in WithInserted(s) : Contains(p, a) /\ p.symbol = s
  <2>1. PICK p \in Pieces(s) : Contains(p, a)
    BY <1>3, PieceExists
  <2> QED
    BY <2>1, PieceFacts DEF WithInserted
<1>4. ASSUME NEW r \in table, Contains(r, a), Contains(s, a), Wins(r.symbol, s)
      PROVE  \E p \in WithInserted(s) : Contains(p, a) /\ p.symbol = s
  <2>1. r \in Losers(s)
    BY <1>1, <1>2, <1>4 DEF Losers, Overlapping, Contains
  <2>2. \A q \in Overlapping(s) \ Losers(s) : ~ Contains(q, a)
    BY <1>4, <2>1, OneContains DEF Overlapping
  <2> QED
    BY <1>3, <1>4, <2>2
<1>5. ASSUME NEW r \in table, Contains(r, a), ~ (Contains(s, a) /\ Wins(r.symbol, s))
      PROVE  \E p \in WithInserted(s) : Contains(p, a) /\ p.symbol = r.symbol
  <2>1. CASE r \notin Losers(s)
    BY <1>5, <2>1 DEF WithInserted
  <2>2. CASE r \in Losers(s) /\ a < s.start
    <3> DEFINE p == Range(r.start, s.start, r.symbol)
    <3>1. r.start < s.start
      BY <1>1, <1>2, <1>5, <2>2 DEF Contains
    <3>2. p \in Leftovers(s)
      BY <2>2, <3>1 DEF Leftovers
    <3>3. Contains(p, a) /\ p.symbol = r.symbol
      BY <1>5, <2>2 DEF Range, Contains
    <3> QED
      BY <3>2, <3>3 DEF WithInserted
  <2>3. CASE r \in Losers(s) /\ s.end <= a
    <3> DEFINE p == Range(s.end, r.end, r.symbol)
    <3>1. s.end < r.end
      BY <1>1, <1>2, <1>5, <2>3 DEF Contains
    <3>2. p \in Leftovers(s)
      BY <2>3, <3>1 DEF Leftovers
    <3>3. Contains(p, a) /\ p.symbol = r.symbol
      BY <1>5, <2>3 DEF Range, Contains
    <3> QED
      BY <3>2, <3>3 DEF WithInserted
  <2>4. r \in Losers(s) => a < s.start \/ s.end <= a
    BY <1>1, <1>5 DEF Losers, Contains
  <2> QED
    BY <2>1, <2>2, <2>3, <2>4
<1>6. ASSUME \A r \in table : ~ Contains(r, a), Contains(s, a)
      PROVE  \E p \in WithInserted(s) : Contains(p, a) /\ p.symbol = s
  BY <1>3, <1>6 DEF Overlapping
<1>7. ASSUME \A r \in table : ~ Contains(r, a), ~ Contains(s, a), NEW p \in WithInserted(s)
      PROVE  ~ Contains(p, a)
  <2>1. CASE p \in table
    BY <1>7, <2>1
  <2>2. CASE p \in Leftovers(s)
    <3>1. PICK r \in Losers(s) :
            \/ p.start = r.start /\ p.end = s.start /\ s.start < r.end
            \/ p.start = s.end /\ p.end = r.end /\ r.start < s.end
      BY <2>2, LeftoverFacts
    <3>2. r \in table
      BY DEF Losers, Overlapping
    <3>3. ~ Contains(r, a) /\ r.start \in 0 .. End /\ r.end \in 0 .. End
      BY <1>2, <1>7, <3>2
    <3> QED
      BY <1>1, <3>1, <3>3 DEF Contains
  <2>3. CASE p \in Pieces(s)
    <3>1. s.start <= p.start /\ p.end <= s.end /\ p.start \in 0 .. End /\ p.end \in 0 .. End
      BY <2>3, PieceFacts, RangeNumbers
    <3> QED
      BY <1>1, <1>7, <3>1 DEF Contains
  <2> QED
    BY <2>1, <2>2, <2>3 DEF WithInserted
<1> QED
  BY <1>4, <1>5, <1>6, <1>7

\* Cutting gives every address to the symbol that AddressOwners gives it to.
LEMMA InsertedOwner ==
  ASSUME WellFormed(table), NEW s \in Symbols, s.start < s.end, NEW a \in Addresses
  PROVE  Owner(WithInserted(s), a) =
           IF Owners!Covers(s, a) /\ (Owner(table, a) = NULL \/ Owners!Better(s, Owner(table, a)))
           THEN s ELSE Owner(table, a)
<1> DEFINE T == WithInserted(s)
<1>1. WellFormed(T)
  BY InsertedWellFormed
<1>2. Owners!Covers(s, a) <=> Contains(s, a)
  BY DEF Owners!Covers, Contains
<1>3. CASE \E r \in table : Contains(r, a)
  <2>1. PICK r \in table : Contains(r, a)
    BY <1>3
  <2>2. Owner(table, a) = r.symbol
    BY <2>1, OwnerIs
  <2>3. r.symbol \in Symbols /\ r.symbol # NULL
    BY RangeNumbers, NullAssumption DEF WellFormed
  <2>4. Wins(r.symbol, s) <=> Owners!Better(s, r.symbol)
    BY <2>3, WinsIsBetter
  <2>5. CASE Contains(s, a) /\ Wins(r.symbol, s)
    <3>1. PICK p \in T : Contains(p, a) /\ p.symbol = s
      BY <2>1, <2>5, InsertedContains
    <3>2. Owner(T, a) = s
      BY <1>1, <3>1, OwnerIs
    <3> QED
      BY <1>2, <2>2, <2>3, <2>4, <2>5, <3>2
  <2>6. CASE ~ (Contains(s, a) /\ Wins(r.symbol, s))
    <3>1. PICK p \in T : Contains(p, a) /\ p.symbol = r.symbol
      BY <2>1, <2>6, InsertedContains
    <3>2. Owner(T, a) = r.symbol
      BY <1>1, <3>1, OwnerIs
    <3> QED
      BY <1>2, <2>2, <2>3, <2>4, <2>6, <3>2
  <2> QED
    BY <2>5, <2>6
<1>4. CASE \A r \in table : ~ Contains(r, a)
  <2>1. Owner(table, a) = NULL
    BY <1>4, NoOwner
  <2>2. CASE Contains(s, a)
    <3>1. PICK p \in T : Contains(p, a) /\ p.symbol = s
      BY <1>4, <2>2, InsertedContains
    <3> QED
      BY <1>1, <1>2, <2>1, <2>2, <3>1, OwnerIs
  <2>3. CASE ~ Contains(s, a)
    <3>1. \A p \in T : ~ Contains(p, a)
      BY <1>4, <2>3, InsertedContains
    <3> QED
      BY <1>2, <2>1, <2>3, <3>1, NoOwner
  <2> QED
    BY <2>2, <2>3
<1> QED
  BY <1>3, <1>4
-----------------------------------------------------------------------------
(***************************************************************************)
(* The inductive invariant.  What is in the table:                         *)
(***************************************************************************)

\* Every address of an inserted symbol has an owner, of the debug information if the symbol is.
Covered ==
  \A s \in inserted, a \in Addresses : Contains(s, a) =>
    \E r \in table : Contains(r, a) /\ (r.symbol.elf => s.elf)

TableOK ==
  /\ file \subseteq Symbols /\ inserted \subseteq file /\ freed \subseteq inserted
  /\ WellFormed(table)
  /\ \A r \in table : r.symbol \in inserted
  /\ NamesExist
  /\ Covered

\* Who loads what:
Places == {"idle", "realize", "path", "dwarf", "symbol", "elf", "found"}
LoadingOK ==
  /\ dwarfed \in BOOLEAN /\ elfed \in BOOLEAN /\ main_reached \in BOOLEAN
  /\ writer \in Threads \cup {NULL} /\ todo \subseteq file
  /\ todo \cap inserted = {}
  /\ writer = NULL => todo = {}
  /\ \A s \in inserted \cup todo : IF s.elf THEN elfed ELSE dwarfed
  /\ \A s \in file : s.start < s.end /\ (IF s.elf THEN elfed ELSE dwarfed) => s \in inserted \cup todo

\* Where the threads are:
CallOK(t) ==
  /\ call[t].at \in {"dwarf", "elf"} <=> writer = t
  /\ At(t, "dwarf") => main_reached /\ dwarfed /\ \A s \in todo : ~ s.elf
  /\ At(t, "elf") => elfed /\ \A s \in todo : s.elf
  /\ ~ main_reached => (t # Main => At(t, "idle")) /\ ~ At(t, "path")
  /\ main_reached /\ ~ dwarfed => call[t].at \in {"idle", "realize", "path"}

\* What the threads found is in the table, and is not what is loaded now:
FoundOK(t) ==
  /\ call[t].found # {} => At(t, "found")
  /\ call[t].found \subseteq table
  /\ \A u \in Threads : At(u, "dwarf") => call[t].found = {}
  /\ \A u \in Threads : At(u, "elf") => \A r \in call[t].found : ~ r.symbol.elf

FindsWhatThereIs(t) ==
  LET covering == {s \in file : Owners!Covers(s, call[t].addr) /\ (main_reached \/ s.elf)} IN
  At(t, "found") =>
    /\ call[t].found = {} => covering = {}
    /\ \A r \in call[t].found, s \in covering : ~ s.elf => ~ r.symbol.elf

CallsOK ==
  /\ call \in [Threads -> [at : Places, addr : Addresses, found : SUBSET Ranges]]
  /\ \A t \in Threads : CallOK(t) /\ FoundOK(t) /\ FindsWhatThereIs(t)

IInv == TableOK /\ LoadingOK /\ CallsOK

LEMMA InvImplies == IInv => TypeOK /\ FoundStays /\ LookupFinds /\ NamesExist
<1> SUFFICES ASSUME IInv PROVE TypeOK /\ FoundStays /\ LookupFinds /\ NamesExist
  OBVIOUS
<1>1. TypeOK
  BY DEF IInv, TableOK, LoadingOK, CallsOK, TypeOK, WellFormed, Extents, Disjoint, Places
<1>2. FoundStays
  BY DEF IInv, CallsOK, FoundOK, FoundStays
<1>3. LookupFinds
  BY DEF IInv, CallsOK, FindsWhatThereIs, LookupFinds
<1> QED
  BY <1>1, <1>2, <1>3 DEF IInv, TableOK

LEMMA InitInv == ASSUME Init PROVE IInv
<1>1. TableOK
  BY DEF Init, TableOK, WellFormed, Extents, Disjoint, NamesExist, Covered
<1>2. LoadingOK
  BY DEF Init, LoadingOK
<1>3. CallsOK
  <2>1. \A t \in Threads : /\ call[t] = Idle /\ Idle.at = "idle" /\ Idle.found = {}
                           /\ Idle.addr \in Addresses
    BY EndAssumption DEF Init, Idle, Addresses
  <2>2. call \in [Threads -> [at : Places, addr : Addresses, found : SUBSET Ranges]]
    BY EndAssumption DEF Init, Idle, Places, Addresses
  <2>3. ASSUME NEW t \in Threads PROVE CallOK(t)
    BY <2>1, NullAssumption DEF Init, CallOK, At
  <2>4. ASSUME NEW t \in Threads PROVE FoundOK(t) /\ FindsWhatThereIs(t)
    BY <2>1 DEF FoundOK, FindsWhatThereIs, At
  <2> QED
    BY <2>2, <2>3, <2>4 DEF CallsOK
<1> QED
  BY <1>1, <1>2, <1>3 DEF IInv
-----------------------------------------------------------------------------
(***************************************************************************)
(* Inserting a symbol.                                                     *)
(***************************************************************************)

\* A range of the new table is a piece of s, or of a symbol that had one.
LEMMA InsertedSymbols ==
  ASSUME WellFormed(table), NEW s \in Symbols, NEW r \in WithInserted(s)
  PROVE  (r.symbol = s /\ r \in Pieces(s)) \/ \E q \in table : q.symbol = r.symbol
<1>1. CASE r \in Pieces(s)
  BY <1>1, PieceFacts
<1>2. CASE r \in Leftovers(s)
  BY <1>2, LeftoverFacts DEF Losers, Overlapping
<1> QED
  BY <1>1, <1>2 DEF WithInserted

LEMMA InsertKeepsTable ==
  ASSUME IInv, NEW s \in todo, s.start < s.end,
         table' = WithInserted(s), inserted' = inserted \cup {s},
         freed' = IF Refused(s) THEN freed \cup {s} ELSE freed, UNCHANGED file
  PROVE  TableOK'
<1>1. /\ s \in Symbols /\ s \notin inserted /\ s \in file
      /\ WellFormed(table) /\ file \subseteq Symbols /\ inserted \subseteq file
      /\ freed \subseteq inserted
      /\ \A r \in table : r.symbol \in inserted
  BY DEF IInv, TableOK, LoadingOK
<1>2. WellFormed(table')
  BY <1>1, InsertedWellFormed
<1>3. \A r \in table' : r.symbol \in inserted'
  BY <1>1, InsertedSymbols
<1>4. ASSUME NEW r \in table' PROVE r.symbol \notin freed'
  <2>1. CASE r.symbol = s /\ r \in Pieces(s)
    <3>1. ~ Refused(s)
      BY <2>1 DEF Refused
    <3> QED
      BY <1>1, <2>1, <3>1
  <2>2. CASE \E q \in table : q.symbol = r.symbol
    <3>1. r.symbol \in inserted /\ r.symbol \notin freed
      BY <1>1, <2>2 DEF IInv, TableOK, NamesExist
    <3> QED
      BY <1>1, <3>1
  <2> QED
    BY <1>1, <2>1, <2>2, InsertedSymbols
<1>5. ASSUME NEW q \in inserted', NEW a \in Addresses, Contains(q, a)
      PROVE  \E p \in table' : Contains(p, a) /\ (p.symbol.elf => q.elf)
  <2>1. CASE \E r \in table : Contains(r, a) /\ (q = s \/ (r.symbol.elf => q.elf))
    <3>1. PICK r \in table : Contains(r, a) /\ (q = s \/ (r.symbol.elf => q.elf))
      BY <2>1
    <3>2. r.symbol \in Symbols /\ r.symbol.elf \in BOOLEAN /\ s.elf \in BOOLEAN
      BY <1>1, SymbolNumbers
    <3>3. CASE Contains(s, a) /\ Wins(r.symbol, s)
      <4>1. s.elf => r.symbol.elf
        BY <3>2, <3>3 DEF Wins
      <4> QED
        BY <1>1, <3>1, <3>3, <4>1, InsertedContains
    <3>4. CASE ~ (Contains(s, a) /\ Wins(r.symbol, s))
      <4>1. q = s => (r.symbol.elf => s.elf)
        BY <1>5, <3>2, <3>4 DEF Wins
      <4> QED
        BY <1>1, <3>1, <3>4, <4>1, InsertedContains
    <3> QED
      BY <3>3, <3>4
  <2>2. CASE q = s /\ \A r \in table : ~ Contains(r, a)
    BY <1>1, <1>5, <2>2, InsertedContains
  <2> QED
    BY <1>5, <2>1, <2>2 DEF IInv, TableOK, Covered
<1> QED
  BY <1>1, <1>2, <1>3, <1>4, <1>5 DEF TableOK, NamesExist, Covered

\* Nothing is lost that a thread found: only symbols of the ELF table are inserted then.
LEMMA InsertKeepsFound ==
  ASSUME IInv, NEW t \in Threads, writer = t, NEW s \in todo, NEW u \in Threads
  PROVE  call[u].found \subseteq table \ Losers(s)
<1>1. CASE At(t, "dwarf")
  BY <1>1 DEF IInv, CallsOK, FoundOK
<1>2. CASE At(t, "elf")
  <2>1. s.elf /\ s \in Symbols
    BY <1>2 DEF IInv, CallsOK, CallOK, LoadingOK, TableOK
  <2>2. ASSUME NEW r \in call[u].found PROVE r \in table \ Losers(s)
    <3>1. r \in table /\ ~ r.symbol.elf
      BY <1>2 DEF IInv, CallsOK, FoundOK
    <3>2. ~ Wins(r.symbol, s)
      BY <2>1, <3>1 DEF Wins
    <3> QED
      BY <3>1, <3>2 DEF Losers
  <2> QED
    BY <2>2
<1> QED
  BY <1>1, <1>2 DEF IInv, CallsOK, CallOK, At

LEMMA InsertKeeps ==
  ASSUME IInv, NEW t \in Threads, Insert(t)
  PROVE  IInv'
<1>1. PICK s \in todo :
        /\ writer = t
        /\ todo' = todo \ {s}
        /\ IF s.start < s.end
           THEN /\ table' = WithInserted(s)
                /\ inserted' = inserted \cup {s}
                /\ freed' = IF Refused(s) THEN freed \cup {s} ELSE freed
           ELSE UNCHANGED <<table, inserted, freed>>
        /\ UNCHANGED <<file, dwarfed, elfed, writer, main_reached, call>>
  BY DEF Insert, WithInserted
<1>2. TableOK'
  <2>1. CASE s.start < s.end
    BY <1>1, <2>1, InsertKeepsTable
  <2>2. CASE ~ (s.start < s.end)
    BY <1>1, <2>2 DEF IInv, TableOK, NamesExist, Covered
  <2> QED
    BY <2>1, <2>2
<1>3. LoadingOK'
  BY <1>1, NullAssumption DEF IInv, LoadingOK
<1>4. \A u \in Threads : call'[u].found \subseteq table'
  <2>1. CASE s.start < s.end
    BY <1>1, <2>1, InsertKeepsFound DEF WithInserted
  <2>2. CASE ~ (s.start < s.end)
    BY <1>1, <2>2 DEF IInv, CallsOK, FoundOK
  <2> QED
    BY <2>1, <2>2
<1>5. ASSUME NEW u \in Threads PROVE CallOK(u)' /\ FoundOK(u)' /\ FindsWhatThereIs(u)'
  BY <1>1, <1>4 DEF IInv, CallsOK, CallOK, FoundOK, FindsWhatThereIs, At
<1> QED
  BY <1>1, <1>2, <1>3, <1>5 DEF IInv, CallsOK
-----------------------------------------------------------------------------
(***************************************************************************)
(* Looking an address up.                                                  *)
(***************************************************************************)

LEMMA TablesStay ==
  ASSUME IInv, UNCHANGED tables
  PROVE  TableOK'
BY DEF IInv, tables, TableOK, WellFormed, Extents, Disjoint, NamesExist, Covered

\* The call of t becomes c and those of the others stay.
LEMMA CallBecomes ==
  ASSUME CallsOK, NEW t \in Threads, NEW c, call' = [call EXCEPT ![t] = c],
         c \in [at : Places, addr : Addresses, found : SUBSET Ranges]
  PROVE  /\ call' \in [Threads -> [at : Places, addr : Addresses, found : SUBSET Ranges]]
         /\ call'[t] = c
         /\ \A u \in Threads : u # t => call'[u] = call[u]
BY DEF CallsOK

LEMMA GoesTo ==
  ASSUME CallsOK, NEW t \in Threads, NEW p \in Places, Goto(t, p)
  PROVE  /\ call' \in [Threads -> [at : Places, addr : Addresses, found : SUBSET Ranges]]
         /\ call'[t].at = p /\ call'[t].addr = call[t].addr /\ call'[t].found = call[t].found
         /\ \A u \in Threads : u # t => call'[u] = call[u]
<1>1. call' = [call EXCEPT ![t] = [call[t] EXCEPT !.at = p]]
  BY DEF Goto
<1>2. call[t] \in [at : Places, addr : Addresses, found : SUBSET Ranges]
  BY DEF CallsOK
<1>3. [call[t] EXCEPT !.at = p] \in [at : Places, addr : Addresses, found : SUBSET Ranges]
  BY <1>2
<1>4. /\ [call[t] EXCEPT !.at = p].at = p
      /\ [call[t] EXCEPT !.at = p].addr = call[t].addr
      /\ [call[t] EXCEPT !.at = p].found = call[t].found
  BY <1>2
<1> QED
  BY <1>1, <1>3, <1>4, CallBecomes

\* get_symbol_range_from_function_symbols_map() finds the range that contains the address.
LEMMA ContainingIs ==
  ASSUME WellFormed(table), NEW a \in Addresses
  PROVE  Containing(a) = {r \in table : Contains(r, a)}
<1>1. ASSUME NEW r \in table, Contains(r, a), NEW q \in table, a < q.end
      PROVE  r.end <= q.end
  <2>1. /\ r.start \in 0 .. End /\ r.end \in 0 .. End /\ q.start \in 0 .. End /\ q.end \in 0 .. End
        /\ a \in 0 .. End /\ r.start < r.end /\ q.start < q.end
    BY RangeNumbers, EndAssumption DEF WellFormed, Extents, Addresses
  <2> QED
    BY <1>1, <2>1 DEF WellFormed, Disjoint, Contains
<1> QED
  BY <1>1 DEF Containing, Contains

\* When nothing is being loaded, what is found is the best that has been loaded.
LEMMA FoundIsBest ==
  ASSUME TableOK, LoadingOK, NEW a \in Addresses, NEW s \in file, Owners!Covers(s, a), todo = {},
         IF s.elf THEN elfed ELSE dwarfed
  PROVE  /\ Containing(a) # {}
         /\ \A r \in Containing(a) : ~ s.elf => ~ r.symbol.elf
<1>1. s \in Symbols /\ WellFormed(table)
  BY DEF TableOK
<1>2. Contains(s, a) /\ s.start < s.end
  BY <1>1, SymbolNumbers, EndAssumption DEF Owners!Covers, Contains, Addresses
<1>3. s \in inserted
  BY <1>2 DEF LoadingOK
<1>4. PICK q \in table : Contains(q, a) /\ (q.symbol.elf => s.elf)
  BY <1>2, <1>3 DEF TableOK, Covered
<1>5. \A r \in Containing(a) : r = q
  BY <1>1, <1>4, ContainingIs, OneContains
<1> QED
  BY <1>1, <1>4, <1>5, ContainingIs

LEMMA FindKeeps ==
  ASSUME IInv, NEW t \in Threads, NEW a \in Addresses, Find(t, a)
  PROVE  IInv'
<1> DEFINE c == [at |-> "realize", addr |-> a, found |-> {}]
<1>1. /\ At(t, "idle") /\ (main_reached \/ t = Main)
      /\ call' = [call EXCEPT ![t] = c]
      /\ UNCHANGED <<tables, dwarfed, elfed, writer, todo, main_reached>>
  BY DEF Find
<1>2. c \in [at : Places, addr : Addresses, found : SUBSET Ranges]
  BY DEF Places
<1>3. /\ call' \in [Threads -> [at : Places, addr : Addresses, found : SUBSET Ranges]]
      /\ call'[t] = c
      /\ \A u \in Threads : u # t => call'[u] = call[u]
  BY <1>1, <1>2, CallBecomes DEF IInv
<1>4. TableOK'
  BY <1>1, TablesStay
<1>5. LoadingOK'
  BY <1>1 DEF IInv, LoadingOK, tables
<1>6. ASSUME NEW u \in Threads PROVE CallOK(u)' /\ FoundOK(u)' /\ FindsWhatThereIs(u)'
  <2>1. CallOK(u) /\ FoundOK(u) /\ FindsWhatThereIs(u) /\ CallOK(t)
    BY DEF IInv, CallsOK
  <2>2. CallOK(u)'
    BY <1>1, <1>3, <2>1 DEF CallOK, At
  <2>3. FoundOK(u)'
    BY <1>1, <1>3, <2>1 DEF FoundOK, At, tables
  <2>4. FindsWhatThereIs(u)'
    BY <1>1, <1>3, <2>1 DEF FindsWhatThereIs, At, tables
  <2> QED
    BY <2>2, <2>3, <2>4
<1> QED
  BY <1>3, <1>4, <1>5, <1>6 DEF IInv, CallsOK

LEMMA RealizeKeeps ==
  ASSUME IInv, NEW t \in Threads, Realize(t)
  PROVE  IInv'
<1> DEFINE p == IF dwarfed \/ ~ main_reached THEN "symbol" ELSE "path"
<1>1. /\ At(t, "realize") /\ writer = NULL
      /\ Goto(t, p)
      /\ UNCHANGED <<tables, dwarfed, elfed, writer, todo, main_reached>>
  BY DEF Realize
<1>2. /\ call' \in [Threads -> [at : Places, addr : Addresses, found : SUBSET Ranges]]
      /\ call'[t].at = p /\ call'[t].addr = call[t].addr /\ call'[t].found = call[t].found
      /\ \A u \in Threads : u # t => call'[u] = call[u]
  BY <1>1, GoesTo DEF IInv, Places
<1>3. TableOK'
  BY <1>1, TablesStay
<1>4. LoadingOK'
  BY <1>1 DEF IInv, LoadingOK, tables
<1>5. ASSUME NEW u \in Threads PROVE CallOK(u)' /\ FoundOK(u)' /\ FindsWhatThereIs(u)'
  <2>1. CallOK(u) /\ FoundOK(u) /\ FindsWhatThereIs(u) /\ CallOK(t)
    BY DEF IInv, CallsOK
  <2>2. CallOK(u)'
    BY <1>1, <1>2, <2>1 DEF CallOK, At
  <2>3. FoundOK(u)'
    BY <1>1, <1>2, <2>1 DEF FoundOK, At, tables
  <2>4. FindsWhatThereIs(u)'
    BY <1>1, <1>2, <2>1 DEF FindsWhatThereIs, At, tables
  <2> QED
    BY <2>2, <2>3, <2>4
<1> QED
  BY <1>2, <1>3, <1>4, <1>5 DEF IInv, CallsOK

LEMMA LoadDwarfKeeps ==
  ASSUME IInv, NEW t \in Threads, LoadDwarf(t)
  PROVE  IInv'
<1> DEFINE p == IF dwarfed THEN "symbol" ELSE "dwarf"
<1>1. /\ At(t, "path") /\ writer = NULL
      /\ Goto(t, p)
      /\ IF dwarfed THEN UNCHANGED <<dwarfed, writer, todo>>
                    ELSE dwarfed' = TRUE /\ writer' = t /\ todo' = {s \in file : ~ s.elf}
      /\ UNCHANGED <<tables, elfed, main_reached>>
  BY DEF LoadDwarf, StartLoading
<1>2. /\ call' \in [Threads -> [at : Places, addr : Addresses, found : SUBSET Ranges]]
      /\ call'[t].at = p /\ call'[t].addr = call[t].addr /\ call'[t].found = call[t].found
      /\ \A u \in Threads : u # t => call'[u] = call[u]
  BY <1>1, GoesTo DEF IInv, Places
<1>3. TableOK'
  BY <1>1, TablesStay
<1>4. main_reached
  BY <1>1 DEF IInv, CallsOK, CallOK, LoadingOK
<1>5. LoadingOK'
  BY <1>1, NullAssumption DEF IInv, LoadingOK, tables
<1>6. ~ dwarfed => \A u \in Threads : call[u].found = {} /\ call[u].at \in {"idle", "realize", "path"}
  BY <1>4 DEF IInv, CallsOK, CallOK, FoundOK, At
<1>7. ASSUME NEW u \in Threads PROVE CallOK(u)' /\ FoundOK(u)' /\ FindsWhatThereIs(u)'
  <2>1. CallOK(u) /\ FoundOK(u) /\ FindsWhatThereIs(u) /\ CallOK(t)
    BY DEF IInv, CallsOK
  <2>2. CallOK(u)'
    BY <1>1, <1>2, <1>4, <1>6, <2>1, NullAssumption DEF CallOK, At
  <2>3. FoundOK(u)'
    BY <1>1, <1>2, <1>6, <2>1 DEF FoundOK, At, tables
  <2>4. FindsWhatThereIs(u)'
    BY <1>1, <1>2, <2>1 DEF FindsWhatThereIs, At, tables
  <2> QED
    BY <2>2, <2>3, <2>4
<1> QED
  BY <1>2, <1>3, <1>5, <1>7 DEF IInv, CallsOK

LEMMA DwarfLoadedKeeps ==
  ASSUME IInv, NEW t \in Threads, DwarfLoaded(t)
  PROVE  IInv'
<1>1. /\ At(t, "dwarf") /\ todo = {} /\ writer' = NULL
      /\ Goto(t, "symbol")
      /\ UNCHANGED <<tables, dwarfed, elfed, todo, main_reached>>
  BY DEF DwarfLoaded
<1>2. /\ call' \in [Threads -> [at : Places, addr : Addresses, found : SUBSET Ranges]]
      /\ call'[t].at = "symbol" /\ call'[t].addr = call[t].addr /\ call'[t].found = call[t].found
      /\ \A u \in Threads : u # t => call'[u] = call[u]
  BY <1>1, GoesTo DEF IInv, Places
<1>3. TableOK'
  BY <1>1, TablesStay
<1>4. LoadingOK'
  BY <1>1 DEF IInv, LoadingOK, tables
<1>5. writer = t
  BY <1>1 DEF IInv, CallsOK, CallOK, At
<1>6. ASSUME NEW u \in Threads PROVE CallOK(u)' /\ FoundOK(u)' /\ FindsWhatThereIs(u)'
  <2>1. CallOK(u) /\ FoundOK(u) /\ FindsWhatThereIs(u) /\ CallOK(t)
    BY DEF IInv, CallsOK
  <2>2. CallOK(u)'
    BY <1>1, <1>2, <1>5, <2>1, NullAssumption DEF CallOK, At
  <2>3. FoundOK(u)'
    BY <1>1, <1>2, <2>1 DEF FoundOK, At, tables
  <2>4. FindsWhatThereIs(u)'
    BY <1>1, <1>2, <2>1 DEF FindsWhatThereIs, At, tables
  <2> QED
    BY <2>2, <2>3, <2>4
<1> QED
  BY <1>2, <1>3, <1>4, <1>6 DEF IInv, CallsOK

\* The thread found what there is; nothing is loaded.
LEMMA FoundKeeps ==
  ASSUME IInv, NEW t \in Threads, todo = {}, writer' = NULL,
         call' = [call EXCEPT ![t] = [@ EXCEPT !.at = "found", !.found = Containing(call[t].addr)]],
         UNCHANGED <<tables, dwarfed, elfed, todo, main_reached>>,
         \A u \in Threads : u # t => call[u].at \notin {"dwarf", "elf"},
         main_reached => dwarfed, ~ main_reached => t = Main,
         Containing(call[t].addr) # {} \/ elfed
  PROVE  IInv'
<1> DEFINE a == call[t].addr
           c == [call[t] EXCEPT !.at = "found", !.found = Containing(a)]
<1>1. call[t] \in [at : Places, addr : Addresses, found : SUBSET Ranges] /\ a \in Addresses
  BY DEF IInv, CallsOK
<1>2. Containing(a) \subseteq table /\ table \subseteq Ranges
  BY DEF IInv, TableOK, WellFormed, Containing
<1>3. /\ c \in [at : Places, addr : Addresses, found : SUBSET Ranges]
      /\ c.at = "found" /\ c.addr = a /\ c.found = Containing(a)
  BY <1>1, <1>2 DEF Places
<1>4. /\ call' \in [Threads -> [at : Places, addr : Addresses, found : SUBSET Ranges]]
      /\ call'[t] = c
      /\ \A u \in Threads : u # t => call'[u] = call[u]
  BY <1>3, CallBecomes DEF IInv
<1>5. TableOK'
  BY TablesStay
<1>6. LoadingOK'
  BY DEF IInv, LoadingOK, tables
<1>7. ASSUME NEW s \in file, Owners!Covers(s, a), main_reached \/ s.elf
      PROVE  Containing(a) # {} /\ \A r \in Containing(a) : ~ s.elf => ~ r.symbol.elf
  <2>1. CASE s.elf /\ ~ elfed
    BY <2>1
  <2>2. CASE ~ s.elf \/ elfed
    <3>1. IF s.elf THEN elfed ELSE dwarfed
      BY <1>7, <2>2
    <3> QED
      BY <1>1, <1>7, <3>1, FoundIsBest DEF IInv
  <2> QED
    BY <2>1, <2>2
<1>8. ASSUME NEW u \in Threads PROVE CallOK(u)' /\ FoundOK(u)' /\ FindsWhatThereIs(u)'
  <2>1. CallOK(u) /\ FoundOK(u) /\ FindsWhatThereIs(u) /\ CallOK(t)
    BY DEF IInv, CallsOK
  <2>2. CallOK(u)'
    BY <1>3, <1>4, <2>1, NullAssumption DEF CallOK, At
  <2>3. FoundOK(u)'
    BY <1>2, <1>3, <1>4, <2>1 DEF FoundOK, At, tables
  <2>4. FindsWhatThereIs(u)'
    <3>1. CASE u = t
      BY <1>3, <1>4, <1>7, <3>1 DEF FindsWhatThereIs, At, tables
    <3>2. CASE u # t
      BY <1>4, <2>1, <3>2 DEF FindsWhatThereIs, At, tables
    <3> QED
      BY <3>1, <3>2
  <2> QED
    BY <2>2, <2>3, <2>4
<1> QED
  BY <1>4, <1>5, <1>6, <1>8 DEF IInv, CallsOK

\* The thread starts loading the ELF symbols: none is in the table.
LEMMA StartElfKeeps ==
  ASSUME IInv, NEW t \in Threads, At(t, "symbol"), writer = NULL, ~ elfed,
         elfed' = TRUE, writer' = t, todo' = {s \in file : s.elf}, Goto(t, "elf"),
         UNCHANGED <<tables, dwarfed, main_reached>>
  PROVE  IInv'
<1>1. /\ call' \in [Threads -> [at : Places, addr : Addresses, found : SUBSET Ranges]]
      /\ call'[t].at = "elf" /\ call'[t].addr = call[t].addr /\ call'[t].found = call[t].found
      /\ \A u \in Threads : u # t => call'[u] = call[u]
  BY GoesTo DEF IInv, Places
<1>2. TableOK'
  BY TablesStay
<1>3. LoadingOK'
  BY NullAssumption DEF IInv, LoadingOK, tables
<1>4. \A u \in Threads : \A r \in call[u].found : ~ r.symbol.elf
  BY DEF IInv, CallsOK, FoundOK, TableOK, LoadingOK
<1>5. ASSUME NEW u \in Threads PROVE CallOK(u)' /\ FoundOK(u)' /\ FindsWhatThereIs(u)'
  <2>1. CallOK(u) /\ FoundOK(u) /\ FindsWhatThereIs(u) /\ CallOK(t) /\ u # NULL
    BY NullAssumption DEF IInv, CallsOK
  <2>2. CallOK(u)'
    BY <1>1, <2>1 DEF CallOK, At
  <2>3. FoundOK(u)'
    <3>1. \A v \in Threads : ~ At(v, "dwarf")
      BY NullAssumption DEF IInv, CallsOK, CallOK, At
    <3> QED
      BY <1>1, <1>4, <2>1, <3>1 DEF FoundOK, At, tables
  <2>4. FindsWhatThereIs(u)'
    BY <1>1, <2>1 DEF FindsWhatThereIs, At, tables
  <2> QED
    BY <2>2, <2>3, <2>4
<1> QED
  BY <1>1, <1>2, <1>3, <1>5 DEF IInv, CallsOK

LEMMA FindSymbolKeeps ==
  ASSUME IInv, NEW t \in Threads, FindSymbol(t)
  PROVE  IInv'
<1> DEFINE a == call[t].addr
<1>1. /\ At(t, "symbol") /\ writer = NULL
      /\ \/ /\ FallsBack(a) /\ elfed' = TRUE /\ writer' = t /\ todo' = {s \in file : s.elf}
            /\ Goto(t, "elf")
         \/ /\ ~ FallsBack(a)
            /\ call' = [call EXCEPT ![t] = [@ EXCEPT !.at = "found", !.found = Containing(a)]]
            /\ UNCHANGED <<elfed, writer, todo>>
      /\ UNCHANGED <<tables, dwarfed, main_reached>>
  BY DEF FindSymbol, StartLoading
<1>2. todo = {} /\ elfed \in BOOLEAN
  BY <1>1 DEF IInv, LoadingOK
<1>3. \A u \in Threads : call[u].at \notin {"dwarf", "elf"}
  BY <1>1, NullAssumption DEF IInv, CallsOK, CallOK
<1>4. (main_reached => dwarfed) /\ (~ main_reached => t = Main)
  BY <1>1 DEF IInv, CallsOK, CallOK, At
<1>5. CASE FallsBack(a)
  BY <1>1, <1>5, StartElfKeeps DEF FallsBack
<1>6. CASE ~ FallsBack(a)
  <2>1. Containing(a) # {} \/ elfed
    BY <1>6 DEF FallsBack
  <2> QED
    BY <1>1, <1>2, <1>3, <1>4, <1>6, <2>1, FoundKeeps
<1> QED
  BY <1>5, <1>6

LEMMA ElfLoadedKeeps ==
  ASSUME IInv, NEW t \in Threads, ElfLoaded(t)
  PROVE  IInv'
<1>1. /\ At(t, "elf") /\ todo = {} /\ writer' = NULL
      /\ call' = [call EXCEPT ![t] = [@ EXCEPT !.at = "found", !.found = Containing(call[t].addr)]]
      /\ UNCHANGED <<tables, dwarfed, elfed, todo, main_reached>>
  BY DEF ElfLoaded
<1>2. elfed /\ writer = t
  BY <1>1 DEF IInv, CallsOK, CallOK, At
<1>3. \A u \in Threads : u # t => call[u].at \notin {"dwarf", "elf"}
  BY <1>2 DEF IInv, CallsOK, CallOK
<1>4. (main_reached => dwarfed) /\ (~ main_reached => t = Main)
  BY <1>1 DEF IInv, CallsOK, CallOK, At
<1> QED
  BY <1>1, <1>2, <1>3, <1>4, FoundKeeps

LEMMA ReturnKeeps ==
  ASSUME IInv, NEW t \in Threads, Return(t)
  PROVE  IInv'
<1>1. /\ At(t, "found")
      /\ call' = [call EXCEPT ![t] = Idle]
      /\ UNCHANGED <<tables, dwarfed, elfed, writer, todo, main_reached>>
  BY DEF Return
<1>2. /\ Idle \in [at : Places, addr : Addresses, found : SUBSET Ranges]
      /\ Idle.at = "idle" /\ Idle.found = {}
  BY EndAssumption DEF Idle, Places, Addresses
<1>3. /\ call' \in [Threads -> [at : Places, addr : Addresses, found : SUBSET Ranges]]
      /\ call'[t] = Idle
      /\ \A u \in Threads : u # t => call'[u] = call[u]
  BY <1>1, <1>2, CallBecomes DEF IInv
<1>4. TableOK'
  BY <1>1, TablesStay
<1>5. LoadingOK'
  BY <1>1 DEF IInv, LoadingOK, tables
<1>6. ASSUME NEW u \in Threads PROVE CallOK(u)' /\ FoundOK(u)' /\ FindsWhatThereIs(u)'
  <2>1. CallOK(u) /\ FoundOK(u) /\ FindsWhatThereIs(u) /\ CallOK(t)
    BY DEF IInv, CallsOK
  <2>2. CallOK(u)'
    BY <1>1, <1>2, <1>3, <2>1 DEF CallOK, At
  <2>3. FoundOK(u)'
    BY <1>1, <1>2, <1>3, <2>1 DEF FoundOK, At, tables
  <2>4. FindsWhatThereIs(u)'
    BY <1>1, <1>2, <1>3, <2>1 DEF FindsWhatThereIs, At, tables
  <2> QED
    BY <2>2, <2>3, <2>4
<1> QED
  BY <1>3, <1>4, <1>5, <1>6 DEF IInv, CallsOK

LEMMA MainReachedKeeps ==
  ASSUME IInv, MainReached
  PROVE  IInv'
<1>1. \A u \in Threads : At(u, "idle")
  BY DEF IInv, CallsOK, CallOK, MainReached
<1>2. TableOK'
  BY TablesStay DEF MainReached
<1>3. LoadingOK'
  BY DEF MainReached, IInv, LoadingOK, tables
<1>4. ASSUME NEW u \in Threads PROVE CallOK(u)' /\ FoundOK(u)' /\ FindsWhatThereIs(u)'
  BY <1>1 DEF MainReached, IInv, CallsOK, CallOK, FoundOK, FindsWhatThereIs, At, tables
<1> QED
  BY <1>2, <1>3, <1>4 DEF MainReached, IInv, CallsOK
-----------------------------------------------------------------------------
LEMMA StutterKeeps ==
  ASSUME IInv, UNCHANGED vars
  PROVE  IInv'
<1>1. TableOK'
  BY TablesStay DEF vars, tables
<1>2. LoadingOK' /\ CallsOK'
  BY DEF vars, IInv, LoadingOK, CallsOK, CallOK, FoundOK, FindsWhatThereIs, At
<1> QED
  BY <1>1, <1>2 DEF IInv

(***************************************************************************)
(* The inductive invariant: every inserted symbol has an owner at each of  *)
(* its addresses, only one thread loads and only once, what a thread found *)
(* is in the table, and nothing that was found is what is loaded.          *)
(***************************************************************************)
THEOREM Inductive == Spec => []IInv
<1>1. IInv /\ [Next]_vars => IInv'
  <2> SUFFICES ASSUME IInv, [Next]_vars PROVE IInv'
    OBVIOUS
  <2> QED
    BY FindKeeps, RealizeKeeps, LoadDwarfKeeps, DwarfLoadedKeeps, FindSymbolKeeps, ElfLoadedKeeps,
       InsertKeeps, ReturnKeeps, MainReachedKeeps, StutterKeeps DEF Next
<1> QED
  BY InitInv, <1>1, PTL DEF Spec

(***************************************************************************)
(* Every variable keeps its type, and the table its shape: fragments of    *)
(* symbols that do not overlap.                                            *)
(***************************************************************************)
THEOREM TypeCorrect == Spec => []TypeOK
BY Inductive, InvImplies, PTL

(***************************************************************************)
(* The SymbolRange that a thread uses without a lock stays in the table.   *)
(***************************************************************************)
THEOREM WhatIsFoundStays == Spec => []FoundStays
BY Inductive, InvImplies, PTL

(***************************************************************************)
(* A lookup finds a symbol when one covers the address, and one of the     *)
(* debug information if it has one.                                        *)
(***************************************************************************)
THEOREM LookupsFind == Spec => []LookupFinds
BY Inductive, InvImplies, PTL

(***************************************************************************)
(* No range of the table has a name that was freed.                        *)
(***************************************************************************)
THEOREM AllNamesExist == Spec => []NamesExist
BY Inductive, InvImplies, PTL
-----------------------------------------------------------------------------
(***************************************************************************)
(* Every step of the table is a step of AddressOwners or changes nothing   *)
(* there.                                                                  *)
(***************************************************************************)

LEMMA OwnerOfIs == \A a \in Addresses : OwnerOf(a) = Owner(table, a) /\ OwnerOf(a)' = Owner(table', a)
BY DEF OwnerOf, Owner

LEMMA SameOwners ==
  ASSUME UNCHANGED table
  PROVE  UNCHANGED [a \in Addresses |-> OwnerOf(a)]
BY DEF OwnerOf

LEMMA InsertAdds ==
  ASSUME IInv, NEW s \in Symbols, s.start < s.end, table' = WithInserted(s)
  PROVE  Owners!Add(s)
<1>1. WellFormed(table)
  BY DEF IInv, TableOK
<1> DEFINE old == [a \in Addresses |-> OwnerOf(a)]
<1>2. ASSUME NEW a \in Addresses
      PROVE  OwnerOf(a)' = IF Owners!Covers(s, a) /\ (old[a] = NULL \/ Owners!Better(s, old[a]))
                           THEN s ELSE old[a]
  BY <1>1, OwnerOfIs, InsertedOwner
<1> QED
  BY <1>2, Zenon DEF Owners!Add

LEMMA StepRefines ==
  ASSUME IInv, [Next]_vars
  PROVE  [Owners!Next]_[a \in Addresses |-> OwnerOf(a)]
<1>1. CASE UNCHANGED table
  BY <1>1, SameOwners
<1>2. CASE \E t \in Threads : Insert(t)
  <2>1. PICK s \in todo : IF s.start < s.end THEN table' = WithInserted(s) ELSE UNCHANGED table
    BY <1>2 DEF Insert, WithInserted
  <2>2. s \in Symbols
    BY DEF IInv, TableOK, LoadingOK
  <2>3. CASE s.start < s.end
    BY <2>1, <2>2, <2>3, InsertAdds DEF Owners!Next
  <2>4. CASE ~ (s.start < s.end)
    BY <1>1, <2>1, <2>4
  <2> QED
    BY <2>3, <2>4
<1>3. UNCHANGED table \/ \E t \in Threads : Insert(t)
  BY DEF Next, vars, tables, MainReached, Find, Realize, LoadDwarf, DwarfLoaded, FindSymbol,
         ElfLoaded, Return
<1> QED
  BY <1>1, <1>2, <1>3

(***************************************************************************)
(* The table of ranges implements AddressOwners: whatever the order that   *)
(* the symbols come in, and however they overlap, every address belongs to *)
(* the best symbol so far.                                                 *)
(***************************************************************************)
THEOREM TableImplementsOwners == Spec => ImplementsAddressOwners
<1>1. Init => Owners!Init
  BY DEF Init, Owners!Init, OwnerOf
<1>2. IInv /\ [Next]_vars => [Owners!Next]_[a \in Addresses |-> OwnerOf(a)]
  BY StepRefines
<1> QED
  BY Inductive, <1>1, <1>2, PTL DEF Spec, ImplementsAddressOwners, Owners!Spec
=============================================================================
