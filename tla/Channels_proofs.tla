---------------------------- MODULE Channels_proofs ----------------------------
(***************************************************************************)
(* The registry of channels and the off counters of every thread, for any   *)
(* number of threads and channels, any labels and any rc files: the list    *)
(* stays sorted, the counters stay in range, init() turns on what the files *)
(* say and a thread copies the main thread or starts as the files say.      *)
(* First what match() and the reader of the rc file do, for all masks,      *)
(* names, channels and files: match() is true for the names that the mask   *)
(* covers, and the channels that are on behind a line of a file are those   *)
(* that Means says.  What a recursive definition or a fold does is proved   *)
(* by showing that a set of numbers holds 0 and with n also n + 1.          *)
(***************************************************************************)
EXTENDS Channels, FiniteSetTheorems, WellFoundedInduction, TLAPS

\* A set that holds 0 and every successor of its elements holds all natural numbers.
LEMMA Induction ==
  ASSUME NEW S, 0 \in S, \A n \in Nat : n \in S => n + 1 \in S
  PROVE  Nat \subseteq S
<1> DEFINE T == Nat \ S
<1> SUFFICES ASSUME T # {} PROVE FALSE
  OBVIOUS
<1>1. PICK x \in T : \A y \in T : ~ (<<y, x>> \in OpToRel(<, Nat))
  <2>1. T \subseteq Nat
    OBVIOUS
  <2> HIDE DEF T
  <2> QED
    BY <2>1, WFMin, NatLessThanWellFounded, Zenon
<1>2. \A y \in T : ~ (y < x)
  BY <1>1 DEF OpToRel
<1>3. x # 0 /\ x - 1 \in Nat /\ x - 1 < x
  OBVIOUS
<1>4. x - 1 \in S
  BY <1>2, <1>3
<1> QED
  BY <1>3, <1>4

\* A set of natural numbers that is not empty has a least element.
LEMMA FirstExists ==
  ASSUME NEW w \in SUBSET Nat, w # {}
  PROVE  \E x \in w : \A y \in w : x <= y
<1>1. PICK x \in w : \A y \in w : ~ (<<y, x>> \in OpToRel(<, Nat))
  BY WFMin, NatLessThanWellFounded, Zenon
<1>2. \A y \in w : ~ (y < x)
  BY <1>1 DEF OpToRel
<1>3. \A y \in w : y \in Nat
  OBVIOUS
<1>4. \A y \in w : x <= y
  BY <1>2, <1>3
<1> QED
  BY <1>4

-----------------------------------------------------------------------------
(***************************************************************************)
(* match() is what a mask means.  From(mask, name, m, n): the mask from     *)
(* position m on stands for the name from position n on.  It solves the    *)
(* equation that defines match(), and no other function does.              *)
(***************************************************************************)
Stands(mask, name, place, i) ==
  IF mask[i] = Star THEN place[i] <= place[i + 1]
  ELSE place[i + 1] = place[i] + 1 /\ mask[i] = name[place[i]]
Places(mask, name) == [1 .. Len(mask) + 1 -> 1 .. Len(name) + 1]
StandsFrom(mask, name, place, m, n) ==
  /\ place \in Places(mask, name) /\ place[m] = n /\ place[Len(mask) + 1] = Len(name) + 1
  /\ \A i \in m .. Len(mask) : Stands(mask, name, place, i)
From(mask, name, m, n) == \E place : StandsFrom(mask, name, place, m, n)

\* Where the parts begin that stars stand for rises.
LEMMA PlacesRise ==
  ASSUME NEW M \in Nat, NEW place, \A i \in 1 .. M + 1 : place[i] \in Int, NEW m \in 1 .. M + 1,
         \A i \in m .. M : place[i] <= place[i + 1]
  PROVE  \A j \in m .. M + 1 : place[m] <= place[j]
<1> DEFINE S == {k \in Nat : m + k <= M + 1 => place[m] <= place[m + k]}
<1>1. 0 \in S
  OBVIOUS
<1>2. ASSUME NEW k \in Nat, k \in S PROVE k + 1 \in S
  <2> SUFFICES ASSUME m + (k + 1) <= M + 1 PROVE place[m] <= place[m + (k + 1)]
    OBVIOUS
  <2>1. m + k \in m .. M /\ place[m] <= place[m + k] /\ m + (k + 1) = (m + k) + 1
    BY <1>2
  <2>2. place[m + k] <= place[(m + k) + 1]
    BY <2>1
  <2>3. place[m] \in Int /\ place[m + k] \in Int /\ place[(m + k) + 1] \in Int
    BY <2>1
  <2> QED
    BY <2>1, <2>2, <2>3
<1>3. Nat \subseteq S
  <2> HIDE DEF S
  <2> QED
    BY <1>1, <1>2, Induction
<1>4. ASSUME NEW j \in m .. M + 1 PROVE place[m] <= place[j]
  <2>1. j - m \in Nat /\ m + (j - m) = j
    OBVIOUS
  <2>2. j - m \in S
    BY <1>3, <2>1
  <2> QED
    BY <2>1, <2>2
<1> QED
  BY <1>4

\* BehindStars() stops in front of the first character that is no star.
LEMMA BehindTheStars ==
  ASSUME NEW X, NEW mask \in Seq(X), NEW m \in 1 .. Len(mask), mask[m] = Star
  PROVE  LET b == BehindStars(mask, m)
         IN /\ b \in m + 1 .. Len(mask) + 1
            /\ \A j \in m .. b - 1 : mask[j] = Star
            /\ b <= Len(mask) => mask[b] # Star
<1> DEFINE M == Len(mask)
           Ends == {i \in m .. M + 1 : At(mask, i) # Star}
           b == BehindStars(mask, m)
<1>1. M \in Nat /\ DOMAIN mask = 1 .. M
  OBVIOUS
<1>2. \A i \in 1 .. M : At(mask, i) = mask[i]
  BY <1>1 DEF At
<1>3. At(mask, M + 1) # Star
  BY <1>1 DEF At, Zero, Star
<1>4. M + 1 \in Ends /\ Ends \in SUBSET Nat
  BY <1>1, <1>3
<1>5. PICK x \in Ends : \A y \in Ends : x <= y
  <2> HIDE DEF Ends
  <2> QED
    BY <1>4, FirstExists
<1>6. \A j \in m .. x - 1 : mask[j] = Star
  BY <1>1, <1>2, <1>5
<1>7. /\ b \in m .. M + 1
      /\ \A j \in m .. b - 1 : mask[j] = Star
      /\ At(mask, b) # Star
  BY <1>5, <1>6 DEF BehindStars
<1> HIDE DEF b
<1>8. b # m
  BY <1>1, <1>2, <1>7
<1> QED
  BY <1>1, <1>2, <1>7, <1>8 DEF b


\* The last position of the name: only stars are left.
LEMMA FromTheEnd ==
  ASSUME NEW X, NEW mask \in Seq(X), NEW Y, NEW name \in Seq(Y), NEW m \in 1 .. Len(mask) + 1
  PROVE  From(mask, name, m, Len(name) + 1) <=> OnlyStars(mask, m)
<1> DEFINE M == Len(mask)
           N == Len(name)
<1>1. M \in Nat /\ N \in Nat
  OBVIOUS
<1>2. ASSUME NEW place, StandsFrom(mask, name, place, m, N + 1), NEW i \in m .. M PROVE mask[i] = Star
  <2>1. /\ \A j \in 1 .. M + 1 : place[j] \in 1 .. N + 1
        /\ place[m] = N + 1 /\ \A j \in m .. M : Stands(mask, name, place, j)
    BY <1>2 DEF StandsFrom, Places
  <2>2. \A j \in 1 .. M + 1 : place[j] \in Int
    BY <1>1, <2>1
  <2> HIDE DEF M, N
  <2>3. \A j \in m .. M : place[j] <= place[j + 1]
    BY <1>1, <2>1, <2>2 DEF Stands
  <2>4. m \in 1 .. M + 1
    BY DEF M
  <2>5. \A j \in m .. M + 1 : place[m] <= place[j]
    BY <1>1, <2>2, <2>3, <2>4, PlacesRise
  <2>6. place[i] = N + 1 /\ place[i + 1] = N + 1
    BY <1>1, <1>2, <2>1, <2>4, <2>5
  <2> QED
    BY <1>1, <1>2, <2>1, <2>6 DEF Stands
<1>3. ASSUME OnlyStars(mask, m) PROVE From(mask, name, m, N + 1)
  <2> DEFINE place == [i \in 1 .. M + 1 |-> N + 1]
  <2>1. place \in Places(mask, name)
    BY <1>1 DEF Places
  <2>2. place[m] = N + 1 /\ place[M + 1] = N + 1 /\ \A i \in m .. M : place[i] = N + 1 /\ place[i + 1] = N + 1
    BY <1>1
  <2> HIDE DEF place
  <2>3. \A i \in m .. M : Stands(mask, name, place, i)
    BY <1>1, <1>3, <2>2 DEF Stands, OnlyStars
  <2>4. StandsFrom(mask, name, place, m, N + 1)
    BY <2>1, <2>2, <2>3 DEF StandsFrom
  <2> QED
    BY <2>4 DEF From
<1> QED
  BY <1>2, <1>3 DEF From, OnlyStars

\* A character of the mask that is no star stands for itself.
LEMMA FromCharacter ==
  ASSUME NEW X, NEW mask \in Seq(X), NEW Y, NEW name \in Seq(Y), NEW m \in 1 .. Len(mask),
         NEW n \in 1 .. Len(name), mask[m] # Star
  PROVE  From(mask, name, m, n) <=> name[n] = mask[m] /\ From(mask, name, m + 1, n + 1)
<1> DEFINE M == Len(mask)
           N == Len(name)
<1>1. M \in Nat /\ N \in Nat /\ m \in 1 .. M /\ n \in 1 .. N /\ m \in m .. M /\ m + 1 \in 1 .. M + 1
  OBVIOUS
<1>2. ASSUME NEW place, StandsFrom(mask, name, place, m, n)
      PROVE  name[n] = mask[m] /\ From(mask, name, m + 1, n + 1)
  <2>1. /\ place[m] = n /\ \A i \in m .. M : Stands(mask, name, place, i)
        /\ place \in Places(mask, name) /\ place[M + 1] = N + 1
    BY <1>2 DEF StandsFrom
  <2>2. place[m + 1] = n + 1 /\ mask[m] = name[n]
    BY <1>1, <2>1 DEF Stands
  <2>3. StandsFrom(mask, name, place, m + 1, n + 1)
    BY <1>1, <2>1, <2>2 DEF StandsFrom
  <2> QED
    BY <2>2, <2>3 DEF From
<1>3. ASSUME name[n] = mask[m], NEW old, StandsFrom(mask, name, old, m + 1, n + 1)
      PROVE  From(mask, name, m, n)
  <2> DEFINE place == [i \in 1 .. M + 1 |-> IF i <= m THEN n ELSE old[i]]
  <2>1. /\ \A i \in 1 .. M + 1 : old[i] \in 1 .. N + 1
        /\ old[m + 1] = n + 1 /\ old[M + 1] = N + 1
        /\ \A i \in m + 1 .. M : Stands(mask, name, old, i)
    BY <1>3 DEF StandsFrom, Places
  <2>2. place \in Places(mask, name)
    BY <1>1, <2>1 DEF Places
  <2>3. place[m] = n /\ \A i \in m + 1 .. M + 1 : place[i] = old[i]
    BY <1>1
  <2> HIDE DEF place
  <2>4. place[M + 1] = N + 1
    BY <1>1, <2>1, <2>3
  <2>5. Stands(mask, name, place, m)
    BY <1>1, <1>3, <2>1, <2>3 DEF Stands
  <2>6. ASSUME NEW i \in m + 1 .. M PROVE Stands(mask, name, place, i)
    <3>1. place[i] = old[i] /\ place[i + 1] = old[i + 1]
      BY <1>1, <2>3, <2>6
    <3> QED
      BY <2>1, <2>6, <3>1 DEF Stands
  <2>7. \A i \in m .. M : i = m \/ i \in m + 1 .. M
    BY <1>1
  <2>8. StandsFrom(mask, name, place, m, n)
    BY <2>2, <2>3, <2>4, <2>5, <2>6, <2>7 DEF StandsFrom
  <2> QED
    BY <2>8 DEF From
<1> QED
  BY <1>2, <1>3 DEF From

\* Stars stand for what is in front of the next character of the mask.
LEMMA FromStars ==
  ASSUME NEW X, NEW mask \in Seq(X), NEW Y, NEW name \in Seq(Y), NEW m \in 1 .. Len(mask),
         NEW n \in 1 .. Len(name), mask[m] = Star
  PROVE  LET b == BehindStars(mask, m)
         IN From(mask, name, m, n) <=> \/ b > Len(mask)
                                       \/ \E k \in n .. Len(name) : name[k] = mask[b] /\ From(mask, name, b, k)
<1> DEFINE M == Len(mask)
           N == Len(name)
           b == BehindStars(mask, m)
<1>1. M \in Nat /\ N \in Nat /\ m \in 1 .. M /\ n \in 1 .. N
  OBVIOUS
<1>2. b \in m + 1 .. M + 1 /\ (\A j \in m .. b - 1 : mask[j] = Star) /\ (b <= M => mask[b] # Star)
  BY BehindTheStars
<1> HIDE DEF b
<1>3. ASSUME NEW place, StandsFrom(mask, name, place, m, n), b <= M
      PROVE  \E k \in n .. N : name[k] = mask[b] /\ From(mask, name, b, k)
  <2>1. /\ \A j \in 1 .. M + 1 : place[j] \in 1 .. N + 1
        /\ place[m] = n /\ place[M + 1] = N + 1 /\ place \in Places(mask, name)
        /\ \A j \in m .. M : Stands(mask, name, place, j)
    BY <1>3 DEF StandsFrom, Places
  <2>2. \A j \in 1 .. M + 1 : place[j] \in Int
    BY <1>1, <2>1
  <2>3. m \in 1 .. M + 1 /\ b \in m .. M + 1 /\ b \in m .. M /\ b + 1 \in 1 .. M + 1
    BY <1>1, <1>2, <1>3
  <2>4. \A j \in m .. M : place[j] <= place[j + 1]
    BY <1>1, <2>1, <2>2 DEF Stands
  <2> HIDE DEF M
  <2>5. place[m] <= place[b]
    BY <1>1, <2>2, <2>3, <2>4, PlacesRise
  <2>6. place[b + 1] = place[b] + 1 /\ mask[b] = name[place[b]]
    BY <1>2, <1>3, <2>1, <2>3 DEF Stands
  <2>7. place[b] \in n .. N
    BY <1>1, <2>1, <2>2, <2>3, <2>5, <2>6
  <2>8. StandsFrom(mask, name, place, b, place[b])
    BY <1>1, <1>2, <2>1, <2>3 DEF StandsFrom, M
  <2> QED
    BY <2>6, <2>7, <2>8 DEF From
<1>4. ASSUME b > M PROVE From(mask, name, m, n)
  <2> DEFINE place == [i \in 1 .. M + 1 |-> IF i <= m THEN n ELSE N + 1]
  <2>1. place \in Places(mask, name)
    BY <1>1 DEF Places
  <2>2. place[m] = n /\ place[M + 1] = N + 1 /\ \A i \in m .. M : place[i] <= place[i + 1]
    BY <1>1
  <2> HIDE DEF place
  <2>3. \A i \in m .. M : mask[i] = Star
    BY <1>1, <1>2, <1>4
  <2>4. StandsFrom(mask, name, place, m, n)
    BY <2>1, <2>2, <2>3 DEF StandsFrom, Stands
  <2> QED
    BY <2>4 DEF From
<1>5. ASSUME b <= M, NEW k \in n .. N, name[k] = mask[b], NEW old, StandsFrom(mask, name, old, b, k)
      PROVE  From(mask, name, m, n)
  <2> DEFINE place == [i \in 1 .. M + 1 |-> IF i <= m THEN n ELSE IF i <= b THEN k ELSE old[i]]
  <2>1. /\ \A i \in 1 .. M + 1 : old[i] \in 1 .. N + 1
        /\ old[b] = k /\ old[M + 1] = N + 1
        /\ \A i \in b .. M : Stands(mask, name, old, i)
    BY <1>5 DEF StandsFrom, Places
  <2>2. place \in Places(mask, name)
    BY <1>1, <1>2, <1>5, <2>1 DEF Places
  <2>3. /\ place[m] = n
        /\ \A i \in m .. b - 1 : place[i] <= place[i + 1]
        /\ \A i \in b .. M + 1 : place[i] = old[i]
    BY <1>1, <1>2, <1>5, <2>1
  <2> HIDE DEF place
  <2>4. place[M + 1] = N + 1
    BY <1>1, <1>2, <1>5, <2>1, <2>3
  <2>5. ASSUME NEW i \in b .. M PROVE Stands(mask, name, place, i)
    <3>1. place[i] = old[i] /\ place[i + 1] = old[i + 1]
      BY <1>1, <1>2, <2>3, <2>5
    <3> QED
      BY <2>1, <2>5, <3>1 DEF Stands
  <2>6. \A i \in m .. b - 1 : Stands(mask, name, place, i)
    BY <1>2, <2>3 DEF Stands
  <2>7. \A i \in m .. M : i \in m .. b - 1 \/ i \in b .. M
    BY <1>1, <1>2
  <2>8. StandsFrom(mask, name, place, m, n)
    BY <2>2, <2>3, <2>4, <2>5, <2>6, <2>7 DEF StandsFrom
  <2> QED
    BY <2>8 DEF From
<1>6. b \in Int
  BY <1>1, <1>2
<1> QED
  BY <1>1, <1>3, <1>4, <1>5, <1>6 DEF From, b


MatchEquation(f, mask, name) ==
  f = [m \in 1 .. Len(mask) + 1 |-> [n \in 1 .. Len(name) + 1 |->
        IF n > Len(name) THEN OnlyStars(mask, m)
        ELSE IF At(mask, m) = Star
          THEN \/ BehindStars(mask, m) > Len(mask)
               \/ \E k \in n .. Len(name) : name[k] = mask[BehindStars(mask, m)] /\ f[BehindStars(mask, m)][k]
        ELSE name[n] = At(mask, m) /\ f[m + 1][n + 1]]]

\* What a mask means solves the equation of match(), position by position.
LEMMA FromEquation ==
  ASSUME NEW X, NEW mask \in Seq(X), NEW Y, NEW name \in Seq(Y), Zero \notin Y,
         NEW m \in 1 .. Len(mask) + 1, NEW n \in 1 .. Len(name) + 1
  PROVE  From(mask, name, m, n) <=>
           IF n > Len(name) THEN OnlyStars(mask, m)
           ELSE IF At(mask, m) = Star
             THEN \/ BehindStars(mask, m) > Len(mask)
                  \/ \E k \in n .. Len(name) : name[k] = mask[BehindStars(mask, m)] /\ From(mask, name, BehindStars(mask, m), k)
           ELSE name[n] = At(mask, m) /\ From(mask, name, m + 1, n + 1)
<1> DEFINE M == Len(mask)
           N == Len(name)
           b == BehindStars(mask, m)
<1>1. M \in Nat /\ N \in Nat /\ DOMAIN mask = 1 .. M /\ \A i \in 1 .. N : name[i] # Zero
  OBVIOUS
<1>2. CASE n > N
  <2>1. n = N + 1
    BY <1>1, <1>2
  <2>2. From(mask, name, m, N + 1) <=> OnlyStars(mask, m)
    BY FromTheEnd
  <2> QED
    BY <1>2, <2>1, <2>2, Zenon
<1>3. CASE n <= N /\ m <= M
  <2>1. m \in 1 .. M /\ n \in 1 .. N /\ At(mask, m) = mask[m] /\ ~ (n > N)
    BY <1>1, <1>3 DEF At
  <2>2. CASE mask[m] = Star
    <3>1. From(mask, name, m, n) <=> \/ b > M
                                     \/ \E k \in n .. N : name[k] = mask[b] /\ From(mask, name, b, k)
      BY <2>1, <2>2, FromStars, Zenon
    <3> QED
      BY <2>1, <2>2, <3>1, Zenon
  <2>3. CASE mask[m] # Star
    <3>1. From(mask, name, m, n) <=> name[n] = mask[m] /\ From(mask, name, m + 1, n + 1)
      BY <2>1, <2>3, FromCharacter, Zenon
    <3> QED
      BY <2>1, <2>3, <3>1, Zenon
  <2> QED
    BY <2>2, <2>3
<1>4. CASE n <= N /\ m > M
  <2>1. m = M + 1 /\ ~ (n > N) /\ n # N + 1 /\ m \notin DOMAIN mask /\ n \in 1 .. N
    BY <1>1, <1>4
  <2>2. At(mask, m) = Zero /\ Zero # Star
    BY <2>1 DEF At, Zero, Star
  <2>3. name[n] # At(mask, m)
    BY <1>1, <2>1, <2>2
  <2>4. ~ From(mask, name, m, n)
    BY <2>1 DEF From, StandsFrom
  <2> QED
    BY <2>1, <2>2, <2>3, <2>4, Zenon
<1>5. m \in Int /\ n \in Int
  BY <1>1
<1> QED
  BY <1>1, <1>2, <1>3, <1>4, <1>5

\* A function that solves the equation of match() says what the mask means.
LEMMA MatchIsUnique ==
  ASSUME NEW X, NEW mask \in Seq(X), NEW Y, NEW name \in Seq(Y), Zero \notin Y,
         NEW f, MatchEquation(f, mask, name)
  PROVE  f[1][1] <=> From(mask, name, 1, 1)
<1> DEFINE M == Len(mask)
           N == Len(name)
           S == {d \in Nat : \A m \in 1 .. M + 1 : m + d > M =>
                   \A n \in 1 .. N + 1 : f[m][n] <=> From(mask, name, m, n)}
<1>1. M \in Nat /\ N \in Nat /\ DOMAIN mask = 1 .. M /\ \A i \in 1 .. N : name[i] # Zero
  OBVIOUS
<1>2. ASSUME NEW m \in 1 .. M + 1, NEW n \in 1 .. N + 1
      PROVE  f[m][n] =
               IF n > N THEN OnlyStars(mask, m)
               ELSE IF At(mask, m) = Star
                 THEN \/ BehindStars(mask, m) > M
                      \/ \E k \in n .. N : name[k] = mask[BehindStars(mask, m)] /\ f[BehindStars(mask, m)][k]
               ELSE name[n] = At(mask, m) /\ f[m + 1][n + 1]
  <2> DEFINE Value(i, j) == IF j > N THEN OnlyStars(mask, i)
                            ELSE IF At(mask, i) = Star
                              THEN \/ BehindStars(mask, i) > M
                                   \/ \E k \in j .. N : name[k] = mask[BehindStars(mask, i)] /\ f[BehindStars(mask, i)][k]
                            ELSE name[j] = At(mask, i) /\ f[i + 1][j + 1]
  <2>1. f = [i \in 1 .. M + 1 |-> [j \in 1 .. N + 1 |-> Value(i, j)]]
    BY Zenon DEF MatchEquation
  <2>2. f[m][n] = Value(m, n)
    <3> HIDE DEF Value
    <3> QED
      BY <2>1
  <2> QED
    BY <2>2
<1>3. ASSUME NEW m \in 1 .. M + 1, NEW n \in 1 .. N + 1,
             \A i \in m + 1 .. M + 1 : \A k \in 1 .. N + 1 : f[i][k] <=> From(mask, name, i, k)
      PROVE  f[m][n] <=> From(mask, name, m, n)
  <2>1. From(mask, name, m, n) <=>
           IF n > N THEN OnlyStars(mask, m)
           ELSE IF At(mask, m) = Star
             THEN \/ BehindStars(mask, m) > M
                  \/ \E k \in n .. N : name[k] = mask[BehindStars(mask, m)] /\ From(mask, name, BehindStars(mask, m), k)
           ELSE name[n] = At(mask, m) /\ From(mask, name, m + 1, n + 1)
    BY FromEquation
  <2>2. CASE n > N
    BY <1>2, <2>1, <2>2
  <2>3. CASE ~ (n > N) /\ At(mask, m) = Star
    <3> DEFINE b == BehindStars(mask, m)
    <3>1. m \in 1 .. M /\ mask[m] = Star
      BY <1>1, <2>3 DEF At, Zero, Star
    <3>2. b \in m + 1 .. M + 1
      BY <3>1, BehindTheStars
    <3> HIDE DEF b
    <3>3. \A k \in n .. N : f[b][k] <=> From(mask, name, b, k)
      BY <1>1, <1>3, <3>2
    <3>4. f[m][n] = (b > M \/ \E k \in n .. N : name[k] = mask[b] /\ f[b][k])
      BY <1>2, <2>3 DEF b
    <3>5. From(mask, name, m, n) <=> (b > M \/ \E k \in n .. N : name[k] = mask[b] /\ From(mask, name, b, k))
      BY <2>1, <2>3 DEF b
    <3> QED
      BY <3>3, <3>4, <3>5
  <2>4. CASE ~ (n > N) /\ At(mask, m) # Star
    <3>1. n \in 1 .. N
      BY <1>1, <2>4
    <3>2. f[m][n] = (name[n] = At(mask, m) /\ f[m + 1][n + 1])
      BY <1>2, <2>4
    <3>3. From(mask, name, m, n) <=> name[n] = At(mask, m) /\ From(mask, name, m + 1, n + 1)
      BY <2>1, <2>4
    <3>4. CASE m <= M
      <4>1. m + 1 \in m + 1 .. M + 1 /\ n + 1 \in 1 .. N + 1
        BY <1>1, <3>1, <3>4
      <4>2. f[m + 1][n + 1] <=> From(mask, name, m + 1, n + 1)
        BY <1>3, <4>1
      <4> QED
        BY <3>2, <3>3, <4>2
    <3>5. CASE m > M
      <4>1. At(mask, m) = Zero
        BY <1>1, <3>5 DEF At
      <4> QED
        BY <1>1, <3>1, <3>2, <3>3, <4>1
    <3>6. m \in Int
      BY <1>1
    <3> QED
      BY <1>1, <3>4, <3>5, <3>6
  <2> QED
    BY <2>2, <2>3, <2>4
<1>4. 0 \in S
  <2> SUFFICES ASSUME NEW m \in 1 .. M + 1, m + 0 > M, NEW n \in 1 .. N + 1 PROVE f[m][n] <=> From(mask, name, m, n)
    OBVIOUS
  <2>1. m + 1 .. M + 1 = {}
    BY <1>1
  <2> QED
    BY <1>3, <2>1
<1>5. ASSUME NEW d \in Nat, d \in S PROVE d + 1 \in S
  <2> SUFFICES ASSUME NEW m \in 1 .. M + 1, m + (d + 1) > M, NEW n \in 1 .. N + 1
               PROVE  f[m][n] <=> From(mask, name, m, n)
    OBVIOUS
  <2>1. \A i \in m + 1 .. M + 1 : i \in 1 .. M + 1 /\ i + d > M
    BY <1>1
  <2>2. \A i \in m + 1 .. M + 1 : \A k \in 1 .. N + 1 : f[i][k] <=> From(mask, name, i, k)
    BY <1>5, <2>1
  <2> QED
    BY <1>3, <2>2
<1>6. Nat \subseteq S
  <2> HIDE DEF S
  <2> QED
    BY <1>4, <1>5, Induction
<1>7. M \in S
  BY <1>1, <1>6, Zenon
<1>8. 1 \in 1 .. M + 1 /\ 1 \in 1 .. N + 1 /\ 1 + M > M
  BY <1>1
<1> QED
  BY <1>7, <1>8

\* match() is true for the masks and names that the mask covers.
THEOREM MatchIsCovers ==
  ASSUME NEW X, NEW mask \in Seq(X), NEW Y, NEW name \in Seq(Y), Zero \notin Y
  PROVE  Match(mask, name) <=> Covers(mask, name)
<1> DEFINE M == Len(mask)
           N == Len(name)
           g == [m \in 1 .. M + 1 |-> [n \in 1 .. N + 1 |-> From(mask, name, m, n)]]
<1>1. M \in Nat /\ N \in Nat /\ DOMAIN mask = 1 .. M
  OBVIOUS
<1>2. ASSUME NEW m \in 1 .. M + 1, NEW n \in 1 .. N + 1
      PROVE  From(mask, name, m, n) <=>
               IF n > N THEN OnlyStars(mask, m)
               ELSE IF At(mask, m) = Star
                 THEN \/ BehindStars(mask, m) > M
                      \/ \E k \in n .. N : name[k] = mask[BehindStars(mask, m)] /\ g[BehindStars(mask, m)][k]
               ELSE name[n] = At(mask, m) /\ g[m + 1][n + 1]
  <2>1. From(mask, name, m, n) <=>
           IF n > N THEN OnlyStars(mask, m)
           ELSE IF At(mask, m) = Star
             THEN \/ BehindStars(mask, m) > M
                  \/ \E k \in n .. N : name[k] = mask[BehindStars(mask, m)] /\ From(mask, name, BehindStars(mask, m), k)
           ELSE name[n] = At(mask, m) /\ From(mask, name, m + 1, n + 1)
    BY FromEquation
  <2>2. CASE n > N
    BY <2>1, <2>2
  <2>3. CASE ~ (n > N) /\ At(mask, m) = Star
    <3> DEFINE b == BehindStars(mask, m)
    <3>1. m \in 1 .. M /\ mask[m] = Star
      BY <1>1, <2>3 DEF At, Zero, Star
    <3>2. b \in m + 1 .. M + 1
      BY <3>1, BehindTheStars
    <3>3. From(mask, name, m, n) <=> (b > M \/ \E k \in n .. N : name[k] = mask[b] /\ From(mask, name, b, k))
      BY <2>1, <2>3
    <3> HIDE DEF b
    <3>4. \A k \in n .. N : g[b][k] = From(mask, name, b, k)
      BY <1>1, <3>2
    <3> HIDE DEF g
    <3>5. From(mask, name, m, n) <=> (b > M \/ \E k \in n .. N : name[k] = mask[b] /\ g[b][k])
      BY <3>3, <3>4
    <3> QED
      BY <2>3, <3>5 DEF b
  <2>4. CASE ~ (n > N) /\ At(mask, m) # Star
    <3>1. m <= M \/ m > M
      BY <1>1
    <3>2. CASE m <= M
      <4>1. m + 1 \in 1 .. M + 1 /\ n + 1 \in 1 .. N + 1
        BY <1>1, <2>4, <3>2
      <4>2. g[m + 1][n + 1] = From(mask, name, m + 1, n + 1)
        BY <4>1
      <4> HIDE DEF g
      <4> QED
        BY <2>1, <2>4, <4>2
    <3>3. CASE m > M
      <4>1. At(mask, m) = Zero /\ n \in 1 .. N
        BY <1>1, <2>4, <3>3 DEF At
      <4>2. name[n] # At(mask, m)
        BY <4>1
      <4> HIDE DEF g
      <4> QED
        BY <2>1, <2>4, <4>2
    <3> QED
      BY <3>1, <3>2, <3>3
  <2> QED
    BY <2>2, <2>3, <2>4
<1>3. MatchEquation(g, mask, name)
  <2> DEFINE Value(m, n) == IF n > N THEN OnlyStars(mask, m)
                            ELSE IF At(mask, m) = Star
                              THEN \/ BehindStars(mask, m) > M
                                   \/ \E k \in n .. N : name[k] = mask[BehindStars(mask, m)] /\ g[BehindStars(mask, m)][k]
                            ELSE name[n] = At(mask, m) /\ g[m + 1][n + 1]
  <2>1. \A m \in 1 .. M + 1, n \in 1 .. N + 1 : From(mask, name, m, n) = Value(m, n)
    <3>1. \A m, n : From(mask, name, m, n) \in BOOLEAN /\ Value(m, n) \in BOOLEAN
      BY Zenon DEF From, OnlyStars
    <3> QED
      BY <1>2, <3>1, Zenon
  <2>2. g = [m \in 1 .. M + 1 |-> [n \in 1 .. N + 1 |-> Value(m, n)]]
    <3> HIDE DEF Value
    <3> QED
      BY <2>1, Zenon
  <2> HIDE DEF g
  <2> QED
    BY <2>2, Zenon DEF MatchEquation
<1>4. Match(mask, name) = (CHOOSE f : MatchEquation(f, mask, name))[1][1]
  BY Zenon DEF Match, MatchEquation
<1> HIDE DEF g
<1>5. MatchEquation((CHOOSE f : MatchEquation(f, mask, name)), mask, name)
  BY <1>3, Zenon
<1> DEFINE h == CHOOSE f : MatchEquation(f, mask, name)
<1>6. MatchEquation(h, mask, name) /\ Match(mask, name) = h[1][1]
  BY <1>4, <1>5
<1> HIDE DEF h
<1>7. h[1][1] <=> From(mask, name, 1, 1)
  BY <1>6, MatchIsUnique
<1>8. From(mask, name, 1, 1) <=> Covers(mask, name)
  BY <1>1 DEF From, StandsFrom, Places, Stands, Covers
<1> QED
  BY <1>6, <1>7, <1>8, Zenon

\* The subsets 1 .. i of 1 .. n, as a fold goes through them.
LEMMA Initial ==
  ASSUME NEW n \in Nat
  PROVE  /\ 1 .. 0 = {}
         /\ \A i \in 1 .. n : /\ 1 .. i \in SUBSET (1 .. n) /\ 1 .. i # {}
                              /\ Max(1 .. i) = i
                              /\ (1 .. i) \ {i} = 1 .. i - 1
<1>1. ASSUME NEW i \in 1 .. n PROVE Max(1 .. i) = i
  <2>1. i \in 1 .. i /\ \A y \in 1 .. i : i >= y
    OBVIOUS
  <2>2. \A x \in 1 .. i : (\A y \in 1 .. i : x >= y) => x = i
    BY <2>1
  <2> QED
    BY <2>1, <2>2 DEF Max
<1> QED
  BY <1>1

\* A set of numbers up to n that is not empty has a greatest element.
LEMMA MaxIsElement ==
  ASSUME NEW n \in Nat, NEW w \in SUBSET (1 .. n), w # {}
  PROVE  Max(w) \in w /\ \A x \in w : Max(w) >= x
<1> DEFINE Bounded == {k \in Nat : \A v \in SUBSET (1 .. k) :
                         v # {} => \E x \in v : \A y \in v : x >= y}
<1>1. 0 \in Bounded
  <2>1. SUBSET (1 .. 0) = {{}}
    OBVIOUS
  <2> QED
    BY <2>1
<1>2. ASSUME NEW k \in Nat, k \in Bounded PROVE k + 1 \in Bounded
  <2> SUFFICES ASSUME NEW v \in SUBSET (1 .. k + 1), v # {}
               PROVE  \E x \in v : \A y \in v : x >= y
    OBVIOUS
  <2>1. CASE k + 1 \in v
    BY <2>1
  <2>2. CASE k + 1 \notin v
    <3>1. v \in SUBSET (1 .. k)
      BY <2>2
    <3> QED
      BY <1>2, <3>1
  <2> QED
    BY <2>1, <2>2
<1>3. n \in Bounded
  <2> HIDE DEF Bounded
  <2> QED
    BY <1>1, <1>2, Induction
<1>4. \E x \in w : \A y \in w : x >= y
  BY <1>3
<1> QED
  BY <1>4 DEF Max

FoldEquation(g, n, base, step) ==
  g = [s \in SUBSET (1 .. n) |-> IF s = {} THEN base ELSE step[Max(s)][g[s \ {Max(s)}]]]

\* A recursive definition over the subsets of 1 .. n, from the greatest element down, has a solution.
LEMMA FoldExists ==
  ASSUME NEW n \in Nat, NEW S, NEW base \in S, NEW step \in [1 .. n -> [S -> S]]
  PROVE  \E g \in [SUBSET (1 .. n) -> S] : FoldEquation(g, n, base, step)
<1> DEFINE Solves(g, k) ==
             /\ g \in [SUBSET (1 .. k) -> S]
             /\ \A s \in SUBSET (1 .. k) : g[s] = IF s = {} THEN base ELSE step[Max(s)][g[s \ {Max(s)}]]
           Good == {k \in Nat : k <= n => \E g : Solves(g, k)}
<1>1. 0 \in Good
  <2> DEFINE g == [s \in SUBSET (1 .. 0) |-> base]
  <2>1. SUBSET (1 .. 0) = {{}}
    OBVIOUS
  <2>2. Solves(g, 0)
    BY <2>1
  <2> QED
    BY <2>2
<1>2. \A k \in Nat : k \in Good => k + 1 \in Good
  <2> SUFFICES ASSUME NEW k \in Nat, k \in Good, k + 1 <= n PROVE \E h : Solves(h, k + 1)
    <3> HIDE DEF Solves
    <3> QED
      OBVIOUS
  <2>0. PICK g : Solves(g, k)
    <3> HIDE DEF Solves
    <3> QED
      OBVIOUS
  <2> DEFINE h == [s \in SUBSET (1 .. k + 1) |->
                     IF k + 1 \in s THEN step[k + 1][g[s \ {k + 1}]] ELSE g[s]]
  <2>1. ASSUME NEW s \in SUBSET (1 .. k + 1), k + 1 \in s
        PROVE  Max(s) = k + 1 /\ s \ {k + 1} \in SUBSET (1 .. k)
    <3>1. s \subseteq Int /\ \A y \in s : k + 1 >= y
      OBVIOUS
    <3>2. \A x \in s : (\A y \in s : x >= y) => x = k + 1
      BY <2>1, <3>1
    <3>3. Max(s) = k + 1
      BY <2>1, <3>1, <3>2 DEF Max
    <3> QED
      BY <2>1, <3>3
  <2>2. ASSUME NEW s \in SUBSET (1 .. k + 1), k + 1 \notin s
        PROVE  s \in SUBSET (1 .. k)
    BY <2>2
  <2>3. h \in [SUBSET (1 .. k + 1) -> S]
    <3> SUFFICES ASSUME NEW s \in SUBSET (1 .. k + 1)
                 PROVE  (IF k + 1 \in s THEN step[k + 1][g[s \ {k + 1}]] ELSE g[s]) \in S
      OBVIOUS
    <3>1. CASE k + 1 \in s
      <4>1. g[s \ {k + 1}] \in S
        BY <2>0, <2>1, <3>1
      <4>2. step[k + 1] \in [S -> S]
        OBVIOUS
      <4> QED
        BY <3>1, <4>1, <4>2
    <3>2. CASE k + 1 \notin s
      BY <2>0, <2>2, <3>2
    <3> QED
      BY <3>1, <3>2
  <2>4. ASSUME NEW s \in SUBSET (1 .. k + 1)
        PROVE  h[s] = IF s = {} THEN base ELSE step[Max(s)][h[s \ {Max(s)}]]
    <3>1. CASE k + 1 \in s
      <4>1. h[s] = step[k + 1][g[s \ {k + 1}]]
        BY <3>1
      <4>2. h[s \ {k + 1}] = g[s \ {k + 1}]
        OBVIOUS
      <4> HIDE DEF h
      <4> QED
        BY <2>1, <3>1, <4>1, <4>2
    <3>2. CASE k + 1 \notin s
      <4>1. s \in SUBSET (1 .. k) /\ h[s] = g[s]
        BY <2>2, <3>2
      <4>2. h[s \ {Max(s)}] = g[s \ {Max(s)}]
        BY <3>2
      <4> HIDE DEF h
      <4> QED
        BY <2>0, <4>1, <4>2
    <3> QED
      BY <3>1, <3>2
  <2> HIDE DEF h
  <2>5. Solves(h, k + 1)
    BY <2>3, <2>4
  <2> QED
    BY <2>5
<1>3. n \in Good
  <2> HIDE DEF Good
  <2> QED
    BY <1>1, <1>2, Induction
<1>4. PICK g : Solves(g, n)
  <2> HIDE DEF Solves
  <2> QED
    BY <1>3
<1>5. g = [s \in SUBSET (1 .. n) |-> g[s]]
  BY <1>4
<1>6. g = [s \in SUBSET (1 .. n) |-> IF s = {} THEN base ELSE step[Max(s)][g[s \ {Max(s)}]]]
  BY <1>4, <1>5
<1> QED
  BY <1>4, <1>6 DEF FoldEquation

-----------------------------------------------------------------------------
(***************************************************************************)
(* The state of the reader is a record; what an assignment to a field of   *)
(* it does is stated once for all fields.                                  *)
(***************************************************************************)
Fields == {"count", "saved", "rcfileOn", "elfutilsOn", "defaultSet", "defaultOn", "didReset",
           "file", "ended"}
RcStates ==
  [count : [Channels -> Int], saved : Int, rcfileOn : BOOLEAN, elfutilsOn : BOOLEAN,
   defaultSet : [1 .. 2 -> BOOLEAN], defaultOn : BOOLEAN, didReset : BOOLEAN, file : 1 .. 2,
   ended : {"", "core", "fatal"}]

FieldsOf(s) ==
  /\ s.count \in [Channels -> Int] /\ s.saved \in Int
  /\ s.rcfileOn \in BOOLEAN /\ s.elfutilsOn \in BOOLEAN
  /\ s.defaultSet \in [1 .. 2 -> BOOLEAN] /\ s.defaultOn \in BOOLEAN /\ s.didReset \in BOOLEAN
  /\ s.file \in 1 .. 2 /\ s.ended \in {"", "core", "fatal"}

Put(s, field, value) == [s EXCEPT ![field] = value]

\* A state of the reader is the record of its fields.
LEMMA FieldTypes ==
  \A s : s \in RcStates <=> s = [f \in Fields |-> s[f]] /\ FieldsOf(s)
<1>1. ASSUME NEW s \in RcStates PROVE s = [f \in Fields |-> s[f]] /\ FieldsOf(s)
  BY Zenon DEF RcStates, Fields, FieldsOf
<1>2. ASSUME NEW s, s = [f \in Fields |-> s[f]], FieldsOf(s) PROVE s \in RcStates
  <2>1. [f \in Fields |-> s[f]]
          = [count |-> s.count, saved |-> s.saved, rcfileOn |-> s.rcfileOn,
             elfutilsOn |-> s.elfutilsOn, defaultSet |-> s.defaultSet, defaultOn |-> s.defaultOn,
             didReset |-> s.didReset, file |-> s.file, ended |-> s.ended]
    BY SMT DEF Fields
  <2> QED
    BY <1>2, <2>1, Zenon DEF RcStates, FieldsOf
<1> QED
  BY <1>1, <1>2, Zenon

\* An assignment changes one field and no other.
LEMMA PutField ==
  ASSUME NEW s \in RcStates, NEW f \in Fields, NEW v
  PROVE  /\ Put(s, f, v) = [g \in Fields |-> Put(s, f, v)[g]]
         /\ Put(s, f, v)[f] = v
         /\ \A g \in Fields : g # f => Put(s, f, v)[g] = s[g]
<1>1. s = [g \in Fields |-> s[g]]
  BY FieldTypes
<1>2. Put(s, f, v) = [g \in Fields |-> IF g = f THEN v ELSE s[g]]
  BY <1>1, Zenon DEF Put
<1> QED
  BY <1>2

\* An assignment of the right type leads to a state of the reader.
LEMMA PutType ==
  ASSUME NEW s \in RcStates
  PROVE  /\ \A v \in [Channels -> Int] : Put(s, "count", v) \in RcStates
         /\ \A v \in BOOLEAN, f \in {"rcfileOn", "elfutilsOn", "defaultOn", "didReset"} :
              Put(s, f, v) \in RcStates
         /\ \A v \in [1 .. 2 -> BOOLEAN] : Put(s, "defaultSet", v) \in RcStates
         /\ \A v \in 1 .. 2 : Put(s, "file", v) \in RcStates
         /\ \A v \in {"", "core", "fatal"} : Put(s, "ended", v) \in RcStates
<1>1. FieldsOf(s) /\ \A t : t \in RcStates <=> t = [f \in Fields |-> t[f]] /\ FieldsOf(t)
  BY FieldTypes
<1>2. \A v : \A f \in Fields :
        /\ Put(s, f, v) = [g \in Fields |-> Put(s, f, v)[g]]
        /\ Put(s, f, v)[f] = v
        /\ \A g \in Fields : g # f => Put(s, f, v)[g] = s[g]
  BY PutField
<1>3. ASSUME NEW f \in Fields, NEW v, FieldsOf(Put(s, f, v)) PROVE Put(s, f, v) \in RcStates
  BY <1>1, <1>2, <1>3
<1> HIDE DEF Put
<1>4. ASSUME NEW f \in Fields, NEW v
      PROVE  LET t == Put(s, f, v)
             IN /\ f # "count" => t.count = s.count
                /\ f # "saved" => t.saved = s.saved
                /\ f # "rcfileOn" => t.rcfileOn = s.rcfileOn
                /\ f # "elfutilsOn" => t.elfutilsOn = s.elfutilsOn
                /\ f # "defaultSet" => t.defaultSet = s.defaultSet
                /\ f # "defaultOn" => t.defaultOn = s.defaultOn
                /\ f # "didReset" => t.didReset = s.didReset
                /\ f # "file" => t.file = s.file
                /\ f # "ended" => t.ended = s.ended
  BY <1>2 DEF Fields
<1>5. ASSUME NEW v \in [Channels -> Int] PROVE Put(s, "count", v) \in RcStates
  <2>1. Put(s, "count", v).count = v /\ "count" \in Fields
    BY <1>2 DEF Fields
  <2> QED
    BY <1>1, <1>3, <1>4, <2>1, Zenon DEF FieldsOf
<1>6. ASSUME NEW v \in BOOLEAN PROVE Put(s, "rcfileOn", v) \in RcStates
  <2>1. Put(s, "rcfileOn", v).rcfileOn = v /\ "rcfileOn" \in Fields
    BY <1>2 DEF Fields
  <2> QED
    BY <1>1, <1>3, <1>4, <2>1, Zenon DEF FieldsOf
<1>7. ASSUME NEW v \in BOOLEAN PROVE Put(s, "elfutilsOn", v) \in RcStates
  <2>1. Put(s, "elfutilsOn", v).elfutilsOn = v /\ "elfutilsOn" \in Fields
    BY <1>2 DEF Fields
  <2> QED
    BY <1>1, <1>3, <1>4, <2>1, Zenon DEF FieldsOf
<1>8. ASSUME NEW v \in [1 .. 2 -> BOOLEAN] PROVE Put(s, "defaultSet", v) \in RcStates
  <2>1. Put(s, "defaultSet", v).defaultSet = v /\ "defaultSet" \in Fields
    BY <1>2 DEF Fields
  <2> QED
    BY <1>1, <1>3, <1>4, <2>1, Zenon DEF FieldsOf
<1>9. ASSUME NEW v \in BOOLEAN PROVE Put(s, "defaultOn", v) \in RcStates
  <2>1. Put(s, "defaultOn", v).defaultOn = v /\ "defaultOn" \in Fields
    BY <1>2 DEF Fields
  <2> QED
    BY <1>1, <1>3, <1>4, <2>1, Zenon DEF FieldsOf
<1>10. ASSUME NEW v \in BOOLEAN PROVE Put(s, "didReset", v) \in RcStates
  <2>1. Put(s, "didReset", v).didReset = v /\ "didReset" \in Fields
    BY <1>2 DEF Fields
  <2> QED
    BY <1>1, <1>3, <1>4, <2>1, Zenon DEF FieldsOf
<1>11. ASSUME NEW v \in 1 .. 2 PROVE Put(s, "file", v) \in RcStates
  <2>1. Put(s, "file", v).file = v /\ "file" \in Fields
    BY <1>2 DEF Fields
  <2> QED
    BY <1>1, <1>3, <1>4, <2>1, Zenon DEF FieldsOf
<1>12. ASSUME NEW v \in {"", "core", "fatal"} PROVE Put(s, "ended", v) \in RcStates
  <2>1. Put(s, "ended", v).ended = v /\ "ended" \in Fields
    BY <1>2 DEF Fields
  <2> QED
    BY <1>1, <1>3, <1>4, <2>1, Zenon DEF FieldsOf
<1>13. ASSUME NEW v \in BOOLEAN, NEW f \in {"rcfileOn", "elfutilsOn", "defaultOn", "didReset"}
       PROVE  Put(s, f, v) \in RcStates
  BY <1>6, <1>7, <1>9, <1>10, Zenon
<1> QED
  BY <1>5, <1>8, <1>11, <1>12, <1>13, Zenon

\* on(), off() and the rest are assignments to the counters.
LEMMA SetByPut ==
  /\ \A s, v : [s EXCEPT !.count = v] = Put(s, "count", v)
  /\ \A s, c : Off(s, c) = Put(s, "count", [s.count EXCEPT ![c] = @ + 1])
  /\ \A s, c : UntilOn(s, c) = IF s.count[c] < 0 THEN s ELSE Put(s, "count", [s.count EXCEPT ![c] = -1])
  /\ \A s, c : On(s, c) = IF s.count[c] = -1 THEN Put(s, "ended", "core")
                           ELSE Put(s, "count", [s.count EXCEPT ![c] = @ - 1])
BY Zenon DEF Put, Off, UntilOn, On, IsOn


\* Induction along the steps of a fold.
LEMMA ChainRule ==
  ASSUME NEW n \in Nat, NEW S, NEW G, NEW h, h[1 .. 0] \in S, h[1 .. 0] \in G[0],
         \A i \in 1 .. n : h[1 .. i - 1] \in S /\ h[1 .. i - 1] \in G[i - 1]
                               => h[1 .. i] \in S /\ h[1 .. i] \in G[i]
  PROVE  h[1 .. n] \in S /\ h[1 .. n] \in G[n]
<1> DEFINE Good == {i \in Nat : i <= n => h[1 .. i] \in S /\ h[1 .. i] \in G[i]}
<1>1. 0 \in Good
  OBVIOUS
<1>2. ASSUME NEW i \in Nat, i \in Good PROVE i + 1 \in Good
  <2>1. i + 1 <= n => i + 1 \in 1 .. n /\ (i + 1) - 1 = i
    OBVIOUS
  <2> QED
    BY <1>2, <2>1
<1>3. n \in Good
  <2> HIDE DEF Good
  <2> QED
    BY <1>1, <1>2, Induction
<1> QED
  BY <1>3

TurnOn(t, c) == IF LabelOf[c] = LabelOf[Elfutils] THEN t ELSE UntilOn(t, c)
TurnOff(t, c) == IF IsOn(t, c) THEN Off(t, c) ELSE t
AllTurnedOn(s, vs) == FoldLeft(TurnOn, s, vs)
AllTurnedOff(s, vs) == FoldLeft(TurnOff, s, vs)
AllProcessed(s, vs, mask, action) == FoldLeft(LAMBDA t, c : ProcessChannel(t, c, mask, action), s, vs)

\* The channels that SetAllChannelsOn goes through.
LEMMA TurnOnRule ==
  ASSUME NEW S, NEW C, NEW s \in S, NEW vs \in Seq(C),
         \A t \in S, c \in C : TurnOn(t, c) \in S,
         NEW G, s \in G[0],
         \A i \in 1 .. Len(vs) : \A t \in S : t \in G[i - 1] => TurnOn(t, vs[i]) \in G[i]
  PROVE  AllTurnedOn(s, vs) \in S /\ AllTurnedOn(s, vs) \in G[Len(vs)]
<1> DEFINE n == Len(vs)
           Solution(g) == g = [w \in SUBSET DOMAIN vs |->
                                 IF w = {} THEN s ELSE TurnOn(g[w \ {Max(w)}], vs[Max(w)])]
           step == [i \in 1 .. n |-> [t \in S |-> TurnOn(t, vs[i])]]
<1>1. n \in Nat /\ DOMAIN vs = 1 .. n /\ \A i \in 1 .. n : vs[i] \in C
  OBVIOUS
<1>2. step \in [1 .. n -> [S -> S]]
  BY <1>1
<1>3. PICK g \in [SUBSET (1 .. n) -> S] : FoldEquation(g, n, s, step)
  <2> HIDE DEF step, n
  <2> QED
    BY <1>1, <1>2, FoldExists
<1>4. Solution(g)
  <2>1. ASSUME NEW w \in SUBSET (1 .. n), w # {}
        PROVE  step[Max(w)][g[w \ {Max(w)}]] = TurnOn(g[w \ {Max(w)}], vs[Max(w)])
    <3>1. Max(w) \in 1 .. n /\ w \ {Max(w)} \in SUBSET (1 .. n)
      BY <1>1, <2>1, MaxIsElement
    <3>2. g[w \ {Max(w)}] \in S
      BY <3>1
    <3> QED
      BY <3>1, <3>2
  <2> HIDE DEF step
  <2> QED
    BY <1>1, <1>3, <2>1 DEF FoldEquation
<1>5. PICK h : Solution(h) /\ AllTurnedOn(s, vs) = h[1 .. n]
  <2>1. AllTurnedOn(s, vs) = (CHOOSE h : Solution(h))[DOMAIN vs]
    BY DEF FoldLeft, MapThenFoldSet, AllTurnedOn
  <2>2. Solution(CHOOSE h : Solution(h))
    <3> HIDE DEF Solution
    <3> QED
      BY <1>4
  <2> HIDE DEF Solution
  <2> QED
    BY <1>1, <2>1, <2>2
<1>6. h[1 .. 0] = s /\ \A i \in 1 .. n : h[1 .. i] = TurnOn(h[1 .. i - 1], vs[i])
  <2>1. h = [w \in SUBSET (1 .. n) |-> IF w = {} THEN s ELSE TurnOn(h[w \ {Max(w)}], vs[Max(w)])]
    BY <1>1, <1>5
  <2> HIDE DEF n
  <2>2. 1 .. 0 \in SUBSET (1 .. n) /\ 1 .. 0 = {}
    BY <1>1
  <2>3. h[1 .. 0] = s
    BY <2>1, <2>2
  <2>4. ASSUME NEW i \in 1 .. n PROVE h[1 .. i] = TurnOn(h[1 .. i - 1], vs[i])
    <3>1. 1 .. i \in SUBSET (1 .. n) /\ 1 .. i # {} /\ Max(1 .. i) = i /\ (1 .. i) \ {i} = 1 .. i - 1
      BY <1>1, Initial
    <3> QED
      BY <2>1, <3>1
  <2> QED
    BY <2>3, <2>4
<1>7. \A i \in 1 .. n : h[1 .. i - 1] \in S /\ h[1 .. i - 1] \in G[i - 1] => h[1 .. i] \in S /\ h[1 .. i] \in G[i]
  BY <1>1, <1>6
<1>8. h[1 .. n] \in S /\ h[1 .. n] \in G[n]
  <2> HIDE DEF n
  <2> QED
    BY <1>1, <1>6, <1>7, ChainRule
<1> QED
  BY <1>5, <1>8

\* The channels that SetAllChannelsOff goes through.
LEMMA TurnOffRule ==
  ASSUME NEW S, NEW C, NEW s \in S, NEW vs \in Seq(C),
         \A t \in S, c \in C : TurnOff(t, c) \in S,
         NEW G, s \in G[0],
         \A i \in 1 .. Len(vs) : \A t \in S : t \in G[i - 1] => TurnOff(t, vs[i]) \in G[i]
  PROVE  AllTurnedOff(s, vs) \in S /\ AllTurnedOff(s, vs) \in G[Len(vs)]
<1> DEFINE n == Len(vs)
           Solution(g) == g = [w \in SUBSET DOMAIN vs |->
                                 IF w = {} THEN s ELSE TurnOff(g[w \ {Max(w)}], vs[Max(w)])]
           step == [i \in 1 .. n |-> [t \in S |-> TurnOff(t, vs[i])]]
<1>1. n \in Nat /\ DOMAIN vs = 1 .. n /\ \A i \in 1 .. n : vs[i] \in C
  OBVIOUS
<1>2. step \in [1 .. n -> [S -> S]]
  BY <1>1
<1>3. PICK g \in [SUBSET (1 .. n) -> S] : FoldEquation(g, n, s, step)
  <2> HIDE DEF step, n
  <2> QED
    BY <1>1, <1>2, FoldExists
<1>4. Solution(g)
  <2>1. ASSUME NEW w \in SUBSET (1 .. n), w # {}
        PROVE  step[Max(w)][g[w \ {Max(w)}]] = TurnOff(g[w \ {Max(w)}], vs[Max(w)])
    <3>1. Max(w) \in 1 .. n /\ w \ {Max(w)} \in SUBSET (1 .. n)
      BY <1>1, <2>1, MaxIsElement
    <3>2. g[w \ {Max(w)}] \in S
      BY <3>1
    <3> QED
      BY <3>1, <3>2
  <2> HIDE DEF step
  <2> QED
    BY <1>1, <1>3, <2>1 DEF FoldEquation
<1>5. PICK h : Solution(h) /\ AllTurnedOff(s, vs) = h[1 .. n]
  <2>1. AllTurnedOff(s, vs) = (CHOOSE h : Solution(h))[DOMAIN vs]
    BY DEF FoldLeft, MapThenFoldSet, AllTurnedOff
  <2>2. Solution(CHOOSE h : Solution(h))
    <3> HIDE DEF Solution
    <3> QED
      BY <1>4
  <2> HIDE DEF Solution
  <2> QED
    BY <1>1, <2>1, <2>2
<1>6. h[1 .. 0] = s /\ \A i \in 1 .. n : h[1 .. i] = TurnOff(h[1 .. i - 1], vs[i])
  <2>1. h = [w \in SUBSET (1 .. n) |-> IF w = {} THEN s ELSE TurnOff(h[w \ {Max(w)}], vs[Max(w)])]
    BY <1>1, <1>5
  <2> HIDE DEF n
  <2>2. 1 .. 0 \in SUBSET (1 .. n) /\ 1 .. 0 = {}
    BY <1>1
  <2>3. h[1 .. 0] = s
    BY <2>1, <2>2
  <2>4. ASSUME NEW i \in 1 .. n PROVE h[1 .. i] = TurnOff(h[1 .. i - 1], vs[i])
    <3>1. 1 .. i \in SUBSET (1 .. n) /\ 1 .. i # {} /\ Max(1 .. i) = i /\ (1 .. i) \ {i} = 1 .. i - 1
      BY <1>1, Initial
    <3> QED
      BY <2>1, <3>1
  <2> QED
    BY <2>3, <2>4
<1>7. \A i \in 1 .. n : h[1 .. i - 1] \in S /\ h[1 .. i - 1] \in G[i - 1] => h[1 .. i] \in S /\ h[1 .. i] \in G[i]
  BY <1>1, <1>6
<1>8. h[1 .. n] \in S /\ h[1 .. n] \in G[n]
  <2> HIDE DEF n
  <2> QED
    BY <1>1, <1>6, <1>7, ChainRule
<1> QED
  BY <1>5, <1>8

\* The channels that are compared with a mask.
LEMMA ProcessRule ==
  ASSUME NEW S, NEW C, NEW s \in S, NEW vs \in Seq(C), NEW mask, NEW action,
         \A t \in S, c \in C : ProcessChannel(t, c, mask, action) \in S,
         NEW G, s \in G[0],
         \A i \in 1 .. Len(vs) : \A t \in S : t \in G[i - 1] => ProcessChannel(t, vs[i], mask, action) \in G[i]
  PROVE  AllProcessed(s, vs, mask, action) \in S /\ AllProcessed(s, vs, mask, action) \in G[Len(vs)]
<1> DEFINE n == Len(vs)
           Solution(g) == g = [w \in SUBSET DOMAIN vs |->
                                 IF w = {} THEN s ELSE ProcessChannel(g[w \ {Max(w)}], vs[Max(w)], mask, action)]
           step == [i \in 1 .. n |-> [t \in S |-> ProcessChannel(t, vs[i], mask, action)]]
<1>1. n \in Nat /\ DOMAIN vs = 1 .. n /\ \A i \in 1 .. n : vs[i] \in C
  OBVIOUS
<1>2. step \in [1 .. n -> [S -> S]]
  BY <1>1
<1>3. PICK g \in [SUBSET (1 .. n) -> S] : FoldEquation(g, n, s, step)
  <2> HIDE DEF step, n
  <2> QED
    BY <1>1, <1>2, FoldExists
<1>4. Solution(g)
  <2>1. ASSUME NEW w \in SUBSET (1 .. n), w # {}
        PROVE  step[Max(w)][g[w \ {Max(w)}]] = ProcessChannel(g[w \ {Max(w)}], vs[Max(w)], mask, action)
    <3>1. Max(w) \in 1 .. n /\ w \ {Max(w)} \in SUBSET (1 .. n)
      BY <1>1, <2>1, MaxIsElement
    <3>2. g[w \ {Max(w)}] \in S
      BY <3>1
    <3> QED
      BY <3>1, <3>2
  <2> HIDE DEF step
  <2> QED
    BY <1>1, <1>3, <2>1 DEF FoldEquation
<1>5. PICK h : Solution(h) /\ AllProcessed(s, vs, mask, action) = h[1 .. n]
  <2>1. AllProcessed(s, vs, mask, action) = (CHOOSE h : Solution(h))[DOMAIN vs]
    BY DEF FoldLeft, MapThenFoldSet, AllProcessed
  <2>2. Solution(CHOOSE h : Solution(h))
    <3> HIDE DEF Solution
    <3> QED
      BY <1>4
  <2> HIDE DEF Solution
  <2> QED
    BY <1>1, <2>1, <2>2
<1>6. h[1 .. 0] = s /\ \A i \in 1 .. n : h[1 .. i] = ProcessChannel(h[1 .. i - 1], vs[i], mask, action)
  <2>1. h = [w \in SUBSET (1 .. n) |-> IF w = {} THEN s ELSE ProcessChannel(h[w \ {Max(w)}], vs[Max(w)], mask, action)]
    BY <1>1, <1>5
  <2> HIDE DEF n
  <2>2. 1 .. 0 \in SUBSET (1 .. n) /\ 1 .. 0 = {}
    BY <1>1
  <2>3. h[1 .. 0] = s
    BY <2>1, <2>2
  <2>4. ASSUME NEW i \in 1 .. n PROVE h[1 .. i] = ProcessChannel(h[1 .. i - 1], vs[i], mask, action)
    <3>1. 1 .. i \in SUBSET (1 .. n) /\ 1 .. i # {} /\ Max(1 .. i) = i /\ (1 .. i) \ {i} = 1 .. i - 1
      BY <1>1, Initial
    <3> QED
      BY <2>1, <3>1
  <2> QED
    BY <2>3, <2>4
<1>7. \A i \in 1 .. n : h[1 .. i - 1] \in S /\ h[1 .. i - 1] \in G[i - 1] => h[1 .. i] \in S /\ h[1 .. i] \in G[i]
  BY <1>1, <1>6
<1>8. h[1 .. n] \in S /\ h[1 .. n] \in G[n]
  <2> HIDE DEF n
  <2> QED
    BY <1>1, <1>6, <1>7, ChainRule
<1> QED
  BY <1>5, <1>8

\* The masks of a line.
LEMMA MasksRule ==
  ASSUME NEW S, NEW C, NEW s \in S, NEW masks \in Seq(C), NEW vs, NEW action,
         \A t \in S, c \in C : AllProcessed(t, vs, c, action) \in S,
         NEW G, s \in G[0],
         \A i \in 1 .. Len(masks) : \A t \in S : t \in G[i - 1] => AllProcessed(t, vs, masks[i], action) \in G[i]
  PROVE  ProcessChannels(s, vs, masks, action) \in S /\ ProcessChannels(s, vs, masks, action) \in G[Len(masks)]
<1> DEFINE n == Len(masks)
           Solution(g) == g = [w \in SUBSET DOMAIN masks |->
                                 IF w = {} THEN s ELSE AllProcessed(g[w \ {Max(w)}], vs, masks[Max(w)], action)]
           step == [i \in 1 .. n |-> [t \in S |-> AllProcessed(t, vs, masks[i], action)]]
<1>1. n \in Nat /\ DOMAIN masks = 1 .. n /\ \A i \in 1 .. n : masks[i] \in C
  OBVIOUS
<1>2. step \in [1 .. n -> [S -> S]]
  BY <1>1
<1>3. PICK g \in [SUBSET (1 .. n) -> S] : FoldEquation(g, n, s, step)
  <2> HIDE DEF step, n
  <2> QED
    BY <1>1, <1>2, FoldExists
<1>4. Solution(g)
  <2>1. ASSUME NEW w \in SUBSET (1 .. n), w # {}
        PROVE  step[Max(w)][g[w \ {Max(w)}]] = AllProcessed(g[w \ {Max(w)}], vs, masks[Max(w)], action)
    <3>1. Max(w) \in 1 .. n /\ w \ {Max(w)} \in SUBSET (1 .. n)
      BY <1>1, <2>1, MaxIsElement
    <3>2. g[w \ {Max(w)}] \in S
      BY <3>1
    <3> QED
      BY <3>1, <3>2
  <2> HIDE DEF step
  <2> QED
    BY <1>1, <1>3, <2>1 DEF FoldEquation
<1>5. PICK h : Solution(h) /\ ProcessChannels(s, vs, masks, action) = h[1 .. n]
  <2>1. ProcessChannels(s, vs, masks, action) = (CHOOSE h : Solution(h))[DOMAIN masks]
    BY DEF FoldLeft, MapThenFoldSet, ProcessChannels, AllProcessed
  <2>2. Solution(CHOOSE h : Solution(h))
    <3> HIDE DEF Solution
    <3> QED
      BY <1>4
  <2> HIDE DEF Solution
  <2> QED
    BY <1>1, <2>1, <2>2
<1>6. h[1 .. 0] = s /\ \A i \in 1 .. n : h[1 .. i] = AllProcessed(h[1 .. i - 1], vs, masks[i], action)
  <2>1. h = [w \in SUBSET (1 .. n) |-> IF w = {} THEN s ELSE AllProcessed(h[w \ {Max(w)}], vs, masks[Max(w)], action)]
    BY <1>1, <1>5
  <2> HIDE DEF n
  <2>2. 1 .. 0 \in SUBSET (1 .. n) /\ 1 .. 0 = {}
    BY <1>1
  <2>3. h[1 .. 0] = s
    BY <2>1, <2>2
  <2>4. ASSUME NEW i \in 1 .. n PROVE h[1 .. i] = AllProcessed(h[1 .. i - 1], vs, masks[i], action)
    <3>1. 1 .. i \in SUBSET (1 .. n) /\ 1 .. i # {} /\ Max(1 .. i) = i /\ (1 .. i) \ {i} = 1 .. i - 1
      BY <1>1, Initial
    <3> QED
      BY <2>1, <3>1
  <2> QED
    BY <2>3, <2>4
<1>7. \A i \in 1 .. n : h[1 .. i - 1] \in S /\ h[1 .. i - 1] \in G[i - 1] => h[1 .. i] \in S /\ h[1 .. i] \in G[i]
  BY <1>1, <1>6
<1>8. h[1 .. n] \in S /\ h[1 .. n] \in G[n]
  <2> HIDE DEF n
  <2> QED
    BY <1>1, <1>6, <1>7, ChainRule
<1> QED
  BY <1>5, <1>8

-----------------------------------------------------------------------------
(***************************************************************************)
(* What a step of the reader does, in terms of the set of channels that are *)
(* on.  ELFUTILS is on when it is to be turned on at the end.              *)
(***************************************************************************)
OnlyChanges(s, t, fields) == \A f \in Fields \ fields : t[f] = s[f]
Sound(s) ==
  /\ s \in RcStates
  /\ \A c \in Channels : s.count[c] >= -1
  /\ s.count[Elfutils] >= 0

ElfutilsAlone == \A c \in Channels : LabelOf[c] = LabelOf[Elfutils] => c = Elfutils
OnIn(s) == {c \in Channels \ {Rcfile} : IF c = Elfutils THEN s.elfutilsOn ELSE s.count[c] < 0}

\* What the reader does to a set of channels that are on is only exact when no
\* other channel is called ELFUTILS and WARNING was not turned off twice.
Known(s) == ElfutilsAlone /\ s.count[Warning] <= 0

\* From s to t no more than the channels that are on has changed, to on.
Sets(s, t, on) ==
  /\ Sound(t)
  /\ OnlyChanges(s, t, {"count", "elfutilsOn"})
  /\ t.count[Rcfile] = s.count[Rcfile]
  /\ Known(s) => OnIn(t) = on /\ t.count[Warning] <= 0

Elsewhere(t, u, c) == \A d \in Channels \ {c} : u.count[d] = t.count[d]

\* What off(), on() and the loop until on do to one counter.
LEMMA CountSteps ==
  ASSUME NEW t \in RcStates, NEW c \in Channels
  PROVE  /\ t.count \in [Channels -> Int]
         /\ UntilOn(t, c) \in RcStates /\ OnlyChanges(t, UntilOn(t, c), {"count"})
         /\ Elsewhere(t, UntilOn(t, c), c)
         /\ UntilOn(t, c).count[c] = IF t.count[c] < 0 THEN t.count[c] ELSE -1
         /\ Off(t, c) \in RcStates /\ OnlyChanges(t, Off(t, c), {"count"})
         /\ Elsewhere(t, Off(t, c), c) /\ Off(t, c).count[c] = t.count[c] + 1
         /\ On(t, c) \in RcStates
         /\ t.count[c] # -1 => /\ OnlyChanges(t, On(t, c), {"count"})
                               /\ Elsewhere(t, On(t, c), c) /\ On(t, c).count[c] = t.count[c] - 1
<1>1. t.count \in [Channels -> Int]
  BY FieldTypes DEF FieldsOf
<1>2. UntilOn(t, c) \in RcStates /\ Off(t, c) \in RcStates /\ On(t, c) \in RcStates
  <2>1. /\ [t.count EXCEPT ![c] = -1] \in [Channels -> Int]
        /\ [t.count EXCEPT ![c] = @ + 1] \in [Channels -> Int]
        /\ [t.count EXCEPT ![c] = @ - 1] \in [Channels -> Int]
    BY <1>1
  <2>2. \A m \in [Channels -> Int] : Put(t, "count", m) \in RcStates
    BY PutType
  <2>3. Put(t, "ended", "core") \in RcStates
    BY PutType
  <2> QED
    BY <2>1, <2>2, <2>3, SetByPut
<1>3. \A v : Put(t, "count", v).count = v /\ OnlyChanges(t, Put(t, "count", v), {"count"})
  BY PutField DEF Fields, OnlyChanges
<1>4. ASSUME NEW k \in Int, NEW u, u.count = [t.count EXCEPT ![c] = k]
      PROVE  Elsewhere(t, u, c) /\ u.count[c] = k
  BY <1>1, <1>4 DEF Elsewhere
<1>5. /\ OnlyChanges(t, UntilOn(t, c), {"count"}) /\ Elsewhere(t, UntilOn(t, c), c)
      /\ UntilOn(t, c).count[c] = IF t.count[c] < 0 THEN t.count[c] ELSE -1
  <2>1. CASE t.count[c] < 0
    <3>1. UntilOn(t, c) = t
      BY <2>1, SetByPut
    <3> QED
      BY <2>1, <3>1 DEF OnlyChanges, Elsewhere
  <2>2. CASE ~ t.count[c] < 0
    <3>1. UntilOn(t, c) = Put(t, "count", [t.count EXCEPT ![c] = -1])
      BY <2>2, SetByPut
    <3>2. UntilOn(t, c).count = [t.count EXCEPT ![c] = -1]
      BY <1>3, <3>1
    <3>3. Elsewhere(t, UntilOn(t, c), c) /\ UntilOn(t, c).count[c] = -1
      BY <1>4, <3>2
    <3> QED
      BY <1>3, <2>2, <3>1, <3>3
  <2> QED
    BY <2>1, <2>2
<1>6. /\ OnlyChanges(t, Off(t, c), {"count"})
      /\ Elsewhere(t, Off(t, c), c) /\ Off(t, c).count[c] = t.count[c] + 1
  <2>1. Off(t, c) = Put(t, "count", [t.count EXCEPT ![c] = @ + 1])
    BY SetByPut
  <2>2. Off(t, c).count = [t.count EXCEPT ![c] = t.count[c] + 1]
    BY <1>3, <2>1
  <2>3. t.count[c] + 1 \in Int
    BY <1>1
  <2>4. Elsewhere(t, Off(t, c), c) /\ Off(t, c).count[c] = t.count[c] + 1
    BY <1>4, <2>2, <2>3
  <2> QED
    BY <1>3, <2>1, <2>4
<1>7. ASSUME t.count[c] # -1
      PROVE  /\ OnlyChanges(t, On(t, c), {"count"})
             /\ Elsewhere(t, On(t, c), c) /\ On(t, c).count[c] = t.count[c] - 1
  <2>1. On(t, c) = Put(t, "count", [t.count EXCEPT ![c] = @ - 1])
    BY <1>7, SetByPut
  <2>2. On(t, c).count = [t.count EXCEPT ![c] = t.count[c] - 1]
    BY <1>3, <2>1
  <2>3. t.count[c] - 1 \in Int
    BY <1>1
  <2>4. Elsewhere(t, On(t, c), c) /\ On(t, c).count[c] = t.count[c] - 1
    BY <1>4, <2>2, <2>3
  <2> QED
    BY <1>3, <2>1, <2>4
<1> QED
  BY <1>1, <1>2, <1>5, <1>6, <1>7

\* What an assignment to a flag of the reader does.
LEMMA FlagSteps ==
  ASSUME NEW t \in RcStates
  PROVE  /\ \A v \in BOOLEAN, f \in {"rcfileOn", "elfutilsOn", "defaultOn", "didReset"} :
              LET u == Put(t, f, v)
              IN u \in RcStates /\ u[f] = v /\ OnlyChanges(t, u, {f})
         /\ \A v \in {"core", "fatal"} :
              LET u == Put(t, "ended", v)
              IN u \in RcStates /\ u.ended = v /\ OnlyChanges(t, u, {"ended"})
         /\ \A i \in 1 .. 2 :
              LET u == Put(t, "defaultSet", [t.defaultSet EXCEPT ![i] = TRUE])
              IN /\ u \in RcStates /\ OnlyChanges(t, u, {"defaultSet"})
                 /\ \A j \in 1 .. 2 : u.defaultSet[j] <=> j = i \/ t.defaultSet[j]
<1>1. \A v : \A f \in Fields : Put(t, f, v)[f] = v /\ OnlyChanges(t, Put(t, f, v), {f})
  BY PutField DEF OnlyChanges
<1>2. \A v \in BOOLEAN, f \in {"rcfileOn", "elfutilsOn", "defaultOn", "didReset"} :
         Put(t, f, v) \in RcStates /\ f \in Fields
  BY PutType, Zenon DEF Fields
<1>3. \A v \in {"core", "fatal"} : Put(t, "ended", v) \in RcStates
  BY PutType
<1>4. \A i \in 1 .. 2 : Put(t, "defaultSet", [t.defaultSet EXCEPT ![i] = TRUE]) \in RcStates
  <2>1. t.defaultSet \in [1 .. 2 -> BOOLEAN]
    BY FieldTypes DEF FieldsOf
  <2>2. \A i \in 1 .. 2 : [t.defaultSet EXCEPT ![i] = TRUE] \in [1 .. 2 -> BOOLEAN]
    BY <2>1
  <2> QED
    BY <2>2, PutType
<1>5. "ended" \in Fields /\ "defaultSet" \in Fields
  BY DEF Fields
<1>6. \A i \in 1 .. 2 : LET v == [t.defaultSet EXCEPT ![i] = TRUE]
                         IN \A j \in 1 .. 2 : v[j] <=> j = i \/ t.defaultSet[j]
  <2>1. t.defaultSet \in [1 .. 2 -> BOOLEAN]
    BY FieldTypes DEF FieldsOf
  <2> QED
    BY <2>1
<1>7. ASSUME NEW i \in 1 .. 2
      PROVE  LET u == Put(t, "defaultSet", [t.defaultSet EXCEPT ![i] = TRUE])
             IN /\ u \in RcStates /\ OnlyChanges(t, u, {"defaultSet"})
                /\ \A j \in 1 .. 2 : u.defaultSet[j] <=> j = i \/ t.defaultSet[j]
  <2> DEFINE v == [t.defaultSet EXCEPT ![i] = TRUE]
             u == Put(t, "defaultSet", v)
  <2>1. \A j \in 1 .. 2 : v[j] <=> j = i \/ t.defaultSet[j]
    BY <1>6
  <2>2. u \in RcStates
    BY <1>4
  <2> HIDE DEF v
  <2>3. u.defaultSet = v /\ OnlyChanges(t, u, {"defaultSet"})
    BY <1>1, <1>5, Zenon
  <2> HIDE DEF u
  <2>4. \A j \in 1 .. 2 : u.defaultSet[j] <=> j = i \/ t.defaultSet[j]
    BY <2>1, <2>3
  <2> QED
    BY <2>2, <2>3, <2>4, Zenon DEF u, v
<1> HIDE DEF Put, Fields, OnlyChanges
<1>8. "ended" \in Fields /\ \A v : Put(t, "ended", v).ended = v /\ OnlyChanges(t, Put(t, "ended", v), {"ended"})
  BY <1>1, <1>5, Zenon
<1>9. \A v \in BOOLEAN, f \in {"rcfileOn", "elfutilsOn", "defaultOn", "didReset"} :
         Put(t, f, v) \in RcStates /\ Put(t, f, v)[f] = v /\ OnlyChanges(t, Put(t, f, v), {f})
  BY <1>1, <1>2, Zenon
<1> QED
  BY <1>3, <1>7, <1>8, <1>9, Zenon

\* A step that counts for one channel, not dc::rcfile.
LEMMA OneCount ==
  ASSUME NEW s, NEW t, Sound(t), NEW on, Sets(s, t, on), NEW c \in Channels \ {Rcfile},
         NEW u \in RcStates, OnlyChanges(t, u, {"count"}), u.count[c] >= -1,
         Elsewhere(t, u, c),
         c = Elfutils => u.count[c] >= 0, Known(s) /\ c = Warning => u.count[c] <= 0
  PROVE  /\ c = Elfutils => Sets(s, u, on)
         /\ c # Elfutils /\ u.count[c] < 0 => Sets(s, u, on \cup {c})
         /\ c # Elfutils /\ u.count[c] >= 0 => Sets(s, u, on \ {c})
<1>1. t.count \in [Channels -> Int] /\ u.count \in [Channels -> Int] /\ Elfutils \in Channels /\ Rcfile \in Channels /\ Warning \in Channels
  BY FieldTypes, ChannelsAssumption DEF FieldsOf, Sound
<1>2. Sound(u)
  BY <1>1 DEF Sound, Elsewhere
<1>3. OnlyChanges(s, u, {"count", "elfutilsOn"})
  BY DEF OnlyChanges, Sets
<1>4. u.count[Rcfile] = s.count[Rcfile]
  BY <1>1 DEF Sets, Elsewhere
<1>5. u.elfutilsOn = t.elfutilsOn
  BY DEF OnlyChanges, Fields
<1>6. ASSUME Known(s)
      PROVE  /\ OnIn(u) = IF c = Elfutils THEN on ELSE IF u.count[c] < 0 THEN on \cup {c} ELSE on \ {c}
             /\ u.count[Warning] <= 0
  <2>1. OnIn(t) = on
    BY <1>6 DEF Sets
  <2>2. u.count[Warning] <= 0
    BY <1>1, <1>6 DEF Sets, Elsewhere
  <2>3. ASSUME NEW d \in Channels \ {Rcfile}
        PROVE  d \in OnIn(u) <=> d \in IF c = Elfutils THEN on ELSE IF u.count[c] < 0 THEN on \cup {c} ELSE on \ {c}
    BY <1>1, <1>5, <2>1 DEF OnIn, Elsewhere
  <2>4. on \subseteq Channels \ {Rcfile} /\ OnIn(u) \subseteq Channels \ {Rcfile}
    BY <2>1 DEF OnIn
  <2> QED
    BY <2>2, <2>3, <2>4
<1>7. c = Elfutils => Sets(s, u, on)
  BY <1>2, <1>3, <1>4, <1>6 DEF Sets
<1>8. c # Elfutils /\ u.count[c] < 0 => Sets(s, u, on \cup {c})
  BY <1>2, <1>3, <1>4, <1>6 DEF Sets
<1>9. c # Elfutils /\ u.count[c] >= 0 => Sets(s, u, on \ {c})
  BY <1>1, <1>2, <1>3, <1>4, <1>6 DEF Sets
<1> QED
  BY <1>7, <1>8, <1>9

\* ELFUTILS is on or off by the flag that is kept for the end.
LEMMA ElfutilsSet ==
  ASSUME NEW s, NEW t, NEW on, Sets(s, t, on), NEW v \in BOOLEAN
  PROVE  Sets(s, Put(t, "elfutilsOn", v), IF v THEN on \cup {Elfutils} ELSE on \ {Elfutils})
<1> DEFINE u == Put(t, "elfutilsOn", v)
<1>1. u \in RcStates /\ u.elfutilsOn = v /\ OnlyChanges(t, u, {"elfutilsOn"})
  BY FlagSteps, Zenon DEF Sets, Sound
<1> HIDE DEF u
<1>2. u.count = t.count
  BY <1>1 DEF OnlyChanges, Fields
<1>3. Sound(u) /\ OnlyChanges(s, u, {"count", "elfutilsOn"}) /\ u.count[Rcfile] = s.count[Rcfile]
  BY <1>1, <1>2 DEF Sets, Sound, OnlyChanges
<1>4. ASSUME Known(s)
      PROVE  OnIn(u) = (IF v THEN on \cup {Elfutils} ELSE on \ {Elfutils}) /\ u.count[Warning] <= 0
  <2>1. OnIn(t) = on /\ t.count[Warning] <= 0
    BY <1>4 DEF Sets
  <2>2. Elfutils \in Channels \ {Rcfile}
    BY ChannelsAssumption
  <2>3. CASE v
    <3>1. u.elfutilsOn
      BY <1>1, <2>3
    <3> QED
      BY <1>2, <2>1, <2>2, <2>3, <3>1 DEF OnIn
  <2>4. CASE ~ v
    <3>1. ~ u.elfutilsOn
      BY <1>1, <2>4
    <3> QED
      BY <1>2, <2>1, <2>2, <2>4, <3>1 DEF OnIn
  <2> QED
    BY <2>3, <2>4
<1> QED
  BY <1>3, <1>4 DEF Sets, u

\* Two steps that change the channels that are on.
LEMMA SetsThen ==
  ASSUME NEW s, NEW t, NEW u, NEW on, NEW then, NEW result, Sets(s, t, on), Sets(t, u, then),
         Known(s) /\ OnIn(t) = on => then = result
  PROVE  Sets(s, u, result)
BY DEF Sets, OnlyChanges, Known

\* A step that does nothing.
LEMMA SetsNothing ==
  ASSUME NEW s, Sound(s)
  PROVE  Sets(s, s, OnIn(s))
BY DEF Sets, OnlyChanges, Known

Change(action, on, channels) ==
  IF action = "on" THEN on \cup channels
  ELSE IF action = "off" THEN on \ channels
  ELSE (on \ channels) \cup (channels \ on)

Actions == {"on", "off", "toggle"}
Named(mask, channels) == {c \in channels : Match(mask, LabelOf[c])}

\* process_channels() for ELFUTILS, as assignments.
LEMMA ElfutilsByPut ==
  \A s, action : ProcessElfutils(s, action) =
     IF ~ s.elfutilsOn /\ action \in {"on", "toggle"} THEN Put(s, "elfutilsOn", TRUE)
     ELSE IF s.elfutilsOn /\ action \in {"off", "toggle"} THEN Off(Put(s, "elfutilsOn", FALSE), Elfutils)
     ELSE s
BY Zenon DEF ProcessElfutils, Put

\* process_channels() turns ELFUTILS on, off or over.
LEMMA ElfutilsOne ==
  ASSUME NEW s, Sound(s), NEW action \in Actions
  PROVE  Sets(s, ProcessElfutils(s, action), Change(action, OnIn(s), {Elfutils}))
<1>1. Elfutils \in Channels \ {Rcfile} /\ s.elfutilsOn \in BOOLEAN /\ s \in RcStates
  BY FieldTypes, ChannelsAssumption DEF FieldsOf, Sound
<1>2. s.elfutilsOn <=> Elfutils \in OnIn(s)
  BY <1>1 DEF OnIn
<1>3. Sets(s, s, OnIn(s))
  BY SetsNothing
<1>4. CASE ~ s.elfutilsOn /\ action \in {"on", "toggle"}
  <2>1. ProcessElfutils(s, action) = Put(s, "elfutilsOn", TRUE)
    BY <1>4, ElfutilsByPut
  <2>2. Sets(s, Put(s, "elfutilsOn", TRUE), OnIn(s) \cup {Elfutils})
    BY <1>3, ElfutilsSet
  <2>3. Change(action, OnIn(s), {Elfutils}) = OnIn(s) \cup {Elfutils}
    BY <1>2, <1>4 DEF Change
  <2> QED
    BY <2>1, <2>2, <2>3
<1>5. CASE s.elfutilsOn /\ action \in {"off", "toggle"}
  <2> DEFINE t == Put(s, "elfutilsOn", FALSE)
             u == Off(t, Elfutils)
  <2>1. ProcessElfutils(s, action) = u
    BY <1>5, ElfutilsByPut
  <2>2. Sets(s, t, OnIn(s) \ {Elfutils})
    BY <1>3, ElfutilsSet
  <2>3. t \in RcStates /\ Sound(t)
    BY <2>2 DEF Sets, Sound
  <2> HIDE DEF t
  <2>4. /\ u \in RcStates /\ OnlyChanges(t, u, {"count"}) /\ t.count \in [Channels -> Int]
        /\ Elsewhere(t, u, Elfutils) /\ u.count[Elfutils] = t.count[Elfutils] + 1
    BY <1>1, <2>3, CountSteps
  <2> HIDE DEF u
  <2>5. u.count[Elfutils] >= -1 /\ u.count[Elfutils] >= 0 /\ Elsewhere(t, u, Elfutils)
    BY <1>1, <2>3, <2>4 DEF Sound
  <2>6. Elfutils # Warning
    BY ChannelsAssumption
  <2>7. Sets(s, u, OnIn(s) \ {Elfutils})
    BY <1>1, <2>2, <2>3, <2>4, <2>5, <2>6, OneCount, Zenon
  <2>8. Change(action, OnIn(s), {Elfutils}) = OnIn(s) \ {Elfutils}
    BY <1>2, <1>5 DEF Change
  <2> QED
    BY <2>1, <2>7, <2>8
<1>6. CASE /\ ~ (~ s.elfutilsOn /\ action \in {"on", "toggle"})
           /\ ~ (s.elfutilsOn /\ action \in {"off", "toggle"})
  <2>1. ProcessElfutils(s, action) = s
    BY <1>6, ElfutilsByPut
  <2>2. Change(action, OnIn(s), {Elfutils}) = OnIn(s)
    BY <1>1, <1>2, <1>6 DEF Change, Actions
  <2> QED
    BY <1>3, <2>1, <2>2
<1> QED
  BY <1>4, <1>5, <1>6

\* process_channels() changes a channel as the action says when the mask matches it.
LEMMA ProcessOne ==
  ASSUME NEW s, Sound(s), NEW action \in Actions,
         NEW c \in Channels \ {Rcfile}, NEW mask
  PROVE  Sets(s, ProcessChannel(s, c, mask, action), Change(action, OnIn(s), Named(mask, {c})))
<1>1. s \in RcStates /\ s.count \in [Channels -> Int] /\ c \in Channels /\ c # Rcfile
  BY FieldTypes DEF FieldsOf, Sound
<1>2. Sets(s, s, OnIn(s))
  BY SetsNothing
<1> DEFINE u == ProcessChannel(s, c, mask, action)
<1>3. CASE ~ Match(mask, LabelOf[c])
  <2>1. u = s
    BY <1>3 DEF ProcessChannel
  <2>2. Change(action, OnIn(s), Named(mask, {c})) = OnIn(s)
    BY <1>3 DEF Change, Named
  <2> QED
    BY <1>2, <2>1, <2>2
<1>4. CASE Match(mask, LabelOf[c]) /\ LabelOf[c] = LabelOf[Elfutils]
  <2>1. u = ProcessElfutils(s, action)
    BY <1>4 DEF ProcessChannel
  <2>2. Sets(s, u, Change(action, OnIn(s), {Elfutils}))
    BY <2>1, ElfutilsOne
  <2>3. ElfutilsAlone => {Elfutils} = Named(mask, {c})
    BY <1>1, <1>4 DEF ElfutilsAlone, Named
  <2> HIDE DEF u
  <2> QED
    BY <1>2, <2>2, <2>3 DEF Sets, Known, u
<1>5. CASE Match(mask, LabelOf[c]) /\ LabelOf[c] # LabelOf[Elfutils]
  <2>1. c # Elfutils /\ Named(mask, {c}) = {c} /\ (s.count[c] < 0 <=> c \in OnIn(s))
    BY <1>1, <1>5 DEF Named, OnIn
  <2>2. CASE ~ s.count[c] < 0 /\ action \in {"on", "toggle"}
    <3>1. u = UntilOn(s, c)
      BY <1>5, <2>2 DEF ProcessChannel, IsOn
    <3>2. /\ u \in RcStates /\ OnlyChanges(s, u, {"count"})
          /\ u.count[c] = -1 /\ u.count[c] >= -1 /\ u.count[c] < 0 /\ u.count[c] <= 0 /\ Elsewhere(s, u, c)
      <4> HIDE DEF u
      <4> QED
        BY <1>1, <2>2, <3>1, CountSteps
    <3> HIDE DEF u
    <3>3. Sets(s, u, OnIn(s) \cup {c})
      BY <1>1, <1>2, <2>1, <3>2, OneCount, Zenon
    <3>4. Change(action, OnIn(s), {c}) = OnIn(s) \cup {c}
      BY <2>1, <2>2 DEF Change
    <3> QED
      BY <2>1, <3>3, <3>4 DEF u
  <2>3. CASE s.count[c] < 0 /\ action \in {"off", "toggle"}
    <3>1. u = Off(s, c)
      BY <1>5, <2>3 DEF ProcessChannel, IsOn
    <3>2. s.count[c] + 1 = 0
      BY <1>1, <2>3 DEF Sound
    <3>3. /\ u \in RcStates /\ OnlyChanges(s, u, {"count"})
          /\ u.count[c] = 0 /\ u.count[c] >= -1 /\ u.count[c] >= 0 /\ u.count[c] <= 0 /\ Elsewhere(s, u, c)
      <4> HIDE DEF u
      <4> QED
        BY <1>1, <3>2, <3>1, CountSteps
    <3> HIDE DEF u
    <3>4. Sets(s, u, OnIn(s) \ {c})
      BY <1>1, <1>2, <2>1, <3>3, OneCount, Zenon
    <3>5. Change(action, OnIn(s), {c}) = OnIn(s) \ {c}
      BY <2>1, <2>3 DEF Change
    <3> QED
      BY <2>1, <3>4, <3>5 DEF u
  <2>4. CASE /\ ~ (~ s.count[c] < 0 /\ action \in {"on", "toggle"})
             /\ ~ (s.count[c] < 0 /\ action \in {"off", "toggle"})
    <3>1. u = s
      BY <1>5, <2>4 DEF ProcessChannel, IsOn
    <3>2. Change(action, OnIn(s), {c}) = OnIn(s)
      BY <2>1, <2>4 DEF Change, Actions
    <3> QED
      BY <1>2, <2>1, <3>1, <3>2
  <2> QED
    BY <2>2, <2>3, <2>4
<1> QED
  BY <1>3, <1>4, <1>5

First(vs, i) == {vs[j] : j \in 1 .. i}

\* The first i channels of a list, one by one.
LEMMA FirstNext ==
  ASSUME NEW C, NEW vs \in Seq(C)
  PROVE  /\ Len(vs) \in Nat /\ DOMAIN vs = 1 .. Len(vs)
         /\ First(vs, 0) = {} /\ First(vs, Len(vs)) = ToSet(vs)
         /\ \A i \in 1 .. Len(vs) : /\ First(vs, i) = First(vs, i - 1) \cup {vs[i]}
                                    /\ vs[i] \in C
                                    /\ First(vs, i) \subseteq C
                                    /\ IsInjective(vs) => vs[i] \notin First(vs, i - 1)
BY DEF First, ToSet, IsInjective

SoundStates == {s \in RcStates : Sound(s)}
Lists == Seq(Channels \ {Rcfile})

\* One mask changes all channels of the list that it matches.
LEMMA AllProcessedSets ==
  ASSUME NEW s, Sound(s), NEW vs \in Lists, IsInjective(vs), NEW mask, NEW action \in Actions
  PROVE  Sets(s, AllProcessed(s, vs, mask, action), Change(action, OnIn(s), Named(mask, ToSet(vs))))
<1> DEFINE G == [i \in 0 .. Len(vs) |->
                   {t \in SoundStates : Sets(s, t, Change(action, OnIn(s), Named(mask, First(vs, i))))}]
           C == Channels \ {Rcfile}
<1>1. vs \in Seq(C) /\ Len(vs) \in Nat /\ s \in SoundStates
  BY DEF Lists, SoundStates, Sound
<1>2. \A t \in SoundStates, c \in C : ProcessChannel(t, c, mask, action) \in SoundStates
  BY ProcessOne DEF SoundStates, Sets, Sound
<1>3. s \in G[0]
  <2>1. Named(mask, First(vs, 0)) = {} /\ Change(action, OnIn(s), {}) = OnIn(s)
    BY FirstNext DEF Named, Change, First
  <2>2. Sets(s, s, OnIn(s))
    BY SetsNothing
  <2> QED
    BY <1>1, <2>1, <2>2
<1>4. ASSUME NEW i \in 1 .. Len(vs), NEW t \in SoundStates, t \in G[i - 1]
      PROVE  ProcessChannel(t, vs[i], mask, action) \in G[i]
  <2> DEFINE before == Named(mask, First(vs, i - 1))
             now == Named(mask, {vs[i]})
             u == ProcessChannel(t, vs[i], mask, action)
  <2>1. vs[i] \in C /\ First(vs, i) = First(vs, i - 1) \cup {vs[i]} /\ vs[i] \notin First(vs, i - 1)
    BY <1>1, FirstNext
  <2>2. i - 1 \in 0 .. Len(vs) /\ i \in 0 .. Len(vs)
    BY <1>1
  <2>3. Sets(s, t, Change(action, OnIn(s), before)) /\ Sound(t)
    BY <1>4, <2>2 DEF SoundStates
  <2>4. Sets(t, u, Change(action, OnIn(t), now))
    BY <2>1, <2>3, ProcessOne
  <2>5. Named(mask, First(vs, i)) = before \cup now /\ before \cap now = {}
    BY <2>1 DEF Named
  <2>6. Change(action, Change(action, OnIn(s), before), now) = Change(action, OnIn(s), before \cup now)
    <3> HIDE DEF before, now
    <3> QED
      BY <2>5 DEF Change
  <2>7. Sets(s, u, Change(action, OnIn(s), Named(mask, First(vs, i))))
    <3> HIDE DEF before, now, u
    <3> QED
      BY <2>3, <2>4, <2>5, <2>6, SetsThen
  <2>8. u \in SoundStates
    BY <1>2, <2>1
  <2> QED
    BY <2>2, <2>7, <2>8
<1>5. AllProcessed(s, vs, mask, action) \in G[Len(vs)]
  <2> HIDE DEF G, C
  <2> QED
    BY <1>1, <1>2, <1>3, <1>4, ProcessRule
<1>6. First(vs, Len(vs)) = ToSet(vs)
  BY <1>1, FirstNext
<1> QED
  BY <1>1, <1>5, <1>6

\* All channels are turned on but ELFUTILS.
LEMMA AllTurnedOnSets ==
  ASSUME NEW s, Sound(s), NEW vs \in Lists
  PROVE  Sets(s, AllTurnedOn(s, vs), OnIn(s) \cup (ToSet(vs) \ {Elfutils}))
<1> DEFINE G == [i \in 0 .. Len(vs) |->
                   {t \in SoundStates : Sets(s, t, OnIn(s) \cup (First(vs, i) \ {Elfutils}))}]
           C == Channels \ {Rcfile}
<1>1. vs \in Seq(C) /\ Len(vs) \in Nat /\ s \in SoundStates
  BY DEF Lists, SoundStates, Sound
<1>2. ASSUME NEW t \in SoundStates, NEW c \in C
      PROVE  Sets(t, TurnOn(t, c), OnIn(t) \cup ({c} \ {Elfutils})) /\ TurnOn(t, c) \in SoundStates
  <2>1. Sound(t) /\ t \in RcStates /\ t.count \in [Channels -> Int] /\ c \in Channels
    BY FieldTypes DEF SoundStates, FieldsOf
  <2>2. Sets(t, t, OnIn(t))
    BY <2>1, SetsNothing
  <2>3. CASE LabelOf[c] = LabelOf[Elfutils]
    <3>1. TurnOn(t, c) = t
      BY <2>3 DEF TurnOn
    <3>2. ElfutilsAlone => c = Elfutils
      BY <2>1, <2>3 DEF ElfutilsAlone
    <3> QED
      BY <2>2, <3>1, <3>2 DEF Sets, Known
  <2>4. CASE LabelOf[c] # LabelOf[Elfutils] /\ t.count[c] < 0
    <3>1. TurnOn(t, c) = t
      BY <2>4 DEF TurnOn, UntilOn, IsOn
    <3>2. c # Elfutils /\ c \in OnIn(t)
      BY <2>1, <2>4 DEF OnIn
    <3>3. OnIn(t) \cup ({c} \ {Elfutils}) = OnIn(t)
      BY <3>2
    <3> QED
      BY <2>2, <3>1, <3>3
  <2>5. CASE LabelOf[c] # LabelOf[Elfutils] /\ ~ t.count[c] < 0
    <3> DEFINE u == UntilOn(t, c)
    <3>1. c # Elfutils /\ TurnOn(t, c) = u
      BY <2>5 DEF TurnOn
    <3>2. /\ u \in RcStates /\ OnlyChanges(t, u, {"count"}) /\ Elsewhere(t, u, c)
          /\ u.count[c] < 0 /\ u.count[c] >= -1 /\ u.count[c] <= 0
      <4> HIDE DEF u
      <4>1. u.count[c] = -1
        BY <2>1, <2>5, CountSteps DEF u
      <4> QED
        BY <2>1, <4>1, CountSteps DEF u
    <3> HIDE DEF u
    <3>3. Sets(t, u, OnIn(t) \cup {c})
      BY <2>1, <2>2, <3>1, <3>2, OneCount, Zenon
    <3>4. {c} \ {Elfutils} = {c}
      BY <3>1
    <3> QED
      BY <3>1, <3>2, <3>3, <3>4 DEF Sets, SoundStates
  <2> QED
    BY <2>3, <2>4, <2>5
<1>3. s \in G[0]
  <2>1. OnIn(s) \cup (First(vs, 0) \ {Elfutils}) = OnIn(s)
    BY DEF First
  <2>2. Sets(s, s, OnIn(s))
    BY SetsNothing
  <2>3. Sets(s, s, OnIn(s) \cup (First(vs, 0) \ {Elfutils}))
    BY <2>1, <2>2
  <2> QED
    BY <1>1, <2>1, <2>3
<1>4. ASSUME NEW i \in 1 .. Len(vs), NEW t \in SoundStates, t \in G[i - 1]
      PROVE  TurnOn(t, vs[i]) \in G[i]
  <2> DEFINE on == OnIn(s) \cup (First(vs, i - 1) \ {Elfutils})
             now == OnIn(s) \cup (First(vs, i) \ {Elfutils})
  <2>1. vs[i] \in C /\ First(vs, i) = First(vs, i - 1) \cup {vs[i]}
    BY <1>1, FirstNext
  <2>2. i - 1 \in 0 .. Len(vs) /\ i \in 0 .. Len(vs)
    BY <1>1
  <2>3. Sets(s, t, on)
    BY <1>4, <2>2
  <2>4. Sets(t, TurnOn(t, vs[i]), OnIn(t) \cup ({vs[i]} \ {Elfutils})) /\ TurnOn(t, vs[i]) \in SoundStates
    BY <1>2, <2>1
  <2>5. on \cup ({vs[i]} \ {Elfutils}) = now
    BY <2>1
  <2>6. Sets(s, TurnOn(t, vs[i]), now)
    <3> DEFINE u == TurnOn(t, vs[i])
               then == OnIn(t) \cup ({vs[i]} \ {Elfutils})
    <3>1. Sets(t, u, then)
      BY <2>4, Zenon
    <3> HIDE DEF on, now
    <3>2. Known(s) /\ OnIn(t) = on => then = now
      BY <2>5, Zenon
    <3> HIDE DEF u, then
    <3>3. Sets(s, u, now)
      BY <2>3, <3>1, <3>2, SetsThen, Zenon
    <3> QED
      BY <3>3, Zenon DEF u
  <2> QED
    BY <2>2, <2>4, <2>6
<1>5. AllTurnedOn(s, vs) \in G[Len(vs)]
  <2> HIDE DEF G, C
  <2> QED
    BY <1>1, <1>2, <1>3, <1>4, TurnOnRule
<1>6. First(vs, Len(vs)) = ToSet(vs)
  BY <1>1, FirstNext
<1> QED
  BY <1>1, <1>5, <1>6

\* All channels are turned off but ELFUTILS, and none is below zero then.
LEMMA AllTurnedOffSets ==
  ASSUME NEW s, Sound(s), NEW vs \in Lists
  PROVE  /\ Sets(s, AllTurnedOff(s, vs), OnIn(s) \ (ToSet(vs) \ {Elfutils}))
         /\ \A c \in ToSet(vs) : AllTurnedOff(s, vs).count[c] >= 0
<1> DEFINE G == [i \in 0 .. Len(vs) |->
                   {t \in SoundStates : /\ Sets(s, t, OnIn(s) \ (First(vs, i) \ {Elfutils}))
                                        /\ \A c \in First(vs, i) : t.count[c] >= 0}]
           C == Channels \ {Rcfile}
<1>1. vs \in Seq(C) /\ Len(vs) \in Nat /\ s \in SoundStates
  BY DEF Lists, SoundStates, Sound
<1>2. ASSUME NEW t \in SoundStates, NEW c \in C
      PROVE  /\ Sets(t, TurnOff(t, c), OnIn(t) \ ({c} \ {Elfutils})) /\ TurnOff(t, c) \in SoundStates
             /\ TurnOff(t, c).count[c] >= 0 /\ Elsewhere(t, TurnOff(t, c), c)
  <2>1. Sound(t) /\ t \in RcStates /\ t.count \in [Channels -> Int] /\ c \in Channels
    BY FieldTypes DEF SoundStates, FieldsOf
  <2>2. Sets(t, t, OnIn(t))
    BY <2>1, SetsNothing
  <2>3. CASE t.count[c] >= 0
    <3>1. TurnOff(t, c) = t
      BY <2>1, <2>3 DEF TurnOff, IsOn
    <3>2. OnIn(t) \ ({c} \ {Elfutils}) = OnIn(t)
      BY <2>1, <2>3 DEF OnIn
    <3> QED
      BY <2>2, <2>3, <3>1, <3>2 DEF Elsewhere
  <2>4. CASE t.count[c] < 0
    <3> DEFINE u == Off(t, c)
    <3>1. c # Elfutils /\ TurnOff(t, c) = u /\ t.count[c] + 1 = 0
      BY <2>1, <2>4 DEF TurnOff, IsOn, Sound
    <3>2. /\ u \in RcStates /\ OnlyChanges(t, u, {"count"}) /\ Elsewhere(t, u, c)
          /\ u.count[c] >= 0 /\ u.count[c] >= -1 /\ u.count[c] <= 0
      <4> HIDE DEF u
      <4>1. u.count[c] = 0
        BY <2>1, <3>1, CountSteps DEF u
      <4> QED
        BY <2>1, <4>1, CountSteps DEF u
    <3> HIDE DEF u
    <3>3. Sets(t, u, OnIn(t) \ {c})
      BY <2>1, <2>2, <3>1, <3>2, OneCount, Zenon
    <3>4. {c} \ {Elfutils} = {c}
      BY <3>1
    <3> QED
      BY <3>1, <3>2, <3>3, <3>4 DEF Sets, SoundStates
  <2> QED
    BY <2>1, <2>3, <2>4
<1>3. s \in G[0]
  <2>1. OnIn(s) \ (First(vs, 0) \ {Elfutils}) = OnIn(s) /\ First(vs, 0) = {}
    BY DEF First
  <2>2. Sets(s, s, OnIn(s))
    BY SetsNothing
  <2>3. Sets(s, s, OnIn(s) \ (First(vs, 0) \ {Elfutils}))
    BY <2>1, <2>2
  <2> QED
    BY <1>1, <2>1, <2>3
<1>4. ASSUME NEW i \in 1 .. Len(vs), NEW t \in SoundStates, t \in G[i - 1]
      PROVE  TurnOff(t, vs[i]) \in G[i]
  <2> DEFINE on == OnIn(s) \ (First(vs, i - 1) \ {Elfutils})
             now == OnIn(s) \ (First(vs, i) \ {Elfutils})
             u == TurnOff(t, vs[i])
  <2>1. vs[i] \in C /\ First(vs, i) = First(vs, i - 1) \cup {vs[i]} /\ First(vs, i) \subseteq C
    BY <1>1, FirstNext
  <2>2. i - 1 \in 0 .. Len(vs) /\ i \in 0 .. Len(vs)
    BY <1>1
  <2>3. Sets(s, t, on) /\ \A c \in First(vs, i - 1) : t.count[c] >= 0
    BY <1>4, <2>2
  <2>4. /\ Sets(t, u, OnIn(t) \ ({vs[i]} \ {Elfutils})) /\ u \in SoundStates
        /\ u.count[vs[i]] >= 0 /\ Elsewhere(t, u, vs[i])
    BY <1>2, <2>1
  <2>5. on \ ({vs[i]} \ {Elfutils}) = now
    BY <2>1
  <2> HIDE DEF u
  <2>6. Sets(s, u, now)
    <3> DEFINE then == OnIn(t) \ ({vs[i]} \ {Elfutils})
    <3>1. Known(s) /\ OnIn(t) = on => then = now
      <4> HIDE DEF on, now
      <4> QED
        BY <2>5
    <3>2. Sets(s, t, on) /\ Sets(t, u, then)
      BY <2>3, <2>4
    <3> HIDE DEF on, now, then
    <3> QED
      BY <3>1, <3>2, SetsThen, Zenon
  <2>7. \A c \in First(vs, i) : u.count[c] >= 0
    BY <2>1, <2>3, <2>4 DEF Elsewhere
  <2>8. u \in G[i]
    BY <2>2, <2>4, <2>6, <2>7
  <2> QED
    BY <2>8 DEF u
<1>5. AllTurnedOff(s, vs) \in G[Len(vs)]
  <2>1. \A t \in SoundStates, c \in C : TurnOff(t, c) \in SoundStates
    BY <1>2
  <2> HIDE DEF G, C
  <2> QED
    BY <1>1, <2>1, <1>3, <1>4, TurnOffRule
<1>6. First(vs, Len(vs)) = ToSet(vs)
  BY <1>1, FirstNext
<1> QED
  BY <1>1, <1>5, <1>6

-----------------------------------------------------------------------------
(***************************************************************************)
(* The lines of a file.                                                    *)
(***************************************************************************)
Listed(vs) == vs \in Lists /\ IsInjective(vs) /\ {Warning, Elfutils} \subseteq ToSet(vs)

\* Also the flags of the reader in fields may have changed.
Leads(s, t, fields, on) ==
  /\ Sound(t)
  /\ OnlyChanges(s, t, {"count", "elfutilsOn"} \cup fields)
  /\ t.count[Rcfile] = s.count[Rcfile]
  /\ Known(s) => OnIn(t) = on /\ t.count[Warning] <= 0

\* A step that changes no flag.
LEMMA SetsLeads ==
  ASSUME NEW s, NEW t, NEW on, Sets(s, t, on)
  PROVE  Leads(s, t, {}, on)
BY DEF Sets, Leads

\* A step that changes no flag behind one that does.
LEMMA LeadsThen ==
  ASSUME NEW s, NEW t, NEW u, NEW fields, NEW on, NEW then, NEW result,
         Leads(s, t, fields, on), Sets(t, u, then), Known(s) /\ OnIn(t) = on => then = result
  PROVE  Leads(s, u, fields, result)
BY DEF Sets, Leads, OnlyChanges, Known

\* An assignment to a flag behind a step.
LEMMA FlagLeads ==
  ASSUME NEW s, NEW t, NEW u \in RcStates, NEW fields, NEW on, NEW f \in Fields \ {"count", "elfutilsOn"},
         Leads(s, t, fields, on), OnlyChanges(t, u, {f}), NEW all, all = fields \cup {f}
  PROVE  Leads(s, u, all, on)
<1>1. u.count = t.count /\ u.elfutilsOn = t.elfutilsOn
  BY DEF OnlyChanges, Fields
<1>2. OnIn(u) = OnIn(t)
  BY <1>1 DEF OnIn
<1>3. OnlyChanges(s, u, {"count", "elfutilsOn"} \cup all)
  BY DEF Leads, OnlyChanges
<1> QED
  BY <1>1, <1>2, <1>3 DEF Leads, Sound

\* SetAllChannelsOn and -Off, as assignments behind the loop.
LEMMA SetAllByPut ==
  ASSUME NEW s, NEW vs, NEW warningOn
  PROVE  /\ SetAllChannelsOn(s, vs) = Put(AllTurnedOn(s, vs), "elfutilsOn", TRUE)
         /\ SetAllChannelsOff(s, vs, warningOn)
              = Put(IF warningOn THEN On(AllTurnedOff(s, vs), Warning) ELSE AllTurnedOff(s, vs),
                    "elfutilsOn", FALSE)
<1>1. SetAllChannelsOn(s, vs) = Put(AllTurnedOn(s, vs), "elfutilsOn", TRUE)
  BY Zenon DEF SetAllChannelsOn, AllTurnedOn, TurnOn, FoldLeft, MapThenFoldSet, Put
<1>2. SetAllChannelsOff(s, vs, warningOn)
        = Put(IF warningOn THEN On(AllTurnedOff(s, vs), Warning) ELSE AllTurnedOff(s, vs),
              "elfutilsOn", FALSE)
  BY Zenon DEF SetAllChannelsOff, AllTurnedOff, TurnOff, FoldLeft, MapThenFoldSet, Put
<1> QED
  BY <1>1, <1>2

\* SetAllChannelsOn turns on all channels of the list.
LEMMA SetAllOnSets ==
  ASSUME NEW s, Sound(s), NEW vs, Listed(vs)
  PROVE  Sets(s, SetAllChannelsOn(s, vs), OnIn(s) \cup ToSet(vs))
<1> DEFINE t == AllTurnedOn(s, vs)
           on == OnIn(s) \cup (ToSet(vs) \ {Elfutils})
<1>1. Sets(s, t, on)
  BY AllTurnedOnSets DEF Listed
<1>2. Sets(s, Put(t, "elfutilsOn", TRUE), on \cup {Elfutils})
  BY <1>1, ElfutilsSet
<1>3. on \cup {Elfutils} = OnIn(s) \cup ToSet(vs)
  BY DEF Listed
<1> QED
  BY <1>2, <1>3, SetAllByPut

\* SetAllChannelsOff turns off all channels of the list, and dc::warning on again if it is told to.
LEMMA SetAllOffSets ==
  ASSUME NEW s, Sound(s), NEW vs, Listed(vs), NEW warningOn \in BOOLEAN
  PROVE  Sets(s, SetAllChannelsOff(s, vs, warningOn),
              (OnIn(s) \ ToSet(vs)) \cup (IF warningOn THEN {Warning} ELSE {}))
<1> DEFINE t == AllTurnedOff(s, vs)
           on == OnIn(s) \ (ToSet(vs) \ {Elfutils})
           u == IF warningOn THEN On(t, Warning) ELSE t
           extra == IF warningOn THEN {Warning} ELSE {}
<1>1. Sets(s, t, on) /\ \A c \in ToSet(vs) : t.count[c] >= 0
  BY AllTurnedOffSets DEF Listed
<1>2. Warning \in Channels \ {Rcfile} /\ Warning \in ToSet(vs) /\ Elfutils \in ToSet(vs) /\ Warning # Elfutils
  BY ChannelsAssumption DEF Listed
<1>3. Sets(s, u, on \cup extra)
  <2>1. CASE warningOn
    <3>1. t \in RcStates /\ Sound(t) /\ t.count \in [Channels -> Int] /\ t.count[Warning] >= 0
      BY <1>1, <1>2, FieldTypes DEF Sets, Sound, FieldsOf
    <3>2. /\ u \in RcStates /\ OnlyChanges(t, u, {"count"}) /\ Elsewhere(t, u, Warning)
          /\ u.count[Warning] = t.count[Warning] - 1
      <4> HIDE DEF t
      <4>1. u = On(t, Warning)
        BY <2>1
      <4>2. Warning \in Channels /\ t.count[Warning] # -1
        BY <1>2, <3>1
      <4> HIDE DEF u
      <4>3. /\ On(t, Warning) \in RcStates /\ OnlyChanges(t, On(t, Warning), {"count"})
            /\ Elsewhere(t, On(t, Warning), Warning)
            /\ On(t, Warning).count[Warning] = t.count[Warning] - 1
        BY <3>1, <4>2, CountSteps, Zenon
      <4> QED
        BY <4>1, <4>3
    <3>3. Known(s) => t.count[Warning] = 0
      BY <1>1, <1>2, <3>1 DEF Sets, Known
    <3> HIDE DEF u, t
    <3>4. u.count[Warning] >= -1 /\ u.count[Warning] \in Int
      BY <1>2, <3>1, <3>2
    <3>5. Known(s) => u.count[Warning] < 0 /\ u.count[Warning] <= 0
      BY <3>2, <3>3
    <3>6. CASE u.count[Warning] < 0
      <4>1. u.count[Warning] <= 0
        BY <3>4, <3>6
      <4>2. Sets(s, u, on \cup {Warning})
        BY <1>1, <1>2, <3>1, <3>2, <3>4, <3>6, <4>1, OneCount, Zenon
      <4> QED
        BY <2>1, <4>2
    <3>7. CASE ~ u.count[Warning] < 0
      <4>1. u.count[Warning] >= 0 /\ ~ Known(s)
        BY <3>4, <3>5, <3>7
      <4>2. Sets(s, u, on \ {Warning})
        BY <1>1, <1>2, <3>1, <3>2, <3>4, <4>1, OneCount, Zenon
      <4> QED
        BY <4>1, <4>2 DEF Sets
    <3> QED
      BY <3>6, <3>7
  <2>2. CASE ~ warningOn
    BY <1>1, <2>2
  <2> QED
    BY <2>1, <2>2
<1>4. Sets(s, Put(u, "elfutilsOn", FALSE), (on \cup extra) \ {Elfutils})
  <2> HIDE DEF u, on, extra
  <2>1. Sets(s, Put(u, "elfutilsOn", FALSE), IF FALSE THEN (on \cup extra) \cup {Elfutils} ELSE (on \cup extra) \ {Elfutils})
    BY <1>3, ElfutilsSet, Zenon
  <2> QED
    BY <2>1
<1>5. (on \cup extra) \ {Elfutils} = (OnIn(s) \ ToSet(vs)) \cup extra
  BY <1>2
<1> QED
  BY <1>4, <1>5, SetAllByPut

\* The channels that the first k masks turn on or off, or toggle an odd number of times.
Hits(action, masks, channels, k) ==
  {c \in channels :
     LET hits == {j \in 1 .. k : Match(masks[j], LabelOf[c])}
     IN IF action = "toggle" THEN Cardinality(hits) % 2 = 1 ELSE hits # {}}

\* One mask more of a line.
LEMMA HitsNext ==
  ASSUME NEW action \in Actions, NEW masks, NEW channels, NEW on, NEW k \in Nat, k > 0
  PROVE  Change(action, Change(action, on, Hits(action, masks, channels, k - 1)), Named(masks[k], channels))
           = Change(action, on, Hits(action, masks, channels, k))
<1> DEFINE Of(c, i) == {j \in 1 .. i : Match(masks[j], LabelOf[c])}
           before == Hits(action, masks, channels, k - 1)
           now == Named(masks[k], channels)
           after == Hits(action, masks, channels, k)
<1>1. ASSUME NEW c
      PROVE  /\ Of(c, k) = IF Match(masks[k], LabelOf[c]) THEN Of(c, k - 1) \cup {k} ELSE Of(c, k - 1)
             /\ k \notin Of(c, k - 1)
  OBVIOUS
<1>2. CASE action # "toggle"
  <2>1. after = before \cup now
    BY <1>1, <1>2 DEF Hits, Named
  <2> HIDE DEF after, before, now
  <2>2. Change(action, Change(action, on, before), now) = Change(action, on, after)
    BY <1>2, <2>1 DEF Change, Actions
  <2> QED
    BY <2>2 DEF after, before, now
<1>3. CASE action = "toggle"
  <2>1. ASSUME NEW c \in channels
        PROVE  c \in after <=> ~ (c \in before <=> c \in now)
    <3>1. IsFiniteSet(Of(c, k - 1)) /\ Cardinality(Of(c, k - 1)) \in Nat
      <4>1. IsFiniteSet(1 .. k - 1) /\ Of(c, k - 1) \subseteq 1 .. k - 1
        BY FS_Interval
      <4> HIDE DEF Of
      <4> QED
        BY <4>1, FS_Subset, FS_CardinalityType
    <3>2. /\ c \in after <=> Cardinality(Of(c, k)) % 2 = 1
          /\ c \in before <=> Cardinality(Of(c, k - 1)) % 2 = 1
          /\ c \in now <=> Match(masks[k], LabelOf[c])
      BY <1>3, <2>1 DEF Hits, Named
    <3> HIDE DEF Of, after, before, now
    <3>3. CASE Match(masks[k], LabelOf[c])
      <4>1. Cardinality(Of(c, k)) = Cardinality(Of(c, k - 1)) + 1
        BY <1>1, <3>1, <3>3, FS_AddElement
      <4>2. \A m \in Nat : (m + 1) % 2 = 1 <=> ~ (m % 2 = 1)
        OBVIOUS
      <4> QED
        BY <3>1, <3>2, <3>3, <4>1, <4>2
    <3>4. CASE ~ Match(masks[k], LabelOf[c])
      BY <1>1, <3>2, <3>4
    <3> QED
      BY <3>3, <3>4
  <2>2. after \subseteq channels /\ before \subseteq channels /\ now \subseteq channels
    BY DEF Hits, Named
  <2> HIDE DEF after, before, now
  <2>3. after = (before \ now) \cup (now \ before)
    BY <2>1, <2>2
  <2>4. Change(action, Change(action, on, before), now) = Change(action, on, after)
    BY <1>3, <2>3 DEF Change
  <2> QED
    BY <2>4 DEF after, before, now
<1> QED
  BY <1>2, <1>3

\* A line changes the channels that its masks match.
LEMMA ProcessChannelsSets ==
  ASSUME NEW s, Sound(s), NEW vs, Listed(vs), NEW M, NEW masks \in Seq(M), NEW action \in Actions
  PROVE  Sets(s, ProcessChannels(s, vs, masks, action),
              Change(action, OnIn(s), Hits(action, masks, ToSet(vs), Len(masks))))
<1> DEFINE on(k) == Change(action, OnIn(s), Hits(action, masks, ToSet(vs), k))
           G == [k \in 0 .. Len(masks) |-> {t \in SoundStates : Sets(s, t, on(k))}]
<1>1. Len(masks) \in Nat /\ s \in SoundStates /\ vs \in Lists /\ IsInjective(vs)
  BY DEF SoundStates, Sound, Listed
<1>2. ASSUME NEW t \in SoundStates, NEW mask
      PROVE  /\ Sets(t, AllProcessed(t, vs, mask, action), Change(action, OnIn(t), Named(mask, ToSet(vs))))
             /\ AllProcessed(t, vs, mask, action) \in SoundStates
  <2>1. Sets(t, AllProcessed(t, vs, mask, action), Change(action, OnIn(t), Named(mask, ToSet(vs))))
    BY <1>1, AllProcessedSets DEF SoundStates
  <2> QED
    BY <2>1 DEF Sets, Sound, SoundStates
<1>3. s \in G[0]
  <2>1. Hits(action, masks, ToSet(vs), 0) = {}
    <3>1. \A c : {j \in 1 .. 0 : Match(masks[j], LabelOf[c])} = {}
      OBVIOUS
    <3> QED
      BY <3>1, FS_EmptySet DEF Hits
  <2>2. on(0) = OnIn(s)
    BY <2>1 DEF Change
  <2>3. Sets(s, s, OnIn(s))
    BY SetsNothing
  <2> HIDE DEF on
  <2> QED
    BY <1>1, <2>2, <2>3
<1>4. ASSUME NEW k \in 1 .. Len(masks), NEW t \in SoundStates, t \in G[k - 1]
      PROVE  AllProcessed(t, vs, masks[k], action) \in G[k]
  <2> DEFINE u == AllProcessed(t, vs, masks[k], action)
             then == Change(action, OnIn(t), Named(masks[k], ToSet(vs)))
  <2>1. k - 1 \in 0 .. Len(masks) /\ k \in 0 .. Len(masks) /\ k \in Nat /\ k > 0
    BY <1>1
  <2>2. Sets(s, t, on(k - 1))
    BY <1>4, <2>1
  <2>3. Sets(t, u, then) /\ u \in SoundStates
    BY <1>2
  <2>4. OnIn(t) = on(k - 1) => then = on(k)
    BY <2>1, HitsNext
  <2> HIDE DEF u, then, on
  <2>5. Sets(s, u, on(k))
    <3> DEFINE old == on(k - 1)
               new == on(k)
    <3>1. Sets(s, t, old) /\ Sets(t, u, then) /\ (Known(s) /\ OnIn(t) = old => then = new)
      BY <2>2, <2>3, <2>4
    <3> HIDE DEF old, new
    <3>2. Sets(s, u, new)
      BY <3>1, SetsThen, Zenon
    <3> QED
      BY <3>2 DEF new
  <2>6. u \in G[k]
    BY <2>1, <2>3, <2>5
  <2> QED
    BY <2>6 DEF u
<1>5. ProcessChannels(s, vs, masks, action) \in G[Len(masks)]
  <2>1. \A t \in SoundStates, mask \in M : AllProcessed(t, vs, mask, action) \in SoundStates
    BY <1>2
  <2> HIDE DEF G
  <2> QED
    BY <1>1, <2>1, <1>3, <1>4, MasksRule
<1> HIDE DEF on
<1> QED
  BY <1>1, <1>5 DEF on

\* off() and on() of dc::rcfile are in pairs, and it was not turned on too often.
Paired(s) ==
  /\ Sound(s) /\ s.count[Rcfile] = (IF s.rcfileOn THEN -1 ELSE 0)
  /\ s.saved >= -1 /\ s.ended # "core"

\* A step that leaves the flag of dc::rcfile alone leaves its counter paired.
LEMMA LeadsPaired ==
  ASSUME NEW s, NEW t, NEW fields, NEW on, Paired(s), Leads(s, t, fields, on),
         "rcfileOn" \notin fields, "saved" \notin fields, "ended" \in fields => t.ended # "core"
  PROVE  Paired(t) /\ ("file" \notin fields => t.file = s.file)
<1>1. /\ t.rcfileOn = s.rcfileOn /\ t.saved = s.saved /\ t.ended # "core"
      /\ "file" \notin fields => t.file = s.file
  BY DEF Leads, OnlyChanges, Fields, Paired
<1> QED
  BY <1>1 DEF Leads, Paired

DefaultSeen(s, u) == \A j \in 1 .. 2 : u.defaultSet[j] <=> j = s.file \/ s.defaultSet[j]

\* The types of the fields of a state.
LEMMA Files ==
  ASSUME NEW s \in RcStates
  PROVE  /\ s.file \in 1 .. 2 /\ s.defaultSet \in [1 .. 2 -> BOOLEAN]
         /\ s.defaultOn \in BOOLEAN /\ s.didReset \in BOOLEAN /\ s.rcfileOn \in BOOLEAN
         /\ s.elfutilsOn \in BOOLEAN /\ s.saved \in Int /\ s.count \in [Channels -> Int]
BY FieldTypes DEF FieldsOf

\* channels_default, as assignments.
LEMMA DefaultByPut ==
  ASSUME NEW s, NEW vs, NEW value
  PROVE  LET t == Put(s, "defaultSet", [s.defaultSet EXCEPT ![s.file] = TRUE])
         IN ChannelsDefault(s, vs, value)
              = IF s.defaultSet[s.file] THEN s
                ELSE IF value = "on" THEN Put(SetAllChannelsOn(t, vs), "defaultOn", TRUE)
                ELSE IF value = "off" THEN Put(SetAllChannelsOff(t, vs, FALSE), "defaultOn", FALSE)
                ELSE Put(t, "ended", "fatal")
<1> DEFINE t == Put(s, "defaultSet", [s.defaultSet EXCEPT ![s.file] = TRUE])
<1>1. [s EXCEPT !.defaultSet[s.file] = TRUE] = t
  BY Zenon DEF Put
<1>2. \A a : [a EXCEPT !.defaultOn = TRUE] = Put(a, "defaultOn", TRUE)
  BY Zenon DEF Put
<1>3. \A a : [a EXCEPT !.defaultOn = FALSE] = Put(a, "defaultOn", FALSE)
  BY Zenon DEF Put
<1>4. \A a : Fatal(a) = Put(a, "ended", "fatal")
  BY Zenon DEF Put, Fatal
<1> HIDE DEF t
<1>5. ChannelsDefault(s, vs, value)
        = IF s.defaultSet[s.file] THEN s
          ELSE CASE value = "on"  -> Put(SetAllChannelsOn(t, vs), "defaultOn", TRUE)
                 [] value = "off" -> Put(SetAllChannelsOff(t, vs, FALSE), "defaultOn", FALSE)
                 [] OTHER         -> Put(t, "ended", "fatal")
  BY <1>1, <1>2, <1>3, <1>4, Zenon DEF ChannelsDefault
<1> QED
  BY <1>5 DEF t

\* The first channels_default of a file turns all channels on or off; another value is fatal.
LEMMA DefaultReads ==
  ASSUME NEW s, Sound(s), NEW vs, Listed(vs), NEW value, ~ s.defaultSet[s.file]
  PROVE  LET u == ChannelsDefault(s, vs, value)
         IN /\ value = "on" => /\ Leads(s, u, {"defaultSet", "defaultOn"}, OnIn(s) \cup ToSet(vs))
                               /\ u.defaultOn = TRUE /\ DefaultSeen(s, u)
            /\ value = "off" => /\ Leads(s, u, {"defaultSet", "defaultOn"}, OnIn(s) \ ToSet(vs))
                                /\ u.defaultOn = FALSE /\ DefaultSeen(s, u)
            /\ value \notin {"on", "off"} => /\ Leads(s, u, {"defaultSet", "ended"}, OnIn(s))
                                            /\ u.ended = "fatal"
<1> DEFINE t == Put(s, "defaultSet", [s.defaultSet EXCEPT ![s.file] = TRUE])
           u == ChannelsDefault(s, vs, value)
<1>1. s \in RcStates /\ s.file \in 1 .. 2
  BY Files DEF Sound
<1>2. t \in RcStates /\ OnlyChanges(s, t, {"defaultSet"}) /\ DefaultSeen(s, t)
  BY <1>1, FlagSteps, Zenon DEF DefaultSeen
<1>3. u = IF value = "on" THEN Put(SetAllChannelsOn(t, vs), "defaultOn", TRUE)
          ELSE IF value = "off" THEN Put(SetAllChannelsOff(t, vs, FALSE), "defaultOn", FALSE)
          ELSE Put(t, "ended", "fatal")
  BY DefaultByPut
<1> HIDE DEF t, u
<1>4. Leads(s, t, {"defaultSet"}, OnIn(s))
  <2>1. Leads(s, s, {}, OnIn(s))
    BY SetsNothing, SetsLeads
  <2>2. "defaultSet" \in Fields \ {"count", "elfutilsOn"} /\ {"defaultSet"} = {} \cup {"defaultSet"}
    BY DEF Fields
  <2> QED
    BY <1>2, <2>1, <2>2, FlagLeads, Zenon
<1>5. Sound(t) /\ (Known(s) => OnIn(t) = OnIn(s))
  BY <1>4 DEF Leads
<1>6. ASSUME NEW a, NEW on, NEW v \in BOOLEAN, Sets(t, a, on), NEW result, OnIn(t) = OnIn(s) => on = result
      PROVE  LET b == Put(a, "defaultOn", v)
             IN Leads(s, b, {"defaultSet", "defaultOn"}, result) /\ b.defaultOn = v /\ DefaultSeen(s, b)
  <2> DEFINE b == Put(a, "defaultOn", v)
  <2>1. Leads(s, a, {"defaultSet"}, result)
    BY <1>4, <1>6, LeadsThen
  <2>2. a \in RcStates
    BY <1>6 DEF Sets, Sound
  <2>3. b \in RcStates /\ b.defaultOn = v /\ OnlyChanges(a, b, {"defaultOn"})
    BY <2>2, FlagSteps, Zenon
  <2> HIDE DEF b
  <2>4. "defaultOn" \in Fields \ {"count", "elfutilsOn"}
        /\ {"defaultSet", "defaultOn"} = {"defaultSet"} \cup {"defaultOn"}
    BY DEF Fields
  <2>5. Leads(s, b, {"defaultSet", "defaultOn"}, result)
    BY <2>1, <2>3, <2>4, FlagLeads, Zenon
  <2>6. b.defaultSet = t.defaultSet
    BY <1>6, <2>3 DEF Sets, OnlyChanges, Fields
  <2> QED
    BY <1>2, <2>3, <2>5, <2>6 DEF DefaultSeen, b
<1>7. CASE value = "on"
  <2>1. Sets(t, SetAllChannelsOn(t, vs), OnIn(t) \cup ToSet(vs))
    BY <1>5, SetAllOnSets
  <2>2. u = Put(SetAllChannelsOn(t, vs), "defaultOn", TRUE)
    BY <1>3, <1>7
  <2>3. Leads(s, u, {"defaultSet", "defaultOn"}, OnIn(s) \cup ToSet(vs)) /\ u.defaultOn = TRUE /\ DefaultSeen(s, u)
    <3> DEFINE on == OnIn(t) \cup ToSet(vs)
               result == OnIn(s) \cup ToSet(vs)
    <3>1. OnIn(t) = OnIn(s) => on = result
      OBVIOUS
    <3>2. Sets(t, SetAllChannelsOn(t, vs), on)
      BY <2>1
    <3> HIDE DEF on, result
    <3>3. Leads(s, u, {"defaultSet", "defaultOn"}, result) /\ u.defaultOn = TRUE /\ DefaultSeen(s, u)
      BY <1>6, <2>2, <3>1, <3>2, Zenon
    <3> QED
      BY <3>3 DEF result
  <2> QED
    BY <1>7, <2>3 DEF u
<1>8. CASE value = "off"
  <2>1. Sets(t, SetAllChannelsOff(t, vs, FALSE), OnIn(t) \ ToSet(vs))
    <3>1. (OnIn(t) \ ToSet(vs)) \cup (IF FALSE THEN {Warning} ELSE {}) = OnIn(t) \ ToSet(vs)
      OBVIOUS
    <3> QED
      BY <1>5, <3>1, SetAllOffSets
  <2>2. u = Put(SetAllChannelsOff(t, vs, FALSE), "defaultOn", FALSE)
    BY <1>3, <1>8
  <2>3. Leads(s, u, {"defaultSet", "defaultOn"}, OnIn(s) \ ToSet(vs)) /\ u.defaultOn = FALSE /\ DefaultSeen(s, u)
    <3> DEFINE on == OnIn(t) \ ToSet(vs)
               result == OnIn(s) \ ToSet(vs)
    <3>1. OnIn(t) = OnIn(s) => on = result
      OBVIOUS
    <3>2. Sets(t, SetAllChannelsOff(t, vs, FALSE), on)
      BY <2>1
    <3> HIDE DEF on, result
    <3>3. Leads(s, u, {"defaultSet", "defaultOn"}, result) /\ u.defaultOn = FALSE /\ DefaultSeen(s, u)
      BY <1>6, <2>2, <3>1, <3>2, Zenon
    <3> QED
      BY <3>3 DEF result
  <2> QED
    BY <1>8, <2>3 DEF u
<1>9. CASE value \notin {"on", "off"}
  <2>1. u = Put(t, "ended", "fatal")
    BY <1>3, <1>9
  <2>2. u \in RcStates /\ u.ended = "fatal" /\ OnlyChanges(t, u, {"ended"})
    BY <1>2, <2>1, FlagSteps, Zenon
  <2>3. "ended" \in Fields \ {"count", "elfutilsOn"} /\ {"defaultSet", "ended"} = {"defaultSet"} \cup {"ended"}
    BY DEF Fields
  <2>4. Leads(s, u, {"defaultSet", "ended"}, OnIn(s))
    BY <1>4, <2>2, <2>3, FlagLeads, Zenon
  <2> QED
    BY <1>9, <2>2, <2>4 DEF u
<1> QED
  BY <1>7, <1>8, <1>9

\* A channels_default that is neither on nor off ends the program.
LEMMA DefaultFatal ==
  ASSUME NEW s, Sound(s), NEW vs, Listed(vs), NEW value, ~ s.defaultSet[s.file], ~ (value \in {"on", "off"})
  PROVE  ChannelsDefault(s, vs, value).ended = "fatal"
BY DefaultReads

\* A fatal error changes no channel.
LEMMA FatalLeads ==
  ASSUME NEW s, Sound(s)
  PROVE  Leads(s, Fatal(s), {"ended"}, OnIn(s)) /\ Fatal(s).ended = "fatal"
<1>1. Fatal(s) = Put(s, "ended", "fatal")
  BY Zenon DEF Put, Fatal
<1>2. Fatal(s) \in RcStates /\ Fatal(s).ended = "fatal" /\ OnlyChanges(s, Fatal(s), {"ended"})
  BY <1>1, FlagSteps, Zenon DEF Sound
<1>3. Leads(s, s, {}, OnIn(s))
  BY SetsNothing, SetsLeads
<1>4. "ended" \in Fields \ {"count", "elfutilsOn"} /\ {"ended"} = {} \cup {"ended"}
  BY DEF Fields
<1> QED
  BY <1>2, <1>3, <1>4, FlagLeads, Zenon

\* A line that changes single channels; the resetting ones first turn all off or on.
Masked(action, rule, on, vs) == Change(action, on, Hits(action, rule.value, ToSet(vs), Len(rule.value)))

\* process_channels() for a list of masks.
LEMMA ListReads ==
  ASSUME NEW s, Sound(s), NEW vs, Listed(vs), NEW rule, rule.value \in Seq(ToSet(rule.value)), NEW action \in Actions
  PROVE  Sets(s, ProcessChannels(s, vs, rule.value, action), Masked(action, rule, OnIn(s), vs))
BY ProcessChannelsSets, Zenon DEF Masked

\* The same behind a line that turned all channels on or off first.
LEMMA ResetReads ==
  ASSUME NEW s, Sound(s), NEW vs, Listed(vs), NEW rule, rule.value \in Seq(ToSet(rule.value)), NEW action \in Actions,
         NEW a, NEW on, Sets(s, a, on)
  PROVE  LET u == ProcessChannels([a EXCEPT !.didReset = TRUE], vs, rule.value, action)
         IN Leads(s, u, {"didReset"}, Masked(action, rule, on, vs)) /\ u.didReset = TRUE
<1> DEFINE t == [a EXCEPT !.didReset = TRUE]
           u == ProcessChannels(t, vs, rule.value, action)
<1>1. t = Put(a, "didReset", TRUE) /\ a \in RcStates
  BY Zenon DEF Put, Sets, Sound
<1>2. t \in RcStates /\ t.didReset = TRUE /\ OnlyChanges(a, t, {"didReset"})
  <2>1. "didReset" \in {"rcfileOn", "elfutilsOn", "defaultOn", "didReset"} /\ TRUE \in BOOLEAN
    OBVIOUS
  <2> HIDE DEF t
  <2> QED
    BY <1>1, <2>1, FlagSteps, Zenon
<1> HIDE DEF t
<1>3. "didReset" \in Fields \ {"count", "elfutilsOn"} /\ {"didReset"} = {} \cup {"didReset"}
  BY DEF Fields
<1>4. Leads(s, t, {"didReset"}, on)
  BY <1>2, <1>3, SetsLeads, FlagLeads, Zenon
<1>5. Sets(t, u, Masked(action, rule, OnIn(t), vs))
  BY <1>4, ListReads, Zenon DEF Leads
<1>6. Leads(s, u, {"didReset"}, Masked(action, rule, on, vs))
  <2> HIDE DEF u
  <2> QED
    BY <1>4, <1>5, LeadsThen, Zenon
<1> HIDE DEF u
<1>7. u.didReset = TRUE
  BY <1>2, <1>5 DEF Sets, OnlyChanges, Fields
<1> QED
  BY <1>6, <1>7 DEF u, t

\* channels_toggle toggles what its masks match, or is fatal when no default was seen.
LEMMA ToggleReads ==
  ASSUME NEW s, Sound(s), NEW vs, Listed(vs), NEW rule, rule.value \in Seq(ToSet(rule.value))
  PROVE  LET u == ChannelsToggle(s, vs, rule.value)
             allowed == s.defaultSet[s.file] \/ s.defaultSet[1]
         IN /\ allowed => Leads(s, u, {}, Masked("toggle", rule, OnIn(s), vs))
            /\ ~ allowed => Leads(s, u, {"ended"}, OnIn(s)) /\ u.ended = "fatal"
<1>1. CASE s.defaultSet[s.file] \/ s.defaultSet[1]
  <2>1. ChannelsToggle(s, vs, rule.value) = ProcessChannels(s, vs, rule.value, "toggle")
    BY <1>1 DEF ChannelsToggle
  <2>2. Sets(s, ProcessChannels(s, vs, rule.value, "toggle"), Masked("toggle", rule, OnIn(s), vs))
    BY ListReads DEF Actions
  <2>3. Leads(s, ProcessChannels(s, vs, rule.value, "toggle"), {}, Masked("toggle", rule, OnIn(s), vs))
    BY <2>2, SetsLeads
  <2> QED
    BY <1>1, <2>1, <2>3
<1>2. CASE ~ (s.defaultSet[s.file] \/ s.defaultSet[1])
  <2>1. ChannelsToggle(s, vs, rule.value) = Fatal(s)
    BY <1>2 DEF ChannelsToggle
  <2> QED
    BY <1>2, <2>1, FatalLeads
<1> QED
  BY <1>1, <1>2

ResetsOn(s) == s.file = 2 /\ ~s.didReset /\ (SawDefault(s) => s.defaultOn)
ResetsOff(s) == s.file = 2 /\ ~s.didReset /\ SawDefault(s) /\ ~s.defaultOn

\* channels_on adds what its masks match, in the override file to none or dc::warning.
LEMMA OnReads ==
  ASSUME NEW s, Sound(s), NEW vs, Listed(vs), NEW rule, rule.value \in Seq(ToSet(rule.value))
  PROVE  LET u == ChannelsOn(s, vs, rule.value)
             kept == (OnIn(s) \ ToSet(vs)) \cup (IF ~ SawDefault(s) THEN {Warning} ELSE {})
         IN /\ ResetsOn(s) => Leads(s, u, {"didReset"}, Masked("on", rule, kept, vs)) /\ u.didReset = TRUE
            /\ ~ ResetsOn(s) => Leads(s, u, {}, Masked("on", rule, OnIn(s), vs))
<1>1. CASE ResetsOn(s)
  <2> DEFINE a == SetAllChannelsOff(s, vs, ~ SawDefault(s))
             kept == (OnIn(s) \ ToSet(vs)) \cup (IF ~ SawDefault(s) THEN {Warning} ELSE {})
  <2>1. ChannelsOn(s, vs, rule.value)
          = ProcessChannels([a EXCEPT !.didReset = TRUE], vs, rule.value, "on")
    BY <1>1, Zenon DEF ChannelsOn, ResetsOn
  <2>2. (~ SawDefault(s)) \in BOOLEAN /\ "on" \in Actions
    BY DEF Actions
  <2>3. Sets(s, a, kept)
    BY <2>2, SetAllOffSets, Zenon
  <2> HIDE DEF a, kept
  <2>4. LET u == ChannelsOn(s, vs, rule.value)
        IN Leads(s, u, {"didReset"}, Masked("on", rule, kept, vs)) /\ u.didReset = TRUE
    BY <2>1, <2>2, <2>3, ResetReads, Zenon
  <2> QED
    BY <1>1, <2>4, Zenon DEF kept
<1>2. CASE ~ ResetsOn(s)
  <2>1. ChannelsOn(s, vs, rule.value) = ProcessChannels(s, vs, rule.value, "on")
    BY <1>2, Zenon DEF ChannelsOn, ResetsOn
  <2>2. Sets(s, ProcessChannels(s, vs, rule.value, "on"), Masked("on", rule, OnIn(s), vs))
    BY ListReads DEF Actions
  <2>3. Leads(s, ProcessChannels(s, vs, rule.value, "on"), {}, Masked("on", rule, OnIn(s), vs))
    BY <2>2, SetsLeads
  <2> QED
    BY <1>2, <2>1, <2>3, Zenon
<1> QED
  BY <1>1, <1>2, Zenon

\* channels_off takes away what its masks match, in the override file from all.
LEMMA OffReads ==
  ASSUME NEW s, Sound(s), NEW vs, Listed(vs), NEW rule, rule.value \in Seq(ToSet(rule.value))
  PROVE  LET u == ChannelsOff(s, vs, rule.value)
         IN /\ ResetsOff(s) => /\ Leads(s, u, {"didReset"}, Masked("off", rule, OnIn(s) \cup ToSet(vs), vs))
                               /\ u.didReset = TRUE
            /\ ~ ResetsOff(s) => Leads(s, u, {}, Masked("off", rule, OnIn(s), vs))
<1>1. CASE ResetsOff(s)
  <2> DEFINE a == SetAllChannelsOn(s, vs)
             kept == OnIn(s) \cup ToSet(vs)
  <2>1. ChannelsOff(s, vs, rule.value)
          = ProcessChannels([a EXCEPT !.didReset = TRUE], vs, rule.value, "off")
    BY <1>1, Zenon DEF ChannelsOff, ResetsOff
  <2>2. "off" \in Actions
    BY DEF Actions
  <2>3. Sets(s, a, kept)
    BY SetAllOnSets, Zenon
  <2> HIDE DEF a, kept
  <2>4. LET u == ChannelsOff(s, vs, rule.value)
        IN Leads(s, u, {"didReset"}, Masked("off", rule, kept, vs)) /\ u.didReset = TRUE
    BY <2>1, <2>2, <2>3, ResetReads, Zenon
  <2> QED
    BY <1>1, <2>4, Zenon DEF kept
<1>2. CASE ~ ResetsOff(s)
  <2>1. ChannelsOff(s, vs, rule.value) = ProcessChannels(s, vs, rule.value, "off")
    BY <1>2, Zenon DEF ChannelsOff, ResetsOff
  <2>2. Sets(s, ProcessChannels(s, vs, rule.value, "off"), Masked("off", rule, OnIn(s), vs))
    BY ListReads DEF Actions
  <2>3. Leads(s, ProcessChannels(s, vs, rule.value, "off"), {}, Masked("off", rule, OnIn(s), vs))
    BY <2>2, SetsLeads
  <2> QED
    BY <1>2, <2>1, <2>3, Zenon
<1> QED
  BY <1>1, <1>2, Zenon

\* The messages about what is read are turned on or off: nothing but dc::rcfile changes.
LEMMA SilentReads ==
  ASSUME NEW s, Paired(s), NEW value
  PROVE  LET u == Silent(s, value)
         IN /\ Paired(u) /\ OnlyChanges(s, u, {"count", "rcfileOn"})
            /\ OnIn(u) = OnIn(s) /\ u.count[Warning] = s.count[Warning]
<1>1. /\ s \in RcStates /\ s.count \in [Channels -> Int] /\ s.rcfileOn \in BOOLEAN /\ Sound(s)
      /\ Rcfile \in Channels /\ s.count[Rcfile] = IF s.rcfileOn THEN -1 ELSE 0
      /\ Elfutils \in Channels \ {Rcfile} /\ Warning \in Channels \ {Rcfile}
  BY Files, ChannelsAssumption DEF Paired, Sound
<1>2. ASSUME NEW a \in RcStates, OnlyChanges(s, a, {"count"}), Elsewhere(s, a, Rcfile), NEW v \in BOOLEAN,
             a.count[Rcfile] = IF v THEN -1 ELSE 0, NEW u, u = Put(a, "rcfileOn", v)
      PROVE  /\ Paired(u) /\ OnlyChanges(s, u, {"count", "rcfileOn"})
             /\ OnIn(u) = OnIn(s) /\ u.count[Warning] = s.count[Warning]
  <2>1. u \in RcStates /\ u.rcfileOn = v /\ OnlyChanges(a, u, {"rcfileOn"})
    BY <1>2, FlagSteps, Zenon
  <2>2. u.count = a.count /\ u.elfutilsOn = s.elfutilsOn /\ u.saved = s.saved /\ u.ended = s.ended
    BY <1>2, <2>1 DEF OnlyChanges, Fields
  <2>3. OnlyChanges(s, u, {"count", "rcfileOn"})
    BY <1>2, <2>1 DEF OnlyChanges
  <2>4. Elsewhere(s, u, Rcfile) /\ u.count[Rcfile] = IF v THEN -1 ELSE 0
    BY <1>2, <2>2 DEF Elsewhere
  <2>5. \A c \in Channels : u.count[c] >= -1
    BY <1>1, <2>4 DEF Elsewhere, Sound
  <2>6. u.count[Elfutils] >= 0 /\ u.count[Warning] = s.count[Warning]
    BY <1>1, <2>4 DEF Elsewhere, Sound
  <2>7. OnIn(u) = OnIn(s)
    BY <2>2, <2>4 DEF OnIn, Elsewhere
  <2> QED
    BY <2>1, <2>2, <2>3, <2>4, <2>5, <2>6, <2>7 DEF Paired, Sound
<1>3. \A a : /\ [a EXCEPT !.rcfileOn = TRUE] = Put(a, "rcfileOn", TRUE)
             /\ [a EXCEPT !.rcfileOn = FALSE] = Put(a, "rcfileOn", FALSE)
  BY Zenon DEF Put
<1> DEFINE u == Silent(s, value)
<1>4. CASE value = "on" /\ s.count[Rcfile] < 0
  <2>1. u = Put(Off(s, Rcfile), "rcfileOn", FALSE)
    BY <1>3, <1>4, Zenon DEF Silent, IsOn
  <2>2. /\ Off(s, Rcfile) \in RcStates /\ OnlyChanges(s, Off(s, Rcfile), {"count"})
        /\ Elsewhere(s, Off(s, Rcfile), Rcfile) /\ Off(s, Rcfile).count[Rcfile] = 0
    <3>1. s.count[Rcfile] + 1 = 0
      BY <1>1, <1>4
    <3> QED
      BY <1>1, <3>1, CountSteps
  <2> HIDE DEF u
  <2>3. Off(s, Rcfile).count[Rcfile] = IF FALSE THEN -1 ELSE 0
    BY <2>2
  <2> QED
    BY <1>2, <2>1, <2>2, <2>3, Zenon DEF u
<1>5. CASE value = "off" /\ ~ s.count[Rcfile] < 0
  <2>1. u = Put(On(s, Rcfile), "rcfileOn", TRUE)
    BY <1>3, <1>5 DEF Silent, IsOn
  <2>2. /\ On(s, Rcfile) \in RcStates /\ OnlyChanges(s, On(s, Rcfile), {"count"})
        /\ Elsewhere(s, On(s, Rcfile), Rcfile) /\ On(s, Rcfile).count[Rcfile] = -1
    <3>1. s.count[Rcfile] # -1 /\ s.count[Rcfile] - 1 = -1
      BY <1>1, <1>5
    <3> QED
      BY <1>1, <3>1, CountSteps
  <2> HIDE DEF u
  <2>3. On(s, Rcfile).count[Rcfile] = IF TRUE THEN -1 ELSE 0
    BY <2>2
  <2> QED
    BY <1>2, <2>1, <2>2, <2>3, Zenon DEF u
<1>6. CASE ~ (value = "on" /\ s.count[Rcfile] < 0) /\ ~ (value = "off" /\ ~ s.count[Rcfile] < 0)
  <2>1. u = s
    BY <1>6 DEF Silent, IsOn
  <2> QED
    BY <2>1 DEF OnlyChanges
<1> QED
  BY <1>4, <1>5, <1>6

\* No line of a file ends the program with a core dump, or leaves dc::rcfile unpaired.
LEMMA ReadLinePaired ==
  ASSUME NEW s, Paired(s), NEW vs, Listed(vs), NEW rule, IsLine(rule)
  PROVE  LET u == ReadLine(s, vs, rule) IN Paired(u) /\ u.file = s.file
<1> DEFINE u == ReadLine(s, vs, rule)
<1>1. Sound(s)
  BY DEF Paired
<1>2. ASSUME NEW on, Leads(s, u, {}, on) PROVE Paired(u) /\ u.file = s.file
  BY <1>2, LeadsPaired
<1>3. ASSUME NEW on, Leads(s, u, {"didReset"}, on) PROVE Paired(u) /\ u.file = s.file
  BY <1>3, LeadsPaired
<1>4. ASSUME NEW on, Leads(s, u, {"ended"}, on), u.ended = "fatal" PROVE Paired(u) /\ u.file = s.file
  BY <1>4, LeadsPaired
<1>5. ASSUME NEW on, Leads(s, u, {"defaultSet", "defaultOn"}, on) PROVE Paired(u) /\ u.file = s.file
  BY <1>5, LeadsPaired
<1>6. ASSUME NEW on, Leads(s, u, {"defaultSet", "ended"}, on), u.ended = "fatal" PROVE Paired(u) /\ u.file = s.file
  BY <1>6, LeadsPaired
<1>7. CASE rule.keyword = "silent"
  <2>1. u = Silent(s, rule.value)
    BY <1>7 DEF ReadLine
  <2> HIDE DEF u
  <2>2. Paired(u) /\ OnlyChanges(s, u, {"count", "rcfileOn"})
    BY <2>1, SilentReads
  <2>3. u.file = s.file
    BY <2>2 DEF OnlyChanges, Fields
  <2> QED
    BY <2>2, <2>3 DEF u
<1>8. CASE rule.keyword = "channels_default"
  <2>1. u = ChannelsDefault(s, vs, rule.value)
    BY <1>8 DEF ReadLine
  <2>2. s.defaultSet[s.file] => u = s
    BY <2>1, DefaultByPut
  <2> HIDE DEF u
  <2>3. CASE ~ s.defaultSet[s.file]
    <3>1. CASE rule.value = "on"
      <4>1. Leads(s, u, {"defaultSet", "defaultOn"}, OnIn(s) \cup ToSet(vs))
        BY <1>1, <2>1, <2>3, <3>1, DefaultReads
      <4> QED
        BY <1>5, <4>1, Zenon DEF u
    <3>2. CASE rule.value = "off"
      <4>1. Leads(s, u, {"defaultSet", "defaultOn"}, OnIn(s) \ ToSet(vs))
        BY <1>1, <2>1, <2>3, <3>2, DefaultReads
      <4> QED
        BY <1>5, <4>1, Zenon DEF u
    <3>3. CASE rule.value \notin {"on", "off"}
      <4>1. Leads(s, u, {"defaultSet", "ended"}, OnIn(s)) /\ u.ended = "fatal"
        BY <1>1, <2>1, <2>3, <3>3, DefaultReads
      <4> QED
        BY <1>6, <4>1, Zenon DEF u
    <3> QED
      BY <3>1, <3>2, <3>3
  <2> QED
    BY <2>2, <2>3 DEF u
<1>9. CASE rule.keyword = "channels_toggle"
  <2>1. u = ChannelsToggle(s, vs, rule.value) /\ rule.value \in Seq(ToSet(rule.value))
    BY <1>9 DEF ReadLine, IsLine, IsSequence
  <2> HIDE DEF u
  <2> QED
    BY <1>1, <1>2, <1>4, <2>1, ToggleReads DEF u
<1>10. CASE rule.keyword = "channels_on"
  <2>1. u = ChannelsOn(s, vs, rule.value) /\ rule.value \in Seq(ToSet(rule.value))
    BY <1>10 DEF ReadLine, IsLine, IsSequence
  <2> HIDE DEF u
  <2>2. CASE ResetsOn(s)
    <3> DEFINE kept == (OnIn(s) \ ToSet(vs)) \cup (IF ~ SawDefault(s) THEN {Warning} ELSE {})
    <3>1. Leads(s, u, {"didReset"}, Masked("on", rule, kept, vs))
      BY <1>1, <2>1, <2>2, OnReads, Zenon
    <3> HIDE DEF kept
    <3> QED
      BY <1>3, <3>1, Zenon DEF u
  <2>3. CASE ~ ResetsOn(s)
    <3>1. Leads(s, u, {}, Masked("on", rule, OnIn(s), vs))
      BY <1>1, <2>1, <2>3, OnReads, Zenon
    <3> QED
      BY <1>2, <3>1, Zenon DEF u
  <2> QED
    BY <2>2, <2>3, Zenon DEF u
<1>11. CASE rule.keyword = "channels_off"
  <2>1. u = ChannelsOff(s, vs, rule.value) /\ rule.value \in Seq(ToSet(rule.value))
    BY <1>11 DEF ReadLine, IsLine, IsSequence
  <2> HIDE DEF u
  <2> QED
    BY <1>1, <1>2, <1>3, <2>1, OffReads, Zenon DEF u
<1>12. CASE rule.keyword = "syntax error"
  <2>1. u = Fatal(s)
    BY <1>12 DEF ReadLine
  <2> HIDE DEF u
  <2> QED
    BY <1>1, <1>4, <2>1, FatalLeads DEF u
<1>13. CASE rule.keyword \notin {"silent", "channels_default", "channels_toggle", "channels_on", "channels_off", "syntax error"}
  BY <1>13 DEF ReadLine
<1> QED
  BY <1>7, <1>8, <1>9, <1>10, <1>11, <1>12, <1>13

\* What read() starts with: no channel was on.
LEMMA BeginReads ==
  ASSUME NEW given \in [Channels -> Int], \A c \in Channels : given[c] >= -1, given[Elfutils] >= 0
  PROVE  LET s == BeginReading(given)
         IN /\ Paired(s) /\ s.ended = "" /\ s.file = 1 /\ s.didReset = FALSE /\ s.defaultOn = FALSE
            /\ ~ s.defaultSet[1] /\ ~ s.defaultSet[2]
            /\ OnIn(s) = {c \in Channels \ {Rcfile} : given[c] < 0}
            /\ s.count[Warning] = given[Warning]
            /\ \A c \in Channels \ {Rcfile} : s.count[c] = given[c]
<1> DEFINE s == BeginReading(given)
<1>1. Rcfile \in Channels /\ Elfutils \in Channels /\ Warning \in Channels /\ Rcfile # Elfutils /\ Rcfile # Warning
  BY ChannelsAssumption
<1>2. s.count = [given EXCEPT ![Rcfile] = -1] /\ s.saved = given[Rcfile]
  BY Zenon DEF BeginReading
<1>3. s.file = 1 /\ s.ended = "" /\ s.defaultSet = <<FALSE, FALSE>>
  BY Zenon DEF BeginReading
<1>4. s.rcfileOn = TRUE /\ s.defaultOn = FALSE /\ s.didReset = FALSE
  BY Zenon DEF BeginReading
<1>5. s.elfutilsOn = (given[Elfutils] < 0)
  BY Zenon DEF BeginReading
<1>6. s = [f \in Fields |-> s[f]]
  <2>1. s = [count |-> s.count, saved |-> s.saved, rcfileOn |-> s.rcfileOn,
             elfutilsOn |-> s.elfutilsOn, defaultSet |-> s.defaultSet, defaultOn |-> s.defaultOn,
             didReset |-> s.didReset, file |-> s.file, ended |-> s.ended]
    BY Zenon DEF BeginReading
  <2> HIDE DEF s
  <2>2. [f \in Fields |-> s[f]]
          = [count |-> s.count, saved |-> s.saved, rcfileOn |-> s.rcfileOn,
             elfutilsOn |-> s.elfutilsOn, defaultSet |-> s.defaultSet, defaultOn |-> s.defaultOn,
             didReset |-> s.didReset, file |-> s.file, ended |-> s.ended]
    BY SMT DEF Fields
  <2> QED
    BY <2>1, <2>2, Zenon
<1> HIDE DEF s
<1>7. s.count \in [Channels -> Int] /\ s.saved \in Int /\ s.saved >= -1 /\ s.count[Rcfile] = -1
      /\ \A c \in Channels \ {Rcfile} : s.count[c] = given[c]
  BY <1>1, <1>2
<1>8. s.elfutilsOn \in BOOLEAN /\ ~ s.elfutilsOn
  <2>1. (given[Elfutils] < 0) = FALSE
    BY <1>1
  <2>2. s.elfutilsOn = FALSE
    BY <1>5, <2>1, Zenon
  <2> QED
    BY <2>2, Zenon
<1>9. s.defaultSet \in [1 .. 2 -> BOOLEAN] /\ ~ s.defaultSet[1] /\ ~ s.defaultSet[2]
  <2>1. \A v : <<v, v>> = [i \in 1 .. 2 |-> v]
    OBVIOUS
  <2>2. s.defaultSet = [i \in 1 .. 2 |-> FALSE]
    BY <1>3, <2>1, Zenon
  <2>3. 1 \in 1 .. 2 /\ 2 \in 1 .. 2
    OBVIOUS
  <2> QED
    BY <2>2, <2>3, Zenon
<1>10. s \in RcStates
  <2>1. s.file \in 1 .. 2 /\ s.ended \in {"", "core", "fatal"}
    <3>1. s.file = 1 /\ s.ended = ""
      BY <1>3, Zenon
    <3>2. 1 \in 1 .. 2
      OBVIOUS
    <3> QED
      BY <3>1, <3>2, Zenon
  <2>2. s.rcfileOn \in BOOLEAN /\ s.defaultOn \in BOOLEAN /\ s.didReset \in BOOLEAN
    BY <1>4, Zenon
  <2> QED
    BY <1>6, <1>7, <1>8, <1>9, <2>1, <2>2, FieldTypes, Zenon DEF FieldsOf
<1>11. OnIn(s) = {c \in Channels \ {Rcfile} : given[c] < 0}
  BY <1>1, <1>7, <1>8 DEF OnIn
<1>12. Sound(s)
  BY <1>1, <1>7, <1>10 DEF Sound
<1>13. Paired(s)
  <2>1. s.ended # "core" /\ s.rcfileOn
    BY <1>3, <1>4, Zenon
  <2> QED
    BY <1>7, <1>12, <2>1 DEF Paired
<1>14. ~ s.defaultSet[1] /\ ~ s.defaultSet[2] /\ s.count[Warning] = given[Warning]
  BY <1>1, <1>7, <1>9
<1> QED
  BY <1>3, <1>4, <1>7, <1>11, <1>13, <1>14, Zenon DEF s

\* The end of read() restores dc::rcfile and keeps the channels that are on.
LEMMA EndReads ==
  ASSUME NEW s, Paired(s)
  PROVE  LET u == EndReading(s)
         IN /\ u \in RcStates /\ u.ended = s.ended
            /\ \A c \in Channels : u.count[c] >= -1
            /\ {c \in Channels \ {Rcfile} : u.count[c] < 0} = OnIn(s)
<1> DEFINE t == BalancedRcfile(s)
           restored == Put(t, "count", [t.count EXCEPT ![Rcfile] = s.saved])
           u == EndReading(s)
<1>1. /\ s \in RcStates /\ s.count \in [Channels -> Int] /\ s.rcfileOn \in BOOLEAN /\ s.elfutilsOn \in BOOLEAN
      /\ s.saved \in Int /\ s.saved >= -1 /\ s.count[Elfutils] >= 0
      /\ s.count[Rcfile] = (IF s.rcfileOn THEN -1 ELSE 0) /\ \A c \in Channels : s.count[c] >= -1
  BY Files DEF Paired, Sound
<1>2. Rcfile \in Channels /\ Elfutils \in Channels /\ Rcfile # Elfutils
  BY ChannelsAssumption
<1>3. t \in RcStates /\ OnlyChanges(s, t, {"count"}) /\ Elsewhere(s, t, Rcfile) /\ t.count[Rcfile] = -1
  <2>1. CASE s.rcfileOn
    <3>1. t = s
      BY <2>1 DEF BalancedRcfile
    <3> QED
      BY <1>1, <2>1, <3>1 DEF OnlyChanges, Elsewhere
  <2>2. CASE ~ s.rcfileOn
    <3>1. t = On(s, Rcfile)
      BY <2>2 DEF BalancedRcfile
    <3>2. s.count[Rcfile] # -1 /\ s.count[Rcfile] - 1 = -1
      BY <1>1, <2>2
    <3> HIDE DEF t
    <3> QED
      BY <1>1, <1>2, <3>1, <3>2, CountSteps
  <2> QED
    BY <2>1, <2>2
<1>4. u = IF s.elfutilsOn THEN UntilOn(restored, Elfutils) ELSE restored
  <2>1. [t EXCEPT !.count[Rcfile] = s.saved] = restored
    BY Zenon DEF Put
  <2> HIDE DEF restored
  <2> QED
    BY <1>3, <2>1, Zenon DEF EndReading
<1> HIDE DEF t
<1>5. /\ restored \in RcStates /\ OnlyChanges(t, restored, {"count"})
      /\ restored.count = [t.count EXCEPT ![Rcfile] = s.saved]
  <2>1. t.count \in [Channels -> Int]
    BY <1>3, Files
  <2>2. [t.count EXCEPT ![Rcfile] = s.saved] \in [Channels -> Int]
    BY <1>1, <2>1
  <2> DEFINE v == [t.count EXCEPT ![Rcfile] = s.saved]
  <2> HIDE DEF v
  <2>4. Put(t, "count", v) \in RcStates
    <3>1. \A w \in [Channels -> Int] : Put(t, "count", w) \in RcStates
      BY <1>3, PutType
    <3> QED
      BY <2>2, <3>1, Zenon DEF v
  <2>5. Put(t, "count", v).count = v /\ \A g \in Fields : g # "count" => Put(t, "count", v)[g] = t[g]
    BY <1>3, PutField DEF Fields
  <2> QED
    BY <2>4, <2>5 DEF v, OnlyChanges
<1>6. /\ \A c \in Channels \ {Rcfile} : restored.count[c] = s.count[c]
      /\ restored.count[Rcfile] = s.saved /\ restored.count \in [Channels -> Int]
  <2>1. t.count \in [Channels -> Int] /\ restored.count \in [Channels -> Int]
    BY <1>3, <1>5, Files
  <2> HIDE DEF restored
  <2> QED
    BY <1>2, <1>3, <1>5, <2>1 DEF Elsewhere
<1>7. restored.ended = s.ended
  BY <1>3, <1>5 DEF OnlyChanges, Fields
<1> HIDE DEF restored, u
<1>8. CASE s.elfutilsOn
  <2>1. u = UntilOn(restored, Elfutils)
    BY <1>4, <1>8
  <2>2. /\ u \in RcStates /\ OnlyChanges(restored, u, {"count"}) /\ Elsewhere(restored, u, Elfutils)
        /\ u.count[Elfutils] = -1 /\ u.count \in [Channels -> Int]
    <3>1. ~ restored.count[Elfutils] < 0
      BY <1>1, <1>2, <1>6
    <3>2. u \in RcStates
      BY <1>2, <1>5, <2>1, CountSteps
    <3> QED
      BY <1>2, <1>5, <2>1, <3>1, <3>2, CountSteps, Files
  <2>3. u.ended = s.ended
    BY <1>7, <2>2 DEF OnlyChanges, Fields
  <2>4. \A c \in Channels : u.count[c] >= -1
    BY <1>1, <1>6, <2>2 DEF Elsewhere
  <2>5. {c \in Channels \ {Rcfile} : u.count[c] < 0} = OnIn(s)
    BY <1>2, <1>6, <1>8, <2>2 DEF OnIn, Elsewhere
  <2> QED
    BY <2>2, <2>3, <2>4, <2>5 DEF u
<1>9. CASE ~ s.elfutilsOn
  <2>1. u = restored
    BY <1>4, <1>9
  <2>2. \A c \in Channels : u.count[c] >= -1
    BY <1>1, <1>6, <2>1
  <2>3. {c \in Channels \ {Rcfile} : u.count[c] < 0} = OnIn(s)
    BY <1>1, <1>2, <1>6, <1>9, <2>1 DEF OnIn
  <2> QED
    BY <1>5, <1>7, <2>1, <2>2, <2>3 DEF u
<1> QED
  BY <1>8, <1>9

-----------------------------------------------------------------------------
\* The channels that are on behind each line of a file.
Follows(f, file, channels, before, start) ==
  /\ f[0] = before
  /\ \A i \in 1 .. Len(file) : f[i] = Means(file, channels, start, f[i - 1], i)

\* What a line means is a set of the channels.
LEMMA MeansChannels ==
  ASSUME NEW channels, NEW on \in SUBSET channels, NEW file, NEW i, NEW start,
         \A j \in DOMAIN start : start[j] \in SUBSET channels
  PROVE  Means(file, channels, start, on, i) \in SUBSET channels
<1> DEFINE rule == file[i]
           from == IF i \in DOMAIN start THEN start[i] ELSE on
           toggled == ToggledBy(channels, rule.value)
<1>1. from \in SUBSET channels
  OBVIOUS
<1>2. toggled \in SUBSET channels /\ Covered(channels, rule.value) \in SUBSET channels
  BY DEF ToggledBy, Covered
<1>3. \/ Means(file, channels, start, on, i) \in {channels, {}, on, from \cup Covered(channels, rule.value),
                                                  from \ Covered(channels, rule.value)}
      \/ Means(file, channels, start, on, i) = (on \ toggled) \cup (toggled \ on)
  BY Zenon DEF Means
<1> HIDE DEF from, toggled
<1> QED
  BY <1>1, <1>2, <1>3

\* What a file means is what its lines mean, one behind the other.
LEMMA MeaningFollows ==
  ASSUME NEW S, NEW file \in Seq(S), NEW channels, NEW before \in SUBSET channels, NEW start,
         \A j \in DOMAIN start : start[j] \in SUBSET channels
  PROVE  \E f : /\ Follows(f, file, channels, before, start)
                /\ f[Len(file)] = Meaning(file, channels, before, start)
<1> DEFINE n == Len(file)
           places == [i \in DOMAIN file |-> i]
           T == SUBSET channels
           Step(t, i) == Means(file, channels, start, t, i)
           Solution(g) == g = [w \in SUBSET DOMAIN places |->
                                 IF w = {} THEN before ELSE Step(g[w \ {Max(w)}], places[Max(w)])]
           step == [i \in 1 .. n |-> [t \in T |-> Step(t, i)]]
<1>1. n \in Nat /\ DOMAIN file = 1 .. n /\ DOMAIN places = 1 .. n /\ \A i \in 1 .. n : places[i] = i
  OBVIOUS
<1>2. \A t \in T : \A i : Step(t, i) \in T
  BY MeansChannels
<1> HIDE DEF Step
<1>3. step \in [1 .. n -> [T -> T]] /\ before \in T
  BY <1>1, <1>2
<1>4. PICK g \in [SUBSET (1 .. n) -> T] : FoldEquation(g, n, before, step)
  <2> HIDE DEF step, n, T
  <2> QED
    BY <1>1, <1>3, FoldExists
<1>5. Solution(g)
  <2>1. ASSUME NEW w \in SUBSET (1 .. n), w # {}
        PROVE  step[Max(w)][g[w \ {Max(w)}]] = Step(g[w \ {Max(w)}], places[Max(w)])
    <3>1. Max(w) \in 1 .. n /\ w \ {Max(w)} \in SUBSET (1 .. n)
      BY <1>1, <2>1, MaxIsElement
    <3>2. g[w \ {Max(w)}] \in T
      BY <3>1
    <3> QED
      BY <1>1, <3>1, <3>2
  <2> HIDE DEF step, places
  <2> QED
    BY <1>1, <1>4, <2>1 DEF FoldEquation
<1>6. PICK h : Solution(h) /\ Meaning(file, channels, before, start) = h[1 .. n]
  <2>1. Meaning(file, channels, before, start) = (CHOOSE h : Solution(h))[DOMAIN places]
    BY DEF FoldLeft, MapThenFoldSet, Meaning, Step
  <2>2. Solution(CHOOSE h : Solution(h))
    <3> HIDE DEF Solution
    <3> QED
      BY <1>5
  <2> HIDE DEF Solution, places
  <2> QED
    BY <1>1, <2>1, <2>2
<1>7. h = [w \in SUBSET (1 .. n) |-> IF w = {} THEN before ELSE Step(h[w \ {Max(w)}], places[Max(w)])]
  <2> HIDE DEF places
  <2> QED
    BY <1>1, <1>6
<1> HIDE DEF places, n
<1>8. h[1 .. 0] = before
  <2>1. 1 .. 0 \in SUBSET (1 .. n) /\ 1 .. 0 = {}
    BY <1>1
  <2> QED
    BY <1>7, <2>1
<1>9. ASSUME NEW i \in 1 .. n PROVE h[1 .. i] = Step(h[1 .. i - 1], i)
  <2>1. 1 .. i \in SUBSET (1 .. n) /\ 1 .. i # {} /\ Max(1 .. i) = i /\ (1 .. i) \ {i} = 1 .. i - 1
    BY <1>1, Initial
  <2>2. h[1 .. i] = Step(h[(1 .. i) \ {Max(1 .. i)}], places[Max(1 .. i)])
    BY <1>7, <2>1, Zenon
  <2>3. places[Max(1 .. i)] = i
    BY <1>1, <2>1
  <2> QED
    BY <2>1, <2>2, <2>3, Zenon
<1> DEFINE f == [i \in 0 .. n |-> h[1 .. i]]
<1>10. f[0] = before /\ f[n] = h[1 .. n]
  BY <1>1, <1>8
<1>11. \A i \in 1 .. n : f[i] = Step(f[i - 1], i)
  <2>1. \A i \in 1 .. n : i - 1 \in 0 .. n /\ i \in 0 .. n
    BY <1>1
  <2> QED
    BY <1>9, <2>1
<1> HIDE DEF f
<1>12. Follows(f, file, channels, before, start)
  BY <1>10, <1>11 DEF Follows, Step, n
<1> QED
  BY <1>6, <1>10, <1>12 DEF n

\* The channels that the masks match are those that they cover.
LEMMA HitsAreCovered ==
  ASSUME NEW masks, IsSequence(masks), \A i \in DOMAIN masks : IsSequence(masks[i]),
         NEW channels \in SUBSET Channels
  PROVE  /\ Hits("toggle", masks, channels, Len(masks)) = ToggledBy(channels, masks)
         /\ \A action \in {"on", "off"} : Hits(action, masks, channels, Len(masks)) = Covered(channels, masks)
<1> DEFINE n == Len(masks)
<1>1. n \in Nat /\ DOMAIN masks = 1 .. n
  BY DEF IsSequence
<1>2. ASSUME NEW c \in channels, NEW i \in 1 .. n
      PROVE  Match(masks[i], LabelOf[c]) <=> Covers(masks[i], LabelOf[c])
  <2>1. masks[i] \in Seq(ToSet(masks[i]))
    BY <1>1 DEF IsSequence
  <2>2. LabelOf[c] \in Seq(ToSet(LabelOf[c])) /\ Zero \notin ToSet(LabelOf[c])
    BY LabelOfAssumption DEF IsSequence
  <2> QED
    BY <2>1, <2>2, MatchIsCovers, Zenon
<1>3. ASSUME NEW c \in channels
      PROVE  {j \in 1 .. n : Match(masks[j], LabelOf[c])} = {j \in DOMAIN masks : Covers(masks[j], LabelOf[c])}
  BY <1>1, <1>2
<1> HIDE DEF n
<1>4. Hits("toggle", masks, channels, n) = ToggledBy(channels, masks)
  BY <1>3, Zenon DEF Hits, ToggledBy
<1>5. ASSUME NEW action \in {"on", "off"}
      PROVE  Hits(action, masks, channels, n) = Covered(channels, masks)
  <2>1. action # "toggle"
    OBVIOUS
  <2>2. \A c \in channels : c \in Hits(action, masks, channels, n) <=> c \in Covered(channels, masks)
    <3> SUFFICES ASSUME NEW c \in channels
                 PROVE  {j \in 1 .. n : Match(masks[j], LabelOf[c])} # {}
                          <=> \E i \in DOMAIN masks : Covers(masks[i], LabelOf[c])
      BY <2>1, Zenon DEF Hits, Covered
    <3> QED
      BY <1>3
  <2>3. Hits(action, masks, channels, n) \subseteq channels /\ Covered(channels, masks) \subseteq channels
    BY DEF Hits, Covered
  <2> QED
    BY <2>2, <2>3
<1> QED
  BY <1>4, <1>5 DEF n

InOne(a, b) == (a \ b) \cup (b \ a)
HasMasks(rule) == IsSequence(rule.value) /\ \A i \in DOMAIN rule.value : IsSequence(rule.value[i])

\* What a line does is what Means says of it.
LEMMA MaskedMeans ==
  ASSUME NEW rule, HasMasks(rule), NEW vs, ToSet(vs) \in SUBSET Channels, NEW on
  PROVE  /\ Masked("on", rule, on, vs) = on \cup Covered(ToSet(vs), rule.value)
         /\ Masked("off", rule, on, vs) = on \ Covered(ToSet(vs), rule.value)
         /\ Masked("toggle", rule, on, vs) = InOne(on, ToggledBy(ToSet(vs), rule.value))
<1>1. IsSequence(rule.value) /\ \A i \in DOMAIN rule.value : IsSequence(rule.value[i])
  BY DEF HasMasks
<1>2. ToSet(vs) \in SUBSET Channels
  OBVIOUS
<1> DEFINE channels == ToSet(vs)
           masks == rule.value
<1> HIDE DEF channels, masks
<1>3. Hits("toggle", masks, channels, Len(masks)) = ToggledBy(channels, masks)
  BY <1>1, <1>2, HitsAreCovered, Zenon DEF channels, masks
<1>4. \A action \in {"on", "off"} : Hits(action, masks, channels, Len(masks)) = Covered(channels, masks)
  BY <1>1, <1>2, HitsAreCovered, Zenon DEF channels, masks
<1> QED
  BY <1>3, <1>4 DEF Masked, Change, channels, masks, InOne

\* What reading a line does: sets, that it is the first channels_default of its file;
\* resets, that it turned all channels on or off before it turned some off or on.
Reads(s, u, sets, resets, on) ==
  /\ Paired(u) /\ u.file = s.file /\ u.count[Warning] <= 0 /\ OnIn(u) = on
  /\ \A j \in 1 .. 2 : u.defaultSet[j] <=> s.defaultSet[j] \/ (sets /\ j = s.file)
  /\ ~sets => u.defaultOn = s.defaultOn
  /\ u.didReset <=> s.didReset \/ resets

\* A step that changes what a line may change.
LEMMA LeadsReads ==
  ASSUME NEW s, NEW u, Paired(u), u.file = s.file, s \in RcStates, Known(s), NEW on
  PROVE  /\ Leads(s, u, {}, on) => Reads(s, u, FALSE, FALSE, on)
         /\ Leads(s, u, {"didReset"}, on) /\ u.didReset = TRUE => Reads(s, u, FALSE, TRUE, on)
         /\ Leads(s, u, {"defaultSet", "defaultOn"}, on) /\ DefaultSeen(s, u) => Reads(s, u, TRUE, FALSE, on)
<1>1. "didReset" \in Fields /\ "defaultSet" \in Fields /\ "defaultOn" \in Fields
  BY DEF Fields
<1>2. ASSUME NEW fields, Leads(s, u, fields, on)
      PROVE  /\ OnIn(u) = on /\ u.count[Warning] <= 0
             /\ "didReset" \notin fields => u.didReset = s.didReset
             /\ "defaultSet" \notin fields => u.defaultSet = s.defaultSet
             /\ "defaultOn" \notin fields => u.defaultOn = s.defaultOn
  BY <1>1, <1>2 DEF Leads, OnlyChanges
<1>3. ASSUME Leads(s, u, {}, on) PROVE Reads(s, u, FALSE, FALSE, on)
  <2>1. /\ OnIn(u) = on /\ u.count[Warning] <= 0 /\ u.didReset = s.didReset
        /\ u.defaultSet = s.defaultSet /\ u.defaultOn = s.defaultOn
    BY <1>2, <1>3
  <2> QED
    BY <2>1, Zenon DEF Reads
<1>4. ASSUME Leads(s, u, {"didReset"}, on), u.didReset = TRUE PROVE Reads(s, u, FALSE, TRUE, on)
  <2>1. OnIn(u) = on /\ u.count[Warning] <= 0 /\ u.defaultSet = s.defaultSet /\ u.defaultOn = s.defaultOn
    BY <1>2, <1>4
  <2> QED
    BY <1>4, <2>1, Zenon DEF Reads
<1>5. ASSUME Leads(s, u, {"defaultSet", "defaultOn"}, on), DefaultSeen(s, u) PROVE Reads(s, u, TRUE, FALSE, on)
  <2>1. OnIn(u) = on /\ u.count[Warning] <= 0 /\ u.didReset = s.didReset
    BY <1>2, <1>5
  <2> QED
    BY <1>5, <2>1, Zenon DEF Reads, DefaultSeen
<1> QED
  BY <1>3, <1>4, <1>5

SetsDefault(s, rule) == rule.keyword = "channels_default" /\ ~s.defaultSet[s.file]
Resets(s, rule) == \/ rule.keyword = "channels_on" /\ ResetsOn(s)
                   \/ rule.keyword = "channels_off" /\ ResetsOff(s)
\* The channels that are on behind a line.
LineOn(s, channels, rule) ==
  LET on == OnIn(s)
      from == IF ~Resets(s, rule) THEN on
              ELSE IF rule.keyword = "channels_off" THEN channels
              ELSE IF SawDefault(s) THEN {} ELSE {Warning}
  IN CASE SetsDefault(s, rule) -> (IF rule.value = "on" THEN channels ELSE {})
       [] rule.keyword = "channels_toggle" -> InOne(on, ToggledBy(channels, rule.value))
       [] rule.keyword = "channels_on" -> from \cup Covered(channels, rule.value)
       [] rule.keyword = "channels_off" -> from \ Covered(channels, rule.value)
       [] OTHER -> on

\* The list holds channels.
LEMMA ListedChannels ==
  ASSUME NEW vs, Listed(vs)
  PROVE  ToSet(vs) \in SUBSET Channels
<1>1. vs \in Seq(Channels \ {Rcfile})
  BY DEF Listed, Lists
<1> QED
  BY <1>1 DEF ToSet

\* Reading a line that does not end the program changes what is on as LineOn says.
LEMMA LineReads ==
  ASSUME NEW s, Paired(s), Known(s), NEW vs, Listed(vs), OnIn(s) \subseteq ToSet(vs), NEW rule, IsLine(rule),
         s.ended = "", ReadLine(s, vs, rule).ended = ""
  PROVE  LET u == ReadLine(s, vs, rule)
         IN /\ Reads(s, u, SetsDefault(s, rule), Resets(s, rule), LineOn(s, ToSet(vs), rule))
            /\ SetsDefault(s, rule) => u.defaultOn = (rule.value = "on") /\ rule.value \in {"on", "off"}
<1> DEFINE u == ReadLine(s, vs, rule)
           channels == ToSet(vs)
           on == OnIn(s)
           Goal == /\ Reads(s, u, SetsDefault(s, rule), Resets(s, rule), LineOn(s, channels, rule))
                   /\ SetsDefault(s, rule) => u.defaultOn = (rule.value = "on") /\ rule.value \in {"on", "off"}
<1> SUFFICES Goal
  OBVIOUS
<1>1. s \in RcStates /\ Sound(s)
  BY DEF Paired, Sound
<1>2. Paired(u) /\ u.file = s.file /\ u.ended = ""
  BY ReadLinePaired, Zenon
<1>3. ToSet(vs) \in SUBSET Channels
  BY ListedChannels, Zenon
<1>4. ASSUME NEW any, Leads(s, u, {}, any) PROVE Reads(s, u, FALSE, FALSE, any)
  <2> HIDE DEF u
  <2> QED
    BY <1>1, <1>2, <1>4, LeadsReads, Zenon
<1>5. ASSUME NEW any, Leads(s, u, {"didReset"}, any), u.didReset = TRUE PROVE Reads(s, u, FALSE, TRUE, any)
  <2> HIDE DEF u
  <2> QED
    BY <1>1, <1>2, <1>5, LeadsReads, Zenon
<1>6. ASSUME NEW any, Leads(s, u, {"defaultSet", "defaultOn"}, any), DefaultSeen(s, u)
      PROVE  Reads(s, u, TRUE, FALSE, any)
  <2> HIDE DEF u
  <2> QED
    BY <1>1, <1>2, <1>6, LeadsReads, Zenon
<1>7. Reads(s, s, FALSE, FALSE, on)
  BY Zenon DEF Reads, Known
<1>8. CASE rule.keyword = "silent"
  <2>1. u = Silent(s, rule.value)
    BY <1>8 DEF ReadLine
  <2>2. /\ OnlyChanges(s, u, {"count", "rcfileOn"})
        /\ OnIn(u) = OnIn(s) /\ u.count[Warning] = s.count[Warning]
    BY <2>1, SilentReads, Zenon
  <2> HIDE DEF u
  <2>3. u.defaultSet = s.defaultSet /\ u.defaultOn = s.defaultOn /\ u.didReset = s.didReset
    BY <2>2 DEF OnlyChanges, Fields
  <2>4. Reads(s, u, FALSE, FALSE, on)
    <3>1. u.count[Warning] <= 0
      BY <2>2 DEF Known
    <3> QED
      BY <1>2, <2>2, <2>3, <3>1, Zenon DEF Reads
  <2>5. ~ SetsDefault(s, rule) /\ ~ Resets(s, rule) /\ LineOn(s, channels, rule) = on
    BY <1>8 DEF SetsDefault, Resets, LineOn
  <2> QED
    BY <2>4, <2>5, Zenon DEF Reads
<1>9. CASE rule.keyword = "channels_default"
  <2>1. u = ChannelsDefault(s, vs, rule.value) /\ ~ Resets(s, rule)
    BY <1>9 DEF ReadLine, Resets
  <2>2. CASE s.defaultSet[s.file]
    <3>1. u = s
      BY <2>1, <2>2 DEF ChannelsDefault
    <3>2. ~ SetsDefault(s, rule) /\ LineOn(s, channels, rule) = on
      BY <1>9, <2>2 DEF SetsDefault, LineOn
    <3> HIDE DEF u
    <3> QED
      BY <1>7, <2>1, <3>1, <3>2, Zenon DEF Reads
  <2>3. CASE ~ s.defaultSet[s.file]
    <3>1. SetsDefault(s, rule) /\ LineOn(s, channels, rule) = IF rule.value = "on" THEN channels ELSE {}
      BY <1>9, <2>3 DEF SetsDefault, LineOn
    <3>2. CASE rule.value = "on"
      <4>1. Leads(s, u, {"defaultSet", "defaultOn"}, on \cup channels) /\ u.defaultOn = TRUE /\ DefaultSeen(s, u)
        BY <1>1, <2>1, <2>3, <3>2, DefaultReads, Zenon
      <4>2. on \cup channels = LineOn(s, channels, rule) /\ (rule.value = "on") = TRUE
        BY <3>1, <3>2
      <4> HIDE DEF u
      <4>3. Reads(s, u, TRUE, FALSE, LineOn(s, channels, rule))
        BY <1>6, <4>1, <4>2, Zenon DEF u
      <4> QED
        BY <2>1, <3>1, <3>2, <4>1, <4>2, <4>3, Zenon DEF Reads
    <3>3. CASE rule.value = "off"
      <4>1. Leads(s, u, {"defaultSet", "defaultOn"}, on \ channels) /\ u.defaultOn = FALSE /\ DefaultSeen(s, u)
        BY <1>1, <2>1, <2>3, <3>3, DefaultReads, Zenon
      <4>2. on \ channels = LineOn(s, channels, rule) /\ (rule.value = "on") = FALSE
        BY <3>1, <3>3
      <4> HIDE DEF u
      <4>3. Reads(s, u, TRUE, FALSE, LineOn(s, channels, rule))
        BY <1>6, <4>1, <4>2, Zenon DEF u
      <4> QED
        BY <2>1, <3>1, <3>3, <4>1, <4>2, <4>3, Zenon DEF Reads
    <3>4. CASE ~ (rule.value \in {"on", "off"})
      <4>1. u.ended = "fatal"
        <5>1. ChannelsDefault(s, vs, rule.value).ended = "fatal"
          BY <1>1, <2>3, <3>4, DefaultFatal, Zenon
        <5> HIDE DEF u
        <5> QED
          BY <2>1, <5>1, Zenon
      <4> QED
        BY <1>2, <4>1
    <3> QED
      BY <3>2, <3>3, <3>4
  <2> QED
    BY <2>2, <2>3
<1>10. CASE rule.keyword = "channels_toggle"
  <2>1. u = ChannelsToggle(s, vs, rule.value) /\ rule.value \in Seq(ToSet(rule.value))
    BY <1>10 DEF ReadLine, IsLine, IsSequence
  <2>2. ~ SetsDefault(s, rule) /\ ~ Resets(s, rule)
    BY <1>10 DEF SetsDefault, Resets
  <2>3. LineOn(s, channels, rule) = Masked("toggle", rule, on, vs)
    <3>1. LineOn(s, channels, rule)
            = InOne(on, ToggledBy(channels, rule.value))
      BY <1>10, <2>2 DEF LineOn
    <3>2. HasMasks(rule)
      BY <1>10 DEF IsLine, HasMasks
    <3> QED
      BY <1>3, <3>1, <3>2, MaskedMeans, Zenon
  <2>4. Leads(s, u, {}, Masked("toggle", rule, on, vs))
    <3>1. ASSUME ~ (s.defaultSet[s.file] \/ s.defaultSet[1]) PROVE FALSE
      <4>1. u.ended = "fatal"
        BY <1>1, <2>1, <3>1, ToggleReads, Zenon
      <4> QED
        BY <1>2, <4>1
    <3> QED
      BY <1>1, <2>1, <3>1, ToggleReads, Zenon
  <2> HIDE DEF u
  <2> QED
    BY <1>4, <2>2, <2>3, <2>4, Zenon DEF Reads, u
<1>11. CASE rule.keyword = "channels_on"
  <2>1. u = ChannelsOn(s, vs, rule.value) /\ rule.value \in Seq(ToSet(rule.value))
    BY <1>11 DEF ReadLine, IsLine, IsSequence
  <2>2. ~ SetsDefault(s, rule) /\ (Resets(s, rule) <=> ResetsOn(s))
    BY <1>11 DEF SetsDefault, Resets
  <2> DEFINE kept == (on \ channels) \cup (IF ~ SawDefault(s) THEN {Warning} ELSE {})
             from == IF ~ Resets(s, rule) THEN on ELSE kept
  <2>3. LineOn(s, channels, rule) = Masked("on", rule, from, vs)
    <3>1. LineOn(s, channels, rule) = from \cup Covered(channels, rule.value)
      BY <1>11, <2>2 DEF LineOn
    <3> HIDE DEF from
    <3>2. HasMasks(rule)
      BY <1>11 DEF IsLine, HasMasks
    <3> QED
      BY <1>3, <3>1, <3>2, MaskedMeans, Zenon
  <2>4. CASE ResetsOn(s)
    <3>1. Leads(s, u, {"didReset"}, Masked("on", rule, kept, vs)) /\ u.didReset = TRUE
      BY <1>1, <2>1, <2>4, OnReads, Zenon
    <3>2. Resets(s, rule) /\ from = kept
      BY <2>2, <2>4
    <3> HIDE DEF u, kept, from
    <3> QED
      BY <1>5, <2>2, <2>3, <3>1, <3>2, Zenon DEF Reads, u
  <2>5. CASE ~ ResetsOn(s)
    <3>1. Leads(s, u, {}, Masked("on", rule, on, vs))
      BY <1>1, <2>1, <2>5, OnReads, Zenon
    <3>2. ~ Resets(s, rule) /\ from = on
      BY <2>2, <2>5
    <3> HIDE DEF u, kept, from
    <3> QED
      BY <1>4, <2>2, <2>3, <3>1, <3>2, Zenon DEF Reads, u
  <2> QED
    BY <2>4, <2>5
<1>12. CASE rule.keyword = "channels_off"
  <2>1. u = ChannelsOff(s, vs, rule.value) /\ rule.value \in Seq(ToSet(rule.value))
    BY <1>12 DEF ReadLine, IsLine, IsSequence
  <2>2. ~ SetsDefault(s, rule) /\ (Resets(s, rule) <=> ResetsOff(s))
    BY <1>12 DEF SetsDefault, Resets
  <2> DEFINE kept == on \cup channels
             from == IF ~ Resets(s, rule) THEN on ELSE kept
  <2>3. LineOn(s, channels, rule) = Masked("off", rule, from, vs)
    <3>1. LineOn(s, channels, rule) = from \ Covered(channels, rule.value)
      BY <1>12, <2>2 DEF LineOn
    <3> HIDE DEF from
    <3>2. HasMasks(rule)
      BY <1>12 DEF IsLine, HasMasks
    <3> QED
      BY <1>3, <3>1, <3>2, MaskedMeans, Zenon
  <2>4. CASE ResetsOff(s)
    <3>1. Leads(s, u, {"didReset"}, Masked("off", rule, kept, vs)) /\ u.didReset = TRUE
      BY <1>1, <2>1, <2>4, OffReads, Zenon
    <3>2. Resets(s, rule) /\ from = kept
      BY <2>2, <2>4
    <3> HIDE DEF u, kept, from
    <3> QED
      BY <1>5, <2>2, <2>3, <3>1, <3>2, Zenon DEF Reads, u
  <2>5. CASE ~ ResetsOff(s)
    <3>1. Leads(s, u, {}, Masked("off", rule, on, vs))
      BY <1>1, <2>1, <2>5, OffReads, Zenon
    <3>2. ~ Resets(s, rule) /\ from = on
      BY <2>2, <2>5
    <3> HIDE DEF u, kept, from
    <3> QED
      BY <1>4, <2>2, <2>3, <3>1, <3>2, Zenon DEF Reads, u
  <2> QED
    BY <2>4, <2>5
<1>13. CASE rule.keyword = "syntax error"
  <2>1. u = Fatal(s)
    BY <1>13 DEF ReadLine
  <2>2. u.ended = "fatal"
    BY <1>1, <2>1, FatalLeads, Zenon
  <2> QED
    BY <1>2, <2>2
<1>14. CASE rule.keyword \notin {"silent", "channels_default", "channels_toggle", "channels_on", "channels_off",
                                 "syntax error"}
  <2>1. u = s
    BY <1>14 DEF ReadLine
  <2>2. ~ SetsDefault(s, rule) /\ ~ Resets(s, rule) /\ LineOn(s, channels, rule) = on
    BY <1>14 DEF SetsDefault, Resets, LineOn
  <2> HIDE DEF u
  <2> QED
    BY <1>7, <2>1, <2>2, Zenon DEF Reads, u
<1> QED
  BY <1>8, <1>9, <1>10, <1>11, <1>12, <1>13, <1>14

\* A channels_default is the first of its file when none was seen in front of it.
LEMMA DefaultNext ==
  ASSUME NEW file, IsSequence(file), NEW i \in 1 .. Len(file)
  PROVE  /\ DefaultBefore(file, 1) = {}
         /\ i \in FirstOf(file, "channels_default")
              <=> file[i].keyword = "channels_default" /\ DefaultBefore(file, i) = {}
         /\ DefaultBefore(file, i + 1) = IF i \in FirstOf(file, "channels_default") THEN {file[i].value}
                                         ELSE DefaultBefore(file, i)
<1> DEFINE F == FirstOf(file, "channels_default")
<1>1. Len(file) \in Nat /\ DOMAIN file = 1 .. Len(file)
  BY DEF IsSequence
<1>2. F \subseteq 1 .. Len(file)
        /\ \A k \in F : file[k].keyword = "channels_default"
                        /\ \A j \in 1 .. k - 1 : file[j].keyword # "channels_default"
  BY <1>1 DEF FirstOf
<1>3. ASSUME NEW k \in F, NEW l \in F PROVE k = l
  BY <1>2
<1>4. ASSUME NEW j \in 1 .. i - 1, file[j].keyword = "channels_default"
      PROVE  \E k \in F : k < i
  <2> DEFINE w == {k \in 1 .. i - 1 : file[k].keyword = "channels_default"}
  <2>1. w \in SUBSET Nat /\ w # {}
    BY <1>4
  <2>2. PICK k \in w : \A y \in w : k <= y
    <3> HIDE DEF w
    <3> QED
      BY <2>1, FirstExists
  <2>3. k \in 1 .. Len(file) /\ k < i /\ file[k].keyword = "channels_default"
    BY <1>1, <2>2
  <2>4. \A y \in 1 .. k - 1 : file[y].keyword # "channels_default"
    BY <1>1, <2>2, <2>3
  <2> QED
    BY <1>1, <2>3, <2>4 DEF FirstOf
<1>5. i \in F <=> file[i].keyword = "channels_default" /\ \A j \in 1 .. i - 1 : file[j].keyword # "channels_default"
  BY <1>1 DEF FirstOf
<1>6. DefaultBefore(file, i) = {} <=> \A k \in F : ~ (k < i)
  BY DEF DefaultBefore
<1>7. i \in F <=> file[i].keyword = "channels_default" /\ DefaultBefore(file, i) = {}
  <2>1. (\A k \in F : ~ (k < i)) => \A j \in 1 .. i - 1 : file[j].keyword # "channels_default"
    BY <1>4
  <2>2. (\A j \in 1 .. i - 1 : file[j].keyword # "channels_default") => \A k \in F : ~ (k < i)
    BY <1>2
  <2> HIDE DEF F
  <2> QED
    BY <1>5, <1>6, <2>1, <2>2
<1>8. {k \in F : k < 1} = {}
  BY <1>2
<1>9. {k \in F : k < i + 1} = IF i \in F THEN {i} ELSE {k \in F : k < i}
  BY <1>2, <1>3
<1>10. \A n : DefaultBefore(file, n) = {file[j].value : j \in {k \in F : k < n}}
  BY DEF DefaultBefore
<1> HIDE DEF F
<1>11. DefaultBefore(file, 1) = {}
  BY <1>8, <1>10
<1>12. DefaultBefore(file, i + 1) = IF i \in F THEN {file[i].value} ELSE DefaultBefore(file, i)
  <2> DEFINE V(w) == {file[j].value : j \in w}
  <2>1. V({i}) = {file[i].value}
    OBVIOUS
  <2>2. DefaultBefore(file, i + 1) = V({k \in F : k < i + 1}) /\ DefaultBefore(file, i) = V({k \in F : k < i})
    BY <1>10
  <2> HIDE DEF V
  <2> QED
    BY <1>9, <2>1, <2>2
<1> QED
  BY <1>7, <1>11, <1>12 DEF F

\* LineOn is what Means says of the line.
LEMMA LineOnMeans ==
  ASSUME NEW s, NEW channels, NEW file, NEW i, NEW start,
         SetsDefault(s, file[i]) <=>
           file[i].keyword = "channels_default" /\ i \in FirstOf(file, "channels_default"),
         Resets(s, file[i]) <=> i \in DOMAIN start,
         i \in DOMAIN start => start[i] = IF file[i].keyword = "channels_off" THEN channels
                                          ELSE IF SawDefault(s) THEN {} ELSE {Warning}
  PROVE  LineOn(s, channels, file[i]) = Means(file, channels, start, OnIn(s), i)
<1> DEFINE rule == file[i]
           from == IF i \in DOMAIN start THEN start[i] ELSE OnIn(s)
           kept == IF ~Resets(s, rule) THEN OnIn(s)
                   ELSE IF rule.keyword = "channels_off" THEN channels
                   ELSE IF SawDefault(s) THEN {} ELSE {Warning}
<1>1. from = kept
  OBVIOUS
<1>2. LineOn(s, channels, rule) =
        CASE SetsDefault(s, rule) -> (IF rule.value = "on" THEN channels ELSE {})
          [] rule.keyword = "channels_toggle" -> InOne(OnIn(s), ToggledBy(channels, rule.value))
          [] rule.keyword = "channels_on" -> from \cup Covered(channels, rule.value)
          [] rule.keyword = "channels_off" -> from \ Covered(channels, rule.value)
          [] OTHER -> OnIn(s)
  <2>1. LineOn(s, channels, rule) =
          CASE SetsDefault(s, rule) -> (IF rule.value = "on" THEN channels ELSE {})
            [] rule.keyword = "channels_toggle" -> InOne(OnIn(s), ToggledBy(channels, rule.value))
            [] rule.keyword = "channels_on" -> kept \cup Covered(channels, rule.value)
            [] rule.keyword = "channels_off" -> kept \ Covered(channels, rule.value)
            [] OTHER -> OnIn(s)
    BY Zenon DEF LineOn
  <2> HIDE DEF kept, from
  <2> QED
    BY <1>1, <2>1, Zenon
<1>3. Means(file, channels, start, OnIn(s), i) =
        CASE rule.keyword = "channels_default" /\ i \in FirstOf(file, "channels_default") ->
               (IF rule.value = "on" THEN channels ELSE {})
          [] rule.keyword = "channels_toggle" -> InOne(OnIn(s), ToggledBy(channels, rule.value))
          [] rule.keyword = "channels_on" -> from \cup Covered(channels, rule.value)
          [] rule.keyword = "channels_off" -> from \ Covered(channels, rule.value)
          [] OTHER -> OnIn(s)
  BY Zenon DEF Means, InOne
<1> HIDE DEF from, kept, rule
<1> QED
  BY <1>2, <1>3 DEF rule

AreFiles(files) ==
  /\ IsSequence(files) /\ Len(files) \in 1 .. 2
  /\ \A f \in DOMAIN files : /\ IsSequence(files[f])
                            /\ \A i \in DOMAIN files[f] : IsLine(files[f][i])

\* No channels_default is in front of the first line.
LEMMA DefaultAtFirst ==
  ASSUME NEW file, IsSequence(file)
  PROVE  DefaultBefore(file, 1) = {}
<1>1. DOMAIN file = 1 .. Len(file) /\ Len(file) \in Nat
  BY DEF IsSequence
<1>2. FirstOf(file, "channels_default") \subseteq 1 .. Len(file)
  BY <1>1 DEF FirstOf
<1>3. {k \in FirstOf(file, "channels_default") : k < 1} = {}
  BY <1>2
<1> QED
  BY <1>3 DEF DefaultBefore

\* The files of a configuration are sequences of lines.
LEMMA FileShapes ==
  ASSUME NEW files, AreFiles(files)
  PROVE  /\ Len(files) = 1 \/ Len(files) = 2
         /\ 1 \in DOMAIN files /\ (Len(files) = 2 => 2 \in DOMAIN files)
         /\ DOMAIN files = 1 .. Len(files)
         /\ \A f \in DOMAIN files :
              /\ IsSequence(files[f]) /\ files[f] \in Seq(ToSet(files[f]))
              /\ Len(files[f]) \in Nat /\ DOMAIN files[f] = 1 .. Len(files[f])
              /\ DefaultBefore(files[f], 1) = {}
              /\ \A i \in DOMAIN files[f] : IsLine(files[f][i])
<1>1. /\ files \in Seq(ToSet(files)) /\ Len(files) \in 1 .. 2
      /\ \A f \in DOMAIN files : /\ IsSequence(files[f])
                                /\ \A i \in DOMAIN files[f] : IsLine(files[f][i])
  BY DEF AreFiles, IsSequence
<1>2. \A S, q : q \in Seq(S) => DOMAIN q = 1 .. Len(q) /\ Len(q) \in Nat
  OBVIOUS
<1>3. DOMAIN files = 1 .. Len(files)
  BY <1>1, <1>2, Zenon
<1>4. (Len(files) = 1 \/ Len(files) = 2) /\ 1 \in 1 .. Len(files) /\ (Len(files) = 2 => 2 \in 1 .. Len(files))
  BY <1>1
<1>5. ASSUME NEW f \in DOMAIN files
      PROVE  /\ IsSequence(files[f]) /\ files[f] \in Seq(ToSet(files[f]))
             /\ Len(files[f]) \in Nat /\ DOMAIN files[f] = 1 .. Len(files[f])
             /\ DefaultBefore(files[f], 1) = {}
             /\ \A i \in DOMAIN files[f] : IsLine(files[f][i])
  <2>1. IsSequence(files[f]) /\ \A i \in DOMAIN files[f] : IsLine(files[f][i])
    BY <1>1, Zenon
  <2>2. files[f] \in Seq(ToSet(files[f]))
    BY <2>1, Zenon DEF IsSequence
  <2> QED
    BY <1>2, <2>1, <2>2, DefaultAtFirst, Zenon
<1> QED
  BY <1>3, <1>4, <1>5, Zenon

\* What the reader remembers of the channels_default that were read.
DefaultKept(s) == IF SawDefault(s) THEN {IF s.defaultOn THEN "on" ELSE "off"} ELSE {}

\* The reader s has read n lines of its file, and what is on is what they say.
ReadTo(s, files, channels, n) ==
  /\ Paired(s) /\ s.ended = "" /\ s.count[Warning] <= 0 /\ OnIn(s) \subseteq channels
  /\ s.file \in DOMAIN files /\ n \in 0 .. Len(files[s.file])
  /\ s.file = 1 =>
       /\ ~s.defaultSet[2] /\ ~s.didReset
       /\ DefaultKept(s) = DefaultBefore(files[1], n + 1)
       /\ \A f : Follows(f, files[1], channels, {}, <<>>) => OnIn(s) = f[n]
  /\ s.file = 2 =>
       /\ s.defaultSet[1] <=> DefaultBefore(files[1], Len(files[1]) + 1) # {}
       /\ s.defaultSet[2] <=> DefaultBefore(files[2], n + 1) # {}
       /\ s.didReset <=> \E j \in 1 .. n : ListsExceptions(files, j)
       /\ DefaultKept(s) = DefaultInForce(files, n + 1)
       /\ \A f : Follows(f, files[2], channels, Meaning(files[1], channels, {}, <<>>), StartsFrom(files, channels))
                   => OnIn(s) = f[n]

\* Where a file starts.
LEMMA FromZero ==
  0 + 1 = 1 /\ 1 # 2 /\ \A n \in Nat : 0 \in 0 .. n
  OBVIOUS

\* The reader that has read nothing has done what no line says.
LEMMA ReadToBegins ==
  ASSUME NEW files, AreFiles(files), NEW channels, NEW s, Paired(s), s.ended = "", s.file = 1,
         ~s.defaultSet[1], ~s.defaultSet[2], ~s.didReset, s.count[Warning] <= 0, OnIn(s) = {}
  PROVE  ReadTo(s, files, channels, 0)
<1>1. 1 \in DOMAIN files /\ Len(files[1]) \in Nat /\ DefaultBefore(files[1], 1) = {}
  BY FileShapes, Zenon
<1>2. 0 \in 0 .. Len(files[1]) /\ 0 + 1 = 1 /\ 1 # 2
  BY <1>1, FromZero, Zenon
<1>3. DefaultKept(s) = {}
  BY Zenon DEF DefaultKept, SawDefault
<1>4. \A f : Follows(f, files[1], channels, {}, <<>>) => OnIn(s) = f[0]
  BY Zenon DEF Follows
<1>5. s.file # 2 /\ OnIn(s) \subseteq channels
  BY <1>2, Zenon
<1> QED
  BY <1>1, <1>2, <1>3, <1>4, <1>5, Zenon DEF ReadTo

\* What a file means is a set of the channels.
LEMMA MeaningChannels ==
  ASSUME NEW S, NEW file \in Seq(S), NEW channels, NEW before \in SUBSET channels, NEW start,
         \A j \in DOMAIN start : start[j] \in SUBSET channels
  PROVE  Meaning(file, channels, before, start) \in SUBSET channels
<1>1. PICK f : Follows(f, file, channels, before, start)
               /\ f[Len(file)] = Meaning(file, channels, before, start)
  BY MeaningFollows
<1> DEFINE G == {i \in Nat : i <= Len(file) => f[i] \in SUBSET channels}
<1>2. 0 \in G
  BY <1>1 DEF Follows
<1>3. ASSUME NEW i \in Nat, i \in G PROVE i + 1 \in G
  <2> SUFFICES ASSUME i + 1 <= Len(file) PROVE f[i + 1] \in SUBSET channels
    OBVIOUS
  <2>1. i <= Len(file) /\ i + 1 \in 1 .. Len(file) /\ (i + 1) - 1 = i
    OBVIOUS
  <2>2. f[i] \in SUBSET channels
    BY <1>3, <2>1
  <2>3. f[i + 1] = Means(file, channels, start, f[i], i + 1)
    BY <1>1, <2>1 DEF Follows
  <2>4. Means(file, channels, start, f[i], i + 1) \in SUBSET channels
    BY <2>2, MeansChannels, Zenon
  <2> QED
    BY <2>3, <2>4
<1>4. Nat \subseteq G
  <2> HIDE DEF G
  <2> QED
    BY <1>2, <1>3, Induction
<1>5. Len(file) \in G /\ Len(file) \in Nat
  BY <1>4
<1> QED
  BY <1>1, <1>5

\* What the line of the override file that starts anew starts from.
LEMMA StartsOf ==
  ASSUME NEW files, AreFiles(files), Len(files) = 2, NEW channels, Warning \in channels
  PROVE  /\ DOMAIN StartsFrom(files, channels) = StartsAnew(files)
         /\ \A i \in StartsAnew(files) :
              StartsFrom(files, channels)[i]
                = IF files[2][i].keyword = "channels_off" THEN channels
                  ELSE IF DefaultInForce(files, i) = {} THEN {Warning} ELSE {}
         /\ \A i \in DOMAIN StartsFrom(files, channels) : StartsFrom(files, channels)[i] \in SUBSET channels
BY DEF StartsFrom, StartOf

\* The override file is started with what the first file says.
LEMMA ReadToOverride ==
  ASSUME NEW files, AreFiles(files), Len(files) = 2, NEW channels,
         NEW s, s.file = 1, ReadTo(s, files, channels, Len(files[1])),
         NEW u, Paired(u), OnlyChanges(s, u, {"file", "didReset"}), u.file = 2, ~u.didReset
  PROVE  ReadTo(u, files, channels, 0)
<1>1. /\ Paired(s) /\ s.ended = "" /\ s.count[Warning] <= 0 /\ OnIn(s) \subseteq channels /\ ~s.defaultSet[2]
      /\ DefaultKept(s) = DefaultBefore(files[1], Len(files[1]) + 1)
      /\ \A f : Follows(f, files[1], channels, {}, <<>>) => OnIn(s) = f[Len(files[1])]
  BY DEF ReadTo
<1>2. /\ u.count = s.count /\ u.elfutilsOn = s.elfutilsOn /\ u.defaultSet = s.defaultSet
      /\ u.defaultOn = s.defaultOn /\ u.ended = s.ended
  BY DEF OnlyChanges, Fields
<1>3. /\ files[1] \in Seq(ToSet(files[1])) /\ 2 \in DOMAIN files /\ Len(files[2]) \in Nat
      /\ DefaultBefore(files[2], 1) = {}
  BY FileShapes, Zenon
<1>4. OnIn(u) = OnIn(s) /\ DefaultKept(u) = DefaultKept(s) /\ SawDefault(u) = SawDefault(s)
  BY <1>2 DEF OnIn, DefaultKept, SawDefault
<1>5. OnIn(s) = Meaning(files[1], channels, {}, <<>>)
  <2>1. DOMAIN <<>> = {} /\ {} \in SUBSET channels
    OBVIOUS
  <2>2. files[1] \in Seq(ToSet(files[1]))
    BY <1>3
  <2>3. \A j \in DOMAIN <<>> : <<>>[j] \in SUBSET channels
    BY <2>1
  <2>4. \E f : /\ Follows(f, files[1], channels, {}, <<>>)
               /\ f[Len(files[1])] = Meaning(files[1], channels, {}, <<>>)
    BY <2>1, <2>2, <2>3, MeaningFollows, Zenon
  <2> QED
    BY <1>1, <2>4, Zenon
<1>6. DefaultBefore(files[2], 0 + 1) = {} /\ 0 \in 0 .. Len(files[2]) /\ 1 # 2
  <2>1. 0 + 1 = 1
    OBVIOUS
  <2> QED
    BY <1>3, <2>1
<1>7. DefaultInForce(files, 0 + 1) = DefaultBefore(files[1], Len(files[1]) + 1)
  BY <1>6 DEF DefaultInForce
<1>8. u.defaultSet[1] <=> DefaultBefore(files[1], Len(files[1]) + 1) # {}
  BY <1>1, <1>2 DEF DefaultKept, SawDefault
<1>9. ~ u.defaultSet[2]
  BY <1>1, <1>2
<1>10. ~ \E j \in 1 .. 0 : ListsExceptions(files, j)
  OBVIOUS
<1>11. \A f : Follows(f, files[2], channels, Meaning(files[1], channels, {}, <<>>), StartsFrom(files, channels))
                => OnIn(u) = f[0]
  BY <1>4, <1>5, Zenon DEF Follows
<1>12. u.file # 1 /\ u.count[Warning] <= 0 /\ u.ended = "" /\ OnIn(u) \subseteq channels
  BY <1>1, <1>2, <1>4, <1>6, Zenon
<1> QED
  BY <1>1, <1>3, <1>4, <1>6, <1>7, <1>8, <1>9, <1>10, <1>11, <1>12, Zenon DEF ReadTo

\* When all lines were read the channels that are on are those of FilesTurnOn.
LEMMA ReadToEnds ==
  ASSUME NEW files, AreFiles(files), NEW channels, Warning \in channels,
         NEW s, s.file = Len(files), ReadTo(s, files, channels, Len(files[s.file]))
  PROVE  OnIn(s) = FilesTurnOn(files, channels)
<1> DEFINE first == Meaning(files[1], channels, {}, <<>>)
<1>1. /\ Len(files) = 1 \/ Len(files) = 2
      /\ files[1] \in Seq(ToSet(files[1])) /\ (Len(files) = 2 => files[2] \in Seq(ToSet(files[2])))
  BY FileShapes, Zenon
<1>2. {} \in SUBSET channels /\ \A j \in DOMAIN <<>> : <<>>[j] \in SUBSET channels
  <2>1. DOMAIN <<>> = {}
    OBVIOUS
  <2> QED
    BY <2>1
<1>3. CASE Len(files) = 1
  <2>1. \A f : Follows(f, files[1], channels, {}, <<>>) => OnIn(s) = f[Len(files[1])]
    BY <1>3 DEF ReadTo
  <2>2. \E f : Follows(f, files[1], channels, {}, <<>>) /\ f[Len(files[1])] = first
    BY <1>1, <1>2, MeaningFollows, Zenon
  <2>3. FilesTurnOn(files, channels) = first
    BY <1>3 DEF FilesTurnOn
  <2> HIDE DEF first
  <2> QED
    BY <2>1, <2>2, <2>3, Zenon
<1>4. CASE Len(files) = 2
  <2> DEFINE start == StartsFrom(files, channels)
  <2>1. \A f : Follows(f, files[2], channels, first, start) => OnIn(s) = f[Len(files[2])]
    BY <1>4 DEF ReadTo
  <2>2. first \in SUBSET channels
    BY <1>1, <1>2, MeaningChannels
  <2>3. \A j \in DOMAIN start : start[j] \in SUBSET channels
    BY <1>4, StartsOf, Zenon
  <2>4. files[2] \in Seq(ToSet(files[2]))
    BY <1>1, <1>4
  <2>5. FilesTurnOn(files, channels) = Meaning(files[2], channels, first, start)
    BY <1>4 DEF FilesTurnOn
  <2> HIDE DEF first, start
  <2>6. \E f : Follows(f, files[2], channels, first, start)
               /\ f[Len(files[2])] = Meaning(files[2], channels, first, start)
    BY <2>2, <2>3, <2>4, MeaningFollows, Zenon
  <2> QED
    BY <2>1, <2>5, <2>6, Zenon
<1> QED
  BY <1>1, <1>3, <1>4

\* The default that the reader remembers.
LEMMA KeptIs ==
  ASSUME NEW s
  PROVE  /\ DefaultKept(s) = {} <=> ~ SawDefault(s)
         /\ DefaultKept(s) \in {{}, {"on"}} <=> (SawDefault(s) => s.defaultOn)
         /\ DefaultKept(s) = {"off"} <=> SawDefault(s) /\ ~ s.defaultOn
<1>1. CASE ~ SawDefault(s)
  BY <1>1 DEF DefaultKept
<1>2. CASE SawDefault(s) /\ s.defaultOn
  <2>1. DefaultKept(s) = {"on"}
    BY <1>2, Zenon DEF DefaultKept
  <2> QED
    BY <1>2, <2>1
<1>3. CASE SawDefault(s) /\ ~ s.defaultOn
  <2>1. DefaultKept(s) = {"off"}
    BY <1>3, Zenon DEF DefaultKept
  <2> QED
    BY <1>3, <2>1
<1> QED
  BY <1>1, <1>2, <1>3

\* The default that it remembers behind a line.
LEMMA KeptNext ==
  ASSUME NEW s, NEW u, NEW rule, NEW resets, NEW on, s.file \in 1 .. 2,
         Reads(s, u, SetsDefault(s, rule), resets, on),
         SetsDefault(s, rule) => u.defaultOn = (rule.value = "on") /\ rule.value \in {"on", "off"}
  PROVE  DefaultKept(u) = IF SetsDefault(s, rule) THEN {rule.value} ELSE DefaultKept(s)
<1>1. 1 \in 1 .. 2 /\ 2 \in 1 .. 2 /\ (s.file = 1 \/ s.file = 2)
  OBVIOUS
<1>2. /\ \A j \in 1 .. 2 : u.defaultSet[j] <=> s.defaultSet[j] \/ (SetsDefault(s, rule) /\ j = s.file)
      /\ ~ SetsDefault(s, rule) => u.defaultOn = s.defaultOn
  BY Zenon DEF Reads
<1>3. SawDefault(u) <=> SawDefault(s) \/ SetsDefault(s, rule)
  BY <1>1, <1>2, Zenon DEF SawDefault
<1>4. CASE SetsDefault(s, rule)
  <2>1. DefaultKept(u) = {IF rule.value = "on" THEN "on" ELSE "off"}
    BY <1>3, <1>4, Zenon DEF DefaultKept
  <2> QED
    BY <1>4, <2>1
<1>5. CASE ~ SetsDefault(s, rule)
  BY <1>2, <1>3, <1>5, Zenon DEF DefaultKept
<1> QED
  BY <1>4, <1>5

\* What is on behind a line is a set of the channels.
LEMMA LineOnChannels ==
  ASSUME NEW s, NEW channels, OnIn(s) \subseteq channels, Warning \in channels, NEW rule
  PROVE  LineOn(s, channels, rule) \subseteq channels
<1> DEFINE from == IF ~Resets(s, rule) THEN OnIn(s)
                   ELSE IF rule.keyword = "channels_off" THEN channels
                   ELSE IF SawDefault(s) THEN {} ELSE {Warning}
<1>1. from \subseteq channels
  OBVIOUS
<1>2. Covered(channels, rule.value) \subseteq channels /\ ToggledBy(channels, rule.value) \subseteq channels
  BY DEF Covered, ToggledBy
<1>3. LineOn(s, channels, rule) \in {channels, {}, OnIn(s), InOne(OnIn(s), ToggledBy(channels, rule.value)),
                                     from \cup Covered(channels, rule.value),
                                     from \ Covered(channels, rule.value)}
  BY Zenon DEF LineOn
<1> HIDE DEF from
<1>4. InOne(OnIn(s), ToggledBy(channels, rule.value)) \subseteq channels
  BY <1>2 DEF InOne
<1> QED
  BY <1>1, <1>2, <1>3, <1>4

\* The default in force behind a line.
LEMMA InForceNext ==
  ASSUME NEW files, AreFiles(files), Len(files) = 2, NEW i \in 1 .. Len(files[2])
  PROVE  DefaultInForce(files, i + 1)
           = IF i \in FirstOf(files[2], "channels_default") THEN {files[2][i].value} ELSE DefaultInForce(files, i)
<1>1. IsSequence(files[2])
  BY FileShapes, Zenon
<1>2. DefaultBefore(files[2], i + 1) = IF i \in FirstOf(files[2], "channels_default") THEN {files[2][i].value}
                                       ELSE DefaultBefore(files[2], i)
  BY <1>1, DefaultNext
<1> QED
  BY <1>2 DEF DefaultInForce

\* The reader starts anew at the line where the files say so, and once.
LEMMA ResetsWhere ==
  ASSUME NEW files, AreFiles(files), Len(files) = 2, NEW i \in 1 .. Len(files[2]), NEW s, s.file = 2,
         DefaultKept(s) = DefaultInForce(files, i),
         s.didReset <=> \E j \in 1 .. i - 1 : ListsExceptions(files, j)
  PROVE  /\ Resets(s, files[2][i]) <=> i \in StartsAnew(files)
         /\ s.didReset \/ Resets(s, files[2][i]) <=> \E j \in 1 .. i : ListsExceptions(files, j)
<1>1. ListsExceptions(files, i) <=>
        \/ files[2][i].keyword = "channels_on" /\ (SawDefault(s) => s.defaultOn)
        \/ files[2][i].keyword = "channels_off" /\ SawDefault(s) /\ ~ s.defaultOn
  BY KeptIs, Zenon DEF ListsExceptions
<1>2. Resets(s, files[2][i]) <=> ~ s.didReset /\ ListsExceptions(files, i)
  BY <1>1, Zenon DEF Resets, ResetsOn, ResetsOff
<1>3. i \in DOMAIN files[2]
  BY FileShapes
<1>4. i \in StartsAnew(files) <=> ListsExceptions(files, i) /\ \A j \in 1 .. i - 1 : ~ListsExceptions(files, j)
  BY <1>3, Zenon DEF StartsAnew
<1>5. (\E j \in 1 .. i : ListsExceptions(files, j))
        <=> ListsExceptions(files, i) \/ \E j \in 1 .. i - 1 : ListsExceptions(files, j)
  <2>1. \A j : j \in 1 .. i <=> j = i \/ j \in 1 .. i - 1
    OBVIOUS
  <2> QED
    BY <2>1, Zenon
<1> QED
  BY <1>2, <1>4, <1>5, Zenon

\* There are two files, and the first starts from nothing.
LEMMA OneAndTwo ==
  /\ 1 # 2 /\ 1 \in 1 .. 2 /\ 2 \in 1 .. 2 /\ \A k \in 1 .. 2 : k = 1 \/ k = 2
  /\ \A k : k \notin DOMAIN <<>>
  OBVIOUS

\* A single file has no override.
LEMMA OnlyOne == 2 \notin 1 .. 1
OBVIOUS

\* The next line of a file.
LEMMA NextPlace ==
  ASSUME NEW N \in Nat, NEW n \in 0 .. N, n < N
  PROVE  n + 1 \in 1 .. N /\ (n + 1) - 1 = n /\ n \in Nat /\ n + 1 \in 0 .. N
OBVIOUS

\* The first file never starts anew.
LEMMA ResetsInOverride ==
  ASSUME NEW s, NEW rule, s.file # 2
  PROVE  ~ Resets(s, rule)
BY Zenon DEF Resets, ResetsOn, ResetsOff

\* The next line of a file is read as it says.
LEMMA ReadToLine ==
  ASSUME ElfutilsAlone, NEW files, AreFiles(files), NEW vs, Listed(vs), NEW s, NEW n,
         ReadTo(s, files, ToSet(vs), n), n < Len(files[s.file]),
         ReadLine(s, vs, files[s.file][n + 1]).ended = ""
  PROVE  ReadTo(ReadLine(s, vs, files[s.file][n + 1]), files, ToSet(vs), n + 1)
<1> DEFINE channels == ToSet(vs)
           file == files[s.file]
           i == n + 1
           rule == file[i]
           u == ReadLine(s, vs, rule)
<1>1. /\ Paired(s) /\ s.ended = "" /\ s.count[Warning] <= 0 /\ OnIn(s) \subseteq channels
      /\ s.file \in DOMAIN files /\ n \in 0 .. Len(file)
  BY Zenon DEF ReadTo
<1>2. /\ s \in RcStates /\ s.file \in 1 .. 2 /\ Warning \in channels
  BY <1>1, Files DEF Paired, Sound, Listed
<1>3. /\ IsSequence(file) /\ Len(file) \in Nat /\ DOMAIN file = 1 .. Len(file)
      /\ \A k \in DOMAIN file : IsLine(file[k])
  BY <1>1, FileShapes, Zenon
<1> HIDE DEF file
<1>4. i \in 1 .. Len(file) /\ i - 1 = n /\ n \in Nat /\ i \in 0 .. Len(file)
  <2>1. n < Len(file) /\ n \in 0 .. Len(file)
    BY <1>1, Zenon DEF file
  <2> QED
    BY <1>3, <2>1, NextPlace, Zenon
<1> HIDE DEF i
<1>5. IsLine(rule) /\ Known(s)
  BY <1>1, <1>3, <1>4, Zenon DEF Known
<1> HIDE DEF rule
<1>6. u.ended = ""
  BY DEF rule, i, file
<1>7. /\ Reads(s, u, SetsDefault(s, rule), Resets(s, rule), LineOn(s, channels, rule))
      /\ SetsDefault(s, rule) => u.defaultOn = (rule.value = "on") /\ rule.value \in {"on", "off"}
  BY <1>1, <1>5, <1>6, LineReads, Zenon
<1> HIDE DEF u
<1>8. DefaultKept(u) = IF SetsDefault(s, rule) THEN {rule.value} ELSE DefaultKept(s)
  BY <1>2, <1>7, KeptNext
<1>9. LineOn(s, channels, rule) \subseteq channels
  BY <1>1, <1>2, LineOnChannels, Zenon
<1>10. /\ Paired(u) /\ u.file = s.file /\ u.count[Warning] <= 0 /\ OnIn(u) = LineOn(s, channels, rule)
       /\ \A j \in 1 .. 2 : u.defaultSet[j] <=> s.defaultSet[j] \/ (SetsDefault(s, rule) /\ j = s.file)
       /\ u.didReset <=> s.didReset \/ Resets(s, rule)
  BY <1>7, Zenon DEF Reads
<1>11. /\ i \in FirstOf(file, "channels_default")
             <=> rule.keyword = "channels_default" /\ DefaultBefore(file, i) = {}
       /\ DefaultBefore(file, i + 1) = IF i \in FirstOf(file, "channels_default") THEN {rule.value}
                                       ELSE DefaultBefore(file, i)
  BY <1>3, <1>4, DefaultNext DEF rule
<1>12. ASSUME NEW before, NEW start,
              \A f : Follows(f, file, channels, before, start) => OnIn(s) = f[n],
              LineOn(s, channels, rule) = Means(file, channels, start, OnIn(s), i)
       PROVE  \A f : Follows(f, file, channels, before, start) => OnIn(u) = f[i]
  <2> SUFFICES ASSUME NEW f, Follows(f, file, channels, before, start) PROVE OnIn(u) = f[i]
    OBVIOUS
  <2>1. f[i] = Means(file, channels, start, f[i - 1], i)
    BY <1>4 DEF Follows
  <2> QED
    BY <1>4, <1>10, <1>12, <2>1
<1>13. SetsDefault(s, rule) => rule.keyword = "channels_default" /\ ~ s.defaultSet[s.file]
  BY DEF SetsDefault
<1>14. CASE s.file = 1
  <2>1. /\ ~s.defaultSet[2] /\ ~s.didReset /\ file = files[1]
        /\ DefaultKept(s) = DefaultBefore(file, i)
        /\ \A f : Follows(f, file, channels, {}, <<>>) => OnIn(s) = f[n]
    BY <1>14, Zenon DEF ReadTo, file, i
  <2>2. s.defaultSet[1] <=> DefaultBefore(file, i) # {}
    BY <2>1, KeptIs DEF SawDefault
  <2>3. SetsDefault(s, rule) <=>
          rule.keyword = "channels_default" /\ i \in FirstOf(file, "channels_default")
    BY <1>11, <1>14, <2>2, Zenon DEF SetsDefault
  <2>4. ~ Resets(s, rule)
    BY <1>14, OneAndTwo, ResetsInOverride, Zenon
  <2>5. i \notin DOMAIN <<>>
    BY OneAndTwo, Zenon
  <2>6. LineOn(s, channels, rule) = Means(file, channels, <<>>, OnIn(s), i)
    BY <2>3, <2>4, <2>5, LineOnMeans, Zenon DEF rule
  <2>7. \A f : Follows(f, file, channels, {}, <<>>) => OnIn(u) = f[i]
    BY <1>12, <2>1, <2>6
  <2>8. DefaultKept(u) = DefaultBefore(file, i + 1)
    BY <1>8, <1>11, <2>1, <2>3, Zenon
  <2>9. ~u.defaultSet[2] /\ ~u.didReset
    BY <1>10, <1>14, <2>1, <2>4, OneAndTwo, Zenon
  <2>10. s.file # 2
    BY <1>14, OneAndTwo, Zenon
  <2> QED
    BY <1>1, <1>4, <1>6, <1>9, <1>10, <1>14, <2>1, <2>7, <2>8, <2>9, <2>10, Zenon DEF ReadTo, u, rule, i, file
<1>15. CASE s.file = 2
  <2> DEFINE before == Meaning(files[1], channels, {}, <<>>)
             start == StartsFrom(files, channels)
  <2>1. /\ s.defaultSet[1] <=> DefaultBefore(files[1], Len(files[1]) + 1) # {}
        /\ s.defaultSet[2] <=> DefaultBefore(file, i) # {}
        /\ s.didReset <=> \E j \in 1 .. n : ListsExceptions(files, j)
        /\ DefaultKept(s) = DefaultInForce(files, i) /\ file = files[2]
        /\ \A f : Follows(f, file, channels, before, start) => OnIn(s) = f[n]
    BY <1>15, Zenon DEF ReadTo, file, i
  <2>2. Len(files) = 2
    BY <1>1, <1>15, FileShapes, OnlyOne, OneAndTwo, Zenon
  <2>3. SetsDefault(s, rule) <=>
          rule.keyword = "channels_default" /\ i \in FirstOf(file, "channels_default")
    BY <1>11, <1>15, <2>1, Zenon DEF SetsDefault
  <2>4. s.didReset <=> \E j \in 1 .. i - 1 : ListsExceptions(files, j)
    BY <1>4, <2>1
  <2>5. /\ Resets(s, rule) <=> i \in StartsAnew(files)
        /\ s.didReset \/ Resets(s, rule) <=> \E j \in 1 .. i : ListsExceptions(files, j)
    BY <1>4, <1>15, <2>1, <2>2, <2>4, ResetsWhere, Zenon DEF rule
  <2>6. /\ DOMAIN start = StartsAnew(files)
        /\ \A k \in StartsAnew(files) :
             start[k] = IF files[2][k].keyword = "channels_off" THEN channels
                        ELSE IF DefaultInForce(files, k) = {} THEN {Warning} ELSE {}
    BY <1>2, <2>2, StartsOf, Zenon
  <2>7. i \in DOMAIN start => start[i] = IF rule.keyword = "channels_off" THEN channels
                                         ELSE IF SawDefault(s) THEN {} ELSE {Warning}
    <3>1. DefaultInForce(files, i) = {} <=> ~ SawDefault(s)
      BY <2>1, KeptIs
    <3> HIDE DEF start
    <3> QED
      BY <2>1, <2>6, <3>1 DEF rule
  <2>8. LineOn(s, channels, rule) = Means(file, channels, start, OnIn(s), i)
    <3> HIDE DEF start, file, i
    <3>1. Resets(s, file[i]) <=> i \in DOMAIN start
      BY <2>5, <2>6, Zenon DEF rule
    <3>2. SetsDefault(s, file[i]) <=>
            file[i].keyword = "channels_default" /\ i \in FirstOf(file, "channels_default")
      BY <2>3, Zenon DEF rule
    <3>3. i \in DOMAIN start => start[i] = IF file[i].keyword = "channels_off" THEN channels
                                            ELSE IF SawDefault(s) THEN {} ELSE {Warning}
      BY <2>7, Zenon DEF rule
    <3> QED
      BY <3>1, <3>2, <3>3, LineOnMeans, Zenon DEF rule
  <2>9. \A f : Follows(f, file, channels, before, start) => OnIn(u) = f[i]
    <3> HIDE DEF start, before
    <3> QED
      BY <1>12, <2>1, <2>8
  <2>10. DefaultInForce(files, i + 1)
           = IF i \in FirstOf(file, "channels_default") THEN {rule.value} ELSE DefaultInForce(files, i)
    BY <1>4, <2>1, <2>2, InForceNext DEF rule
  <2>11. DefaultKept(u) = DefaultInForce(files, i + 1)
    BY <1>8, <1>11, <2>1, <2>3, <2>10, Zenon
  <2>12. u.defaultSet[1] <=> DefaultBefore(files[1], Len(files[1]) + 1) # {}
    BY <1>10, <1>15, <2>1, OneAndTwo, Zenon
  <2>13. u.defaultSet[2] <=> DefaultBefore(file, i + 1) # {}
    <3>1. DefaultBefore(file, i + 1) # {} <=> i \in FirstOf(file, "channels_default") \/ DefaultBefore(file, i) # {}
      BY <1>11
    <3> QED
      BY <1>10, <1>11, <1>13, <1>15, <2>1, <2>3, <3>1, OneAndTwo, Zenon
  <2>14. u.didReset <=> \E j \in 1 .. i : ListsExceptions(files, j)
    BY <1>10, <2>5, Zenon
  <2>15. s.file # 1
    BY <1>15, OneAndTwo, Zenon
  <2> QED
    BY <1>1, <1>4, <1>6, <1>9, <1>10, <1>15, <2>1, <2>9, <2>11, <2>12, <2>13, <2>14, <2>15, Zenon
       DEF ReadTo, u, rule, i, file
<1>16. s.file = 1 \/ s.file = 2
  BY <1>2, OneAndTwo, Zenon
<1> QED
  BY <1>14, <1>15, <1>16

\* What the reader turns on is a set of the channels.
LEMMA MeansSome ==
  ASSUME NEW files, AreFiles(files), NEW channels, Warning \in channels
  PROVE  FilesTurnOn(files, channels) \subseteq channels
<1> DEFINE first == Meaning(files[1], channels, {}, <<>>)
<1>1. /\ Len(files) = 1 \/ Len(files) = 2
      /\ files[1] \in Seq(ToSet(files[1])) /\ (Len(files) = 2 => files[2] \in Seq(ToSet(files[2])))
  BY FileShapes, Zenon
<1>2. {} \in SUBSET channels /\ \A j \in DOMAIN <<>> : <<>>[j] \in SUBSET channels
  <2>1. DOMAIN <<>> = {}
    OBVIOUS
  <2> QED
    BY <2>1
<1>3. first \in SUBSET channels
  BY <1>1, <1>2, MeaningChannels
<1>4. CASE Len(files) = 1
  BY <1>3, <1>4 DEF FilesTurnOn
<1>5. CASE Len(files) = 2
  <2> DEFINE start == StartsFrom(files, channels)
  <2>1. \A j \in DOMAIN start : start[j] \in SUBSET channels
    BY <1>5, StartsOf, Zenon
  <2>2. files[2] \in Seq(ToSet(files[2]))
    BY <1>1, <1>5
  <2>3. FilesTurnOn(files, channels) = Meaning(files[2], channels, first, start)
    BY <1>5 DEF FilesTurnOn
  <2> HIDE DEF first, start
  <2> QED
    BY <1>3, <2>1, <2>2, <2>3, MeaningChannels
<1> QED
  BY <1>1, <1>4, <1>5

\* When the reader starts anew at the first channels_on of the override file, there is no other
\* line at which it does, and what it turns on is what the files mean.
LEMMA TurnOnWhatTheyMean ==
  ASSUME NEW files, AreFiles(files), NEW channels, ResetsAsDocumented(files)
  PROVE  FilesMean(files, channels) = FilesTurnOn(files, channels)
<1>1. CASE Len(files) = 1
  BY <1>1 DEF FilesMean, FilesTurnOn
<1>2. CASE Len(files) = 2
  <2> DEFINE file == files[2]
             ons == {i \in DOMAIN file : file[i].keyword = "channels_on"}
  <2>1. DOMAIN file = 1 .. Len(file) /\ Len(file) \in Nat
    BY <1>2, FileShapes
  <2>2. FirstOf(file, "channels_on") \subseteq StartsAnew(files)
    BY <1>2 DEF ResetsAsDocumented
  <2>3. \A i, j \in StartsAnew(files) : i = j
    <3>1. \A i, j \in StartsAnew(files) : ~ (i < j)
      BY <2>1 DEF StartsAnew
    <3> QED
      BY <2>1, <3>1 DEF StartsAnew
  <2>4. \A i \in StartsAnew(files) :
          i \in DOMAIN file /\ file[i].keyword \in {"channels_on", "channels_off"}
    BY DEF StartsAnew, ListsExceptions
  <2>5. ASSUME NEW i \in StartsAnew(files), file[i].keyword = "channels_on"
        PROVE  i \in FirstOf(file, "channels_on")
    <3>1. ons \in SUBSET Nat /\ i \in ons
      BY <2>1, <2>4, <2>5
    <3>2. PICK j \in ons : \A k \in ons : j <= k
      <4> HIDE DEF ons
      <4> QED
        BY <3>1, FirstExists
    <3>3. j \in FirstOf(file, "channels_on")
      <4>1. j \in DOMAIN file /\ file[j].keyword = "channels_on"
        OBVIOUS
      <4>2. ASSUME NEW k \in 1 .. j - 1 PROVE file[k].keyword # "channels_on"
        BY <2>1, <3>2, <4>1
      <4> QED
        BY <4>1, <4>2, Zenon DEF FirstOf
    <3> QED
      BY <2>2, <2>3, <3>3
  <2>6. ResetsOf(files) = StartsAnew(files)
    BY <2>2, <2>4, <2>5, Zenon DEF ResetsOf
  <2>7. ResetsTo(files, channels) = StartsFrom(files, channels)
    BY <2>6, Zenon DEF ResetsTo, StartsFrom
  <2> QED
    BY <1>2, <2>7 DEF FilesMean, FilesTurnOn
<1> QED
  BY <1>1, <1>2, FileShapes
-----------------------------------------------------------------------------
(***************************************************************************)
(* The registry and the counters.                                          *)
(***************************************************************************)
\* A channel is put at its place and those behind it move up.
LEMMA InsertAtAll ==
  ASSUME NEW S, NEW s \in Seq(S), NEW e \in S, NEW p \in 1 .. Len(s) + 1
  PROVE  LET u == InsertAt(s, p, e)
         IN /\ u \in Seq(S) /\ Len(u) = Len(s) + 1
            /\ \A i \in 1 .. p - 1 : u[i] = s[i]
            /\ u[p] = e
            /\ \A i \in p + 1 .. Len(s) + 1 : u[i] = s[i - 1]
<1> DEFINE a == SubSeq(s, 1, p - 1)
           b == SubSeq(s, p, Len(s))
<1>1. a \in Seq(S) /\ Len(a) = p - 1 /\ \A i \in 1 .. p - 1 : a[i] = s[i]
  OBVIOUS
<1>2. b \in Seq(S) /\ Len(b) = Len(s) - p + 1 /\ \A i \in 1 .. Len(s) - p + 1 : b[i] = s[p + i - 1]
  OBVIOUS
<1>3. InsertAt(s, p, e) = (a \o <<e>>) \o b
  BY DEF InsertAt
<1> HIDE DEF a, b
<1>4. /\ a \o <<e>> \in Seq(S) /\ Len(a \o <<e>>) = p
      /\ \A i \in 1 .. p - 1 : (a \o <<e>>)[i] = s[i]
      /\ (a \o <<e>>)[p] = e
  BY <1>1
<1> DEFINE ae == a \o <<e>>
<1> HIDE DEF ae
<1>5. /\ ae \o b \in Seq(S) /\ Len(ae \o b) = Len(s) + 1
      /\ \A i \in 1 .. p : (ae \o b)[i] = ae[i]
      /\ \A i \in p + 1 .. Len(s) + 1 : (ae \o b)[i] = b[i - p]
  <2>1. ae \in Seq(S) /\ Len(ae) = p /\ b \in Seq(S) /\ Len(b) = Len(s) - p + 1
    BY <1>2, <1>4 DEF ae
  <2>2. ae \o b \in Seq(S) /\ Len(ae \o b) = Len(s) + 1
    BY <2>1
  <2>3. \A i \in 1 .. p : (ae \o b)[i] = ae[i]
    BY <2>1
  <2>4. \A i \in p + 1 .. Len(s) + 1 : (ae \o b)[i] = b[i - p]
    BY <2>1
  <2> QED
    BY <2>2, <2>3, <2>4
<1>6. \A i \in p + 1 .. Len(s) + 1 : b[i - p] = s[i - 1]
  BY <1>2
<1> QED
  BY <1>3, <1>4, <1>5, <1>6 DEF ae

\* A channel that is not in the list is in it once when it was inserted.
LEMMA InsertAtInjective ==
  ASSUME NEW S, NEW s \in Seq(S), NEW e \in S, NEW p \in 1 .. Len(s) + 1, IsInjective(s), e \notin ToSet(s)
  PROVE  IsInjective(InsertAt(s, p, e)) /\ ToSet(InsertAt(s, p, e)) = ToSet(s) \cup {e}
<1> DEFINE u == InsertAt(s, p, e)
<1>1. /\ u \in Seq(S) /\ Len(u) = Len(s) + 1
      /\ \A i \in 1 .. p - 1 : u[i] = s[i]
      /\ u[p] = e
      /\ \A i \in p + 1 .. Len(s) + 1 : u[i] = s[i - 1]
  BY InsertAtAll
<1> HIDE DEF u
<1>2. \A i \in 1 .. Len(s) : s[i] # e
  BY DEF ToSet
<1>3. \A i, j \in 1 .. Len(s) : s[i] = s[j] => i = j
  BY DEF IsInjective
<1>4. \A i \in 1 .. Len(s) + 1 : \/ i < p /\ i \in 1 .. Len(s) /\ u[i] = s[i]
                                 \/ i = p /\ u[i] = e
                                 \/ i > p /\ i - 1 \in 1 .. Len(s) /\ u[i] = s[i - 1]
  <2> SUFFICES ASSUME NEW i \in 1 .. Len(s) + 1
               PROVE  \/ i < p /\ i \in 1 .. Len(s) /\ u[i] = s[i]
                      \/ i = p /\ u[i] = e
                      \/ i > p /\ i - 1 \in 1 .. Len(s) /\ u[i] = s[i - 1]
    OBVIOUS
  <2>1. CASE i < p
    BY <1>1, <2>1
  <2>2. CASE i = p
    BY <1>1, <2>2
  <2>3. CASE i > p
    <3>1. i \in p + 1 .. Len(s) + 1 /\ i - 1 \in 1 .. Len(s)
      BY <2>3
    <3> QED
      BY <1>1, <2>3, <3>1
  <2> QED
    BY <2>1, <2>2, <2>3
<1>5. ASSUME NEW i \in 1 .. Len(s) + 1, NEW j \in 1 .. Len(s) + 1, u[i] = u[j] PROVE i = j
  <2> DEFINE Before(k) == k < p /\ k \in 1 .. Len(s) /\ u[k] = s[k]
             After(k) == k > p /\ k - 1 \in 1 .. Len(s) /\ u[k] = s[k - 1]
  <2>1. /\ Before(i) \/ (i = p /\ u[i] = e) \/ After(i)
        /\ Before(j) \/ (j = p /\ u[j] = e) \/ After(j)
    BY <1>4
  <2>2. CASE i = p \/ j = p
    BY <1>2, <1>5, <2>1, <2>2
  <2>3. CASE Before(i) /\ Before(j)
    BY <1>3, <1>5, <2>3
  <2>4. CASE Before(i) /\ After(j)
    <3>1. i = j - 1
      BY <1>3, <1>5, <2>4
    <3> QED
      BY <2>4, <3>1
  <2>5. CASE After(i) /\ Before(j)
    <3>1. i - 1 = j
      BY <1>3, <1>5, <2>5
    <3> QED
      BY <2>5, <3>1
  <2>6. CASE After(i) /\ After(j)
    <3>1. i - 1 = j - 1
      BY <1>3, <1>5, <2>6
    <3> QED
      BY <3>1
  <2> HIDE DEF Before, After
  <2> QED
    BY <2>1, <2>2, <2>3, <2>4, <2>5, <2>6
<1>6. ASSUME NEW i \in 1 .. Len(s) PROVE s[i] = (IF i < p THEN u[i] ELSE u[i + 1])
  <2>1. CASE i < p
    BY <1>1, <2>1
  <2>2. CASE ~ (i < p)
    <3>1. i + 1 \in p + 1 .. Len(s) + 1 /\ (i + 1) - 1 = i
      BY <2>2
    <3>2. u[i + 1] = s[(i + 1) - 1]
      BY <1>1, <3>1
    <3> QED
      BY <2>2, <3>1, <3>2
  <2> QED
    BY <2>1, <2>2
<1>7. ToSet(u) = ToSet(s) \cup {e}
  <2>1. ASSUME NEW x \in ToSet(u) PROVE x \in ToSet(s) \cup {e}
    <3>1. PICK i \in 1 .. Len(s) + 1 : x = u[i]
      BY <1>1 DEF ToSet
    <3>2. \A j \in 1 .. Len(s) : s[j] \in ToSet(s)
      BY DEF ToSet
    <3> QED
      BY <1>4, <3>1, <3>2
  <2>2. ASSUME NEW x \in ToSet(s) PROVE x \in ToSet(u)
    <3>1. PICK i \in 1 .. Len(s) : x = s[i]
      BY DEF ToSet
    <3>2. \A j \in 1 .. Len(s) + 1 : u[j] \in ToSet(u)
      BY <1>1 DEF ToSet
    <3> QED
      BY <1>6, <3>1, <3>2
  <2>3. e \in ToSet(u)
    BY <1>1 DEF ToSet
  <2> QED
    BY <2>1, <2>2, <2>3
<1>8. IsInjective(u)
  BY <1>1, <1>5 DEF IsInjective
<1> QED
  BY <1>7, <1>8 DEF u

\* A prefix, character by character.
LEMMA PrefixByPlaces ==
  ASSUME NEW S, NEW a \in Seq(S), NEW b \in Seq(S)
  PROVE  IsPrefix(a, b) <=> Len(a) <= Len(b) /\ \A i \in 1 .. Len(a) : a[i] = b[i]
<1>1. SubSeq(a, 1, Len(a)) = [i \in 1 .. Len(a) |-> a[i]]
  OBVIOUS
<1>2. ASSUME Len(a) <= Len(b) PROVE SubSeq(b, 1, Len(a)) = [i \in 1 .. Len(a) |-> b[i]]
  BY <1>2
<1> QED
  BY <1>1, <1>2 DEF IsPrefix

Characters == ToSet(Alphabet)

\* Every character has its place in the alphabet.
LEMMA OrderOfCharacters ==
  \A x \in Characters : Order(x) \in 1 .. Len(Alphabet) /\ Alphabet[Order(x)] = x
<1> SUFFICES ASSUME NEW x \in Characters
             PROVE  Order(x) \in 1 .. Len(Alphabet) /\ Alphabet[Order(x)] = x
  OBVIOUS
<1>1. DOMAIN Alphabet = 1 .. Len(Alphabet)
  BY LabelsAssumption
<1>2. \E i \in DOMAIN Alphabet : Alphabet[i] = x
  BY DEF Characters, ToSet
<1> QED
  BY <1>1, <1>2 DEF Order

\* A letter is not the space that labels are padded with.
LEMMA LettersAreNoSpace ==
  /\ Alphabet[1] \in Characters
  /\ Letters \subseteq Characters \ {Alphabet[1]}
<1>1. DOMAIN Alphabet = 1 .. Len(Alphabet) /\ Len(Alphabet) \in Nat /\ 1 \in DOMAIN Alphabet
  BY LabelsAssumption
<1>2. \A i \in DOMAIN Alphabet : Alphabet[i] \in Characters /\ (Alphabet[i] = Alphabet[1] => i = 1)
  BY <1>1, LabelsAssumption DEF Characters, ToSet, IsInjective
<1> QED
  BY <1>1, <1>2 DEF Letters

\* Labels and abbreviations are words.
LEMMA LabelTypes ==
  /\ \A c \in Channels \cup FatalChannels : Label(c) \in Seq(Letters)
  /\ \A a \in Abbreviations : a \in Seq(Letters)
BY LabelsAssumption DEF Label

\* A padded label has the width it is padded to.
LEMMA PaddedType ==
  ASSUME NEW a \in Seq(Letters), NEW n \in Nat
  PROVE  /\ Padded(a, n) \in [1 .. n -> Characters] /\ DOMAIN Padded(a, n) = 1 .. n
         /\ Padded(a, n) \in Seq(Characters) /\ Len(Padded(a, n)) = n
         /\ \A i \in 1 .. n : Padded(a, n)[i] = IF i <= Len(a) THEN a[i] ELSE Alphabet[1]
<1>1. \A i \in 1 .. n : (IF i <= Len(a) THEN a[i] ELSE Alphabet[1]) \in Characters
  BY LettersAreNoSpace
<1> QED
  BY <1>1 DEF Padded

\* Greater() is a strict order on labels of one width.
LEMMA GreaterIsOrder ==
  ASSUME NEW n \in Nat, NEW a \in [1 .. n -> Characters], NEW b \in [1 .. n -> Characters],
         NEW c \in [1 .. n -> Characters]
  PROVE  /\ ~ (Greater(a, b) /\ Greater(b, a))
         /\ Greater(a, b) /\ Greater(b, c) => Greater(a, c)
<1>1. \A i \in 1 .. n : Order(a[i]) \in Int /\ Order(b[i]) \in Int /\ Order(c[i]) \in Int
  BY OrderOfCharacters
<1>2. ASSUME NEW i \in 1 .. n, \A j \in 1 .. i - 1 : a[j] = b[j], Order(a[i]) > Order(b[i]),
             NEW k \in 1 .. n, \A j \in 1 .. k - 1 : b[j] = a[j], Order(b[k]) > Order(a[k])
      PROVE  FALSE
  <2>1. CASE i < k
    BY <1>1, <1>2, <2>1
  <2>2. CASE k < i
    BY <1>1, <1>2, <2>2
  <2>3. CASE k = i
    BY <1>1, <1>2, <2>3
  <2> QED
    BY <2>1, <2>2, <2>3
<1>3. ASSUME NEW i \in 1 .. n, \A j \in 1 .. i - 1 : a[j] = b[j], Order(a[i]) > Order(b[i]),
             NEW k \in 1 .. n, \A j \in 1 .. k - 1 : b[j] = c[j], Order(b[k]) > Order(c[k])
      PROVE  Greater(a, c)
  <2>1. DOMAIN a = 1 .. n
    OBVIOUS
  <2>2. CASE i < k
    <3>1. (\A j \in 1 .. i - 1 : a[j] = c[j]) /\ Order(a[i]) > Order(c[i])
      BY <1>1, <1>3, <2>2
    <3> QED
      BY <2>1, <3>1 DEF Greater
  <2>3. CASE k < i
    <3>1. (\A j \in 1 .. k - 1 : a[j] = c[j]) /\ Order(a[k]) > Order(c[k])
      BY <1>1, <1>3, <2>3
    <3> QED
      BY <2>1, <3>1 DEF Greater
  <2>4. CASE k = i
    <3>1. (\A j \in 1 .. i - 1 : a[j] = c[j]) /\ Order(a[i]) > Order(c[i])
      BY <1>1, <1>3, <2>4
    <3> QED
      BY <2>1, <3>1 DEF Greater
  <2> QED
    BY <2>2, <2>3, <2>4
<1>4. DOMAIN a = 1 .. n /\ DOMAIN b = 1 .. n
  OBVIOUS
<1>5. ~ (Greater(a, b) /\ Greater(b, a))
  BY <1>2, <1>4 DEF Greater
<1>6. Greater(a, b) /\ Greater(b, c) => Greater(a, c)
  <2> SUFFICES ASSUME Greater(a, b), Greater(b, c) PROVE Greater(a, c)
    OBVIOUS
  <2>1. PICK i \in 1 .. n : (\A j \in 1 .. i - 1 : a[j] = b[j]) /\ Order(a[i]) > Order(b[i])
    BY <1>4 DEF Greater
  <2>2. PICK k \in 1 .. n : (\A j \in 1 .. k - 1 : b[j] = c[j]) /\ Order(b[k]) > Order(c[k])
    BY <1>4 DEF Greater
  <2> QED
    BY <1>3, <2>1, <2>2
<1> QED
  BY <1>5, <1>6

\* How two labels compare does not depend on the width they are padded to.
LEMMA GreaterAtAnyWidth ==
  ASSUME NEW a \in Seq(Letters), NEW b \in Seq(Letters), NEW n \in Nat, NEW m \in Nat,
         Len(a) <= n, Len(b) <= n, Len(a) <= m, Len(b) <= m,
         Greater(Padded(a, n), Padded(b, n))
  PROVE  Greater(Padded(a, m), Padded(b, m))
<1> DEFINE an == Padded(a, n)
           bn == Padded(b, n)
           am == Padded(a, m)
           bm == Padded(b, m)
<1>1. /\ DOMAIN an = 1 .. n /\ DOMAIN am = 1 .. m
      /\ \A i \in 1 .. n : an[i] = (IF i <= Len(a) THEN a[i] ELSE Alphabet[1])
      /\ \A i \in 1 .. n : bn[i] = (IF i <= Len(b) THEN b[i] ELSE Alphabet[1])
      /\ \A i \in 1 .. m : am[i] = (IF i <= Len(a) THEN a[i] ELSE Alphabet[1])
      /\ \A i \in 1 .. m : bm[i] = (IF i <= Len(b) THEN b[i] ELSE Alphabet[1])
  BY PaddedType
<1>2. Len(a) \in Nat /\ Len(b) \in Nat
  OBVIOUS
<1>3. Order(Alphabet[1]) \in Int
  BY OrderOfCharacters, LettersAreNoSpace
<1>4. Greater(an, bn)
  OBVIOUS
<1> HIDE DEF an, bn, am, bm
<1>5. PICK i \in 1 .. n : (\A j \in 1 .. i - 1 : an[j] = bn[j]) /\ Order(an[i]) > Order(bn[i])
  BY <1>1, <1>4 DEF Greater
<1>6. i <= m
  <2> SUFFICES ASSUME i > m PROVE FALSE
    OBVIOUS
  <2>1. an[i] = Alphabet[1] /\ bn[i] = Alphabet[1]
    BY <1>1, <1>2
  <2> QED
    BY <1>3, <1>5, <2>1
<1>7. i \in DOMAIN am /\ \A j \in 1 .. i : am[j] = an[j] /\ bm[j] = bn[j]
  BY <1>1, <1>6
<1>8. Greater(am, bm)
  BY <1>5, <1>7 DEF Greater
<1> QED
  BY <1>8 DEF am, bm

\* An abbreviation has no spaces: it begins a padded label when it begins the label.
LEMMA AbbreviationOfPadded ==
  ASSUME NEW a \in Seq(Letters), NEW b \in Seq(Letters), NEW n \in Nat, Len(b) <= n
  PROVE  IsPrefix(a, Padded(b, n)) <=> IsPrefix(a, b)
<1> DEFINE p == Padded(b, n)
<1>1. /\ p \in Seq(Characters) /\ Len(p) = n
      /\ \A i \in 1 .. n : p[i] = IF i <= Len(b) THEN b[i] ELSE Alphabet[1]
  BY PaddedType
<1>2. a \in Seq(Characters) /\ b \in Seq(Characters) /\ Len(a) \in Nat /\ Len(b) \in Nat
  BY LettersAreNoSpace
<1>3. \A i \in 1 .. Len(a) : a[i] # Alphabet[1]
  BY LettersAreNoSpace
<1> HIDE DEF p
<1>4. IsPrefix(a, p) <=> Len(a) <= n /\ \A i \in 1 .. Len(a) : a[i] = p[i]
  <2>1. IsPrefix(a, p) <=> Len(a) <= Len(p) /\ \A i \in 1 .. Len(a) : a[i] = p[i]
    <3>1. a \in Seq(Characters) /\ p \in Seq(Characters)
      BY <1>1, <1>2
    <3> QED
      BY <3>1, PrefixByPlaces
  <2> QED
    BY <1>1, <2>1
<1>5. IsPrefix(a, b) <=> Len(a) <= Len(b) /\ \A i \in 1 .. Len(a) : a[i] = b[i]
  <2>1. a \in Seq(Characters) /\ b \in Seq(Characters)
    BY <1>2
  <2> QED
    BY <2>1, PrefixByPlaces
<1>6. ASSUME IsPrefix(a, p) PROVE IsPrefix(a, b)
  <2>1. Len(a) <= Len(b)
    BY <1>1, <1>2, <1>3, <1>4, <1>6
  <2> QED
    BY <1>1, <1>2, <1>4, <1>5, <1>6, <2>1
<1>7. ASSUME IsPrefix(a, b) PROVE IsPrefix(a, p)
  BY <1>1, <1>2, <1>4, <1>5, <1>7
<1> QED
  BY <1>6, <1>7 DEF p

Behind(a, b, w) == Greater(Padded(Label(a), w), Padded(Label(b), w))
Sorted(v, w) == \A i, j \in DOMAIN v : i < j => ~ Behind(v[i], v[j], w)

\* Channels are ordered by their padded labels.
LEMMA BehindIsOrder ==
  ASSUME NEW w \in Nat, NEW a \in Channels, NEW b \in Channels, NEW c \in Channels
  PROVE  /\ ~ (Behind(a, b, w) /\ Behind(b, a, w))
         /\ Behind(a, b, w) /\ Behind(b, c, w) => Behind(a, c, w)
<1>1. \A x \in Channels : Padded(Label(x), w) \in [1 .. w -> Characters]
  BY LabelTypes, PaddedType
<1> QED
  BY <1>1, GreaterIsOrder DEF Behind

\* When labels get wider the order of two channels stays as it was.
LEMMA BehindAtAnyWidth ==
  ASSUME NEW a \in Channels, NEW b \in Channels, NEW n \in Nat, NEW m \in Nat,
         Len(Label(a)) <= n, Len(Label(b)) <= n, Len(Label(a)) <= m, Len(Label(b)) <= m
  PROVE  Behind(a, b, n) <=> Behind(a, b, m)
<1>1. Label(a) \in Seq(Letters) /\ Label(b) \in Seq(Letters)
  BY LabelTypes
<1> QED
  BY <1>1, GreaterAtAnyWidth DEF Behind

\* A list that is sorted stays sorted when labels get wider.
LEMMA SortedAtAnyWidth ==
  ASSUME NEW v \in Seq(Channels), NEW n \in Nat, NEW m \in Nat, Sorted(v, n),
         \A c \in ToSet(v) : Len(Label(c)) <= n /\ Len(Label(c)) <= m
  PROVE  Sorted(v, m)
<1>1. \A i \in DOMAIN v : v[i] \in Channels /\ v[i] \in ToSet(v)
  BY DEF ToSet
<1>2. ASSUME NEW i \in DOMAIN v, NEW j \in DOMAIN v, i < j PROVE ~ Behind(v[i], v[j], m)
  <2>1. ~ Behind(v[i], v[j], n)
    BY <1>2 DEF Sorted
  <2>2. /\ v[i] \in Channels /\ Len(Label(v[i])) <= n /\ Len(Label(v[i])) <= m
        /\ v[j] \in Channels /\ Len(Label(v[j])) <= n /\ Len(Label(v[j])) <= m
    BY <1>1
  <2> QED
    BY <2>1, <2>2, BehindAtAnyWidth
<1> QED
  BY <1>2 DEF Sorted

\* The constructor finds the place behind all that are not greater.
LEMMA PlaceInOrder ==
  ASSUME visible \in Seq(Channels), NEW c \in Channels, NEW w \in Nat
  PROVE  /\ Place(c, w) \in 1 .. Len(visible) + 1
         /\ \A i \in 1 .. Place(c, w) - 1 : ~ Behind(visible[i], c, w)
         /\ Place(c, w) <= Len(visible) => Behind(visible[Place(c, w)], c, w)
<1> DEFINE Greaters == {i \in DOMAIN visible : Behind(visible[i], c, w)}
<1>1. Place(c, w) = IF Greaters = {} THEN Len(visible) + 1
                    ELSE CHOOSE i \in Greaters : \A j \in Greaters : i <= j
  BY DEF Place, Behind
<1>2. Greaters \in SUBSET Nat /\ \A i \in 1 .. Len(visible) : i \in Greaters <=> Behind(visible[i], c, w)
  OBVIOUS
<1>3. Greaters \subseteq 1 .. Len(visible) /\ Len(visible) \in Nat
  OBVIOUS
<1> HIDE DEF Greaters
<1>4. CASE Greaters = {}
  BY <1>1, <1>2, <1>3, <1>4
<1>5. CASE Greaters # {}
  <2>1. Place(c, w) \in Greaters /\ \A j \in Greaters : Place(c, w) <= j
    BY <1>1, <1>2, <1>5, FirstExists
  <2>2. Place(c, w) \in 1 .. Len(visible)
    BY <1>3, <2>1
  <2> QED
    BY <1>2, <1>3, <2>1, <2>2
<1> QED
  BY <1>4, <1>5

\* A list stays sorted when a channel is inserted there.
LEMMA InsertedInOrder ==
  ASSUME NEW v \in Seq(Channels), NEW c \in Channels, NEW w \in Nat, NEW p \in 1 .. Len(v) + 1,
         Sorted(v, w), \A i \in 1 .. p - 1 : ~ Behind(v[i], c, w),
         p <= Len(v) => Behind(v[p], c, w)
  PROVE  Sorted(InsertAt(v, p, c), w)
<1> DEFINE u == InsertAt(v, p, c)
<1>1. /\ u \in Seq(Channels) /\ Len(u) = Len(v) + 1
      /\ \A i \in 1 .. p - 1 : u[i] = v[i]
      /\ u[p] = c
      /\ \A i \in p + 1 .. Len(v) + 1 : u[i] = v[i - 1]
  BY InsertAtAll
<1> HIDE DEF u
<1>2. ASSUME NEW k \in 1 .. Len(v), p <= k PROVE ~ Behind(c, v[k], w)
  <2>1. p \in 1 .. Len(v) /\ v[p] \in Channels /\ v[k] \in Channels /\ Behind(v[p], c, w)
    BY <1>2
  <2>2. k = p \/ ~ Behind(v[p], v[k], w)
    BY <1>2, <2>1 DEF Sorted
  <2>3. ASSUME Behind(c, v[k], w) PROVE FALSE
    <3>1. k # p
      BY <2>1, <2>3, BehindIsOrder, Zenon
    <3>2. Behind(v[p], v[k], w)
      BY <2>1, <2>3, BehindIsOrder, Zenon
    <3> QED
      BY <2>2, <3>1, <3>2
  <2> QED
    BY <2>3
<1>3. ASSUME NEW i \in 1 .. Len(v) + 1, NEW j \in 1 .. Len(v) + 1, i < j PROVE ~ Behind(u[i], u[j], w)
  <2>1. CASE j < p
    BY <1>1, <1>3, <2>1 DEF Sorted
  <2>2. CASE j = p
    BY <1>1, <1>3, <2>2
  <2>3. CASE j > p /\ i < p
    <3>1. u[i] = v[i] /\ u[j] = v[j - 1] /\ i \in DOMAIN v /\ j - 1 \in DOMAIN v /\ i < j - 1
      BY <1>1, <1>3, <2>3
    <3> QED
      BY <3>1 DEF Sorted
  <2>4. CASE j > p /\ i = p
    BY <1>1, <1>2, <1>3, <2>4
  <2>5. CASE j > p /\ i > p
    <3>1. u[i] = v[i - 1] /\ u[j] = v[j - 1] /\ i - 1 \in DOMAIN v /\ j - 1 \in DOMAIN v /\ i - 1 < j - 1
      BY <1>1, <1>3, <2>5
    <3> QED
      BY <3>1 DEF Sorted
  <2> QED
    BY <1>3, <2>1, <2>2, <2>3, <2>4, <2>5
<1>4. DOMAIN u = 1 .. Len(v) + 1
  BY <1>1
<1> QED
  BY <1>3, <1>4 DEF Sorted, u

-----------------------------------------------------------------------------
(***************************************************************************)
(* The inductive invariant, by the parts of the state.                     *)
(***************************************************************************)
RegistryOK ==
  /\ visible \in Seq(Channels \ {Rcfile}) /\ IsInjective(visible)
  /\ hidden \subseteq {Rcfile}
  /\ width \in Nat /\ \A c \in Registered : Len(Label(c)) <= width
  /\ Sorted(visible, width)

Windows == [on : SUBSET Channels, off : SUBSET Channels, object : SUBSET Int]

Phases == {"none", "constructors", "reading", "loop", "object", "ready"}

PhasesOK ==
  /\ pc \in [Threads -> Phases]
  /\ mode \in [Threads -> {MainMode} \cup ThreadModes]
  /\ window \in [Threads -> Windows]
  /\ pc[Main] # "none"
  /\ \A t \in Threads \ {Main} : /\ pc[t] \notin {"constructors", "reading"}
                                 /\ pc[Main] # "ready" => pc[t] = "none"
  /\ pc[Main] # "constructors" => BeforeMain \subseteq Registered

PlacesOK ==
  /\ at \in [Threads -> Nat] /\ \A t \in Threads : at[t] \in 1 .. Len(visible) + 1
  /\ \A t \in Threads : pc[t] = "none" => at[t] = 1

CountsOK ==
  /\ count \in [Threads -> [Channels -> Int]]
  /\ \A t \in Threads, c \in Channels : count[t][c] >= -1
  /\ \A t \in Threads \ {Main} : \A c \in BeforeMain \ {Rcfile} :
       /\ count[t][c] \in {-1, 0}
       /\ pc[t] = "none" => count[t][c] = 0

ObjectsOK ==
  /\ objectOff \in [Threads -> {-1, 0}]
  /\ pc[Main] = "reading" => objectOff[Main] = -1
  /\ \A t \in Threads : pc[t] \in {"none", "constructors", "loop", "object"} => objectOff[t] = 0

ReadingOK ==
  /\ rc.ended # "core" /\ line \in Nat
  /\ pc[Main] = "constructors" => line = 0
  /\ pc[Main] = "reading" => /\ Paired(rc) /\ rc.count = count[Main]
                             /\ configuration \in Configurations /\ rc.file <= Len(configuration)

Copies(t) ==
  /\ Copying(t) => /\ \A c \in BeforeMain : c \in IF count[Main][c] < 0 THEN window[t].on ELSE window[t].off
                   /\ objectOff[Main] \in window[t].object
  /\ pc[t] # "none" =>
       \A c \in BeforeMain \ {Rcfile} :
         IF count[t][c] < 0 THEN c \in window[t].on
         ELSE \/ c \in window[t].off
              \/ pc[t] = "loop" /\ \E i \in at[t] .. Len(visible) : visible[i] = c
  /\ pc[t] = "ready" => objectOff[t] \in window[t].object
CopiesOK == \A t \in Threads \ {Main} : mode[t] = "copy_from_main" => Copies(t)

IInv == RegistryOK /\ PhasesOK /\ PlacesOK /\ CountsOK /\ ObjectsOK /\ ReadingOK /\ CopiesOK

\* A channel starts on or off.
LEMMA DefaultCounts ==
  \A c : DefaultCount(c) \in {-1, 0}
BY DEF DefaultCount

\* The invariant holds before the first constructor.
LEMMA InitInv == Init => IInv
<1> SUFFICES ASSUME Init PROVE IInv
  OBVIOUS
<1>1. Main \in Threads
  BY ThreadsAssumption
<1>2. /\ visible = <<>> /\ hidden = {} /\ width = MinWidth /\ MinWidth \in Nat
      /\ count = [t \in Threads |-> [c \in Channels |-> 0]]
      /\ objectOff = [t \in Threads |-> 0]
      /\ rc = BeginReading(count[Main]) /\ line = 0
      /\ pc = [t \in Threads |-> IF t = Main THEN "constructors" ELSE "none"]
      /\ mode = [t \in Threads |-> MainMode]
      /\ at = [t \in Threads |-> 1]
      /\ window = [t \in Threads |-> None]
  BY LabelsAssumption DEF Init
<1>3. Registered = {} /\ ToSet(visible) = {}
  BY <1>2 DEF Registered, ToSet
<1>4. RegistryOK
  BY <1>2, <1>3 DEF RegistryOK, Sorted, IsInjective
<1>5. None \in Windows
  BY Zenon DEF None, Windows
<1>6. PhasesOK
  BY <1>1, <1>2, <1>5 DEF PhasesOK, Phases
<1>7. PlacesOK
  BY <1>2 DEF PlacesOK
<1>8. CountsOK
  BY <1>2, RegistrationAssumption DEF CountsOK
<1>9. ObjectsOK
  BY <1>1, <1>2 DEF ObjectsOK
<1>10. ReadingOK
  <2>1. /\ count[Main] \in [Channels -> Int] /\ count[Main][Elfutils] >= 0
        /\ \A c \in Channels : count[Main][c] >= -1
    BY <1>1, <1>2, ChannelsAssumption
  <2>2. BeginReading(count[Main]).ended = ""
    BY <2>1, BeginReads, Zenon
  <2> QED
    <3>1. rc.ended = "" /\ pc[Main] = "constructors" /\ line = 0
      BY <1>1, <1>2, <2>2
    <3> QED
      BY <3>1 DEF ReadingOK
<1>11. CopiesOK
  BY <1>2 DEF CopiesOK, Copies, Copying
<1> QED
  BY <1>4, <1>6, <1>7, <1>8, <1>9, <1>10, <1>11 DEF IInv

\* What the constructor of a channel does to the registry.
LEMMA Registers ==
  ASSUME RegistryOK, NEW t \in Threads, NEW c \in Channels, InitializeChannel(t, c)
  PROVE  /\ RegistryOK' /\ Registered' = Registered \cup {c}
         /\ visible' # visible => \A u \in Threads : pc[u] # "loop"
         /\ Len(visible') >= Len(visible)
<1> DEFINE p == Place(c, width')
           C == Channels \ {Rcfile}
<1>1. /\ visible \in Seq(C) /\ IsInjective(visible) /\ hidden \subseteq {Rcfile}
      /\ width \in Nat /\ \A d \in Registered : Len(Label(d)) <= width
      /\ Sorted(visible, width)
  BY DEF RegistryOK
<1>2. Label(c) \in Seq(Letters)
  BY LabelTypes
<1>3. width' \in Nat /\ width' >= width /\ Len(Label(c)) <= width'
  BY <1>1, <1>2 DEF InitializeChannel, Widened
<1>4. visible \in Seq(Channels) /\ ToSet(visible) \subseteq Registered /\ c \notin ToSet(visible)
  BY <1>1 DEF Registered, InitializeChannel
<1>5. \A d \in Registered : Len(Label(d)) \in Nat /\ Len(Label(d)) <= width /\ Len(Label(d)) <= width'
  <2>1. Registered \subseteq Channels
    BY <1>1, ChannelsAssumption DEF Registered, ToSet
  <2> QED
    BY <1>1, <1>3, <2>1, LabelTypes
<1>6. Sorted(visible, width')
  BY <1>1, <1>3, <1>4, <1>5, SortedAtAnyWidth
<1>7. \A u \in Threads : pc[u] # "loop"
  BY DEF InitializeChannel
<1>8. CASE c = Rcfile
  <2>1. visible' = visible /\ hidden' = hidden \cup {c}
    BY <1>8 DEF InitializeChannel
  <2>2. Registered' = Registered \cup {c}
    BY <2>1 DEF Registered
  <2>3. Sorted(visible', width')
    BY <1>6, <2>1
  <2>4. \A d \in Registered' : Len(Label(d)) <= width'
    BY <1>3, <1>5, <2>2
  <2>5. hidden' \subseteq {Rcfile} /\ visible' = visible
    BY <1>1, <1>8, <2>1
  <2>6. RegistryOK'
    BY <1>1, <1>3, <2>3, <2>4, <2>5 DEF RegistryOK
  <2> QED
    BY <1>1, <2>2, <2>5, <2>6
<1>9. CASE c # Rcfile
  <2>1. visible' = InsertAt(visible, p, c) /\ hidden' = hidden
    BY <1>9 DEF InitializeChannel
  <2>2. /\ p \in 1 .. Len(visible) + 1
        /\ \A i \in 1 .. p - 1 : ~ Behind(visible[i], c, width')
        /\ p <= Len(visible) => Behind(visible[p], c, width')
    BY <1>3, <1>4, PlaceInOrder
  <2>3. c \in C
    BY <1>9
  <2> HIDE DEF p, C
  <2>4. InsertAt(visible, p, c) \in Seq(C) /\ Len(InsertAt(visible, p, c)) = Len(visible) + 1
    BY <1>1, <2>2, <2>3, InsertAtAll
  <2>5. /\ IsInjective(InsertAt(visible, p, c))
        /\ ToSet(InsertAt(visible, p, c)) = ToSet(visible) \cup {c}
    <3>1. visible \in Seq(C) /\ IsInjective(visible) /\ c \notin ToSet(visible)
      BY <1>1, <1>4
    <3>2. p \in 1 .. Len(visible) + 1
      BY <2>2
    <3> QED
      BY <3>1, <3>2, <2>3, InsertAtInjective, ZenonT(30)
  <2>6. Sorted(InsertAt(visible, p, c), width')
    BY <1>3, <1>4, <1>6, <2>2, InsertedInOrder
  <2>7. Registered' = Registered \cup {c}
    BY <2>1, <2>5 DEF Registered
  <2>8. \A d \in Registered' : Len(Label(d)) <= width'
    BY <1>3, <1>5, <2>7
  <2>9. RegistryOK'
    <3> USE DEF C
    <3> QED
      BY <1>1, <1>3, <2>1, <2>4, <2>5, <2>6, <2>8 DEF RegistryOK
  <2> QED
    BY <1>1, <1>7, <2>1, <2>4, <2>7, <2>9
<1> QED
  BY <1>8, <1>9

\* Every step keeps the registry sorted, and no channel is lost or added during a loop.
LEMMA RegistryKept ==
  ASSUME RegistryOK, [Next]_vars
  PROVE  /\ RegistryOK' /\ Registered \subseteq Registered'
         /\ visible' # visible => \A u \in Threads : pc[u] # "loop"
         /\ Len(visible') >= Len(visible)
<1>1. ASSUME NEW t \in Threads, NEW c \in Channels, InitializeChannel(t, c)
      PROVE  /\ RegistryOK' /\ Registered \subseteq Registered'
             /\ visible' # visible => \A u \in Threads : pc[u] # "loop"
             /\ Len(visible') >= Len(visible)
  BY <1>1, Registers
<1>2. CASE Construct
  BY <1>1, <1>2, ThreadsAssumption, RegistrationAssumption DEF Construct
<1>3. ASSUME NEW t \in Threads, OpenLibrary(t)
      PROVE  \E c \in Channels : InitializeChannel(t, c)
  BY <1>3, RegistrationAssumption DEF OpenLibrary
<1>4. CASE ConstructFatal
  <2>1. PICK f \in FatalChannels : width' = Widened(LabelOf[f])
    BY <1>4 DEF ConstructFatal
  <2>2. visible' = visible /\ hidden' = hidden /\ width \in Nat /\ LabelOf[f] \in Seq(Letters)
    BY <1>4, LabelsAssumption DEF ConstructFatal, RegistryOK
  <2>3. width' \in Nat /\ width' >= width /\ Registered' = Registered
    BY <2>1, <2>2 DEF Widened, Registered
  <2>4. \A c \in Registered : Len(Label(c)) \in Nat /\ Len(Label(c)) <= width /\ Len(Label(c)) <= width'
    <3>1. Registered \subseteq Channels
      BY ChannelsAssumption DEF RegistryOK, Registered, ToSet
    <3> QED
      BY <2>2, <2>3, <3>1, LabelTypes DEF RegistryOK
  <2>5. visible \in Seq(Channels) /\ Sorted(visible, width) /\ ToSet(visible) \subseteq Registered
    BY DEF RegistryOK, Registered
  <2>6. Sorted(visible, width')
    BY <2>2, <2>3, <2>4, <2>5, SortedAtAnyWidth
  <2>7. RegistryOK'
    BY <2>2, <2>3, <2>4, <2>6 DEF RegistryOK
  <2>8. Len(visible) \in Nat
    BY <2>5
  <2> QED
    BY <2>2, <2>3, <2>7, <2>8
<1>5. CASE UNCHANGED registry
  <2>1. RegistryOK' /\ Registered' = Registered /\ visible' = visible
    BY <1>5 DEF registry, RegistryOK, Registered
  <2>2. Len(visible) \in Nat
    BY DEF RegistryOK
  <2> QED
    BY <2>1, <2>2
<1>6. \/ Construct \/ ConstructFatal \/ UNCHANGED registry
      \/ \E t \in Threads : OpenLibrary(t)
  BY DEF Next, TurnOffBefore, BeginInit, Read, ReadOverride, EndInit, StartThread, TurnOnChannel,
         EndLoop, TurnOnObject, ChannelOff, ChannelOn, ToggleObject, vars, registry
<1> QED
  BY <1>1, <1>2, <1>3, <1>4, <1>5, <1>6

\* What a thread sees is added to what it saw.
LEMMA WindowFields ==
  ASSUME NEW w \in Windows, NEW f \in {"on", "off", "object"}, NEW x,
         x \in IF f = "object" THEN Int ELSE Channels
  PROVE  LET u == [w EXCEPT ![f] = @ \cup {x}]
         IN /\ u \in Windows
            /\ \A g \in {"on", "off", "object"} : w[g] \subseteq u[g]
            /\ x \in u[f]
<1> DEFINE F == {"on", "off", "object"}
           u == [w EXCEPT ![f] = @ \cup {x}]
<1>1. w = [g \in F |-> w[g]] /\ w.on \in SUBSET Channels /\ w.off \in SUBSET Channels /\ w.object \in SUBSET Int
  BY Zenon DEF Windows
<1>2. u = [g \in F |-> IF g = f THEN w[f] \cup {x} ELSE w[g]]
  BY <1>1, Zenon
<1> HIDE DEF u
<1>3. /\ u.on = (IF f = "on" THEN w.on \cup {x} ELSE w.on)
      /\ u.off = (IF f = "off" THEN w.off \cup {x} ELSE w.off)
      /\ u.object = (IF f = "object" THEN w.object \cup {x} ELSE w.object)
  BY <1>2, SMT
<1>4. u.on \in SUBSET Channels /\ u.off \in SUBSET Channels /\ u.object \in SUBSET Int
  BY <1>1, <1>3, SMT
<1>5. u = [on |-> u.on, off |-> u.off, object |-> u.object]
  BY <1>2, SMT
<1>6. u \in Windows
  BY <1>4, <1>5, Zenon DEF Windows
<1>7. \A g \in F : w[g] \subseteq u[g]
  BY <1>2, SMT
<1>8. x \in u[f]
  BY <1>2, SMT
<1> QED
  BY <1>6, <1>7, <1>8 DEF u

\* What a thread sees while it copies the main thread.
LEMMA SeenInWindow ==
  ASSUME window \in [Threads -> Windows], NEW f \in {"on", "off", "object"}, NEW x,
         x \in IF f = "object" THEN Int ELSE Channels
  PROVE  /\ Seen(f, x) \in [Threads -> Windows]
         /\ \A t \in Threads : /\ \A g \in {"on", "off", "object"} : window[t][g] \subseteq Seen(f, x)[t][g]
                               /\ Copying(t) => x \in Seen(f, x)[t][f]
<1>1. ASSUME NEW t \in Threads
      PROVE  /\ Seen(f, x)[t] \in Windows
             /\ \A g \in {"on", "off", "object"} : window[t][g] \subseteq Seen(f, x)[t][g]
             /\ Copying(t) => x \in Seen(f, x)[t][f]
  <2> DEFINE u == [window[t] EXCEPT ![f] = @ \cup {x}]
  <2>1. window[t] \in Windows
    OBVIOUS
  <2>2. /\ u \in Windows
        /\ \A g \in {"on", "off", "object"} : window[t][g] \subseteq u[g]
        /\ x \in u[f]
    BY <2>1, WindowFields, Zenon
  <2>3. Seen(f, x)[t] = IF Copying(t) THEN u ELSE window[t]
    BY Zenon DEF Seen
  <2> HIDE DEF u
  <2> QED
    BY <2>1, <2>2, <2>3, Zenon
<1>2. Seen(f, x) = [t \in Threads |-> Seen(f, x)[t]]
  BY DEF Seen
<1> QED
  BY <1>1, <1>2

\* A thread that starts sees what the main thread has.
LEMMA StartsWindow ==
  ASSUME count \in [Threads -> [Channels -> Int]], objectOff \in [Threads -> {-1, 0}]
  PROVE  LET w == [on |-> {c \in Channels : count[Main][c] < 0},
                   off |-> {c \in Channels : count[Main][c] >= 0},
                   object |-> {objectOff[Main]}]
         IN /\ w \in Windows /\ objectOff[Main] \in w.object
            /\ \A c \in Channels : c \in IF count[Main][c] < 0 THEN w.on ELSE w.off
<1> DEFINE on == {c \in Channels : count[Main][c] < 0}
           off == {c \in Channels : count[Main][c] >= 0}
           w == [on |-> on, off |-> off, object |-> {objectOff[Main]}]
<1>1. on \in SUBSET Channels /\ off \in SUBSET Channels
  OBVIOUS
<1>2. {objectOff[Main]} \in SUBSET Int
  BY ThreadsAssumption
<1>3. \A c \in Channels : IF count[Main][c] < 0 THEN c \in on ELSE c \in off
  BY ThreadsAssumption
<1> HIDE DEF on, off
<1>4. w \in Windows
  BY <1>1, <1>2, Zenon DEF Windows
<1>5. w.on = on /\ w.off = off /\ w.object = {objectOff[Main]}
  BY Zenon
<1> HIDE DEF w
<1>6. \A c \in Channels : c \in IF count[Main][c] < 0 THEN w.on ELSE w.off
  BY <1>3, <1>5
<1>7. objectOff[Main] \in w.object
  BY <1>5
<1> QED
  BY <1>4, <1>6, <1>7 DEF w, on, off

\* Every step keeps the phases of the threads in order.
LEMMA PhasesKept ==
  ASSUME RegistryOK, PhasesOK, CountsOK, ObjectsOK, [Next]_vars
  PROVE  PhasesOK'
<1>1. Registered \subseteq Registered' /\ Main \in Threads
  BY RegistryKept, ThreadsAssumption
<1>2. /\ pc \in [Threads -> Phases] /\ pc[Main] # "none"
      /\ mode \in [Threads -> {MainMode} \cup ThreadModes]
      /\ window \in [Threads -> Windows]
      /\ \A t \in Threads \ {Main} : /\ pc[t] \notin {"constructors", "reading"}
                                     /\ pc[Main] # "ready" => pc[t] = "none"
      /\ pc[Main] # "constructors" => BeforeMain \subseteq Registered
  BY DEF PhasesOK
<1>3. CASE pc' = pc /\ mode' = mode /\ window' = window
  BY <1>1, <1>2, <1>3 DEF PhasesOK
<1>4. CASE BeginInit
  BY <1>1, <1>2, <1>4 DEF BeginInit, PhasesOK, Phases
<1>5. CASE EndInit
  BY <1>1, <1>2, <1>5 DEF EndInit, PhasesOK, Phases
<1>6. ASSUME NEW t \in Threads, StartThread(t) PROVE PhasesOK'
  <2>1. window' \in [Threads -> Windows]
    <3> DEFINE w == [on |-> {c \in Channels : count[Main][c] < 0},
                     off |-> {c \in Channels : count[Main][c] >= 0},
                     object |-> {objectOff[Main]}]
    <3>1. w \in Windows
      BY StartsWindow, Zenon DEF CountsOK, ObjectsOK
    <3>2. window' = [window EXCEPT ![t] = w]
      BY <1>6, Zenon DEF StartThread
    <3> HIDE DEF w
    <3> QED
      BY <1>2, <3>1, <3>2
  <2>2. PICK m \in ThreadModes :
          /\ mode' = [mode EXCEPT ![t] = m]
          /\ pc' = [pc EXCEPT ![t] = IF m = "debug_off" THEN "object" ELSE "loop"]
    BY <1>6 DEF StartThread
  <2>3. pc[t] = "none" /\ pc[Main] = "ready" /\ t # Main
    BY <1>2, <1>6 DEF StartThread
  <2>4. mode' \in [Threads -> {MainMode} \cup ThreadModes]
    BY <1>2, <2>2
  <2>5. pc' \in [Threads -> Phases] /\ pc'[Main] = "ready"
    BY <1>1, <1>2, <2>2, <2>3 DEF Phases
  <2>6. \A u \in Threads : pc'[u] = pc[u] \/ pc'[u] \in {"object", "loop"}
    BY <1>2, <2>2
  <2> QED
    BY <1>1, <1>2, <2>1, <2>3, <2>4, <2>5, <2>6 DEF PhasesOK
<1>7. ASSUME NEW t \in Threads, EndLoop(t) \/ TurnOnObject(t) PROVE PhasesOK'
  BY <1>1, <1>2, <1>7 DEF EndLoop, TurnOnObject, PhasesOK, Phases
<1>8. ASSUME NEW c \in Toggled, ChannelOff(c) \/ ChannelOn(c) PROVE PhasesOK'
  <2>1. c \in Channels
    BY RegistrationAssumption
  <2>2. pc' = pc /\ mode' = mode /\ (window' = window \/ \E f \in {"on", "off"} : window' = Seen(f, c))
    BY <1>8 DEF ChannelOff, ChannelOn
  <2>3. window' \in [Threads -> Windows]
    BY <1>2, <2>1, <2>2, SeenInWindow
  <2> QED
    BY <1>1, <1>2, <2>2, <2>3 DEF PhasesOK
<1>9. CASE ToggleObject
  <2>1. pc' = pc /\ mode' = mode /\ window' = Seen("object", -1 - objectOff[Main])
    BY <1>9 DEF ToggleObject
  <2>2. -1 - objectOff[Main] \in Int
    BY <1>1 DEF ObjectsOK
  <2>3. window' \in [Threads -> Windows]
    BY <1>2, <2>1, <2>2, SeenInWindow
  <2> QED
    BY <1>1, <1>2, <2>1, <2>3 DEF PhasesOK
<1>10. \/ BeginInit \/ EndInit \/ ToggleObject
       \/ pc' = pc /\ mode' = mode /\ window' = window
       \/ \E t \in Threads : StartThread(t) \/ EndLoop(t) \/ TurnOnObject(t)
       \/ \E c \in Toggled : ChannelOff(c) \/ ChannelOn(c)
  BY DEF Next, vars, Construct, ConstructFatal, TurnOffBefore, Read, ReadOverride, OpenLibrary, TurnOnChannel
<1> QED
  BY <1>3, <1>4, <1>5, <1>6, <1>7, <1>8, <1>9, <1>10

\* Every step keeps the places of the loops within the list.
LEMMA PlacesKept ==
  ASSUME RegistryOK, PhasesOK, PlacesOK, [Next]_vars
  PROVE  PlacesOK'
<1>1. Len(visible') \in Nat /\ Len(visible) \in Nat /\ Len(visible') >= Len(visible)
  BY RegistryKept DEF RegistryOK
<1>2. /\ at \in [Threads -> Nat] /\ pc \in [Threads -> Phases]
      /\ \A t \in Threads : at[t] \in 1 .. Len(visible) + 1 /\ (pc[t] = "none" => at[t] = 1)
  BY DEF PlacesOK, PhasesOK
<1>3. ASSUME NEW t \in Threads, TurnOnChannel(t) PROVE PlacesOK'
  <2>1. at' = [at EXCEPT ![t] = @ + 1] /\ at[t] <= Len(visible) /\ pc[t] = "loop" /\ pc' = pc
    BY <1>3 DEF TurnOnChannel
  <2> QED
    BY <1>1, <1>2, <2>1 DEF PlacesOK
<1>4. CASE at' = at /\ \A t \in Threads : pc'[t] = "none" => pc[t] = "none"
  BY <1>1, <1>2, <1>4 DEF PlacesOK
<1>5. \/ at' = at /\ \A t \in Threads : pc'[t] = "none" => pc[t] = "none"
      \/ \E t \in Threads : TurnOnChannel(t)
  <2>1. \/ pc' = pc /\ at' = at
        \/ BeginInit \/ EndInit
        \/ \E t \in Threads : StartThread(t) \/ EndLoop(t) \/ TurnOnObject(t) \/ TurnOnChannel(t)
    BY DEF Next, vars, Construct, ConstructFatal, TurnOffBefore, Read, ReadOverride, OpenLibrary,
           ChannelOff, ChannelOn, ToggleObject
  <2>2. CASE BeginInit \/ EndInit
    BY <1>2, <2>2 DEF BeginInit, EndInit
  <2>3. ASSUME NEW t \in Threads, StartThread(t) \/ EndLoop(t) \/ TurnOnObject(t)
        PROVE  at' = at /\ \A u \in Threads : pc'[u] = "none" => pc[u] = "none"
    BY <1>2, <2>3 DEF StartThread, EndLoop, TurnOnObject
  <2> QED
    BY <2>1, <2>2, <2>3
<1> QED
  BY <1>3, <1>4, <1>5

\* Every step keeps the debug object off or on, never twice.
LEMMA ObjectsKept ==
  ASSUME PhasesOK, ObjectsOK, [Next]_vars
  PROVE  ObjectsOK'
<1>1. /\ Main \in Threads /\ pc \in [Threads -> Phases]
      /\ objectOff \in [Threads -> {-1, 0}]
      /\ pc[Main] = "reading" => objectOff[Main] = -1
      /\ \A t \in Threads : pc[t] \in {"none", "constructors", "loop", "object"} => objectOff[t] = 0
      /\ \A t \in Threads \ {Main} : pc[t] # "reading"
  BY ThreadsAssumption DEF PhasesOK, ObjectsOK
<1>2. CASE pc' = pc /\ objectOff' = objectOff
  BY <1>1, <1>2 DEF ObjectsOK
<1>3. CASE BeginInit
  BY <1>1, <1>3 DEF BeginInit, ObjectsOK
<1>4. CASE EndInit
  <2>1. /\ objectOff' = [objectOff EXCEPT ![Main] = @ + 1] /\ pc' = [pc EXCEPT ![Main] = "loop"]
        /\ pc[Main] = "reading"
    BY <1>4 DEF EndInit
  <2>2. objectOff[Main] = -1
    BY <1>1, <2>1
  <2>3. objectOff[Main] + 1 = 0
    BY <2>2
  <2> QED
    BY <1>1, <2>1, <2>3 DEF ObjectsOK
<1>5. ASSUME NEW t \in Threads, StartThread(t) PROVE ObjectsOK'
  BY <1>1, <1>5 DEF StartThread, ObjectsOK
<1>6. ASSUME NEW t \in Threads, EndLoop(t) PROVE ObjectsOK'
  BY <1>1, <1>6 DEF EndLoop, ObjectsOK
<1>7. ASSUME NEW t \in Threads, TurnOnObject(t) PROVE ObjectsOK'
  BY <1>1, <1>7 DEF TurnOnObject, ObjectsOK
<1>8. CASE ToggleObject
  BY <1>1, <1>8 DEF ToggleObject, ObjectsOK
<1>9. \/ BeginInit \/ EndInit \/ ToggleObject
      \/ pc' = pc /\ objectOff' = objectOff
      \/ \E t \in Threads : StartThread(t) \/ EndLoop(t) \/ TurnOnObject(t)
  BY DEF Next, vars, Construct, ConstructFatal, TurnOffBefore, Read, ReadOverride, OpenLibrary, TurnOnChannel,
         ChannelOff, ChannelOn
<1> QED
  BY <1>2, <1>3, <1>4, <1>5, <1>6, <1>7, <1>8, <1>9

\* What init() and the lines that it reads do to the reader.
LEMMA ListedBeforeMain ==
  ASSUME RegistryOK, BeforeMain \subseteq Registered
  PROVE  Listed(visible) /\ BeforeMain \ {Rcfile} \subseteq ToSet(visible)
BY ChannelsAssumption, RegistrationAssumption DEF RegistryOK, Registered, Listed, Lists

\* init() starts the reader with all channels off.
LEMMA BeginInitReads ==
  ASSUME RegistryOK, CountsOK, BeginInit
  PROVE  /\ Paired(rc') /\ rc'.file = 1 /\ rc'.ended = ""
         /\ count' = [count EXCEPT ![Main] = rc'.count]
         /\ rc' = BeginReading(AllOff(count[Main]))
         /\ AllOff(count[Main]) \in [Channels -> Int]
         /\ \A c \in Channels : AllOff(count[Main])[c] = IF c \in ToSet(visible) /\ count[Main][c] < 0 THEN 0 ELSE count[Main][c]
<1> DEFINE off == AllOff(count[Main])
<1>1. Main \in Threads /\ Elfutils \in Channels /\ Elfutils \in ToSet(visible)
  BY ThreadsAssumption, ChannelsAssumption, ListedBeforeMain DEF BeginInit, Listed
<1>2. /\ off \in [Channels -> Int]
      /\ \A c \in Channels : off[c] = IF c \in ToSet(visible) /\ count[Main][c] < 0 THEN 0 ELSE count[Main][c]
  BY <1>1 DEF AllOff, CountsOK
<1>3. rc' = BeginReading(off) /\ count' = [count EXCEPT ![Main] = rc'.count]
  BY DEF BeginInit
<1>4. (\A c \in Channels : off[c] >= -1) /\ off[Elfutils] >= 0
  BY <1>1, <1>2 DEF CountsOK
<1> HIDE DEF off
<1>5. LET s == BeginReading(off) IN Paired(s) /\ s.file = 1 /\ s.ended = ""
  BY <1>2, <1>4, BeginReads, Zenon
<1>6. Paired(rc') /\ rc'.file = 1 /\ rc'.ended = ""
  BY <1>3, <1>5, Zenon
<1> QED
  BY <1>2, <1>3, <1>6 DEF off

\* init() reads a line.
LEMMA LineIsRead ==
  ASSUME RegistryOK, PhasesOK, ReadingOK, Read
  PROVE  /\ Paired(rc) /\ Listed(visible) /\ line + 1 \in DOMAIN Lines /\ IsLine(Lines[line + 1])
         /\ Lines \in Seq(ToSet(Lines)) /\ rc.file \in DOMAIN configuration
         /\ Paired(rc') /\ rc' = ReadLine(rc, visible, Lines[line + 1])
         /\ count' = [count EXCEPT ![Main] = rc'.count] /\ line' = line + 1
         /\ rc'.file = rc.file
<1>1. /\ pc[Main] = "reading" /\ rc.ended = "" /\ line < Len(Lines) /\ line' = line + 1
      /\ rc' = ReadLine(rc, visible, Lines[line + 1]) /\ count' = [count EXCEPT ![Main] = rc'.count]
  BY DEF Read
<1>2. Paired(rc) /\ configuration \in Configurations /\ line \in Nat /\ rc.file <= Len(configuration)
  BY <1>1 DEF ReadingOK
<1>3. Listed(visible)
  BY <1>1, ListedBeforeMain DEF PhasesOK
<1>4. rc.file \in 1 .. 2
  BY <1>2, FieldTypes DEF Paired, Sound, FieldsOf
<1>5. rc.file \in DOMAIN configuration
  BY <1>2, <1>4, ConfigurationsAssumption DEF IsSequence
<1>6. Lines \in Seq(ToSet(Lines)) /\ \A i \in DOMAIN Lines : IsLine(Lines[i])
  BY <1>2, <1>5, ConfigurationsAssumption DEF Lines, IsSequence
<1>7. line + 1 \in DOMAIN Lines
  <2>1. \A S, q : q \in Seq(S) => DOMAIN q = 1 .. Len(q) /\ Len(q) \in Nat
    OBVIOUS
  <2>2. DOMAIN Lines = 1 .. Len(Lines) /\ Len(Lines) \in Nat
    BY <1>6, <2>1, Zenon
  <2>3. line < Len(Lines) /\ line \in Nat
    BY <1>1, <1>2, Zenon
  <2> DEFINE n == Len(Lines)
  <2>4. n \in Nat /\ line < n
    BY <2>2, <2>3
  <2> HIDE DEF n
  <2>5. line + 1 \in 1 .. n
    BY <2>3, <2>4
  <2> QED
    BY <2>2, <2>5 DEF n
<1>8. IsLine(Lines[line + 1])
  BY <1>6, <1>7
<1> HIDE DEF Lines
<1>9. LET u == ReadLine(rc, visible, Lines[line + 1]) IN Paired(u) /\ u.file = rc.file
  BY <1>2, <1>3, <1>8, ReadLinePaired, Zenon
<1>10. Paired(rc') /\ rc'.file = rc.file
  BY <1>1, <1>9, Zenon
<1> QED
  BY <1>1, <1>2, <1>3, <1>5, <1>6, <1>7, <1>8, <1>10, Zenon

\* The end of read(), in the counters of the main thread.
LEMMA EndInitReads ==
  ASSUME ReadingOK, EndInit
  PROVE  /\ Paired(rc) /\ rc' = EndReading(rc) /\ rc'.ended = "" /\ rc'.count \in [Channels -> Int]
         /\ \A c \in Channels : rc'.count[c] >= -1
         /\ {c \in Channels \ {Rcfile} : rc'.count[c] < 0} = OnIn(rc)
         /\ count' = [count EXCEPT ![Main] = rc'.count]
<1>1. Paired(rc) /\ rc' = EndReading(rc) /\ count' = [count EXCEPT ![Main] = rc'.count] /\ rc.ended = ""
  BY DEF ReadingOK, EndInit
<1>2. LET u == EndReading(rc)
      IN /\ u \in RcStates /\ u.ended = rc.ended
         /\ \A c \in Channels : u.count[c] >= -1
         /\ {c \in Channels \ {Rcfile} : u.count[c] < 0} = OnIn(rc)
  BY <1>1, EndReads, Zenon
<1>3. /\ rc' \in RcStates /\ rc'.ended = ""
      /\ \A c \in Channels : rc'.count[c] >= -1
      /\ {c \in Channels \ {Rcfile} : rc'.count[c] < 0} = OnIn(rc)
  BY <1>1, <1>2, Zenon
<1>4. rc'.count \in [Channels -> Int]
  BY <1>3, FieldTypes, Zenon DEF FieldsOf
<1> QED
  BY <1>1, <1>3, <1>4

\* The thread that reads the files is alone: only its counters change.
LEMMA MainCounts ==
  ASSUME CountsOK, NEW n, n \in [Channels -> Int], \A c \in Channels : n[c] >= -1,
         count' = [count EXCEPT ![Main] = n],
         \A t \in Threads \ {Main} : pc'[t] = "none" => pc[t] = "none"
  PROVE  CountsOK'
<1>1. count' \in [Threads -> [Channels -> Int]]
  BY DEF CountsOK
<1>2. Main \in Threads /\ count'[Main] = n /\ \A t \in Threads \ {Main} : count'[t] = count[t]
  BY ThreadsAssumption DEF CountsOK
<1> QED
  BY <1>1, <1>2 DEF CountsOK

\* The counters of the reader are never below -1.
LEMMA PairedCounts ==
  ASSUME NEW s, Paired(s)
  PROVE  s.count \in [Channels -> Int] /\ \A c \in Channels : s.count[c] >= -1
BY FieldTypes DEF Paired, Sound, FieldsOf

\* Every step keeps the counters of all threads at -1 or above.
LEMMA CountsKept ==
  ASSUME RegistryOK, PhasesOK, PlacesOK, CountsOK, ReadingOK, [Next]_vars
  PROVE  CountsOK'
<1>1. /\ Main \in Threads /\ pc \in [Threads -> Phases]
      /\ \A t \in Threads \ {Main} : /\ pc[t] \notin {"constructors", "reading"}
                                     /\ pc[Main] # "ready" => pc[t] = "none"
      /\ pc[Main] # "constructors" => BeforeMain \subseteq Registered
      /\ visible \in Seq(Channels \ {Rcfile})
  BY ThreadsAssumption DEF PhasesOK, RegistryOK
<1>2. /\ count \in [Threads -> [Channels -> Int]]
      /\ \A t \in Threads, c \in Channels : count[t][c] >= -1
      /\ \A t \in Threads \ {Main} : \A c \in BeforeMain \ {Rcfile} :
           /\ count[t][c] \in {-1, 0}
           /\ pc[t] = "none" => count[t][c] = 0
  BY DEF CountsOK
<1>3. ASSUME NEW n, n \in [Channels -> Int], \A c \in Channels : n[c] >= -1,
             count' = [count EXCEPT ![Main] = n], pc' = pc
      PROVE  CountsOK'
  BY <1>3, MainCounts
<1>4. ASSUME NEW t \in Threads, NEW c \in Channels, NEW x \in Int, x >= -1, pc' = pc,
             count' = [count EXCEPT ![t][c] = x],
             t = Main \/ (pc[t] # "none" /\ (c \in BeforeMain \ {Rcfile} => x \in {-1, 0}))
      PROVE  CountsOK'
  <2>1. count' \in [Threads -> [Channels -> Int]]
    BY <1>2, <1>4
  <2>2. \A u \in Threads, d \in Channels : count'[u][d] = IF u = t /\ d = c THEN x ELSE count[u][d]
    BY <1>2, <1>4
  <2>3. \A u \in Threads, d \in Channels : count'[u][d] >= -1
    BY <1>2, <1>4, <2>2
  <2>4. BeforeMain \subseteq Channels
    BY RegistrationAssumption
  <2>5. ASSUME NEW u \in Threads \ {Main}, NEW d \in BeforeMain \ {Rcfile}
        PROVE  count'[u][d] \in {-1, 0} /\ (pc'[u] = "none" => count'[u][d] = 0)
    BY <1>2, <1>4, <2>2, <2>4
  <2> QED
    BY <2>1, <2>3, <2>5 DEF CountsOK
<1>5. ASSUME NEW t \in Threads, NEW c \in Channels, InitializeChannel(t, c), pc' = pc,
             t = Main \/ pc[t] = "ready"
      PROVE  CountsOK'
  <2>1. DefaultCount(c) \in {-1, 0} /\ count' = [count EXCEPT ![t][c] = DefaultCount(c)]
    BY <1>5, DefaultCounts DEF InitializeChannel
  <2>2. DefaultCount(c) \in Int /\ DefaultCount(c) >= -1
    BY <2>1
  <2>3. t = Main \/ pc[t] # "none"
    BY <1>5
  <2> QED
    BY <1>4, <1>5, <2>1, <2>2, <2>3
<1>6. CASE Construct
  BY <1>1, <1>5, <1>6, RegistrationAssumption DEF Construct
<1>7. ASSUME NEW t \in Threads, OpenLibrary(t) PROVE CountsOK'
  BY <1>5, <1>7, RegistrationAssumption DEF OpenLibrary
<1>8. ASSUME NEW c \in OffBefore, TurnOffBefore(c) PROVE CountsOK'
  <2> DEFINE x == count[Main][c] + 1
  <2>1. c \in Channels /\ pc' = pc /\ count' = [count EXCEPT ![Main][c] = x]
    BY <1>8, RegistrationAssumption DEF TurnOffBefore
  <2>2. x \in Int /\ x >= -1
    BY <1>1, <1>2, <2>1
  <2> HIDE DEF x
  <2> QED
    BY <1>1, <1>4, <2>1, <2>2, Zenon
<1>9. CASE BeginInit
  <2>1. Paired(rc') /\ count' = [count EXCEPT ![Main] = rc'.count]
    BY <1>9, BeginInitReads, Zenon
  <2>2. \A t \in Threads \ {Main} : pc'[t] = "none" => pc[t] = "none"
    BY <1>1, <1>9 DEF BeginInit
  <2> QED
    BY <2>1, <2>2, MainCounts, PairedCounts
<1>10. CASE Read
  <2>1. Paired(rc') /\ count' = [count EXCEPT ![Main] = rc'.count]
    BY <1>10, LineIsRead, Zenon
  <2>2. pc' = pc
    BY <1>10 DEF Read
  <2> QED
    BY <1>3, <2>1, <2>2, PairedCounts
<1>11. CASE EndInit
  <2>1. /\ rc'.count \in [Channels -> Int] /\ \A c \in Channels : rc'.count[c] >= -1
        /\ count' = [count EXCEPT ![Main] = rc'.count]
    BY <1>11, EndInitReads, Zenon
  <2>2. \A t \in Threads \ {Main} : pc'[t] = "none" => pc[t] = "none"
    BY <1>1, <1>11 DEF EndInit
  <2> QED
    BY <2>1, <2>2, MainCounts
<1>12. ASSUME NEW t \in Threads, TurnOnChannel(t) PROVE CountsOK'
  <2> DEFINE c == visible[at[t]]
           x == count[t][c] - 1
  <2>1. /\ pc[t] = "loop" /\ pc' = pc /\ at[t] <= Len(visible)
        /\ count' = count \/ (count[t][c] >= 0 /\ count' = [count EXCEPT ![t][c] = x])
    <3> DEFINE turned == [count EXCEPT ![t][c] = x]
    <3>1. pc[t] = "loop" /\ pc' = pc /\ at[t] <= Len(visible)
      BY <1>12 DEF TurnOnChannel
    <3>2. count' = IF count[t][c] >= 0 /\ Wanted(t, c) THEN turned ELSE count
      BY <1>12, Zenon DEF TurnOnChannel
    <3> HIDE DEF turned
    <3>3. count' = count \/ (count[t][c] >= 0 /\ count' = turned)
      BY <3>2, Zenon
    <3> QED
      BY <3>1, <3>3 DEF turned
  <2>2. c \in Channels
    BY <1>1, <2>1 DEF PlacesOK
  <2>3. count[t][c] \in Int /\ (c \in BeforeMain \ {Rcfile} => t = Main \/ count[t][c] \in {-1, 0})
    BY <1>1, <1>2, <2>2
  <2> HIDE DEF c
  <2>4. CASE count' = count
    BY <1>2, <2>1, <2>4 DEF CountsOK
  <2>5. CASE count[t][c] >= 0 /\ count' = [count EXCEPT ![t][c] = x]
    <3>1. x \in Int /\ x >= -1
      BY <2>3, <2>5
    <3>2. t = Main \/ (c \in BeforeMain \ {Rcfile} => x \in {-1, 0})
      BY <2>3, <2>5
    <3>3. pc[t] # "none"
      BY <2>1
    <3> HIDE DEF x
    <3> QED
      BY <1>4, <2>1, <2>2, <2>5, <3>1, <3>2, <3>3, Zenon
  <2> QED
    BY <2>1, <2>4, <2>5
<1>13. ASSUME NEW c \in Toggled, ChannelOff(c) \/ ChannelOn(c) PROVE CountsOK'
  <2> DEFINE up == count[Main][c] + 1
           down == count[Main][c] - 1
  <2>1. c \in Channels /\ pc' = pc
    BY <1>13, RegistrationAssumption DEF ChannelOff, ChannelOn
  <2>2. count[Main][c] \in Int /\ count[Main][c] >= -1
    BY <1>1, <1>2, <2>1
  <2>3. \/ count' = [count EXCEPT ![Main][c] = up]
        \/ count[Main][c] >= 0 /\ count' = [count EXCEPT ![Main][c] = down]
    BY <1>13, Zenon DEF ChannelOff, ChannelOn
  <2>4. up \in Int /\ up >= -1 /\ (count[Main][c] >= 0 => down \in Int /\ down >= -1)
    BY <2>2
  <2> HIDE DEF up, down
  <2> QED
    BY <1>1, <1>4, <2>1, <2>3, <2>4, Zenon
<1>14. ASSUME count' = count, \A t \in Threads \ {Main} : pc'[t] = "none" => pc[t] = "none"
       PROVE  CountsOK'
  BY <1>2, <1>14 DEF CountsOK
<1>15. ASSUME NEW t \in Threads, StartThread(t) \/ EndLoop(t) \/ TurnOnObject(t)
       PROVE  count' = count /\ \A u \in Threads \ {Main} : pc'[u] = "none" => pc[u] = "none"
  BY <1>1, <1>15 DEF StartThread, EndLoop, TurnOnObject
<1>16. \/ Construct \/ BeginInit \/ Read \/ EndInit
       \/ count' = count /\ pc' = pc
       \/ \E t \in Threads : \/ OpenLibrary(t) \/ TurnOnChannel(t)
                             \/ StartThread(t) \/ EndLoop(t) \/ TurnOnObject(t)
       \/ \E c \in OffBefore : TurnOffBefore(c)
       \/ \E c \in Toggled : ChannelOff(c) \/ ChannelOn(c)
  BY DEF Next, vars, ConstructFatal, ReadOverride, ToggleObject
<1> QED
  BY <1>6, <1>7, <1>8, <1>9, <1>10, <1>11, <1>12, <1>13, <1>14, <1>15, <1>16

\* The override file is read with the counters of the first one.
LEMMA OverrideReads ==
  ASSUME NEW s, Paired(s)
  PROVE  LET u == [s EXCEPT !.file = 2, !.didReset = FALSE]
         IN /\ Paired(u) /\ OnlyChanges(s, u, {"file", "didReset"})
            /\ u.file = 2 /\ u.didReset = FALSE
<1> DEFINE a == Put(s, "file", 2)
           u == Put(a, "didReset", FALSE)
<1>1. [s EXCEPT !.file = 2, !.didReset = FALSE] = u
  BY Zenon DEF Put
<1>2. s \in RcStates /\ "file" \in Fields /\ "didReset" \in Fields /\ 2 \in 1 .. 2
  BY DEF Paired, Sound, Fields
<1>3. a \in RcStates /\ u \in RcStates
  BY <1>2, PutType
<1>4. ASSUME NEW t \in RcStates, NEW f \in Fields, NEW v
      PROVE  Put(t, f, v)[f] = v /\ \A g \in Fields : g # f => Put(t, f, v)[g] = t[g]
  BY PutField
<1> HIDE DEF u, a
<1>5. a["file"] = 2 /\ \A g \in Fields : g # "file" => a[g] = s[g]
  BY <1>2, <1>4 DEF a
<1>6. u["didReset"] = FALSE /\ \A g \in Fields : g # "didReset" => u[g] = a[g]
  <2>1. ASSUME NEW v
        PROVE  /\ Put(a, "didReset", v)["didReset"] = v
               /\ \A g \in Fields : g # "didReset" => Put(a, "didReset", v)[g] = a[g]
    BY <1>2, <1>3, <1>4
  <2>2. /\ Put(a, "didReset", FALSE)["didReset"] = FALSE
        /\ \A g \in Fields : g # "didReset" => Put(a, "didReset", FALSE)[g] = a[g]
    BY <2>1, Zenon
  <2> QED
    BY <2>2, Zenon DEF u
<1>7. OnlyChanges(s, u, {"file", "didReset"}) /\ u.file = 2 /\ u.didReset = FALSE
  BY <1>2, <1>5, <1>6 DEF OnlyChanges
<1>8. u.count = s.count /\ u.rcfileOn = s.rcfileOn /\ u.saved = s.saved /\ u.ended = s.ended
  BY <1>7 DEF OnlyChanges, Fields
<1>9. Paired(u)
  BY <1>3, <1>8 DEF Paired, Sound
<1> QED
  BY <1>1, <1>7, <1>9, Zenon DEF u, a

\* Every step keeps the reader from a core dump and its counters those of the main thread.
LEMMA ReadingKept ==
  ASSUME RegistryOK, PhasesOK, CountsOK, ReadingOK, [Next]_vars
  PROVE  ReadingOK'
<1>1. /\ Main \in Threads /\ pc \in [Threads -> Phases] /\ count \in [Threads -> [Channels -> Int]]
      /\ \A t \in Threads \ {Main} : pc[Main] # "ready" => pc[t] = "none"
  BY ThreadsAssumption DEF PhasesOK, CountsOK
<1>2. CASE BeginInit
  <2>1. Paired(rc') /\ rc'.file = 1 /\ rc'.ended = "" /\ count' = [count EXCEPT ![Main] = rc'.count]
    BY <1>2, BeginInitReads, Zenon
  <2>2. configuration' \in Configurations /\ pc' = [pc EXCEPT ![Main] = "reading"] /\ line' = line
    BY <1>2 DEF BeginInit
  <2>3. Len(configuration') \in 1 .. 2
    BY <2>2, ConfigurationsAssumption DEF IsSequence
  <2>4. count'[Main] = rc'.count /\ pc'[Main] = "reading"
    BY <1>1, <2>1, <2>2
  <2>5. rc'.file <= Len(configuration')
    <3>1. 1 <= Len(configuration')
      BY <2>3
    <3> QED
      BY <2>1, <3>1, Zenon
  <2>6. rc'.ended # "core" /\ line' \in Nat
    BY <2>1, <2>2 DEF ReadingOK
  <2> QED
    BY <2>1, <2>2, <2>4, <2>5, <2>6, Zenon DEF ReadingOK
<1>3. CASE Read
  <2>1. Paired(rc') /\ rc'.file = rc.file /\ count' = [count EXCEPT ![Main] = rc'.count] /\ line' = line + 1
    BY <1>3, LineIsRead, Zenon
  <2>2. configuration' = configuration /\ pc' = pc /\ pc[Main] = "reading"
    BY <1>3 DEF Read
  <2>3. count'[Main] = rc'.count
    BY <1>1, <2>1
  <2>4. rc'.ended # "core"
    BY <2>1 DEF Paired
  <2>5. line' \in Nat
    BY <2>1 DEF ReadingOK
  <2> QED
    BY <2>1, <2>2, <2>3, <2>4, <2>5 DEF ReadingOK
<1>4. CASE ReadOverride
  <2>1. /\ pc[Main] = "reading" /\ pc' = pc /\ rc' = [rc EXCEPT !.file = 2, !.didReset = FALSE]
        /\ line' = 0 /\ count' = count /\ configuration' = configuration /\ rc.file < Len(configuration)
    BY <1>4 DEF ReadOverride
  <2>2. /\ Paired(rc) /\ rc.count = count[Main] /\ configuration \in Configurations
    BY <2>1 DEF ReadingOK
  <2>3. Paired(rc') /\ OnlyChanges(rc, rc', {"file", "didReset"}) /\ rc'.file = 2
    BY <2>1, <2>2, OverrideReads, Zenon
  <2>4. rc'.count = rc.count
    BY <2>3 DEF OnlyChanges, Fields
  <2>5. 2 <= Len(configuration)
    <3>1. rc.file \in 1 .. 2
      BY <2>2, FieldTypes DEF Paired, Sound, FieldsOf
    <3>2. Len(configuration) \in 1 .. 2
      BY <2>2, ConfigurationsAssumption DEF IsSequence
    <3> QED
      BY <2>1, <3>1, <3>2
  <2>6. rc'.ended # "core" /\ rc'.file <= Len(configuration) /\ line' \in Nat
    BY <2>1, <2>3, <2>5 DEF Paired
  <2> QED
    BY <2>1, <2>2, <2>3, <2>4, <2>6 DEF ReadingOK
<1>5. CASE EndInit
  <2>1. rc'.ended = ""
    BY <1>5, EndInitReads, Zenon
  <2>2. pc' = [pc EXCEPT ![Main] = "loop"] /\ line' = line
    BY <1>5 DEF EndInit
  <2> QED
    BY <1>1, <2>1, <2>2 DEF ReadingOK
<1>6. CASE UNCHANGED vars
  BY <1>6 DEF vars, ReadingOK
<1>7. ASSUME rc' = rc, line' = line, pc' = pc, pc[Main] # "reading" PROVE ReadingOK'
  BY <1>7 DEF ReadingOK
<1>8. ASSUME NEW t \in Threads, StartThread(t) \/ EndLoop(t) \/ TurnOnObject(t)
      PROVE  ReadingOK'
  <2>1. rc' = rc /\ line' = line
    BY <1>8 DEF StartThread, EndLoop, TurnOnObject
  <2>2. pc[t] \notin {"reading", "constructors"} /\ pc[Main] \notin {"reading", "constructors"}
    BY <1>1, <1>8 DEF StartThread, EndLoop, TurnOnObject
  <2>3. \A u \in Threads : pc'[u] = pc[u] \/ pc'[u] \in {"loop", "object", "ready"}
    BY <1>1, <1>8 DEF StartThread, EndLoop, TurnOnObject
  <2> QED
    BY <1>1, <2>1, <2>2, <2>3 DEF ReadingOK
<1>9. ASSUME NEW t \in Threads, OpenLibrary(t) \/ TurnOnChannel(t) PROVE ReadingOK'
  <2>1. rc' = rc /\ line' = line /\ pc' = pc /\ pc[t] \in {"ready", "loop"}
    BY <1>9 DEF OpenLibrary, TurnOnChannel
  <2> QED
    BY <1>1, <1>7, <2>1
<1>10. ASSUME Construct \/ ConstructFatal \/ (\E c \in OffBefore : TurnOffBefore(c))
              \/ (\E c \in Toggled : ChannelOff(c) \/ ChannelOn(c)) \/ ToggleObject
       PROVE  ReadingOK'
  <2>1. rc' = rc /\ line' = line /\ pc' = pc /\ pc[Main] \in {"constructors", "ready"}
    BY <1>10 DEF Construct, ConstructFatal, TurnOffBefore, ChannelOff, ChannelOn, ToggleObject
  <2> QED
    BY <1>7, <2>1
<1> QED
  BY <1>2, <1>3, <1>4, <1>5, <1>6, <1>8, <1>9, <1>10 DEF Next

\* A step that leaves a thread alone keeps what it copied, as long as it has seen
\* the step.
LEMMA CopiesAlone ==
  ASSUME NEW t \in Threads, Copies(t), pc'[t] = pc[t], at'[t] = at[t], objectOff'[t] = objectOff[t],
         \A c \in BeforeMain : count'[t][c] = count[t][c],
         pc[t] = "loop" => visible' = visible,
         window[t].on \subseteq window'[t].on, window[t].off \subseteq window'[t].off,
         window[t].object \subseteq window'[t].object,
         Copying(t) => /\ \A c \in BeforeMain : c \in IF count'[Main][c] < 0 THEN window'[t].on ELSE window'[t].off
                       /\ objectOff'[Main] \in window'[t].object
  PROVE  Copies(t)'
<1>1. Copying(t)' <=> Copying(t)
  BY DEF Copying
<1>2. Copying(t)' => /\ \A c \in BeforeMain : c \in IF count'[Main][c] < 0 THEN window'[t].on ELSE window'[t].off
                     /\ objectOff'[Main] \in window'[t].object
  BY <1>1
<1>3. ASSUME pc[t] # "none", NEW c \in BeforeMain \ {Rcfile}
      PROVE  IF count'[t][c] < 0 THEN c \in window'[t].on
             ELSE \/ c \in window'[t].off
                  \/ pc'[t] = "loop" /\ \E i \in at'[t] .. Len(visible') : visible'[i] = c
  BY <1>3 DEF Copies
<1>4. pc[t] = "ready" => objectOff'[t] \in window'[t].object
  BY DEF Copies
<1> QED
  BY <1>2, <1>3, <1>4 DEF Copies

\* A step that changes nothing of a thread, nor of what it copies, changes no copy.
LEMMA CopiesUnseen ==
  ASSUME NEW t \in Threads, Copies(t), pc'[t] = pc[t], at'[t] = at[t], objectOff'[t] = objectOff[t],
         \A c \in BeforeMain : count'[t][c] = count[t][c] /\ count'[Main][c] = count[Main][c],
         pc[t] = "loop" => visible' = visible,
         window'[t] = window[t], objectOff'[Main] = objectOff[Main]
  PROVE  Copies(t)'
<1>1. Copying(t) => /\ \A c \in BeforeMain : c \in IF count'[Main][c] < 0 THEN window'[t].on ELSE window'[t].off
                    /\ objectOff'[Main] \in window'[t].object
  BY DEF Copies
<1> QED
  BY <1>1, CopiesAlone

\* A thread that starts has copied nothing yet.
LEMMA StartCopies ==
  ASSUME RegistryOK, PhasesOK, PlacesOK, CountsOK, ObjectsOK, NEW t \in Threads \ {Main}, StartThread(t),
         mode'[t] = "copy_from_main"
  PROVE  Copies(t)'
<1> DEFINE w == [on |-> {c \in Channels : count[Main][c] < 0},
                 off |-> {c \in Channels : count[Main][c] >= 0},
                 object |-> {objectOff[Main]}]
<1>1. /\ pc[t] = "none" /\ pc[Main] = "ready"
      /\ count' = count /\ objectOff' = objectOff /\ visible' = visible /\ at' = at
      /\ window' = [window EXCEPT ![t] = w]
  BY Zenon DEF StartThread, registry
<1>2. PICK m \in ThreadModes :
        /\ mode' = [mode EXCEPT ![t] = m]
        /\ pc' = [pc EXCEPT ![t] = IF m = "debug_off" THEN "object" ELSE "loop"]
  BY DEF StartThread
<1>3. pc'[t] = "loop"
  BY <1>2 DEF PhasesOK
<1>4. /\ w \in Windows /\ objectOff[Main] \in w.object
      /\ \A c \in Channels : c \in IF count[Main][c] < 0 THEN w.on ELSE w.off
  BY StartsWindow, Zenon DEF CountsOK, ObjectsOK
<1> HIDE DEF w
<1>5. window'[t] = w
  BY <1>1 DEF PhasesOK
<1>6. ASSUME NEW c \in BeforeMain \ {Rcfile}
      PROVE  count[t][c] = 0 /\ \E i \in 1 .. Len(visible) : visible[i] = c
  <2>1. count[t][c] = 0
    BY <1>1, <1>6 DEF CountsOK
  <2>2. c \in ToSet(visible)
    BY <1>1, <1>6, ListedBeforeMain DEF PhasesOK
  <2>3. DOMAIN visible = 1 .. Len(visible)
    BY DEF RegistryOK
  <2> QED
    BY <2>1, <2>2, <2>3 DEF ToSet
<1>7. at[t] = 1
  BY <1>1 DEF PlacesOK
<1>8. \A c \in BeforeMain : c \in IF count'[Main][c] < 0 THEN window'[t].on ELSE window'[t].off
  BY <1>1, <1>4, <1>5, RegistrationAssumption
<1>9. objectOff'[Main] \in window'[t].object
  BY <1>1, <1>4, <1>5
<1>10. ASSUME NEW c \in BeforeMain \ {Rcfile}
       PROVE  /\ ~ (count'[t][c] < 0)
              /\ pc'[t] = "loop" /\ \E i \in at'[t] .. Len(visible') : visible'[i] = c
  BY <1>1, <1>3, <1>6, <1>7, <1>10
<1> QED
  BY <1>3, <1>8, <1>9, <1>10 DEF Copies

\* A thread that copies a channel copies what it sees of the main thread.
LEMMA TurnOnCopies ==
  ASSUME RegistryOK, PhasesOK, PlacesOK, CountsOK, NEW t \in Threads \ {Main}, TurnOnChannel(t),
         mode[t] = "copy_from_main", Copies(t)
  PROVE  Copies(t)'
<1> DEFINE c == visible[at[t]]
<1>1. /\ pc[t] = "loop" /\ pc' = pc /\ at[t] <= Len(visible) /\ visible' = visible
      /\ objectOff' = objectOff /\ window' = window /\ at' = [at EXCEPT ![t] = at[t] + 1]
  BY DEF TurnOnChannel, registry
<1>2. count' = IF count[t][c] >= 0 /\ count[Main][c] < 0 THEN [count EXCEPT ![t][c] = count[t][c] - 1] ELSE count
  <2>1. Wanted(t, c) <=> count[Main][c] < 0
    BY DEF Wanted
  <2>2. count' = IF count[t][c] >= 0 /\ Wanted(t, c) THEN [count EXCEPT ![t][c] = count[t][c] - 1] ELSE count
    BY Zenon DEF TurnOnChannel
  <2> QED
    BY <2>1, <2>2, Zenon
<1>3. /\ at[t] \in 1 .. Len(visible) /\ at'[t] = at[t] + 1 /\ Len(visible) \in Nat
      /\ c \in Channels \ {Rcfile} /\ Main \in Threads
      /\ count \in [Threads -> [Channels -> Int]]
  BY <1>1, ThreadsAssumption DEF PlacesOK, CountsOK, RegistryOK
<1>4. Copying(t) /\ Copying(t)'
  BY <1>1 DEF Copying
<1>5. /\ \A d \in Channels : count'[Main][d] = count[Main][d]
      /\ \A d \in Channels : d # c => count'[t][d] = count[t][d]
      /\ count'[t][c] = IF count[t][c] >= 0 /\ count[Main][c] < 0 THEN count[t][c] - 1 ELSE count[t][c]
  <2> HIDE DEF c
  <2>1. c \in Channels /\ t \in Threads /\ t # Main
    BY <1>3
  <2>2. CASE count[t][c] >= 0 /\ count[Main][c] < 0
    <3>1. count' = [count EXCEPT ![t][c] = count[t][c] - 1]
      BY <1>2, <2>2
    <3> DEFINE x == count[t][c] - 1
    <3>2. count' = [count EXCEPT ![t][c] = x]
      BY <3>1
    <3> HIDE DEF x
    <3>3. count'[t][c] = x /\ \A d \in Channels : count'[Main][d] = count[Main][d] /\ (d # c => count'[t][d] = count[t][d])
      BY <1>3, <2>1, <3>2
    <3> QED
      BY <2>2, <3>3 DEF x
  <2>3. CASE ~ (count[t][c] >= 0 /\ count[Main][c] < 0)
    <3>1. count' = count
      BY <1>2, <2>3
    <3> QED
      BY <2>3, <3>1
  <2> QED
    BY <2>2, <2>3
<1>6. \A d \in BeforeMain : d \in Channels
  BY RegistrationAssumption
<1>7. \A d \in BeforeMain : d \in IF count[Main][d] < 0 THEN window[t].on ELSE window[t].off
  BY <1>4 DEF Copies
<1>8. ASSUME NEW d \in BeforeMain \ {Rcfile}
      PROVE  IF count'[t][d] < 0 THEN d \in window[t].on
             ELSE d \in window[t].off \/ \E i \in at[t] + 1 .. Len(visible) : visible[i] = d
  <2>1. IF count[t][d] < 0 THEN d \in window[t].on
        ELSE d \in window[t].off \/ \E i \in at[t] .. Len(visible) : visible[i] = d
    BY <1>1, <1>8 DEF Copies
  <2>2. CASE d # c
    <3>1. count'[t][d] = count[t][d]
      BY <1>5, <1>6, <2>2
    <3>2. \A i \in at[t] .. Len(visible) : visible[i] = d => i \in at[t] + 1 .. Len(visible)
      BY <1>3, <2>2
    <3> QED
      BY <2>1, <3>1, <3>2
  <2>3. CASE d = c
    <3>1. count[t][d] \in {-1, 0} /\ d \in IF count[Main][d] < 0 THEN window[t].on ELSE window[t].off
      BY <1>7, <1>8 DEF CountsOK
    <3>2. count'[t][d] = IF count[t][d] >= 0 /\ count[Main][d] < 0 THEN count[t][d] - 1 ELSE count[t][d]
      BY <1>5, <2>3
    <3> HIDE DEF c
    <3>3. CASE count[t][d] = -1
      BY <2>1, <3>2, <3>3
    <3>4. CASE count[t][d] = 0
      BY <3>1, <3>2, <3>4
    <3> QED
      BY <3>1, <3>3, <3>4
  <2> QED
    BY <2>2, <2>3
<1>9. \A d \in BeforeMain : d \in IF count'[Main][d] < 0 THEN window'[t].on ELSE window'[t].off
  BY <1>1, <1>5, <1>6, <1>7
<1>10. objectOff'[Main] \in window'[t].object
  BY <1>1, <1>4 DEF Copies
<1> HIDE DEF c
<1>11. ASSUME NEW d \in BeforeMain \ {Rcfile}
       PROVE  IF count'[t][d] < 0 THEN d \in window'[t].on
              ELSE \/ d \in window'[t].off
                   \/ pc'[t] = "loop" /\ \E i \in at'[t] .. Len(visible') : visible'[i] = d
  BY <1>1, <1>3, <1>8, <1>11
<1> QED
  BY <1>1, <1>9, <1>10, <1>11 DEF Copies

\* A thread sees what the main thread turns on and off while it copies.
LEMMA TogglesCopy ==
  ASSUME PhasesOK, CountsOK, ObjectsOK, NEW t \in Threads \ {Main}, Copies(t),
         ToggleObject \/ \E c \in Toggled : ChannelOff(c) \/ ChannelOn(c)
  PROVE  Copies(t)'
<1>1. /\ Main \in Threads /\ window \in [Threads -> Windows] /\ BeforeMain \subseteq Channels
      /\ count \in [Threads -> [Channels -> Int]] /\ objectOff \in [Threads -> {-1, 0}]
  BY ThreadsAssumption, RegistrationAssumption DEF PhasesOK, CountsOK, ObjectsOK
<1>2. pc' = pc /\ at' = at /\ visible' = visible
  BY DEF ToggleObject, ChannelOff, ChannelOn, registry
<1>3. Copying(t) => /\ \A c \in BeforeMain : c \in IF count[Main][c] < 0 THEN window[t].on ELSE window[t].off
                    /\ objectOff[Main] \in window[t].object
  BY DEF Copies
<1>4. CASE ToggleObject
  <2> DEFINE x == -1 - objectOff[Main]
  <2>1. count' = count /\ objectOff' = [objectOff EXCEPT ![Main] = x] /\ window' = Seen("object", x)
    BY <1>4 DEF ToggleObject
  <2>2. x \in Int
    BY <1>1
  <2> HIDE DEF x
  <2>3. /\ window[t].on \subseteq window'[t].on /\ window[t].off \subseteq window'[t].off
        /\ window[t].object \subseteq window'[t].object
        /\ Copying(t) => x \in window'[t].object
    BY <1>1, <2>1, <2>2, SeenInWindow
  <2>4. objectOff'[Main] = x /\ objectOff'[t] = objectOff[t]
    BY <1>1, <2>1
  <2>5. Copying(t) => /\ \A c \in BeforeMain : c \in IF count'[Main][c] < 0 THEN window'[t].on ELSE window'[t].off
                      /\ objectOff'[Main] \in window'[t].object
    BY <1>3, <2>1, <2>3, <2>4
  <2> QED
    BY <1>2, <2>1, <2>3, <2>4, <2>5, CopiesAlone
<1>5. ASSUME NEW c \in Toggled, ChannelOff(c) \/ ChannelOn(c) PROVE Copies(t)'
  <2>1. c \in Channels /\ objectOff' = objectOff
    BY <1>5, RegistrationAssumption DEF ChannelOff, ChannelOn
  <2>2. count[Main][c] \in Int /\ count[Main][c] >= -1
    BY <1>1, <2>1 DEF CountsOK
  <2> DEFINE up == count[Main][c] + 1
             down == count[Main][c] - 1
  <2>3. \/ count[Main][c] <= 0 /\ count' = [count EXCEPT ![Main][c] = up] /\ window' = Seen("off", c)
        \/ /\ count[Main][c] >= 0 /\ count' = [count EXCEPT ![Main][c] = down]
           /\ window' = IF count[Main][c] = 0 THEN Seen("on", c) ELSE window
    BY <1>5, Zenon DEF ChannelOff, ChannelOn
  <2>4. PICK x \in Int : /\ count' = [count EXCEPT ![Main][c] = x]
                         /\ \/ x >= 0 /\ window' = Seen("off", c)
                            \/ x = -1 /\ window' = Seen("on", c)
                            \/ x >= 0 /\ count[Main][c] >= 0 /\ window' = window
    <3>1. up \in Int /\ up >= 0 /\ down \in Int
      BY <2>2
    <3>2. CASE count[Main][c] <= 0 /\ count' = [count EXCEPT ![Main][c] = up] /\ window' = Seen("off", c)
      <4> HIDE DEF up
      <4> QED
        BY <3>1, <3>2
    <3>3. CASE /\ count[Main][c] >= 0 /\ count' = [count EXCEPT ![Main][c] = down]
               /\ window' = IF count[Main][c] = 0 THEN Seen("on", c) ELSE window
      <4>1. IF count[Main][c] = 0 THEN down = -1 ELSE down >= 0
        BY <2>2, <3>3
      <4> HIDE DEF down
      <4> QED
        BY <3>1, <3>3, <4>1
    <3> QED
      BY <2>3, <3>2, <3>3
  <2>5. count'[t] = count[t] /\ count'[Main][c] = x /\ \A d \in Channels : d # c => count'[Main][d] = count[Main][d]
    BY <1>1, <2>1, <2>4
  <2>6. /\ window[t].on \subseteq window'[t].on /\ window[t].off \subseteq window'[t].off
        /\ window[t].object \subseteq window'[t].object
        /\ window' = Seen("off", c) => (Copying(t) => c \in window'[t].off)
        /\ window' = Seen("on", c) => (Copying(t) => c \in window'[t].on)
    <3>1. CASE window' = window
      <4>1. \A f \in {"on", "off"} : window' = Seen(f, c) => (Copying(t) => c \in window'[t][f])
        BY <1>1, <2>1, SeenInWindow
      <4> QED
        BY <3>1, <4>1
    <3>2. CASE window' = Seen("off", c)
      <4>1. \A f \in {"on", "off"} : window' = Seen(f, c) => (Copying(t) => c \in window'[t][f])
        BY <1>1, <2>1, SeenInWindow
      <4> QED
        BY <1>1, <2>1, <3>2, <4>1, SeenInWindow
    <3>3. CASE window' = Seen("on", c)
      <4>1. \A f \in {"on", "off"} : window' = Seen(f, c) => (Copying(t) => c \in window'[t][f])
        BY <1>1, <2>1, SeenInWindow
      <4> QED
        BY <1>1, <2>1, <3>3, <4>1, SeenInWindow
    <3> QED
      BY <2>4, <3>1, <3>2, <3>3
  <2>7. ASSUME Copying(t), NEW d \in BeforeMain
        PROVE  d \in IF count'[Main][d] < 0 THEN window'[t].on ELSE window'[t].off
    <3>1. d \in Channels /\ d \in IF count[Main][d] < 0 THEN window[t].on ELSE window[t].off
      BY <1>1, <1>3, <2>7
    <3>2. CASE d # c
      BY <2>5, <2>6, <3>1, <3>2
    <3>3. CASE d = c
      <4>1. c \in IF count[Main][c] < 0 THEN window[t].on ELSE window[t].off
        BY <3>1, <3>3
      <4>2. CASE x >= 0 /\ window' = Seen("off", c)
        BY <2>5, <2>6, <2>7, <3>3, <4>2
      <4>3. CASE x = -1 /\ window' = Seen("on", c)
        BY <2>5, <2>6, <2>7, <3>3, <4>3
      <4>4. CASE x >= 0 /\ count[Main][c] >= 0 /\ window' = window
        <5>1. c \in window[t].off
          BY <2>2, <4>1, <4>4
        <5> QED
          BY <2>5, <3>3, <4>4, <5>1
      <4> QED
        BY <2>4, <4>2, <4>3, <4>4
    <3> QED
      BY <3>2, <3>3
  <2>8. objectOff'[Main] = objectOff[Main] /\ objectOff'[t] = objectOff[t]
    BY <2>1
  <2>9. Copying(t) => /\ \A d \in BeforeMain : d \in IF count'[Main][d] < 0 THEN window'[t].on ELSE window'[t].off
                      /\ objectOff'[Main] \in window'[t].object
    BY <1>3, <2>6, <2>7, <2>8
  <2> QED
    BY <1>2, <2>5, <2>6, <2>8, <2>9, CopiesAlone
<1> QED
  BY <1>4, <1>5

\* Every step keeps what the threads copied between what they saw.
LEMMA CopiesKept ==
  ASSUME IInv, [Next]_vars
  PROVE  CopiesOK'
<1> SUFFICES ASSUME NEW t \in Threads \ {Main}, mode'[t] = "copy_from_main" PROVE Copies(t)'
  BY DEF CopiesOK
<1>1. /\ Main \in Threads /\ pc \in [Threads -> Phases] /\ BeforeMain \subseteq Channels
      /\ mode \in [Threads -> {MainMode} \cup ThreadModes]
      /\ count \in [Threads -> [Channels -> Int]] /\ objectOff \in [Threads -> {-1, 0}]
      /\ at \in [Threads -> Nat] /\ window \in [Threads -> Windows]
      /\ RegistryOK /\ PhasesOK /\ PlacesOK /\ CountsOK /\ ObjectsOK
  BY ThreadsAssumption, RegistrationAssumption DEF IInv, PhasesOK, CountsOK, ObjectsOK, PlacesOK
<1>2. /\ pc[t] \notin {"constructors", "reading"} /\ (pc[Main] # "ready" => pc[t] = "none")
      /\ pc[Main] # "constructors" => BeforeMain \subseteq Registered
  BY <1>1 DEF PhasesOK
<1>3. CASE StartThread(t)
  BY <1>1, <1>3, StartCopies
<1>4. ASSUME pc'[t] = "none" PROVE Copies(t)'
  BY <1>4 DEF Copies, Copying
<1>5. CASE pc[t] = "none" /\ ~ StartThread(t)
  <2>1. pc'[t] = "none"
    <3>1. \/ pc' = pc \/ BeginInit \/ EndInit
          \/ \E u \in Threads : StartThread(u) \/ EndLoop(u) \/ TurnOnObject(u)
      BY DEF Next, vars, Construct, ConstructFatal, TurnOffBefore, Read, ReadOverride, OpenLibrary,
             TurnOnChannel, ChannelOff, ChannelOn, ToggleObject
    <3>2. CASE BeginInit \/ EndInit
      BY <1>1, <1>5, <3>2 DEF BeginInit, EndInit
    <3>3. ASSUME NEW u \in Threads, StartThread(u) \/ EndLoop(u) \/ TurnOnObject(u) PROVE pc'[t] = "none"
      <4>1. u # t
        BY <1>5, <3>3 DEF EndLoop, TurnOnObject
      <4> QED
        BY <1>1, <1>5, <3>3, <4>1 DEF StartThread, EndLoop, TurnOnObject
    <3> QED
      BY <1>5, <3>1, <3>2, <3>3
  <2> QED
    BY <1>4, <2>1
<1>6. CASE pc[t] # "none" /\ ~ StartThread(t)
  <2>1. pc[Main] = "ready" /\ BeforeMain \subseteq Registered
    BY <1>2, <1>6
  <2>2. mode'[t] = mode[t]
    <3>1. mode' = mode \/ \E u \in Threads : StartThread(u)
      BY DEF Next, vars, Construct, ConstructFatal, TurnOffBefore, BeginInit, Read, ReadOverride, EndInit,
             OpenLibrary, TurnOnChannel, EndLoop, TurnOnObject, ChannelOff, ChannelOn, ToggleObject
    <3>2. ASSUME NEW u \in Threads, StartThread(u) PROVE mode'[t] = mode[t]
      <4>1. u # t
        BY <1>6, <3>2
      <4> QED
        BY <1>1, <3>2, <4>1 DEF StartThread
    <3> QED
      BY <3>1, <3>2
  <2>3. Copies(t) /\ mode[t] = "copy_from_main"
    BY <2>2 DEF IInv, CopiesOK
  <2>4. ASSUME NEW u \in Threads, OpenLibrary(u) PROVE Copies(t)'
    <3>1. PICK c \in Late : InitializeChannel(u, c)
      BY <2>4 DEF OpenLibrary
    <3>2. c \in Channels /\ c \notin BeforeMain /\ count' = [count EXCEPT ![u][c] = DefaultCount(c)]
      BY <2>1, <3>1, RegistrationAssumption DEF InitializeChannel
    <3>3. ASSUME NEW d \in BeforeMain PROVE count'[t][d] = count[t][d] /\ count'[Main][d] = count[Main][d]
      <4>1. d \in Channels /\ d # c
        BY <1>1, <3>2
      <4> DEFINE x == DefaultCount(c)
      <4>2. count' = [count EXCEPT ![u][c] = x]
        BY <3>2
      <4> HIDE DEF x
      <4> QED
        BY <1>1, <3>2, <4>1, <4>2
    <3>4. pc[t] # "loop"
      BY <3>1 DEF InitializeChannel
    <3>5. pc' = pc /\ at' = at /\ objectOff' = objectOff /\ window' = window
      BY <2>4 DEF OpenLibrary
    <3> QED
      BY <2>3, <3>3, <3>4, <3>5, CopiesUnseen
  <2>5. ASSUME NEW u \in Threads, u # t, StartThread(u) PROVE Copies(t)'
    <3>1. /\ count' = count /\ objectOff' = objectOff /\ visible' = visible /\ at' = at
          /\ window'[t] = window[t] /\ pc'[t] = pc[t]
      BY <1>1, <2>5 DEF StartThread, registry
    <3> QED
      BY <2>3, <3>1, CopiesUnseen
  <2>6. CASE TurnOnChannel(t)
    BY <1>1, <2>3, <2>6, TurnOnCopies
  <2>7. ASSUME NEW u \in Threads, u # t, TurnOnChannel(u) PROVE Copies(t)'
    <3>1. u # Main /\ pc' = pc /\ visible' = visible /\ objectOff' = objectOff /\ window' = window
      BY <2>1, <2>7 DEF TurnOnChannel, registry
    <3>2. at'[t] = at[t]
      BY <1>1, <2>7 DEF TurnOnChannel
    <3>3. count'[t] = count[t] /\ count'[Main] = count[Main]
      BY <1>1, <2>7, <3>1 DEF TurnOnChannel
    <3> QED
      BY <2>3, <3>1, <3>2, <3>3, CopiesUnseen
  <2>8. ASSUME NEW u \in Threads, u # t, EndLoop(u) \/ TurnOnObject(u) PROVE Copies(t)'
    <3>1. u # Main /\ visible' = visible /\ window' = window /\ count' = count /\ at' = at
      BY <2>1, <2>8 DEF EndLoop, TurnOnObject, registry
    <3>2. pc'[t] = pc[t] /\ objectOff'[t] = objectOff[t] /\ objectOff'[Main] = objectOff[Main]
      BY <1>1, <2>8, <3>1 DEF EndLoop, TurnOnObject
    <3> QED
      BY <2>3, <3>1, <3>2, CopiesUnseen
  <2>9. CASE EndLoop(t)
    <3>1. /\ pc[t] = "loop" /\ at[t] > Len(visible) /\ pc'[t] = "object" /\ visible' = visible
          /\ window' = window /\ count' = count /\ at' = at /\ objectOff' = objectOff
      BY <1>1, <2>9 DEF EndLoop, registry
    <3>2. at[t] \in Nat /\ Len(visible) \in Nat
      BY <1>1 DEF RegistryOK
    <3>3. at[t] .. Len(visible) = {}
      BY <3>1, <3>2
    <3>4. Copying(t)
      BY <3>1 DEF Copying
    <3> QED
      BY <1>6, <2>3, <3>1, <3>3, <3>4 DEF Copies
  <2>10. CASE TurnOnObject(t)
    <3>1. /\ pc[t] = "object" /\ pc'[t] = "ready" /\ window' = window /\ count' = count
          /\ objectOff' = IF objectOff[Main] # -1 THEN objectOff ELSE [objectOff EXCEPT ![t] = objectOff[t] - 1]
      BY <1>1, <2>3, <2>10 DEF TurnOnObject
    <3>2. Copying(t) /\ objectOff[t] = 0 /\ objectOff[Main] \in {-1, 0}
      BY <1>1, <3>1 DEF Copying, ObjectsOK
    <3>3. objectOff[t] - 1 = -1
      BY <3>2
    <3>4. objectOff'[t] = objectOff[Main]
      BY <1>1, <3>1, <3>2, <3>3
    <3>5. objectOff'[t] \in window'[t].object
      BY <2>3, <3>1, <3>2, <3>4 DEF Copies
    <3> QED
      BY <1>6, <2>3, <3>1, <3>5 DEF Copies, Copying
  <2>11. CASE ToggleObject \/ \E c \in Toggled : ChannelOff(c) \/ ChannelOn(c)
    BY <1>1, <2>3, <2>11, TogglesCopy
  <2>12. CASE UNCHANGED vars
    BY <2>3, <2>12, CopiesUnseen DEF vars, registry
  <2>13. ~ (Construct \/ ConstructFatal \/ (\E c \in OffBefore : TurnOffBefore(c))
            \/ BeginInit \/ Read \/ ReadOverride \/ EndInit)
    BY <2>1 DEF Construct, ConstructFatal, TurnOffBefore, BeginInit, Read, ReadOverride, EndInit
  <2> QED
    BY <1>6, <2>4, <2>5, <2>6, <2>7, <2>8, <2>9, <2>10, <2>11, <2>12, <2>13 DEF Next
<1> QED
  BY <1>3, <1>5, <1>6

\* The invariant holds always: whatever the order of the constructors, the lines of
\* the files, the threads that start and the libraries that they open.
THEOREM Inductive == Spec => []IInv
<1>1. IInv /\ [Next]_vars => IInv'
  <2> SUFFICES ASSUME IInv, [Next]_vars PROVE IInv'
    OBVIOUS
  <2>1. RegistryOK'
    BY RegistryKept DEF IInv
  <2>2. PhasesOK' /\ PlacesOK' /\ CountsOK' /\ ObjectsOK' /\ ReadingOK'
    BY PhasesKept, PlacesKept, CountsKept, ObjectsKept, ReadingKept DEF IInv
  <2>3. CopiesOK'
    BY CopiesKept
  <2> QED
    BY <2>1, <2>2, <2>3 DEF IInv
<1> QED
  BY <1>1, InitInv, PTL DEF Spec

\* The list of channels holds each once, no label is longer than the
\* width, and no counter gets below -1: on() and off() of debug.cxx.
THEOREM Typed == Spec => []TypeOK
<1>1. IInv => TypeOK
  <2> SUFFICES ASSUME IInv PROVE TypeOK
    OBVIOUS
  <2>1. /\ visible \in Seq(Channels \ {Rcfile}) /\ IsInjective(visible)
        /\ hidden \subseteq {Rcfile}
        /\ \A c \in Registered : Len(Label(c)) <= width
    BY DEF IInv, RegistryOK
  <2>2. \A t \in Threads : /\ \A c \in Channels : count[t][c] \in Nat \cup {-1}
                           /\ objectOff[t] \in {-1, 0}
    BY DEF IInv, CountsOK, ObjectsOK
  <2>3. (\A t \in Threads : at[t] \in 1 .. Len(visible) + 1) /\ (pc[Main] = "reading" => rc.count = count[Main])
    BY DEF IInv, PlacesOK, ReadingOK
  <2> QED
    BY <2>1, <2>2, <2>3 DEF TypeOK
<1> QED
  BY <1>1, Inductive, PTL

\* No file makes the reader call on() for a channel that is on or restore() for a
\* dc::rcfile whose off() and on() were not in pairs: rcfile_ct::read() ends without
\* core_dump().
THEOREM NeverDumpsCore == Spec => []NoCoreDump
<1>1. IInv => NoCoreDump
  BY DEF IInv, ReadingOK, NoCoreDump
<1> QED
  BY <1>1, Inductive, PTL

\* A thread that init_thread() lets copy the main thread has every channel on or off,
\* and the debug object, as main had it at some moment while the thread copied.
THEOREM ThreadsCopyMain == Spec => []CopiesMain
<1>1. IInv => CopiesMain
  <2> SUFFICES ASSUME IInv, NEW t \in Threads \ {Main}, pc[t] = "ready", mode[t] = "copy_from_main"
               PROVE  /\ \A c \in BeforeMain \ {Rcfile} :
                           IF count[t][c] < 0 THEN c \in window[t].on ELSE c \in window[t].off
                      /\ objectOff[t] \in window[t].object
    BY DEF CopiesMain
  <2>1. Copies(t)
    BY DEF IInv, CopiesOK
  <2> QED
    BY <2>1 DEF Copies
<1> QED
  BY <1>1, Inductive, PTL

\* find_channel() returns the channel with the greatest label that begins with the
\* abbreviation, in whatever order channels were registered and labels got wider.
THEOREM LargestIsFound == Spec => []FindsLargest
<1>1. IInv => FindsLargest
  <2> SUFFICES ASSUME IInv, NEW a \in Abbreviations
               PROVE  LET found == Find(a)
                          matching == {c \in ToSet(visible) : IsPrefix(a, Label(c))}
                      IN /\ matching # {} => found # {}
                         /\ \A c \in found : c \in matching /\ \A d \in matching : ~ Greater(GetLabel(d), GetLabel(c))
    BY DEF FindsLargest
  <2> DEFINE found == {i \in DOMAIN visible : IsPrefix(a, GetLabel(visible[i]))}
             matching == {c \in ToSet(visible) : IsPrefix(a, Label(c))}
  <2>1. /\ DOMAIN visible = 1 .. Len(visible) /\ Len(visible) \in Nat /\ width \in Nat
        /\ \A i \in DOMAIN visible : visible[i] \in Channels /\ visible[i] \in ToSet(visible)
        /\ \A i \in DOMAIN visible : Len(Label(visible[i])) <= width
        /\ Sorted(visible, width)
    BY DEF IInv, RegistryOK, Registered, ToSet
  <2>2. \A i \in DOMAIN visible : IsPrefix(a, GetLabel(visible[i])) <=> IsPrefix(a, Label(visible[i]))
    BY <2>1, LabelTypes, AbbreviationOfPadded DEF GetLabel
  <2>3. found \in SUBSET (1 .. Len(visible)) /\ \A i \in DOMAIN visible : i \in found <=> IsPrefix(a, Label(visible[i]))
    BY <2>1, <2>2
  <2>4. \A c : c \in matching <=> \E i \in found : c = visible[i]
    BY <2>1, <2>3 DEF ToSet
  <2>5. Find(a) = {visible[i] : i \in {j \in found : \A k \in found : k <= j}}
    BY DEF Find
  <2> HIDE DEF found, matching
  <2>6. ASSUME matching # {} PROVE Find(a) # {}
    <3>1. found # {}
      BY <2>4, <2>6
    <3>2. Max(found) \in found /\ \A k \in found : Max(found) >= k
      BY <2>1, <2>3, <3>1, MaxIsElement
    <3>3. \A k \in found : k \in Int
      BY <2>3
    <3>4. Max(found) \in {j \in found : \A k \in found : k <= j}
      BY <3>2, <3>3
    <3> QED
      BY <2>5, <3>4
  <2>7. ASSUME NEW c \in Find(a), NEW d \in matching
        PROVE  ~ Greater(GetLabel(d), GetLabel(c))
    <3>1. PICK i \in found : c = visible[i] /\ \A k \in found : k <= i
      BY <2>5
    <3>2. PICK k \in found : d = visible[k]
      BY <2>4
    <3>3. k <= i /\ i \in DOMAIN visible /\ k \in DOMAIN visible
      BY <2>1, <2>3, <3>1
    <3>4. ~ Behind(visible[k], visible[i], width)
      <4>1. CASE k < i
        BY <2>1, <3>3, <4>1 DEF Sorted
      <4>2. CASE k = i
        BY <2>1, <3>3, <4>2, BehindIsOrder
      <4> QED
        BY <2>1, <3>3, <4>1, <4>2
    <3> QED
      BY <3>1, <3>2, <3>4 DEF Behind, GetLabel
  <2>8. \A c \in Find(a) : c \in matching
    BY <2>4, <2>5
  <2> QED
    BY <2>6, <2>7, <2>8 DEF matching
<1> QED
  BY <1>1, Inductive, PTL

-----------------------------------------------------------------------------
(***************************************************************************)
(* While init() reads the files the reader has done what the lines say; the *)
(* constructors left dc::warning on or turned off once, as the first line   *)
(* needs it.                                                                *)
(***************************************************************************)
ReadFor == BeforeMain \ {Rcfile}
ConstructedOK ==
  pc[Main] = "constructors" => /\ count[Main][Warning] <= 0
                               /\ \A c \in Channels \ Registered : count[Main][c] = 0
ListedOK ==
  pc[Main] \in {"reading", "loop"} => ToSet(visible) = ReadFor /\ configuration \in Configurations
ReadOK ==
  pc[Main] = "reading" /\ rc.ended = "" => ReadTo(rc, configuration, ReadFor, line)
ConfiguredOK ==
  InitRead => {c \in ToSet(visible) : count[Main][c] < 0} = FilesTurnOn(configuration, ReadFor)
MeantOK == ConstructedOK /\ ListedOK /\ ReadOK /\ ConfiguredOK

\* A label begins with itself.
LEMMA IsPrefixOfItself ==
  ASSUME NEW S, NEW s \in Seq(S)
  PROVE  IsPrefix(s, s)
BY DEF IsPrefix

\* dc::warning starts on.
LEMMA WarningIsOn == DefaultCount(Warning) = -1
<1>1. WarningLabel \in Seq(Letters) /\ Label(Warning) = WarningLabel
  BY LabelsAssumption, ChannelsAssumption DEF Label
<1>2. IsPrefix(Label(Warning), WarningLabel)
  BY <1>1, IsPrefixOfItself
<1> QED
  BY <1>2 DEF DefaultCount

\* The constructors leave the channels as the reader needs them.
LEMMA ConstructedKept ==
  ASSUME IInv, ConstructedOK, [Next]_vars
  PROVE  ConstructedOK'
<1> SUFFICES ASSUME pc'[Main] = "constructors"
             PROVE  /\ count'[Main][Warning] <= 0
                    /\ \A c \in Channels \ Registered' : count'[Main][c] = 0
  BY DEF ConstructedOK
<1>1. /\ Main \in Threads /\ pc \in [Threads -> Phases] /\ count \in [Threads -> [Channels -> Int]]
      /\ \A t \in Threads \ {Main} : pc[Main] # "ready" => pc[t] = "none"
      /\ Warning \in Channels /\ RegistryOK
  BY ThreadsAssumption, ChannelsAssumption DEF IInv, PhasesOK, CountsOK
<1>2. pc[Main] = "constructors"
  <2>1. \/ pc' = pc \/ BeginInit \/ EndInit
        \/ \E t \in Threads : StartThread(t) \/ EndLoop(t) \/ TurnOnObject(t)
    BY DEF Next, vars, Construct, ConstructFatal, TurnOffBefore, Read, ReadOverride, OpenLibrary,
           TurnOnChannel, ChannelOff, ChannelOn, ToggleObject
  <2>2. CASE BeginInit \/ EndInit
    BY <1>1, <2>2 DEF BeginInit, EndInit
  <2>3. ASSUME NEW t \in Threads, StartThread(t) \/ EndLoop(t) \/ TurnOnObject(t)
        PROVE  pc[Main] = "constructors"
    BY <1>1, <2>3 DEF StartThread, EndLoop, TurnOnObject
  <2> QED
    BY <2>1, <2>2, <2>3
<1>3. count[Main][Warning] <= 0 /\ \A c \in Channels \ Registered : count[Main][c] = 0
  BY <1>2 DEF ConstructedOK
<1>4. CASE count' = count /\ Registered \subseteq Registered'
  BY <1>3, <1>4
<1>5. CASE Construct
  <2>1. PICK c \in BeforeMain : InitializeChannel(Main, c)
    BY <1>5 DEF Construct
  <2> DEFINE x == DefaultCount(c)
  <2>2. c \in Channels /\ c \notin Registered /\ count' = [count EXCEPT ![Main][c] = x]
    BY <2>1, RegistrationAssumption DEF InitializeChannel
  <2>3. Registered' = Registered \cup {c}
    BY <1>1, <2>1, <2>2, Registers
  <2>4. c = Warning => x = -1
    BY WarningIsOn
  <2> HIDE DEF x
  <2>5. \A d \in Channels : count'[Main][d] = IF d = c THEN x ELSE count[Main][d]
    BY <1>1, <2>2
  <2> QED
    BY <1>1, <1>3, <2>2, <2>3, <2>4, <2>5
<1>6. ASSUME NEW c \in OffBefore, TurnOffBefore(c)
      PROVE  /\ count'[Main][Warning] <= 0
             /\ \A d \in Channels \ Registered' : count'[Main][d] = 0
  <2> DEFINE x == count[Main][c] + 1
  <2>1. c \in Registered /\ count[Main][c] = DefaultCount(c) /\ count' = [count EXCEPT ![Main][c] = x]
        /\ Registered' = Registered /\ c \in Channels
    BY <1>6, RegistrationAssumption DEF TurnOffBefore, registry, Registered
  <2>2. c = Warning => x = 0
    <3>1. c = Warning => count[Main][c] = -1
      BY <2>1, WarningIsOn
    <3> QED
      BY <3>1
  <2> HIDE DEF x
  <2>3. \A d \in Channels : count'[Main][d] = IF d = c THEN x ELSE count[Main][d]
    BY <1>1, <2>1
  <2> QED
    BY <1>1, <1>3, <2>1, <2>2, <2>3
<1>7. \/ count' = count /\ Registered \subseteq Registered'
      \/ Construct \/ \E c \in OffBefore : TurnOffBefore(c)
  <2>1. Registered \subseteq Registered'
    BY <1>1, RegistryKept
  <2>2. ~ (BeginInit \/ EndInit \/ Read \/ ReadOverride \/ ToggleObject
           \/ (\E t \in Threads : OpenLibrary(t) \/ StartThread(t) \/ TurnOnChannel(t) \/ EndLoop(t) \/ TurnOnObject(t))
           \/ (\E c \in Toggled : ChannelOff(c) \/ ChannelOn(c)))
    <3>1. ~ (BeginInit \/ EndInit \/ Read \/ ReadOverride \/ ToggleObject
             \/ (\E c \in Toggled : ChannelOff(c) \/ ChannelOn(c)))
      BY <1>1, <1>2 DEF BeginInit, EndInit, Read, ReadOverride, ToggleObject, ChannelOff, ChannelOn
    <3>2. ~ \E t \in Threads : OpenLibrary(t) \/ StartThread(t) \/ TurnOnChannel(t) \/ EndLoop(t) \/ TurnOnObject(t)
      BY <1>1, <1>2 DEF OpenLibrary, StartThread, TurnOnChannel, EndLoop, TurnOnObject
    <3> QED
      BY <3>1, <3>2
  <2>3. CASE ConstructFatal \/ UNCHANGED vars
    BY <2>1, <2>3 DEF ConstructFatal, vars
  <2> QED
    BY <2>2, <2>3 DEF Next
<1> QED
  BY <1>4, <1>5, <1>6, <1>7

\* The counters that were below zero are zero in after.
AllAreOff(before, after) ==
  /\ \A c \in Channels : before[c] \in Int /\ before[c] >= -1
  /\ before[Warning] <= 0 /\ \A c \in Channels \ BeforeMain : before[c] = 0
  /\ \A c \in Channels : after[c] = IF c \in BeforeMain \ {Rcfile} /\ before[c] < 0 THEN 0 ELSE before[c]

\* When init() turned all channels off none is on.
LEMMA NoneIsOn ==
  ASSUME NEW before, NEW after, AllAreOff(before, after)
  PROVE  /\ \A c \in Channels \ {Rcfile} : after[c] >= 0 /\ ~ (after[c] < 0)
         /\ after[Warning] <= 0 /\ after[Elfutils] >= 0 /\ \A c \in Channels : after[c] >= -1
<1>1. \A c \in Channels \ {Rcfile} : after[c] >= 0 /\ ~ (after[c] < 0)
  BY DEF AllAreOff
<1>2. after[Warning] <= 0 /\ after[Elfutils] >= 0
  BY <1>1, ChannelsAssumption DEF AllAreOff
<1> QED
  BY <1>1, <1>2 DEF AllAreOff

\* The file behind the first is the second.
LEMMA ThereAreTwo ==
  ASSUME NEW n \in 1 .. 2, NEW m \in 1 .. 2, n < m
  PROVE  n = 1 /\ m = 2
OBVIOUS

\* The main thread starts to read.
LEMMA BeginMeant ==
  ASSUME IInv, ConstructedOK, BeginInit
  PROVE  ToSet(visible) = ReadFor /\ ReadTo(rc', configuration', ReadFor, line')
<1> DEFINE off == AllOff(count[Main])
<1>1. /\ Main \in Threads /\ Warning \in Channels /\ Elfutils \in Channels /\ Warning # Rcfile /\ Elfutils # Rcfile
      /\ RegistryOK /\ CountsOK /\ count \in [Threads -> [Channels -> Int]]
      /\ \A c \in Channels : count[Main][c] \in Int /\ count[Main][c] >= -1
  BY ThreadsAssumption, ChannelsAssumption DEF IInv, CountsOK
<1>2. /\ Registered = BeforeMain /\ configuration' \in Configurations /\ pc[Main] = "constructors" /\ line' = line
  BY DEF BeginInit
<1>3. ToSet(visible) = ReadFor
  <2>1. Rcfile \notin ToSet(visible) /\ hidden \subseteq {Rcfile}
    BY <1>1 DEF RegistryOK, ToSet
  <2> QED
    BY <1>2, <2>1 DEF Registered, ReadFor
<1>4. line' = 0
  BY <1>2 DEF IInv, ReadingOK
<1>5. /\ Paired(rc') /\ rc'.file = 1 /\ rc'.ended = ""
      /\ rc' = BeginReading(off) /\ off \in [Channels -> Int]
      /\ \A c \in Channels : off[c] = IF c \in ToSet(visible) /\ count[Main][c] < 0 THEN 0 ELSE count[Main][c]
  BY <1>1, BeginInitReads, Zenon
<1> HIDE DEF off
<1>6. count[Main][Warning] <= 0 /\ \A c \in Channels \ Registered : count[Main][c] = 0
  BY <1>2 DEF ConstructedOK
<1>7. /\ \A c \in Channels \ {Rcfile} : off[c] >= 0 /\ ~ (off[c] < 0)
      /\ off[Warning] <= 0 /\ off[Elfutils] >= 0 /\ \A c \in Channels : off[c] >= -1
  <2> DEFINE before == count[Main]
  <2>1. AllAreOff(before, off)
    BY <1>1, <1>2, <1>3, <1>5, <1>6, Zenon DEF ReadFor, AllAreOff
  <2> HIDE DEF before
  <2> QED
    BY <2>1, NoneIsOn, Zenon
<1>9. LET s == BeginReading(off)
      IN /\ ~ s.defaultSet[1] /\ ~ s.defaultSet[2] /\ s.didReset = FALSE
         /\ OnIn(s) = {c \in Channels \ {Rcfile} : off[c] < 0}
         /\ s.count[Warning] = off[Warning]
  BY <1>5, <1>7, BeginReads, Zenon
<1>10. /\ ~ rc'.defaultSet[1] /\ ~ rc'.defaultSet[2] /\ ~ rc'.didReset
       /\ OnIn(rc') = {c \in Channels \ {Rcfile} : off[c] < 0}
       /\ rc'.count[Warning] = off[Warning]
  BY <1>5, <1>9, Zenon
<1>11. OnIn(rc') = {}
  <2>1. \A c \in Channels \ {Rcfile} : ~ (off[c] < 0)
    BY <1>7, Zenon
  <2>2. {c \in Channels \ {Rcfile} : off[c] < 0} = {}
    BY <2>1, Zenon
  <2> QED
    BY <1>10, <2>2, Zenon
<1>12. rc'.count[Warning] <= 0
  BY <1>7, <1>10, Zenon
<1>13. AreFiles(configuration')
  BY <1>2, ConfigurationsAssumption DEF AreFiles
<1>14. ReadTo(rc', configuration', ReadFor, 0)
  BY <1>5, <1>10, <1>11, <1>12, <1>13, ReadToBegins, Zenon
<1> QED
  BY <1>3, <1>4, <1>14, Zenon

\* Reading a line leaves the reader with what the lines say.
LEMMA ReadMeant ==
  ASSUME IInv, ListedOK, ReadOK, Read, rc'.ended = ""
  PROVE  ReadTo(rc', configuration, ReadFor, line')
<1>1. RegistryOK /\ PhasesOK /\ ReadingOK
  BY DEF IInv
<1>2. /\ pc[Main] = "reading" /\ rc.ended = "" /\ line < Len(Lines) /\ line' = line + 1
      /\ rc' = ReadLine(rc, visible, Lines[line + 1])
  BY DEF Read
<1>3. Listed(visible)
  BY <1>1, LineIsRead, Zenon
<1>4. ToSet(visible) = ReadFor /\ configuration \in Configurations
  BY <1>2 DEF ListedOK
<1>5. AreFiles(configuration) /\ ElfutilsAlone
  BY <1>4, ConfigurationsAssumption, ElfutilsAssumption DEF AreFiles, ElfutilsAlone
<1>6. ReadTo(rc, configuration, ToSet(visible), line)
  BY <1>2, <1>4 DEF ReadOK
<1>7. /\ line < Len(configuration[rc.file])
      /\ ReadLine(rc, visible, configuration[rc.file][line + 1]).ended = ""
  BY <1>2, Zenon DEF Lines
<1>8. ReadTo(ReadLine(rc, visible, configuration[rc.file][line + 1]), configuration, ToSet(visible), line + 1)
  BY <1>3, <1>5, <1>6, <1>7, ReadToLine, Zenon
<1> QED
  BY <1>2, <1>4, <1>8, Zenon DEF Lines

\* So does starting with the override file.
LEMMA OverrideMeant ==
  ASSUME IInv, ListedOK, ReadOK, ReadOverride
  PROVE  ReadTo(rc', configuration, ReadFor, line')
<1>1. /\ pc[Main] = "reading" /\ rc.ended = "" /\ line = Len(Lines) /\ line' = 0
      /\ rc' = [rc EXCEPT !.file = 2, !.didReset = FALSE] /\ rc.file < Len(configuration)
  BY DEF ReadOverride
<1>2. configuration \in Configurations /\ ReadTo(rc, configuration, ReadFor, line) /\ Paired(rc)
  BY <1>1 DEF ListedOK, ReadOK, IInv, ReadingOK
<1>3. AreFiles(configuration)
  BY <1>2, ConfigurationsAssumption DEF AreFiles
<1>4. Paired(rc') /\ OnlyChanges(rc, rc', {"file", "didReset"}) /\ rc'.file = 2 /\ rc'.didReset = FALSE
  BY <1>1, <1>2, OverrideReads, Zenon
<1>5. rc.file = 1 /\ Len(configuration) = 2
  <2>1. rc.file \in 1 .. 2
    BY <1>2, FieldTypes DEF Paired, Sound, FieldsOf
  <2>2. Len(configuration) \in 1 .. 2
    BY <1>3 DEF AreFiles
  <2> QED
    BY <1>1, <2>1, <2>2, ThereAreTwo, Zenon
<1>6. line = Len(configuration[1])
  BY <1>1, <1>5 DEF Lines
<1> QED
  BY <1>1, <1>2, <1>3, <1>4, <1>5, <1>6, ReadToOverride, Zenon

\* At the end of read() the channels that are on are those of FilesTurnOn.
LEMMA EndMeant ==
  ASSUME IInv, ListedOK, ReadOK, EndInit
  PROVE  {c \in ToSet(visible) : count'[Main][c] < 0} = FilesTurnOn(configuration, ReadFor)
<1>1. /\ pc[Main] = "reading" /\ rc.ended = "" /\ line = Len(Lines) /\ rc.file = Len(configuration)
  BY DEF EndInit
<1>2. /\ ToSet(visible) = ReadFor /\ configuration \in Configurations /\ ReadTo(rc, configuration, ReadFor, line)
      /\ ReadingOK
  BY <1>1 DEF ListedOK, ReadOK, IInv
<1>3. AreFiles(configuration)
  BY <1>2, ConfigurationsAssumption DEF AreFiles
<1>4. Warning \in ReadFor /\ ReadFor \subseteq Channels \ {Rcfile}
  BY ChannelsAssumption, RegistrationAssumption DEF ReadFor
<1>5. OnIn(rc) = FilesTurnOn(configuration, ReadFor)
  <2>1. ReadTo(rc, configuration, ReadFor, Len(configuration[rc.file]))
    BY <1>1, <1>2, Zenon DEF Lines
  <2> QED
    BY <1>1, <1>3, <1>4, <2>1, ReadToEnds, Zenon
<1>6. OnIn(rc) \subseteq ReadFor
  BY <1>2 DEF ReadTo
<1>7. /\ rc'.count \in [Channels -> Int]
      /\ {c \in Channels \ {Rcfile} : rc'.count[c] < 0} = OnIn(rc)
      /\ count' = [count EXCEPT ![Main] = rc'.count]
  BY <1>2, EndInitReads, Zenon
<1>8. count'[Main] = rc'.count
  BY <1>7, ThreadsAssumption DEF IInv, CountsOK
<1>9. {c \in ReadFor : rc'.count[c] < 0} = OnIn(rc)
  BY <1>4, <1>6, <1>7
<1> QED
  BY <1>2, <1>5, <1>8, <1>9

\* Every step keeps what was read as it was written.
LEMMA MeantKept ==
  ASSUME IInv, MeantOK, [Next]_vars
  PROVE  MeantOK'
<1>1. /\ Main \in Threads /\ pc \in [Threads -> Phases] /\ count \in [Threads -> [Channels -> Int]]
      /\ \A t \in Threads \ {Main} : pc[Main] # "ready" => pc[t] = "none"
      /\ at \in [Threads -> Nat] /\ RegistryOK /\ at[Main] >= 1
      /\ ConstructedOK /\ ListedOK /\ ReadOK /\ ConfiguredOK
  BY ThreadsAssumption DEF IInv, PhasesOK, CountsOK, PlacesOK, MeantOK
<1>2. ConstructedOK'
  BY <1>1, ConstructedKept
<1>3. CASE BeginInit
  <2>1. ToSet(visible) = ReadFor /\ ReadTo(rc', configuration', ReadFor, line')
    BY <1>1, <1>3, BeginMeant
  <2>2. visible' = visible /\ configuration' \in Configurations /\ pc' = [pc EXCEPT ![Main] = "reading"]
    BY <1>3 DEF BeginInit, registry
  <2>3. pc'[Main] = "reading"
    BY <1>1, <2>2
  <2> QED
    BY <1>2, <2>1, <2>2, <2>3 DEF MeantOK, ListedOK, ReadOK, ConfiguredOK, InitRead
<1>4. CASE Read
  <2>1. rc'.ended = "" => ReadTo(rc', configuration, ReadFor, line')
    BY <1>1, <1>4, ReadMeant
  <2>2. visible' = visible /\ configuration' = configuration /\ pc' = pc /\ pc[Main] = "reading"
    BY <1>4 DEF Read, registry
  <2> QED
    BY <1>1, <1>2, <2>1, <2>2 DEF MeantOK, ListedOK, ReadOK, ConfiguredOK, InitRead
<1>5. CASE ReadOverride
  <2>1. ReadTo(rc', configuration, ReadFor, line')
    BY <1>1, <1>5, OverrideMeant
  <2>2. visible' = visible /\ configuration' = configuration /\ pc' = pc /\ pc[Main] = "reading"
    BY <1>5 DEF ReadOverride, registry
  <2> QED
    BY <1>1, <1>2, <2>1, <2>2 DEF MeantOK, ListedOK, ReadOK, ConfiguredOK, InitRead
<1>6. CASE EndInit
  <2>1. {c \in ToSet(visible) : count'[Main][c] < 0} = FilesTurnOn(configuration, ReadFor)
    BY <1>1, <1>6, EndMeant
  <2>2. /\ visible' = visible /\ configuration' = configuration
        /\ pc' = [pc EXCEPT ![Main] = "loop"] /\ pc[Main] = "reading"
    BY <1>6 DEF EndInit, registry
  <2>3. pc'[Main] = "loop"
    BY <1>1, <2>2
  <2> QED
    BY <1>1, <1>2, <2>1, <2>2, <2>3 DEF MeantOK, ListedOK, ReadOK, ConfiguredOK, InitRead
<1>7. CASE UNCHANGED vars
  BY <1>1, <1>2, <1>7 DEF vars, registry, MeantOK, ListedOK, ReadOK, ConfiguredOK, InitRead
<1>8. ASSUME pc'[Main] \notin {"reading", "loop"} PROVE MeantOK'
  BY <1>2, <1>8 DEF MeantOK, ListedOK, ReadOK, ConfiguredOK, InitRead
<1>9. ASSUME Construct \/ ConstructFatal \/ (\E c \in OffBefore : TurnOffBefore(c))
             \/ (\E c \in Toggled : ChannelOff(c) \/ ChannelOn(c)) \/ ToggleObject
      PROVE  pc'[Main] \notin {"reading", "loop"}
  BY <1>9 DEF Construct, ConstructFatal, TurnOffBefore, ChannelOff, ChannelOn, ToggleObject
<1>10. ASSUME NEW t \in Threads, OpenLibrary(t) \/ StartThread(t) \/ EndLoop(t) \/ TurnOnObject(t)
       PROVE  pc'[Main] \notin {"reading", "loop"}
  <2>1. CASE OpenLibrary(t)
    <3>1. pc' = pc /\ pc[t] = "ready"
      BY <2>1 DEF OpenLibrary
    <3> QED
      BY <1>1, <3>1
  <2>2. CASE StartThread(t)
    <3>1. pc[Main] = "ready" /\ pc[t] = "none"
      BY <2>2 DEF StartThread
    <3>2. pc'[Main] = pc[Main]
      BY <1>1, <2>2, <3>1 DEF StartThread
    <3> QED
      BY <3>1, <3>2
  <2>3. CASE EndLoop(t) \/ TurnOnObject(t)
    <3>1. pc[t] \in {"loop", "object"} /\ (pc' = [pc EXCEPT ![t] = "object"] \/ pc' = [pc EXCEPT ![t] = "ready"])
      BY <2>3 DEF EndLoop, TurnOnObject
    <3>2. t = Main \/ pc[Main] = "ready"
      BY <1>1, <3>1
    <3> QED
      BY <1>1, <3>1, <3>2
  <2> QED
    BY <1>10, <2>1, <2>2, <2>3
<1>11. ASSUME NEW t \in Threads, TurnOnChannel(t) PROVE MeantOK'
  <2>1. pc[t] = "loop" /\ pc' = pc /\ at' = [at EXCEPT ![t] = @ + 1] /\ visible' = visible /\ configuration' = configuration
    BY <1>11 DEF TurnOnChannel, registry
  <2>2. CASE t = Main
    <3>1. pc'[Main] = "loop" /\ at'[Main] # 1
      BY <1>1, <2>1, <2>2
    <3> QED
      BY <1>1, <1>2, <2>1, <3>1 DEF MeantOK, ListedOK, ReadOK, ConfiguredOK, InitRead
  <2>3. CASE t # Main
    <3>1. pc'[Main] = "ready"
      BY <1>1, <2>1, <2>3
    <3> QED
      BY <1>8, <3>1
  <2> QED
    BY <2>2, <2>3
<1> QED
  BY <1>3, <1>4, <1>5, <1>6, <1>7, <1>8, <1>9, <1>10, <1>11 DEF Next

\* Before the first constructor nothing was read.
LEMMA InitMeant == Init => MeantOK
<1> SUFFICES ASSUME Init PROVE MeantOK
  OBVIOUS
<1>1. Main \in Threads /\ Warning \in Channels
  BY ThreadsAssumption, ChannelsAssumption
<1>2. /\ count = [t \in Threads |-> [c \in Channels |-> 0]]
      /\ pc = [t \in Threads |-> IF t = Main THEN "constructors" ELSE "none"]
  BY DEF Init
<1>3. pc[Main] = "constructors" /\ \A c \in Channels : count[Main][c] = 0
  BY <1>1, <1>2
<1> QED
  BY <1>1, <1>3 DEF MeantOK, ConstructedOK, ListedOK, ReadOK, ConfiguredOK, InitRead

\* While init() reads, the channels that are on are what the lines that were read
\* say; when it has read the files, those are on that they turn on.
THEOREM MeaningKept == Spec => []MeantOK
<1>1. IInv /\ MeantOK /\ [Next]_vars => MeantOK'
  BY MeantKept
<1> QED
  BY <1>1, InitMeant, Inductive, PTL DEF Spec

\* When init() has read the files the channels that are on are exactly those that the
\* files mean, for all files of which the first channels_on of the override file resets what
\* was on, and the debug object is off again.
THEOREM ReadAsWritten == Spec => []ConfiguredAsWritten
<1>1. IInv /\ MeantOK => ConfiguredAsWritten
  <2> SUFFICES ASSUME IInv, MeantOK, InitRead
               PROVE  /\ ResetsAsDocumented(configuration) =>
                           {c \in ToSet(visible) : count[Main][c] < 0} = Meant[configuration]
                      /\ objectOff[Main] = 0
    BY DEF ConfiguredAsWritten
  <2>1. objectOff[Main] = 0
    BY ThreadsAssumption DEF IInv, ObjectsOK, InitRead
  <2>2. configuration \in Configurations
        /\ {c \in ToSet(visible) : count[Main][c] < 0} = FilesTurnOn(configuration, ReadFor)
    BY DEF MeantOK, ListedOK, ConfiguredOK, InitRead
  <2>3. Meant[configuration] = FilesMean(configuration, ReadFor)
    BY <2>2, Zenon DEF Meant, ReadFor
  <2>4. AreFiles(configuration)
    BY <2>2, ConfigurationsAssumption DEF AreFiles
  <2>5. ResetsAsDocumented(configuration) =>
          FilesMean(configuration, ReadFor) = FilesTurnOn(configuration, ReadFor)
    BY <2>4, TurnOnWhatTheyMean
  <2> QED
    BY <2>1, <2>2, <2>3, <2>5
<1> QED
  BY <1>1, Inductive, MeaningKept, PTL

-----------------------------------------------------------------------------
(***************************************************************************)
(* What a thread copies from the configuration: the labels are looked up    *)
(* padded to the width, so none may get wider once the files were read, and *)
(* by label, so no two channels may have the same one.                      *)
(***************************************************************************)
LateFits == \A c \in Late : \/ Len(LabelOf[c]) <= MinWidth
                            \/ \E d \in BeforeMain \cup FatalChannels : Len(LabelOf[c]) <= Len(LabelOf[d])
OwnLabels == \A c, d \in BeforeMain \cup Late : LabelOf[c] = LabelOf[d] => c = d

WidthOK ==
  /\ MinWidth <= width
  /\ pc[Main] # "constructors" => \A f \in FatalChannels : Len(LabelOf[f]) <= width

Configured == FilesTurnOn(configuration, ReadFor)

StatesOK ==
  pc[Main] \notin {"constructors", "reading"} =>
    /\ configuration \in Configurations
    /\ DOMAIN states = {GetLabel(c) : c \in ReadFor}
    /\ \A c \in ReadFor : states[GetLabel(c)] <=> c \in Configured

Starts(t) ==
  /\ \A c \in BeforeMain \ {Rcfile} :
       IF count[t][c] < 0 THEN c \in Configured
       ELSE \/ c \notin Configured
            \/ pc[t] = "loop" /\ \E i \in at[t] .. Len(visible) : visible[i] = c
  /\ \A c \in Late : count[t][c] \in {0, DefaultCount(c)}
  /\ pc[t] = "ready" => objectOff[t] = -1

ThreadOK(t) ==
  /\ count[t][Rcfile] = 0
  /\ pc[t] = "none" => \A c \in Late : count[t][c] = 0
  /\ pc[t] # "none" /\ mode[t] = "from_rcfile" => Starts(t)
ThreadsOK == \A t \in Threads \ {Main} : ThreadOK(t)

SInv == WidthOK /\ StatesOK /\ ThreadsOK

\* Labels that are the same when padded are the same.
LEMMA PaddedSame ==
  ASSUME NEW a \in Seq(Letters), NEW b \in Seq(Letters), NEW n \in Nat, Len(a) <= n, Len(b) <= n,
         Padded(a, n) = Padded(b, n)
  PROVE  a = b
<1> DEFINE p == Padded(a, n)
           q == Padded(b, n)
<1>1. /\ \A i \in 1 .. n : p[i] = IF i <= Len(a) THEN a[i] ELSE Alphabet[1]
      /\ \A i \in 1 .. n : q[i] = IF i <= Len(b) THEN b[i] ELSE Alphabet[1]
      /\ p = q
  BY PaddedType
<1>2. Alphabet[1] \notin Letters
  BY LettersAreNoSpace
<1> HIDE DEF p, q
<1>3. /\ Len(a) \in Nat /\ Len(b) \in Nat
      /\ \A i \in 1 .. Len(a) : a[i] \in Letters
      /\ \A i \in 1 .. Len(b) : b[i] \in Letters
  OBVIOUS
<1>4. ~ (Len(a) < Len(b))
  <2> SUFFICES ASSUME Len(a) < Len(b) PROVE FALSE
    OBVIOUS
  <2>1. Len(b) \in 1 .. n /\ ~ (Len(b) <= Len(a)) /\ Len(b) \in 1 .. Len(b)
    BY <1>3
  <2>2. p[Len(b)] = Alphabet[1] /\ q[Len(b)] = b[Len(b)]
    BY <1>1, <2>1
  <2> QED
    BY <1>1, <1>2, <1>3, <2>1, <2>2
<1>5. ~ (Len(b) < Len(a))
  <2> SUFFICES ASSUME Len(b) < Len(a) PROVE FALSE
    OBVIOUS
  <2>1. Len(a) \in 1 .. n /\ ~ (Len(a) <= Len(b)) /\ Len(a) \in 1 .. Len(a)
    BY <1>3
  <2>2. q[Len(a)] = Alphabet[1] /\ p[Len(a)] = a[Len(a)]
    BY <1>1, <2>1
  <2> QED
    BY <1>1, <1>2, <1>3, <2>1, <2>2
<1>6. Len(a) = Len(b)
  BY <1>3, <1>4, <1>5
<1>7. \A i \in 1 .. Len(a) : a[i] = b[i]
  BY <1>1, <1>3, <1>6
<1> QED
  BY <1>6, <1>7

\* A label that fits names one channel.
LEMMA LabelsDiffer ==
  ASSUME OwnLabels, width \in Nat, NEW c \in BeforeMain \cup Late, NEW d \in BeforeMain \cup Late,
         Len(Label(c)) <= width, Len(Label(d)) <= width, GetLabel(c) = GetLabel(d)
  PROVE  c = d
<1>1. Label(c) \in Seq(Letters) /\ Label(d) \in Seq(Letters)
  BY LabelTypes, RegistrationAssumption
<1>2. Label(c) = Label(d)
  BY <1>1, PaddedSame DEF GetLabel
<1> QED
  BY <1>2 DEF OwnLabels, Label

\* A label of a library fits the width that the labels have when the files were read.
LEMMA Fits ==
  ASSUME LateFits, RegistryOK, WidthOK, pc[Main] # "constructors", BeforeMain \subseteq Registered,
         NEW c \in BeforeMain \cup Late
  PROVE  Len(Label(c)) <= width /\ Len(Label(c)) \in Nat
<1>1. /\ width \in Nat /\ MinWidth \in Nat /\ MinWidth <= width
      /\ \A d \in BeforeMain : Len(Label(d)) <= width
      /\ \A f \in FatalChannels : Len(Label(f)) <= width
  BY LabelsAssumption DEF RegistryOK, WidthOK, Label
<1>2. \A d \in BeforeMain \cup Late \cup FatalChannels : Len(Label(d)) \in Nat
  BY LabelTypes, RegistrationAssumption
<1>3. CASE c \in BeforeMain
  BY <1>1, <1>2, <1>3
<1>4. CASE c \in Late
  <2>1. Len(Label(c)) <= MinWidth \/ \E d \in BeforeMain \cup FatalChannels : Len(Label(c)) <= Len(Label(d))
    BY <1>4 DEF LateFits, Label
  <2> QED
    BY <1>1, <1>2, <2>1
<1> QED
  BY <1>3, <1>4

\* Labels only get wider, and not once the files were read.
LEMMA WidthKept ==
  ASSUME IInv, WidthOK, [Next]_vars
  PROVE  /\ WidthOK'
         /\ LateFits /\ pc[Main] # "constructors" => width' = width
<1>1. /\ Main \in Threads /\ pc \in [Threads -> Phases] /\ RegistryOK /\ width \in Nat /\ MinWidth \in Nat
      /\ pc[Main] # "constructors" => BeforeMain \subseteq Registered
  BY ThreadsAssumption, LabelsAssumption DEF IInv, PhasesOK, RegistryOK
<1>2. ASSUME NEW c \in Channels \cup FatalChannels, width' = Widened(LabelOf[c])
      PROVE  width' \in Nat /\ width' >= width /\ (Len(Label(c)) <= width => width' = width)
  <2>1. Len(Label(c)) \in Nat
    BY LabelTypes
  <2> QED
    BY <1>1, <1>2, <2>1 DEF Widened, Label
<1>3. \A f \in FatalChannels : Len(LabelOf[f]) \in Nat
  BY LabelTypes DEF Label
<1>4. CASE Construct \/ ConstructFatal
  <2>1. PICK c \in Channels \cup FatalChannels : width' = Widened(LabelOf[c])
    BY <1>4, RegistrationAssumption DEF Construct, ConstructFatal, InitializeChannel, Label
  <2>2. pc' = pc /\ pc[Main] = "constructors"
    BY <1>4 DEF Construct, ConstructFatal
  <2> QED
    BY <1>1, <1>2, <2>1, <2>2 DEF WidthOK
<1>5. ASSUME NEW t \in Threads, OpenLibrary(t)
      PROVE  /\ WidthOK'
             /\ LateFits /\ pc[Main] # "constructors" => width' = width
  <2>1. PICK c \in Late : width' = Widened(LabelOf[c])
    BY <1>5 DEF OpenLibrary, InitializeChannel, Label
  <2>2. c \in Channels /\ pc' = pc
    BY <1>5, RegistrationAssumption DEF OpenLibrary
  <2>3. WidthOK'
    BY <1>1, <1>2, <1>3, <2>1, <2>2 DEF WidthOK
  <2>4. ASSUME LateFits, pc[Main] # "constructors" PROVE width' = width
    BY <1>1, <1>2, <2>1, <2>2, <2>4, Fits
  <2> QED
    BY <2>3, <2>4
<1>6. CASE BeginInit
  BY <1>1, <1>6 DEF BeginInit, WidthOK, registry
<1>7. ASSUME width' = width, pc[Main] = "constructors" => pc'[Main] = "constructors"
      PROVE  WidthOK'
  BY <1>7 DEF WidthOK
<1>8. CASE EndInit
  <2>1. width' = width /\ pc[Main] = "reading"
    BY <1>8 DEF EndInit, registry
  <2> QED
    BY <1>7, <2>1
<1>9. ASSUME NEW t \in Threads, StartThread(t) \/ EndLoop(t) \/ TurnOnObject(t)
      PROVE  width' = width /\ (pc[Main] = "constructors" => pc'[Main] = "constructors")
  <2>1. width' = width /\ pc[t] # "constructors" /\ \E p : pc' = [pc EXCEPT ![t] = p]
    BY <1>9 DEF StartThread, EndLoop, TurnOnObject, registry
  <2> QED
    BY <1>1, <2>1
<1>10. \/ Construct \/ ConstructFatal \/ BeginInit \/ EndInit
       \/ \E t \in Threads : OpenLibrary(t) \/ StartThread(t) \/ EndLoop(t) \/ TurnOnObject(t)
       \/ width' = width /\ pc' = pc
  BY DEF Next, vars, registry, TurnOffBefore, Read, ReadOverride, TurnOnChannel, ChannelOff, ChannelOn, ToggleObject
<1> QED
  BY <1>4, <1>5, <1>6, <1>7, <1>8, <1>9, <1>10

\* save_dc_states() keeps what the files say under the labels.
LEMMA StatesSaved ==
  ASSUME OwnLabels, LateFits, IInv, MeantOK, WidthOK, EndInit
  PROVE  StatesOK'
<1>1. /\ Main \in Threads /\ pc \in [Threads -> Phases] /\ RegistryOK /\ width \in Nat
      /\ pc[Main] = "reading" /\ BeforeMain \subseteq Registered
      /\ ListedOK /\ ReadOK
  BY ThreadsAssumption DEF IInv, PhasesOK, RegistryOK, MeantOK, EndInit
<1>2. /\ width' = width /\ visible' = visible /\ configuration' = configuration
      /\ states' = DcStates(rc'.count) /\ count' = [count EXCEPT ![Main] = rc'.count]
  BY DEF EndInit, registry
<1>3. ToSet(visible) = ReadFor /\ configuration \in Configurations
  BY <1>1 DEF ListedOK
<1>4. {c \in ReadFor : count'[Main][c] < 0} = Configured
  BY <1>1, <1>3, EndMeant DEF Configured
<1>5. count'[Main] = rc'.count
  BY <1>1, <1>2 DEF IInv, CountsOK
<1> DEFINE n == rc'.count
           Firsts(label) == CHOOSE i \in DOMAIN visible :
                              /\ GetLabel(visible[i]) = label
                              /\ \A j \in 1 .. i - 1 : GetLabel(visible[j]) # label
<1>6. /\ DOMAIN states' = {GetLabel(c) : c \in ReadFor}
      /\ \A label \in {GetLabel(c) : c \in ReadFor} : states'[label] = (n[visible[Firsts(label)]] < 0)
  BY <1>2, <1>3, Zenon DEF DcStates
<1>7. ASSUME NEW c \in ReadFor PROVE visible[Firsts(GetLabel(c))] = c
  <2>1. DOMAIN visible = 1 .. Len(visible) /\ Len(visible) \in Nat
    BY <1>1 DEF RegistryOK
  <2>2. PICK k \in DOMAIN visible : visible[k] = c
    BY <1>3, <1>7 DEF ToSet
  <2>3. ASSUME NEW i \in DOMAIN visible, GetLabel(visible[i]) = GetLabel(c) PROVE visible[i] = c
    <3>1. visible[i] \in ReadFor
      BY <1>3 DEF ToSet
    <3>2. /\ visible[i] \in BeforeMain \cup Late /\ c \in BeforeMain \cup Late
      BY <1>7, <3>1 DEF ReadFor
    <3>3. Len(Label(visible[i])) <= width /\ Len(Label(c)) <= width
      BY <1>1, <3>2, Fits DEF IInv
    <3> QED
      BY <1>1, <2>3, <3>2, <3>3, LabelsDiffer
  <2>4. \A j \in 1 .. k - 1 : GetLabel(visible[j]) # GetLabel(c)
    <3> SUFFICES ASSUME NEW j \in 1 .. k - 1, GetLabel(visible[j]) = GetLabel(c) PROVE FALSE
      OBVIOUS
    <3>1. j \in DOMAIN visible /\ j # k
      BY <2>1
    <3>2. visible[j] = visible[k]
      BY <2>2, <2>3, <3>1
    <3> QED
      BY <1>1, <3>1, <3>2 DEF RegistryOK, IsInjective
  <2>5. \E i \in DOMAIN visible : /\ GetLabel(visible[i]) = GetLabel(c)
                                  /\ \A j \in 1 .. i - 1 : GetLabel(visible[j]) # GetLabel(c)
    BY <2>2, <2>4
  <2>6. Firsts(GetLabel(c)) \in DOMAIN visible /\ GetLabel(visible[Firsts(GetLabel(c))]) = GetLabel(c)
    BY <2>5, Zenon
  <2> HIDE DEF Firsts
  <2> QED
    BY <2>3, <2>6
<1> HIDE DEF Firsts, n
<1>8. ASSUME NEW c \in ReadFor PROVE states'[GetLabel(c)] <=> c \in Configured
  <2>1. states'[GetLabel(c)] = (n[c] < 0)
    BY <1>6, <1>7, <1>8, Zenon
  <2>2. c \in Configured <=> n[c] < 0
    BY <1>4, <1>5, <1>8, Zenon DEF n
  <2> QED
    BY <2>1, <2>2, Zenon
<1>9. Configured' = Configured /\ \A c : GetLabel(c)' = GetLabel(c)
  BY <1>2 DEF Configured, GetLabel
<1> QED
  BY <1>2, <1>3, <1>6, <1>8, <1>9, Zenon DEF StatesOK

\* Every step keeps what was saved, and it is found under the labels of today.
LEMMA StatesKept ==
  ASSUME OwnLabels, LateFits, IInv, MeantOK, WidthOK, StatesOK, [Next]_vars
  PROVE  StatesOK'
<1>1. /\ Main \in Threads /\ pc \in [Threads -> Phases]
      /\ \A t \in Threads \ {Main} : pc[Main] # "ready" => pc[t] = "none"
  BY ThreadsAssumption DEF IInv, PhasesOK
<1>2. CASE EndInit
  BY <1>2, StatesSaved
<1>3. CASE BeginInit
  BY <1>1, <1>3 DEF BeginInit, StatesOK
<1>4. ASSUME pc[Main] \in {"constructors", "reading"}, pc'[Main] = pc[Main] PROVE StatesOK'
  BY <1>4 DEF StatesOK
<1>5. ASSUME pc[Main] \notin {"constructors", "reading"}, states' = states, configuration' = configuration
      PROVE  StatesOK'
  <2>1. width' = width
    BY <1>5, WidthKept
  <2>2. Configured' = Configured /\ \A c : GetLabel(c)' = GetLabel(c)
    BY <1>5, <2>1 DEF Configured, GetLabel
  <2>3. /\ configuration \in Configurations
        /\ DOMAIN states = {GetLabel(c) : c \in ReadFor}
        /\ \A c \in ReadFor : states[GetLabel(c)] <=> c \in Configured
    BY <1>5 DEF StatesOK
  <2> QED
    BY <1>5, <2>2, <2>3, Zenon DEF StatesOK
<1>6. ASSUME NEW t \in Threads, OpenLibrary(t) \/ StartThread(t) \/ TurnOnChannel(t) \/ EndLoop(t) \/ TurnOnObject(t)
      PROVE  pc[Main] \notin {"constructors", "reading"} /\ states' = states /\ configuration' = configuration
  BY <1>1, <1>6 DEF OpenLibrary, StartThread, TurnOnChannel, EndLoop, TurnOnObject
<1>7. ASSUME (\E c \in Toggled : ChannelOff(c) \/ ChannelOn(c)) \/ ToggleObject
      PROVE  pc[Main] \notin {"constructors", "reading"} /\ states' = states /\ configuration' = configuration
  BY <1>7 DEF ChannelOff, ChannelOn, ToggleObject
<1>8. ASSUME Construct \/ ConstructFatal \/ (\E c \in OffBefore : TurnOffBefore(c)) \/ Read \/ ReadOverride
      PROVE  pc[Main] \in {"constructors", "reading"} /\ pc'[Main] = pc[Main]
  BY <1>8 DEF Construct, ConstructFatal, TurnOffBefore, Read, ReadOverride
<1>9. CASE UNCHANGED vars
  BY <1>4, <1>5, <1>9 DEF vars
<1> QED
  BY <1>2, <1>3, <1>4, <1>5, <1>6, <1>7, <1>8, <1>9 DEF Next

\* A step that leaves a thread alone keeps what it started with.
LEMMA StartsAlone ==
  ASSUME NEW t \in Threads, ThreadOK(t), count'[t] = count[t], pc'[t] = pc[t], at'[t] = at[t],
         objectOff'[t] = objectOff[t], mode'[t] = mode[t],
         configuration' = configuration \/ pc[t] = "none", pc[t] = "loop" => visible' = visible
  PROVE  ThreadOK(t)'
<1>1. configuration' = configuration => Configured' = Configured
  BY DEF Configured
<1>2. \A c : DefaultCount(c)' = DefaultCount(c)
  BY DEF DefaultCount, Label
<1>3. pc[t] # "none" /\ mode[t] = "from_rcfile" => Starts(t)
  BY DEF ThreadOK
<1>4. ASSUME pc[t] # "none", mode[t] = "from_rcfile" PROVE Starts(t)'
  BY <1>1, <1>2, <1>3, <1>4 DEF Starts
<1> QED
  BY <1>4 DEF ThreadOK

\* A thread that starts has turned on nothing yet.
LEMMA StartBegins ==
  ASSUME IInv, NEW t \in Threads \ {Main}, ThreadOK(t), StartThread(t)
  PROVE  ThreadOK(t)'
<1>1. /\ pc[t] = "none" /\ pc[Main] = "ready"
      /\ count' = count /\ objectOff' = objectOff /\ visible' = visible /\ at' = at
      /\ RegistryOK /\ PhasesOK
  BY DEF StartThread, registry, IInv
<1>2. PICK m \in ThreadModes :
        /\ mode' = [mode EXCEPT ![t] = m]
        /\ pc' = [pc EXCEPT ![t] = IF m = "debug_off" THEN "object" ELSE "loop"]
  BY DEF StartThread
<1>3. mode'[t] = m /\ pc'[t] \in {"object", "loop"} /\ (m = "from_rcfile" => pc'[t] = "loop")
  BY <1>1, <1>2 DEF PhasesOK
<1>4. ASSUME NEW c \in BeforeMain \ {Rcfile}
      PROVE  count[t][c] = 0 /\ \E i \in 1 .. Len(visible) : visible[i] = c
  <2>1. count[t][c] = 0
    BY <1>1, <1>4 DEF IInv, CountsOK
  <2>2. c \in ToSet(visible)
    BY <1>1, <1>4, ListedBeforeMain DEF PhasesOK
  <2>3. DOMAIN visible = 1 .. Len(visible)
    BY <1>1 DEF RegistryOK
  <2> QED
    BY <2>1, <2>2, <2>3 DEF ToSet
<1>5. at[t] = 1
  BY <1>1 DEF IInv, PlacesOK
<1>6. count[t][Rcfile] = 0 /\ \A c \in Late : count[t][c] = 0
  BY <1>1 DEF ThreadOK
<1>7. m = "from_rcfile" => Starts(t)'
  <2> SUFFICES ASSUME m = "from_rcfile" PROVE Starts(t)'
    OBVIOUS
  <2>1. pc'[t] = "loop"
    BY <1>3
  <2>2. \A c \in BeforeMain \ {Rcfile} : ~ (count'[t][c] < 0) /\ \E i \in at'[t] .. Len(visible') : visible'[i] = c
    BY <1>1, <1>4, <1>5
  <2> QED
    BY <1>1, <1>6, <2>1, <2>2 DEF Starts
<1> QED
  BY <1>1, <1>3, <1>6, <1>7 DEF ThreadOK

\* A channel is wanted when the files turned it on.
LEMMA WantedAsConfigured ==
  ASSUME OwnLabels, LateFits, IInv, WidthOK, StatesOK, pc[Main] \notin {"constructors", "reading"},
         NEW c \in BeforeMain \cup Late
  PROVE  c # Rcfile => (IsOnInRcFile(c) <=> c \in ReadFor /\ c \in Configured)
<1>1. /\ DOMAIN states = {GetLabel(d) : d \in ReadFor} /\ RegistryOK /\ width \in Nat
      /\ \A d \in ReadFor : states[GetLabel(d)] <=> d \in Configured
      /\ BeforeMain \subseteq Registered
  BY DEF StatesOK, IInv, RegistryOK, PhasesOK
<1>2. ASSUME NEW d \in ReadFor, GetLabel(c) = GetLabel(d) PROVE c = d
  <2>1. d \in BeforeMain \cup Late
    BY <1>2 DEF ReadFor
  <2>2. Len(Label(c)) <= width /\ Len(Label(d)) <= width
    BY <1>1, <2>1, Fits
  <2> QED
    BY <1>1, <1>2, <2>1, <2>2, LabelsDiffer
<1>3. GetLabel(c) \in DOMAIN states <=> c \in ReadFor
  BY <1>1, <1>2
<1> QED
  BY <1>1, <1>3 DEF IsOnInRcFile

\* A thread turns on a channel when its saved state is on.
LEMMA StartTurnsOn ==
  ASSUME OwnLabels, LateFits, IInv, WidthOK, StatesOK, NEW t \in Threads \ {Main}, ThreadOK(t), TurnOnChannel(t)
  PROVE  ThreadOK(t)'
<1> DEFINE c == visible[at[t]]
<1>1. /\ pc[t] = "loop" /\ pc' = pc /\ at[t] <= Len(visible) /\ visible' = visible /\ mode' = mode
      /\ objectOff' = objectOff /\ configuration' = configuration /\ at' = [at EXCEPT ![t] = at[t] + 1]
  BY DEF TurnOnChannel, registry
<1> DEFINE x == count[t][c] - 1
<1>2. count' = IF count[t][c] >= 0 /\ Wanted(t, c) THEN [count EXCEPT ![t][c] = x] ELSE count
  BY Zenon DEF TurnOnChannel
<1>3. /\ at[t] \in 1 .. Len(visible) /\ at'[t] = at[t] + 1 /\ Len(visible) \in Nat
      /\ c \in Channels \ {Rcfile} /\ Main \in Threads
      /\ count \in [Threads -> [Channels -> Int]]
      /\ pc[Main] = "ready" /\ Rcfile \in Channels
  <2>1. /\ at \in [Threads -> Nat] /\ at[t] \in 1 .. Len(visible) + 1 /\ Len(visible) \in Nat
        /\ visible \in Seq(Channels \ {Rcfile})
    BY DEF IInv, PlacesOK, RegistryOK
  <2>2. at[t] \in 1 .. Len(visible) /\ at'[t] = at[t] + 1
    BY <1>1, <2>1
  <2>3. c \in Channels \ {Rcfile}
    BY <2>1, <2>2
  <2>4. count \in [Threads -> [Channels -> Int]] /\ pc[Main] = "ready"
    BY <1>1 DEF IInv, CountsOK, PhasesOK
  <2> QED
    BY <2>1, <2>2, <2>3, <2>4, ThreadsAssumption, ChannelsAssumption
<1>4. /\ \A d \in Channels : d # c => count'[t][d] = count[t][d]
      /\ count'[t][c] = IF count[t][c] >= 0 /\ Wanted(t, c) THEN x ELSE count[t][c]
  <2> HIDE DEF c, x
  <2>1. CASE count[t][c] >= 0 /\ Wanted(t, c)
    BY <1>2, <1>3, <2>1
  <2>2. CASE ~ (count[t][c] >= 0 /\ Wanted(t, c))
    BY <1>2, <1>3, <2>2
  <2> QED
    BY <2>1, <2>2
<1>5. /\ BeforeMain \subseteq Channels /\ Late \subseteq Channels /\ Rcfile \in BeforeMain /\ Late \cap BeforeMain = {}
  BY RegistrationAssumption
<1>6. count'[t][Rcfile] = 0
  BY <1>3, <1>4 DEF ThreadOK
<1>7. ASSUME mode[t] = "from_rcfile" PROVE Starts(t)'
  <2>1. Starts(t)
    BY <1>1, <1>7 DEF ThreadOK
  <2>2. c \in BeforeMain \cup Late => (Wanted(t, c) <=> c \in ReadFor /\ c \in Configured)
    <3> HIDE DEF c
    <3> QED
      BY <1>3, <1>7, WantedAsConfigured DEF Wanted
  <2>3. ASSUME NEW d \in BeforeMain \ {Rcfile}
        PROVE  IF count'[t][d] < 0 THEN d \in Configured
               ELSE d \notin Configured \/ \E i \in at[t] + 1 .. Len(visible) : visible[i] = d
    <3>1. IF count[t][d] < 0 THEN d \in Configured
          ELSE d \notin Configured \/ \E i \in at[t] .. Len(visible) : visible[i] = d
      BY <1>1, <2>1, <2>3 DEF Starts
    <3>2. CASE d # c
      <4>1. count'[t][d] = count[t][d]
        BY <1>4, <1>5, <3>2
      <4>2. \A i \in at[t] .. Len(visible) : visible[i] = d => i \in at[t] + 1 .. Len(visible)
        BY <1>3, <3>2
      <4> QED
        BY <3>1, <4>1, <4>2
    <3>3. CASE d = c
      <4>1. count[t][d] \in {-1, 0} /\ d \in ReadFor
        BY <2>3 DEF IInv, CountsOK, ReadFor
      <4>2. count'[t][d] = IF count[t][d] >= 0 /\ d \in Configured THEN count[t][d] - 1 ELSE count[t][d]
        BY <1>4, <2>2, <2>3, <3>3, <4>1
      <4> HIDE DEF c
      <4>3. CASE count[t][d] = -1
        BY <3>1, <4>2, <4>3
      <4>4. CASE count[t][d] = 0
        BY <4>2, <4>4
      <4> QED
        BY <4>1, <4>3, <4>4
    <3> QED
      BY <3>2, <3>3
  <2>4. ASSUME NEW d \in Late PROVE count'[t][d] = count[t][d]
    <3>1. CASE d # c
      BY <1>4, <1>5, <3>1
    <3>2. CASE d = c
      <4>1. ~ Wanted(t, c)
        BY <1>5, <2>2, <3>2, <2>4 DEF ReadFor
      <4> QED
        BY <1>4, <3>2, <4>1
    <3> QED
      BY <3>1, <3>2
  <2>5. Configured' = Configured /\ \A d : DefaultCount(d)' = DefaultCount(d)
    BY <1>1 DEF Configured, DefaultCount, Label
  <2>6. \A d \in Late : count'[t][d] \in {0, DefaultCount(d)}
    BY <2>1, <2>4 DEF Starts
  <2> HIDE DEF c
  <2>7. ASSUME NEW d \in BeforeMain \ {Rcfile}
        PROVE  IF count'[t][d] < 0 THEN d \in Configured'
               ELSE \/ d \notin Configured'
                    \/ pc'[t] = "loop" /\ \E i \in at'[t] .. Len(visible') : visible'[i] = d
    BY <1>1, <1>3, <2>3, <2>5, <2>7
  <2> QED
    BY <1>1, <2>5, <2>6, <2>7 DEF Starts
<1> QED
  BY <1>1, <1>6, <1>7 DEF ThreadOK

\* A thread is ready with all channels as the files say.
LEMMA StartEnds ==
  ASSUME IInv, NEW t \in Threads \ {Main}, ThreadOK(t), EndLoop(t) \/ TurnOnObject(t)
  PROVE  ThreadOK(t)'
<1>1. /\ count' = count /\ mode' = mode /\ visible' = visible /\ at' = at /\ configuration' = configuration
      /\ pc[t] \in {"loop", "object"}
  BY DEF EndLoop, TurnOnObject, registry
<1>2. pc'[t] # "none"
  BY DEF EndLoop, TurnOnObject, IInv, PhasesOK
<1>3. Configured' = Configured /\ \A c : DefaultCount(c)' = DefaultCount(c)
  BY <1>1 DEF Configured, DefaultCount, Label
<1>4. count[t][Rcfile] = 0
  BY DEF ThreadOK
<1>5. ASSUME mode[t] = "from_rcfile" PROVE Starts(t)'
  <2>1. Starts(t)
    BY <1>1, <1>5 DEF ThreadOK
  <2>2. \A c \in BeforeMain \ {Rcfile} : count[t][c] < 0 <=> c \in Configured
    <3>1. CASE EndLoop(t)
      <4>1. at[t] > Len(visible) /\ at[t] \in Nat /\ Len(visible) \in Nat
        BY <3>1 DEF EndLoop, IInv, PlacesOK, RegistryOK
      <4>2. at[t] .. Len(visible) = {}
        BY <4>1
      <4> QED
        BY <2>1, <4>2 DEF Starts
    <3>2. CASE TurnOnObject(t)
      <4>1. pc[t] # "loop"
        BY <3>2 DEF TurnOnObject
      <4> QED
        BY <2>1, <4>1 DEF Starts
    <3> QED
      BY <3>1, <3>2
  <2>3. pc'[t] = "ready" => objectOff'[t] = -1
    <3>1. CASE EndLoop(t)
      BY <3>1 DEF EndLoop, IInv, PhasesOK
    <3>2. CASE TurnOnObject(t)
      <4>1. objectOff' = [objectOff EXCEPT ![t] = objectOff[t] - 1] /\ pc[t] = "object"
        BY <1>5, <3>2 DEF TurnOnObject
      <4>2. objectOff[t] = 0 /\ objectOff \in [Threads -> {-1, 0}]
        BY <4>1 DEF IInv, ObjectsOK
      <4>3. objectOff[t] - 1 = -1
        BY <4>2
      <4> QED
        BY <4>1, <4>2, <4>3
    <3> QED
      BY <3>1, <3>2
  <2> QED
    BY <1>1, <1>3, <2>1, <2>2, <2>3 DEF Starts
<1> QED
  BY <1>1, <1>2, <1>4, <1>5 DEF ThreadOK

\* A thread that opens a library changes none of the channels of before main.
LEMMA StartOpens ==
  ASSUME IInv, NEW t \in Threads \ {Main}, ThreadOK(t), OpenLibrary(t)
  PROVE  ThreadOK(t)'
<1>1. PICK c \in Late : InitializeChannel(t, c)
  BY DEF OpenLibrary
<1> DEFINE x == DefaultCount(c)
<1>2. /\ c \in Channels /\ c \notin BeforeMain /\ c # Rcfile /\ count' = [count EXCEPT ![t][c] = x]
      /\ BeforeMain \subseteq Channels /\ Late \subseteq Channels /\ Rcfile \in Channels
  BY <1>1, RegistrationAssumption DEF InitializeChannel
<1>3. /\ pc[t] = "ready" /\ pc' = pc /\ mode' = mode /\ configuration' = configuration
      /\ objectOff' = objectOff /\ at' = at
  BY DEF OpenLibrary
<1> HIDE DEF x
<1>4. count'[t][c] = x /\ \A d \in Channels : d # c => count'[t][d] = count[t][d]
  BY <1>2 DEF IInv, CountsOK
<1>5. Configured' = Configured /\ \A d : DefaultCount(d)' = DefaultCount(d)
  BY <1>3 DEF Configured, DefaultCount, Label
<1>6. count[t][Rcfile] = 0 /\ (mode[t] = "from_rcfile" => Starts(t))
  BY <1>3 DEF ThreadOK
<1>7. ASSUME mode[t] = "from_rcfile" PROVE Starts(t)'
  <2>1. /\ \A d \in BeforeMain \ {Rcfile} : count[t][d] < 0 <=> d \in Configured
        /\ \A d \in Late : count[t][d] \in {0, DefaultCount(d)}
        /\ objectOff[t] = -1
    BY <1>3, <1>6, <1>7 DEF Starts
  <2>2. \A d \in BeforeMain \ {Rcfile} : count'[t][d] < 0 <=> d \in Configured
    BY <1>2, <1>4, <2>1
  <2>3. \A d \in Late : count'[t][d] \in {0, DefaultCount(d)}
    BY <1>2, <1>4, <2>1 DEF x
  <2> QED
    BY <1>3, <1>5, <2>1, <2>2, <2>3 DEF Starts
<1> QED
  BY <1>2, <1>3, <1>4, <1>6, <1>7 DEF ThreadOK

\* Every step keeps what the threads started with as the files say.
LEMMA ThreadsKept ==
  ASSUME OwnLabels, LateFits, IInv, WidthOK, StatesOK, ThreadsOK, [Next]_vars
  PROVE  ThreadsOK'
<1> SUFFICES ASSUME NEW t \in Threads \ {Main} PROVE ThreadOK(t)'
  BY DEF ThreadsOK
<1>1. /\ Main \in Threads /\ t # Main /\ pc \in [Threads -> Phases] /\ ThreadOK(t)
      /\ mode \in [Threads -> {MainMode} \cup ThreadModes]
      /\ count \in [Threads -> [Channels -> Int]] /\ objectOff \in [Threads -> {-1, 0}]
      /\ at \in [Threads -> Nat] /\ BeforeMain \subseteq Channels /\ Late \subseteq Channels
      /\ pc[Main] # "ready" => pc[t] = "none"
  BY ThreadsAssumption, RegistrationAssumption DEF IInv, PhasesOK, CountsOK, ObjectsOK, PlacesOK, ThreadsOK
<1>2. CASE StartThread(t)
  BY <1>1, <1>2, StartBegins
<1>3. CASE TurnOnChannel(t)
  BY <1>1, <1>3, StartTurnsOn
<1>4. CASE EndLoop(t) \/ TurnOnObject(t)
  BY <1>1, <1>4, StartEnds
<1>5. CASE OpenLibrary(t)
  BY <1>1, <1>5, StartOpens
<1>6. ASSUME NEW u \in Threads, u # t, OpenLibrary(u) PROVE ThreadOK(t)'
  <2>1. PICK c \in Late : InitializeChannel(u, c)
    BY <1>6 DEF OpenLibrary
  <2> DEFINE x == DefaultCount(c)
  <2>2. count' = [count EXCEPT ![u][c] = x] /\ pc[t] # "loop"
    BY <2>1 DEF InitializeChannel
  <2> HIDE DEF x
  <2>3. count'[t] = count[t]
    BY <1>1, <1>6, <2>2
  <2>4. pc' = pc /\ at' = at /\ objectOff' = objectOff /\ mode' = mode /\ configuration' = configuration
    BY <1>6 DEF OpenLibrary
  <2> QED
    BY <1>1, <2>2, <2>3, <2>4, StartsAlone
<1>7. ASSUME NEW u \in Threads, u # t, StartThread(u) \/ TurnOnChannel(u) \/ EndLoop(u) \/ TurnOnObject(u)
      PROVE  ThreadOK(t)'
  <2>1. visible' = visible /\ configuration' = configuration
    BY <1>7 DEF StartThread, TurnOnChannel, EndLoop, TurnOnObject, registry
  <2>2. CASE StartThread(u)
    BY <1>1, <1>7, <2>1, <2>2, StartsAlone DEF StartThread
  <2>3. CASE TurnOnChannel(u)
    <3>1. pc' = pc /\ mode' = mode /\ objectOff' = objectOff /\ at' = [at EXCEPT ![u] = at[u] + 1]
      BY <2>3 DEF TurnOnChannel
    <3>2. count'[t] = count[t]
      <4> DEFINE c == visible[at[u]]
                 x == count[u][c] - 1
      <4>1. count' = IF count[u][c] >= 0 /\ Wanted(u, c) THEN [count EXCEPT ![u][c] = x] ELSE count
        BY <2>3, Zenon DEF TurnOnChannel
      <4> HIDE DEF c, x
      <4> QED
        BY <1>1, <1>7, <4>1
    <3>3. at'[t] = at[t]
      BY <1>1, <1>7, <3>1
    <3> QED
      BY <1>1, <2>1, <3>1, <3>2, <3>3, StartsAlone
  <2>4. CASE EndLoop(u) \/ TurnOnObject(u)
    <3>1. mode' = mode /\ count' = count /\ at' = at /\ pc'[t] = pc[t]
      BY <1>1, <1>7, <2>4 DEF EndLoop, TurnOnObject
    <3>2. objectOff'[t] = objectOff[t]
      BY <1>1, <1>7, <2>4 DEF EndLoop, TurnOnObject
    <3> QED
      BY <1>1, <2>1, <3>1, <3>2, StartsAlone
  <2> QED
    BY <1>7, <2>2, <2>3, <2>4
<1>8. ASSUME Construct \/ ConstructFatal \/ (\E c \in OffBefore : TurnOffBefore(c))
             \/ BeginInit \/ Read \/ ReadOverride \/ EndInit
      PROVE  ThreadOK(t)'
  <2>1. pc[t] = "none" /\ pc'[t] = pc[t] /\ mode' = mode /\ at' = at
    BY <1>1, <1>8 DEF Construct, ConstructFatal, TurnOffBefore, BeginInit, Read, ReadOverride, EndInit
  <2>2. objectOff'[t] = objectOff[t]
    BY <1>1, <1>8 DEF Construct, ConstructFatal, TurnOffBefore, BeginInit, Read, ReadOverride, EndInit
  <2>3. count'[t] = count[t]
    <3>1. CASE Construct
      <4>1. PICK c \in BeforeMain : InitializeChannel(Main, c)
        BY <3>1 DEF Construct
      <4> DEFINE x == DefaultCount(c)
      <4>2. count' = [count EXCEPT ![Main][c] = x]
        BY <4>1 DEF InitializeChannel
      <4> HIDE DEF x
      <4> QED
        BY <1>1, <4>2
    <3>2. ASSUME NEW c \in OffBefore, TurnOffBefore(c) PROVE count'[t] = count[t]
      <4> DEFINE x == count[Main][c] + 1
      <4>1. count' = [count EXCEPT ![Main][c] = x]
        BY <3>2 DEF TurnOffBefore
      <4> HIDE DEF x
      <4> QED
        BY <1>1, <4>1
    <3>3. CASE BeginInit \/ Read \/ EndInit
      <4> DEFINE x == rc'.count
      <4>1. count' = [count EXCEPT ![Main] = x]
        BY <3>3 DEF BeginInit, Read, EndInit
      <4> HIDE DEF x
      <4> QED
        BY <1>1, <4>1
    <3>4. CASE ConstructFatal \/ ReadOverride
      BY <3>4 DEF ConstructFatal, ReadOverride
    <3> QED
      BY <1>8, <3>1, <3>2, <3>3, <3>4
  <2> QED
    BY <1>1, <2>1, <2>2, <2>3, StartsAlone
<1>9. ASSUME (\E c \in Toggled : ChannelOff(c) \/ ChannelOn(c)) \/ ToggleObject PROVE ThreadOK(t)'
  <2>1. pc' = pc /\ mode' = mode /\ at' = at /\ visible' = visible /\ configuration' = configuration
    BY <1>9 DEF ChannelOff, ChannelOn, ToggleObject, registry
  <2>2. count'[t] = count[t]
    <3>1. ASSUME NEW c \in Toggled, ChannelOff(c) \/ ChannelOn(c) PROVE count'[t] = count[t]
      <4> DEFINE up == count[Main][c] + 1
                 down == count[Main][c] - 1
      <4>1. count' = [count EXCEPT ![Main][c] = up] \/ count' = [count EXCEPT ![Main][c] = down]
        BY <3>1, Zenon DEF ChannelOff, ChannelOn
      <4> HIDE DEF up, down
      <4> QED
        BY <1>1, <4>1
    <3>2. CASE ToggleObject
      BY <3>2 DEF ToggleObject
    <3> QED
      BY <1>9, <3>1, <3>2
  <2>3. objectOff'[t] = objectOff[t]
    BY <1>1, <1>9 DEF ChannelOff, ChannelOn, ToggleObject
  <2> QED
    BY <1>1, <2>1, <2>2, <2>3, StartsAlone
<1>10. CASE UNCHANGED vars
  BY <1>1, <1>10, StartsAlone DEF vars, registry
<1> QED
  BY <1>2, <1>3, <1>4, <1>5, <1>6, <1>7, <1>8, <1>9, <1>10 DEF Next

\* Before the first constructor no thread has started.
LEMMA InitStarts == Init => SInv
<1> SUFFICES ASSUME Init PROVE SInv
  OBVIOUS
<1>1. Main \in Threads /\ Rcfile \in Channels /\ Late \subseteq Channels
  BY ThreadsAssumption, ChannelsAssumption, RegistrationAssumption
<1>2. /\ count = [t \in Threads |-> [c \in Channels |-> 0]] /\ width = MinWidth /\ MinWidth \in Nat
      /\ pc = [t \in Threads |-> IF t = Main THEN "constructors" ELSE "none"]
  BY LabelsAssumption DEF Init
<1>3. WidthOK /\ StatesOK
  BY <1>1, <1>2 DEF WidthOK, StatesOK
<1>4. ThreadsOK
  BY <1>1, <1>2 DEF ThreadsOK, ThreadOK
<1> QED
  BY <1>3, <1>4 DEF SInv

\* The invariant of the threads that start from the rc file is inductive.
LEMMA StartsKept ==
  ASSUME OwnLabels, LateFits
  PROVE  IInv /\ MeantOK /\ SInv /\ [Next]_vars => SInv'
<1> SUFFICES ASSUME IInv, MeantOK, SInv, [Next]_vars PROVE SInv'
  OBVIOUS
<1>1. WidthOK /\ StatesOK /\ ThreadsOK
  BY DEF SInv
<1>2. WidthOK' /\ StatesOK' /\ ThreadsOK'
  BY <1>1, WidthKept, StatesKept, ThreadsKept
<1> QED
  BY <1>2 DEF SInv

\* When the channels have labels of their own, and no library has a label that is
\* longer than all before, a thread that starts from the rc file has the channels on
\* that the files say.  Without the second condition it is false: init_thread() looks
\* a label up that is padded to another width than when save_dc_states() saved it.
THEOREM StartAsRead ==
  ASSUME OwnLabels, LateFits
  PROVE  Spec => []StartsAsConfigured
<1>1. IInv /\ MeantOK /\ SInv => StartsAsConfigured
  <2> SUFFICES ASSUME IInv, SInv, NEW t \in Threads \ {Main}, pc[t] = "ready", mode[t] = "from_rcfile"
               PROVE  /\ {c \in BeforeMain : count[t][c] < 0} = TurnedOn[configuration]
                      /\ \A c \in Late : count[t][c] \in {0, DefaultCount(c)}
                      /\ objectOff[t] = -1
    BY DEF StartsAsConfigured
  <2>1. Starts(t) /\ count[t][Rcfile] = 0
    BY DEF SInv, ThreadsOK, ThreadOK
  <2>2. configuration \in Configurations
    BY DEF SInv, StatesOK, IInv, PhasesOK
  <2>3. Configured \subseteq ReadFor
    <3>1. AreFiles(configuration)
      BY <2>2, ConfigurationsAssumption DEF AreFiles
    <3>2. Warning \in ReadFor
      BY ChannelsAssumption, RegistrationAssumption DEF ReadFor
    <3> QED
      BY <3>1, <3>2, MeansSome DEF Configured
  <2>4. TurnedOn[configuration] = Configured
    BY <2>2, Zenon DEF TurnedOn, Configured, ReadFor
  <2>5. \A c \in BeforeMain \ {Rcfile} : count[t][c] < 0 <=> c \in Configured
    BY <2>1 DEF Starts
  <2>6. {c \in BeforeMain : count[t][c] < 0} = Configured
    BY <2>1, <2>3, <2>5 DEF ReadFor
  <2> QED
    BY <2>1, <2>4, <2>6 DEF Starts
<1>2. IInv /\ MeantOK /\ SInv /\ [Next]_vars => SInv'
  BY StartsKept
<1> QED
  BY <1>1, <1>2, InitStarts, Inductive, MeaningKept, PTL DEF Spec
=============================================================================
