-------------------------- MODULE NestedOutput_proofs --------------------------
(***************************************************************************)
(* Proofs about NestedOutput, for any number of outputs, any sets of       *)
(* control flags, any MaxSize and any MaxNest, and for every program that  *)
(* does not misuse dc::continued and dc::finish in the arguments of a      *)
(* dc::continued.  The view that ViewOf computes is explained by a chain   *)
(* of views, one for each prefix of what is open; a step of the program    *)
(* extends the chain at its end, or closes an item anywhere and undoes     *)
(* what that item did in every view above it.                              *)
(***************************************************************************)
EXTENDS NestedOutput, SequenceTheorems, WellFoundedInduction, TLAPS

Views == [nested : Seq(Outputs), indent : 0 .. Width - 1, off : Nat, saved : Seq(Nat)]

\* v[i] is the view of the first i items of p.
Chain(p, v) ==
  /\ v \in [0 .. Len(p) -> Views]
  /\ v[0] = EmptyView
  /\ \A i \in 1 .. Len(p) : v[i] = After(v[i - 1], p[i])

Explains(p, view) == \E v : Chain(p, v) /\ v[Len(p)] = view

(***************************************************************************)
(* The invariants of the runs are not inductive: that finish() handles its *)
(* own output also depends on current being the innermost output, on a     *)
(* part of a section having only marks between it and that section, and on *)
(* the masks of the outputs telling statements that leave a section open,  *)
(* and sections that expect a continuation, from the others.               *)
(***************************************************************************)
CurrentOnTop ==
  /\ current = IF Nested = <<>> THEN Dummy ELSE Top(Nested)
  /\ ~ start_expected => current \in Outputs

\* Only marks are open between the section j and what is at i.
OnlyMarks(p, j, i) == \A k \in j + 1 .. i - 1 : p[k].kind = "mark"

WellNested(p) ==
  \A i \in 1 .. Len(p) :
    /\ p[i].kind = "part" =>
         \E j \in 1 .. i - 1 :
           p[j].kind = "section" /\ p[j].out = p[i].out /\ OnlyMarks(p, j, i)
    /\ p[i].kind \in Starters =>
         p[i].out \in Outputs /\ \A j \in 1 .. i - 1 : p[j].out # p[i].out
    /\ p[i].kind \in {"off", "mark"} => p[i].out = Dummy

Continues(m) == "continued_cf" \in m /\ "finish" \notin m

MasksTell(p, m) ==
  \A i \in 1 .. Len(p) :
    /\ p[i].kind = "plain" => ~ Continues(m[p[i].out])
    /\ p[i].kind \in Sections => Continues(m[p[i].out])
    /\ p[i].kind \in Starters =>
         (p[i].kind = "section" <=> "continued_expected" \in m[p[i].out])

IInv ==
  /\ TypeOK
  /\ Explains(prog, View)
  /\ CurrentOnTop
  /\ WellNested(prog)
  /\ MasksTell(prog, mask)
  /\ NoLeak
-----------------------------------------------------------------------------
(***************************************************************************)
(* Natural numbers.                                                        *)
(***************************************************************************)
\* A set that holds 0 and every successor of its elements holds all natural numbers.
LEMMA Induction ==
  ASSUME NEW S, 0 \in S, \A n \in Nat : n \in S => n + 1 \in S
  PROVE  Nat \subseteq S
<1> DEFINE T == Nat \ S
<1> SUFFICES ASSUME T # {} PROVE FALSE
  OBVIOUS
<1>1. PICK x \in T : \A y \in T : ~ (<<y, x>> \in OpToRel(<, Nat))
  <2>1. T \subseteq Nat
    OBVIOUS
  <2> HIDE DEF T
  <2> QED
    BY <2>1, WFMin, NatLessThanWellFounded, Zenon
<1>2. \A y \in T : ~ (y < x)
  BY <1>1 DEF OpToRel
<1>3. x # 0 /\ x - 1 \in Nat /\ x - 1 < x
  OBVIOUS
<1>4. x - 1 \in S
  BY <1>2, <1>3
<1> QED
  BY <1>3, <1>4

\* A set of positions of a sequence that is not empty has a last element.
LEMMA LastExists ==
  ASSUME NEW n \in Nat, NEW S \in SUBSET (1 .. n), S # {}
  PROVE  \E i \in S : \A j \in S : j <= i
<1> DEFINE W == {n - i : i \in S}
<1>1. PICK x \in W : \A y \in W : ~ (<<y, x>> \in OpToRel(<, Nat))
  <2>1. \A i \in S : i \in 1 .. n /\ n - i \in Nat
    OBVIOUS
  <2>2. W \subseteq Nat /\ W # {}
    BY <2>1
  <2> HIDE DEF W
  <2> QED
    BY <2>2, WFMin, NatLessThanWellFounded, Zenon
<1>2. PICK i \in S : x = n - i
  BY <1>1
<1>3. ASSUME NEW j \in S PROVE j <= i
  <2>1. n - j \in W /\ n - j \in Nat /\ n - i \in Nat
    BY <1>3
  <2>2. ~ (n - j < n - i)
    BY <1>1, <1>2, <2>1 DEF OpToRel
  <2> QED
    BY <2>2
<1> QED
  BY <1>3
-----------------------------------------------------------------------------
(***************************************************************************)
(* Sequences used as stacks, and the arithmetic of an unsigned short.      *)
(***************************************************************************)
LEMMA AppendTopPop ==
  ASSUME NEW S, NEW s \in Seq(S), NEW x \in S
  PROVE  /\ Append(s, x) \in Seq(S)
         /\ Append(s, x) # <<>>
         /\ Len(Append(s, x)) = Len(s) + 1
         /\ \A i \in 1 .. Len(s) : Append(s, x)[i] = s[i]
         /\ Append(s, x)[Len(s) + 1] = x
         /\ Top(Append(s, x)) = x
         /\ Pop(Append(s, x)) = s
  BY DEF Top, Pop

LEMMA AppendsDiffer ==
  ASSUME NEW S, NEW s \in Seq(S), NEW t \in Seq(S), NEW x \in S, NEW y \in S,
         Append(s, x) = Append(t, y)
  PROVE  s = t /\ x = y
  BY AppendTopPop

LEMMA PopProperties ==
  ASSUME NEW S, NEW s \in Seq(S), s # <<>>
  PROVE  /\ Len(s) \in Nat \ {0}
         /\ Pop(s) \in Seq(S)
         /\ Len(Pop(s)) = Len(s) - 1
         /\ \A i \in 1 .. Len(s) - 1 : Pop(s)[i] = s[i]
         /\ Top(s) = s[Len(s)]
         /\ Top(s) \in S
         /\ s = Append(Pop(s), Top(s))
<1>1. Len(s) \in Nat /\ Len(s) # 0
  OBVIOUS
<1>2. Top(s) \in S /\ Top(s) = s[Len(s)]
  BY <1>1 DEF Top
<1>3. Pop(s) \in Seq(S)
  <2>1. \A i \in 1 .. Len(s) - 1 : s[i] \in S
    BY <1>1
  <2>2. SubSeq(s, 1, Len(s) - 1) \in Seq(S)
    BY <1>1, <2>1, SubSeqProperties
  <2>. QED
    BY <2>2 DEF Pop
<1>4. Len(Pop(s)) = Len(s) - 1
  <2>. DEFINE n == Len(s) - 1
  <2>1. n \in Nat
    BY <1>1
  <2>2. \A i \in 1 .. n : s[i] \in S
    BY <1>1
  <2>3. Len(SubSeq(s, 1, n)) = IF 1 <= n THEN n - 1 + 1 ELSE 0
    <3>. HIDE DEF n
    <3>. QED
      BY <2>1, <2>2, SubSeqProperties
  <2>4. Len(SubSeq(s, 1, n)) = n
    <3>. HIDE DEF n
    <3>. QED
      BY <2>1, <2>3
  <2>. QED
    BY <2>4 DEF Pop
<1>5. \A i \in 1 .. Len(s) - 1 : Pop(s)[i] = s[i]
  BY <1>1 DEF Pop
<1>6. s = Append(Pop(s), Top(s))
  <2>1. Append(Pop(s), Top(s)) \in Seq(S) /\ Len(Append(Pop(s), Top(s))) = Len(s)
    BY <1>1, <1>2, <1>3, <1>4, AppendTopPop
  <2>2. \A i \in 1 .. Len(s) : Append(Pop(s), Top(s))[i] = s[i]
    BY <1>1, <1>2, <1>3, <1>4, <1>5, AppendTopPop
  <2>. QED
    BY <2>1, <2>2, SeqEqual
<1>. QED
  BY <1>1, <1>2, <1>3, <1>4, <1>5, <1>6

LEMMA WidthType == Width \in Nat /\ 4 \in 0 .. Width - 1 /\ 0 \in 0 .. Width - 1
  BY DEF Width

LEMMA Wrapping ==
  ASSUME NEW w \in Nat, NEW i \in 0 .. w - 1, NEW j \in 0 .. w - 1
  PROVE  /\ (IF i + j < w THEN i + j ELSE i + j - w) \in 0 .. w - 1
         /\ (IF i < j THEN i - j + w ELSE i - j) \in 0 .. w - 1
  OBVIOUS

LEMMA IndentArithmetic ==
  ASSUME NEW i \in 0 .. Width - 1, NEW j \in 0 .. Width - 1
  PROVE  /\ Plus(i, j) \in 0 .. Width - 1
         /\ Minus(i, j) \in 0 .. Width - 1
         /\ Minus(Plus(i, j), j) = i
         /\ Plus(Minus(i, j), j) = i
         /\ Minus(Plus(i, j), i) = j
<1>1. Width \in Nat
  BY WidthType
<1>2. Plus(i, j) \in 0 .. Width - 1 /\ Minus(i, j) \in 0 .. Width - 1
  BY <1>1, Wrapping DEF Plus, Minus
<1>3. Minus(Plus(i, j), j) = i
  BY <1>1 DEF Plus, Minus
<1>4. Plus(Minus(i, j), j) = i
  BY <1>1 DEF Plus, Minus
<1>5. Minus(Plus(i, j), i) = j
  BY <1>1 DEF Plus, Minus
<1>. QED
  BY <1>2, <1>3, <1>4, <1>5

LEMMA PlusCommutes ==
  ASSUME NEW i \in 0 .. Width - 1, NEW j \in 0 .. Width - 1, NEW k \in 0 .. Width - 1
  PROVE  Plus(Plus(i, j), k) = Plus(Plus(i, k), j)
<1>1. Width \in Nat
  BY WidthType
<1>2. i \in Int /\ j \in Int /\ k \in Int /\ i < Width /\ j < Width /\ k < Width
  BY <1>1
<1>3. CASE i + j < Width /\ i + k < Width
  BY <1>1, <1>2, <1>3 DEF Plus
<1>4. CASE i + j < Width /\ ~ (i + k < Width)
  BY <1>1, <1>2, <1>4 DEF Plus
<1>5. CASE ~ (i + j < Width) /\ i + k < Width
  BY <1>1, <1>2, <1>5 DEF Plus
<1>6. CASE ~ (i + j < Width) /\ ~ (i + k < Width)
  BY <1>1, <1>2, <1>6 DEF Plus
<1>. QED
  BY <1>3, <1>4, <1>5, <1>6
LEMMA MinusCommutes ==
  ASSUME NEW i \in 0 .. Width - 1, NEW j \in 0 .. Width - 1, NEW k \in 0 .. Width - 1
  PROVE  /\ Minus(Minus(i, j), k) = Minus(Minus(i, k), j)
         /\ Minus(Plus(i, j), k) = Plus(Minus(i, k), j)
<1>1. /\ Plus(i, j) \in 0 .. Width - 1 /\ Minus(i, j) \in 0 .. Width - 1
      /\ Minus(i, k) \in 0 .. Width - 1
  BY IndentArithmetic
<1>2. Minus(Plus(i, j), k) = Plus(Minus(i, k), j)
  <2>1. Plus(Minus(i, k), k) = i
    BY IndentArithmetic
  <2>2. Plus(i, j) = Plus(Plus(Minus(i, k), j), k)
    BY <1>1, <2>1, PlusCommutes
  <2>3. Plus(Minus(i, k), j) \in 0 .. Width - 1
    BY <1>1, IndentArithmetic
  <2> QED
    BY <2>2, <2>3, IndentArithmetic
<1>3. Minus(Minus(i, j), k) = Minus(Minus(i, k), j)
  <2> DEFINE x == Minus(Minus(i, k), j)
  <2>1. x \in 0 .. Width - 1 /\ Plus(x, j) = Minus(i, k)
    BY <1>1, IndentArithmetic
  <2>2. Plus(Plus(x, k), j) = i
    BY <2>1, PlusCommutes, IndentArithmetic
  <2>3. Plus(x, k) \in 0 .. Width - 1 /\ Minus(Plus(Plus(x, k), j), j) = Plus(x, k)
    BY <2>1, IndentArithmetic
  <2>4. Minus(i, j) = Plus(x, k)
    BY <2>2, <2>3
  <2> QED
    BY <2>1, <2>4, IndentArithmetic
<1> QED
  BY <1>2, <1>3
-----------------------------------------------------------------------------
(***************************************************************************)
(* What pushing, popping and closing does to the sequence of what is open. *)
(***************************************************************************)
LEMMA PushItem ==
  ASSUME NEW p \in Seq(Items), NEW it \in Items
  PROVE  /\ Append(p, it) \in Seq(Items) /\ Len(p) \in Nat /\ Len(Append(p, it)) = Len(p) + 1
         /\ \A i \in 1 .. Len(p) : Append(p, it)[i] = p[i]
         /\ Append(p, it)[Len(p) + 1] = it
  BY AppendTopPop

LEMMA PopItem ==
  ASSUME NEW p \in Seq(Items), p # <<>>
  PROVE  /\ Len(p) \in Nat \ {0} /\ Len(p) \in 1 .. Len(p)
         /\ Pop(p) \in Seq(Items) /\ Len(Pop(p)) = Len(p) - 1
         /\ \A i \in 1 .. Len(p) - 1 : Pop(p)[i] = p[i]
         /\ Top(p) = p[Len(p)] /\ Top(p) \in Items
<1>1. /\ Len(p) \in Nat \ {0} /\ Pop(p) \in Seq(Items) /\ Len(Pop(p)) = Len(p) - 1
      /\ \A i \in 1 .. Len(p) - 1 : Pop(p)[i] = p[i]
      /\ Top(p) = p[Len(p)] /\ Top(p) \in Items
  BY PopProperties
<1>2. Len(p) \in 1 .. Len(p)
  BY <1>1
<1> QED
  BY <1>1, <1>2

\* The item at k when the one at i is closed, and where the others go.
Old(i, k) == IF k < i THEN k ELSE k + 1
New(i, j) == IF j < i THEN j ELSE j - 1

LEMMA CloseItem ==
  ASSUME NEW p \in Seq(Items), NEW i \in 1 .. Len(p)
  PROVE  /\ Len(p) \in Nat \ {0} /\ Closed(p, i) \in Seq(Items) /\ Len(Closed(p, i)) = Len(p) - 1
         /\ \A k \in 1 .. Len(p) - 1 : /\ Closed(p, i)[k] = p[Old(i, k)]
                                       /\ Old(i, k) \in (1 .. Len(p)) \ {i}
                                       /\ New(i, Old(i, k)) = k
         /\ \A j \in (1 .. Len(p)) \ {i} : /\ New(i, j) \in 1 .. Len(p) - 1
                                           /\ Old(i, New(i, j)) = j
                                           /\ Closed(p, i)[New(i, j)] = p[j]
<1>1. Len(p) \in Nat \ {0} /\ i \in Nat /\ 1 <= i /\ i <= Len(p)
  OBVIOUS
<1>2. ASSUME NEW k \in 1 .. Len(p) - 1
      PROVE  Old(i, k) \in (1 .. Len(p)) \ {i} /\ New(i, Old(i, k)) = k
  BY <1>1 DEF Old, New
<1>3. ASSUME NEW j \in (1 .. Len(p)) \ {i}
      PROVE  New(i, j) \in 1 .. Len(p) - 1 /\ Old(i, New(i, j)) = j
  BY <1>1 DEF Old, New
<1>4. \A k \in 1 .. Len(p) - 1 : Closed(p, i)[k] = p[Old(i, k)]
  BY DEF Closed, Old
<1>5. Closed(p, i) \in Seq(Items) /\ Len(Closed(p, i)) = Len(p) - 1
  <2>1. Len(p) - 1 \in Nat
    BY <1>1
  <2>2. \A k \in 1 .. Len(p) - 1 : Closed(p, i)[k] \in Items
    BY <1>2, <1>4
  <2>3. Closed(p, i) \in [1 .. Len(p) - 1 -> Items]
    BY <2>2 DEF Closed
  <2>4. Closed(p, i) \in Seq(Items)
    BY <2>1, <2>3, SeqDef
  <2> QED
    BY <2>1, <2>3, <2>4, LenProperties
<1> QED
  BY <1>1, <1>2, <1>3, <1>4, <1>5

\* What is closed last is popped.
LEMMA ClosedTop ==
  ASSUME NEW p \in Seq(Items), p # <<>>
  PROVE  Closed(p, Len(p)) = Pop(p)
<1>1. /\ Len(p) \in 1 .. Len(p) /\ Pop(p) \in Seq(Items) /\ Len(Pop(p)) = Len(p) - 1
      /\ \A i \in 1 .. Len(p) - 1 : Pop(p)[i] = p[i]
  BY PopItem
<1>2. Closed(p, Len(p)) \in Seq(Items) /\ Len(Closed(p, Len(p))) = Len(p) - 1
  BY <1>1, CloseItem
<1>3. \A k \in 1 .. Len(p) - 1 : Closed(p, Len(p))[k] = p[k]
  BY <1>1 DEF Closed
<1> QED
  BY <1>1, <1>2, <1>3, SeqEqual
-----------------------------------------------------------------------------
(***************************************************************************)
(* Chains of views.                                                        *)
(***************************************************************************)
LEMMA AfterTyped ==
  ASSUME NEW v \in Views, NEW it \in Items, it.kind \in Starters => it.out \in Outputs
  PROVE  After(v, it) \in Views
<1>1. v.nested \in Seq(Outputs) /\ v.indent \in 0 .. Width - 1 /\ v.off \in Nat /\ v.saved \in Seq(Nat)
  BY DEF Views
<1>2. it.n \in 0 .. Width - 1
  BY DEF Items
<1>3. Plus(v.indent, 4) \in 0 .. Width - 1 /\ Minus(v.indent, it.n) \in 0 .. Width - 1
  BY <1>1, <1>2, IndentArithmetic, WidthType
<1>4. it.kind \in Starters => Append(v.nested, it.out) \in Seq(Outputs)
  BY <1>1, AppendTopPop
<1>5. Append(v.saved, v.off) \in Seq(Nat) /\ v.off + 1 \in Nat /\ 0 \in Nat
  BY <1>1, AppendTopPop
<1> QED
  BY <1>1, <1>3, <1>4, <1>5 DEF After, Views

\* There is one chain: ViewOf computes its last view.
LEMMA ViewOfChain ==
  ASSUME NEW p \in Seq(Items), NEW v, Chain(p, v)
  PROVE  ViewOf(p) = v[Len(p)]
<1> DEFINE n == Len(p)
           Eq(f) == f = [i \in 0 .. n |-> IF i = 0 THEN EmptyView ELSE After(f[i - 1], p[i])]
           a == CHOOSE f : Eq(f)
<1>1. n \in Nat /\ v \in [0 .. n -> Views] /\ v[0] = EmptyView
      /\ \A i \in 1 .. n : v[i] = After(v[i - 1], p[i])
  BY DEF Chain
<1> HIDE DEF n
<1>2. Eq(v)
  <2> DEFINE w == [i \in 0 .. n |-> IF i = 0 THEN EmptyView ELSE After(v[i - 1], p[i])]
  <2>1. \A i \in 0 .. n : v[i] = w[i]
    BY <1>1
  <2>2. DOMAIN w = 0 .. n /\ DOMAIN v = 0 .. n /\ v = [i \in DOMAIN v |-> v[i]]
    BY <1>1
  <2>3. w = [i \in DOMAIN w |-> w[i]]
    OBVIOUS
  <2> HIDE DEF w
  <2>4. v = w
    BY <2>1, <2>2, <2>3
  <2> QED
    BY <2>4 DEF w
<1>3. Eq(a)
  <2> HIDE DEF Eq
  <2> QED
    BY <1>2
<1> DEFINE S == {k \in Nat : k <= n => a[k] = v[k]}
<1>4. a = [i \in 0 .. n |-> IF i = 0 THEN EmptyView ELSE After(a[i - 1], p[i])]
  BY <1>3
<1> HIDE DEF a
<1>5. 0 \in S
  <2>1. a[0] = EmptyView
    BY <1>1, <1>4
  <2> QED
    BY <1>1, <2>1
<1>6. ASSUME NEW k \in Nat, k \in S PROVE k + 1 \in S
  <2> SUFFICES ASSUME k + 1 <= n PROVE a[k + 1] = v[k + 1]
    OBVIOUS
  <2>1. k + 1 \in 1 .. n /\ k + 1 \in 0 .. n /\ k + 1 # 0 /\ k + 1 - 1 = k /\ a[k] = v[k]
    BY <1>1, <1>6
  <2>2. a[k + 1] = After(a[k], p[k + 1])
    <3> DEFINE j == k + 1
    <3>1. j \in 0 .. n /\ j # 0 /\ j - 1 = k
      BY <2>1
    <3> HIDE DEF j
    <3>2. a[j] = After(a[j - 1], p[j])
      BY <1>4, <3>1
    <3> QED
      BY <3>1, <3>2 DEF j
  <2>3. v[k + 1] = After(v[k], p[k + 1])
    BY <1>1, <2>1
  <2> QED
    BY <2>1, <2>2, <2>3
<1>7. n \in S
  <2> HIDE DEF S
  <2> QED
    BY <1>1, <1>5, <1>6, Induction
<1>8. a[n] = v[n]
  BY <1>1, <1>7
<1> QED
  BY <1>8 DEF ViewOf, a, n

LEMMA ChainTyped ==
  ASSUME NEW p \in Seq(Items), NEW v, Chain(p, v)
  PROVE  /\ Len(p) \in Nat
         /\ \A i \in 0 .. Len(p) : v[i] \in Views
         /\ \A i \in 1 .. Len(p) : v[i - 1] \in Views /\ v[i] \in Views /\ v[i] = After(v[i - 1], p[i])
         /\ v[Len(p)] \in Views
<1>1. Len(p) \in Nat /\ \A i \in 0 .. Len(p) : v[i] \in Views
  BY DEF Chain
<1>2. \A i \in 1 .. Len(p) : i \in 0 .. Len(p) /\ i - 1 \in 0 .. Len(p)
  BY <1>1
<1>3. Len(p) \in 0 .. Len(p)
  BY <1>1
<1> QED
  BY <1>1, <1>2, <1>3 DEF Chain

LEMMA PushChain ==
  ASSUME NEW p \in Seq(Items), NEW view, Explains(p, view), NEW it \in Items,
         it.kind \in Starters => it.out \in Outputs
  PROVE  Explains(Append(p, it), After(view, it)) /\ view \in Views
<1> DEFINE q == Append(p, it)  n == Len(p)
<1>1. PICK v : Chain(p, v) /\ v[n] = view
  BY DEF Explains
<1> DEFINE w == [i \in 0 .. n + 1 |-> IF i <= n THEN v[i] ELSE After(view, it)]
<1>2. /\ n \in Nat /\ Len(q) = n + 1 /\ \A i \in 1 .. n : q[i] = p[i]
      /\ q[n + 1] = it
  BY PushItem
<1>3. view \in Views /\ \A i \in 0 .. n : v[i] \in Views
  BY <1>1, ChainTyped
<1>4. v[0] = EmptyView /\ \A i \in 1 .. n : v[i] = After(v[i - 1], p[i])
  BY <1>1 DEF Chain
<1> HIDE DEF q, n
<1>5. w \in [0 .. n + 1 -> Views] /\ w[0] = EmptyView /\ w[n + 1] = After(view, it)
  BY <1>2, <1>3, <1>4, AfterTyped
<1>6. ASSUME NEW i \in 1 .. n + 1 PROVE w[i] = After(w[i - 1], q[i])
  <2>1. CASE i = n + 1
    BY <1>1, <1>2, <2>1
  <2>2. CASE i # n + 1
    BY <1>2, <1>4, <2>2
  <2> QED
    BY <2>1, <2>2
<1>7. Chain(q, w)
  <2> HIDE DEF w
  <2> QED
    BY <1>2, <1>5, <1>6 DEF Chain
<1>8. Explains(q, After(view, it))
  BY <1>2, <1>5, <1>7 DEF Explains
<1> QED
  BY <1>3, <1>8 DEF q

LEMMA PopChain ==
  ASSUME NEW p \in Seq(Items), p # <<>>, NEW view, Explains(p, view)
  PROVE  \E below \in Views : Explains(Pop(p), below) /\ view = After(below, Top(p))
<1> DEFINE q == Pop(p)  n == Len(p)
<1>1. PICK v : Chain(p, v) /\ v[n] = view
  BY DEF Explains
<1> DEFINE w == [i \in 0 .. n - 1 |-> v[i]]
<1>2. /\ n \in Nat \ {0} /\ Len(q) = n - 1 /\ \A i \in 1 .. n - 1 : q[i] = p[i]
      /\ Top(p) = p[n]
  BY PopItem
<1>3. \A i \in 0 .. n : v[i] \in Views
  BY <1>1, ChainTyped
<1>4. v[0] = EmptyView /\ \A i \in 1 .. n : v[i] = After(v[i - 1], p[i])
  BY <1>1 DEF Chain
<1> HIDE DEF q, n
<1>5. w \in [0 .. n - 1 -> Views] /\ w[0] = EmptyView /\ w[n - 1] = v[n - 1]
  BY <1>2, <1>3, <1>4
<1>6. \A i \in 1 .. n - 1 : w[i] = After(w[i - 1], q[i])
  BY <1>2, <1>4
<1>7. Chain(q, w)
  <2> HIDE DEF w
  <2> QED
    BY <1>2, <1>5, <1>6 DEF Chain
<1>8. Explains(q, v[n - 1]) /\ v[n - 1] \in Views
  BY <1>2, <1>3, <1>5, <1>7 DEF Explains
<1>9. view = After(v[n - 1], Top(p))
  BY <1>1, <1>2, <1>4
<1> QED
  BY <1>8, <1>9 DEF q

\* Closing the item at i: u undoes what it did, before or after what is opened above it.
LEMMA CloseChain ==
  ASSUME NEW p \in Seq(Items), NEW v, Chain(p, v), NEW i \in 1 .. Len(p),
         NEW u \in [Views -> Views],
         u[v[i]] = v[i - 1],
         \A j \in i + 1 .. Len(p) : u[After(v[j - 1], p[j])] = After(u[v[j - 1]], p[j])
  PROVE  Explains(Closed(p, i), u[v[Len(p)]])
<1> DEFINE q == Closed(p, i)  n == Len(p)
           w == [k \in 0 .. n - 1 |-> IF k < i THEN v[k] ELSE u[v[k + 1]]]
<1>1. /\ n \in Nat \ {0} /\ Len(q) = n - 1 /\ i \in 1 .. n
      /\ \A k \in 1 .. n - 1 : q[k] = IF k < i THEN p[k] ELSE p[k + 1]
  <2>1. n \in Nat \ {0} /\ Len(q) = n - 1 /\ \A k \in 1 .. n - 1 : q[k] = p[Old(i, k)]
    BY CloseItem
  <2>2. \A k \in 1 .. n - 1 : p[Old(i, k)] = IF k < i THEN p[k] ELSE p[k + 1]
    BY DEF Old
  <2> HIDE DEF q
  <2> QED
    BY <2>1, <2>2
<1>2. \A k \in 0 .. n : v[k] \in Views
  BY ChainTyped
<1>3. v[0] = EmptyView /\ \A k \in 1 .. n : v[k] = After(v[k - 1], p[k])
  BY DEF Chain
<1>4. u[v[i]] = v[i - 1]
      /\ \A j \in i + 1 .. n : u[After(v[j - 1], p[j])] = After(u[v[j - 1]], p[j])
  OBVIOUS
<1> HIDE DEF q, n
<1>5. w \in [0 .. n - 1 -> Views] /\ w[0] = EmptyView
  <2>1. \A k \in 0 .. n - 1 : v[k] \in Views /\ u[v[k + 1]] \in Views
    <3>1. \A k \in 0 .. n - 1 : k \in 0 .. n /\ k + 1 \in 0 .. n
      BY <1>1
    <3> QED
      BY <1>2, <3>1
  <2> QED
    BY <1>1, <1>3, <2>1
<1>6. w[n - 1] = u[v[n]]
  <2>1. CASE i = n
    BY <1>1, <1>4, <2>1
  <2>2. CASE i # n
    <3>1. ~ (n - 1 < i) /\ n - 1 + 1 = n /\ n - 1 \in 0 .. n - 1
      BY <1>1, <2>2
    <3>2. w[n - 1] = u[v[n - 1 + 1]]
      BY <3>1
    <3> QED
      BY <3>1, <3>2
  <2> QED
    BY <2>1, <2>2
<1>7. ASSUME NEW k \in 1 .. n - 1 PROVE w[k] = After(w[k - 1], q[k])
  <2>1. k \in 0 .. n - 1 /\ k - 1 \in 0 .. n - 1 /\ k \in 1 .. n /\ k + 1 \in 1 .. n
        /\ k + 1 - 1 = k /\ k - 1 + 1 = k
    BY <1>1
  <2>2. CASE k < i
    <3>1. k - 1 < i
      BY <1>1, <2>2
    <3> QED
      BY <1>1, <1>3, <2>1, <2>2, <3>1
  <2>3. CASE k = i
    <3>1. w[k - 1] = u[v[i]] /\ w[k] = u[v[k + 1]] /\ q[k] = p[k + 1]
      BY <1>1, <1>4, <2>1, <2>3
    <3>2. v[k + 1] = After(v[k], p[k + 1]) /\ u[After(v[k], p[k + 1])] = After(u[v[k]], p[k + 1])
      <4>1. k + 1 \in i + 1 .. n
        BY <1>1, <2>1, <2>3
      <4> QED
        BY <1>3, <1>4, <2>1, <4>1
    <3> QED
      BY <2>3, <3>1, <3>2
  <2>4. CASE i < k
    <3>1. ~ (k < i) /\ ~ (k - 1 < i) /\ k + 1 \in i + 1 .. n
      BY <1>1, <2>1, <2>4
    <3>2. w[k] = u[v[k + 1]] /\ w[k - 1] = u[v[k - 1 + 1]] /\ q[k] = p[k + 1]
      BY <1>1, <2>1, <3>1
    <3>3. v[k + 1] = After(v[k], p[k + 1]) /\ u[After(v[k], p[k + 1])] = After(u[v[k]], p[k + 1])
      BY <1>3, <1>4, <2>1, <3>1
    <3> QED
      BY <2>1, <3>2, <3>3
  <2> QED
    BY <1>1, <2>2, <2>3, <2>4
<1>8. Chain(q, w)
  <2> HIDE DEF w
  <2> QED
    BY <1>1, <1>5, <1>7 DEF Chain
<1> QED
  BY <1>1, <1>6, <1>8 DEF Explains, q, n

\* What is opened above the first i items leaves alone what it does not push on.
LEMMA Unaffected ==
  ASSUME NEW p \in Seq(Items), NEW v, Chain(p, v), NEW i \in 0 .. Len(p)
  PROVE  /\ (\A k \in i + 1 .. Len(p) : p[k].kind \notin Starters) =>
              v[Len(p)].nested = v[i].nested
         /\ (\A k \in i + 1 .. Len(p) : p[k].kind \notin Sections) =>
              v[Len(p)].off >= v[i].off
         /\ (\A k \in i + 1 .. Len(p) : p[k].kind \notin Sections \cup {"off"}) =>
              v[Len(p)].off = v[i].off
<1> DEFINE n == Len(p)
           A == \A k \in i + 1 .. n : p[k].kind \notin Starters
           B == \A k \in i + 1 .. n : p[k].kind \notin Sections
           C == \A k \in i + 1 .. n : p[k].kind \notin Sections \cup {"off"}
           S == {k \in Nat : i + k <= n => /\ A => v[i + k].nested = v[i].nested
                                           /\ B => v[i + k].off >= v[i].off
                                           /\ C => v[i + k].off = v[i].off}
<1>1. n \in Nat /\ i \in 0 .. n /\ (\A k \in 0 .. n : v[k] \in Views)
      /\ \A k \in 1 .. n : v[k] = After(v[k - 1], p[k])
  BY ChainTyped
<1> HIDE DEF n
<1>2. 0 \in S
  <2>1. v[i].off \in Nat /\ i + 0 = i
    BY <1>1 DEF Views
  <2> QED
    BY <2>1
<1>3. ASSUME NEW k \in Nat, k \in S PROVE k + 1 \in S
  <2> DEFINE j == i + k + 1
  <2> SUFFICES ASSUME j <= n
               PROVE  /\ A => v[j].nested = v[i].nested
                      /\ B => v[j].off >= v[i].off
                      /\ C => v[j].off = v[i].off
    <3>1. i + (k + 1) = j
      BY <1>1
    <3> QED
      BY <3>1
  <2>1. /\ j \in i + 1 .. n /\ j \in 1 .. n /\ j - 1 = i + k /\ j - 1 \in 0 .. n /\ i + k <= n
    BY <1>1
  <2>2. /\ A => v[j - 1].nested = v[i].nested
        /\ B => v[j - 1].off >= v[i].off
        /\ C => v[j - 1].off = v[i].off
    BY <1>3, <2>1
  <2> HIDE DEF j
  <2>3. v[j] = After(v[j - 1], p[j]) /\ v[j - 1].off \in Nat /\ v[i].off \in Nat
    BY <1>1, <2>1 DEF Views
  <2>4. A => v[j].nested = v[i].nested
    <3> SUFFICES ASSUME A PROVE v[j].nested = v[i].nested
      OBVIOUS
    <3>1. p[j].kind \notin Starters
      BY <2>1
    <3> QED
      BY <2>2, <2>3, <3>1 DEF After
  <2>5. B => v[j].off >= v[i].off
    <3> SUFFICES ASSUME B PROVE v[j].off >= v[i].off
      OBVIOUS
    <3>1. p[j].kind \notin Sections
      BY <2>1
    <3>2. v[j].off = v[j - 1].off \/ v[j].off = v[j - 1].off + 1
      BY <2>3, <3>1 DEF After
    <3> QED
      BY <2>2, <2>3, <3>2
  <2>6. C => v[j].off = v[i].off
    <3> SUFFICES ASSUME C PROVE v[j].off = v[i].off
      OBVIOUS
    <3>1. p[j].kind \notin Sections /\ p[j].kind # "off"
      BY <2>1
    <3> QED
      BY <2>2, <2>3, <3>1 DEF After
  <2> QED
    BY <2>4, <2>5, <2>6
<1>4. n - i \in S
  <2>1. n - i \in Nat
    BY <1>1
  <2> HIDE DEF S
  <2> QED
    BY <1>2, <1>3, <2>1, Induction
<1>5. i + (n - i) = n
  BY <1>1
<1> QED
  BY <1>4, <1>5, <1>1 DEF n
-----------------------------------------------------------------------------
(***************************************************************************)
(* What opening and closing does to the history.                           *)
(***************************************************************************)
LEMMA PushOuts ==
  ASSUME NEW p \in Seq(Items), NEW it \in Items
  PROVE  Outs(Append(p, it)) = Outs(p) \cup ({it.out} \ {Dummy})
<1>1. /\ Len(p) \in Nat /\ Len(Append(p, it)) = Len(p) + 1
      /\ \A i \in 1 .. Len(p) : Append(p, it)[i] = p[i]
      /\ Append(p, it)[Len(p) + 1] = it
  BY PushItem
<1>. QED
  BY <1>1 DEF Outs

LEMMA CloseOuts ==
  ASSUME NEW p \in Seq(Items), NEW i \in 1 .. Len(p)
  PROVE  Outs(p) = Outs(Closed(p, i)) \cup ({p[i].out} \ {Dummy})
<1> DEFINE q == Closed(p, i)
<1>1. /\ Len(q) = Len(p) - 1
      /\ \A k \in 1 .. Len(p) - 1 : Old(i, k) \in 1 .. Len(p) /\ q[k] = p[Old(i, k)]
      /\ \A j \in (1 .. Len(p)) \ {i} : New(i, j) \in 1 .. Len(p) - 1 /\ q[New(i, j)] = p[j]
  BY CloseItem
<1> HIDE DEF q
<1>2. Outs(q) \subseteq Outs(p)
  BY <1>1 DEF Outs
<1>3. {p[i].out} \ {Dummy} \subseteq Outs(p)
  BY DEF Outs
<1>4. ASSUME NEW j \in 1 .. Len(p), p[j].out # Dummy
      PROVE  p[j].out \in Outs(q) \cup ({p[i].out} \ {Dummy})
  <2>1. CASE j = i
    BY <1>4, <2>1
  <2>2. CASE j # i
    <3>1. New(i, j) \in 1 .. Len(q) /\ q[New(i, j)] = p[j]
      BY <1>1, <2>2
    <3>2. q[New(i, j)].out \in Outs(q)
      BY <1>4, <3>1 DEF Outs
    <3> QED
      BY <3>1, <3>2
  <2> QED
    BY <2>1, <2>2
<1>5. Outs(p) \subseteq Outs(q) \cup ({p[i].out} \ {Dummy})
  BY <1>4 DEF Outs
<1> QED
  BY <1>2, <1>3, <1>5 DEF q

\* Statements and sections have an output, and no two of them have the same.
LEMMA Own ==
  ASSUME NEW p \in Seq(Items), WellNested(p), NEW i \in 1 .. Len(p), p[i].kind \in Starters
  PROVE  /\ p[i].out \in Outputs /\ p[i].out \in Outs(p)
         /\ \A j \in 1 .. Len(p) : p[j].kind \in Starters /\ p[j].out = p[i].out => j = i
         /\ \A j \in 1 .. i - 1 : p[j].out # p[i].out
<1>1. p[i].out \in Outputs /\ \A j \in 1 .. i - 1 : p[j].out # p[i].out
  BY DEF WellNested
<1>2. p[i].out \in Outs(p)
  BY <1>1, OutputsAssumption DEF Outs
<1>3. ASSUME NEW j \in 1 .. Len(p), p[j].kind \in Starters, p[j].out = p[i].out
      PROVE  j = i
  <2>1. \A k \in 1 .. j - 1 : p[k].out # p[j].out
    BY <1>3 DEF WellNested
  <2>2. ~ (j < i)
    BY <1>1, <1>3
  <2>3. ~ (i < j)
    BY <1>3, <2>1
  <2> QED
    BY <2>2, <2>3
<1> QED
  BY <1>1, <1>2, <1>3

LEMMA PushWellNested ==
  ASSUME NEW p \in Seq(Items), NEW it \in Items, WellNested(p),
         it.kind = "part" => \E j \in 1 .. Len(p) :
           p[j].kind = "section" /\ p[j].out = it.out /\ OnlyMarks(p, j, Len(p) + 1),
         it.kind \in Starters => it.out \in Outputs \ Outs(p),
         it.kind \in {"off", "mark"} => it.out = Dummy
  PROVE  WellNested(Append(p, it))
<1> DEFINE q == Append(p, it)  n == Len(p)
<1>1. /\ n \in Nat /\ Len(q) = n + 1
      /\ \A i \in 1 .. n : q[i] = p[i]
      /\ q[n + 1] = it
  BY PushItem
<1>2. it.kind \in Starters => \A j \in 1 .. n : p[j].out # it.out
  BY OutputsAssumption DEF Outs
<1> SUFFICES ASSUME NEW i \in 1 .. Len(q)
             PROVE  /\ q[i].kind = "part" =>
                         \E j \in 1 .. i - 1 : q[j].kind = "section" /\ q[j].out = q[i].out
                                               /\ OnlyMarks(q, j, i)
                    /\ q[i].kind \in Starters =>
                         q[i].out \in Outputs /\ \A j \in 1 .. i - 1 : q[j].out # q[i].out
                    /\ q[i].kind \in {"off", "mark"} => q[i].out = Dummy
  BY DEF WellNested
<1> HIDE DEF q, n
<1>3. CASE i = n + 1
  <2>1. it.kind = "part" => \E j \in 1 .. n : p[j].kind = "section" /\ p[j].out = it.out
                                              /\ OnlyMarks(p, j, n + 1)
    BY DEF n
  <2>2. \A j \in 1 .. n : OnlyMarks(p, j, n + 1) => OnlyMarks(q, j, n + 1)
    BY <1>1 DEF OnlyMarks
  <2>3. q[i] = it /\ i - 1 = n /\ \A j \in 1 .. n : q[j] = p[j]
    BY <1>1, <1>3
  <2>4. it.kind = "part" => \E j \in 1 .. n : q[j].kind = "section" /\ q[j].out = it.out
                                              /\ OnlyMarks(q, j, n + 1)
    BY <2>1, <2>2, <2>3
  <2>5. it.kind \in Starters => it.out \in Outputs /\ \A j \in 1 .. n : q[j].out # it.out
    BY <1>2, <2>3
  <2>6. it.kind \in {"off", "mark"} => it.out = Dummy
    OBVIOUS
  <2>7. \A j \in 1 .. n : OnlyMarks(q, j, n + 1) <=> OnlyMarks(q, j, i)
    BY <1>3
  <2>8. q[i].kind = "part" => \E j \in 1 .. i - 1 : q[j].kind = "section" /\ q[j].out = q[i].out
                                                    /\ OnlyMarks(q, j, i)
    <3> SUFFICES ASSUME it.kind = "part"
                 PROVE  \E j \in 1 .. n : q[j].kind = "section" /\ q[j].out = it.out
                                          /\ OnlyMarks(q, j, i)
      BY <2>3
    <3> QED
      BY <2>4, <2>7
  <2>9. q[i].kind \in Starters =>
          q[i].out \in Outputs /\ \A j \in 1 .. i - 1 : q[j].out # q[i].out
    BY <2>3, <2>5
  <2> QED
    BY <2>3, <2>6, <2>8, <2>9
<1>4. CASE i # n + 1
  <2>1. i \in 1 .. n /\ q[i] = p[i] /\ \A j \in 1 .. i - 1 : q[j] = p[j]
    <3>1. i \in 1 .. n
      BY <1>1, <1>4
    <3>2. \A j \in 1 .. i - 1 : j \in 1 .. n
      BY <1>1, <3>1
    <3> QED
      BY <1>1, <3>1, <3>2
  <2>2. \A j \in 1 .. i - 1 : OnlyMarks(p, j, i) => OnlyMarks(q, j, i)
    BY <2>1 DEF OnlyMarks
  <2>3. /\ p[i].kind = "part" =>
             \E j \in 1 .. i - 1 : p[j].kind = "section" /\ p[j].out = p[i].out /\ OnlyMarks(p, j, i)
        /\ p[i].kind \in Starters =>
             p[i].out \in Outputs /\ \A j \in 1 .. i - 1 : p[j].out # p[i].out
        /\ p[i].kind \in {"off", "mark"} => p[i].out = Dummy
    BY <2>1 DEF WellNested, n
  <2> QED
    BY <2>1, <2>2, <2>3
<1> QED
  BY <1>3, <1>4

LEMMA Between ==
  ASSUME NEW i \in Nat, NEW j \in Nat, NEW k \in Nat, NEW l \in Nat,
         j # i, New(i, j) < l, l < k
  PROVE  j < Old(i, l) /\ Old(i, l) < Old(i, k)
  BY DEF Old, New

\* A section may only be closed when no part is open above it.
LEMMA CloseWellNested ==
  ASSUME NEW p \in Seq(Items), WellNested(p), NEW i \in 1 .. Len(p),
         p[i].kind = "section" => \A k \in i + 1 .. Len(p) : p[k].kind # "part"
  PROVE  WellNested(Closed(p, i))
<1> DEFINE q == Closed(p, i)  n == Len(p)
<1>1. /\ n \in Nat \ {0} /\ i \in 1 .. n /\ Len(q) = n - 1
      /\ \A k \in 1 .. n - 1 : q[k] = p[Old(i, k)] /\ Old(i, k) \in (1 .. n) \ {i}
      /\ \A j \in (1 .. n) \ {i} : New(i, j) \in 1 .. n - 1 /\ Old(i, New(i, j)) = j
                                   /\ q[New(i, j)] = p[j]
  BY CloseItem
<1>2. p[i].kind = "section" => \A k \in i + 1 .. n : p[k].kind # "part"
  OBVIOUS
<1> SUFFICES ASSUME NEW k \in 1 .. Len(q)
             PROVE  /\ q[k].kind = "part" =>
                         \E j \in 1 .. k - 1 : q[j].kind = "section" /\ q[j].out = q[k].out
                                               /\ OnlyMarks(q, j, k)
                    /\ q[k].kind \in Starters =>
                         q[k].out \in Outputs /\ \A j \in 1 .. k - 1 : q[j].out # q[k].out
                    /\ q[k].kind \in {"off", "mark"} => q[k].out = Dummy
  BY DEF WellNested
<1> DEFINE m == Old(i, k)
<1>3. /\ p[m].kind = "part" =>
           \E j \in 1 .. m - 1 : p[j].kind = "section" /\ p[j].out = p[m].out /\ OnlyMarks(p, j, m)
      /\ p[m].kind \in Starters =>
           p[m].out \in Outputs /\ \A j \in 1 .. m - 1 : p[j].out # p[m].out
      /\ p[m].kind \in {"off", "mark"} => p[m].out = Dummy
  BY <1>1 DEF WellNested
<1> HIDE DEF q, n
<1>4. k \in 1 .. n - 1 /\ q[k] = p[m] /\ m \in (1 .. n) \ {i}
  BY <1>1
<1>5. q[k].kind = "part" => \E j \in 1 .. k - 1 : q[j].kind = "section" /\ q[j].out = q[k].out
                                                  /\ OnlyMarks(q, j, k)
  <2> SUFFICES ASSUME q[k].kind = "part"
               PROVE  \E j \in 1 .. k - 1 : q[j].kind = "section" /\ q[j].out = q[k].out
                                            /\ OnlyMarks(q, j, k)
    OBVIOUS
  <2>1. PICK j \in 1 .. m - 1 : p[j].kind = "section" /\ p[j].out = p[m].out /\ OnlyMarks(p, j, m)
    BY <1>3, <1>4
  <2>2. j # i
    BY <1>1, <1>2, <1>4, <2>1
  <2>3. j \in (1 .. n) \ {i}
    BY <1>1, <1>4, <2>1, <2>2
  <2>4. New(i, j) \in 1 .. k - 1
    BY <1>1, <1>4, <2>1, <2>3 DEF New, Old
  <2>5. OnlyMarks(q, New(i, j), k)
    <3> SUFFICES ASSUME NEW l \in New(i, j) + 1 .. k - 1 PROVE q[l].kind = "mark"
      BY DEF OnlyMarks
    <3>1. l \in Nat /\ k \in Nat /\ j \in Nat /\ New(i, j) \in Nat /\ New(i, j) < l /\ l < k
      BY <1>4, <2>3, <2>4
    <3>2. j < Old(i, l) /\ Old(i, l) < m
      BY <1>1, <2>2, <3>1, Between
    <3>3. l \in 1 .. n - 1 /\ Old(i, l) \in j + 1 .. m - 1
      <4>1. l \in 1 .. n - 1
        BY <1>1, <1>4, <3>1
      <4>2. Old(i, l) \in Int /\ m \in Int
        BY <1>1, <1>4, <4>1
      <4> QED
        BY <3>1, <3>2, <4>1, <4>2
    <3> QED
      BY <1>1, <2>1, <3>3 DEF OnlyMarks
  <2> QED
    BY <1>1, <1>4, <2>1, <2>3, <2>4, <2>5
<1>6. q[k].kind \in Starters => q[k].out \in Outputs /\ \A j \in 1 .. k - 1 : q[j].out # q[k].out
  <2> SUFFICES ASSUME q[k].kind \in Starters, NEW j \in 1 .. k - 1 PROVE q[j].out # q[k].out
    BY <1>3, <1>4
  <2>1. j \in 1 .. n - 1 /\ Old(i, j) \in 1 .. m - 1
    BY <1>1, <1>4 DEF Old
  <2> QED
    BY <1>1, <1>3, <1>4, <2>1
<1> QED
  BY <1>3, <1>4, <1>5, <1>6

LEMMA PushMasks ==
  ASSUME NEW p \in Seq(Items), NEW it \in Items, NEW m, MasksTell(p, m),
         it.kind = "plain" => ~ Continues(m[it.out]),
         it.kind \in Sections => Continues(m[it.out]),
         it.kind \in Starters => (it.kind = "section" <=> "continued_expected" \in m[it.out])
  PROVE  MasksTell(Append(p, it), m)
<1>1. /\ Len(p) \in Nat /\ Len(Append(p, it)) = Len(p) + 1
      /\ \A i \in 1 .. Len(p) : Append(p, it)[i] = p[i]
      /\ Append(p, it)[Len(p) + 1] = it
  BY PushItem
<1>. QED
  BY <1>1 DEF MasksTell

LEMMA CloseMasks ==
  ASSUME NEW p \in Seq(Items), NEW m, MasksTell(p, m), NEW i \in 1 .. Len(p)
  PROVE  MasksTell(Closed(p, i), m)
<1>1. /\ Len(Closed(p, i)) = Len(p) - 1
      /\ \A k \in 1 .. Len(p) - 1 : Closed(p, i)[k] = p[Old(i, k)] /\ Old(i, k) \in 1 .. Len(p)
  BY CloseItem
<1>. QED
  BY <1>1 DEF MasksTell

\* A mask that gained other bits tells the same.
Similar(a, b) ==
  /\ Continues(a) <=> Continues(b)
  /\ "continued_expected" \in a <=> "continued_expected" \in b

LEMMA ChangeMasks ==
  ASSUME NEW p \in Seq(Items), NEW m, NEW n, MasksTell(p, m),
         \A i \in 1 .. Len(p) : p[i].kind \in Starters => Similar(m[p[i].out], n[p[i].out])
  PROVE  MasksTell(p, n)
  BY DEF MasksTell, Similar, Starters, Sections

LEMMA PopHistory ==
  ASSUME NEW p \in Seq(Items), p # <<>>, WellNested(p)
  PROVE  /\ WellNested(Pop(p))
         /\ \A m : MasksTell(p, m) => MasksTell(Pop(p), m)
         /\ Top(p).kind \in Starters =>
              /\ Top(p).out \in Outputs /\ Top(p).out \in Outs(p)
              /\ \A j \in 1 .. Len(Pop(p)) : Pop(p)[j].out # Top(p).out
              /\ Outs(Pop(p)) = Outs(p) \ {Top(p).out}
         /\ Top(p).kind \notin Starters => Outs(Pop(p)) = Outs(p)
<1> DEFINE n == Len(p)
<1>1. /\ n \in Nat \ {0} /\ n \in 1 .. n /\ Pop(p) = Closed(p, n) /\ Pop(p) \in Seq(Items)
      /\ Len(Pop(p)) = n - 1 /\ \A j \in 1 .. n - 1 : Pop(p)[j] = p[j]
      /\ Top(p) = p[n] /\ Top(p) \in Items
  BY PopItem, ClosedTop
<1> HIDE DEF n
<1>2. WellNested(Pop(p)) /\ \A m : MasksTell(p, m) => MasksTell(Pop(p), m)
  BY <1>1, CloseWellNested, CloseMasks DEF n
<1>3. Outs(p) = Outs(Pop(p)) \cup ({Top(p).out} \ {Dummy})
  BY <1>1, CloseOuts DEF n
<1>4. CASE Top(p).kind \in Starters
  <2>1. /\ Top(p).out \in Outputs /\ Top(p).out \in Outs(p)
        /\ \A j \in 1 .. n - 1 : p[j].out # Top(p).out
    BY <1>1, <1>4, Own DEF n
  <2>2. \A j \in 1 .. Len(Pop(p)) : Pop(p)[j].out # Top(p).out
    BY <1>1, <2>1
  <2>3. Top(p).out \notin Outs(Pop(p))
    BY <2>2 DEF Outs
  <2> QED
    BY <1>2, <1>3, <1>4, <2>1, <2>2, <2>3
<1>5. CASE Top(p).kind = "part"
  <2>1. PICK j \in 1 .. n - 1 : p[j].out = Top(p).out
    BY <1>1, <1>5 DEF WellNested, n
  <2>2. {Top(p).out} \ {Dummy} \subseteq Outs(Pop(p))
    BY <1>1, <2>1 DEF Outs
  <2> QED
    BY <1>2, <1>3, <1>5, <2>2 DEF Starters, Sections
<1>6. CASE Top(p).kind \in {"off", "mark"}
  <2>1. Top(p).out = Dummy
    BY <1>1, <1>6 DEF WellNested, n
  <2> QED
    BY <1>2, <1>3, <1>6, <2>1 DEF Starters, Sections
<1> QED
  BY <1>1, <1>4, <1>5, <1>6 DEF Items, Kinds, Statements, Starters, Sections

(***************************************************************************)
(* What closing an item does to the view, whatever is open above it.       *)
(***************************************************************************)
LEMMA CloseSectionView ==
  ASSUME NEW p \in Seq(Items), WellNested(p), NEW view, Explains(p, view), NEW i \in 1 .. Len(p),
         p[i].kind = "section", \A k \in i + 1 .. Len(p) : p[k].kind = "mark",
         view.nested # <<>>, view.saved # <<>>
  PROVE  Explains(Closed(p, i), [nested |-> Pop(view.nested), indent |-> Minus(view.indent, 4),
                                 off |-> Top(view.saved), saved |-> Pop(view.saved)])
<1> DEFINE without(x) == [nested |-> Pop(x.nested), indent |-> Minus(x.indent, 4),
                          off |-> Top(x.saved), saved |-> Pop(x.saved)]
           u == [x \in Views |-> IF x.nested # <<>> /\ x.saved # <<>> THEN without(x) ELSE x]
<1>1. PICK v : Chain(p, v) /\ v[Len(p)] = view
  BY DEF Explains
<1>2. /\ \A k \in 1 .. Len(p) : v[k - 1] \in Views /\ v[k] \in Views /\ v[k] = After(v[k - 1], p[k])
      /\ view \in Views
  BY <1>1, ChainTyped
<1>3. ASSUME NEW x \in Views, x.nested # <<>>, x.saved # <<>> PROVE without(x) \in Views
  <2>1. Pop(x.nested) \in Seq(Outputs) /\ Pop(x.saved) \in Seq(Nat) /\ Top(x.saved) \in Nat
    BY <1>3, PopProperties DEF Views
  <2>2. Minus(x.indent, 4) \in 0 .. Width - 1
    BY IndentArithmetic, WidthType DEF Views
  <2> QED
    BY <2>1, <2>2 DEF Views
<1>4. u \in [Views -> Views]
  <2> HIDE DEF without
  <2> QED
    BY <1>3
<1>5. u[v[i]] = v[i - 1]
  <2> DEFINE a == v[i - 1]
  <2>1. /\ a \in Views /\ a.nested \in Seq(Outputs) /\ a.saved \in Seq(Nat) /\ a.off \in Nat
        /\ a.indent \in 0 .. Width - 1
        /\ a = [nested |-> a.nested, indent |-> a.indent, off |-> a.off, saved |-> a.saved]
        /\ p[i].out \in Outputs
    BY <1>2, Own DEF Views, Starters, Sections
  <2>2. /\ v[i] \in Views
        /\ v[i].nested = Append(a.nested, p[i].out) /\ v[i].indent = Plus(a.indent, 4)
        /\ v[i].saved = Append(a.saved, a.off)
    <3>1. v[i] \in Views /\ v[i] = After(a, p[i])
      BY <1>2
    <3>2. p[i].kind = "section"
      OBVIOUS
    <3> HIDE DEF a
    <3> QED
      BY <3>1, <3>2 DEF After, Starters, Sections
  <2> HIDE DEF a
  <2>3. /\ v[i].nested # <<>> /\ Pop(v[i].nested) = a.nested
        /\ v[i].saved # <<>> /\ Pop(v[i].saved) = a.saved /\ Top(v[i].saved) = a.off
    <3>1. \A s \in Seq(Outputs), o \in Outputs : Append(s, o) # <<>> /\ Pop(Append(s, o)) = s
      BY AppendTopPop
    <3>2. \A s \in Seq(Nat), n \in Nat :
            Append(s, n) # <<>> /\ Pop(Append(s, n)) = s /\ Top(Append(s, n)) = n
      BY AppendTopPop
    <3>3. Append(a.nested, p[i].out) # <<>> /\ Pop(Append(a.nested, p[i].out)) = a.nested
      BY <2>1, <3>1, Zenon
    <3>4. /\ Append(a.saved, a.off) # <<>> /\ Pop(Append(a.saved, a.off)) = a.saved
          /\ Top(Append(a.saved, a.off)) = a.off
      BY <2>1, <3>2, Zenon
    <3> QED
      BY <2>2, <3>3, <3>4, Zenon
  <2>4. Minus(v[i].indent, 4) = a.indent
    BY <2>1, <2>2, IndentArithmetic, WidthType
  <2>5. u[v[i]] = without(v[i])
    BY <2>2, <2>3
  <2> QED
    BY <2>1, <2>3, <2>4, <2>5 DEF a
<1>6. ASSUME NEW j \in i + 1 .. Len(p)
      PROVE  u[After(v[j - 1], p[j])] = After(u[v[j - 1]], p[j])
  <2> DEFINE x == v[j - 1]  n == p[j].n  y == After(x, p[j])
  <2>1. x \in Views /\ y \in Views /\ p[j].kind = "mark" /\ n \in 0 .. Width - 1
    <3>1. j \in 1 .. Len(p)
      OBVIOUS
    <3>2. p[j] \in Items
      BY <3>1
    <3> QED
      BY <1>2, <3>1, <3>2 DEF Items
  <2>2. x.indent \in 0 .. Width - 1 /\ Minus(Minus(x.indent, n), 4) = Minus(Minus(x.indent, 4), n)
    BY <2>1, MinusCommutes, WidthType DEF Views
  <2>3. y = [nested |-> x.nested, indent |-> Minus(x.indent, n), off |-> x.off, saved |-> x.saved]
    BY <2>1 DEF After, Starters, Sections
  <2> HIDE DEF x, y, n
  <2>4. CASE x.nested # <<>> /\ x.saved # <<>>
    <3>1. u[y] = without(y) /\ u[x] = without(x)
      BY <2>1, <2>3, <2>4
    <3>2. After(without(x), p[j]) = [nested |-> Pop(x.nested), indent |-> Minus(Minus(x.indent, 4), n),
                                     off |-> Top(x.saved), saved |-> Pop(x.saved)]
      BY <2>1 DEF After, Starters, Sections, n
    <3> QED
      BY <2>2, <2>3, <3>1, <3>2 DEF x, y
  <2>5. CASE ~ (x.nested # <<>> /\ x.saved # <<>>)
    <3>1. u[y] = y /\ u[x] = x
      BY <2>1, <2>3, <2>5
    <3> QED
      BY <3>1 DEF x, y
  <2> QED
    BY <2>4, <2>5
<1>7. u[v[Len(p)]] = without(view)
  BY <1>1, <1>2
<1> HIDE DEF u
<1> QED
  BY <1>1, <1>4, <1>5, <1>6, <1>7, CloseChain

LEMMA CloseOffView ==
  ASSUME NEW p \in Seq(Items), NEW view, Explains(p, view), NEW i \in 1 .. Len(p),
         p[i].kind = "off", \A k \in i + 1 .. Len(p) : p[k].kind \notin Sections \cup {"off"},
         view.off > 0
  PROVE  Explains(Closed(p, i), [nested |-> view.nested, indent |-> view.indent,
                                 off |-> view.off - 1, saved |-> view.saved])
<1> DEFINE without(x) == [nested |-> x.nested, indent |-> x.indent, off |-> x.off - 1,
                          saved |-> x.saved]
           u == [x \in Views |-> IF x.off > 0 THEN without(x) ELSE x]
<1>1. PICK v : Chain(p, v) /\ v[Len(p)] = view
  BY DEF Explains
<1>2. /\ \A k \in 1 .. Len(p) : v[k - 1] \in Views /\ v[k] \in Views /\ v[k] = After(v[k - 1], p[k])
      /\ view \in Views
  BY <1>1, ChainTyped
<1>3. ASSUME NEW x \in Views, x.off > 0 PROVE without(x) \in Views
  BY <1>3 DEF Views
<1>4. u \in [Views -> Views]
  <2> HIDE DEF without
  <2> QED
    BY <1>3
<1>5. u[v[i]] = v[i - 1]
  <2> DEFINE a == v[i - 1]
  <2>1. /\ a \in Views /\ a.off \in Nat
        /\ a = [nested |-> a.nested, indent |-> a.indent, off |-> a.off, saved |-> a.saved]
    BY <1>2 DEF Views
  <2>2. /\ v[i] \in Views /\ v[i].nested = a.nested /\ v[i].indent = a.indent
        /\ v[i].off = a.off + 1 /\ v[i].saved = a.saved
    <3>1. v[i] \in Views /\ v[i] = After(a, p[i])
      BY <1>2
    <3>2. p[i].kind = "off"
      OBVIOUS
    <3> HIDE DEF a
    <3> QED
      BY <3>1, <3>2 DEF After, Starters, Sections
  <2> HIDE DEF a
  <2>3. v[i].off > 0 /\ v[i].off - 1 = a.off
    BY <2>1, <2>2
  <2>4. u[v[i]] = without(v[i])
    BY <2>2, <2>3
  <2> QED
    BY <2>1, <2>2, <2>3, <2>4 DEF a
<1>6. ASSUME NEW j \in i + 1 .. Len(p)
      PROVE  u[After(v[j - 1], p[j])] = After(u[v[j - 1]], p[j])
  <2> DEFINE x == v[j - 1]  y == After(x, p[j])
  <2>1. x \in Views /\ y \in Views /\ p[j].kind \notin Sections /\ p[j].kind # "off"
    <3>1. j \in 1 .. Len(p)
      OBVIOUS
    <3> QED
      BY <1>2, <3>1
  <2>2. /\ y.off = x.off /\ y.saved = x.saved
        /\ After(without(x), p[j]) = [nested |-> y.nested, indent |-> y.indent,
                                      off |-> x.off - 1, saved |-> x.saved]
    BY <2>1 DEF After
  <2> HIDE DEF x, y
  <2>3. CASE x.off > 0
    <3>1. u[y] = without(y) /\ u[x] = without(x)
      BY <2>1, <2>2, <2>3
    <3> QED
      BY <2>2, <3>1 DEF x, y
  <2>4. CASE ~ (x.off > 0)
    <3>1. u[y] = y /\ u[x] = x
      BY <2>1, <2>2, <2>4
    <3> QED
      BY <3>1 DEF x, y
  <2> QED
    BY <2>3, <2>4
<1>7. u[v[Len(p)]] = without(view)
  BY <1>1, <1>2
<1> HIDE DEF u
<1> QED
  BY <1>1, <1>4, <1>5, <1>6, <1>7, CloseChain

LEMMA CloseMarkView ==
  ASSUME NEW p \in Seq(Items), NEW view, Explains(p, view), NEW i \in 1 .. Len(p),
         p[i].kind = "mark"
  PROVE  Explains(Closed(p, i), [nested |-> view.nested, indent |-> Plus(view.indent, p[i].n),
                                 off |-> view.off, saved |-> view.saved])
<1> DEFINE m == p[i].n
           without(x) == [nested |-> x.nested, indent |-> Plus(x.indent, m), off |-> x.off,
                          saved |-> x.saved]
           u == [x \in Views |-> without(x)]
<1>1. PICK v : Chain(p, v) /\ v[Len(p)] = view
  BY DEF Explains
<1>2. /\ \A k \in 1 .. Len(p) : v[k - 1] \in Views /\ v[k] \in Views /\ v[k] = After(v[k - 1], p[k])
      /\ view \in Views
  BY <1>1, ChainTyped
<1>3. m \in 0 .. Width - 1
  <2>1. p[i] \in Items
    OBVIOUS
  <2> QED
    BY <2>1 DEF Items
<1> HIDE DEF m
<1>4. u \in [Views -> Views]
  <2>1. ASSUME NEW x \in Views PROVE without(x) \in Views
    <3>1. Plus(x.indent, m) \in 0 .. Width - 1
      BY <1>3, IndentArithmetic DEF Views
    <3> QED
      BY <3>1 DEF Views
  <2> HIDE DEF without
  <2> QED
    BY <2>1
<1>5. u[v[i]] = v[i - 1]
  <2> DEFINE a == v[i - 1]
  <2>1. /\ a \in Views /\ a.indent \in 0 .. Width - 1
        /\ a = [nested |-> a.nested, indent |-> a.indent, off |-> a.off, saved |-> a.saved]
    BY <1>2 DEF Views
  <2>2. /\ v[i] \in Views /\ v[i].nested = a.nested /\ v[i].indent = Minus(a.indent, m)
        /\ v[i].off = a.off /\ v[i].saved = a.saved
    <3>1. v[i] \in Views /\ v[i] = After(a, p[i])
      BY <1>2
    <3>2. p[i].kind = "mark"
      OBVIOUS
    <3> HIDE DEF a
    <3> QED
      BY <3>1, <3>2 DEF After, Starters, Sections, m
  <2> HIDE DEF a
  <2>3. Plus(v[i].indent, m) = a.indent
    BY <1>3, <2>1, <2>2, IndentArithmetic
  <2> QED
    BY <2>1, <2>2, <2>3 DEF a
<1>6. ASSUME NEW j \in i + 1 .. Len(p)
      PROVE  u[After(v[j - 1], p[j])] = After(u[v[j - 1]], p[j])
  <2> DEFINE x == v[j - 1]  n == p[j].n  y == After(x, p[j])
  <2>1. x \in Views /\ y \in Views /\ n \in 0 .. Width - 1
    <3>1. j \in 1 .. Len(p)
      OBVIOUS
    <3>2. p[j] \in Items
      BY <3>1
    <3> QED
      BY <1>2, <3>1, <3>2 DEF Items
  <2>2. /\ x.indent \in 0 .. Width - 1
        /\ Plus(Plus(x.indent, 4), m) = Plus(Plus(x.indent, m), 4)
        /\ Plus(Minus(x.indent, n), m) = Minus(Plus(x.indent, m), n)
    <3>1. x.indent \in 0 .. Width - 1 /\ 4 \in 0 .. Width - 1
      BY <2>1, WidthType DEF Views
    <3> HIDE DEF x, n
    <3>2. Plus(Plus(x.indent, 4), m) = Plus(Plus(x.indent, m), 4)
      BY <1>3, <3>1, PlusCommutes
    <3>3. Plus(Minus(x.indent, n), m) = Minus(Plus(x.indent, m), n)
      BY <1>3, <2>1, <3>1, MinusCommutes
    <3> QED
      BY <3>1, <3>2, <3>3
  <2> HIDE DEF x, y
  <2>3. Plus(y.indent, m) = After(without(x), p[j]).indent
    BY <2>2 DEF y, After
  <2>4. /\ y.nested = After(without(x), p[j]).nested /\ y.off = After(without(x), p[j]).off
        /\ y.saved = After(without(x), p[j]).saved
    BY DEF y, After
  <2>5. After(without(x), p[j]) = [nested |-> After(without(x), p[j]).nested,
                                   indent |-> After(without(x), p[j]).indent,
                                   off |-> After(without(x), p[j]).off,
                                   saved |-> After(without(x), p[j]).saved]
    BY DEF After
  <2>6. u[y] = without(y) /\ u[x] = without(x)
    BY <2>1
  <2> QED
    BY <2>3, <2>4, <2>5, <2>6 DEF x, y
<1>7. u[v[Len(p)]] = without(view)
  BY <1>1, <1>2
<1> HIDE DEF u
<1> QED
  BY <1>1, <1>4, <1>5, <1>6, <1>7, CloseChain DEF m
-----------------------------------------------------------------------------
(***************************************************************************)
(* What start() and finish() do to the view, whether or not the output is  *)
(* nested in another.                                                      *)
(***************************************************************************)
LEMMA ViewTyped ==
  ASSUME TypeOK, CurrentOnTop
  PROVE  /\ Nested \in Seq(Outputs)
         /\ NextIndent \in 0 .. Width - 1
         /\ View \in Views
         /\ \A t \in Seq(Outputs), o \in Outputs : Nested = Append(t, o) => current = o
         /\ current # Dummy => current = Top(Nested) /\ Nested # <<>> /\ current \in Outputs
<1>1. Nested \in Seq(Outputs)
  BY AppendTopPop DEF TypeOK, CurrentOnTop, Nested
<1>2. NextIndent \in 0 .. Width - 1
  <2>1. Plus(indent, 4) \in 0 .. Width - 1
    BY IndentArithmetic, WidthType DEF TypeOK
  <2>. QED
    BY <2>1 DEF TypeOK, NextIndent
<1>3. View \in Views
  BY <1>1, <1>2 DEF TypeOK, View, Views
<1>4. \A t \in Seq(Outputs), o \in Outputs : Nested = Append(t, o) => current = o
  BY AppendTopPop DEF CurrentOnTop
<1>5. current # Dummy => current = Top(Nested) /\ Nested # <<>> /\ current \in Outputs
  BY <1>1, PopProperties DEF CurrentOnTop
<1>. QED
  BY <1>1, <1>2, <1>3, <1>4, <1>5

LEMMA WriteToTyped ==
  ASSUME TypeOK, NEW o \in Outputs, NEW s \in Streams,
         NEW ending \in {"newline", "nonewline", "open"}, WriteTo(o, s, ending)
  PROVE  /\ line' \in [Streams -> {"start", "nonewline"} \cup Outputs]
         /\ mixed' \in BOOLEAN
<1>1. line' \in [Streams -> {"start", "nonewline"} \cup Outputs]
  BY DEF TypeOK, WriteTo
<1>2. mixed' \in BOOLEAN
  BY DEF TypeOK, WriteTo, Joins
<1>. QED
  BY <1>1, <1>2

LEMMA StartStep ==
  ASSUME TypeOK, CurrentOnTop, NEW o, NEW m \in SUBSET MaskBits, Start(o, m)
  PROVE  /\ o \in Outputs \ live
         /\ live' = live \cup {o} /\ live' \subseteq Outputs
         /\ Nested' = Append(Nested, o)
         /\ NextIndent' = Plus(NextIndent, 4)
         /\ CurrentOnTop'
         /\ current' \in Outputs
         /\ output_state_stack' \in Seq(Outputs) /\ Len(output_state_stack') <= MaxSize
         /\ indent' \in 0 .. Width - 1
         /\ start_expected' \in BOOLEAN
         /\ unfinished_expected' \in BOOLEAN
         /\ mask' \in [Outputs -> SUBSET MaskBits]
         /\ mask'[o] \ {"cerr_cf"} = m \ {"cerr_cf"}
         /\ \A p \in Outputs \ {o} : mask'[p] = mask[p]
         /\ pending' \in [Outputs -> {"none", "text", "line"}]
         /\ line' \in [Streams -> {"start", "nonewline"} \cup Outputs]
         /\ mixed' \in BOOLEAN
<1>1. /\ o \in Outputs \ live /\ live' = live \cup {o} /\ live' \subseteq Outputs
      /\ current' = o /\ start_expected' = FALSE /\ unfinished_expected' = TRUE
      /\ output_state_stack' = Nested /\ indent' = NextIndent
  BY DEF Start, TypeOK
<1>2. Nested' = Append(Nested, o) /\ NextIndent' = Plus(NextIndent, 4)
  BY <1>1 DEF Nested, NextIndent
<1>3. CurrentOnTop'
  BY <1>1, <1>2, ViewTyped, AppendTopPop DEF CurrentOnTop
<1>4. output_state_stack' \in Seq(Outputs) /\ Len(output_state_stack') <= MaxSize
  BY <1>1, ViewTyped, MaxSizeAssumption DEF Start, Room, Nested, TypeOK, CurrentOnTop
<1>5. indent' \in 0 .. Width - 1
  BY <1>1, ViewTyped
<1>6. /\ mask' \in [Outputs -> SUBSET MaskBits]
      /\ mask'[o] \ {"cerr_cf"} = m \ {"cerr_cf"}
      /\ \A p \in Outputs \ {o} : mask'[p] = mask[p]
  <2>1. PICK k \in SUBSET {"cerr_cf"} : mask' = [mask EXCEPT ![o] = m \cup k]
    BY DEF Start
  <2>2. m \cup k \in SUBSET MaskBits
    BY DEF MaskBits, ControlFlags
  <2>. QED
    BY <1>1, <2>1, <2>2 DEF TypeOK
<1>7. pending' \in [Outputs -> {"none", "text", "line"}]
  BY DEF Start, TypeOK, Prefix
<1>8. /\ line' \in [Streams -> {"start", "nonewline"} \cup Outputs]
      /\ mixed' \in BOOLEAN
  <2>1. CASE Interrupts
    <3>1. current \in Outputs /\ Target(m) \in Streams /\ WriteTo(current, Target(m), "newline")
      BY <2>1, ViewTyped DEF Start, Interrupts, Target, Streams
    <3>. QED
      BY <3>1, WriteToTyped
  <2>2. CASE ~ Interrupts
    BY <2>2 DEF Start, TypeOK
  <2>. QED
    BY <2>1, <2>2
<1>. QED
  BY <1>1, <1>2, <1>3, <1>4, <1>5, <1>6, <1>7, <1>8

LEMMA FinishStep ==
  ASSUME TypeOK, CurrentOnTop, Finish
  PROVE  /\ current \in Outputs
         /\ live' = live \ {current}
         /\ Nested' = Pop(Nested)
         /\ NextIndent' = Minus(NextIndent, 4)
         /\ CurrentOnTop'
         /\ current' \in Outputs \cup {Dummy}
         /\ output_state_stack' \in Seq(Outputs) /\ Len(output_state_stack') <= MaxSize
         /\ indent' \in 0 .. Width - 1
         /\ start_expected' \in BOOLEAN
         /\ unfinished_expected' \in BOOLEAN
         /\ mask' \in [Outputs -> SUBSET MaskBits]
         /\ \A p \in Outputs : Similar(mask[p], mask'[p])
         /\ pending' \in [Outputs -> {"none", "text", "line"}]
         /\ line' \in [Streams -> {"start", "nonewline"} \cup Outputs]
         /\ mixed' \in BOOLEAN
<1>1. /\ current \in Outputs /\ Nested # <<>> /\ Nested \in Seq(Outputs)
      /\ live' = live \ {current}
      /\ start_expected' = TRUE /\ unfinished_expected' = FALSE
  BY ViewTyped DEF Finish, Deleted
<1>2. output_state_stack' = Pop(Nested) /\ Nested' = Pop(Nested)
  <2>1. PoppedStack = Pop(Nested)
    BY <1>1, AppendTopPop DEF PoppedStack, Nested, TypeOK
  <2>. QED
    BY <1>1, <2>1 DEF Finish, Nested
<1>3. NextIndent' = Minus(NextIndent, 4) /\ indent' \in 0 .. Width - 1
  <2>1. indent \in 0 .. Width - 1 /\ Minus(indent, 4) \in 0 .. Width - 1
        /\ Minus(Plus(indent, 4), 4) = indent
    BY IndentArithmetic, WidthType DEF TypeOK
  <2>. QED
    BY <1>1, <2>1 DEF Finish, PoppedIndent, NextIndent
<1>4. output_state_stack' \in Seq(Outputs) /\ Len(output_state_stack') <= MaxSize
  <2>1. Len(Nested) <= MaxSize + 1
    BY <1>1, AppendTopPop, MaxSizeAssumption DEF Nested, TypeOK
  <2>2. Pop(Nested) \in Seq(Outputs) /\ Len(Pop(Nested)) = Len(Nested) - 1
    BY <1>1, PopProperties
  <2>. QED
    BY <1>1, <1>2, <2>1, <2>2, MaxSizeAssumption
<1>5. current' = (IF output_state_stack' = <<>> THEN Dummy ELSE Top(output_state_stack'))
  BY DEF Finish
<1>6. CurrentOnTop' /\ current' \in Outputs \cup {Dummy}
  BY <1>1, <1>2, <1>4, <1>5, PopProperties DEF CurrentOnTop
<1>7. mask' \in [Outputs -> SUBSET MaskBits] /\ \A p \in Outputs : Similar(mask[p], mask'[p])
  <2>1. CASE mask' = mask
    BY <2>1 DEF TypeOK, Similar
  <2>2. CASE /\ output_state_stack' # <<>>
             /\ mask' = [mask EXCEPT ![Top(output_state_stack')] = @ \cup {"flush_cf"}]
    <3>1. Top(output_state_stack') \in Outputs
      BY <1>4, <2>2, PopProperties
    <3>2. "flush_cf" \in MaskBits
      BY DEF MaskBits, ControlFlags
    <3>. QED
      BY <2>2, <3>1, <3>2 DEF TypeOK, Similar, Continues
  <2>. QED
    BY <2>1, <2>2 DEF Finish
<1>8. /\ pending' \in [Outputs -> {"none", "text", "line"}]
      /\ line' \in [Streams -> {"start", "nonewline"} \cup Outputs]
      /\ mixed' \in BOOLEAN
  <2>1. PICK ending \in {"newline", "nonewline", "open"} :
          WriteTo(current, Target(mask[current]), ending)
    BY DEF Finish, WriteLast
  <2>2. Target(mask[current]) \in Streams
    BY DEF Target, Streams
  <2>3. pending' \in [Outputs -> {"none", "text", "line"}]
    BY <1>1 DEF Finish, WriteLast, TypeOK
  <2>. QED
    BY <1>1, <2>1, <2>2, <2>3, WriteToTyped
<1>. QED
  BY <1>1, <1>2, <1>3, <1>4, <1>6, <1>7, <1>8
-----------------------------------------------------------------------------
(***************************************************************************)
(* What the inductive invariant says of the innermost items.               *)
(***************************************************************************)
LEMMA Explained ==
  ASSUME IInv
  PROVE  LeavesNoTrace /\ prog \in Seq(Items)
<1>1. prog \in Seq(Items)
  BY DEF IInv, TypeOK
<1>2. PICK v : Chain(prog, v) /\ v[Len(prog)] = View
  BY DEF IInv, Explains
<1> QED
  BY <1>1, <1>2, ViewOfChain DEF LeavesNoTrace

LEMMA InnermostIsCurrent ==
  ASSUME IInv, NEW i \in 1 .. Len(prog), prog[i].kind \in Starters,
         \A k \in i + 1 .. Len(prog) : prog[k].kind \notin Starters
  PROVE  current = prog[i].out /\ current \in Outputs
<1>1. TypeOK /\ CurrentOnTop /\ prog \in Seq(Items) /\ WellNested(prog)
  BY DEF IInv, TypeOK
<1>2. PICK v : Chain(prog, v) /\ v[Len(prog)] = View
  BY DEF IInv, Explains
<1>3. i \in 0 .. Len(prog)
  BY <1>1
<1>4. View.nested = v[i].nested
  BY <1>1, <1>2, <1>3, Unaffected
<1>5. v[i] = After(v[i - 1], prog[i]) /\ v[i - 1] \in Views
  BY <1>1, <1>2, ChainTyped
<1>6. Nested = Append(v[i - 1].nested, prog[i].out) /\ v[i - 1].nested \in Seq(Outputs)
  BY <1>4, <1>5 DEF View, After, Views
<1>7. prog[i].out \in Outputs
  BY <1>1, Own
<1> QED
  BY <1>1, <1>6, <1>7, ViewTyped

LEMMA InnermostExists ==
  ASSUME IInv, current # Dummy
  PROVE  \E i \in 1 .. Len(prog) :
           /\ prog[i].kind \in Starters /\ prog[i].out = current
           /\ \A k \in i + 1 .. Len(prog) : prog[k].kind \notin Starters
<1> DEFINE S == {i \in 1 .. Len(prog) : prog[i].kind \in Starters}
<1>1. TypeOK /\ CurrentOnTop /\ prog \in Seq(Items) /\ Len(prog) \in Nat
  BY DEF IInv, TypeOK
<1>2. S # {}
  <2> SUFFICES ASSUME S = {} PROVE FALSE
    OBVIOUS
  <2>1. PICK v : Chain(prog, v) /\ v[Len(prog)] = View
    BY DEF IInv, Explains
  <2>2. v[Len(prog)].nested = v[0].nested
    <3>1. 0 \in 0 .. Len(prog) /\ \A k \in 0 + 1 .. Len(prog) : prog[k].kind \notin Starters
      BY <1>1
    <3> QED
      BY <1>1, <2>1, <3>1, Unaffected
  <2>3. Nested = <<>>
    BY <2>1, <2>2 DEF Chain, EmptyView, View
  <2> QED
    BY <1>1, <2>3, ViewTyped
<1>3. PICK i \in S : \A j \in S : j <= i
  <2>1. S \in SUBSET (1 .. Len(prog))
    OBVIOUS
  <2> HIDE DEF S
  <2> QED
    BY <1>1, <1>2, <2>1, LastExists
<1>4. \A k \in i + 1 .. Len(prog) : prog[k].kind \notin Starters
  <2> SUFFICES ASSUME NEW k \in i + 1 .. Len(prog), prog[k].kind \in Starters PROVE FALSE
    OBVIOUS
  <2>1. k \in S /\ i \in Nat /\ k \in Nat /\ i < k
    BY <1>1
  <2> QED
    BY <1>3, <2>1
<1> QED
  BY <1>3, <1>4, InnermostIsCurrent

\* What CloseInnermost closes.
LEMMA InnermostCloses ==
  ASSUME NEW p \in Seq(Items), NEW kind, NEW out, NEW i \in 1 .. Len(p),
         p[i].kind = kind, p[i].out = out,
         \A j \in 1 .. Len(p) : p[j].kind = kind /\ p[j].out = out => j <= i
  PROVE  CloseInnermost(p, kind, out) = Closed(p, i)
<1> DEFINE at == {j \in 1 .. Len(p) : p[j].kind = kind /\ p[j].out = out}
           c == CHOOSE j \in at : \A k \in at : k <= j
<1>1. i \in at /\ \A k \in at : k <= i
  OBVIOUS
<1>2. c \in at /\ \A k \in at : k <= c
  <2> HIDE DEF at
  <2> QED
    BY <1>1
<1>3. c = i
  <2>1. c <= i /\ i <= c /\ c \in Int /\ i \in Int
    <3>1. \A k \in at : k \in Int
      OBVIOUS
    <3> HIDE DEF at, c
    <3> QED
      BY <1>1, <1>2, <3>1
  <2> HIDE DEF c
  <2> QED
    BY <2>1
<1>4. CloseInnermost(p, kind, out) = IF at = {} THEN p ELSE Closed(p, c)
  BY DEF CloseInnermost
<1> QED
  BY <1>1, <1>3, <1>4

\* dc::continued and dc::finish that print are those of the innermost section of the current
\* output, above which only marks are open.
LEMMA AtItsSection ==
  ASSUME IInv, ~ MisuseInPart, Allowed, Expected, off_count = 0
  PROVE  \E i \in 1 .. Len(prog) :
           /\ prog[i].kind = "section" /\ prog[i].out = current /\ current \in Outputs
           /\ \A k \in i + 1 .. Len(prog) : prog[k].kind = "mark"
           /\ CloseInnermost(prog, "section", current) = Closed(prog, i)
<1>1. TypeOK /\ prog \in Seq(Items) /\ Len(prog) \in Nat /\ WellNested(prog) /\ MasksTell(prog, mask)
  BY DEF IInv, TypeOK
<1>2. PICK i \in 1 .. Len(prog) :
        /\ prog[i].kind \in Starters /\ prog[i].out = current
        /\ \A k \in i + 1 .. Len(prog) : prog[k].kind \notin Starters
  BY InnermostExists DEF Expected
<1>3. current \in Outputs
  BY <1>1, <1>2, Own
<1>4. prog[i].kind = "section"
  BY <1>1, <1>2 DEF MasksTell, Expected
<1>5. \A k \in i + 1 .. Len(prog) : k \in 1 .. Len(prog) /\ prog[k].kind \in {"part", "off", "mark"}
  <2> SUFFICES ASSUME NEW k \in i + 1 .. Len(prog)
               PROVE  k \in 1 .. Len(prog) /\ prog[k].kind \in {"part", "off", "mark"}
    OBVIOUS
  <2>1. k \in 1 .. Len(prog)
    BY <1>1
  <2>2. prog[k] \in Items /\ prog[k].kind \notin Starters
    BY <1>1, <1>2, <2>1
  <2> QED
    BY <2>1, <2>2 DEF Items, Kinds, Statements, Starters, Sections
<1>6. \A k \in i + 1 .. Len(prog) : prog[k].kind # "off"
  <2> SUFFICES ASSUME NEW k \in i + 1 .. Len(prog), prog[k].kind = "off" PROVE FALSE
    OBVIOUS
  <2>1. PICK v : Chain(prog, v) /\ v[Len(prog)] = View
    BY DEF IInv, Explains
  <2>2. k \in 1 .. Len(prog) /\ k \in 0 .. Len(prog)
    BY <1>1
  <2>3. v[k] = After(v[k - 1], prog[k]) /\ v[k - 1] \in Views
    BY <1>1, <2>1, <2>2, ChainTyped
  <2>4. v[k].off = v[k - 1].off + 1 /\ v[k - 1].off \in Nat
    BY <2>3 DEF After, Views, Sections
  <2>5. \A l \in k + 1 .. Len(prog) : prog[l].kind \notin Sections
    <3>1. \A l \in k + 1 .. Len(prog) : l \in i + 1 .. Len(prog)
      BY <1>1
    <3> QED
      BY <1>5, <3>1 DEF Sections
  <2>6. v[Len(prog)].off >= v[k].off
    BY <1>1, <2>1, <2>2, <2>5, Unaffected
  <2>7. v[Len(prog)].off = 0
    BY <2>1 DEF View
  <2> QED
    BY <2>4, <2>6, <2>7
<1>7. \A k \in i + 1 .. Len(prog) : prog[k].kind # "part"
  <2> SUFFICES ASSUME NEW k \in i + 1 .. Len(prog), prog[k].kind = "part" PROVE FALSE
    OBVIOUS
  <2>1. k \in DOMAIN prog
    BY <1>1, <1>5
  <2>2. PICK j \in k + 1 .. Len(prog) : prog[j].kind \in {"section", "off"}
    BY <2>1 DEF Allowed, OpensSection
  <2>3. j \in i + 1 .. Len(prog)
    BY <1>1
  <2> QED
    BY <1>5, <1>6, <2>2, <2>3
<1>8. \A k \in i + 1 .. Len(prog) : prog[k].kind = "mark"
  BY <1>5, <1>6, <1>7
<1>9. CloseInnermost(prog, "section", current) = Closed(prog, i)
  <2>1. \A j \in 1 .. Len(prog) : prog[j].kind = "section" /\ prog[j].out = current => j <= i
    <3>1. \A j \in 1 .. Len(prog) : prog[j].kind \in Starters /\ prog[j].out = current => j = i
      BY <1>1, <1>2, Own
    <3> QED
      BY <3>1 DEF Starters, Sections
  <2> QED
    BY <1>1, <1>2, <1>4, <2>1, InnermostCloses
<1> QED
  BY <1>2, <1>3, <1>4, <1>8, <1>9

\* A dc::continued or dc::finish that is counted is that of the innermost section that is off.
LEMMA AtItsOffSection ==
  ASSUME IInv, off_count # 0
  PROVE  \E i \in 1 .. Len(prog) :
           /\ prog[i].kind = "off" /\ prog[i].out = Dummy
           /\ \A k \in i + 1 .. Len(prog) : prog[k].kind \notin Sections \cup {"off"}
           /\ CloseInnermost(prog, "off", Dummy) = Closed(prog, i)
<1> DEFINE S == {i \in 1 .. Len(prog) : prog[i].kind \in Sections \cup {"off"}}
<1>1. TypeOK /\ prog \in Seq(Items) /\ Len(prog) \in Nat /\ WellNested(prog)
  BY DEF IInv, TypeOK
<1>2. PICK v : Chain(prog, v) /\ v[Len(prog)] = View
  BY DEF IInv, Explains
<1>3. v[Len(prog)].off # 0
  BY <1>2 DEF View
<1>4. S # {}
  <2> SUFFICES ASSUME S = {} PROVE FALSE
    OBVIOUS
  <2>1. 0 \in 0 .. Len(prog) /\ \A k \in 0 + 1 .. Len(prog) : prog[k].kind \notin Sections \cup {"off"}
    BY <1>1
  <2>2. v[Len(prog)].off = v[0].off
    BY <1>1, <1>2, <2>1, Unaffected
  <2> QED
    BY <1>2, <1>3, <2>2 DEF Chain, EmptyView
<1>5. PICK i \in S : \A j \in S : j <= i
  <2>1. S \in SUBSET (1 .. Len(prog))
    OBVIOUS
  <2> HIDE DEF S
  <2> QED
    BY <1>1, <1>4, <2>1, LastExists
<1>6. i \in 1 .. Len(prog) /\ i \in 0 .. Len(prog)
  BY <1>1
<1>7. \A k \in i + 1 .. Len(prog) : prog[k].kind \notin Sections \cup {"off"}
  <2> SUFFICES ASSUME NEW k \in i + 1 .. Len(prog), prog[k].kind \in Sections \cup {"off"} PROVE FALSE
    OBVIOUS
  <2>1. k \in S /\ i \in Nat /\ k \in Nat /\ i < k
    BY <1>1
  <2> QED
    BY <1>5, <2>1
<1>8. prog[i].kind \notin Sections
  <2> SUFFICES ASSUME prog[i].kind \in Sections PROVE FALSE
    OBVIOUS
  <2>1. v[i] = After(v[i - 1], prog[i])
    BY <1>1, <1>2, <1>6, ChainTyped
  <2>2. v[i].off = 0
    BY <2>1 DEF After
  <2>3. v[Len(prog)].off = v[i].off
    BY <1>1, <1>2, <1>6, <1>7, Unaffected
  <2> QED
    BY <1>3, <2>2, <2>3
<1>9. prog[i].kind = "off" /\ prog[i].out = Dummy
  <2>1. prog[i].kind = "off"
    BY <1>8
  <2> QED
    BY <1>1, <1>6, <2>1 DEF WellNested
<1>10. CloseInnermost(prog, "off", Dummy) = Closed(prog, i)
  <2>1. \A j \in 1 .. Len(prog) : prog[j].kind = "off" /\ prog[j].out = Dummy => j <= i
    BY <1>5
  <2> QED
    BY <1>1, <1>6, <1>9, <2>1, InnermostCloses
<1> QED
  BY <1>6, <1>7, <1>9, <1>10

LEMMA Observed ==
  ASSUME IInv
  PROVE  FinishesOwnOutput /\ NoFalseAlarm
<1> DEFINE n == Len(prog)
<1>1. TypeOK /\ prog \in Seq(Items) /\ n \in Nat /\ WellNested(prog) /\ MasksTell(prog, mask)
      /\ Explains(prog, View)
  BY DEF IInv, TypeOK
<1>2. ASSUME prog # <<>>
      PROVE  /\ n \in 1 .. n /\ Top(prog) = prog[n] /\ Top(prog) \in Items
             /\ \E below \in Views : View = After(below, Top(prog))
  BY <1>1, <1>2, PopItem, PopChain
<1>3. ASSUME prog # <<>>, Top(prog).kind \in Starters
      PROVE  current = Top(prog).out /\ current \in Outputs
  <2>1. \A k \in n + 1 .. n : prog[k].kind \notin Starters
    BY <1>1
  <2> QED
    BY <1>2, <1>3, <2>1, InnermostIsCurrent
<1>4. ASSUME prog # <<>>, Top(prog).kind = "part"
      PROVE  current = Top(prog).out /\ current \in Outputs
  <2>1. PICK j \in 1 .. n - 1 :
          prog[j].kind = "section" /\ prog[j].out = Top(prog).out /\ OnlyMarks(prog, j, n)
    BY <1>1, <1>2, <1>4 DEF WellNested
  <2>2. j \in 1 .. n /\ prog[j].kind \in Starters
    BY <1>1, <2>1 DEF Starters, Sections
  <2>3. ASSUME NEW k \in j + 1 .. n PROVE prog[k].kind \notin Starters
    <3>1. CASE k = n
      BY <1>2, <1>4, <3>1 DEF Starters, Sections
    <3>2. CASE k # n
      <4>1. k \in j + 1 .. n - 1
        BY <1>1, <3>2
      <4> QED
        BY <2>1, <4>1 DEF OnlyMarks, Starters, Sections
    <3> QED
      BY <3>1, <3>2
  <2> QED
    BY <2>1, <2>2, <2>3, InnermostIsCurrent
<1>5. FinishesOwnOutput
  BY <1>3, <1>4 DEF FinishesOwnOutput, InStatement, Statements, Starters, Sections
<1>6. ASSUME InSection
      PROVE  off_count = 0 /\ Expected /\ continued_stack # <<>>
  <2>1. prog # <<>> /\ Top(prog).kind = "section"
    BY <1>6 DEF InSection
  <2>2. PICK below \in Views : View = After(below, Top(prog))
    BY <1>2, <2>1
  <2>3. off_count = 0 /\ continued_stack = Append(below.saved, below.off)
        /\ below.saved \in Seq(Nat) /\ below.off \in Nat
    BY <2>1, <2>2 DEF View, After, Views, Starters, Sections
  <2>4. continued_stack # <<>>
    BY <2>3, AppendTopPop
  <2>5. current = Top(prog).out /\ current \in Outputs
    BY <1>3, <2>1 DEF Starters, Sections
  <2>6. Expected
    BY <1>1, <1>2, <2>1, <2>5, OutputsAssumption DEF Expected, MasksTell, Starters, Sections
  <2> QED
    BY <2>3, <2>4, <2>6
<1>7. ASSUME InOffSection
      PROVE  off_count > 0
  <2>1. prog # <<>> /\ Top(prog).kind = "off"
    BY <1>7 DEF InOffSection
  <2>2. PICK below \in Views : View = After(below, Top(prog))
    BY <1>2, <2>1
  <2>3. off_count = below.off + 1 /\ below.off \in Nat
    BY <2>1, <2>2 DEF View, After, Starters, Sections, Views
  <2> QED
    BY <2>3
<1> QED
  BY <1>5, <1>6, <1>7 DEF NoFalseAlarm

\* Which of the two ends of finish() is taken: the mask tells it as the program means it.
LEMMA Ends ==
  ASSUME IInv, InStatement
  PROVE  /\ prog \in Seq(Items) /\ prog # <<>>
         /\ current = Top(prog).out /\ current \in Outputs
         /\ Top(prog).kind = "plain" <=> ~ EndsPart
         /\ Top(prog).kind \in Statements
<1>1. /\ prog \in Seq(Items) /\ WellNested(prog) /\ MasksTell(prog, mask)
  BY DEF IInv, TypeOK
<1>2. prog # <<>> /\ Top(prog).kind \in Statements /\ current = Top(prog).out
  BY Observed DEF InStatement, FinishesOwnOutput
<1>3. Len(prog) \in 1 .. Len(prog) /\ Top(prog) = prog[Len(prog)]
  BY <1>1, <1>2, PopItem
<1>4. CASE Top(prog).kind = "plain"
  BY <1>1, <1>2, <1>3, <1>4, Own DEF MasksTell, Starters, EndsPart, Continues
<1>5. CASE Top(prog).kind = "opening"
  BY <1>1, <1>2, <1>3, <1>5, Own DEF MasksTell, Starters, Sections, EndsPart, Continues
<1>6. CASE Top(prog).kind = "part"
  <2>1. PICK j \in 1 .. Len(prog) - 1 : prog[j].kind = "section" /\ prog[j].out = current
    BY <1>1, <1>2, <1>3, <1>6 DEF WellNested
  <2>2. j \in 1 .. Len(prog) /\ prog[j].kind \in Starters /\ prog[j].kind \in Sections
    BY <1>3, <2>1 DEF Starters, Sections
  <2>3. current \in Outputs /\ Continues(mask[current])
    BY <1>1, <2>1, <2>2, Own DEF MasksTell
  <2> QED
    BY <1>1, <1>2, <1>6, <2>3 DEF EndsPart, Continues
<1>. QED
  BY <1>2, <1>4, <1>5, <1>6 DEF Statements
-----------------------------------------------------------------------------
(***************************************************************************)
(* The invariant holds at first, and every action preserves it.            *)
(***************************************************************************)
History == /\ prog \in Seq(Items)
           /\ Explains(prog, View)
           /\ WellNested(prog)
           /\ MasksTell(prog, mask)
           /\ NoLeak

LEMMA InitIInv ==
  ASSUME Init
  PROVE  IInv
<1>1. /\ live = {} /\ current = Dummy /\ output_state_stack = <<>> /\ start_expected = TRUE
      /\ indent = 0 /\ off_count = 0 /\ continued_stack = <<>> /\ prog = <<>>
  BY DEF Init
<1>2. TypeOK
  <2>1. mask \in [Outputs -> SUBSET MaskBits] /\ pending \in [Outputs -> {"none", "text", "line"}]
        /\ line \in [Streams -> {"start", "nonewline"} \cup Outputs]
    BY DEF Init
  <2>2. unfinished_expected \in BOOLEAN /\ mixed \in BOOLEAN /\ halted = "no"
    BY DEF Init
  <2>3. /\ <<>> \in Seq(Outputs) /\ <<>> \in Seq(Nat) /\ <<>> \in Seq(Items)
        /\ Len(<<>>) <= MaxSize
    BY MaxSizeAssumption
  <2>. QED
    BY <1>1, <2>1, <2>2, <2>3, WidthType DEF TypeOK
<1>3. Explains(prog, View)
  <2> DEFINE v == [i \in 0 .. 0 |-> EmptyView]
  <2>1. View = EmptyView /\ Len(prog) = 0
    BY <1>1 DEF View, EmptyView, Nested, NextIndent
  <2>2. EmptyView \in Views
    BY WidthType DEF EmptyView, Views
  <2>3. v \in [0 .. Len(prog) -> Views] /\ v[0] = EmptyView
    BY <2>1, <2>2
  <2>4. \A i \in 1 .. Len(prog) : FALSE
    BY <2>1
  <2> HIDE DEF v
  <2>5. Chain(prog, v) /\ v[Len(prog)] = View
    BY <2>1, <2>3, <2>4 DEF Chain
  <2> QED
    BY <2>5 DEF Explains
<1>4. CurrentOnTop
  BY <1>1 DEF CurrentOnTop, Nested
<1>5. WellNested(prog) /\ MasksTell(prog, mask) /\ NoLeak
  BY <1>1 DEF WellNested, MasksTell, NoLeak, Outs
<1>. QED
  BY <1>2, <1>3, <1>4, <1>5 DEF IInv

LEMMA ItsHistory ==
  ASSUME IInv
  PROVE  /\ History /\ TypeOK /\ CurrentOnTop /\ live = Outs(prog)
         /\ prog \in Seq(Items) /\ Explains(prog, View) /\ WellNested(prog) /\ MasksTell(prog, mask)
  BY DEF IInv, TypeOK, History, NoLeak

\* Opening a statement or a section: the new output is not among those of what is open.
LEMMA OpenHistory ==
  ASSUME IInv, NEW o, NEW m \in SUBSET MaskBits, Start(o, m),
         NEW kind \in {"plain", "opening"},
         "finish" \notin m, "continued_expected" \notin m, kind = "opening" <=> "continued_cf" \in m,
         prog' = Append(prog, Item(kind, o, 0)),
         View' = After(View, Item(kind, o, 0))
  PROVE  History'
<1>. DEFINE it == Item(kind, o, 0)
<1>1. /\ prog \in Seq(Items) /\ Explains(prog, View)
      /\ WellNested(prog) /\ MasksTell(prog, mask) /\ live = Outs(prog) /\ TypeOK /\ CurrentOnTop
  BY ItsHistory
<1>2. /\ o \in Outputs \ live /\ live' = live \cup {o}
      /\ mask'[o] \ {"cerr_cf"} = m \ {"cerr_cf"}
      /\ \A p \in Outputs \ {o} : mask'[p] = mask[p]
  BY <1>1, StartStep
<1>3. /\ it \in Items /\ it.kind = kind /\ it.out = o
  <2>1. 0 \in 0 .. Width - 1 /\ kind \in Kinds /\ o \in Outputs
    BY <1>2, WidthType DEF Kinds, Statements
  <2>. QED
    BY <2>1 DEF Item, Items
<1>. HIDE DEF it
<1>4. prog' = Append(prog, it) /\ View' = After(View, it)
  BY DEF it
<1>5. prog' \in Seq(Items)
  BY <1>1, <1>3, <1>4, PushItem
<1>6. Explains(prog', View')
  BY <1>1, <1>2, <1>3, <1>4, PushChain
<1>7. WellNested(prog')
  BY <1>1, <1>2, <1>3, <1>4, PushWellNested
<1>8. MasksTell(prog', mask')
  <2>1. ASSUME NEW i \in 1 .. Len(prog), prog[i].kind \in Starters
        PROVE  Similar(mask[prog[i].out], mask'[prog[i].out])
    <3>1. prog[i].out \in Outputs /\ prog[i].out \in Outs(prog)
      BY <1>1, <2>1, Own
    <3>. QED
      BY <1>1, <1>2, <3>1 DEF Similar
  <2>2. MasksTell(prog, mask')
    BY <1>1, <2>1, ChangeMasks
  <2>3. (Continues(mask'[o]) <=> kind = "opening") /\ "continued_expected" \notin mask'[o]
    BY <1>2 DEF Continues
  <2>. QED
    BY <1>1, <1>3, <1>4, <2>2, <2>3, PushMasks DEF Sections
<1>9. NoLeak'
  <2>1. Outs(prog') = Outs(prog) \cup {o}
    BY <1>1, <1>2, <1>3, <1>4, PushOuts, OutputsAssumption
  <2>. QED
    BY <1>1, <1>2, <2>1 DEF NoLeak, Outs
<1>. QED
  BY <1>5, <1>6, <1>7, <1>8, <1>9, Zenon DEF History

LEMMA DoutStep ==
  ASSUME IInv, NEW o \in Outputs, NEW flags \in Choices, Dout(o, flags)
  PROVE  IInv'
<1>1. TypeOK /\ CurrentOnTop
  BY DEF IInv
<1>2. /\ flags \in SUBSET MaskBits /\ "finish" \notin flags /\ "continued_cf" \notin flags
      /\ "continued_expected" \notin flags
  BY ChoicesAssumption DEF MaskBits, ControlFlags
<1>3. Start(o, flags) /\ prog' = Append(prog, Item("plain", o, 0))
      /\ off_count' = off_count /\ continued_stack' = continued_stack /\ halted' = halted
  BY DEF Dout
<1>4. View' = After(View, Item("plain", o, 0))
  BY <1>1, <1>2, <1>3, StartStep DEF View, After, Item, Starters, Sections
<1>5. History'
  BY <1>2, <1>3, <1>4, OpenHistory
<1>6. TypeOK'
  BY <1>1, <1>2, <1>3, <1>5, StartStep DEF TypeOK, History
<1>7. CurrentOnTop'
  BY <1>1, <1>2, <1>3, StartStep
<1>. QED
  BY <1>5, <1>6, <1>7 DEF IInv, History

LEMMA OpenSectionStep ==
  ASSUME IInv, NEW o \in Outputs, NEW flags \in Choices, OpenSection(o, flags)
  PROVE  IInv'
<1>. DEFINE m == flags \cup {"continued_cf"}
<1>1. TypeOK /\ CurrentOnTop
  BY DEF IInv
<1>2. m \in SUBSET MaskBits /\ "finish" \notin m /\ "continued_cf" \in m /\ "continued_expected" \notin m
  BY ChoicesAssumption DEF MaskBits, ControlFlags
<1>3. Start(o, m) /\ prog' = Append(prog, Item("opening", o, 0))
      /\ off_count' = 0 /\ continued_stack' = Append(continued_stack, off_count)
      /\ Len(continued_stack) < MaxSize /\ halted' = halted
  BY DEF OpenSection
<1>. HIDE DEF m
<1>4. View' = After(View, Item("opening", o, 0))
  BY <1>1, <1>2, <1>3, StartStep DEF View, After, Item, Starters, Sections
<1>5. History'
  BY <1>2, <1>3, <1>4, OpenHistory
<1>6. TypeOK'
  <2>1. continued_stack' \in Seq(Nat) /\ Len(continued_stack') <= MaxSize /\ off_count' \in Nat
    BY <1>1, <1>3, MaxSizeAssumption DEF TypeOK
  <2>. QED
    BY <1>1, <1>2, <1>3, <1>5, <2>1, StartStep DEF TypeOK, History
<1>7. CurrentOnTop'
  BY <1>1, <1>2, <1>3, StartStep
<1>. QED
  BY <1>5, <1>6, <1>7 DEF IInv, History

\* Steps that open or close something and leave the outputs alone.
LEMMA PushHistory ==
  ASSUME IInv, NEW it \in Items, it.kind \in {"off", "mark"}, it.out = Dummy,
         prog' = Append(prog, it), View' = After(View, it), live' = live, mask' = mask
  PROVE  History'
<1>1. /\ prog \in Seq(Items) /\ Explains(prog, View)
      /\ WellNested(prog) /\ MasksTell(prog, mask) /\ live = Outs(prog)
  BY ItsHistory
<1>2. prog' \in Seq(Items)
  BY <1>1, PushItem
<1>3. Explains(prog', View')
  BY <1>1, PushChain DEF Starters, Sections
<1>4. WellNested(prog') /\ MasksTell(prog', mask')
  BY <1>1, PushWellNested, PushMasks DEF Starters, Sections
<1>5. NoLeak'
  <2>1. Outs(Append(prog, it)) = Outs(prog) \cup ({it.out} \ {Dummy})
    BY <1>1, PushOuts
  <2>2. {it.out} \ {Dummy} = {}
    OBVIOUS
  <2>3. Outs(prog') = Outs(prog)
    BY <2>1, <2>2
  <2>. QED
    BY <1>1, <2>3 DEF NoLeak, Outs
<1>. QED
  BY <1>2, <1>3, <1>4, <1>5, Zenon DEF History

LEMMA CloseHistory ==
  ASSUME IInv, NEW i \in 1 .. Len(prog), prog[i].kind \in {"off", "mark"},
         prog' = Closed(prog, i), Explains(Closed(prog, i), View'), live' = live, mask' = mask
  PROVE  History'
<1>1. /\ prog \in Seq(Items)
      /\ WellNested(prog) /\ MasksTell(prog, mask) /\ live = Outs(prog)
  BY ItsHistory
<1>2. prog' \in Seq(Items)
  BY <1>1, CloseItem
<1>3. WellNested(prog') /\ MasksTell(prog', mask')
  BY <1>1, CloseWellNested, CloseMasks
<1>4. NoLeak'
  <2>1. {prog[i].out} \ {Dummy} = {}
    BY <1>1 DEF WellNested
  <2>2. Outs(prog) = Outs(Closed(prog, i)) \cup ({prog[i].out} \ {Dummy})
    BY <1>1, CloseOuts
  <2>3. Outs(prog) = Outs(prog')
    BY <2>1, <2>2
  <2>. QED
    BY <1>1, <2>3 DEF NoLeak, Outs
<1>. QED
  BY <1>2, <1>3, <1>4, Zenon DEF History

LEMMA OpenOffSectionStep ==
  ASSUME IInv, OpenOffSection
  PROVE  IInv'
<1>. DEFINE it == Item("off", Dummy, 0)
<1>1. TypeOK /\ CurrentOnTop
  BY DEF IInv
<1>2. it \in Items /\ it.kind = "off" /\ it.out = Dummy
  BY <1>1, WidthType DEF Item, Items, Kinds
<1>3. View' = After(View, it)
  BY DEF OpenOffSection, View, Nested, NextIndent, After, Item, Starters, Sections
<1>4. prog' = Append(prog, it) /\ live' = live /\ mask' = mask
  BY DEF OpenOffSection
<1>. HIDE DEF it
<1>5. History'
  BY <1>2, <1>3, <1>4, PushHistory
<1>6. TypeOK'
  BY <1>1, <1>5 DEF TypeOK, OpenOffSection, streamvars, History
<1>7. CurrentOnTop'
  BY <1>1 DEF OpenOffSection, CurrentOnTop, Nested
<1>. QED
  BY <1>5, <1>6, <1>7 DEF IInv, History

LEMMA OpenMarkStep ==
  ASSUME IInv, OpenMark
  PROVE  IInv'
<1>. DEFINE it == Item("mark", Dummy, indent)
<1>1. TypeOK /\ CurrentOnTop
  BY DEF IInv
<1>2. it \in Items /\ it.kind = "mark" /\ it.out = Dummy /\ it.n = indent
  BY <1>1 DEF Item, Items, Kinds, TypeOK
<1>3. prog' = Append(prog, it) /\ live' = live /\ mask' = mask /\ indent' = 0
  BY DEF OpenMark
<1>. HIDE DEF it
<1>4. View' = After(View, it)
  <2>1. NextIndent' = Minus(NextIndent, indent)
    <3>1. indent \in 0 .. Width - 1 /\ 0 \in 0 .. Width - 1 /\ 4 \in 0 .. Width - 1 /\ Width \in Nat
      BY <1>1, WidthType DEF TypeOK
    <3>2. Minus(indent, indent) = 0 /\ Plus(0, 4) = 4
      BY <3>1 DEF Minus, Plus
    <3>3. Minus(Plus(indent, 4), indent) = 4
      BY <3>1, IndentArithmetic
    <3>. QED
      BY <1>3, <3>2, <3>3 DEF NextIndent, OpenMark
  <2>. QED
    BY <1>2, <2>1 DEF OpenMark, View, Nested, After, Starters, Sections
<1>5. History'
  BY <1>2, <1>3, <1>4, PushHistory
<1>6. TypeOK'
  BY <1>1, <1>5, WidthType DEF TypeOK, OpenMark, streamvars, History
<1>7. CurrentOnTop'
  BY <1>1 DEF OpenMark, CurrentOnTop, Nested
<1>. QED
  BY <1>5, <1>6, <1>7 DEF IInv, History

LEMMA ContinuedStep ==
  ASSUME IInv, ~ MisuseInPart, Allowed, NEW flags \in Choices, Continued(flags)
  PROVE  IInv'
<1>. DEFINE it == Item("part", current, 0)
<1>1. /\ prog \in Seq(Items) /\ Explains(prog, View)
      /\ WellNested(prog) /\ MasksTell(prog, mask) /\ live = Outs(prog)
      /\ TypeOK /\ CurrentOnTop
  BY ItsHistory
<1>2. PICK i \in 1 .. Len(prog) :
        /\ prog[i].kind = "section" /\ prog[i].out = current /\ current \in Outputs
        /\ \A k \in i + 1 .. Len(prog) : prog[k].kind = "mark"
  BY AtItsSection DEF Continued
<1>3. /\ View' = View /\ live' = live
      /\ mask' = [mask EXCEPT ![current] = @ \cup {"continued"} \cup flags]
      /\ prog' = Append(prog, it)
  BY DEF Continued, View, Nested, NextIndent
<1>4. it \in Items /\ it.kind = "part" /\ it.out = current
  BY <1>1, <1>2, WidthType DEF Item, Items, Kinds, Statements
<1>. HIDE DEF it
<1>5. prog' \in Seq(Items)
  BY <1>1, <1>3, <1>4, PushItem
<1>6. Explains(prog', View')
  <2>1. Explains(Append(prog, it), After(View, it)) /\ View \in Views
    BY <1>1, <1>4, PushChain DEF Starters, Sections
  <2>2. After(View, it) = View
    BY <1>4, <2>1 DEF After, Starters, Sections, View
  <2> QED
    BY <1>3, <2>1, <2>2
<1>7. WellNested(prog')
  <2>1. OnlyMarks(prog, i, Len(prog) + 1)
    <3>1. Len(prog) + 1 - 1 = Len(prog)
      BY <1>1
    <3> QED
      BY <1>2, <3>1 DEF OnlyMarks
  <2> QED
    BY <1>1, <1>2, <1>3, <1>4, <2>1, PushWellNested DEF Starters, Sections
<1>8. mask' \in [Outputs -> SUBSET MaskBits] /\ \A o \in Outputs : Similar(mask[o], mask'[o])
  <2>1. {"continued"} \cup flags \in SUBSET MaskBits /\ "finish" \notin flags
        /\ "continued_cf" \notin flags /\ "continued_expected" \notin flags
    BY ChoicesAssumption DEF MaskBits, ControlFlags
  <2>. QED
    BY <1>1, <1>2, <1>3, <2>1 DEF TypeOK, Similar, Continues
<1>9. MasksTell(prog', mask')
  <2>1. MasksTell(prog, mask')
    BY <1>1, <1>8, ChangeMasks DEF WellNested
  <2>. QED
    BY <1>1, <1>3, <1>4, <2>1, PushMasks DEF Starters, Sections
<1>10. NoLeak'
  <2>1. Outs(prog') = live \cup ({current} \ {Dummy})
    BY <1>1, <1>3, <1>4, PushOuts
  <2>2. current \in live
    BY <1>1, <1>2, Own DEF Starters, Sections
  <2>3. Outs(prog') = live'
    BY <1>2, <1>3, <2>1, <2>2, OutputsAssumption
  <2>. QED
    BY <2>3 DEF NoLeak, Outs
<1>11. TypeOK'
  BY <1>1, <1>5, <1>8 DEF TypeOK, Continued, streamvars
<1>12. CurrentOnTop'
  BY <1>1 DEF Continued, CurrentOnTop, Nested
<1>. QED
  BY <1>6, <1>7, <1>9, <1>10, <1>11, <1>12 DEF IInv

LEMMA FinishChannelStep ==
  ASSUME IInv, ~ MisuseInPart, Allowed, NEW flags \in Choices, FinishChannel(flags)
  PROVE  IInv'
<1>. DEFINE it == Item("plain", current, 0)
<1>1. /\ prog \in Seq(Items) /\ Explains(prog, View) /\ Len(prog) \in Nat
      /\ WellNested(prog) /\ MasksTell(prog, mask) /\ live = Outs(prog)
      /\ TypeOK /\ CurrentOnTop
  BY ItsHistory
<1>2. PICK i \in 1 .. Len(prog) :
        /\ prog[i].kind = "section" /\ prog[i].out = current /\ current \in Outputs
        /\ \A k \in i + 1 .. Len(prog) : prog[k].kind = "mark"
        /\ CloseInnermost(prog, "section", current) = Closed(prog, i)
  BY AtItsSection DEF FinishChannel
<1>. DEFINE q == Closed(prog, i)
<1>3. /\ live' = live /\ prog' = Append(q, it)
      /\ off_count' = Top(continued_stack) /\ continued_stack' = Pop(continued_stack)
      /\ mask' = [mask EXCEPT ![current] = (@ \cup {"finish"} \cup flags) \ {"continued_expected"}]
  BY <1>2 DEF FinishChannel, SavedOffCount
<1>4. it \in Items /\ it.kind = "plain" /\ it.out = current
  BY <1>1, <1>2, WidthType DEF Item, Items, Kinds, Statements
<1>. HIDE DEF it
<1>5. q \in Seq(Items) /\ prog' \in Seq(Items)
  BY <1>1, <1>3, <1>4, CloseItem, PushItem
<1>6. /\ continued_stack \in Seq(Nat) /\ continued_stack # <<>>
      /\ continued_stack' \in Seq(Nat) /\ Len(continued_stack') = Len(continued_stack) - 1
      /\ off_count' \in Nat
  <2>1. continued_stack \in Seq(Nat) /\ continued_stack # <<>>
    BY <1>1 DEF TypeOK, FinishChannel
  <2>2. /\ Pop(continued_stack) \in Seq(Nat) /\ Top(continued_stack) \in Nat
        /\ Len(Pop(continued_stack)) = Len(continued_stack) - 1
    BY <2>1, PopProperties
  <2> QED
    BY <1>3, <2>1, <2>2
<1>7. Explains(prog', View')
  <2> DEFINE x == [nested |-> Pop(Nested), indent |-> Minus(NextIndent, 4),
                   off |-> off_count', saved |-> continued_stack']
  <2>1. Nested # <<>> /\ Nested \in Seq(Outputs) /\ Top(Nested) = current
        /\ NextIndent \in 0 .. Width - 1
    BY <1>1, <1>2, OutputsAssumption, ViewTyped
  <2>2. Explains(q, x)
    <3>1. View.nested = Nested /\ View.indent = NextIndent /\ View.saved = continued_stack
      BY DEF View
    <3> QED
      BY <1>1, <1>2, <1>3, <1>6, <2>1, <3>1, CloseSectionView
  <2>3. Explains(prog', After(x, it))
    <3> HIDE DEF x, q
    <3> QED
      BY <1>2, <1>3, <1>4, <1>5, <2>2, PushChain
  <2>4. Append(Pop(Nested), current) = Nested /\ Plus(Minus(NextIndent, 4), 4) = NextIndent
    BY <2>1, PopProperties, IndentArithmetic, WidthType
  <2>5. After(x, it) = [nested |-> Nested, indent |-> NextIndent,
                        off |-> off_count', saved |-> continued_stack']
    BY <1>4, <2>4 DEF After, Starters, Sections
  <2>6. Nested' = Nested /\ NextIndent' = NextIndent
    BY DEF FinishChannel, Nested, NextIndent
  <2> HIDE DEF x
  <2> QED
    BY <2>3, <2>5, <2>6 DEF View
<1>8. /\ Outs(prog) = Outs(q) \cup {current} /\ current \notin Outs(q)
      /\ \A k \in 1 .. Len(q) : q[k].kind \in Starters => q[k].out \in Outputs \ {current}
  <2>1. Outs(prog) = Outs(q) \cup {current}
    <3>1. Outs(prog) = Outs(q) \cup ({current} \ {Dummy})
      BY <1>1, <1>2, CloseOuts
    <3>2. {current} \ {Dummy} = {current}
      BY <1>2, OutputsAssumption
    <3> QED
      BY <3>1, <3>2
  <2>2. \A k \in 1 .. Len(q) : \E j \in (1 .. Len(prog)) \ {i} : q[k] = prog[j]
    <3>1. /\ Len(q) = Len(prog) - 1
          /\ \A k \in 1 .. Len(prog) - 1 :
               q[k] = prog[Old(i, k)] /\ Old(i, k) \in (1 .. Len(prog)) \ {i}
      BY <1>1, CloseItem
    <3> HIDE DEF q
    <3> QED
      BY <3>1
  <2>3. \A j \in (1 .. Len(prog)) \ {i} : prog[j].out # current
    <3> SUFFICES ASSUME NEW j \in (1 .. Len(prog)) \ {i} PROVE prog[j].out # current
      OBVIOUS
    <3>1. CASE j < i
      <4>1. j \in 1 .. i - 1
        BY <1>1, <3>1
      <4> QED
        BY <1>1, <1>2, <4>1, Own DEF Starters, Sections
    <3>2. CASE i < j
      <4>1. j \in i + 1 .. Len(prog)
        BY <1>1, <3>2
      <4>2. prog[j].out = Dummy
        BY <1>1, <1>2, <4>1 DEF WellNested
      <4> QED
        BY <1>2, <4>2, OutputsAssumption
    <3> QED
      BY <1>1, <3>1, <3>2
  <2>4. \A j \in 1 .. Len(prog) : prog[j].kind \in Starters => prog[j].out \in Outputs
    BY <1>1, Own
  <2>5. current \notin Outs(q)
    BY <2>2, <2>3 DEF Outs
  <2> HIDE DEF q
  <2> QED
    BY <2>1, <2>2, <2>3, <2>4, <2>5
<1>9. WellNested(q) /\ MasksTell(q, mask)
  BY <1>1, <1>2, CloseWellNested, CloseMasks
<1>. HIDE DEF q
<1>10. WellNested(prog')
  BY <1>2, <1>3, <1>4, <1>5, <1>8, <1>9, PushWellNested
<1>11. /\ mask' \in [Outputs -> SUBSET MaskBits]
       /\ \A o \in Outputs \ {current} : mask'[o] = mask[o]
       /\ ~ Continues(mask'[current]) /\ "continued_expected" \notin mask'[current]
  <2>1. {"finish"} \cup flags \in SUBSET MaskBits
    BY ChoicesAssumption DEF MaskBits, ControlFlags
  <2>. QED
    BY <1>1, <1>2, <1>3, <2>1 DEF TypeOK, Continues
<1>12. MasksTell(prog', mask')
  <2>1. \A k \in 1 .. Len(q) : q[k].kind \in Starters => Similar(mask[q[k].out], mask'[q[k].out])
    BY <1>8, <1>11 DEF Similar
  <2>2. MasksTell(q, mask')
    BY <1>5, <1>9, <2>1, ChangeMasks
  <2> QED
    BY <1>3, <1>4, <1>5, <1>11, <2>2, PushMasks DEF Sections
<1>13. NoLeak'
  <2>1. Outs(prog') = Outs(q) \cup {current}
    BY <1>2, <1>3, <1>4, <1>5, PushOuts, OutputsAssumption
  <2> QED
    BY <1>1, <1>3, <1>8, <2>1 DEF NoLeak, Outs
<1>14. TypeOK'
  <2>1. Len(continued_stack') <= MaxSize
    BY <1>1, <1>6, MaxSizeAssumption DEF TypeOK
  <2>. QED
    BY <1>1, <1>5, <1>6, <1>11, <2>1 DEF TypeOK, FinishChannel, streamvars
<1>15. CurrentOnTop'
  BY <1>1 DEF FinishChannel, CurrentOnTop, Nested
<1>. QED
  BY <1>7, <1>10, <1>12, <1>13, <1>14, <1>15 DEF IInv

LEMMA FinishOffChannelStep ==
  ASSUME IInv, FinishOffChannel
  PROVE  IInv'
<1>1. prog \in Seq(Items) /\ Explains(prog, View) /\ TypeOK /\ CurrentOnTop
  BY ItsHistory
<1>2. PICK i \in 1 .. Len(prog) :
        /\ prog[i].kind = "off"
        /\ \A k \in i + 1 .. Len(prog) : prog[k].kind \notin Sections \cup {"off"}
        /\ CloseInnermost(prog, "off", Dummy) = Closed(prog, i)
  BY AtItsOffSection DEF FinishOffChannel
<1>3. /\ prog' = Closed(prog, i) /\ live' = live /\ mask' = mask
      /\ off_count' = off_count - 1 /\ off_count > 0 /\ off_count' \in Nat
  BY <1>1, <1>2 DEF FinishOffChannel, TypeOK
<1>4. Explains(Closed(prog, i), View')
  <2>1. /\ View.nested = Nested /\ View.indent = NextIndent /\ View.off = off_count
        /\ View.saved = continued_stack
    BY DEF View
  <2>2. Explains(Closed(prog, i), [nested |-> Nested, indent |-> NextIndent,
                                   off |-> off_count - 1, saved |-> continued_stack])
    BY <1>1, <1>2, <1>3, <2>1, CloseOffView
  <2>3. Nested' = Nested /\ NextIndent' = NextIndent /\ continued_stack' = continued_stack
    BY DEF FinishOffChannel, Nested, NextIndent
  <2> QED
    BY <1>3, <2>2, <2>3 DEF View
<1>5. History'
  BY <1>2, <1>3, <1>4, CloseHistory
<1>6. TypeOK'
  BY <1>1, <1>3, <1>5 DEF TypeOK, FinishOffChannel, streamvars, History
<1>7. CurrentOnTop'
  BY <1>1 DEF FinishOffChannel, CurrentOnTop, Nested
<1>. QED
  BY <1>5, <1>6, <1>7 DEF IInv, History

LEMMA CloseMarkStep ==
  ASSUME IInv, CloseMark
  PROVE  IInv'
<1>1. prog \in Seq(Items) /\ Explains(prog, View) /\ TypeOK /\ CurrentOnTop
  BY ItsHistory
<1>2. PICK i \in DOMAIN prog : /\ prog[i].kind = "mark" /\ indent' = Plus(indent, prog[i].n)
                               /\ prog' = Closed(prog, i)
  BY DEF CloseMark
<1>3. i \in 1 .. Len(prog) /\ live' = live /\ mask' = mask
  BY <1>1, <1>2 DEF CloseMark
<1>. DEFINE n == prog[i].n
<1>4. n \in 0 .. Width - 1 /\ indent \in 0 .. Width - 1 /\ 4 \in 0 .. Width - 1
  <2>1. prog[i] \in Items
    BY <1>1, <1>3
  <2> QED
    BY <1>1, <2>1, WidthType DEF Items, TypeOK
<1>5. indent' \in 0 .. Width - 1
  BY <1>2, <1>4, IndentArithmetic
<1>6. Explains(Closed(prog, i), View')
  <2>1. View.nested = Nested /\ View.indent = NextIndent /\ View.off = off_count
        /\ View.saved = continued_stack
    BY DEF View
  <2>2. Explains(Closed(prog, i), [nested |-> Nested, indent |-> Plus(NextIndent, n),
                                   off |-> off_count, saved |-> continued_stack])
    BY <1>1, <1>2, <1>3, <2>1, CloseMarkView
  <2>3. Nested' = Nested /\ off_count' = off_count /\ continued_stack' = continued_stack
    BY DEF CloseMark, Nested
  <2>4. NextIndent' = Plus(NextIndent, n)
    <3>1. Plus(Plus(indent, n), 4) = Plus(Plus(indent, 4), n) /\ start_expected' = start_expected
      BY <1>4, PlusCommutes DEF CloseMark
    <3> QED
      BY <1>2, <3>1 DEF NextIndent
  <2> QED
    BY <2>2, <2>3, <2>4 DEF View
<1>7. History'
  BY <1>2, <1>3, <1>6, CloseHistory
<1>8. TypeOK'
  BY <1>1, <1>5, <1>7 DEF TypeOK, CloseMark, streamvars, History
<1>9. CurrentOnTop'
  BY <1>1 DEF CloseMark, CurrentOnTop, Nested
<1>. QED
  BY <1>7, <1>8, <1>9 DEF IInv, History

LEMMA SameHistory ==
  ASSUME IInv, UNCHANGED <<tsdvars, prog>>
  PROVE  Explains(prog', View') /\ CurrentOnTop' /\ WellNested(prog') /\ MasksTell(prog', mask')
         /\ NoLeak'
<1>1. View' = View /\ prog' = prog /\ mask' = mask /\ live' = live
  BY DEF tsdvars, View, Nested, NextIndent
<1>2. Explains(prog', View') /\ WellNested(prog') /\ MasksTell(prog', mask')
  BY <1>1 DEF IInv
<1>3. NoLeak' /\ CurrentOnTop'
  BY <1>1 DEF IInv, tsdvars, NoLeak, Outs, CurrentOnTop, Nested
<1> QED
  BY <1>2, <1>3

LEMMA TextStep ==
  ASSUME IInv, Text
  PROVE  IInv'
<1>1. /\ pending' \in [Outputs -> {"none", "text", "line"}]
      /\ UNCHANGED <<tsdvars, line, mixed, prog, halted>>
  BY DEF IInv, TypeOK, Text
<1>2. TypeOK'
  BY <1>1 DEF IInv, TypeOK, tsdvars
<1>. QED
  BY <1>1, <1>2, SameHistory DEF IInv

LEMMA FinishPartStep ==
  ASSUME IInv, FinishPart
  PROVE  IInv'
<1>1. /\ TypeOK /\ CurrentOnTop /\ prog \in Seq(Items) /\ Explains(prog, View)
      /\ WellNested(prog) /\ MasksTell(prog, mask) /\ live = Outs(prog)
  BY ItsHistory
<1>2. /\ prog # <<>> /\ current = Top(prog).out /\ current \in Outputs
      /\ Top(prog).kind \in {"opening", "part"}
  BY Ends DEF FinishPart, Statements
<1>3. PICK below \in Views : Explains(Pop(prog), below) /\ View = After(below, Top(prog))
  BY <1>1, <1>2, PopChain
<1>. DEFINE q == Pop(prog)
<1>4. /\ Top(prog) \in Items /\ q \in Seq(Items) /\ WellNested(q) /\ MasksTell(q, mask)
      /\ Top(prog).kind = "opening" =>
           /\ \A j \in 1 .. Len(q) : q[j].out # current
           /\ current \in live /\ Outs(q) = live \ {current}
      /\ Top(prog).kind = "part" => Outs(q) = live
  BY <1>1, <1>2, PopItem, PopHistory DEF Starters, Sections
<1>5. View' = View /\ live' = live
  BY DEF FinishPart, View, Nested, NextIndent
<1>6. mask' = [mask EXCEPT ![current] = @ \cup {"continued_expected"}]
  BY DEF FinishPart
<1>7. /\ mask' \in [Outputs -> SUBSET MaskBits]
      /\ \A o \in Outputs \ {current} : mask'[o] = mask[o]
      /\ mask'[current] = mask[current] \cup {"continued_expected"}
      /\ Continues(mask'[current])
  <2>1. "continued_expected" \in MaskBits
    BY DEF MaskBits
  <2>. QED
    BY <1>1, <1>2, <1>6, <2>1 DEF TypeOK, Continues, FinishPart, EndsPart
<1>. HIDE DEF q
<1>8. History'
  <2>1. CASE Top(prog).kind = "opening"
    <3> DEFINE it == [Top(prog) EXCEPT !.kind = "section"]
    <3>1. /\ it \in Items /\ it.kind = "section" /\ it.out = current /\ it.n = Top(prog).n
      BY <1>2, <1>4 DEF Items, Kinds
    <3>2. prog' = Append(q, it)
      BY <2>1 DEF FinishPart, q
    <3> HIDE DEF it
    <3>3. prog' \in Seq(Items)
      BY <1>4, <3>1, <3>2, PushItem
    <3>4. Explains(prog', View')
      <4>1. After(below, it) = View
        BY <1>2, <1>3, <2>1, <3>1 DEF After, Starters, Sections
      <4>2. Explains(prog', After(below, it))
        BY <1>2, <1>3, <1>4, <3>1, <3>2, PushChain DEF q
      <4> QED
        BY <1>5, <4>1, <4>2
    <3>5. WellNested(prog')
      BY <1>2, <1>4, <2>1, <3>1, <3>2, PushWellNested
    <3>6. MasksTell(prog', mask')
      <4>1. \A k \in 1 .. Len(q) : q[k].kind \in Starters => Similar(mask[q[k].out], mask'[q[k].out])
        <5>1. \A k \in 1 .. Len(q) : q[k].kind \in Starters => q[k].out \in Outputs \ {current}
          BY <1>4, <2>1 DEF WellNested
        <5> QED
          BY <1>7, <5>1 DEF Similar
      <4>2. MasksTell(q, mask')
        BY <1>4, <4>1, ChangeMasks
      <4>3. "continued_expected" \in mask'[it.out] /\ Continues(mask'[it.out])
        BY <1>7, <3>1
      <4> QED
        BY <1>4, <3>1, <3>2, <4>2, <4>3, PushMasks
    <3>7. NoLeak'
      <4>1. Outs(prog') = Outs(q) \cup ({current} \ {Dummy})
        BY <1>4, <3>1, <3>2, PushOuts
      <4>2. Outs(prog') = live'
        BY <1>2, <1>4, <1>5, <2>1, <4>1, OutputsAssumption
      <4> QED
        BY <4>2 DEF NoLeak, Outs
    <3> QED
      BY <3>3, <3>4, <3>5, <3>6, <3>7, Zenon DEF History
  <2>2. CASE Top(prog).kind = "part"
    <3>1. prog' = q
      BY <2>2 DEF FinishPart, q
    <3>2. Explains(prog', View')
      <4>1. View = below
        BY <1>3, <2>2 DEF After, Views, Starters, Sections
      <4> QED
        BY <1>3, <1>5, <3>1, <4>1 DEF q
    <3>3. MasksTell(prog', mask')
      <4>1. "continued_expected" \in mask[current] /\ Continues(mask[current])
        <5>1. Len(prog) \in 1 .. Len(prog) /\ Top(prog) = prog[Len(prog)]
          BY <1>1, <1>2, PopItem
        <5>2. PICK j \in 1 .. Len(prog) - 1 : prog[j].kind = "section" /\ prog[j].out = current
          BY <1>1, <1>2, <2>2, <5>1 DEF WellNested
        <5>3. j \in 1 .. Len(prog) /\ prog[j].kind \in Starters /\ prog[j].kind \in Sections
          BY <5>1, <5>2 DEF Starters, Sections
        <5> QED
          BY <1>1, <5>2, <5>3 DEF MasksTell
      <4>2. \A o \in Outputs : Similar(mask[o], mask'[o])
        BY <1>7, <4>1 DEF Similar
      <4>3. MasksTell(q, mask')
        BY <1>4, <4>2, ChangeMasks DEF WellNested
      <4> QED
        BY <3>1, <4>3
    <3>4. NoLeak'
      BY <1>4, <1>5, <2>2, <3>1 DEF NoLeak, Outs
    <3> QED
      BY <1>4, <3>1, <3>2, <3>3, <3>4, Zenon DEF History
  <2>. QED
    BY <1>2, <2>1, <2>2
<1>9. /\ pending' \in [Outputs -> {"none", "text", "line"}]
      /\ line' \in [Streams -> {"start", "nonewline"} \cup Outputs]
      /\ mixed' \in BOOLEAN
  <2>1. CASE Flushes(mask[current])
    <3>1. /\ WriteTo(current, Target(mask[current]), "open")
          /\ pending' = [pending EXCEPT ![current] = "none"]
          /\ Target(mask[current]) \in Streams
      BY <2>1 DEF FinishPart, Target, Streams
    <3>2. pending' \in [Outputs -> {"none", "text", "line"}]
      BY <1>1, <1>2, <3>1 DEF TypeOK
    <3>. QED
      BY <1>1, <1>2, <3>1, <3>2, WriteToTyped
  <2>2. CASE ~ Flushes(mask[current])
    BY <1>1, <2>2 DEF FinishPart, TypeOK, streamvars
  <2>. QED
    BY <2>1, <2>2
<1>10. unfinished_expected' \in BOOLEAN
  BY <1>1 DEF FinishPart, TypeOK
<1>11. TypeOK'
  BY <1>1, <1>7, <1>8, <1>9, <1>10 DEF TypeOK, FinishPart, History
<1>12. CurrentOnTop'
  BY <1>1 DEF FinishPart, CurrentOnTop, Nested
<1>. QED
  BY <1>8, <1>11, <1>12 DEF IInv, History

LEMMA FinishStepIInv ==
  ASSUME IInv, Finish
  PROVE  IInv'
<1>1. /\ TypeOK /\ CurrentOnTop /\ prog \in Seq(Items) /\ Explains(prog, View)
      /\ WellNested(prog) /\ MasksTell(prog, mask) /\ live = Outs(prog)
  BY ItsHistory
<1>2. /\ prog # <<>> /\ current = Top(prog).out /\ current \in Outputs
      /\ Top(prog).kind = "plain"
  BY Ends DEF Finish
<1>3. PICK below \in Views : Explains(Pop(prog), below) /\ View = After(below, Top(prog))
  BY <1>1, <1>2, PopChain
<1>4. /\ Nested = Append(below.nested, Top(prog).out)
      /\ NextIndent = Plus(below.indent, 4)
      /\ off_count = below.off /\ continued_stack = below.saved
  BY <1>2, <1>3 DEF View, After, Starters, Sections
<1>5. /\ below.nested \in Seq(Outputs) /\ below.indent \in 0 .. Width - 1
  BY DEF Views
<1>6. View' = below
  <2>1. Nested' = below.nested
    BY <1>1, <1>2, <1>4, <1>5, FinishStep, AppendTopPop
  <2>2. NextIndent' = below.indent
    BY <1>1, <1>4, <1>5, FinishStep, IndentArithmetic, WidthType
  <2>3. off_count' = off_count /\ continued_stack' = continued_stack
    BY DEF Finish
  <2>. QED
    BY <1>3, <1>4, <2>1, <2>2, <2>3 DEF View, Views
<1>7. History'
  <2>1. prog' = Pop(prog)
    BY DEF Finish
  <2>2. live' = live \ {current} /\ \A p \in Outputs : Similar(mask[p], mask'[p])
    BY <1>1, FinishStep
  <2>3. /\ Pop(prog) \in Seq(Items) /\ WellNested(Pop(prog)) /\ MasksTell(Pop(prog), mask)
        /\ Outs(Pop(prog)) = live \ {current}
    BY <1>1, <1>2, PopItem, PopHistory DEF Starters
  <2>4. MasksTell(Pop(prog), mask')
    BY <2>2, <2>3, ChangeMasks DEF WellNested
  <2>5. NoLeak'
    BY <2>1, <2>2, <2>3 DEF NoLeak, Outs
  <2>. QED
    BY <1>3, <1>6, <2>1, <2>3, <2>4, <2>5, Zenon DEF History
<1>8. TypeOK'
  <2>1. off_count' = off_count /\ continued_stack' = continued_stack /\ halted' = halted
    BY DEF Finish
  <2>2. live' \subseteq Outputs
    BY <1>1, FinishStep DEF TypeOK
  <2>. QED
    BY <1>1, <1>7, <2>1, <2>2, FinishStep DEF TypeOK, History
<1>9. CurrentOnTop'
  BY <1>1, FinishStep
<1>. QED
  BY <1>7, <1>8, <1>9 DEF IInv, History

LEMMA FinishFatalStep ==
  ASSUME IInv, FinishFatal
  PROVE  IInv'
<1>1. TypeOK /\ CurrentOnTop
  BY DEF IInv
<1>2. current \in Outputs /\ UNCHANGED <<tsdvars, prog>> /\ halted' = "aborted" /\ WriteLast
  BY <1>1, ViewTyped DEF FinishFatal
<1>3. /\ pending' \in [Outputs -> {"none", "text", "line"}]
      /\ line' \in [Streams -> {"start", "nonewline"} \cup Outputs]
      /\ mixed' \in BOOLEAN
  <2>1. PICK ending \in {"newline", "nonewline", "open"} :
          WriteTo(current, Target(mask[current]), ending)
    BY <1>2 DEF WriteLast
  <2>2. Target(mask[current]) \in Streams
    BY DEF Target, Streams
  <2>3. pending' \in [Outputs -> {"none", "text", "line"}]
    BY <1>1, <1>2 DEF WriteLast, TypeOK
  <2>. QED
    BY <1>1, <1>2, <2>1, <2>2, <2>3, WriteToTyped
<1>4. TypeOK'
  BY <1>1, <1>2, <1>3 DEF TypeOK, tsdvars
<1>. QED
  BY <1>2, <1>4, SameHistory DEF IInv

LEMMA UnchangedStep ==
  ASSUME IInv, UNCHANGED <<tsdvars, streamvars, prog>>,
         halted' \in {"no", "aborted", "core_dump", "unmatched"}
  PROVE  IInv'
<1>1. TypeOK'
  BY DEF IInv, TypeOK, tsdvars, streamvars
<1>. QED
  BY <1>1, SameHistory DEF IInv
-----------------------------------------------------------------------------
(***************************************************************************)
(* The invariant is inductive: one case for each action.                   *)
(***************************************************************************)
THEOREM Inductive ==
  ASSUME ~ MisuseInPart
  PROVE  Spec => []IInv
<1>1. Init => IInv
  BY InitIInv
<1>2. IInv /\ [Next]_vars => IInv'
  <2>. SUFFICES ASSUME IInv, [Next]_vars PROVE IInv'
    OBVIOUS
  <2>1. CASE \E o \in Outputs, flags \in Choices : Dout(o, flags)
    BY <2>1, DoutStep
  <2>2. CASE \E o \in Outputs, flags \in Choices : OpenSection(o, flags)
    BY <2>2, OpenSectionStep
  <2>3. CASE OpenOffSection
    BY <2>3, OpenOffSectionStep
  <2>4. CASE Allowed /\ \E flags \in Choices : Continued(flags)
    BY <2>4, ContinuedStep
  <2>5. CASE Allowed /\ \E flags \in Choices : FinishChannel(flags)
    BY <2>5, FinishChannelStep
  <2>6. CASE FinishOffChannel
    BY <2>6, FinishOffChannelStep
  <2>7. CASE Text
    BY <2>7, TextStep
  <2>8. CASE FinishPart
    BY <2>8, FinishPartStep
  <2>9. CASE Finish
    BY <2>9, FinishStepIInv
  <2>10. CASE FinishFatal
    BY <2>10, FinishFatalStep
  <2>11. CASE OpenMark
    BY <2>11, OpenMarkStep
  <2>12. CASE CloseMark
    BY <2>12, CloseMarkStep
  <2>13. CASE Overflow
    BY <2>13, UnchangedStep DEF Overflow
  <2>14. CASE Unmatched
    BY <2>14, UnchangedStep DEF Unmatched
  <2>15. CASE UNCHANGED vars
    <3>1. halted' \in {"no", "aborted", "core_dump", "unmatched"}
      BY <2>15 DEF IInv, TypeOK, vars
    <3>. QED
      BY <2>15, <3>1, UnchangedStep DEF vars
  <2>. QED
    BY <2>1, <2>2, <2>3, <2>4, <2>5, <2>6, <2>7, <2>8, <2>9, <2>10, <2>11, <2>12, <2>13, <2>14,
       <2>15
    DEF Next
<1>. QED
  BY <1>1, <1>2, PTL DEF Spec

\* Every variable keeps its type: in particular no stack exceeds max_size, and indent wraps around.
THEOREM TypeCorrect ==
  ASSUME ~ MisuseInPart
  PROVE  Spec => []TypeOK
<1>1. IInv => TypeOK
  BY DEF IInv
<1>. QED
  BY <1>1, Inductive, PTL

\* What a program closes leaves no trace in the state of the thread, in whatever order it closes.
THEOREM NoTraceIsLeft ==
  ASSUME ~ MisuseInPart
  PROVE  Spec => []LeavesNoTrace
<1>1. IInv => LeavesNoTrace
  BY Explained
<1>. QED
  BY <1>1, Inductive, PTL

\* finish() always handles the output of the statement that ends.
THEOREM OwnOutputIsFinished ==
  ASSUME ~ MisuseInPart
  PROVE  Spec => []FinishesOwnOutput
<1>1. IInv => FinishesOwnOutput
  BY Observed
<1>. QED
  BY <1>1, Inductive, PTL

\* dc::continued and dc::finish in their section are never taken for misuse.
THEOREM NoAlarmIsFalse ==
  ASSUME ~ MisuseInPart
  PROVE  Spec => []NoFalseAlarm
<1>1. IInv => NoFalseAlarm
  BY Observed
<1>. QED
  BY <1>1, Inductive, PTL

\* The allocated outputs are those of what the program has open.
THEOREM NothingLeaks ==
  ASSUME ~ MisuseInPart
  PROVE  Spec => []NoLeak
<1>1. IInv => NoLeak
  BY DEF IInv
<1>. QED
  BY <1>1, Inductive, PTL

\* The assertion at the start of finish(): also a program that uses dc::continued and dc::finish
\* where they have no section is stopped before finish() is without an output.
THEOREM FinishHasItsOutput ==
  ASSUME ~ MisuseInPart
  PROVE  Spec => []FinishHasOutput
<1>1. IInv => FinishHasOutput
  BY Ends, OutputsAssumption DEF FinishHasOutput
<1>. QED
  BY <1>1, Inductive, PTL
-----------------------------------------------------------------------------
(***************************************************************************)
(* The line of the ostream, of programs that write to one stream and nest  *)
(* no output in a statement that opens a section.  A line that was left    *)
(* open is that of the current output, which start() then interrupts.      *)
(***************************************************************************)
OneStream == ~ NestInOpening /\ \A flags \in Choices : "cerr_cf" \notin flags

OnOs(m) == \A o \in Outputs : "cerr_cf" \notin m[o]

OpenLine ==
  line["os"] \in Outputs =>
    /\ line["os"] = current /\ "continued_cf" \in mask[current]
    /\ unfinished_expected
    /\ pending[current] # "line"

\* A statement that opens a section is innermost, and has unfinished_expected still set.
Openings(p, unfinished) ==
  \A i \in 1 .. Len(p) : p[i].kind = "opening" => i = Len(p) /\ unfinished

Parts(p, m) == \A i \in 1 .. Len(p) : p[i].kind = "part" => "continued" \in m[p[i].out]

LineInv ==
  /\ ~ mixed
  /\ OnOs(mask)
  /\ OpenLine
  /\ Openings(prog, unfinished_expected)
  /\ Parts(prog, mask)

\* What finish() writes goes on the line of its own output.
LEMMA OwnLine ==
  ASSUME TypeOK, LineInv, current \in Outputs, NEW ending \in {"newline", "nonewline", "open"},
         WriteTo(current, "os", ending)
  PROVE  /\ ~ mixed'
         /\ ending \in {"newline", "nonewline"} => line'["os"] \notin Outputs
         /\ ending = "open" =>
              line'["os"] = IF pending[current] # "none" THEN current ELSE line["os"]
<1>1. ~ Joins(current, "os", pending[current])
  BY DEF LineInv, OpenLine, Joins
<1>2. ~ mixed'
  BY <1>1 DEF WriteTo, LineInv
<1>3. line \in [Streams -> {"start", "nonewline"} \cup Outputs] /\ "os" \in Streams
  BY DEF TypeOK, Streams
<1>4. CASE ending = "newline"
  BY <1>2, <1>3, <1>4, StreamNames DEF WriteTo
<1>5. CASE ending = "nonewline"
  <2>1. line["os"] \in Outputs => line["os"] = current
    BY DEF LineInv, OpenLine
  <2>2. line'["os"] = IF pending[current] # "none" \/ line["os"] = current
                      THEN "nonewline" ELSE line["os"]
    BY <1>3, <1>5 DEF WriteTo
  <2> QED
    BY <1>2, <1>5, <2>1, <2>2, StreamNames
<1>6. CASE ending = "open"
  BY <1>2, <1>3, <1>6 DEF WriteTo
<1> QED
  BY <1>4, <1>5, <1>6

\* start() leaves no line open, and does not write on one.
LEMMA StartLine ==
  ASSUME IInv, LineInv, NEW o, NEW m \in SUBSET MaskBits, "cerr_cf" \notin m, Start(o, m)
  PROVE  /\ ~ mixed' /\ line'["os"] \notin Outputs
         /\ OnOs(mask') /\ OpenLine'
         /\ unfinished_expected'
         /\ \A p \in live : mask'[p] = mask[p]
<1>1. TypeOK /\ CurrentOnTop
  BY DEF IInv
<1>2. ~ mixed' /\ line'["os"] \notin Outputs
  <2>1. CASE Interrupts
    <3>1. current \in Outputs /\ WriteTo(current, "os", "newline")
      BY <1>1, <2>1 DEF Start, Interrupts, Target, TypeOK
    <3> QED
      BY <1>1, <3>1, OwnLine
  <2>2. CASE ~ Interrupts
    <3>1. line' = line /\ mixed' = mixed
      BY <2>2 DEF Start
    <3>2. line["os"] \notin Outputs
      BY <2>2, OutputsAssumption DEF LineInv, OpenLine, Interrupts
    <3> QED
      BY <3>1, <3>2 DEF LineInv
  <2> QED
    BY <2>1, <2>2
<1>3. /\ o \in Outputs \ live /\ mask' \in [Outputs -> SUBSET MaskBits]
      /\ \A p \in Outputs \ {o} : mask'[p] = mask[p]
  BY <1>1, StartStep
<1>4. "cerr_cf" \notin mask'[o]
  <2>1. mask'[o] = m \cup IF start_expected THEN {} ELSE mask[current] \cap {"cerr_cf"}
    BY <1>1, <1>3 DEF Start, TypeOK
  <2>2. ~ start_expected => current \in Outputs
    BY <1>1 DEF CurrentOnTop
  <2> QED
    BY <2>1, <2>2 DEF LineInv, OnOs
<1>5. OnOs(mask')
  BY <1>3, <1>4 DEF LineInv, OnOs
<1>6. unfinished_expected' /\ \A p \in live : mask'[p] = mask[p]
  BY <1>1, <1>3 DEF Start, TypeOK
<1> QED
  BY <1>2, <1>5, <1>6 DEF OpenLine

\* What opening and closing does to these.
LEMMA PushLine ==
  ASSUME NEW p \in Seq(Items), NEW it \in Items, NEW u, NEW v, NEW m,
         Openings(p, u), Parts(p, m),
         p # <<>> => Top(p).kind # "opening",
         it.kind = "opening" => v,
         it.kind = "part" => "continued" \in m[it.out]
  PROVE  Openings(Append(p, it), v) /\ Parts(Append(p, it), m)
<1>1. /\ Len(p) \in Nat /\ Len(Append(p, it)) = Len(p) + 1
      /\ \A i \in 1 .. Len(p) : Append(p, it)[i] = p[i]
      /\ Append(p, it)[Len(p) + 1] = it
      /\ Len(p) > 0 => p # <<>> /\ Top(p) = p[Len(p)]
  BY AppendTopPop DEF Top
<1>2. \A i \in 1 .. Len(p) : p[i].kind # "opening"
  BY <1>1 DEF Openings
<1> QED
  BY <1>1, <1>2 DEF Openings, Parts

LEMMA PopLine ==
  ASSUME NEW p \in Seq(Items), p # <<>>, NEW u, NEW v, NEW m, Openings(p, u), Parts(p, m)
  PROVE  /\ Openings(Pop(p), v) /\ Parts(Pop(p), m)
         /\ Pop(p) # <<>> => Top(Pop(p)).kind # "opening"
         /\ Top(p).kind = "opening" => u
         /\ Top(p).kind = "part" => "continued" \in m[Top(p).out]
<1>1. /\ Len(p) \in Nat \ {0} /\ Pop(p) \in Seq(Items) /\ Len(Pop(p)) = Len(p) - 1
      /\ \A i \in 1 .. Len(p) - 1 : Pop(p)[i] = p[i]
      /\ Top(p) = p[Len(p)]
  BY PopProperties
<1>2. \A i \in 1 .. Len(p) - 1 : p[i].kind # "opening"
  BY <1>1 DEF Openings
<1>3. Pop(p) # <<>> => Len(p) - 1 \in 1 .. Len(p) - 1 /\ Top(Pop(p)) = p[Len(p) - 1]
  BY <1>1 DEF Top
<1> QED
  BY <1>1, <1>2, <1>3 DEF Openings, Parts

\* The output of a part is that of the section that it continues.
LEMMA PartOut ==
  ASSUME NEW p \in Seq(Items), WellNested(p), NEW i \in 1 .. Len(p), p[i].kind = "part"
  PROVE  p[i].out \in Outputs /\ p[i].out \in Outs(p)
<1>1. PICK j \in 1 .. i - 1 : p[j].kind = "section" /\ p[j].out = p[i].out
  BY DEF WellNested
<1>2. j \in 1 .. Len(p) /\ p[j].kind \in Starters
  BY <1>1 DEF Starters, Sections
<1> QED
  BY <1>1, <1>2, Own

\* A mask that gains bits still has those it had.
LEMMA GrowParts ==
  ASSUME NEW p \in Seq(Items), WellNested(p), NEW m, NEW n, Parts(p, m),
         \A o \in Outs(p) : m[o] \subseteq n[o]
  PROVE  Parts(p, n)
<1> SUFFICES ASSUME NEW i \in 1 .. Len(p), p[i].kind = "part" PROVE "continued" \in n[p[i].out]
  BY DEF Parts
<1>1. p[i].out \in Outs(p)
  BY PartOut
<1> QED
  BY <1>1 DEF Parts

\* Dout() and the statement that opens a section.
LEMMA OpenLineStep ==
  ASSUME OneStream, IInv, LineInv, NEW o, NEW m \in SUBSET MaskBits, "cerr_cf" \notin m,
         MayOpen, Start(o, m), NEW kind \in {"plain", "opening"},
         prog' = Append(prog, Item(kind, o, 0))
  PROVE  LineInv'
<1> DEFINE it == Item(kind, o, 0)
<1>1. /\ ~ mixed' /\ OnOs(mask') /\ OpenLine' /\ unfinished_expected'
      /\ \A p \in live : mask'[p] = mask[p]
  BY StartLine
<1>2. prog \in Seq(Items) /\ WellNested(prog) /\ Outs(prog) = live /\ o \in Outputs
  BY DEF IInv, TypeOK, NoLeak, Start
<1>3. it \in Items /\ it.kind = kind
  BY <1>2, WidthType DEF Item, Items, Kinds, Statements
<1>4. Parts(prog, mask')
  BY <1>1, <1>2, GrowParts DEF LineInv
<1>5. prog # <<>> => Top(prog).kind # "opening"
  BY DEF MayOpen, OneStream
<1> HIDE DEF it
<1>6. Openings(Append(prog, it), unfinished_expected') /\ Parts(Append(prog, it), mask')
  BY <1>1, <1>2, <1>3, <1>4, <1>5, PushLine DEF LineInv
<1> QED
  BY <1>1, <1>6 DEF LineInv, it

\* A mark, or a section that is off.
LEMMA PushLineStep ==
  ASSUME OneStream, IInv, LineInv, MayOpen, NEW it \in Items, it.kind \in {"off", "mark"},
         prog' = Append(prog, it),
         UNCHANGED <<mask, current, unfinished_expected, pending, line, mixed>>
  PROVE  LineInv'
<1>1. prog \in Seq(Items)
  BY DEF IInv, TypeOK
<1>2. prog # <<>> => Top(prog).kind # "opening"
  BY DEF MayOpen, OneStream
<1>3. Openings(prog', unfinished_expected) /\ Parts(prog', mask)
  BY <1>1, <1>2, PushLine DEF LineInv
<1> QED
  BY <1>3 DEF LineInv, OpenLine

LEMMA CloseLine ==
  ASSUME NEW p \in Seq(Items), NEW i \in 1 .. Len(p), NEW u, NEW m, Openings(p, u), Parts(p, m)
  PROVE  Openings(Closed(p, i), u) /\ Parts(Closed(p, i), m)
<1> DEFINE q == Closed(p, i)
<1>1. /\ Len(p) \in Nat \ {0} /\ Len(q) = Len(p) - 1
      /\ \A k \in 1 .. Len(p) - 1 : q[k] = p[Old(i, k)] /\ Old(i, k) \in 1 .. Len(p)
  BY CloseItem
<1>2. \A k \in 1 .. Len(p) - 1 : Old(i, k) = Len(p) => k = Len(p) - 1
  BY <1>1 DEF Old
<1> HIDE DEF q
<1>3. Openings(q, u)
  <2> SUFFICES ASSUME NEW k \in 1 .. Len(q), q[k].kind = "opening" PROVE k = Len(q) /\ u
    BY DEF Openings
  <2>1. q[k] = p[Old(i, k)] /\ Old(i, k) \in 1 .. Len(p)
    BY <1>1
  <2>2. Old(i, k) = Len(p) /\ u
    BY <2>1, Zenon DEF Openings
  <2> QED
    BY <1>1, <1>2, <2>2
<1>4. Parts(q, m)
  <2> SUFFICES ASSUME NEW k \in 1 .. Len(q), q[k].kind = "part" PROVE "continued" \in m[q[k].out]
    BY DEF Parts
  <2>1. q[k] = p[Old(i, k)] /\ Old(i, k) \in 1 .. Len(p)
    BY <1>1
  <2> QED
    BY <2>1 DEF Parts
<1> QED
  BY <1>3, <1>4 DEF q

LEMMA CloseLineStep ==
  ASSUME IInv, LineInv, NEW i \in 1 .. Len(prog), prog' = Closed(prog, i),
         UNCHANGED <<mask, current, unfinished_expected, pending, line, mixed>>
  PROVE  LineInv'
<1>1. Openings(prog', unfinished_expected) /\ Parts(prog', mask)
  BY CloseLine DEF LineInv, IInv, TypeOK
<1> QED
  BY <1>1 DEF LineInv, OpenLine

\* dc::continued and dc::finish change the mask of the current output.
LEMMA MaskLine ==
  ASSUME IInv, LineInv, current \in Outputs, NEW m \in SUBSET MaskBits, "cerr_cf" \notin m,
         mask[current] \ {"continued_expected"} \subseteq m,
         mask' = [mask EXCEPT ![current] = m],
         UNCHANGED <<current, unfinished_expected, pending, line, mixed>>
  PROVE  /\ ~ mixed' /\ OnOs(mask') /\ OpenLine' /\ Parts(prog, mask') /\ mask'[current] = m
<1>1. mask \in [Outputs -> SUBSET MaskBits]
  BY DEF IInv, TypeOK
<1>2. mask'[current] = m /\ \A o \in Outputs : o # current => mask'[o] = mask[o]
  BY <1>1
<1>3. OnOs(mask') /\ OpenLine' /\ ~ mixed'
  BY <1>2 DEF LineInv, OnOs, OpenLine
<1>4. \A o \in Outputs : "continued" \in mask[o] => "continued" \in mask'[o]
  BY <1>2
<1>5. Parts(prog, mask')
  <2> SUFFICES ASSUME NEW i \in 1 .. Len(prog), prog[i].kind = "part"
               PROVE  "continued" \in mask'[prog[i].out]
    BY DEF Parts
  <2>1. prog[i].out \in Outputs
    BY PartOut DEF IInv, TypeOK
  <2> QED
    BY <1>4, <2>1 DEF LineInv, Parts
<1> QED
  BY <1>2, <1>3, <1>5

\* Above the section of a dc::continued or dc::finish that prints no statement is open.
LEMMA NoOpeningAbove ==
  ASSUME NEW p \in Seq(Items), NEW u, Openings(p, u), NEW i \in 1 .. Len(p),
         \A k \in i .. Len(p) : p[k].kind # "opening"
  PROVE  /\ Top(p).kind # "opening"
         /\ Closed(p, i) # <<>> => Top(Closed(p, i)).kind # "opening"
<1> DEFINE q == Closed(p, i)
<1>1. /\ Len(p) \in Nat \ {0} /\ q \in Seq(Items) /\ Len(q) = Len(p) - 1
      /\ \A k \in 1 .. Len(p) - 1 : q[k] = p[Old(i, k)] /\ Old(i, k) \in 1 .. Len(p)
  BY CloseItem
<1>2. Len(p) \in i .. Len(p)
  BY <1>1
<1>3. \A k \in 1 .. Len(p) : p[k].kind # "opening"
  BY <1>2, Zenon DEF Openings
<1> HIDE DEF q
<1>4. ASSUME q # <<>> PROVE Top(q).kind # "opening"
  <2>1. Len(q) \in 1 .. Len(p) - 1 /\ Top(q) = q[Len(q)]
    BY <1>1, <1>4 DEF Top
  <2> QED
    BY <1>1, <1>3, <2>1
<1> QED
  BY <1>2, <1>3, <1>4 DEF Top, q

LEMMA ContinuedLine ==
  ASSUME OneStream, IInv, LineInv, ~ MisuseInPart, Allowed,
         NEW flags \in Choices, Continued(flags)
  PROVE  LineInv'
<1> DEFINE m == mask[current] \cup {"continued"} \cup flags
           it == Item("part", current, 0)
<1>1. TypeOK /\ prog \in Seq(Items)
  BY DEF IInv, TypeOK
<1>2. PICK i \in 1 .. Len(prog) :
        /\ prog[i].kind = "section" /\ current \in Outputs
        /\ \A k \in i + 1 .. Len(prog) : prog[k].kind = "mark"
  BY AtItsSection DEF Continued
<1>3. m \in SUBSET MaskBits /\ "cerr_cf" \notin m /\ "continued" \in m
  BY <1>1, <1>2, ChoicesAssumption DEF OneStream, MaskBits, TypeOK, LineInv, OnOs
<1>4. /\ mask' = [mask EXCEPT ![current] = m] /\ prog' = Append(prog, it)
      /\ UNCHANGED <<current, unfinished_expected, pending, line, mixed>>
  BY DEF Continued, streamvars
<1>5. it \in Items /\ it.kind = "part" /\ it.out = current
  BY <1>2, WidthType DEF Item, Items, Kinds, Statements
<1>6. mask[current] \ {"continued_expected"} \subseteq m
  OBVIOUS
<1> HIDE DEF m, it
<1>7. ~ mixed' /\ OnOs(mask') /\ OpenLine' /\ Parts(prog, mask') /\ mask'[current] = m
  BY <1>2, <1>3, <1>4, <1>6, MaskLine
<1>8. Top(prog).kind # "opening"
  <2>1. \A k \in i .. Len(prog) : k = i \/ k \in i + 1 .. Len(prog)
    OBVIOUS
  <2>2. \A k \in i .. Len(prog) : prog[k].kind # "opening"
    BY <1>2, <2>1
  <2> QED
    BY <1>1, <2>2, NoOpeningAbove DEF LineInv
<1>9. Openings(prog, unfinished_expected)
  BY DEF LineInv
<1>10. Openings(prog', unfinished_expected) /\ Parts(prog', mask')
  BY <1>1, <1>3, <1>4, <1>5, <1>7, <1>8, <1>9, PushLine
<1> QED
  BY <1>4, <1>7, <1>10 DEF LineInv

LEMMA FinishChannelLine ==
  ASSUME OneStream, IInv, LineInv, ~ MisuseInPart, Allowed,
         NEW flags \in Choices, FinishChannel(flags)
  PROVE  LineInv'
<1> DEFINE m == (mask[current] \cup {"finish"} \cup flags) \ {"continued_expected"}
           it == Item("plain", current, 0)
<1>1. TypeOK /\ prog \in Seq(Items)
  BY DEF IInv, TypeOK
<1>2. PICK i \in 1 .. Len(prog) :
        /\ prog[i].kind = "section" /\ current \in Outputs
        /\ \A k \in i + 1 .. Len(prog) : prog[k].kind = "mark"
        /\ CloseInnermost(prog, "section", current) = Closed(prog, i)
  BY AtItsSection DEF FinishChannel
<1> DEFINE q == Closed(prog, i)
<1>3. m \in SUBSET MaskBits /\ "cerr_cf" \notin m
  BY <1>1, <1>2, ChoicesAssumption DEF OneStream, MaskBits, TypeOK, LineInv, OnOs
<1>4. /\ mask' = [mask EXCEPT ![current] = m] /\ prog' = Append(q, it)
      /\ UNCHANGED <<current, unfinished_expected, pending, line, mixed>>
  BY <1>2 DEF FinishChannel, streamvars
<1>5. it \in Items /\ it.kind = "plain"
  BY <1>2, WidthType DEF Item, Items, Kinds, Statements
<1>6. mask[current] \ {"continued_expected"} \subseteq m
  OBVIOUS
<1> HIDE DEF m, it
<1>7. ~ mixed' /\ OnOs(mask') /\ OpenLine' /\ Parts(prog, mask')
  BY <1>2, <1>3, <1>4, <1>6, MaskLine
<1>8. q \in Seq(Items) /\ (q # <<>> => Top(q).kind # "opening")
  <2>1. \A k \in i .. Len(prog) : k = i \/ k \in i + 1 .. Len(prog)
    OBVIOUS
  <2>2. \A k \in i .. Len(prog) : prog[k].kind # "opening"
    BY <1>2, <2>1
  <2> QED
    BY <1>1, <2>2, CloseItem, NoOpeningAbove DEF LineInv
<1>9. Openings(q, unfinished_expected) /\ Parts(q, mask')
  BY <1>1, <1>7, CloseLine DEF LineInv
<1> HIDE DEF q
<1>10. Openings(prog', unfinished_expected) /\ Parts(prog', mask')
  BY <1>4, <1>5, <1>8, <1>9, PushLine
<1> QED
  BY <1>4, <1>7, <1>10 DEF LineInv

LEMMA FinishOffChannelLine ==
  ASSUME IInv, LineInv, FinishOffChannel
  PROVE  LineInv'
<1>1. PICK i \in 1 .. Len(prog) : CloseInnermost(prog, "off", Dummy) = Closed(prog, i)
  BY AtItsOffSection DEF FinishOffChannel
<1>2. /\ prog' = Closed(prog, i)
      /\ UNCHANGED <<mask, current, unfinished_expected, pending, line, mixed>>
  BY <1>1 DEF FinishOffChannel, streamvars
<1> QED
  BY <1>2, CloseLineStep

LEMMA TextLine ==
  ASSUME IInv, LineInv, Text
  PROVE  LineInv'
<1>1. /\ pending' = [pending EXCEPT ![Top(prog).out] = "text"]
      /\ UNCHANGED <<mask, current, unfinished_expected, prog, line, mixed>>
  BY DEF Text, tsdvars
<1>2. current = Top(prog).out /\ current \in Outputs
  BY Ends DEF Text
<1>3. pending'[current] = "text"
  BY <1>1, <1>2 DEF IInv, TypeOK
<1> QED
  BY <1>1, <1>3 DEF LineInv, OpenLine

\* finish() of a statement that leaves its section open: the line may stay open.
LEMMA FinishPartLine ==
  ASSUME OneStream, IInv, LineInv, FinishPart
  PROVE  LineInv'
<1> DEFINE m == mask[current] \cup {"continued_expected"}
           it == [Top(prog) EXCEPT !.kind = "section"]
<1>1. /\ TypeOK /\ prog \in Seq(Items) /\ prog # <<>>
      /\ current = Top(prog).out /\ current \in Outputs
      /\ Top(prog).kind \in {"opening", "part"}
      /\ "continued_cf" \in mask[current]
  BY Ends DEF FinishPart, EndsPart, IInv, Statements
<1>2. /\ mask' = [mask EXCEPT ![current] = m] /\ current' = current
      /\ unfinished_expected' = (unfinished_expected \/ "continued" \in mask[current])
  BY DEF FinishPart
<1>3. mask'[current] = m /\ \A o \in Outputs : o # current => mask'[o] = mask[o]
  BY <1>1, <1>2 DEF TypeOK
<1>4. /\ OnOs(mask') /\ "continued_cf" \in mask'[current]
      /\ \A o \in Outputs : mask[o] \subseteq mask'[o]
  BY <1>1, <1>3 DEF LineInv, OnOs
<1>5. unfinished_expected'
  <2>1. CASE Top(prog).kind = "opening"
    <3>1. Len(prog) \in 1 .. Len(prog) /\ Top(prog) = prog[Len(prog)]
      <4>1. Len(prog) \in Nat \ {0} /\ Top(prog) = prog[Len(prog)]
        BY <1>1, PopProperties
      <4> QED
        BY <4>1
    <3>2. unfinished_expected
      BY <2>1, <3>1, Zenon DEF LineInv, Openings
    <3> QED
      BY <1>2, <3>2, Zenon
  <2>2. CASE Top(prog).kind = "part"
    <3>1. "continued" \in mask[current]
      BY <1>1, <2>2, PopLine DEF LineInv
    <3> QED
      BY <1>2, <3>1, Zenon
  <2> QED
    BY <1>1, <2>1, <2>2
<1>6. ~ mixed' /\ OpenLine'
  <2>1. CASE Flushes(mask[current])
    <3>1. WriteTo(current, "os", "open") /\ pending'[current] = "none"
      BY <1>1, <2>1 DEF FinishPart, Target, LineInv, OnOs, TypeOK
    <3>2. ~ mixed' /\ line'["os"] = IF pending[current] # "none" THEN current ELSE line["os"]
      BY <1>1, <3>1, OwnLine
    <3> QED
      BY <1>2, <1>4, <1>5, <3>1, <3>2 DEF LineInv, OpenLine
  <2>2. CASE ~ Flushes(mask[current])
    BY <1>2, <1>4, <1>5, <2>2 DEF FinishPart, streamvars, LineInv, OpenLine
  <2> QED
    BY <2>1, <2>2
<1>7. Parts(prog, mask')
  <2>1. Outs(prog) \subseteq Outputs
    BY DEF IInv, TypeOK, NoLeak
  <2> QED
    BY <1>1, <1>4, <2>1, GrowParts DEF LineInv, IInv
<1>8. /\ Top(prog) \in Items /\ Pop(prog) \in Seq(Items)
      /\ Openings(Pop(prog), unfinished_expected') /\ Parts(Pop(prog), mask')
      /\ Pop(prog) # <<>> => Top(Pop(prog)).kind # "opening"
  BY <1>1, <1>7, PopProperties, PopLine DEF LineInv
<1>9. Openings(prog', unfinished_expected') /\ Parts(prog', mask')
  <2>1. CASE Top(prog).kind = "opening"
    <3>1. it \in Items /\ it.kind = "section"
      BY <1>8 DEF Items, Kinds
    <3>2. prog' = Append(Pop(prog), it)
      BY <2>1 DEF FinishPart
    <3> HIDE DEF it
    <3> QED
      BY <1>8, <3>1, <3>2, PushLine
  <2>2. CASE Top(prog).kind # "opening"
    BY <1>8, <2>2 DEF FinishPart
  <2> QED
    BY <2>1, <2>2
<1> QED
  BY <1>4, <1>6, <1>9 DEF LineInv

\* The end of an output: its line ends.
LEMMA LastLine ==
  ASSUME IInv, LineInv, current \in Outputs, WriteLast
  PROVE  ~ mixed' /\ line'["os"] \notin Outputs
<1>1. TypeOK /\ Target(mask[current]) = "os"
  BY DEF IInv, Target, LineInv, OnOs
<1> QED
  BY <1>1, OwnLine DEF WriteLast

LEMMA FinishLine ==
  ASSUME IInv, LineInv, Finish
  PROVE  LineInv'
<1>1. /\ TypeOK /\ prog \in Seq(Items) /\ prog # <<>>
      /\ current = Top(prog).out /\ current \in Outputs
  BY Ends DEF Finish, IInv
<1>2. ~ mixed' /\ line'["os"] \notin Outputs
  BY <1>1, LastLine DEF Finish
<1>3. \A o \in Outputs : mask[o] \subseteq mask'[o] /\ mask'[o] \subseteq mask[o] \cup {"flush_cf"}
  <2>1. mask \in [Outputs -> SUBSET MaskBits]
    BY <1>1 DEF TypeOK
  <2>2. mask' = mask \/ mask' = [mask EXCEPT ![Top(PoppedStack)] = @ \cup {"flush_cf"}]
    BY DEF Finish
  <2> QED
    BY <2>1, <2>2
<1>4. OnOs(mask') /\ OpenLine'
  BY <1>2, <1>3 DEF LineInv, OnOs, OpenLine
<1>5. Parts(prog, mask')
  <2>1. Outs(prog) \subseteq Outputs
    BY DEF IInv, TypeOK, NoLeak
  <2> QED
    BY <1>1, <1>3, <2>1, GrowParts DEF LineInv, IInv
<1>6. prog' = Pop(prog)
  BY DEF Finish
<1>7. Openings(prog', unfinished_expected') /\ Parts(prog', mask')
  BY <1>1, <1>5, <1>6, PopLine DEF LineInv
<1> QED
  BY <1>2, <1>4, <1>7 DEF LineInv

LEMMA FinishFatalLine ==
  ASSUME IInv, LineInv, FinishFatal
  PROVE  LineInv'
<1>1. current \in Outputs
  BY Ends DEF FinishFatal
<1>2. ~ mixed' /\ line'["os"] \notin Outputs
  BY <1>1, LastLine DEF FinishFatal
<1> QED
  BY <1>2 DEF FinishFatal, tsdvars, LineInv, OpenLine

LEMMA LineStep ==
  ASSUME OneStream, ~ MisuseInPart, IInv, LineInv, [Next]_vars
  PROVE  LineInv'
<1>1. ASSUME NEW o \in Outputs, NEW flags \in Choices, Dout(o, flags) PROVE LineInv'
  <2>1. flags \in SUBSET MaskBits /\ "cerr_cf" \notin flags
    BY ChoicesAssumption DEF MaskBits, OneStream
  <2> QED
    BY <1>1, <2>1, OpenLineStep DEF Dout
<1>2. ASSUME NEW o \in Outputs, NEW flags \in Choices, OpenSection(o, flags) PROVE LineInv'
  <2> DEFINE m == flags \cup {"continued_cf"}
  <2>1. m \in SUBSET MaskBits /\ "cerr_cf" \notin m
    BY ChoicesAssumption DEF MaskBits, OneStream
  <2>2. MayOpen /\ Start(o, m) /\ prog' = Append(prog, Item("opening", o, 0))
    BY <1>2 DEF OpenSection
  <2> HIDE DEF m
  <2> QED
    BY <2>1, <2>2, OpenLineStep
<1>3. CASE OpenOffSection
  <2> DEFINE it == Item("off", Dummy, 0)
  <2>1. it \in Items /\ it.kind = "off"
    BY WidthType DEF Item, Items, Kinds
  <2>2. /\ MayOpen /\ prog' = Append(prog, it)
        /\ UNCHANGED <<mask, current, unfinished_expected, pending, line, mixed>>
    BY <1>3 DEF OpenOffSection, streamvars
  <2> HIDE DEF it
  <2> QED
    BY <2>1, <2>2, PushLineStep
<1>4. ASSUME Allowed, NEW flags \in Choices, Continued(flags) PROVE LineInv'
  BY <1>4, ContinuedLine
<1>5. ASSUME Allowed, NEW flags \in Choices, FinishChannel(flags) PROVE LineInv'
  BY <1>5, FinishChannelLine
<1>6. CASE FinishOffChannel
  BY <1>6, FinishOffChannelLine
<1>7. CASE Text
  BY <1>7, TextLine
<1>8. CASE FinishPart
  BY <1>8, FinishPartLine
<1>9. CASE Finish
  BY <1>9, FinishLine
<1>10. CASE FinishFatal
  BY <1>10, FinishFatalLine
<1>11. CASE OpenMark
  <2> DEFINE it == Item("mark", Dummy, indent)
  <2>1. it \in Items /\ it.kind = "mark"
    BY DEF Item, Items, Kinds, IInv, TypeOK
  <2>2. /\ MayOpen /\ prog' = Append(prog, it)
        /\ UNCHANGED <<mask, current, unfinished_expected, pending, line, mixed>>
    BY <1>11 DEF OpenMark, streamvars
  <2> HIDE DEF it
  <2> QED
    BY <2>1, <2>2, PushLineStep
<1>12. CASE CloseMark
  <2>1. PICK i \in 1 .. Len(prog) : prog' = Closed(prog, i)
    BY <1>12 DEF CloseMark, IInv, TypeOK
  <2> QED
    BY <1>12, <2>1, CloseLineStep DEF CloseMark, streamvars
<1>13. CASE Overflow \/ Unmatched \/ UNCHANGED vars
  BY <1>13 DEF Overflow, Unmatched, vars, tsdvars, streamvars, LineInv, OpenLine
<1> QED
  BY <1>1, <1>2, <1>3, <1>4, <1>5, <1>6, <1>7, <1>8, <1>9, <1>10, <1>11, <1>12, <1>13 DEF Next

\* Nested output is never written on the line of another, also when sections are flushed half
\* way: for programs on one stream that nest nothing in an opening statement.
THEOREM LinesAreNotMixed ==
  ASSUME OneStream, ~ MisuseInPart
  PROVE  Spec => []LinesNotMixed
<1>1. Init => LineInv
  BY StreamNames DEF Init, LineInv, OnOs, OpenLine, Openings, Parts, Streams
<1>2. IInv /\ LineInv /\ [Next]_vars => LineInv'
  BY LineStep
<1>3. LineInv => LinesNotMixed
  BY DEF LineInv, LinesNotMixed
<1> QED
  BY <1>1, <1>2, <1>3, Inductive, PTL DEF Spec

=============================================================================
