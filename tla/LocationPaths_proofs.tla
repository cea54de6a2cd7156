------------------------- MODULE LocationPaths_proofs -------------------------
(***************************************************************************)
(* The paths of Location objects are deleted once and by the Location that *)
(* owns them, for any number of Locations, paths and places.               *)
(***************************************************************************)
EXTENDS LocationPaths, TLAPS

(***************************************************************************)
(* The strengthening that is inductive: no two Locations own the same      *)
(* path, and the paths that are allocated are those that are owned.        *)
(***************************************************************************)
OneOwner ==
  \A x, y \in Locations : loc[x].owner_ /\ loc[y].owner_ /\ loc[x].ptr_ = loc[y].ptr_ => x = y

Accounted ==
  \A q \in Paths : heap[q] # NULL <=> \E x \in Locations : loc[x].owner_ /\ loc[x].ptr_ = q

IInv == TypeOK /\ OneOwner /\ Accounted /\ NoDoubleFree /\ UnknownPcIsPc

(***************************************************************************)
(* What each operation does first is to drop what the Location x was: r is *)
(* what remains of it and frees are the paths that were deleted.           *)
(***************************************************************************)
Drops(x, r, frees) ==
  /\ r \in Location
  /\ ~ r.known_ /\ r.line_ = NULL /\ r.name = "cleared" /\ ~ r.object
  /\ r.owner_ => r.ptr_ # NULL
  /\ frees \cap Owned(r) = {}
  /\ frees \cup Owned(r) = Owned(loc[x])

LEMMA BlankIsLocation == Blank \in Location /\ Owned(Blank) = {}
BY DEF Blank, Location, Owned

\* A Location that does not exist drops nothing.
LEMMA DeadDrops ==
  ASSUME TypeOK, NEW x \in Locations, x \notin alive
  PROVE  Drops(x, Blank, {})
<1>1. loc[x] = Blank
  BY DEF TypeOK
<1>2. Blank.name = "cleared" /\ ~ Blank.known_ /\ Blank.line_ = NULL /\ ~ Blank.object /\ ~ Blank.owner_
  BY DEF Blank
<1> QED
  BY <1>1, <1>2, BlankIsLocation DEF Drops

LEMMA ClearedKnown ==
  ASSUME NEW r \in Location, r.known_
  PROVE  /\ Cleared(r) \in Location
         /\ ~ Cleared(r).known_ /\ ~ Cleared(r).object /\ ~ Cleared(r).owner_
         /\ Cleared(r).name = "cleared" /\ Cleared(r).line_ = NULL
BY DEF Cleared, Blank, Location

LEMMA ClearedUnknown ==
  ASSUME NEW r \in Location, ~ r.known_
  PROVE  /\ Cleared(r) \in Location
         /\ ~ Cleared(r).known_ /\ ~ Cleared(r).object
         /\ Cleared(r).owner_ = r.owner_ /\ Cleared(r).ptr_ = r.ptr_
         /\ Cleared(r).name = "cleared" /\ Cleared(r).line_ = r.line_
BY DEF Cleared, Location

\* clear() drops the path of a Location that is known and leaves another alone.
LEMMA ClearDrops ==
  ASSUME TypeOK, NEW x \in Locations
  PROVE  Drops(x, Cleared(loc[x]), Freed(loc[x]))
<1>1. loc[x] \in Location
  BY DEF TypeOK
<1>2. CASE loc[x].known_
  <2>1. Owned(Cleared(loc[x])) = {} /\ Freed(loc[x]) = Owned(loc[x])
    BY <1>1, <1>2, ClearedKnown DEF Owned, Freed
  <2> QED
    BY <1>1, <1>2, <2>1, ClearedKnown DEF Drops
<1>3. CASE ~ loc[x].known_
  <2>1. loc[x].line_ = NULL /\ (loc[x].owner_ => loc[x].ptr_ # NULL)
    BY <1>3 DEF TypeOK
  <2>2. Owned(Cleared(loc[x])) = Owned(loc[x]) /\ Freed(loc[x]) = {}
    BY <1>1, <1>3, ClearedUnknown DEF Owned, Freed
  <2>3. Cleared(loc[x]).owner_ => Cleared(loc[x]).ptr_ # NULL
    BY <1>1, <1>3, <2>1, ClearedUnknown, Zenon
  <2> QED
    BY <1>1, <1>3, <2>1, <2>2, <2>3, ClearedUnknown DEF Drops
<1> QED
  BY <1>2, <1>3

\* The destructor drops everything.
LEMMA DestroyDrops ==
  ASSUME NEW x \in Locations
  PROVE  Drops(x, Blank, Owned(loc[x]))
<1>1. Blank.name = "cleared" /\ ~ Blank.known_ /\ Blank.line_ = NULL /\ ~ Blank.object /\ ~ Blank.owner_
  BY DEF Blank
<1> QED
  BY <1>1, BlankIsLocation DEF Drops

LEMMA GivenFields ==
  ASSUME NEW r \in Location
  PROVE  /\ Given(r) \in Location
         /\ Given(r).known_ = r.known_ /\ Given(r).line_ = r.line_ /\ Given(r).ptr_ = r.ptr_
         /\ Given(r).object = r.object /\ Given(r).name = r.name /\ Given(r).pc = r.pc
         /\ Given(r).owner_ <=> r.owner_ /\ r.locked_
BY DEF Given, Location

LEMMA CopiedKnown ==
  ASSUME NEW r \in Location, NEW proto \in Location, proto.known_
  PROVE  /\ Copied(r, proto) \in Location
         /\ Copied(r, proto).known_
         /\ Copied(r, proto).line_ = proto.line_ /\ Copied(r, proto).ptr_ = proto.ptr_
         /\ Copied(r, proto).object = proto.object /\ Copied(r, proto).name = proto.name
         /\ Copied(r, proto).pc = proto.pc
         /\ Copied(r, proto).owner_ <=> proto.owner_ /\ ~ proto.locked_
BY DEF Copied, Moves, Location

LEMMA CopiedUnknown ==
  ASSUME NEW r \in Location, NEW proto \in Location, ~ proto.known_
  PROVE  /\ Copied(r, proto) \in Location
         /\ Copied(r, proto).known_ = r.known_
         /\ Copied(r, proto).line_ = r.line_ /\ Copied(r, proto).ptr_ = r.ptr_
         /\ Copied(r, proto).object = proto.object /\ Copied(r, proto).name = proto.name
         /\ Copied(r, proto).pc = proto.pc
         /\ Copied(r, proto).owner_ = r.owner_
BY DEF Copied, Location

(***************************************************************************)
(* What a Location owns is allocated, so that dropping it misfrees nothing.*)
(***************************************************************************)
LEMMA OwnedIsAllocated ==
  ASSUME TypeOK, Accounted, NEW x \in Locations
  PROVE  /\ Owned(loc[x]) \subseteq Paths
         /\ \A p \in Owned(loc[x]) : heap[p] # NULL
<1>1. loc[x].ptr_ \in Paths \cup {NULL} /\ (loc[x].owner_ => loc[x].ptr_ # NULL)
  BY DEF TypeOK, Location
<1> QED
  BY <1>1 DEF Owned, Accounted

(***************************************************************************)
(* The step of clear() and of the destructor.                              *)
(***************************************************************************)
LEMMA DropStep ==
  ASSUME IInv, NEW x \in Locations, NEW r, NEW frees, Drops(x, r, frees),
         alive' = alive \/ (alive' = alive \ {x} /\ r = Blank),
         x \in alive,
         loc' = [loc EXCEPT ![x] = r],
         heap' = Without(frees),
         Misfrees(frees),
         tidy' \in BOOLEAN
  PROVE  IInv'
<1>1. /\ r \in Location /\ ~ r.known_ /\ r.line_ = NULL
      /\ r.name = "cleared" /\ (r.owner_ => r.ptr_ # NULL)
  BY DEF Drops
<1>2. /\ loc \in [Locations -> Location] /\ loc'[x] = r
      /\ \A z \in Locations \ {x} : loc'[z] = loc[z]
  BY DEF IInv, TypeOK
<1>3. frees \subseteq Paths /\ \A p \in frees : heap[p] # NULL
  BY OwnedIsAllocated DEF IInv, Drops
<1>4. \A p : p \in frees \/ (r.owner_ /\ r.ptr_ = p) <=> loc[x].owner_ /\ loc[x].ptr_ = p
  BY DEF Drops, Owned
<1>5. \A p \in frees : ~ (r.owner_ /\ r.ptr_ = p)
  BY DEF Drops, Owned
<1>6. TypeOK'
  <2>1. heap' \in [Paths -> Places \cup {NULL}] /\ misfreed' \in BOOLEAN
    BY DEF IInv, TypeOK, Without, Misfrees
  <2>2. loc' \in [Locations -> Location]
    BY <1>1, <1>2
  <2> QED
    BY <1>1, <1>2, <2>1, <2>2 DEF IInv, TypeOK
<1>7. OneOwner'
  BY <1>2, <1>4 DEF IInv, OneOwner
<1>8. Accounted'
  BY <1>2, <1>3, <1>4, <1>5 DEF IInv, Accounted, OneOwner, Without
<1>9. NoDoubleFree'
  BY <1>3 DEF IInv, NoDoubleFree, Misfrees
<1>10. UnknownPcIsPc'
  BY <1>1, <1>2 DEF IInv, UnknownPcIsPc, TypeOK
<1> QED
  BY <1>6, <1>7, <1>8, <1>9, <1>10 DEF IInv

(***************************************************************************)
(* The step of pc_location() and of the constructors that call it.         *)
(***************************************************************************)
LEMMA FoundStep ==
  ASSUME IInv, NEW x \in Locations, NEW r, NEW frees, Drops(x, r, frees),
         alive' = alive \cup {x},
         Found(x, r, frees),
         tidy' \in BOOLEAN
  PROVE  IInv'
<1>1. /\ r \in Location /\ ~ r.known_ /\ r.line_ = NULL
      /\ r.name = "cleared" /\ (r.owner_ => r.ptr_ # NULL)
  BY DEF Drops
<1>2. loc \in [Locations -> Location] /\ heap \in [Paths -> Places \cup {NULL}]
  BY DEF IInv, TypeOK
<1>3. Owned(loc[x]) \subseteq Paths /\ \A p \in Owned(loc[x]) : heap[p] # NULL
  BY OwnedIsAllocated DEF IInv
<1>4. \A p : p \in frees \/ (r.owner_ /\ r.ptr_ = p) <=> loc[x].owner_ /\ loc[x].ptr_ = p
  BY DEF Drops, Owned
<1>5. CASE \E name \in {"pre", "unknown", "function"}, object \in BOOLEAN :
             /\ name = "pre" => ~ object
             /\ name = "function" => object
             /\ loc' = [loc EXCEPT ![x] = [r EXCEPT !.object = object, !.name = name, !.pc = name # "function"]]
             /\ heap' = Without(frees)
             /\ Misfrees(frees)
  <2>1. PICK name \in {"pre", "unknown", "function"}, object \in BOOLEAN :
             loc' = [loc EXCEPT ![x] = [r EXCEPT !.object = object, !.name = name, !.pc = name # "function"]]
    BY <1>5
  <2>2. heap' = Without(frees) /\ Misfrees(frees)
    BY <1>5
  <2>3. frees \subseteq Paths /\ \A p \in frees : heap[p] # NULL /\ ~ (r.owner_ /\ r.ptr_ = p)
    BY <1>3 DEF Drops, Owned
  <2> DEFINE s == [r EXCEPT !.object = object, !.name = name, !.pc = name # "function"]
  <2>4. /\ s \in Location /\ ~ s.known_ /\ s.line_ = NULL
        /\ s.name = name /\ (name # "function" => s.pc)
        /\ s.owner_ = r.owner_ /\ s.ptr_ = r.ptr_
    BY <1>1 DEF Location
  <2>5. loc'[x] = s /\ \A z \in Locations \ {x} : loc'[z] = loc[z]
    BY <1>2, <2>1
  <2> HIDE DEF s
  <2>6. TypeOK'
    <3>1. heap' \in [Paths -> Places \cup {NULL}] /\ misfreed' \in BOOLEAN
      BY <1>2, <2>2 DEF Without, Misfrees
    <3>2. loc' \in [Locations -> Location]
      BY <1>2, <2>1, <2>4 DEF s
    <3> QED
      BY <1>1, <2>4, <2>5, <3>1, <3>2 DEF IInv, TypeOK
  <2>7. OneOwner'
    BY <1>4, <2>4, <2>5 DEF IInv, OneOwner
  <2>8. Accounted'
    BY <1>4, <2>2, <2>3, <2>4, <2>5 DEF IInv, Accounted, OneOwner, Without
  <2>9. NoDoubleFree'
    BY <2>2, <2>3 DEF IInv, NoDoubleFree, Misfrees
  <2>10. UnknownPcIsPc'
    BY <2>4, <2>5 DEF IInv, UnknownPcIsPc, TypeOK
  <2> QED
    BY <2>6, <2>7, <2>8, <2>9, <2>10 DEF IInv
<1>6. ASSUME NEW known \in BOOLEAN, NEW place \in Places, NEW q \in Paths,
             Without(frees)[q] = NULL,
             loc' = [loc EXCEPT ![x] = [r EXCEPT !.known_ = known, !.line_ = IF known THEN place ELSE NULL,
                                                 !.ptr_ = q, !.owner_ = TRUE,
                                                 !.object = TRUE, !.name = "function", !.pc = FALSE]],
             heap' = [Without(frees \cup Owned(r)) EXCEPT ![q] = place],
             Misfrees(frees \cup Owned(r))
      PROVE  IInv'
  <2>1. frees \cup Owned(r) = Owned(loc[x])
    BY DEF Drops
  <2> DEFINE s == [r EXCEPT !.known_ = known, !.line_ = IF known THEN place ELSE NULL,
                            !.ptr_ = q, !.owner_ = TRUE,
                            !.object = TRUE, !.name = "function", !.pc = FALSE]
  <2>2. /\ s \in Location /\ s.owner_ /\ s.ptr_ = q /\ s.object
        /\ IF s.known_ THEN s.line_ = place ELSE s.line_ = NULL
    BY <1>1 DEF Location
  <2>3. loc'[x] = s /\ \A z \in Locations \ {x} : loc'[z] = loc[z]
    BY <1>2, <1>6
  <2> HIDE DEF s
  <2>4. place # NULL /\ q # NULL
    BY NullAssumption
  <2>5. heap[q] = NULL \/ q \in Owned(loc[x])
    BY <1>6, <2>1 DEF Without
  <2>6. \A z \in Locations \ {x} : ~ (loc[z].owner_ /\ loc[z].ptr_ = q)
    BY <2>5 DEF IInv, Accounted, OneOwner, Owned
  <2>7. \A p \in Paths : heap'[p] = IF p = q THEN place ELSE IF p \in Owned(loc[x]) THEN NULL ELSE heap[p]
    BY <1>6, <2>1 DEF Without
  <2>8. TypeOK'
    <3>1. heap' \in [Paths -> Places \cup {NULL}] /\ misfreed' \in BOOLEAN
      BY <1>2, <1>6 DEF Without, Misfrees
    <3>2. loc' \in [Locations -> Location]
      BY <1>2, <1>6, <2>2 DEF s
    <3> QED
      BY <2>2, <2>3, <2>4, <3>1, <3>2 DEF IInv, TypeOK
  <2>9. OneOwner'
    BY <2>2, <2>3, <2>6 DEF IInv, OneOwner
  <2>10. Accounted'
    <3> SUFFICES ASSUME NEW p \in Paths
                 PROVE  heap'[p] # NULL <=> \E z \in Locations : loc'[z].owner_ /\ loc'[z].ptr_ = p
      BY DEF Accounted
    <3>1. CASE p = q
      BY <3>1, <2>2, <2>3, <2>4, <2>7
    <3>2. CASE p # q
      BY <3>2, <2>2, <2>3, <2>7 DEF IInv, Accounted, OneOwner, Owned
    <3> QED
      BY <3>1, <3>2
  <2>11. NoDoubleFree'
    BY <1>3, <1>6, <2>1 DEF IInv, NoDoubleFree, Misfrees
  <2>12. UnknownPcIsPc'
    BY <2>2, <2>3 DEF IInv, UnknownPcIsPc, TypeOK
  <2> QED
    BY <2>8, <2>9, <2>10, <2>11, <2>12 DEF IInv
<1> QED
  BY <1>5, <1>6 DEF Found

(***************************************************************************)
(* The step of the copy constructor and of operator=, that deletes what    *)
(* clear() did not when the path of y is taken over.                       *)
(***************************************************************************)
Deleted(y, r, frees) == frees \cup IF loc[y].known_ THEN Owned(r) ELSE {}

LEMMA ShareStep ==
  ASSUME IInv, NEW x \in Locations, NEW y \in alive, x # y,
         NEW r, NEW frees, Drops(x, r, frees),
         alive' = alive \cup {x},
         loc' = [loc EXCEPT ![x] = Copied(r, loc[y]),
                            ![y] = IF @.known_ THEN Given(@) ELSE @],
         heap' = Without(Deleted(y, r, frees)),
         Misfrees(Deleted(y, r, frees)),
         tidy' \in BOOLEAN
  PROVE  IInv'
<1>1. /\ r \in Location /\ ~ r.known_ /\ r.line_ = NULL
      /\ r.name = "cleared" /\ (r.owner_ => r.ptr_ # NULL)
  BY DEF Drops
<1>2. /\ loc \in [Locations -> Location] /\ heap \in [Paths -> Places \cup {NULL}]
      /\ alive \subseteq Locations /\ y \in Locations /\ loc[y] \in Location
  BY DEF IInv, TypeOK
<1>3. Owned(loc[x]) \subseteq Paths /\ \A p \in Owned(loc[x]) : heap[p] # NULL
  BY OwnedIsAllocated DEF IInv
<1>4. \A p : p \in frees \/ (r.owner_ /\ r.ptr_ = p) <=> loc[x].owner_ /\ loc[x].ptr_ = p
  BY DEF Drops, Owned
<1>5. \A p \in frees : ~ (r.owner_ /\ r.ptr_ = p)
  BY DEF Drops, Owned
<1>6. Deleted(y, r, frees) \subseteq Owned(loc[x])
  <2>1. frees \cup Owned(r) = Owned(loc[x])
    BY DEF Drops
  <2>2. Deleted(y, r, frees) \subseteq frees \cup Owned(r)
    BY DEF Deleted
  <2> QED
    BY <2>1, <2>2
<1> DEFINE s == Copied(r, loc[y])
           g == IF loc[y].known_ THEN Given(loc[y]) ELSE loc[y]
<1>7. loc'[x] = s /\ loc'[y] = g /\ \A z \in Locations \ {x, y} : loc'[z] = loc[z]
  BY <1>2
<1>8. s \in Location /\ g \in Location
  BY <1>1, <1>2, GivenFields, CopiedKnown, CopiedUnknown
<1>9. /\ g.known_ <=> loc[y].known_
      /\ g.line_ = loc[y].line_ /\ g.ptr_ = loc[y].ptr_
      /\ g.object = loc[y].object /\ g.name = loc[y].name /\ g.pc = loc[y].pc
  BY <1>2, GivenFields
<1>10. s.object = loc[y].object /\ s.name = loc[y].name /\ s.pc = loc[y].pc
  <2>1. CASE loc[y].known_
    BY <1>1, <1>2, <2>1, CopiedKnown
  <2>2. CASE ~ loc[y].known_
    BY <1>1, <1>2, <2>2, CopiedUnknown
  <2> QED
    BY <2>1, <2>2
<1>11. CASE loc[y].known_
  <2>1. /\ s.known_ /\ s.line_ = loc[y].line_ /\ s.ptr_ = loc[y].ptr_
        /\ s.owner_ <=> loc[y].owner_ /\ ~ loc[y].locked_
    BY <1>1, <1>2, <1>11, CopiedKnown
  <2>2. g.owner_ <=> loc[y].owner_ /\ loc[y].locked_
    BY <1>2, <1>11, GivenFields
  <2>3. Deleted(y, r, frees) = Owned(loc[x])
    BY <1>11 DEF Drops, Deleted
  <2> HIDE DEF s, g
  <2>4. \A p : (s.owner_ /\ s.ptr_ = p) \/ (g.owner_ /\ g.ptr_ = p) <=> loc[y].owner_ /\ loc[y].ptr_ = p
    BY <1>9, <2>1, <2>2
  <2>5. ~ (s.owner_ /\ g.owner_)
    BY <2>1, <2>2
  <2>6. TypeOK'
    <3>1. heap' \in [Paths -> Places \cup {NULL}] /\ misfreed' \in BOOLEAN
      BY <1>2 DEF Without, Misfrees
    <3>2. loc' \in [Locations -> Location]
      BY <1>2, <1>8 DEF s, g
    <3>3. loc[y].ptr_ # NULL /\ loc[y].line_ # NULL
      BY <1>2, <1>11 DEF IInv, TypeOK
    <3>4. s.ptr_ # NULL /\ s.line_ # NULL /\ g.ptr_ # NULL /\ g.line_ # NULL
      BY <1>9, <2>1, <3>3
    <3> QED
      BY <1>2, <1>7, <1>9, <1>11, <2>1, <3>1, <3>2, <3>4 DEF IInv, TypeOK
  <2>7. OneOwner'
    <3> SUFFICES ASSUME NEW v \in Locations, NEW w \in Locations, v # w,
                        loc'[v].owner_, loc'[w].owner_, loc'[v].ptr_ = loc'[w].ptr_
                 PROVE  FALSE
      BY DEF OneOwner
    <3>1. \A z \in Locations \ {x} : loc'[z].owner_ => loc[z].owner_ /\ loc[z].ptr_ = loc'[z].ptr_
      BY <1>2, <1>7, <2>4
    <3>2. CASE v # x /\ w # x
      BY <3>1, <3>2 DEF IInv, OneOwner
    <3>3. CASE v = x
      <4>1. w # y
        BY <1>7, <2>5, <3>3
      <4> QED
        BY <1>2, <1>7, <2>4, <3>1, <3>3, <4>1 DEF IInv, OneOwner
    <3>4. CASE w = x
      <4>1. v # y
        BY <1>7, <2>5, <3>4
      <4> QED
        BY <1>2, <1>7, <2>4, <3>1, <3>4, <4>1 DEF IInv, OneOwner
    <3> QED
      BY <3>2, <3>3, <3>4
  <2>8. Accounted'
    <3> SUFFICES ASSUME NEW p \in Paths
                 PROVE  heap'[p] # NULL <=> \E z \in Locations : loc'[z].owner_ /\ loc'[z].ptr_ = p
      BY DEF Accounted
    <3>1. heap'[p] = IF p \in Owned(loc[x]) THEN NULL ELSE heap[p]
      BY <2>3 DEF Without
    <3>2. (\E z \in Locations : loc'[z].owner_ /\ loc'[z].ptr_ = p)
            <=> \E z \in Locations \ {x} : loc[z].owner_ /\ loc[z].ptr_ = p
      BY <1>2, <1>7, <2>4
    <3>3. p \in Owned(loc[x]) <=> loc[x].owner_ /\ loc[x].ptr_ = p
      BY DEF Owned
    <3> QED
      BY <3>1, <3>2, <3>3 DEF IInv, Accounted, OneOwner
  <2>9. NoDoubleFree'
    BY <1>3, <2>3 DEF IInv, NoDoubleFree, Misfrees
  <2>10. UnknownPcIsPc'
    BY <1>2, <1>7, <1>9, <1>10 DEF IInv, UnknownPcIsPc
  <2> QED
    BY <2>6, <2>7, <2>8, <2>9, <2>10 DEF IInv
<1>12. CASE ~ loc[y].known_
  <2>1. ~ s.known_ /\ s.line_ = NULL /\ s.ptr_ = r.ptr_ /\ s.owner_ = r.owner_ /\ g = loc[y]
    BY <1>1, <1>2, <1>12, CopiedUnknown
  <2>2. Deleted(y, r, frees) = frees
    BY <1>12 DEF Deleted
  <2> HIDE DEF s, g
  <2>3. TypeOK'
    <3>1. heap' \in [Paths -> Places \cup {NULL}] /\ misfreed' \in BOOLEAN
      BY <1>2 DEF Without, Misfrees
    <3>2. loc' \in [Locations -> Location]
      BY <1>2, <1>8 DEF s, g
    <3> QED
      BY <1>1, <1>2, <1>7, <2>1, <3>1, <3>2 DEF IInv, TypeOK
  <2>4. OneOwner'
    BY <1>2, <1>4, <1>7, <2>1 DEF IInv, OneOwner
  <2>5. Accounted'
    BY <1>2, <1>3, <1>4, <1>5, <1>6, <1>7, <2>1, <2>2 DEF IInv, Accounted, OneOwner, Without
  <2>6. NoDoubleFree'
    BY <1>3, <1>6 DEF IInv, NoDoubleFree, Misfrees
  <2>7. UnknownPcIsPc'
    BY <1>2, <1>7, <1>10, <2>1 DEF IInv, UnknownPcIsPc
  <2> QED
    BY <2>3, <2>4, <2>5, <2>6, <2>7 DEF IInv
<1> QED
  BY <1>11, <1>12

LEMMA InitIInv == Init => IInv
<1> SUFFICES ASSUME Init PROVE IInv
  OBVIOUS
<1>1. \A x \in Locations : loc[x] = Blank
  BY DEF Init
<1>2. Blank \in Location /\ ~ Blank.known_ /\ ~ Blank.owner_ /\ Blank.line_ = NULL
  BY DEF Blank, Location
<1>3. TypeOK
  BY <1>1, <1>2 DEF Init, TypeOK
<1>4. OneOwner /\ Accounted
  BY <1>1, <1>2 DEF Init, OneOwner, Accounted
<1>5. NoDoubleFree /\ UnknownPcIsPc
  BY DEF Init, NoDoubleFree, UnknownPcIsPc
<1> QED
  BY <1>3, <1>4, <1>5 DEF IInv

LEMMA NextIInv == IInv /\ [Next]_vars => IInv'
<1> SUFFICES ASSUME IInv, [Next]_vars PROVE IInv'
  OBVIOUS
<1>1. TypeOK /\ tidy \in BOOLEAN /\ heap \in [Paths -> Places \cup {NULL}] /\ alive \subseteq Locations
  BY DEF IInv, TypeOK
<1>2. ASSUME NEW x \in Locations, Construct(x) PROVE IInv'
  <2>1. Drops(x, Blank, {}) /\ alive' = alive \cup {x} /\ tidy' \in BOOLEAN
    BY <1>1, <1>2, DeadDrops DEF Construct
  <2>2. CASE Found(x, Blank, {})
    BY <2>1, <2>2, FoundStep
  <2>3. CASE loc' = [loc EXCEPT ![x] = Blank] /\ UNCHANGED <<heap, misfreed>>
    <3>1. loc' = loc
      BY <1>1, <1>2, <2>3 DEF TypeOK, Construct
    <3>2. TypeOK'
      BY <1>1, <2>1, <2>3, <3>1 DEF TypeOK
    <3>3. OneOwner' /\ Accounted' /\ NoDoubleFree'
      BY <2>3, <3>1 DEF IInv, OneOwner, Accounted, NoDoubleFree
    <3>4. loc[x].name = "cleared"
      BY <1>1, <1>2 DEF TypeOK, Construct, Blank
    <3>5. UnknownPcIsPc'
      BY <2>1, <3>1, <3>4 DEF IInv, UnknownPcIsPc
    <3> QED
      BY <3>2, <3>3, <3>5 DEF IInv
  <2> QED
    BY <1>2, <2>2, <2>3 DEF Construct
<1>3. ASSUME NEW x \in Locations, PcLocation(x) PROVE IInv'
  <2>1. alive' = alive \cup {x} /\ tidy' \in BOOLEAN
    BY <1>3 DEF PcLocation, Judge
  <2> QED
    BY <1>1, <1>3, <2>1, ClearDrops, FoundStep DEF PcLocation
<1>4. ASSUME NEW x \in Locations, LockOwnership(x) PROVE IInv'
  <2> DEFINE s == [loc[x] EXCEPT !.locked_ = TRUE]
  <2>1. loc[x] \in Location /\ loc \in [Locations -> Location]
    BY <1>1 DEF TypeOK
  <2>2. loc' = [loc EXCEPT ![x] = s] /\ x \in alive
    BY <1>4 DEF LockOwnership
  <2>3. /\ s \in Location /\ s.known_ = loc[x].known_ /\ s.line_ = loc[x].line_
        /\ s.ptr_ = loc[x].ptr_ /\ s.owner_ = loc[x].owner_
        /\ s.object = loc[x].object /\ s.name = loc[x].name /\ s.pc = loc[x].pc
    BY <2>1 DEF Location
  <2> HIDE DEF s
  <2>4. loc'[x] = s /\ \A z \in Locations \ {x} : loc'[z] = loc[z]
    BY <2>1, <2>2
  <2>5. UNCHANGED <<alive, heap, misfreed, tidy>>
    BY <1>4 DEF LockOwnership
  <2>6. TypeOK'
    <3>1. loc' \in [Locations -> Location]
      BY <2>1, <2>2, <2>3
    <3> QED
      BY <1>1, <2>2, <2>3, <2>4, <2>5, <3>1 DEF TypeOK
  <2>7. OneOwner'
    BY <2>3, <2>4 DEF IInv, OneOwner
  <2>8. Accounted'
    BY <2>3, <2>4, <2>5 DEF IInv, Accounted
  <2>9. NoDoubleFree' /\ UnknownPcIsPc'
    BY <1>1, <2>3, <2>4, <2>5 DEF IInv, NoDoubleFree, UnknownPcIsPc
  <2> QED
    BY <2>6, <2>7, <2>8, <2>9 DEF IInv
<1>5. ASSUME NEW x \in Locations, Clear(x) PROVE IInv'
  <2>1. Drops(x, Cleared(loc[x]), Freed(loc[x]))
    BY <1>1, ClearDrops
  <2>2. /\ x \in alive /\ alive' = alive
        /\ loc' = [loc EXCEPT ![x] = Cleared(loc[x])]
        /\ heap' = Without(Freed(loc[x])) /\ Misfrees(Freed(loc[x])) /\ tidy' \in BOOLEAN
    BY <1>5 DEF Clear, Judge
  <2> QED
    BY <2>1, <2>2, DropStep
<1>6. ASSUME NEW x \in Locations, Destroy(x) PROVE IInv'
  <2>1. Drops(x, Blank, Owned(loc[x]))
    BY DestroyDrops
  <2>2. /\ x \in alive /\ alive' = alive \ {x}
        /\ loc' = [loc EXCEPT ![x] = Blank]
        /\ heap' = Without(Owned(loc[x])) /\ Misfrees(Owned(loc[x])) /\ tidy' \in BOOLEAN
    BY <1>6 DEF Destroy, Judge
  <2> QED
    BY <2>1, <2>2, DropStep
<1>7. ASSUME NEW x \in Locations, NEW y \in Locations, Copy(x, y) PROVE IInv'
  <2>1. Drops(x, Blank, {}) /\ alive' = alive \cup {x} /\ tidy' \in BOOLEAN /\ y \in alive /\ x # y
    BY <1>1, <1>7, DeadDrops DEF Copy
  <2>2. Deleted(y, Blank, {}) = {}
    BY BlankIsLocation DEF Deleted
  <2>3. heap' = Without({})
    <3>1. heap' = heap
      BY <1>7 DEF Copy
    <3> QED
      BY <1>1, <3>1 DEF Without
  <2>5. Misfrees({})
    <3>1. misfreed' = misfreed /\ misfreed = FALSE
      BY <1>7 DEF Copy, IInv, NoDoubleFree, TypeOK
    <3> QED
      BY <3>1 DEF Misfrees
  <2>4. loc' = [loc EXCEPT ![x] = Copied(Blank, loc[y]),
                           ![y] = IF @.known_ THEN Given(@) ELSE @]
    BY <1>7 DEF Copy
  <2> QED
    BY <2>1, <2>2, <2>3, <2>4, <2>5, ShareStep
<1>8. ASSUME NEW x \in Locations, NEW y \in Locations, Assign(x, y) PROVE IInv'
  <2> DEFINE r == Cleared(loc[x])
             q == Freed(loc[x])
  <2>1. /\ Drops(x, r, q) /\ alive' = alive \cup {x} /\ tidy' \in BOOLEAN
        /\ y \in alive /\ x # y
    BY <1>1, <1>8, ClearDrops DEF Assign, Judge
  <2>2. heap' = Without(Deleted(y, r, q)) /\ Misfrees(Deleted(y, r, q))
    BY <1>8 DEF Assign, Deleted
  <2>3. loc' = [loc EXCEPT ![x] = Copied(r, loc[y]),
                           ![y] = IF @.known_ THEN Given(@) ELSE @]
    BY <1>8 DEF Assign
  <2> HIDE DEF r, q
  <2> QED
    BY <2>1, <2>2, <2>3, ShareStep
<1>9. CASE UNCHANGED vars
  BY <1>9 DEF vars, IInv, TypeOK, OneOwner, Accounted, NoDoubleFree, UnknownPcIsPc
<1> QED
  BY <1>2, <1>3, <1>4, <1>5, <1>6, <1>7, <1>8, <1>9 DEF Next

\* The inductive invariant holds in every reachable state.
THEOREM Inductive == Spec => []IInv
<1> QED
  BY InitIInv, NextIInv, PTL DEF Spec

\* Every variable keeps its type, and a Location that is known or owns a path has one.
THEOREM TypeCorrect == Spec => []TypeOK
BY Inductive, PTL DEF IInv

(***************************************************************************)
(* Every path that pc_location() allocated and that is not deleted has     *)
(* exactly one owner, in any program.                                      *)
(***************************************************************************)
THEOREM PathsAreOwnedOnce == Spec => []OwnedOnce
<1>1. IInv => OwnedOnce
  <2> SUFFICES ASSUME IInv, NEW q \in Paths
               PROVE  heap[q] # NULL <=>
                        \E x \in alive : loc[x].owner_ /\ loc[x].ptr_ = q
                                         /\ \A y \in alive : loc[y].owner_ /\ loc[y].ptr_ = q => y = x
    BY DEF OwnedOnce
  <2>1. alive \subseteq Locations /\ \A x \in Locations : loc[x].owner_ => x \in alive
    BY DEF IInv, TypeOK, Blank
  <2> QED
    BY <2>1 DEF IInv, OneOwner, Accounted
<1> QED
  BY <1>1, Inductive, PTL

\* No path is deleted twice, in any program: clear() and destructors only delete what is owned.
THEOREM NothingIsFreedTwice == Spec => []NoDoubleFree
BY Inductive, PTL DEF IInv

\* unknown_pc() never reads a file name from the union, nor what was in memory.
THEOREM UnionIsReadAsWritten == Spec => []UnknownPcIsPc
BY Inductive, PTL DEF IInv

(***************************************************************************)
(* A known Location that does not share what x owns, still has its path    *)
(* after x dropped it.                                                     *)
(***************************************************************************)
LEMMA DroppedIsUnshared ==
  ASSUME IInv, KnownIsValid, tidy, NEW x \in Locations, SharedWith(x) = {},
         NEW z \in alive, z # x, loc[z].known_
  PROVE  /\ loc[z].ptr_ \in Paths /\ loc[z].ptr_ \notin Owned(loc[x])
         /\ heap[loc[z].ptr_] = loc[z].line_ /\ loc[z].line_ # NULL
<1>1. loc[z].ptr_ \notin Owned(loc[x])
  BY DEF SharedWith
<1>2. heap[loc[z].ptr_] = loc[z].line_
  BY DEF KnownIsValid
<1>3. z \in Locations /\ loc[z] \in Location
  BY DEF IInv, TypeOK
<1>4. loc[z].ptr_ \in Paths /\ loc[z].line_ # NULL
  BY <1>3 DEF IInv, TypeOK, Location
<1> QED
  BY <1>1, <1>2, <1>4

LEMMA NextKnown == ~ AssignsBack /\ IInv /\ KnownIsValid /\ [Next]_vars => KnownIsValid'
<1> SUFFICES ASSUME ~ AssignsBack, IInv, KnownIsValid, [Next]_vars, tidy'
             PROVE  \A z \in alive' : loc'[z].known_ => heap'[loc'[z].ptr_] = loc'[z].line_
  BY DEF KnownIsValid
<1>1. /\ TypeOK /\ alive \subseteq Locations /\ loc \in [Locations -> Location]
      /\ heap \in [Paths -> Places \cup {NULL}]
  BY DEF IInv, TypeOK
<1>2. ASSUME NEW x \in Locations, NEW z \in alive, z # x, tidy, SharedWith(x) = {}, loc[z].known_,
             NEW frees, frees \subseteq Owned(loc[x])
      PROVE  Without(frees)[loc[z].ptr_] = loc[z].line_
  BY <1>2, DroppedIsUnshared DEF Without
<1>3. ASSUME NEW x \in Locations, NEW r, NEW frees, Drops(x, r, frees), Found(x, r, frees),
             tidy, SharedWith(x) = {}, alive' = alive \cup {x}, NEW z \in alive', loc'[z].known_
      PROVE  heap'[loc'[z].ptr_] = loc'[z].line_
  <2>1. r \in Location /\ ~ r.known_ /\ frees \cup Owned(r) = Owned(loc[x])
    BY <1>3 DEF Drops
  <2>2. CASE \E name \in {"pre", "unknown", "function"}, object \in BOOLEAN :
               /\ loc' = [loc EXCEPT ![x] = [r EXCEPT !.object = object, !.name = name, !.pc = name # "function"]]
               /\ heap' = Without(frees)
    <3>1. PICK name \in {"pre", "unknown", "function"}, object \in BOOLEAN :
               loc' = [loc EXCEPT ![x] = [r EXCEPT !.object = object, !.name = name, !.pc = name # "function"]]
      BY <2>2
    <3>2. ~ loc'[x].known_ /\ \A y \in Locations \ {x} : loc'[y] = loc[y]
      BY <1>1, <2>1, <3>1 DEF Location
    <3>3. z # x /\ z \in alive /\ loc'[z] = loc[z]
      BY <1>1, <1>3, <3>2
    <3> QED
      BY <1>2, <1>3, <2>1, <2>2, <3>3
  <2>3. ASSUME NEW known \in BOOLEAN, NEW place \in Places, NEW q \in Paths,
               Without(frees)[q] = NULL,
               loc' = [loc EXCEPT ![x] = [r EXCEPT !.known_ = known, !.line_ = IF known THEN place ELSE NULL,
                                                   !.ptr_ = q, !.owner_ = TRUE,
                                                   !.object = TRUE, !.name = "function", !.pc = FALSE]],
               heap' = [Without(frees \cup Owned(r)) EXCEPT ![q] = place]
        PROVE  heap'[loc'[z].ptr_] = loc'[z].line_
    <3>1. Without(Owned(loc[x])) \in [Paths -> Places \cup {NULL}]
      BY <1>1 DEF Without
    <3>2. heap'[q] = place /\ \A p \in Paths \ {q} : heap'[p] = Without(Owned(loc[x]))[p]
      BY <2>1, <2>3, <3>1
    <3>3. CASE z = x
      <4>1. /\ loc'[x].ptr_ = q
            /\ IF loc'[x].known_ THEN loc'[x].line_ = place ELSE loc'[x].line_ = NULL
        BY <1>1, <2>1, <2>3 DEF Location
      <4> QED
        BY <1>3, <3>2, <3>3, <4>1
    <3>4. CASE z # x
      <4>1. z \in alive /\ loc'[z] = loc[z]
        BY <1>1, <1>3, <2>3, <3>4
      <4>2. /\ loc[z].ptr_ \in Paths /\ loc[z].ptr_ \notin Owned(loc[x])
            /\ heap[loc[z].ptr_] = loc[z].line_ /\ loc[z].line_ # NULL
        BY <1>3, <3>4, <4>1, DroppedIsUnshared
      <4>3. loc[z].ptr_ # q
        BY <2>1, <2>3, <4>2 DEF Without
      <4> QED
        BY <3>2, <4>1, <4>2, <4>3 DEF Without
    <3> QED
      BY <3>3, <3>4
  <2> QED
    BY <1>3, <2>2, <2>3 DEF Found
<1>4. ASSUME NEW x \in Locations, NEW r, NEW frees, frees \subseteq Owned(loc[x]), ~ r.known_,
             loc' = [loc EXCEPT ![x] = r], heap' = Without(frees),
             tidy, SharedWith(x) = {}, alive' \subseteq alive, NEW z \in alive', loc'[z].known_
      PROVE  heap'[loc'[z].ptr_] = loc'[z].line_
  <2>1. z # x /\ z \in alive /\ loc'[z] = loc[z]
    BY <1>1, <1>4
  <2> QED
    BY <1>2, <1>4, <2>1
<1>5. ASSUME NEW x \in Locations, NEW y \in alive, x # y, NEW r \in Location, ~ r.known_,
             NEW frees, frees \subseteq Owned(loc[x]),
             loc' = [loc EXCEPT ![x] = Copied(r, loc[y]),
                                ![y] = IF @.known_ THEN Given(@) ELSE @],
             heap' = Without(frees),
             tidy, SharedWith(x) = {}, alive' = alive \cup {x}, NEW z \in alive', loc'[z].known_
      PROVE  heap'[loc'[z].ptr_] = loc'[z].line_
  <2>1. loc[y] \in Location /\ y \in Locations
    BY <1>1
  <2>2. CASE z = x
    <3>1. loc'[z] = Copied(r, loc[y])
      BY <1>1, <1>5, <2>1, <2>2
    <3>2. loc[y].known_
      BY <1>5, <2>1, <3>1, CopiedUnknown
    <3>3. Copied(r, loc[y]).ptr_ = loc[y].ptr_ /\ Copied(r, loc[y]).line_ = loc[y].line_
      BY <2>1, <3>2, CopiedKnown
    <3>4. Without(frees)[loc[y].ptr_] = loc[y].line_
      BY <1>2, <1>5, <3>2
    <3> QED
      BY <1>5, <3>1, <3>3, <3>4
  <2>3. CASE z # x
    <3>1. z \in alive /\ loc'[z].ptr_ = loc[z].ptr_ /\ loc'[z].line_ = loc[z].line_ /\ loc[z].known_
      <4>1. CASE z = y
        <5>1. loc'[z] = IF loc[z].known_ THEN Given(loc[z]) ELSE loc[z]
          BY <1>1, <1>5, <2>1, <4>1
        <5> QED
          BY <1>5, <2>1, <4>1, <5>1, GivenFields
      <4>2. CASE z # y
        BY <1>1, <1>5, <2>3, <4>2
      <4> QED
        BY <4>1, <4>2
    <3> QED
      BY <1>2, <1>5, <2>3, <3>1
  <2> QED
    BY <2>2, <2>3
<1>6. \A x \in Locations : x \notin alive => SharedWith(x) = {}
  <2>1. ~ Blank.owner_
    BY DEF Blank
  <2> QED
    BY <1>1, <2>1 DEF SharedWith, Owned, TypeOK
<1>7. ASSUME NEW x \in Locations, Judge(x, {}) PROVE tidy /\ SharedWith(x) = {}
  BY <1>7 DEF Judge
<1>8. ASSUME NEW x \in Locations, Construct(x) PROVE KnownIsValid'
  <2>1. Drops(x, Blank, {}) /\ alive' = alive \cup {x} /\ tidy /\ SharedWith(x) = {}
    BY <1>1, <1>6, <1>8, DeadDrops DEF Construct
  <2>2. CASE Found(x, Blank, {})
    BY <1>3, <2>1, <2>2 DEF KnownIsValid
  <2>3. CASE loc' = [loc EXCEPT ![x] = Blank] /\ UNCHANGED <<heap, misfreed>>
    <3>1. ~ Blank.known_
      BY DEF Blank
    <3>2. loc'[x] = Blank /\ \A z \in Locations \ {x} : loc'[z] = loc[z]
      BY <1>1, <2>3
    <3> QED
      BY <1>1, <2>1, <2>3, <3>1, <3>2 DEF KnownIsValid
  <2> QED
    BY <1>8, <2>2, <2>3 DEF Construct
<1>9. ASSUME NEW x \in Locations, PcLocation(x) PROVE KnownIsValid'
  <2>1. Drops(x, Cleared(loc[x]), Freed(loc[x])) /\ alive' = alive \cup {x}
    BY <1>1, <1>9, ClearDrops DEF PcLocation
  <2> QED
    BY <1>3, <1>7, <1>9, <2>1 DEF PcLocation, KnownIsValid
<1>10. ASSUME NEW x \in Locations, LockOwnership(x) PROVE KnownIsValid'
  <2>1. \A z \in Locations : loc'[z].known_ = loc[z].known_ /\ loc'[z].ptr_ = loc[z].ptr_
                              /\ loc'[z].line_ = loc[z].line_
    BY <1>1, <1>10 DEF LockOwnership, Location
  <2>2. UNCHANGED <<alive, heap, tidy>>
    BY <1>10 DEF LockOwnership
  <2> QED
    BY <1>1, <2>1, <2>2 DEF KnownIsValid
<1>11. ASSUME NEW x \in Locations, Clear(x) PROVE KnownIsValid'
  <2>1. Drops(x, Cleared(loc[x]), Freed(loc[x]))
    BY <1>1, ClearDrops
  <2>2. ~ Cleared(loc[x]).known_ /\ Freed(loc[x]) \subseteq Owned(loc[x])
    BY <2>1 DEF Drops
  <2> QED
    BY <1>4, <1>7, <1>11, <2>2 DEF Clear, KnownIsValid
<1>12. ASSUME NEW x \in Locations, Destroy(x) PROVE KnownIsValid'
  <2>1. ~ Blank.known_
    BY DEF Blank
  <2> QED
    BY <1>4, <1>7, <1>12, <2>1 DEF Destroy, KnownIsValid
<1>13. ASSUME NEW x \in Locations, NEW y \in Locations, Copy(x, y) PROVE KnownIsValid'
  <2>1. Blank \in Location /\ ~ Blank.known_ /\ {} \subseteq Owned(loc[x])
    BY DEF Blank, Location
  <2>2. heap' = Without({})
    <3>1. heap' = heap
      BY <1>13 DEF Copy
    <3> QED
      BY <1>1, <3>1 DEF Without
  <2>3. /\ y \in alive /\ x # y /\ tidy /\ SharedWith(x) = {} /\ alive' = alive \cup {x}
        /\ loc' = [loc EXCEPT ![x] = Copied(Blank, loc[y]),
                              ![y] = IF @.known_ THEN Given(@) ELSE @]
    BY <1>6, <1>13 DEF Copy
  <2> QED
    BY <1>5, <2>1, <2>2, <2>3 DEF KnownIsValid
<1>14. ASSUME NEW x \in Locations, NEW y \in Locations, Assign(x, y) PROVE KnownIsValid'
  <2> DEFINE r == Cleared(loc[x])
             q == Deleted(y, r, Freed(loc[x]))
  <2>1. Drops(x, r, Freed(loc[x]))
    BY <1>1, ClearDrops
  <2>2. r \in Location /\ ~ r.known_
    BY <2>1 DEF Drops
  <2>3. q \subseteq Owned(loc[x])
    <3>1. Freed(loc[x]) \cup Owned(r) = Owned(loc[x])
      BY <2>1 DEF Drops
    <3>2. q \subseteq Freed(loc[x]) \cup Owned(r)
      BY DEF Deleted
    <3> QED
      BY <3>1, <3>2
  <2>4. /\ y \in alive /\ x # y /\ alive' = alive \cup {x}
        /\ loc' = [loc EXCEPT ![x] = Copied(r, loc[y]),
                              ![y] = IF @.known_ THEN Given(@) ELSE @]
        /\ heap' = Without(q)
        /\ Judge(x, {})
    BY <1>14 DEF Assign, Deleted
  <2> HIDE DEF r, q
  <2>5. tidy /\ SharedWith(x) = {}
    BY <1>7, <2>4
  <2> QED
    BY <1>5, <2>2, <2>3, <2>4, <2>5 DEF KnownIsValid
<1>15. ASSUME UNCHANGED vars PROVE KnownIsValid'
  BY <1>15 DEF vars, KnownIsValid
<1>16. KnownIsValid'
  BY <1>8, <1>9, <1>10, <1>11, <1>12, <1>13, <1>14, <1>15 DEF Next
<1> QED
  BY <1>16 DEF KnownIsValid

(***************************************************************************)
(* In a program that keeps the owner of a path as long as its copies, and  *)
(* does not assign one of them back to it, every Location that is known    *)
(* has the file name of its line number.                                   *)
(***************************************************************************)
THEOREM KnownCanBePrinted == ~ AssignsBack /\ Spec => []KnownIsValid
<1> SUFFICES ASSUME ~ AssignsBack PROVE Spec => []KnownIsValid
  OBVIOUS
<1>1. Init => KnownIsValid
  BY DEF Init, KnownIsValid
<1>2. IInv /\ KnownIsValid /\ [Next]_vars => KnownIsValid'
  BY NextKnown
<1> QED
  BY <1>1, <1>2, Inductive, PTL DEF Spec
=============================================================================
