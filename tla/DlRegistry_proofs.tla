------------------------- MODULE DlRegistry_proofs -------------------------
(***************************************************************************)
(* For any number of threads, libraries, pages and references: the         *)
(* registry knows what is mapped, lookups find their ObjectFile, and       *)
(* nothing refers to one that is deleted.  This is proved of programs that *)
(* call dlopen() and dlclose() one at a time, without RTLD_NOLOAD and      *)
(* always with the same RTLD_NODELETE, of libraries that they are not      *)
(* linked with.  The lookups of such a program still call dlopen() at any  *)
(* time, in any number of threads, because libdw does; it opens libraries  *)
(* that the program does not, and the program closes none meanwhile.       *)
(***************************************************************************)
EXTENDS DlRegistry, TLAPS

\* What the programs do not do; the run dl_linked and the README show what happens otherwise.
WellBehaved ==
  /\ Serial /\ ~ UsesNoload /\ ~ Forgets /\ ~ Overlaps
  /\ Plugins \cap Linked = {} /\ Plugins \cap Helpers = {}
-----------------------------------------------------------------------------
(***************************************************************************)
(* The inductive invariant.                                                *)
(***************************************************************************)

\* Does the program open a library in the thread t, or libdw?  Is the program in a wrapper there?
Adding(t) == call[t].at \in Opening /\ ~ Resolving(t)
Helping(t) == call[t].at \in Opening /\ Resolving(t)
Busy(t) == Adding(t) \/ call[t].at \in Closing
Resting(l) == \A t \in Threads : Busy(t) => Lib(t) # l

\* The library l is known, as the ObjectFile o.
Known(o, l) == o \in Objects /\ Range(o, l) \in ranges

\* The record of h counts n references to o.
Recorded(h, n, o) ==
  records[h].refcount_ = n /\ records[h].object_file_ = o

\* The loader: libraries do not overlap, and only plugins are opened and closed by the program.
Apart(l, k) == base[l] + Size[l] <= base[k] \/ base[k] + Size[k] <= base[l]
Places ==
  /\ base \in [Libs -> Nat \cup {NULL}] /\ handle \in [Libs -> Handles \cup {NULL}]
  /\ \A l \in Libs : l \in Mapped <=> handle[l] # NULL
  /\ \A l \in Mapped : base[l] + Size[l] <= Pages
  /\ \A l, k \in Mapped : l # k => handle[l] # handle[k] /\ Apart(l, k)
  /\ pinned \subseteq Mapped /\ Linked \subseteq Mapped
References ==
  /\ refs \in [Libs -> Nat] /\ opens \in [Libs -> Nat]
  /\ \A l \in Linked : opens[l] = 0
  /\ \A l \in Libs : opens[l] > 0 => l \in Plugins
  /\ \A t \in Threads : Adding(t) => refs[Lib(t)] = opens[Lib(t)] + 1
  /\ \A l \in Libs \ Helpers : (\A t \in Threads : Adding(t) => Lib(t) # l) => refs[l] = opens[l]
LoaderOK == Places /\ References

\* The range of a library that is unmapped and about to be unregistered.
Stale(r) ==
  \E t \in Threads :
    \/ call[t].at = "unregister" /\ call[t].object = r.object
    \/ /\ call[t].at = "unrecord" /\ Lib(t) \notin Mapped
       /\ records[call[t].object].object_file_ = r.object

RangesOK ==
  /\ objects \subseteq Objects /\ ranges \subseteq [object : Objects, start : Nat, end : Nat]
  /\ lbase_ \in [Objects -> Nat \cup {NULL}]
  /\ \A r \in ranges : r.object \in objects /\ lbase_[r.object] = r.start
  /\ \A r, q \in ranges : r.object = q.object \/ r.start = q.start => r = q
  /\ \A r \in ranges : Stale(r) \/ \E l \in Mapped : r = Range(r.object, l)
  /\ \A r \in ranges, l \in Mapped : Stale(r) =>
       r.end <= base[l] \/ base[l] + Size[l] <= r.start

Records == [refcount_ : Nat, nodelete : BOOLEAN, object_file_ : Objects \cup {NULL}]
RecordsOK ==
  /\ records \in [Handles -> Records]
  /\ \A h \in Handles : records[h] # NoRecord =>
       \/ \E l \in Mapped : handle[l] = h
       \/ \E t \in Threads : call[t].at = "unrecord" /\ call[t].object = h

\* A library that libdw opens is known as soon as a call of libdw is done with it.
HelpersOK ==
  /\ held \subseteq Helpers \cap Mapped
  /\ \A l \in Helpers \cap Mapped :
       \/ \E o \in Objects : Known(o, l)
       \/ l \notin Linked \cup held /\ \E t \in Threads : Helping(t) /\ Lib(t) = l
  /\ \A l \in Helpers \cap Mapped :
       records[handle[l]] # NoRecord => Known(records[handle[l]].object_file_, l)

\* A library of the program that no thread is opening or closing:
RestOK(l) ==
  /\ opens[l] > 0 =>
       /\ l \in Mapped
       /\ \E o \in Objects : Known(o, l) /\ Recorded(handle[l], opens[l], o)
       /\ records[handle[l]].nodelete <=> l \in pinned
  /\ opens[l] = 0 /\ l \in Mapped =>
       /\ l \in Linked \cup pinned
       /\ \E o \in Objects : Known(o, l)
       /\ records[handle[l]] = NoRecord

\* The library that the program opens in the thread t:
OpeningOK(t) ==
  LET l == Lib(t) IN
  /\ l \in Mapped
  /\ call[t].at = "opened" /\ opens[l] > 0 =>
       /\ \E o \in Objects : Known(o, l) /\ Recorded(handle[l], opens[l], o)
       /\ (records[handle[l]].nodelete \/ call[t].nodelete) <=> l \in pinned
  /\ call[t].at # "opened" \/ opens[l] = 0 =>
       /\ opens[l] = 0
       /\ records[handle[l]] = NoRecord
       /\ call[t].nodelete <=> l \in pinned
  /\ call[t].at = "emplace" => Known(call[t].object, l)

\* The library that libdw opens in the thread t:
HelpingOK(t) ==
  /\ Lib(t) \in Helpers \cap Mapped
  /\ call[t].at = "emplace" => Known(call[t].object, Lib(t))

\* The library that the thread t closes:
UnrecordOK(t) ==
  LET l == Lib(t)
      h == call[t].object
  IN
  /\ h \in Handles
  /\ \A k \in Mapped : k # l => handle[k] # h
  /\ records[h].nodelete <=> l \in pinned
  /\ \E o \in Objects :
       /\ Recorded(h, opens[l] + 1, o)
       /\ l \in Mapped => handle[l] = h /\ Known(o, l) /\ (opens[l] > 0 \/ l \in pinned)
       /\ l \notin Mapped => opens[l] = 0 /\ \E r \in ranges : r.object = o
UnregisterOK(t) ==
  /\ Lib(t) \notin Mapped /\ opens[Lib(t)] = 0
  /\ \E r \in ranges : r.object = call[t].object
DeleteOK(t) ==
  /\ Lib(t) \notin Mapped /\ opens[Lib(t)] = 0
  /\ call[t].object \in objects
  /\ \A r \in ranges : r.object # call[t].object

\* The library of which the thread t looks an address up:
LookingUpOK(t) ==
  LET l == lookup[t].lib IN
  /\ l \in Mapped /\ (l \in Linked \cup held \/ opens[l] > 0)
  /\ Known(lookup[t].object, l)

CallOK(t) ==
  /\ Busy(t) => Lib(t) \in Plugins /\ lookup[t].at = "idle"
  /\ Adding(t) => OpeningOK(t)
  /\ Helping(t) => HelpingOK(t)
  /\ call[t].at = "unrecord" => UnrecordOK(t)
  /\ call[t].at = "unregister" => UnregisterOK(t)
  /\ call[t].at = "delete" => DeleteOK(t)
  /\ lookup[t].at \in LookingUp => LookingUpOK(t)

CallTypes == [at : {"idle"} \cup Opening \cup Closing,
              lib : Libs \cup {NULL}, nodelete : BOOLEAN,
              object : Objects \cup Handles \cup {NULL}]
LookupTypes == [at : {"idle"} \cup LookingUp, lib : Libs \cup {NULL}, object : Objects \cup {NULL}]

\* The program is in one wrapper at a time, and closes nothing while libdw is in dlopen().
CallsOK ==
  /\ call \in [Threads -> CallTypes] /\ lookup \in [Threads -> LookupTypes]
  /\ \A t, u \in Threads : Busy(t) /\ Busy(u) => t = u
  /\ \A t, u \in Threads : Helping(t) => call[u].at \notin Closing
  /\ \A t \in Threads : CallOK(t)

IInv ==
  /\ LoaderOK /\ RangesOK /\ RecordsOK /\ HelpersOK /\ CallsOK
  /\ \A l \in Libs \ Helpers : Resting(l) => RestOK(l)
  /\ aborted = FALSE
-----------------------------------------------------------------------------
\* Where a library is mapped and how large it is are numbers.
LEMMA MappedNumbers ==
  ASSUME LoaderOK, NEW l \in Mapped
  PROVE  l \in Libs /\ base[l] \in Nat /\ Size[l] \in Nat /\ Size[l] > 0
BY LibsAssumption, NullAssumption DEF LoaderOK, Places, Mapped

LEMMA RangeFields ==
  ASSUME NEW o, NEW l
  PROVE  Range(o, l).object = o /\ Range(o, l).start = base[l] /\ Range(o, l).end = base[l] + Size[l]
BY DEF Range

\* The call of t becomes c and those of the others stay.
LEMMA CallBecomes ==
  ASSUME CallsOK, NEW t \in Threads, NEW c \in CallTypes, Enter(t, c)
  PROVE  /\ call' \in [Threads -> CallTypes]
         /\ call'[t] = c
         /\ \A u \in Threads : u # t => call'[u] = call[u]
BY DEF CallsOK, Enter

LEMMA GoesTo ==
  ASSUME CallsOK, NEW t \in Threads, NEW p \in {"idle"} \cup Opening \cup Closing, Goto(t, p)
  PROVE  /\ call' \in [Threads -> CallTypes]
         /\ call'[t].at = p /\ call'[t].lib = Lib(t)
         /\ call'[t].nodelete = call[t].nodelete /\ call'[t].object = call[t].object
         /\ \A u \in Threads : u # t => call'[u] = call[u]
<1> DEFINE c == [call[t] EXCEPT !.at = p]
<1>1. call[t] \in CallTypes
  BY DEF CallsOK
<1>2. /\ c \in CallTypes /\ c.at = p /\ c.lib = Lib(t)
      /\ c.nodelete = call[t].nodelete /\ c.object = call[t].object
  BY <1>1 DEF CallTypes, Lib
<1>3. Enter(t, c)
  BY DEF Goto, Enter
<1> QED
  BY <1>2, <1>3, CallBecomes

\* The program is in one wrapper at a time, with a plugin; the others rest.
LEMMA OnlyBusy ==
  ASSUME WellBehaved, IInv, NEW t \in Threads, Busy(t)
  PROVE  /\ \A u \in Threads : u # t => ~ Busy(u)
         /\ Lib(t) \in Plugins /\ Lib(t) \in Libs /\ Lib(t) \notin Linked \cup Helpers
         /\ ~ Helping(t) /\ lookup[t].at = "idle"
         /\ \A l \in Libs \ Helpers : l # Lib(t) => RestOK(l)
<1>1. CallOK(t) /\ \A u \in Threads : u # t => ~ Busy(u)
  BY DEF IInv, CallsOK
<1>2. Lib(t) \in Plugins /\ lookup[t].at = "idle" /\ ~ Helping(t)
  BY <1>1 DEF CallOK, Helping, Resolving
<1>3. \A l \in Libs \ Helpers : l # Lib(t) => RestOK(l)
  BY <1>1 DEF IInv, Resting
<1> QED
  BY <1>1, <1>2, <1>3, LibsAssumption DEF WellBehaved

\* While a library is opened none is closed: all ranges and records are those of mapped libraries.
LEMMA NoneCloses ==
  ASSUME WellBehaved, IInv, NEW t \in Threads, call[t].at \in Opening
  PROVE  /\ \A u \in Threads : call[u].at \notin Closing
         /\ \A r : ~ Stale(r)
         /\ Lib(t) \in Libs /\ Lib(t) \in Mapped
<1>1. Adding(t) \/ Helping(t)
  BY DEF Adding, Helping
<1>2. \A u \in Threads : call[u].at \notin Closing
  <2>1. CASE Helping(t)
    BY <2>1 DEF IInv, CallsOK
  <2>2. CASE Adding(t)
    BY <2>2, OnlyBusy DEF Busy, Opening, Closing
  <2> QED
    BY <1>1, <2>1, <2>2
<1>3. \A r : ~ Stale(r)
  BY <1>2 DEF Stale, Closing
<1>4. CallOK(t)
  BY DEF IInv, CallsOK
<1>5. Lib(t) \in Mapped
  BY <1>1, <1>4 DEF CallOK, OpeningOK, HelpingOK
<1> QED
  BY <1>2, <1>3, <1>5 DEF Mapped

\* When the program may enter a wrapper, it is in none.
LEMMA NoneBusy ==
  ASSUME WellBehaved, IInv, NEW t \in Threads, Free(t)
  PROVE  /\ call[t].at = "idle" /\ lookup[t].at = "idle"
         /\ \A u \in Threads : ~ Busy(u)
         /\ \A l \in Libs \ Helpers : RestOK(l)
         /\ \A r : ~ Stale(r)
<1>1. call[t].at = "idle" /\ lookup[t].at = "idle"
  BY DEF Free, At
<1>2. ASSUME NEW u \in Threads PROVE ~ Busy(u)
  <2>1. call[u].at = "idle" \/ Resolving(u)
    BY DEF Free, WellBehaved
  <2>2. Busy(u) => ~ Resolving(u)
    BY DEF IInv, CallsOK, CallOK, Resolving
  <2> QED
    BY <2>1, <2>2 DEF Busy, Adding, Opening, Closing
<1>3. \A l \in Libs \ Helpers : RestOK(l)
  BY <1>2 DEF IInv, Resting
<1>4. \A r : ~ Stale(r)
  BY <1>2 DEF Stale, Busy, Closing
<1> QED
  BY <1>1, <1>2, <1>3, <1>4

\* Two libraries that are mapped at the same place are one.
LEMMA SamePlace ==
  ASSUME LoaderOK, NEW l \in Mapped, NEW k \in Mapped, base[l] = base[k]
  PROVE  l = k
<1>1. base[l] \in Nat /\ Size[l] \in Nat /\ Size[l] > 0 /\ Size[k] \in Nat /\ Size[k] > 0
  BY MappedNumbers
<1> QED
  BY <1>1 DEF LoaderOK, Places, Apart

\* What is known of a library that nothing happens to.
LEMMA SameLibrary ==
  ASSUME UNCHANGED <<loader, ranges>>
  PROVE  /\ Mapped' = Mapped
         /\ \A o, l : Range(o, l)' = Range(o, l) /\ (Known(o, l)' <=> Known(o, l))
BY DEF loader, Mapped, Range, Known

\* The loader, in a step that is neither of the real functions nor the return of dlopen().
LEMMA LoaderStays ==
  ASSUME LoaderOK, UNCHANGED <<loader, opens>>,
         \A u \in Threads : (Adding(u)' <=> Adding(u)) /\ (Adding(u) => Lib(u)' = Lib(u))
  PROVE  LoaderOK'
<1>1. Places'
  BY DEF LoaderOK, Places, Mapped, Apart, loader
<1>2. References'
  BY DEF LoaderOK, References, loader
<1> QED
  BY <1>1, <1>2 DEF LoaderOK

\* What a lookup relies on, when what is known stays known.
LEMMA LookingStays ==
  ASSUME IInv, NEW u \in Threads, lookup[u].at \in LookingUp, lookup'[u] = lookup[u],
         held \subseteq held',
         \A k \in Mapped : /\ k \in Mapped' /\ (opens[k] > 0 => opens'[k] > 0)
                           /\ \A o \in Objects : Known(o, k) => Known(o, k)'
  PROVE  LookingUpOK(u)'
BY DEF IInv, CallsOK, CallOK, LookingUpOK, Known

\* What a call of libdw relies on.
LEMMA HelpingStays ==
  ASSUME IInv, NEW u \in Threads, Helping(u), call'[u] = call[u],
         \A k \in Helpers \cap Mapped : /\ k \in Mapped'
                                        /\ \A o \in Objects : Known(o, k) => Known(o, k)'
  PROVE  HelpingOK(u)'
BY DEF IInv, CallsOK, CallOK, HelpingOK, Known, Lib
-----------------------------------------------------------------------------
(***************************************************************************)
(* Looking up.                                                             *)
(***************************************************************************)

\* The lookup of t becomes w and those of the others stay.
LEMMA LookBecomes ==
  ASSUME CallsOK, NEW t \in Threads, NEW w \in LookupTypes, Look(t, w)
  PROVE  /\ lookup' \in [Threads -> LookupTypes]
         /\ lookup'[t] = w
         /\ \A u \in Threads : u # t => lookup'[u] = lookup[u]
         /\ UNCHANGED <<loader, opens, held, records, ranges, objects, lbase_, call>>
BY DEF CallsOK, Look

LEMMA LookupKeeps ==
  ASSUME IInv, NEW t \in Threads, call[t].at = "idle",
         lookup' \in [Threads -> LookupTypes],
         \A u \in Threads : u # t => lookup'[u] = lookup[u],
         UNCHANGED <<loader, opens, held, records, ranges, objects, lbase_, call, aborted>>,
         (lookup[t].at \in LookingUp => LookingUpOK(t))'
  PROVE  IInv'
<1>1. ASSUME NEW u \in Threads
      PROVE  /\ (Adding(u)' <=> Adding(u)) /\ (Helping(u)' <=> Helping(u)) /\ (Busy(u)' <=> Busy(u))
             /\ Lib(u)' = Lib(u)
  <2>1. call'[u] = call[u]
    OBVIOUS
  <2>2. u # t => (Resolving(u)' <=> Resolving(u))
    BY DEF Resolving
  <2>3. u = t => call[u].at \notin Opening
    BY DEF Opening
  <2> QED
    BY <2>1, <2>2, <2>3 DEF Adding, Helping, Busy, Lib
<1>2. /\ Mapped' = Mapped
      /\ \A o, l : Range(o, l)' = Range(o, l) /\ (Known(o, l)' <=> Known(o, l))
      /\ \A h, n, o : Recorded(h, n, o)' <=> Recorded(h, n, o)
      /\ pinned' = pinned /\ handle' = handle /\ base' = base
  BY SameLibrary DEF Recorded, loader
<1>3. LoaderOK'
  BY <1>1, LoaderStays DEF IInv
<1>4. \A r : Stale(r)' <=> Stale(r)
  BY <1>1, <1>2 DEF Stale
<1>5. RangesOK'
  BY <1>2, <1>4 DEF IInv, RangesOK
<1>6. RecordsOK'
  BY <1>2 DEF IInv, RecordsOK
<1>7. HelpersOK'
  BY <1>1, <1>2 DEF IInv, HelpersOK
<1>8. ASSUME NEW l \in Libs \ Helpers, Resting(l)' PROVE RestOK(l)'
  <2>1. RestOK(l)
    BY <1>1, <1>8 DEF IInv, Resting
  <2> QED
    BY <1>2, <2>1 DEF RestOK
<1>9. ASSUME NEW u \in Threads PROVE CallOK(u)'
  <2>1. CallOK(u)
    BY DEF IInv, CallsOK
  <2>2. OpeningOK(u)' <=> OpeningOK(u)
    BY <1>1, <1>2 DEF OpeningOK
  <2>3. UnrecordOK(u)' <=> UnrecordOK(u)
    BY <1>1, <1>2 DEF UnrecordOK
  <2>4. (UnregisterOK(u)' <=> UnregisterOK(u)) /\ (DeleteOK(u)' <=> DeleteOK(u))
    BY <1>1, <1>2 DEF UnregisterOK, DeleteOK
  <2>5. HelpingOK(u)' <=> HelpingOK(u)
    BY <1>1, <1>2 DEF HelpingOK
  <2>6. (lookup[u].at \in LookingUp => LookingUpOK(u))'
    <3>1. u # t => (LookingUpOK(u)' <=> LookingUpOK(u))
      BY <1>2 DEF LookingUpOK
    <3> QED
      BY <2>1, <3>1 DEF CallOK
  <2>7. Busy(u)' => Lib(u)' \in Plugins /\ lookup'[u].at = "idle"
    <3>1. Busy(t) => FALSE
      BY DEF Busy, Adding, Opening, Closing
    <3> QED
      BY <1>1, <2>1, <3>1 DEF CallOK
  <2> QED
    BY <1>1, <2>1, <2>2, <2>3, <2>4, <2>5, <2>6, <2>7 DEF CallOK
<1>10. CallsOK'
  <2>1. \A u, v \in Threads : Busy(u)' /\ Busy(v)' => u = v
    BY <1>1 DEF IInv, CallsOK
  <2>2. \A u, v \in Threads : Helping(u)' => call'[v].at \notin Closing
    BY <1>1 DEF IInv, CallsOK
  <2>3. call' \in [Threads -> CallTypes] /\ CallTypes' = CallTypes /\ LookupTypes' = LookupTypes
    BY DEF IInv, CallsOK, CallTypes, LookupTypes
  <2> QED
    BY <1>9, <2>1, <2>2, <2>3 DEF CallsOK
<1> QED
  BY <1>3, <1>5, <1>6, <1>7, <1>8, <1>10 DEF IInv

\* A library that stays open is registered.
LEMMA OpenIsKnown ==
  ASSUME WellBehaved, IInv, NEW l \in Mapped, l \in Linked \cup held \/ opens[l] > 0
  PROVE  \E o \in Objects : Known(o, l)
<1>1. l \in Libs /\ opens[l] \in Nat /\ (opens[l] > 0 => l \in Plugins)
  BY DEF IInv, LoaderOK, References, Mapped
<1>2. CASE l \in Helpers
  BY <1>1, <1>2 DEF IInv, HelpersOK, WellBehaved
<1>3. CASE l \notin Helpers /\ Resting(l)
  BY <1>1, <1>3 DEF IInv, RestOK
<1>4. CASE l \notin Helpers /\ ~ Resting(l)
  <2>1. PICK t \in Threads : Busy(t) /\ Lib(t) = l
    BY <1>4 DEF Resting
  <2>2. CallOK(t) /\ l \in Plugins
    BY <2>1 DEF IInv, CallsOK, CallOK
  <2>3. opens[l] > 0 /\ opens[l] # 0
    BY <1>1, <1>4, <2>2 DEF WellBehaved, IInv, HelpersOK
  <2>4. CASE Adding(t)
    BY <2>1, <2>2, <2>3, <2>4 DEF CallOK, OpeningOK
  <2>5. CASE call[t].at = "unrecord"
    BY <2>1, <2>2, <2>5 DEF CallOK, UnrecordOK
  <2>6. CASE call[t].at \in {"unregister", "delete"}
    BY <2>1, <2>2, <2>3, <2>6 DEF CallOK, UnregisterOK, DeleteOK
  <2> QED
    BY <2>1, <2>4, <2>5, <2>6 DEF Busy, Closing
<1> QED
  BY <1>2, <1>3, <1>4

\* The range that contains an address of a library is that of the library.
LEMMA ContainingIsKnown ==
  ASSUME IInv, NEW l \in Mapped, NEW a \in Span(l), NEW o \in Containing(a)
  PROVE  Known(o, l)
<1>1. PICK r \in ranges : o = r.object /\ r.start <= a /\ a < r.end
  BY DEF Containing
<1>2. a \in Int /\ base[l] <= a /\ a < base[l] + Size[l] /\ base[l] \in Nat /\ Size[l] \in Nat
  BY MappedNumbers DEF IInv, Span
<1>3. r.start \in Nat /\ r.end \in Nat
  BY DEF IInv, RangesOK
<1>4. ~ Stale(r)
  BY <1>1, <1>2, <1>3 DEF IInv, RangesOK
<1>5. PICK k \in Mapped : r = Range(o, k)
  BY <1>1, <1>4 DEF IInv, RangesOK
<1>6. r.start = base[k] /\ r.end = base[k] + Size[k] /\ base[k] \in Nat /\ Size[k] \in Nat
  BY <1>5, MappedNumbers, RangeFields DEF IInv
<1>7. k = l
  BY <1>1, <1>2, <1>6 DEF IInv, LoaderOK, Places, Apart
<1> QED
  BY <1>1, <1>5, <1>7 DEF IInv, RangesOK, Known

LEMMA FindKeeps ==
  ASSUME WellBehaved, IInv, NEW t \in Threads, NEW l \in Libs, NEW a, Find(t, l, a)
  PROVE  IInv'
<1>1. /\ l \in Mapped /\ (l \in Linked \cup held \/ opens[l] > 0) /\ a \in Span(l)
      /\ call[t].at = "idle" /\ aborted' = aborted
  BY DEF Find, LookupAt, At
<1>2. PICK o \in Objects : Known(o, l)
  BY <1>1, OpenIsKnown
<1>3. o \in Containing(a)
  BY <1>1, <1>2, RangeFields, MappedNumbers DEF IInv, Containing, Known, Span
<1>4. PICK q \in Containing(a) : Look(t, Lookup("realize", l, q))
  BY <1>3 DEF Find
<1>5. Known(q, l) /\ q \in Objects
  BY <1>1, ContainingIsKnown DEF Known
<1>6. Lookup("realize", l, q) \in LookupTypes
  BY <1>5 DEF Lookup, LookupTypes, LookingUp
<1>7. /\ lookup' \in [Threads -> LookupTypes] /\ lookup'[t] = Lookup("realize", l, q)
      /\ \A u \in Threads : u # t => lookup'[u] = lookup[u]
      /\ UNCHANGED <<loader, opens, held, records, ranges, objects, lbase_, call>>
  BY <1>4, <1>6, LookBecomes DEF IInv
<1>8. lookup'[t].lib = l /\ lookup'[t].object = q
  BY <1>7 DEF Lookup
<1>9. LookingUpOK(t)'
  BY <1>1, <1>5, <1>7, <1>8, SameLibrary DEF LookingUpOK
<1> QED
  BY <1>1, <1>7, <1>9, LookupKeeps

\* A thread that goes on with its lookup.
LEMMA LookupGoesOn ==
  ASSUME IInv, NEW t \in Threads, call[t].at = "idle", lookup[t].at \in LookingUp,
         NEW p \in LookingUp, LookOn(t, p), aborted' = aborted
  PROVE  IInv'
<1> DEFINE w == [lookup[t] EXCEPT !.at = p]
<1>1. lookup[t] \in LookupTypes /\ LookingUpOK(t)
  BY DEF IInv, CallsOK, CallOK
<1>2. w \in LookupTypes /\ w.lib = lookup[t].lib /\ w.object = lookup[t].object
  BY <1>1 DEF LookupTypes
<1>3. Look(t, w)
  BY DEF LookOn
<1>4. /\ lookup' \in [Threads -> LookupTypes] /\ lookup'[t] = w
      /\ \A u \in Threads : u # t => lookup'[u] = lookup[u]
      /\ UNCHANGED <<loader, opens, held, records, ranges, objects, lbase_, call>>
  BY <1>2, <1>3, LookBecomes DEF IInv
<1>5. LookingUpOK(t)'
  BY <1>1, <1>2, <1>4, SameLibrary DEF LookingUpOK
<1> QED
  BY <1>4, <1>5, LookupKeeps

LEMMA RealizeKeeps ==
  ASSUME IInv, NEW t \in Threads, Realize(t) \/ GetDebugInfoPath(t)
  PROVE  IInv'
<1>1. call[t].at = "idle" /\ lookup[t].at \in LookingUp /\ aborted' = aborted
  BY DEF Realize, GetDebugInfoPath, LookupAt, At, LookingUp
<1>2. \E p \in LookingUp : LookOn(t, p)
  BY DEF Realize, GetDebugInfoPath, LookingUp
<1> QED
  BY <1>1, <1>2, LookupGoesOn

\* The symbols are loaded by the first thread that gets the write lock.
LEMMA LoadKeeps ==
  ASSUME IInv, NEW t \in Threads, Load(t)
  PROVE  IInv'
<1>1. call[t].at = "idle" /\ lookup[t].at \in LookingUp /\ LookOn(t, "symbols")
  BY DEF Load, LookupAt, At, LookingUp
<1>2. aborted' = aborted
  <2> DEFINE o == lookup[t].object
  <2>1. CASE Beaten(o)
    BY <2>1 DEF Load
  <2>2. CASE ~ Beaten(o)
    <3>1. aborted' = (o \in loaded) /\ aborted = FALSE
      BY <2>2 DEF Load, IInv
    <3>2. (o \in loaded) = FALSE
      BY <2>2 DEF Beaten
    <3> QED
      BY <3>1, <3>2
  <2> QED
    BY <2>1, <2>2
<1>3. "symbols" \in LookingUp
  BY DEF LookingUp
<1> QED
  BY <1>1, <1>2, <1>3, LookupGoesOn

LEMMA FindSymbolKeeps ==
  ASSUME IInv, NEW t \in Threads, FindSymbol(t)
  PROVE  IInv'
<1>1. call[t].at = "idle" /\ Look(t, NoLookup) /\ aborted' = aborted
  BY DEF FindSymbol, LookupAt, At
<1>2. NoLookup \in LookupTypes /\ NoLookup.at \notin LookingUp
  BY DEF NoLookup, Lookup, LookupTypes, LookingUp
<1>3. /\ lookup' \in [Threads -> LookupTypes] /\ lookup'[t] = NoLookup
      /\ \A u \in Threads : u # t => lookup'[u] = lookup[u]
      /\ UNCHANGED <<loader, opens, held, records, ranges, objects, lbase_, call>>
  BY <1>1, <1>2, LookBecomes DEF IInv
<1> QED
  BY <1>1, <1>2, <1>3, LookupKeeps
-----------------------------------------------------------------------------
(***************************************************************************)
(* Opening.                                                                *)
(***************************************************************************)

\* The calls, in a step of the thread where the program opens or closes a library.
LEMMA CallsKeep ==
  ASSUME IInv, NEW t \in Threads, call' \in [Threads -> CallTypes], lookup' = lookup, CallOK(t)',
         call'[t].at \in Closing => \A u \in Threads : ~ Helping(u),
         \A u \in Threads : u # t => /\ ~ Busy(u) /\ call'[u] = call[u]
                                     /\ Helping(u) => HelpingOK(u)'
                                     /\ lookup[u].at \in LookingUp => LookingUpOK(u)'
  PROVE  CallsOK'
<1>1. ASSUME NEW u \in Threads, u # t
      PROVE  /\ call'[u] = call[u] /\ lookup'[u] = lookup[u] /\ ~ Busy(u)'
             /\ Helping(u)' <=> Helping(u)
  BY <1>1 DEF Busy, Adding, Helping, Resolving
<1>2. ASSUME NEW u \in Threads, u # t PROVE CallOK(u)'
  BY <1>1, <1>2 DEF CallOK, Busy, Closing
<1>3. \A u, v \in Threads : Busy(u)' /\ Busy(v)' => u = v
  BY <1>1
<1>4. ASSUME NEW u \in Threads, NEW v \in Threads, Helping(u)' PROVE call'[v].at \notin Closing
  <2>1. CASE v # t
    BY <1>1, <2>1 DEF Busy
  <2>2. CASE v = t /\ u # t
    BY <1>1, <1>4, <2>2
  <2>3. CASE v = t /\ u = t
    BY <1>4, <2>3 DEF Helping, Opening, Closing
  <2> QED
    BY <2>1, <2>2, <2>3
<1>5. lookup' \in [Threads -> LookupTypes]
  BY DEF IInv, CallsOK
<1> QED
  BY <1>2, <1>3, <1>4, <1>5 DEF CallsOK, CallTypes, LookupTypes

\* The same, when what is known stays known.
LEMMA CallsGoOn ==
  ASSUME IInv, NEW t \in Threads, call' \in [Threads -> CallTypes], CallOK(t)',
         call'[t].at \in Closing => \A u \in Threads : ~ Helping(u),
         \A u \in Threads : u # t => ~ Busy(u) /\ call'[u] = call[u],
         \A k \in Mapped : /\ k \in Mapped' /\ (opens[k] > 0 => opens'[k] > 0)
                           /\ \A o \in Objects : Known(o, k) => Known(o, k)',
         UNCHANGED <<held, lookup>>
  PROVE  CallsOK'
<1>1. ASSUME NEW u \in Threads, u # t
      PROVE  /\ Helping(u) => HelpingOK(u)'
             /\ lookup[u].at \in LookingUp => LookingUpOK(u)'
  BY <1>1, LookingStays, HelpingStays
<1> QED
  BY <1>1, CallsKeep

\* The libraries of libdw, in a step of the program.
LEMMA HelpersStay ==
  ASSUME IInv, NEW t \in Threads, ~ Helping(t),
         \A u \in Threads : u # t => call'[u] = call[u],
         \A k \in Helpers : k \in Mapped' <=> k \in Mapped,
         \A k \in Helpers \cap Mapped :
            /\ handle'[k] = handle[k] /\ records'[handle[k]] = records[handle[k]]
            /\ \A o \in Objects : Known(o, k) => Known(o, k)',
         UNCHANGED <<held, lookup>>
  PROVE  HelpersOK'
<1>1. ASSUME NEW u \in Threads, Helping(u) PROVE Helping(u)' /\ Lib(u)' = Lib(u)
  BY <1>1 DEF Helping, Resolving, Lib
<1>2. \A k \in Helpers \cap Mapped' : \/ \E o \in Objects : Known(o, k)'
                                      \/ k \notin Linked \cup held' /\ \E u \in Threads : Helping(u)' /\ Lib(u)' = k
  BY <1>1 DEF IInv, HelpersOK
<1>3. ASSUME NEW k \in Helpers \cap Mapped'
      PROVE  (records[handle[k]] # NoRecord => Known(records[handle[k]].object_file_, k))'
  <2> DEFINE o == records[handle[k]].object_file_
  <2>1. records[handle[k]] # NoRecord => o \in Objects /\ Known(o, k)
    BY DEF IInv, HelpersOK, Known
  <2>2. records[handle[k]] # NoRecord => Known(o, k)'
    BY <2>1
  <2> QED
    BY <2>2 DEF Known
<1>4. held' \subseteq Helpers \cap Mapped'
  BY DEF IInv, HelpersOK
<1> QED
  BY <1>2, <1>3, <1>4 DEF HelpersOK

\* The ranges, when none is stale and what is mapped stays where it is.
LEMMA RangesStay ==
  ASSUME IInv, \A r : ~ Stale(r) /\ ~ Stale(r)',
         \A k \in Mapped : k \in Mapped' /\ \A o : Range(o, k)' = Range(o, k),
         UNCHANGED <<ranges, objects, lbase_>>
  PROVE  RangesOK'
BY DEF IInv, RangesOK

\* The records, when no library is closed and what is mapped keeps its handle.
LEMMA RecordsStay ==
  ASSUME IInv, \A u \in Threads : call[u].at # "unrecord",
         records' \in [Handles -> Records],
         \A k \in Mapped : k \in Mapped' /\ handle'[k] = handle[k],
         \A h \in Handles : records'[h] # NoRecord =>
            records[h] # NoRecord \/ \E k \in Mapped : handle[k] = h
  PROVE  RecordsOK'
BY DEF IInv, RecordsOK

\* The loader has one reference more to l, that it maps at free pages if it is not mapped.
LEMMA OpensLibrary ==
  ASSUME LoaderOK, NEW l \in Libs, NEW nodelete \in BOOLEAN, Opens(l, nodelete)
  PROVE  /\ Places' /\ Mapped' = Mapped \cup {l}
         /\ \A k \in Mapped : /\ base'[k] = base[k] /\ handle'[k] = handle[k]
                              /\ \A o : Range(o, k)' = Range(o, k)
         /\ handle'[l] \in Handles
         /\ l \notin Mapped => \A k \in Mapped : handle[k] # handle'[l]
         /\ refs' \in [Libs -> Nat] /\ refs'[l] = refs[l] + 1
         /\ \A k \in Libs : k # l => refs'[k] = refs[k]
<1>1. /\ refs' = [refs EXCEPT ![l] = @ + 1] /\ refs \in [Libs -> Nat]
      /\ pinned' \subseteq pinned \cup {l}
  BY DEF Opens, LoaderOK, References
<1>2. refs' \in [Libs -> Nat] /\ refs'[l] = refs[l] + 1 /\ \A k \in Libs : k # l => refs'[k] = refs[k]
  BY <1>1
<1>3. CASE l \in Mapped
  <2>1. base' = base /\ handle' = handle
    BY <1>3 DEF Opens
  <2>2. Mapped' = Mapped /\ \A o, k : Range(o, k)' = Range(o, k)
    BY <2>1 DEF Mapped, Range
  <2>3. Places'
    BY <1>1, <1>3, <2>1, <2>2 DEF LoaderOK, Places, Apart
  <2>4. handle[l] \in Handles
    BY <1>3 DEF LoaderOK, Places
  <2> QED
    BY <1>2, <1>3, <2>1, <2>2, <2>3, <2>4
<1>4. CASE l \notin Mapped
  <2>1. PICK b \in 0 .. Pages - Size[l], h \in Handles :
          /\ \A k \in Mapped : handle[k] # h /\ Span(k) \cap (b .. b + Size[l] - 1) = {}
          /\ base' = [base EXCEPT ![l] = b]
          /\ handle' = [handle EXCEPT ![l] = h]
    BY <1>4 DEF Opens
  <2>2. /\ b \in Nat /\ h # NULL /\ b # NULL /\ Size[l] \in Nat /\ Size[l] > 0
        /\ b + Size[l] <= Pages
    <3>1. Size[l] \in Nat /\ Size[l] > 0
      BY LibsAssumption
    <3> QED
      BY <3>1, BoundAssumption, NullAssumption
  <2>3. /\ base \in [Libs -> Nat \cup {NULL}] /\ handle \in [Libs -> Handles \cup {NULL}]
    BY DEF LoaderOK, Places
  <2>4. /\ base' \in [Libs -> Nat \cup {NULL}] /\ handle' \in [Libs -> Handles \cup {NULL}]
        /\ base'[l] = b /\ handle'[l] = h
        /\ \A k \in Libs : k # l => base'[k] = base[k] /\ handle'[k] = handle[k]
    BY <2>1, <2>2, <2>3
  <2>5. Mapped' = Mapped \cup {l}
    BY <2>2, <2>4 DEF Mapped
  <2>6. ASSUME NEW k \in Mapped PROVE base[k] + Size[k] <= b \/ b + Size[l] <= base[k]
    <3>1. base[k] \in Nat /\ Size[k] \in Nat /\ Size[k] > 0
      BY MappedNumbers
    <3>2. base[k] \notin b .. b + Size[l] - 1 \/ base[k] \notin Span(k)
      BY <2>1
    <3>3. b \notin Span(k) \/ b \notin b .. b + Size[l] - 1
      BY <2>1
    <3> QED
      BY <2>2, <3>1, <3>2, <3>3 DEF Span
  <2>7. \A k \in Libs : k \in Mapped' <=> handle'[k] # NULL
    BY <2>2, <2>4, <2>5 DEF LoaderOK, Places
  <2>8. \A k \in Mapped' : base'[k] + Size[k] <= Pages
    BY <2>2, <2>4, <2>5, MappedNumbers DEF LoaderOK, Places
  <2>9. \A j, k \in Mapped' : j # k => handle'[j] # handle'[k] /\ Apart(j, k)'
    BY <2>1, <2>2, <2>4, <2>5, <2>6, MappedNumbers DEF LoaderOK, Places, Apart
  <2>10. pinned' \subseteq Mapped' /\ Linked \subseteq Mapped'
    BY <1>1, <2>5 DEF LoaderOK, Places
  <2>11. Places'
    BY <2>4, <2>7, <2>8, <2>9, <2>10 DEF Places
  <2>12. ASSUME NEW k \in Mapped
         PROVE  /\ base'[k] = base[k] /\ handle'[k] = handle[k]
                /\ \A o : Range(o, k)' = Range(o, k)
    <3>1. k \in Libs /\ k # l
      BY <1>4 DEF Mapped
    <3> QED
      BY <2>4, <3>1 DEF Range
  <2> QED
    BY <1>2, <2>1, <2>4, <2>5, <2>11, <2>12
<1> QED
  BY <1>3, <1>4

\* The range that find_registered_object_file() finds is that of the library at that place.
LEMMA RegisteredIsKnown ==
  ASSUME WellBehaved, IInv, NEW t \in Threads, call[t].at \in Opening,
         NEW l \in Mapped, NEW o \in Registered(base[l])
  PROVE  Known(o, l)
<1>1. PICK r \in ranges : o = r.object /\ lbase_[o] = base[l]
  BY DEF Registered
<1>2. ~ Stale(r) /\ o \in Objects
  BY <1>1, NoneCloses DEF IInv, RangesOK
<1>3. PICK k \in Mapped : r = Range(o, k)
  BY <1>1, <1>2 DEF IInv, RangesOK
<1>4. base[k] = base[l]
  BY <1>1, <1>3, RangeFields DEF IInv, RangesOK
<1> QED
  BY <1>2, <1>3, <1>4, SamePlace DEF IInv, Known

\* A new ObjectFile: its range overlaps none that there is.
LEMMA NewRange ==
  ASSUME WellBehaved, IInv, NEW t \in Threads, call[t].at \in Opening,
         NEW l \in Mapped, NEW o \in Objects \ objects, Registered(base[l]) = {},
         objects' = objects \cup {o}, lbase_' = [lbase_ EXCEPT ![o] = base[l]],
         ranges' = ranges \cup {Range(o, l)},
         aborted' = \E r \in ranges : r.start < base[l] + Size[l] /\ base[l] < r.end,
         \A u \in Threads : call'[u].at \notin Closing,
         UNCHANGED loader
  PROVE  /\ RangesOK' /\ aborted' = FALSE /\ Known(o, l)'
         /\ \A k \in Mapped : k \in Mapped' /\ \A q \in Objects : Known(q, k) => Known(q, k)'
<1>1. base[l] \in Nat /\ Size[l] \in Nat /\ Size[l] > 0
  BY MappedNumbers DEF IInv
<1>2. \A r : ~ Stale(r) /\ ~ Stale(r)'
  BY NoneCloses DEF Stale, Closing
<1>3. /\ base' = base /\ Mapped' = Mapped
      /\ \A q, k : Range(q, k)' = Range(q, k) /\ (Known(q, k) => Known(q, k)')
  BY DEF loader, Mapped, Range, Known
<1>4. ASSUME NEW r \in ranges PROVE ~ (r.start < base[l] + Size[l] /\ base[l] < r.end)
  <2>1. PICK k \in Mapped : r = Range(r.object, k)
    BY <1>2 DEF IInv, RangesOK
  <2>2. /\ r.start = base[k] /\ r.end = base[k] + Size[k]
        /\ base[k] \in Nat /\ Size[k] \in Nat
    BY <2>1, RangeFields, MappedNumbers DEF IInv
  <2>3. lbase_[r.object] = r.start /\ r.object \notin Registered(base[l])
    BY DEF IInv, RangesOK
  <2>4. k # l
    BY <2>2, <2>3 DEF Registered
  <2> QED
    BY <1>1, <2>2, <2>4 DEF IInv, LoaderOK, Places, Apart
<1>5. aborted' = FALSE
  BY <1>4
<1>6. RangesOK'
  <2> DEFINE new == Range(o, l)
  <2>1. new \in [object : Objects, start : Nat, end : Nat] /\ new.object = o /\ new.start = base[l]
    BY <1>1 DEF Range
  <2>2. /\ lbase_' \in [Objects -> Nat \cup {NULL}] /\ lbase_'[o] = base[l]
        /\ \A q \in Objects : q # o => lbase_'[q] = lbase_[q]
    BY <1>1 DEF IInv, RangesOK
  <2>3. \A r \in ranges : r.object \in objects /\ r.object # o /\ r.object \in Objects
    BY DEF IInv, RangesOK
  <2>4. \A r \in ranges' : \E k \in Mapped' : r = Range(r.object, k)'
    BY <1>2, <1>3, <2>1 DEF IInv, RangesOK
  <2>5. /\ objects' \subseteq Objects
        /\ ranges' \subseteq [object : Objects, start : Nat, end : Nat]
        /\ \A r \in ranges' : r.object \in objects' /\ lbase_'[r.object] = r.start
    BY <2>1, <2>2, <2>3 DEF IInv, RangesOK
  <2>6. \A r \in ranges : r.start # base[l]
    BY DEF IInv, RangesOK, Registered
  <2>7. \A r, q \in ranges' : r.object = q.object \/ r.start = q.start => r = q
    BY <2>1, <2>3, <2>6 DEF IInv, RangesOK
  <2> QED
    BY <1>2, <2>2, <2>4, <2>5, <2>7 DEF RangesOK
<1>7. Known(o, l)'
  BY <1>3 DEF Known
<1> QED
  BY <1>3, <1>5, <1>6, <1>7
-----------------------------------------------------------------------------
(***************************************************************************)
(* Opening, by the program.                                                *)
(***************************************************************************)

\* The real dlopen().
LEMMA DlopenKeeps ==
  ASSUME WellBehaved, IInv, NEW t \in Threads, NEW l \in Plugins, NEW nodelete \in BOOLEAN,
         RealDlopen(t, l, nodelete, FALSE)
  PROVE  IInv'
<1> DEFINE c == Call("opened", l, nodelete, NULL)
<1>1. /\ Free(t) /\ Opens(l, nodelete) /\ Enter(t, c)
      /\ l \in pinned /\ ~ nodelete => opens[l] > 0
      /\ pinned' = IF nodelete THEN pinned \cup {l} ELSE pinned
      /\ UNCHANGED <<opens, held, records, ranges, objects, lbase_, lookup, aborted>>
  BY DEF RealDlopen, Opens, WellBehaved, filevars
<1>2. /\ call[t].at = "idle" /\ lookup[t].at = "idle"
      /\ \A u \in Threads : ~ Busy(u)
      /\ \A k \in Libs \ Helpers : RestOK(k)
      /\ \A r : ~ Stale(r)
  BY <1>1, NoneBusy
<1>3. l \in Libs /\ l \notin Linked /\ l \notin Helpers
  BY LibsAssumption DEF WellBehaved
<1>4. c \in CallTypes
  BY <1>3 DEF Call, CallTypes, Opening
<1>5. /\ call' \in [Threads -> CallTypes] /\ call'[t] = c
      /\ \A u \in Threads : u # t => call'[u] = call[u]
  BY <1>1, <1>4, CallBecomes DEF IInv
<1>6. call'[t].at = "opened" /\ call'[t].lib = l /\ call'[t].nodelete = nodelete
  BY <1>5 DEF Call
<1>7. \A u \in Threads : u # t => ~ Busy(u)'
  BY <1>1, <1>2, <1>5 DEF Busy, Adding, Resolving
<1>8. Adding(t)' /\ Lib(t)' = l /\ ~ Helping(t) /\ ~ Helping(t)'
  BY <1>1, <1>2, <1>6 DEF Adding, Helping, Resolving, Lib, Opening
<1>9. /\ Places' /\ Mapped' = Mapped \cup {l}
      /\ \A k \in Mapped : /\ base'[k] = base[k] /\ handle'[k] = handle[k]
                           /\ \A o : Range(o, k)' = Range(o, k)
      /\ handle'[l] \in Handles
      /\ l \notin Mapped => \A k \in Mapped : handle[k] # handle'[l]
      /\ refs' \in [Libs -> Nat] /\ refs'[l] = refs[l] + 1
      /\ \A k \in Libs : k # l => refs'[k] = refs[k]
  BY <1>1, <1>3, OpensLibrary DEF IInv
<1>10. \A k \in Mapped : \A o : Known(o, k)' <=> Known(o, k)
  BY <1>1, <1>9 DEF Known
<1>11. LoaderOK'
  <2>1. \A u \in Threads : Adding(u)' => Lib(u)' = l
    BY <1>7, <1>8 DEF Busy
  <2>2. \A u \in Threads : ~ Adding(u)
    BY <1>2 DEF Busy
  <2>3. \A k \in Libs \ Helpers : refs[k] = opens[k]
    BY <2>2 DEF IInv, LoaderOK, References
  <2>4. References'
    BY <1>1, <1>3, <1>8, <1>9, <2>1, <2>3 DEF IInv, LoaderOK, References
  <2> QED
    BY <1>9, <2>4 DEF LoaderOK
<1>12. \A r : ~ Stale(r)'
  BY <1>6, <1>7 DEF Stale, Busy, Closing
<1>13. RangesOK'
  BY <1>1, <1>2, <1>9, <1>12, RangesStay
<1>14. RecordsOK'
  <2>1. \A u \in Threads : call[u].at # "unrecord"
    BY <1>2 DEF Busy, Closing
  <2>2. records' \in [Handles -> Records] /\ records' = records
    BY <1>1 DEF IInv, RecordsOK
  <2> QED
    BY <1>9, <2>1, <2>2, RecordsStay
<1>15. HelpersOK'
  BY <1>1, <1>3, <1>5, <1>8, <1>9, <1>10, HelpersStay
<1>16. ASSUME NEW k \in Libs \ Helpers, Resting(k)' PROVE RestOK(k)'
  <2>1. k # l
    BY <1>8, <1>16 DEF Resting, Busy
  <2>2. (k \in pinned' <=> k \in pinned) /\ (k \in Mapped' <=> k \in Mapped)
    BY <1>1, <1>9, <2>1
  <2>3. RestOK(k)
    BY <1>2
  <2> QED
    BY <1>1, <1>9, <1>10, <2>2, <2>3 DEF RestOK, Recorded
<1>17. OpeningOK(t)'
  <2>1. RestOK(l) /\ opens[l] \in Nat
    BY <1>2, <1>3 DEF IInv, LoaderOK, References
  <2>2. l \in pinned' <=> l \in pinned \/ nodelete
    BY <1>1
  <2>3. CASE l \in Mapped
    <3>1. opens[l] > 0 => (records[handle[l]].nodelete \/ nodelete) <=> l \in pinned'
      BY <2>1, <2>2 DEF RestOK
    <3>2. opens[l] = 0 => (nodelete <=> l \in pinned') /\ records[handle[l]] = NoRecord
      BY <1>1, <1>3, <2>1, <2>2, <2>3 DEF RestOK
    <3>3. opens[l] > 0 => \E o \in Objects : Known(o, l) /\ Recorded(handle[l], opens[l], o)
      BY <2>1 DEF RestOK
    <3> QED
      BY <1>1, <1>6, <1>9, <1>10, <2>1, <2>3, <3>1, <3>2, <3>3 DEF OpeningOK, Recorded, Lib
  <2>4. CASE l \notin Mapped
    <3>1. opens[l] = 0 /\ l \notin pinned
      BY <2>1, <2>4 DEF RestOK, IInv, LoaderOK, Places
    <3>2. records[handle'[l]] = NoRecord
      BY <1>2, <1>9, <2>4 DEF IInv, RecordsOK, Busy, Closing
    <3> QED
      BY <1>1, <1>6, <1>9, <2>2, <3>1, <3>2 DEF OpeningOK, Lib
  <2> QED
    BY <2>3, <2>4
<1>18. CallOK(t)'
  BY <1>1, <1>2, <1>6, <1>8, <1>17 DEF CallOK, LookingUp
<1>19. CallsOK'
  <2>1. call'[t].at \notin Closing
    BY <1>6 DEF Closing
  <2> QED
    BY <1>1, <1>2, <1>5, <1>9, <1>10, <1>18, <2>1, CallsGoOn
<1> QED
  BY <1>1, <1>11, <1>13, <1>14, <1>15, <1>16, <1>19 DEF IInv

\* dlopen() returns: the program has one reference more.
LEMMA Returned ==
  ASSUME WellBehaved, IInv, NEW t \in Threads, Adding(t), Returns(t),
         \A k \in Helpers \cap Mapped : records'[handle[k]] = records[handle[k]],
         UNCHANGED <<loader, ranges, lookup>>
  PROVE  /\ \A u \in Threads : ~ Busy(u)' /\ call'[u].at \notin Closing
         /\ opens' \in [Libs -> Nat] /\ opens'[Lib(t)] = opens[Lib(t)] + 1
         /\ \A l \in Libs : l # Lib(t) => opens'[l] = opens[l]
         /\ LoaderOK' /\ CallsOK' /\ HelpersOK'
         /\ \A r : ~ Stale(r) /\ ~ Stale(r)'
<1>1. /\ \A u \in Threads : u # t => ~ Busy(u)
      /\ Lib(t) \in Plugins /\ Lib(t) \in Libs /\ Lib(t) \notin Linked \cup Helpers
      /\ ~ Helping(t) /\ lookup[t].at = "idle"
  BY OnlyBusy DEF Busy
<1>2. Idle \in CallTypes /\ Idle.at = "idle"
  BY DEF Idle, Call, CallTypes
<1>3. Enter(t, Idle) /\ opens' = [opens EXCEPT ![Lib(t)] = @ + 1] /\ held' = held
  BY DEF Returns, Adding
<1>4. /\ call' \in [Threads -> CallTypes] /\ call'[t] = Idle
      /\ \A u \in Threads : u # t => call'[u] = call[u]
  BY <1>2, <1>3, CallBecomes DEF IInv
<1>5. \A u \in Threads : ~ Busy(u)'
  BY <1>1, <1>2, <1>4 DEF Busy, Adding, Resolving, Opening, Closing
<1>6. /\ opens' \in [Libs -> Nat] /\ opens'[Lib(t)] = opens[Lib(t)] + 1
      /\ \A l \in Libs : l # Lib(t) => opens'[l] = opens[l]
      /\ opens \in [Libs -> Nat]
  BY <1>1, <1>3 DEF IInv, LoaderOK, References
<1>7. LoaderOK'
  <2>1. \A l \in Libs \ Helpers : refs[l] = opens'[l]
    BY <1>1, <1>6 DEF IInv, LoaderOK, References, Busy
  <2>2. \A l \in Linked : l # Lib(t) /\ l \in Libs
    BY <1>1, LibsAssumption
  <2>3. \A k \in Libs : opens'[k] > 0 => k \in Plugins
    BY <1>1, <1>6 DEF IInv, LoaderOK, References
  <2>4. References'
    BY <1>5, <1>6, <2>1, <2>2, <2>3 DEF IInv, LoaderOK, References, loader, Busy
  <2>5. Places'
    BY SameLibrary DEF IInv, LoaderOK, Places, Apart, loader
  <2> QED
    BY <2>4, <2>5 DEF LoaderOK
<1>8. CallOK(t)'
  BY <1>1, <1>2, <1>4, <1>5 DEF CallOK, LookingUp, Busy, Adding, Helping, Opening, Closing
<1>9. CallsOK'
  <2>1. \A k \in Mapped : opens[k] > 0 => opens'[k] > 0
    BY <1>6 DEF Mapped
  <2>2. call'[t].at \notin Closing
    BY <1>2, <1>4 DEF Closing
  <2> QED
    BY <1>1, <1>3, <1>4, <1>8, <2>1, <2>2, SameLibrary, CallsGoOn
<1>10. HelpersOK'
  BY <1>1, <1>3, <1>4, SameLibrary, HelpersStay DEF loader
<1>11. \A r : ~ Stale(r) /\ ~ Stale(r)'
  BY <1>1, <1>5, NoneCloses DEF Stale, Busy, Adding, Opening, Closing
<1> QED
  BY <1>5, <1>6, <1>7, <1>9, <1>10, <1>11 DEF Busy

\* The thread where the program opens a library goes on.
LEMMA AddingGoesOn ==
  ASSUME WellBehaved, IInv, NEW t \in Threads, NEW l \in Libs, l = Lib(t), Adding(t),
         call' \in [Threads -> CallTypes], call'[t].at \in Opening, call'[t].lib = l,
         \A u \in Threads : u # t => call'[u] = call[u],
         OpeningOK(t)',
         \A k \in Mapped : k \in Mapped' /\ \A o \in Objects : Known(o, k) => Known(o, k)',
         UNCHANGED <<loader, opens, held, records, lookup>>
  PROVE  /\ LoaderOK' /\ RecordsOK' /\ HelpersOK' /\ CallsOK'
         /\ \A k \in Libs \ Helpers : Resting(k)' => RestOK(k)'
<1>1. /\ \A u \in Threads : u # t => ~ Busy(u)
      /\ l \in Plugins /\ l \notin Linked \cup Helpers
      /\ ~ Helping(t) /\ lookup[t].at = "idle"
      /\ \A k \in Libs \ Helpers : k # l => RestOK(k)
  BY OnlyBusy DEF Busy
<1>2. /\ Mapped' = Mapped /\ base' = base /\ handle' = handle /\ pinned' = pinned
  BY DEF loader, Mapped
<1>3. /\ \A u \in Threads : (Adding(u)' <=> Adding(u)) /\ Lib(u)' = Lib(u)
      /\ ~ Helping(t)' /\ Adding(t)'
  <2>1. \A u \in Threads : Resolving(u)' <=> Resolving(u)
    BY DEF Resolving
  <2>2. call[t].at \in Opening /\ ~ Resolving(t)
    BY DEF Adding
  <2> QED
    BY <2>1, <2>2 DEF Adding, Helping, Lib
<1>4. LoaderOK'
  BY <1>3, LoaderStays DEF IInv
<1>5. RecordsOK'
  <2>1. \A u \in Threads : call[u].at # "unrecord"
    BY NoneCloses DEF Adding, Closing
  <2> QED
    BY <1>2, <2>1, RecordsStay DEF IInv, RecordsOK
<1>6. HelpersOK'
  BY <1>1, <1>2, HelpersStay
<1>7. CallOK(t)'
  BY <1>1, <1>3 DEF CallOK, Lib, LookingUp, Opening
<1>8. CallsOK'
  <2>1. call'[t].at \notin Closing
    BY DEF Opening, Closing
  <2> QED
    BY <1>1, <1>7, <2>1, CallsGoOn
<1>9. ASSUME NEW k \in Libs \ Helpers, Resting(k)' PROVE RestOK(k)'
  <2>1. k # l
    BY <1>3, <1>9 DEF Resting, Busy
  <2>2. RestOK(k)
    BY <1>1, <2>1
  <2> QED
    BY <1>2, <2>2 DEF RestOK, Recorded
<1> QED
  BY <1>4, <1>5, <1>6, <1>8, <1>9

\* The record counts one reference more.
LEMMA ReferencedRecord ==
  ASSUME NEW r \in Records, NEW d \in BOOLEAN
  PROVE  /\ Referenced(r, d) \in Records
         /\ Referenced(r, d).refcount_ = r.refcount_ + 1
         /\ Referenced(r, d).object_file_ = r.object_file_
         /\ Referenced(r, d).nodelete <=> (r.nodelete \/ d)
<1> DEFINE n == Counts(r.refcount_)
<1>1. n \in Nat /\ n = r.refcount_ + 1
  BY DEF Counts, Records
<1> HIDE DEF n
<1>2. Referenced(r, d) = [r EXCEPT !.refcount_ = n, !.nodelete = @ \/ d]
  BY DEF Referenced, n
<1> QED
  BY <1>1, <1>2 DEF Records

\* The record of h counts one reference more.
LEMMA CountedRecord ==
  ASSUME NEW f \in [Handles -> Records], NEW h \in Handles, NEW d \in BOOLEAN, NEW g,
         g = [f EXCEPT ![h] = Referenced(@, d)]
  PROVE  /\ g[h].refcount_ = f[h].refcount_ + 1 /\ g[h].object_file_ = f[h].object_file_
         /\ g[h].nodelete <=> (f[h].nodelete \/ d)
         /\ \A k \in Handles : k # h => g[k] = f[k]
         /\ g \in [Handles -> Records]
<1>1. f[h] \in Records
  OBVIOUS
<1>2. g \in [Handles -> Records] /\ g[h] = Referenced(f[h], d)
  BY <1>1, ReferencedRecord
<1> QED
  BY <1>1, <1>2, ReferencedRecord

\* The library is in dlopen_map: its record counts the reference.
LEMMA RecordKeeps ==
  ASSUME WellBehaved, IInv, NEW t \in Threads, NEW l \in Libs, l = Lib(t), NEW h, h = handle[l],
         Adding(t), Record(t), records[h] # NoRecord
  PROVE  IInv'
<1>1. /\ call[t].at = "opened" /\ Returns(t)
      /\ records' = [records EXCEPT ![h] = Referenced(@, call[t].nodelete)]
      /\ UNCHANGED <<loader, ranges, objects, lbase_, lookup, aborted>>
  BY DEF Record, At, filevars
<1>2. /\ l \in Mapped /\ OpeningOK(t) /\ l \notin Helpers
      /\ \A k \in Libs \ Helpers : k # l => RestOK(k)
      /\ \A u \in Threads : call[u].at # "unrecord"
  BY OnlyBusy, NoneCloses DEF Busy, Adding, Closing, IInv, CallsOK, CallOK, OpeningOK
<1>3. opens[l] \in Nat /\ opens[l] # 0 /\ opens[l] > 0 /\ h \in Handles
  BY <1>1, <1>2 DEF OpeningOK, IInv, LoaderOK, Places, References
<1>4. PICK o \in Objects : Known(o, l) /\ Recorded(h, opens[l], o)
  BY <1>1, <1>2, <1>3 DEF OpeningOK
<1>5. /\ records'[h].refcount_ = opens[l] + 1 /\ records'[h].object_file_ = o
      /\ records'[h].nodelete <=> (records[h].nodelete \/ call[t].nodelete)
      /\ \A g \in Handles : g # h => records'[g] = records[g]
      /\ records' \in [Handles -> Records]
  <2>1. call[t].nodelete \in BOOLEAN /\ records \in [Handles -> Records]
    BY DEF IInv, CallsOK, CallTypes, RecordsOK
  <2>2. records' = [records EXCEPT ![h] = Referenced(@, call[t].nodelete)]
    BY <1>1
  <2>3. /\ records'[h].refcount_ = records[h].refcount_ + 1
        /\ records'[h].object_file_ = records[h].object_file_
        /\ records'[h].nodelete <=> (records[h].nodelete \/ call[t].nodelete)
        /\ \A g \in Handles : g # h => records'[g] = records[g]
        /\ records' \in [Handles -> Records]
    BY <1>3, <2>1, <2>2, CountedRecord
  <2> QED
    BY <1>4, <2>3 DEF Recorded
<1>6. ASSUME NEW k \in Mapped, k # l
      PROVE  handle[k] \in Handles /\ handle[k] # h /\ records'[handle[k]] = records[handle[k]]
  <2>1. handle[k] \in Handles /\ handle[k] # h
    BY <1>2, <1>6 DEF IInv, LoaderOK, Places, Mapped
  <2> QED
    BY <1>5, <2>1
<1>7. /\ \A u \in Threads : ~ Busy(u)' /\ call'[u].at \notin Closing
      /\ opens'[l] = opens[l] + 1
      /\ \A k \in Libs : k # l => opens'[k] = opens[k]
      /\ LoaderOK' /\ CallsOK' /\ HelpersOK'
      /\ \A r : ~ Stale(r) /\ ~ Stale(r)'
  BY <1>1, <1>2, <1>6, Returned
<1>8. RangesOK'
  BY <1>1, <1>7, SameLibrary, RangesStay
<1>9. RecordsOK'
  BY <1>1, <1>2, <1>3, <1>5, SameLibrary, RecordsStay DEF loader
<1>10. RestOK(l)'
  BY <1>1, <1>2, <1>3, <1>4, <1>5, <1>7, SameLibrary DEF RestOK, OpeningOK, Recorded, loader
<1>11. ASSUME NEW k \in Libs \ Helpers, k # l PROVE RestOK(k)'
  BY <1>1, <1>2, <1>6, <1>7, <1>11, SameLibrary DEF RestOK, Recorded, loader
<1> QED
  BY <1>1, <1>7, <1>8, <1>9, <1>10, <1>11 DEF IInv

\* The library is not in dlopen_map.
LEMMA RecordNewKeeps ==
  ASSUME WellBehaved, IInv, NEW t \in Threads, NEW l \in Libs, l = Lib(t), NEW h, h = handle[l],
         Adding(t), Record(t), records[h] = NoRecord
  PROVE  IInv'
<1>1. /\ call[t].at = "opened" /\ Goto(t, "register")
      /\ UNCHANGED <<loader, opens, held, records, ranges, objects, lbase_, lookup, aborted>>
  BY DEF Record, At, filevars
<1>2. /\ call' \in [Threads -> CallTypes]
      /\ call'[t].at = "register" /\ call'[t].lib = l /\ call'[t].nodelete = call[t].nodelete
      /\ \A u \in Threads : u # t => call'[u] = call[u]
  BY <1>1, GoesTo DEF IInv, Opening
<1>3. OpeningOK(t) /\ opens[l] \in Nat
  BY DEF IInv, CallsOK, CallOK, LoaderOK, References
<1>4. opens[l] = 0
  BY <1>1, <1>3 DEF OpeningOK, Recorded, NoRecord
<1>5. OpeningOK(t)'
  BY <1>1, <1>2, <1>3, <1>4, SameLibrary DEF OpeningOK, Lib, loader
<1>6. call'[t].at \in Opening /\ call'[t].at \notin Closing
  BY <1>2 DEF Opening, Closing
<1>7. /\ LoaderOK' /\ RecordsOK' /\ HelpersOK' /\ CallsOK'
      /\ \A k \in Libs \ Helpers : Resting(k)' => RestOK(k)'
  BY <1>1, <1>2, <1>5, <1>6, SameLibrary, AddingGoesOn
<1>8. \A r : ~ Stale(r) /\ ~ Stale(r)'
  BY <1>2, <1>6, NoneCloses DEF Adding, Stale, Closing
<1>9. RangesOK'
  BY <1>1, <1>8, SameLibrary, RangesStay
<1> QED
  BY <1>1, <1>7, <1>9 DEF IInv

\* The ObjectFile of a library that is registered already, or a new one.
LEMMA RegisterKeeps ==
  ASSUME WellBehaved, IInv, NEW t \in Threads, NEW l \in Libs, l = Lib(t), Adding(t), Register(t)
  PROVE  IInv'
<1>1. /\ call[t].at = "register" /\ l \in Mapped
      /\ UNCHANGED <<loader, opens, held, records, lookup>>
  BY NoneCloses DEF Register, At, Adding
<1>2. PICK o \in Objects :
        /\ Enter(t, Call("emplace", l, call[t].nodelete, o))
        /\ \/ o \in Registered(base[l]) /\ UNCHANGED <<ranges, objects, lbase_, aborted>>
           \/ /\ Registered(base[l]) = {} /\ o \notin objects
              /\ objects' = objects \cup {o}
              /\ lbase_' = [lbase_ EXCEPT ![o] = base[l]]
              /\ ranges' = ranges \cup {Range(o, l)}
              /\ aborted' = \E r \in ranges : r.start < base[l] + Size[l] /\ base[l] < r.end
  BY <1>1, RegisteredIsKnown DEF Register, Adding, filevars, Known
<1> DEFINE c == Call("emplace", l, call[t].nodelete, o)
<1>3. c \in CallTypes
  BY DEF IInv, CallsOK, CallTypes, Call, Opening
<1>4. /\ call' \in [Threads -> CallTypes] /\ call'[t] = c
      /\ \A u \in Threads : u # t => call'[u] = call[u]
  BY <1>2, <1>3, CallBecomes DEF IInv
<1>5. /\ call'[t].at = "emplace" /\ call'[t].lib = l /\ call'[t].nodelete = call[t].nodelete
      /\ call'[t].object = o
  BY <1>4 DEF Call
<1>6. \A u \in Threads : call[u].at \notin Closing /\ call'[u].at \notin Closing
  BY <1>4, <1>5, NoneCloses DEF Adding, Closing
<1>7. /\ RangesOK' /\ aborted' = FALSE /\ Known(o, l)'
      /\ \A k \in Mapped : k \in Mapped' /\ \A q \in Objects : Known(q, k) => Known(q, k)'
  <2>1. CASE o \in Registered(base[l]) /\ UNCHANGED <<ranges, objects, lbase_, aborted>>
    <3>1. Known(o, l)
      BY <1>1, <2>1, RegisteredIsKnown DEF Adding
    <3>2. \A r : ~ Stale(r) /\ ~ Stale(r)'
      BY <1>6 DEF Stale, Closing
    <3> QED
      BY <1>1, <2>1, <3>1, <3>2, SameLibrary, RangesStay DEF IInv
  <2>2. CASE /\ Registered(base[l]) = {} /\ o \notin objects
             /\ objects' = objects \cup {o}
             /\ lbase_' = [lbase_ EXCEPT ![o] = base[l]]
             /\ ranges' = ranges \cup {Range(o, l)}
             /\ aborted' = \E r \in ranges : r.start < base[l] + Size[l] /\ base[l] < r.end
    BY <1>1, <1>6, <2>2, NewRange DEF Adding
  <2> QED
    BY <1>2, <2>1, <2>2
<1>8. OpeningOK(t)'
  <2>1. OpeningOK(t)
    BY DEF IInv, CallsOK, CallOK
  <2>2. Mapped' = Mapped /\ handle' = handle /\ pinned' = pinned
    BY <1>1 DEF loader, Mapped
  <2> QED
    BY <1>1, <1>5, <1>7, <2>1, <2>2 DEF OpeningOK, Lib
<1>9. call'[t].at \in Opening
  BY <1>5 DEF Opening
<1>10. /\ LoaderOK' /\ RecordsOK' /\ HelpersOK' /\ CallsOK'
       /\ \A k \in Libs \ Helpers : Resting(k)' => RestOK(k)'
  BY <1>1, <1>4, <1>5, <1>7, <1>8, <1>9, AddingGoesOn
<1> QED
  BY <1>7, <1>10 DEF IInv

\* The record of the library is made, with one reference.
LEMMA EmplaceKeeps ==
  ASSUME WellBehaved, IInv, NEW t \in Threads, NEW l \in Libs, l = Lib(t), NEW h, h = handle[l],
         Adding(t), Emplace(t)
  PROVE  IInv'
<1> DEFINE o == call[t].object
           n == [refcount_ |-> 1, nodelete |-> call[t].nodelete, object_file_ |-> o]
<1>1. /\ call[t].at = "emplace" /\ OpeningOK(t) /\ l \notin Helpers
      /\ \A k \in Libs \ Helpers : k # l => RestOK(k)
      /\ \A u \in Threads : call[u].at # "unrecord"
  BY OnlyBusy, NoneCloses DEF Emplace, At, Busy, Adding, Closing, IInv, CallsOK, CallOK
<1>2. /\ l \in Mapped /\ opens[l] = 0 /\ records[h] = NoRecord /\ Known(o, l) /\ o \in Objects
      /\ call[t].nodelete \in BOOLEAN /\ (call[t].nodelete <=> l \in pinned)
      /\ h \in Handles
  BY <1>1 DEF OpeningOK, Known, IInv, CallsOK, CallTypes, LoaderOK, Places
<1>3. /\ records' = [records EXCEPT ![h] = n] /\ Returns(t)
      /\ UNCHANGED <<loader, ranges, objects, lbase_, lookup, aborted>>
  BY <1>2 DEF Emplace, filevars
<1>4. n \in Records /\ n.refcount_ = 1 /\ n.nodelete = call[t].nodelete /\ n.object_file_ = o
  BY <1>2 DEF Records
<1>5. /\ records' \in [Handles -> Records] /\ records'[h] = n
      /\ \A g \in Handles : g # h => records'[g] = records[g]
  BY <1>2, <1>3, <1>4 DEF IInv, RecordsOK
<1>6. ASSUME NEW k \in Mapped, k # l
      PROVE  handle[k] \in Handles /\ handle[k] # h /\ records'[handle[k]] = records[handle[k]]
  <2>1. handle[k] \in Handles /\ handle[k] # h
    BY <1>2, <1>6 DEF IInv, LoaderOK, Places, Mapped
  <2> QED
    BY <1>5, <2>1
<1>7. /\ \A u \in Threads : ~ Busy(u)' /\ call'[u].at \notin Closing
      /\ opens'[l] = 1
      /\ \A k \in Libs : k # l => opens'[k] = opens[k]
      /\ LoaderOK' /\ CallsOK' /\ HelpersOK'
      /\ \A r : ~ Stale(r) /\ ~ Stale(r)'
  BY <1>1, <1>2, <1>3, <1>6, Returned
<1>8. RangesOK'
  BY <1>3, <1>7, SameLibrary, RangesStay
<1>9. RecordsOK'
  BY <1>1, <1>2, <1>3, <1>5, SameLibrary, RecordsStay DEF loader
<1>10. RestOK(l)'
  BY <1>2, <1>3, <1>4, <1>5, <1>7, SameLibrary DEF RestOK, Recorded, loader
<1>11. ASSUME NEW k \in Libs \ Helpers, k # l PROVE RestOK(k)'
  BY <1>1, <1>3, <1>6, <1>7, <1>11, SameLibrary DEF RestOK, Recorded, loader
<1> QED
  BY <1>3, <1>7, <1>8, <1>9, <1>10, <1>11 DEF IInv
-----------------------------------------------------------------------------
(***************************************************************************)
(* Opening, by libdw.                                                      *)
(***************************************************************************)

\* What a call of libdw leaves alone: the calls and the libraries of the program.
LEMMA HelpingKeeps ==
  ASSUME WellBehaved, IInv, NEW t \in Threads, Resolving(t), call[t].at \in Opening \cup {"idle"},
         \A u \in Threads : call[u].at \notin Closing,
         call' \in [Threads -> CallTypes], call'[t].at \in Opening \cup {"idle"},
         \A u \in Threads : u # t => call'[u] = call[u],
         Helping(t)' => HelpingOK(t)',
         held \subseteq held', Mapped' \subseteq Mapped \cup Helpers,
         \A k \in Mapped : /\ k \in Mapped' /\ handle'[k] = handle[k]
                           /\ \A o \in Objects : Known(o, k) => Known(o, k)',
         \A k \in Mapped \ Helpers : records'[handle[k]] = records[handle[k]],
         UNCHANGED <<opens, pinned, lookup>>
  PROVE  /\ \A u \in Threads : /\ call'[u].at \notin Closing
                               /\ (Adding(u)' <=> Adding(u)) /\ (Adding(u) => Lib(u)' = Lib(u))
         /\ CallsOK'
         /\ \A k \in Libs \ Helpers : Resting(k)' => RestOK(k)'
<1>1. ASSUME NEW u \in Threads
      PROVE  /\ call'[u].at \notin Closing
             /\ (Adding(u)' <=> Adding(u)) /\ (Adding(u) => Lib(u)' = Lib(u))
             /\ (Busy(u)' <=> Adding(u)) /\ (Busy(u) <=> Adding(u))
  <2>1. call'[t].at \notin Closing
    BY DEF Opening, Closing
  <2>2. ~ Adding(t) /\ ~ Adding(t)'
    BY DEF Adding, Resolving
  <2>3. u # t => (Adding(u)' <=> Adding(u)) /\ Lib(u)' = Lib(u) /\ call'[u].at \notin Closing
    BY DEF Adding, Resolving, Lib
  <2> QED
    BY <2>1, <2>2, <2>3 DEF Busy
<1>2. ASSUME NEW u \in Threads PROVE CallOK(u)'
  <2>1. CallOK(u)
    BY DEF IInv, CallsOK
  <2>2. ASSUME Adding(u) PROVE OpeningOK(u)'
    <3>1. u # t
      BY <2>2 DEF Adding
    <3>2. OpeningOK(u) /\ Lib(u) \in Plugins
      BY <2>1, <2>2 DEF CallOK, Busy
    <3>3. Lib(u) \in Mapped \ Helpers
      BY <3>2 DEF OpeningOK, WellBehaved
    <3>4. /\ call'[u] = call[u] /\ Lib(u)' = Lib(u) /\ handle'[Lib(u)] = handle[Lib(u)]
          /\ records'[handle[Lib(u)]] = records[handle[Lib(u)]] /\ Lib(u) \in Mapped'
          /\ \A o \in Objects : Known(o, Lib(u)) => Known(o, Lib(u))'
      BY <3>1, <3>3 DEF Lib
    <3> QED
      BY <3>2, <3>4 DEF OpeningOK, Recorded, Known
  <2>3. Helping(u)' => HelpingOK(u)'
    <3>1. u # t => (Helping(u)' <=> Helping(u))
      BY DEF Helping, Resolving
    <3> QED
      BY <3>1, HelpingStays
  <2>4. lookup'[u].at \in LookingUp => LookingUpOK(u)'
    BY LookingStays
  <2>5. Busy(u)' => Lib(u)' \in Plugins /\ lookup'[u].at = "idle"
    BY <1>1, <2>1 DEF CallOK
  <2> QED
    BY <1>1, <2>1, <2>2, <2>3, <2>4, <2>5 DEF CallOK, Closing
<1>3. CallsOK'
  <2>1. \A u, v \in Threads : Busy(u)' /\ Busy(v)' => u = v
    BY <1>1 DEF IInv, CallsOK
  <2>2. lookup' \in [Threads -> LookupTypes]
    BY DEF IInv, CallsOK
  <2> QED
    BY <1>1, <1>2, <2>1, <2>2 DEF CallsOK, CallTypes, LookupTypes
<1>4. ASSUME NEW k \in Libs \ Helpers, Resting(k)' PROVE RestOK(k)'
  <2>1. Resting(k)
    BY <1>1, <1>4 DEF Resting
  <2>2. RestOK(k) /\ (k \in Mapped' <=> k \in Mapped)
    BY <2>1, <1>4 DEF IInv
  <2>3. CASE k \in Mapped
    BY <1>4, <2>2, <2>3 DEF RestOK, Recorded
  <2>4. CASE k \notin Mapped
    BY <2>2, <2>4 DEF RestOK
  <2> QED
    BY <2>3, <2>4
<1> QED
  BY <1>1, <1>3, <1>4

\* A call of libdw has a library of libdw, that is mapped.
LEMMA HelpingFacts ==
  ASSUME WellBehaved, IInv, NEW t \in Threads, Helping(t)
  PROVE  /\ Lib(t) \in Helpers /\ Lib(t) \in Mapped /\ Lib(t) \in Libs
         /\ call[t].at = "emplace" => Known(call[t].object, Lib(t))
         /\ Resolving(t) /\ call[t].at \in Opening
         /\ \A u \in Threads : call[u].at \notin Closing
         /\ \A r : ~ Stale(r)
<1>1. HelpingOK(t)
  BY DEF IInv, CallsOK, CallOK
<1> QED
  BY <1>1, NoneCloses DEF Helping, HelpingOK

\* Other calls of libdw, in the step of one.
LEMMA OtherHelpers ==
  ASSUME NEW t \in Threads, NEW u \in Threads, u # t, call'[u] = call[u], lookup' = lookup,
         Helping(u)
  PROVE  Helping(u)' /\ Lib(u)' = Lib(u)
BY DEF Helping, Resolving, Lib

\* The real dlopen() of a library of libdw.
LEMMA HelperDlopenKeeps ==
  ASSUME WellBehaved, IInv, NEW t \in Threads, NEW l \in Helpers, HelperDlopen(t, l)
  PROVE  IInv'
<1> DEFINE c == Call("opened", l, FALSE, NULL)
<1>1. /\ call[t].at = "idle" /\ Resolving(t) /\ Opens(l, FALSE) /\ Enter(t, c)
      /\ \A u \in Threads : call[u].at \notin Closing
      /\ pinned' = pinned
      /\ UNCHANGED <<opens, held, records, ranges, objects, lbase_, lookup, aborted>>
  BY DEF HelperDlopen, At, Opens, WellBehaved, filevars
<1>2. l \in Libs
  BY LibsAssumption
<1>3. c \in CallTypes
  BY <1>2 DEF Call, CallTypes, Opening
<1>4. /\ call' \in [Threads -> CallTypes] /\ call'[t] = c
      /\ \A u \in Threads : u # t => call'[u] = call[u]
  BY <1>1, <1>3, CallBecomes DEF IInv
<1>5. call'[t].at = "opened" /\ call'[t].lib = l /\ call'[t].at \in Opening
  BY <1>4 DEF Call, Opening
<1>6. Helping(t)' /\ Lib(t)' = l
  BY <1>1, <1>5 DEF Helping, Resolving, Lib
<1>7. /\ Places' /\ Mapped' = Mapped \cup {l}
      /\ \A k \in Mapped : /\ base'[k] = base[k] /\ handle'[k] = handle[k]
                           /\ \A o : Range(o, k)' = Range(o, k)
      /\ handle'[l] \in Handles
      /\ l \notin Mapped => \A k \in Mapped : handle[k] # handle'[l]
      /\ refs' \in [Libs -> Nat] /\ refs'[l] = refs[l] + 1
      /\ \A k \in Libs : k # l => refs'[k] = refs[k]
  BY <1>1, <1>2, OpensLibrary DEF IInv
<1>8. \A k \in Mapped : \A o : Known(o, k)' <=> Known(o, k)
  BY <1>1, <1>7 DEF Known
<1>9. HelpingOK(t)'
  BY <1>5, <1>6, <1>7 DEF HelpingOK
<1>10. /\ \A u \in Threads : /\ call'[u].at \notin Closing
                             /\ (Adding(u)' <=> Adding(u)) /\ (Adding(u) => Lib(u)' = Lib(u))
       /\ CallsOK'
       /\ \A k \in Libs \ Helpers : Resting(k)' => RestOK(k)'
  BY <1>1, <1>4, <1>5, <1>7, <1>8, <1>9, HelpingKeeps
<1>11. LoaderOK'
  <2>1. \A u \in Threads : Adding(u) => Lib(u) \in Libs /\ Lib(u) # l
    BY OnlyBusy DEF Busy
  <2>2. References'
    BY <1>1, <1>7, <1>10, <2>1 DEF IInv, LoaderOK, References
  <2> QED
    BY <1>7, <2>2 DEF LoaderOK
<1>12. \A r : ~ Stale(r) /\ ~ Stale(r)'
  BY <1>1, <1>10 DEF Stale, Closing
<1>13. RangesOK'
  BY <1>1, <1>7, <1>12, RangesStay
<1>14. RecordsOK'
  <2>1. \A u \in Threads : call[u].at # "unrecord"
    BY <1>1 DEF Closing
  <2>2. records' \in [Handles -> Records] /\ records' = records
    BY <1>1 DEF IInv, RecordsOK
  <2> QED
    BY <1>7, <2>1, <2>2, RecordsStay
<1>15. HelpersOK'
  <2>1. held' \subseteq Helpers \cap Mapped'
    BY <1>1, <1>7 DEF IInv, HelpersOK
  <2>2. ASSUME NEW k \in Helpers \cap Mapped'
        PROVE  \/ \E o \in Objects : Known(o, k)'
               \/ k \notin Linked \cup held' /\ \E u \in Threads : Helping(u)' /\ Lib(u)' = k
    <3>1. CASE k \in Mapped
      <4>1. ASSUME NEW u \in Threads, Helping(u), Lib(u) = k
            PROVE  Helping(u)' /\ Lib(u)' = k
        <5>1. u # t
          BY <1>1, <4>1 DEF Helping, Opening
        <5> QED
          BY <1>1, <1>4, <4>1, <5>1, OtherHelpers
      <4> QED
        BY <1>1, <1>8, <3>1, <4>1 DEF IInv, HelpersOK
    <3>2. CASE k \notin Mapped
      <4>1. k = l /\ k \notin Linked \cup held
        BY <1>7, <3>2 DEF IInv, HelpersOK, LoaderOK, Places
      <4> QED
        BY <1>1, <1>6, <4>1
    <3> QED
      BY <3>1, <3>2
  <2>3. ASSUME NEW k \in Helpers \cap Mapped'
        PROVE  (records[handle[k]] # NoRecord => Known(records[handle[k]].object_file_, k))'
    <3>1. CASE k \in Mapped
      <4>1. records[handle[k]] # NoRecord => Known(records[handle[k]].object_file_, k)
        BY <3>1 DEF IInv, HelpersOK
      <4> QED
        BY <1>1, <1>7, <3>1, <4>1 DEF Known
    <3>2. CASE k \notin Mapped
      <4>1. k = l
        BY <1>7, <3>2
      <4>2. records[handle'[l]] = NoRecord
        BY <1>1, <1>7, <3>2, <4>1 DEF IInv, RecordsOK, Closing
      <4> QED
        BY <1>1, <4>1, <4>2
    <3> QED
      BY <3>1, <3>2
  <2> QED
    BY <2>1, <2>2, <2>3 DEF HelpersOK
<1> QED
  BY <1>1, <1>10, <1>11, <1>13, <1>14, <1>15 DEF IInv

\* What is left to show of the other steps of a call of libdw.
LEMMA HelpingGoesOn ==
  ASSUME WellBehaved, IInv, NEW t \in Threads, NEW l \in Libs, l = Lib(t), NEW h, h = handle[l],
         Helping(t),
         call' \in [Threads -> CallTypes],
         \A u \in Threads : u # t => call'[u] = call[u],
         \/ call'[t].at = "idle" /\ held' = held \cup {l} /\ \E o \in Objects : Known(o, l)'
         \/ /\ call'[t].at \in Opening /\ call'[t].lib = l /\ held' = held
            /\ call'[t].at = "emplace" => Known(call[t].object, l)',
         \A k \in Mapped : \A o \in Objects : Known(o, k) => Known(o, k)',
         records' \in [Handles -> Records],
         \A g \in Handles : g # h => records'[g] = records[g],
         (records[h] # NoRecord => Known(records[h].object_file_, l))',
         RangesOK', aborted' = FALSE,
         UNCHANGED <<loader, opens, lookup>>
  PROVE  IInv'
<1>1. /\ l \in Helpers /\ l \in Mapped /\ Resolving(t) /\ call[t].at \in Opening
      /\ \A u \in Threads : call[u].at \notin Closing
  BY HelpingFacts
<1>2. /\ Mapped' = Mapped /\ handle' = handle /\ pinned' = pinned
  BY DEF loader, Mapped
<1>3. /\ call'[t].at \in Opening \cup {"idle"} /\ held \subseteq held'
      /\ call'[t].at \in Opening => call'[t].lib = l /\ held' = held
      /\ Helping(t)' => HelpingOK(t)'
  BY <1>1, <1>2 DEF Helping, HelpingOK, Lib, Opening
<1>4. ASSUME NEW k \in Mapped, k # l
      PROVE  handle[k] \in Handles /\ handle[k] # h /\ records'[handle[k]] = records[handle[k]]
  <2>1. handle[k] \in Handles /\ handle[k] # h
    BY <1>1, <1>4 DEF IInv, LoaderOK, Places, Mapped
  <2> QED
    BY <2>1
<1>5. /\ \A u \in Threads : /\ call'[u].at \notin Closing
                            /\ (Adding(u)' <=> Adding(u)) /\ (Adding(u) => Lib(u)' = Lib(u))
      /\ CallsOK'
      /\ \A k \in Libs \ Helpers : Resting(k)' => RestOK(k)'
  BY <1>1, <1>2, <1>3, <1>4, HelpingKeeps
<1>6. LoaderOK'
  BY <1>5, LoaderStays DEF IInv
<1>7. RecordsOK'
  <2>1. \A u \in Threads : call[u].at # "unrecord"
    BY <1>1 DEF Closing
  <2>2. h \in Handles
    BY <1>1 DEF IInv, LoaderOK, Places, Mapped
  <2> QED
    BY <1>1, <1>2, <2>1, <2>2, RecordsStay
<1>8. HelpersOK'
  <2>1. held' \subseteq Helpers \cap Mapped'
    BY <1>1, <1>2 DEF IInv, HelpersOK
  <2>2. ASSUME NEW k \in Helpers \cap Mapped'
        PROVE  \/ \E o \in Objects : Known(o, k)'
               \/ k \notin Linked \cup held' /\ \E u \in Threads : Helping(u)' /\ Lib(u)' = k
    <3>1. ASSUME NEW u \in Threads, Helping(u), Lib(u) = k, u # t PROVE Helping(u)' /\ Lib(u)' = k
      BY <3>1, OtherHelpers
    <3>2. CASE k # l
      BY <1>2, <3>1, <3>2 DEF IInv, HelpersOK
    <3>3. CASE k = l /\ call'[t].at = "idle"
      BY <3>3 DEF Opening
    <3>4. CASE k = l /\ call'[t].at \in Opening
      <4>1. Helping(t)' /\ Lib(t)' = k
        BY <1>1, <1>3, <3>4 DEF Helping, Resolving, Lib
      <4> QED
        BY <1>2, <1>3, <3>4, <4>1 DEF IInv, HelpersOK
    <3> QED
      BY <1>3, <3>2, <3>3, <3>4
  <2>3. ASSUME NEW k \in Helpers \cap Mapped'
        PROVE  (records[handle[k]] # NoRecord => Known(records[handle[k]].object_file_, k))'
    <3>1. CASE k = l
      BY <1>2, <3>1
    <3>2. CASE k # l
      <4>1. records[handle[k]] # NoRecord => Known(records[handle[k]].object_file_, k)
        BY <1>2 DEF IInv, HelpersOK
      <4>2. records'[handle'[k]] = records[handle[k]]
        BY <1>2, <1>4, <3>2
      <4>3. \A o \in Objects : Known(o, k) => Known(o, k)'
        BY <1>2
      <4> QED
        BY <4>1, <4>2, <4>3 DEF Known
    <3> QED
      BY <3>1, <3>2
  <2> QED
    BY <2>1, <2>2, <2>3 DEF HelpersOK
<1> QED
  BY <1>5, <1>6, <1>7, <1>8 DEF IInv

\* The library is in dlopen_map, or not.
LEMMA HelperRecordKeeps ==
  ASSUME WellBehaved, IInv, NEW t \in Threads, NEW l \in Libs, l = Lib(t), NEW h, h = handle[l],
         Helping(t), Record(t)
  PROVE  IInv'
<1>1. /\ l \in Helpers /\ l \in Mapped /\ Resolving(t) /\ \A r : ~ Stale(r)
      /\ \A u \in Threads : call[u].at \notin Closing
  BY HelpingFacts
<1>2. /\ call[t].at = "opened" /\ aborted' = FALSE
      /\ UNCHANGED <<loader, ranges, objects, lbase_, lookup>>
  BY DEF Record, At, filevars, IInv
<1>3. h \in Handles /\ records \in [Handles -> Records] /\ NoRecord \in Records
  BY <1>1 DEF IInv, LoaderOK, Places, RecordsOK, Mapped, NoRecord, Records
<1>4. /\ handle' = handle /\ Mapped' = Mapped /\ \A o, k : Known(o, k)' <=> Known(o, k)
  BY <1>2, SameLibrary DEF loader
<1>5. records[h] # NoRecord => Known(records[h].object_file_, l)
  BY <1>1 DEF IInv, HelpersOK
<1>6. CASE records[h] # NoRecord
  <2>1. /\ Enter(t, Idle) /\ held' = held \cup {l} /\ opens' = opens
        /\ records' = [records EXCEPT ![h] = Referenced(@, call[t].nodelete)]
    BY <1>1, <1>6 DEF Record, Returns
  <2>2. Idle \in CallTypes /\ Idle.at = "idle"
    BY DEF Idle, Call, CallTypes
  <2>3. /\ call' \in [Threads -> CallTypes] /\ call'[t].at = "idle"
        /\ \A u \in Threads : u # t => call'[u] = call[u]
    BY <2>1, <2>2, CallBecomes DEF IInv
  <2>4. call[t].nodelete \in BOOLEAN
    BY DEF IInv, CallsOK, CallTypes
  <2>5. /\ records'[h].object_file_ = records[h].object_file_
        /\ \A g \in Handles : g # h => records'[g] = records[g]
        /\ records' \in [Handles -> Records]
    BY <1>3, <2>1, <2>4, CountedRecord
  <2>6. RangesOK'
    <3>1. \A r : ~ Stale(r)'
      BY <1>1, <2>3 DEF Stale, Closing
    <3> QED
      BY <1>1, <1>2, <3>1, SameLibrary, RangesStay
  <2>7. \E o \in Objects : Known(o, l)'
    BY <1>4, <1>5, <1>6 DEF Known
  <2>8. (records[h] # NoRecord => Known(records[h].object_file_, l))'
    BY <1>2, <1>5, <1>6, <2>5, SameLibrary DEF Known, loader
  <2>9. \A k \in Mapped : \A o \in Objects : Known(o, k) => Known(o, k)'
    BY <1>4
  <2>10. call'[t].at = "idle" /\ held' = held \cup {l} /\ \E o \in Objects : Known(o, l)'
    BY <2>1, <2>3, <2>7
  <2>11. UNCHANGED <<loader, opens, lookup>>
    BY <1>2, <2>1
  <2> QED
    BY <1>2, <2>3, <2>5, <2>6, <2>8, <2>9, <2>10, <2>11, HelpingGoesOn
<1>7. CASE records[h] = NoRecord
  <2>1. Goto(t, "register") /\ UNCHANGED <<records, opens, held>>
    BY <1>7 DEF Record
  <2>2. /\ call' \in [Threads -> CallTypes]
        /\ call'[t].at = "register" /\ call'[t].lib = l
        /\ \A u \in Threads : u # t => call'[u] = call[u]
    BY <2>1, GoesTo DEF IInv, Opening
  <2>3. RangesOK'
    <3>1. \A r : ~ Stale(r)'
      BY <1>1, <2>2 DEF Stale, Closing
    <3> QED
      BY <1>1, <1>2, <3>1, SameLibrary, RangesStay
  <2>4. call'[t].at \in Opening /\ call'[t].at # "emplace"
    BY <2>2 DEF Opening
  <2>5. (records[h] # NoRecord => Known(records[h].object_file_, l))'
    BY <1>2, <1>7, <2>1 DEF loader
  <2> QED
    BY <1>2, <1>3, <1>4, <2>1, <2>2, <2>3, <2>4, <2>5, HelpingGoesOn
<1> QED
  BY <1>6, <1>7

LEMMA HelperRegisterKeeps ==
  ASSUME WellBehaved, IInv, NEW t \in Threads, NEW l \in Libs, l = Lib(t), NEW h, h = handle[l],
         Helping(t), Register(t)
  PROVE  IInv'
<1>1. /\ l \in Helpers /\ l \in Mapped /\ Resolving(t) /\ call[t].at \in Opening
      /\ \A u \in Threads : call[u].at \notin Closing
      /\ \A r : ~ Stale(r)
  BY HelpingFacts
<1>2. /\ call[t].at = "register"
      /\ UNCHANGED <<loader, opens, held, records, lookup>>
  BY DEF Register, At
<1>3. PICK o \in Objects :
        /\ Enter(t, Call("emplace", l, call[t].nodelete, o))
        /\ \/ o \in Registered(base[l]) /\ UNCHANGED <<ranges, objects, lbase_, aborted>>
           \/ /\ Registered(base[l]) = {} /\ o \notin objects
              /\ objects' = objects \cup {o}
              /\ lbase_' = [lbase_ EXCEPT ![o] = base[l]]
              /\ ranges' = ranges \cup {Range(o, l)}
              /\ aborted' = \E r \in ranges : r.start < base[l] + Size[l] /\ base[l] < r.end
  BY <1>1, RegisteredIsKnown DEF Register, filevars, Known
<1> DEFINE c == Call("emplace", l, call[t].nodelete, o)
<1>4. c \in CallTypes
  BY DEF IInv, CallsOK, CallTypes, Call, Opening
<1>5. /\ call' \in [Threads -> CallTypes] /\ call'[t] = c
      /\ \A u \in Threads : u # t => call'[u] = call[u]
  BY <1>3, <1>4, CallBecomes DEF IInv
<1>6. /\ call'[t].at = "emplace" /\ call'[t].lib = l /\ call'[t].object = o
      /\ call'[t].at \in Opening
  BY <1>5 DEF Call, Opening
<1>7. \A u \in Threads : call'[u].at \notin Closing
  BY <1>1, <1>5, <1>6 DEF Closing
<1>8. /\ RangesOK' /\ aborted' = FALSE /\ Known(o, l)'
      /\ \A k \in Mapped : k \in Mapped' /\ \A q \in Objects : Known(q, k) => Known(q, k)'
  <2>1. CASE o \in Registered(base[l]) /\ UNCHANGED <<ranges, objects, lbase_, aborted>>
    <3>1. Known(o, l)
      BY <1>1, <2>1, RegisteredIsKnown
    <3>2. \A r : ~ Stale(r) /\ ~ Stale(r)'
      BY <1>1, <1>7 DEF Stale, Closing
    <3> QED
      BY <1>2, <2>1, <3>1, <3>2, SameLibrary, RangesStay DEF IInv
  <2>2. CASE /\ Registered(base[l]) = {} /\ o \notin objects
             /\ objects' = objects \cup {o}
             /\ lbase_' = [lbase_ EXCEPT ![o] = base[l]]
             /\ ranges' = ranges \cup {Range(o, l)}
             /\ aborted' = \E r \in ranges : r.start < base[l] + Size[l] /\ base[l] < r.end
    BY <1>1, <1>2, <1>7, <2>2, NewRange
  <2> QED
    BY <1>3, <2>1, <2>2
<1>9. call'[t].at = "emplace" => Known(call[t].object, l)'
  BY <1>6, <1>8 DEF Known
<1>10. records' \in [Handles -> Records] /\ \A g \in Handles : g # h => records'[g] = records[g]
  BY <1>2 DEF IInv, RecordsOK
<1>11. (records[h] # NoRecord => Known(records[h].object_file_, l))'
  <2>1. records[h] # NoRecord => Known(records[h].object_file_, l)
    BY <1>1 DEF IInv, HelpersOK
  <2>2. records' = records /\ handle' = handle
    BY <1>2 DEF loader
  <2> QED
    BY <1>1, <1>8, <2>1, <2>2 DEF Known
<1>12. \A k \in Mapped : \A q \in Objects : Known(q, k) => Known(q, k)'
  BY <1>8
<1>13. /\ call'[t].at \in Opening /\ call'[t].lib = l /\ held' = held
       /\ call'[t].at = "emplace" => Known(call[t].object, l)'
  BY <1>2, <1>6, <1>9
<1> QED
  BY <1>2, <1>5, <1>8, <1>10, <1>11, <1>12, <1>13, HelpingGoesOn

\* The record is made, unless another call of libdw made it meanwhile.
LEMMA HelperEmplaceKeeps ==
  ASSUME WellBehaved, IInv, NEW t \in Threads, NEW l \in Libs, l = Lib(t), NEW h, h = handle[l],
         Helping(t), Emplace(t)
  PROVE  IInv'
<1> DEFINE o == call[t].object
           n == [refcount_ |-> 1, nodelete |-> call[t].nodelete, object_file_ |-> o]
<1>1. /\ l \in Helpers /\ l \in Mapped /\ Resolving(t)
      /\ \A r : ~ Stale(r)
      /\ \A u \in Threads : call[u].at \notin Closing
  BY HelpingFacts
<1>2. /\ call[t].at = "emplace" /\ aborted' = FALSE
      /\ records' = IF records[h] # NoRecord THEN records ELSE [records EXCEPT ![h] = n]
      /\ Enter(t, Idle) /\ held' = held \cup {l} /\ opens' = opens
      /\ UNCHANGED <<loader, ranges, objects, lbase_, lookup>>
  BY <1>1 DEF Emplace, Returns, At, filevars, IInv
<1>3. Known(o, l) /\ o \in Objects
  BY <1>2, HelpingFacts DEF Known
<1>4. h \in Handles /\ records \in [Handles -> Records]
  BY <1>1 DEF IInv, LoaderOK, Places, RecordsOK, Mapped
<1>5. n \in Records /\ n.object_file_ = o
  BY <1>3 DEF IInv, CallsOK, CallTypes, Records
<1>6. Idle \in CallTypes /\ Idle.at = "idle"
  BY DEF Idle, Call, CallTypes
<1>7. /\ call' \in [Threads -> CallTypes] /\ call'[t].at = "idle"
      /\ \A u \in Threads : u # t => call'[u] = call[u]
  BY <1>2, <1>6, CallBecomes DEF IInv
<1>8. /\ records' \in [Handles -> Records]
      /\ \A g \in Handles : g # h => records'[g] = records[g]
  BY <1>2, <1>4, <1>5
<1>9. Mapped' = Mapped /\ handle' = handle /\ \A q, k : Known(q, k)' <=> Known(q, k)
  BY <1>2, SameLibrary DEF loader
<1>10. (records[h] # NoRecord => Known(records[h].object_file_, l))'
  <2>1. CASE records[h] # NoRecord
    <3>1. Known(records[h].object_file_, l) /\ records' = records
      BY <1>1, <1>2, <2>1 DEF IInv, HelpersOK
    <3> QED
      BY <1>2, <1>9, <3>1, SameLibrary DEF Known
  <2>2. CASE records[h] = NoRecord
    <3>1. records'[h] = n
      BY <1>2, <1>4, <2>2
    <3>2. records'[h].object_file_ = o /\ h' = h
      BY <1>5, <1>9, <3>1
    <3> QED
      BY <1>2, <1>3, <3>2, SameLibrary DEF Known
  <2> QED
    BY <2>1, <2>2
<1>11. RangesOK'
  <2>1. \A r : ~ Stale(r)'
    BY <1>1, <1>7 DEF Stale, Closing
  <2> QED
    BY <1>1, <1>2, <2>1, SameLibrary, RangesStay
<1>12. \E q \in Objects : Known(q, l)'
  BY <1>3, <1>9
<1>13. \A k \in Mapped : \A q \in Objects : Known(q, k) => Known(q, k)'
  BY <1>9
<1>14. call'[t].at = "idle" /\ held' = held \cup {l} /\ \E q \in Objects : Known(q, l)'
  BY <1>2, <1>7, <1>12
<1>15. aborted' = FALSE /\ UNCHANGED <<loader, opens, lookup>>
  BY <1>2
<1> QED
  BY <1>7, <1>8, <1>10, <1>11, <1>13, <1>14, <1>15, HelpingGoesOn
-----------------------------------------------------------------------------
(***************************************************************************)
(* Closing.                                                                *)
(***************************************************************************)

\* What the program closes is a plugin that is mapped and recorded; nothing is being opened.
LEMMA DlcloseFacts ==
  ASSUME WellBehaved, IInv, NEW t \in Threads, NEW l \in Libs, RealDlclose(t, l)
  PROVE  /\ \A u \in Threads : call[u].at \notin Opening \cup Closing
         /\ \A k \in Libs \ Helpers : RestOK(k)
         /\ \A r : ~ Stale(r)
         /\ l \in Plugins /\ l \in Mapped /\ l \notin Linked /\ l \notin Helpers
         /\ handle[l] \in Handles /\ opens[l] \in Nat /\ opens[l] > 0
         /\ \A k \in Libs \ Helpers : refs[k] = opens[k]
         /\ opens' = [opens EXCEPT ![l] = @ - 1] /\ refs' = [refs EXCEPT ![l] = @ - 1]
         /\ UNCHANGED <<pinned, held, records, ranges, objects, lbase_, lookup, aborted>>
         /\ call' \in [Threads -> CallTypes] /\ lookup[t].at = "idle"
         /\ \A u \in Threads : u # t => call'[u] = call[u]
         /\ \A u \in Threads : call'[u].at \notin Opening
         /\ call'[t].at = "unrecord" /\ call'[t].lib = l /\ call'[t].object = handle[l]
<1> DEFINE c == [Call("unrecord", l, FALSE, NULL) EXCEPT !.object = handle[l]]
<1>1. /\ Free(t) /\ opens[l] > 0 /\ Enter(t, c)
      /\ \A u \in Threads : ~ Helping(u)
  BY DEF RealDlclose, WellBehaved, Helping
<1>2. /\ call[t].at = "idle" /\ lookup[t].at = "idle"
      /\ \A u \in Threads : ~ Busy(u)
      /\ \A k \in Libs \ Helpers : RestOK(k)
      /\ \A r : ~ Stale(r)
  BY <1>1, NoneBusy
<1>3. \A u \in Threads : call[u].at \notin Opening \cup Closing
  BY <1>1, <1>2 DEF Busy, Adding, Helping
<1>4. l \in Plugins /\ l \notin Linked /\ l \notin Helpers /\ opens[l] \in Nat
  BY <1>1 DEF IInv, LoaderOK, References, WellBehaved
<1>5. l \in Mapped /\ handle[l] \in Handles
  BY <1>1, <1>2, <1>4 DEF IInv, LoaderOK, Places, RestOK
<1>6. \A k \in Libs \ Helpers : refs[k] = opens[k]
  BY <1>3 DEF IInv, LoaderOK, References, Adding
<1>7. c \in CallTypes /\ c.at = "unrecord" /\ c.lib = l /\ c.object = handle[l]
  BY <1>5 DEF Call, CallTypes, Closing
<1>8. /\ call' \in [Threads -> CallTypes] /\ call'[t] = c
      /\ \A u \in Threads : u # t => call'[u] = call[u]
  BY <1>1, <1>7, CallBecomes DEF IInv
<1>9. \A u \in Threads : call'[u].at \notin Opening
  BY <1>3, <1>7, <1>8 DEF Opening
<1>10. /\ opens' = [opens EXCEPT ![l] = @ - 1] /\ refs' = [refs EXCEPT ![l] = @ - 1]
       /\ UNCHANGED <<pinned, held, records, ranges, objects, lbase_, lookup, aborted>>
  BY DEF RealDlclose, filevars
<1> QED
  BY <1>1, <1>2, <1>3, <1>4, <1>5, <1>6, <1>7, <1>8, <1>9, <1>10

\* The library stays mapped: there are other references, or RTLD_NODELETE was used.
LEMMA DlcloseMappedKeeps ==
  ASSUME WellBehaved, IInv, NEW t \in Threads, NEW l \in Libs, RealDlclose(t, l),
         ~ (refs[l] = 1 /\ l \notin Linked \cup pinned)
  PROVE  IInv'
<1>1. /\ \A u \in Threads : call[u].at \notin Opening \cup Closing
      /\ \A k \in Libs \ Helpers : RestOK(k)
      /\ \A r : ~ Stale(r)
      /\ l \in Plugins /\ l \in Mapped /\ l \notin Linked /\ l \notin Helpers
      /\ handle[l] \in Handles /\ opens[l] \in Nat /\ opens[l] > 0
      /\ \A k \in Libs \ Helpers : refs[k] = opens[k]
      /\ opens' = [opens EXCEPT ![l] = @ - 1] /\ refs' = [refs EXCEPT ![l] = @ - 1]
      /\ UNCHANGED <<pinned, held, records, ranges, objects, lbase_, lookup, aborted>>
      /\ call' \in [Threads -> CallTypes] /\ lookup[t].at = "idle"
      /\ \A u \in Threads : u # t => call'[u] = call[u]
      /\ \A u \in Threads : call'[u].at \notin Opening
      /\ call'[t].at = "unrecord" /\ call'[t].lib = l /\ call'[t].object = handle[l]
  BY DlcloseFacts
<1>2. base' = base /\ handle' = handle
  BY DEF RealDlclose
<1>3. /\ Mapped' = Mapped
      /\ \A o, k : Range(o, k)' = Range(o, k) /\ (Known(o, k)' <=> Known(o, k))
  BY <1>1, <1>2 DEF Mapped, Range, Known
<1>4. /\ opens' \in [Libs -> Nat] /\ refs' \in [Libs -> Nat] /\ opens'[l] = opens[l] - 1
      /\ \A k \in Libs : k # l => opens'[k] = opens[k]
      /\ \A k \in Libs \ Helpers : refs'[k] = opens'[k]
  BY <1>1 DEF IInv, LoaderOK, References
<1>5. \A u \in Threads : ~ Adding(u)'
  BY <1>1 DEF Adding
<1>6. LoaderOK'
  <2>1. \A k \in Libs : opens'[k] > 0 => k \in Plugins
    BY <1>1, <1>4 DEF IInv, LoaderOK, References
  <2>2. \A k \in Linked : opens'[k] = 0
    BY <1>1, <1>4, LibsAssumption DEF IInv, LoaderOK, References
  <2>3. References'
    BY <1>4, <1>5, <2>1, <2>2 DEF References
  <2>4. Places'
    BY <1>1, <1>2, <1>3 DEF IInv, LoaderOK, Places, Apart
  <2> QED
    BY <2>3, <2>4 DEF LoaderOK
<1>7. \A r : ~ Stale(r)'
  BY <1>1, <1>3 DEF Stale, Closing, Lib
<1>8. RangesOK'
  BY <1>1, <1>2, <1>3, <1>7 DEF IInv, RangesOK
<1>9. RecordsOK'
  BY <1>1, <1>2, <1>3 DEF IInv, RecordsOK, Closing
<1>10. ASSUME NEW k \in Libs \ Helpers, Resting(k)' PROVE RestOK(k)'
  <2>1. k # l
    BY <1>1, <1>10 DEF Resting, Busy, Closing, Lib
  <2>2. RestOK(k)
    BY <1>1
  <2> QED
    BY <1>1, <1>2, <1>3, <1>4, <2>1, <2>2 DEF RestOK, Recorded
<1>11. UnrecordOK(t)'
  <2>1. RestOK(l) /\ opens[l] = opens'[l] + 1
    BY <1>1, <1>4
  <2>2. PICK o \in Objects : Known(o, l) /\ Recorded(handle[l], opens[l], o)
    BY <1>1, <2>1 DEF RestOK
  <2>3. opens'[l] > 0 \/ l \in pinned
    BY <1>1, <1>4
  <2>4. records[handle[l]].nodelete <=> l \in pinned
    BY <1>1, <2>1 DEF RestOK
  <2>5. \A k \in Mapped : k # l => handle[k] # handle[l]
    BY <1>1 DEF IInv, LoaderOK, Places, References
  <2> QED
    BY <1>1, <1>2, <1>3, <2>1, <2>2, <2>3, <2>4, <2>5 DEF UnrecordOK, Recorded, Lib
<1>12. CallOK(t)'
  BY <1>1, <1>5, <1>11 DEF CallOK, Helping, Lib, LookingUp
<1>13. CallsOK'
  <2>1. ASSUME NEW u \in Threads, lookup[u].at \in LookingUp PROVE LookingUpOK(u)'
    <3>1. LookingUpOK(u) /\ lookup[u].lib \in Libs
      BY <2>1 DEF IInv, CallsOK, CallOK, LookingUpOK, Mapped
    <3>2. lookup[u].lib = l => opens[l] # 1
      BY <2>1 DEF RealDlclose, InUse
    <3>3. lookup[u].lib \in Linked \cup held \/ opens'[lookup[u].lib] > 0
      BY <1>1, <1>4, <3>1, <3>2 DEF LookingUpOK
    <3> QED
      BY <1>1, <1>3, <3>1, <3>3 DEF LookingUpOK
  <2>2. \A u \in Threads : ~ Busy(u) /\ ~ Helping(u)
    BY <1>1 DEF Busy, Adding, Helping
  <2> QED
    BY <1>1, <1>12, <2>1, <2>2, CallsKeep
<1>14. HelpersOK'
  <2>1. ~ Helping(t)
    BY <1>1 DEF Helping
  <2> QED
    BY <1>1, <1>2, <1>3, <2>1, HelpersStay
<1> QED
  BY <1>1, <1>6, <1>8, <1>9, <1>10, <1>13, <1>14 DEF IInv

\* The last reference: the library is unmapped, and its range becomes stale.
LEMMA DlcloseUnmapsKeeps ==
  ASSUME WellBehaved, IInv, NEW t \in Threads, NEW l \in Libs, RealDlclose(t, l),
         refs[l] = 1, l \notin Linked \cup pinned
  PROVE  IInv'
<1>1. /\ \A u \in Threads : call[u].at \notin Opening \cup Closing
      /\ \A k \in Libs \ Helpers : RestOK(k)
      /\ \A r : ~ Stale(r)
      /\ l \in Plugins /\ l \in Mapped /\ l \notin Linked /\ l \notin Helpers
      /\ handle[l] \in Handles /\ opens[l] \in Nat /\ opens[l] > 0
      /\ \A k \in Libs \ Helpers : refs[k] = opens[k]
      /\ opens' = [opens EXCEPT ![l] = @ - 1] /\ refs' = [refs EXCEPT ![l] = @ - 1]
      /\ UNCHANGED <<pinned, held, records, ranges, objects, lbase_, lookup, aborted>>
      /\ call' \in [Threads -> CallTypes] /\ lookup[t].at = "idle"
      /\ \A u \in Threads : u # t => call'[u] = call[u]
      /\ \A u \in Threads : call'[u].at \notin Opening
      /\ call'[t].at = "unrecord" /\ call'[t].lib = l /\ call'[t].object = handle[l]
  BY DlcloseFacts
<1>2. base' = [base EXCEPT ![l] = NULL] /\ handle' = [handle EXCEPT ![l] = NULL]
  BY DEF RealDlclose
<1>3. /\ base' \in [Libs -> Nat \cup {NULL}] /\ handle' \in [Libs -> Handles \cup {NULL}]
      /\ base'[l] = NULL /\ handle'[l] = NULL
      /\ \A k \in Libs : k # l => base'[k] = base[k] /\ handle'[k] = handle[k]
  BY <1>2 DEF IInv, LoaderOK, Places, References
<1>4. /\ Mapped' = Mapped \ {l}
      /\ \A o, k : k \in Libs /\ k # l => Range(o, k)' = Range(o, k) /\ (Known(o, k)' <=> Known(o, k))
  BY <1>1, <1>3 DEF Mapped, Range, Known
<1>5. /\ opens' \in [Libs -> Nat] /\ refs' \in [Libs -> Nat] /\ opens[l] = 1 /\ opens'[l] = 0
      /\ \A k \in Libs : k # l => opens'[k] = opens[k]
      /\ \A k \in Libs \ Helpers : refs'[k] = opens'[k]
  BY <1>1 DEF IInv, LoaderOK, Places, References
<1>6. \A u \in Threads : ~ Adding(u)'
  BY <1>1 DEF Adding
<1>7. LoaderOK'
  <2>1. \A k \in Libs : opens'[k] > 0 => k \in Plugins
    BY <1>5 DEF IInv, LoaderOK, Places, References
  <2>2. \A k \in Libs : k \in Mapped' <=> handle'[k] # NULL
    BY <1>3, <1>4 DEF IInv, LoaderOK, Places, References
  <2>3. \A k \in Mapped' : base'[k] + Size[k] <= Pages
    BY <1>3, <1>4, MappedNumbers DEF IInv, LoaderOK, Places, References
  <2>4. \A j, k \in Mapped' : j # k => handle'[j] # handle'[k] /\ Apart(j, k)'
    BY <1>3, <1>4, MappedNumbers DEF IInv, LoaderOK, Places, References, Apart
  <2>5. pinned' \subseteq Mapped' /\ Linked \subseteq Mapped'
    BY <1>1, <1>4 DEF IInv, LoaderOK, Places, References
  <2>6. \A k \in Linked : opens'[k] = 0
    BY <1>1, <1>5, LibsAssumption DEF IInv, LoaderOK, Places, References
  <2> QED
    BY <1>3, <1>5, <1>6, <2>1, <2>2, <2>3, <2>4, <2>5, <2>6 DEF LoaderOK, Places, References
<1>8. PICK o \in Objects : Known(o, l) /\ Recorded(handle[l], 1, o)
  BY <1>1, <1>5 DEF RestOK
<1>9. \A r : Stale(r)' <=> r.object = o
  <2>1. Lib(t)' \notin Mapped' /\ records'[call'[t].object].object_file_ = o
    BY <1>1, <1>4, <1>8 DEF Lib, Recorded
  <2>2. \A u \in Threads : call'[u].at \in {"unregister", "unrecord"} => u = t
    BY <1>1 DEF Closing
  <2> QED
    BY <1>1, <2>1, <2>2 DEF Stale
<1>10. RangesOK'
  <2> DEFINE own == Range(o, l)
  <2>1. own \in ranges /\ own.object = o /\ own.start = base[l] /\ own.end = base[l] + Size[l]
    BY <1>8 DEF Known, Range
  <2>2. ASSUME NEW r \in ranges PROVE r = own \/ \E k \in Mapped' : r = Range(r.object, k)'
    <3>1. PICK k \in Mapped : r = Range(r.object, k)
      BY <1>1 DEF IInv, RangesOK
    <3>2. CASE k = l
      <4>1. r.start = base[l]
        BY <3>1, <3>2, RangeFields
      <4> QED
        BY <2>1, <4>1 DEF IInv, RangesOK
    <3>3. CASE k # l
      BY <1>4, <3>1, <3>3, MappedNumbers DEF IInv
    <3> QED
      BY <3>2, <3>3
  <2>3. \A r \in ranges : r.object = o => r = own
    BY <2>1 DEF IInv, RangesOK
  <2>4. \A k \in Mapped' : own.end <= base'[k] \/ base'[k] + Size[k] <= own.start
    BY <1>1, <1>3, <1>4, <2>1, MappedNumbers DEF IInv, LoaderOK, Places, References, Apart
  <2> QED
    BY <1>1, <1>9, <2>1, <2>2, <2>3, <2>4 DEF IInv, RangesOK
<1>11. RecordsOK'
  BY <1>1, <1>3, <1>4, MappedNumbers DEF IInv, RecordsOK, Closing
<1>12. ASSUME NEW k \in Libs \ Helpers, Resting(k)' PROVE RestOK(k)'
  <2>1. k # l
    BY <1>1, <1>12 DEF Resting, Busy, Closing, Lib
  <2>2. RestOK(k)
    BY <1>1
  <2> QED
    BY <1>1, <1>3, <1>4, <1>5, <2>1, <2>2 DEF RestOK, Recorded
<1>13. UnrecordOK(t)'
  <2>1. records[handle[l]].nodelete <=> l \in pinned
    BY <1>1 DEF RestOK
  <2>2. \A k \in Mapped' : k # l => handle'[k] # handle[l]
    BY <1>1, <1>3, <1>4, MappedNumbers DEF IInv, LoaderOK, Places, References
  <2>3. \E r \in ranges : r.object = o
    BY <1>8, RangeFields DEF Known
  <2> QED
    BY <1>1, <1>4, <1>5, <1>8, <2>1, <2>2, <2>3 DEF UnrecordOK, Recorded, Lib
<1>14. CallOK(t)'
  BY <1>1, <1>6, <1>13 DEF CallOK, Helping, Lib, LookingUp
<1>15. CallsOK'
  <2>1. ASSUME NEW u \in Threads, lookup[u].at \in LookingUp PROVE LookingUpOK(u)'
    <3>1. LookingUpOK(u) /\ lookup[u].lib \in Libs
      BY <2>1 DEF IInv, CallsOK, CallOK, LookingUpOK, Mapped
    <3>2. lookup[u].lib # l
      BY <1>5, <2>1 DEF RealDlclose, InUse
    <3> QED
      BY <1>1, <1>4, <1>5, <3>1, <3>2 DEF LookingUpOK
  <2>2. \A u \in Threads : ~ Busy(u) /\ ~ Helping(u)
    BY <1>1 DEF Busy, Adding, Helping
  <2> QED
    BY <1>1, <1>14, <2>1, <2>2, CallsKeep
<1>16. HelpersOK'
  <2>1. ~ Helping(t)
    BY <1>1 DEF Helping
  <2>2. \A k \in Helpers \cap Mapped : k \in Libs /\ k # l
    BY <1>1 DEF Mapped
  <2> QED
    BY <1>1, <1>3, <1>4, <2>1, <2>2, HelpersStay
<1> QED
  BY <1>1, <1>7, <1>10, <1>11, <1>12, <1>15, <1>16 DEF IInv

\* A thread that goes on closing a library, or is done with it; what is mapped stays known.
LEMMA ClosingGoesOn ==
  ASSUME WellBehaved, IInv, NEW t \in Threads, NEW l \in Libs, l = Lib(t), call[t].at \in Closing,
         call' \in [Threads -> CallTypes], call'[t].at \in Closing \cup {"idle"},
         \A u \in Threads : u # t => call'[u] = call[u],
         UNCHANGED <<loader, opens, lookup>>
  PROVE  /\ \A u \in Threads : ~ Helping(u) /\ ~ Adding(u)'
         /\ \A u \in Threads : u # t => ~ Busy(u) /\ ~ Busy(u)'
         /\ l \in Plugins /\ l \notin Linked /\ l \notin Helpers /\ opens[l] \in Nat
         /\ lookup[t].at = "idle"
         /\ LoaderOK'
         /\ \A k \in Libs \ Helpers : k # l => RestOK(k)
<1>1. /\ \A u \in Threads : u # t => ~ Busy(u)
      /\ l \in Plugins /\ l \notin Linked \cup Helpers /\ lookup[t].at = "idle"
      /\ \A k \in Libs \ Helpers : k # l => RestOK(k)
  BY OnlyBusy DEF Busy
<1>2. \A u \in Threads : u # t => ~ Busy(u)'
  BY <1>1 DEF Busy, Adding, Resolving
<1>3. opens[l] \in Nat /\ \A u \in Threads : ~ Helping(u)
  BY DEF IInv, LoaderOK, References, CallsOK
<1>4. \A u \in Threads : ~ Adding(u) /\ ~ Adding(u)'
  BY <1>1, <1>2 DEF Busy, Adding, Opening, Closing
<1>5. LoaderOK'
  BY <1>4, LoaderStays DEF IInv
<1> QED
  BY <1>1, <1>2, <1>3, <1>4, <1>5

\* The calls and the libraries of libdw, when what is mapped stays known.
LEMMA ClosingCalls ==
  ASSUME WellBehaved, IInv, NEW t \in Threads, NEW l \in Libs, l = Lib(t), call[t].at \in Closing,
         call' \in [Threads -> CallTypes], call'[t].at \in Closing \cup {"idle"}, CallOK(t)',
         \A u \in Threads : u # t => call'[u] = call[u],
         \A k \in Mapped, o \in Objects : Known(o, k) => Known(o, k)',
         \A k \in Helpers \cap Mapped : records'[handle[k]] = records[handle[k]],
         UNCHANGED <<loader, opens, held, lookup>>
  PROVE  CallsOK' /\ HelpersOK'
<1>1. /\ \A u \in Threads : ~ Helping(u)
      /\ \A u \in Threads : u # t => ~ Busy(u)
  BY ClosingGoesOn
<1>2. Mapped' = Mapped /\ handle' = handle
  BY DEF loader, Mapped
<1>3. CallsOK'
  BY <1>1, <1>2, CallsGoOn
<1>4. HelpersOK'
  BY <1>1, <1>2, HelpersStay
<1> QED
  BY <1>3, <1>4

\* The library that is closed has a record.
LEMMA UnrecordFacts ==
  ASSUME WellBehaved, IInv, NEW t \in Threads, NEW l \in Libs, l = Lib(t), NEW h, h = call[t].object,
         Unrecord(t)
  PROVE  /\ call[t].at = "unrecord" /\ UnrecordOK(t) /\ h \in Handles
         /\ records[h] # NoRecord /\ records[h] \in Records /\ opens[l] \in Nat
         /\ records[h].refcount_ = opens[l] + 1
         /\ IF records[h].refcount_ > 1
            THEN /\ records' = [records EXCEPT ![h].refcount_ = Uncounts(@)]
                 /\ Enter(t, Idle)
            ELSE /\ records' = [records EXCEPT ![h] = NoRecord]
                 /\ Enter(t, IF ~ records[h].nodelete
                             THEN Call("unregister", l, FALSE, records[h].object_file_) ELSE Idle)
         /\ UNCHANGED <<loader, opens, held, ranges, objects, lbase_, lookup, aborted>>
<1>1. call[t].at = "unrecord" /\ UNCHANGED <<loader, opens, held, ranges, objects, lbase_, lookup, aborted>>
  BY DEF Unrecord, At, filevars
<1>2. UnrecordOK(t)
  BY <1>1 DEF IInv, CallsOK, CallOK
<1>3. h \in Handles /\ records[h] \in Records /\ opens[l] \in Nat
  BY <1>2 DEF UnrecordOK, IInv, RecordsOK, LoaderOK, Places, References
<1>4. records[h].refcount_ = opens[l] + 1
  BY <1>2 DEF UnrecordOK, Recorded
<1>5. records[h] # NoRecord
  BY <1>3, <1>4 DEF NoRecord
<1> QED
  BY <1>1, <1>2, <1>3, <1>4, <1>5 DEF Unrecord, Erased, Unregisters

\* The library stays mapped: what is left of its record is what the program still has open.
LEMMA UnrecordMappedKeeps ==
  ASSUME WellBehaved, IInv, NEW t \in Threads, NEW l \in Libs, l = Lib(t), NEW h, h = call[t].object,
         Unrecord(t), records[h].refcount_ > 1 \/ records[h].nodelete
  PROVE  IInv'
<1>1. /\ call[t].at = "unrecord" /\ UnrecordOK(t) /\ h \in Handles
      /\ records[h] # NoRecord /\ records[h] \in Records /\ opens[l] \in Nat
      /\ records[h].refcount_ = opens[l] + 1
      /\ IF records[h].refcount_ > 1
         THEN records' = [records EXCEPT ![h].refcount_ = Uncounts(@)]
         ELSE records' = [records EXCEPT ![h] = NoRecord]
      /\ Enter(t, Idle)
      /\ UNCHANGED <<loader, opens, held, ranges, objects, lbase_, lookup, aborted>>
  BY UnrecordFacts
<1>2. Idle \in CallTypes /\ Idle.at = "idle"
  BY DEF Idle, Call, CallTypes
<1>3. /\ call' \in [Threads -> CallTypes] /\ call'[t].at = "idle"
      /\ \A u \in Threads : u # t => call'[u] = call[u]
  BY <1>1, <1>2, CallBecomes DEF IInv
<1>4. /\ \A u \in Threads : u # t => ~ Busy(u) /\ ~ Busy(u)'
      /\ l \in Plugins /\ l \notin Linked /\ l \notin Helpers /\ lookup[t].at = "idle"
      /\ \A u \in Threads : ~ Helping(u) /\ ~ Adding(u)'
      /\ LoaderOK'
      /\ \A k \in Libs \ Helpers : k # l => RestOK(k)
  BY <1>1, <1>3, ClosingGoesOn DEF Closing
<1>5. PICK o \in Objects :
        /\ Recorded(h, opens[l] + 1, o)
        /\ l \in Mapped => handle[l] = h /\ Known(o, l) /\ (opens[l] > 0 \/ l \in pinned)
        /\ l \notin Mapped => opens[l] = 0 /\ \E r \in ranges : r.object = o
  BY <1>1 DEF UnrecordOK
<1>6. (records[h].nodelete <=> l \in pinned) /\ l \in Mapped
  BY <1>1, <1>5 DEF UnrecordOK, IInv, LoaderOK, Places, References
<1>7. handle[l] = h /\ Known(o, l)
  BY <1>5, <1>6
<1>8. /\ records' \in [Handles -> Records]
      /\ \A g \in Handles : g # h => records'[g] = records[g]
      /\ opens[l] > 0 => /\ records'[h].refcount_ = opens[l] /\ records'[h].object_file_ = o
                         /\ records'[h].nodelete <=> l \in pinned
      /\ opens[l] = 0 => records'[h] = NoRecord
  <2>0. records \in [Handles -> Records] /\ NoRecord \in Records
    BY DEF IInv, RecordsOK, NoRecord, Records
  <2>1. CASE opens[l] > 0
    <3> DEFINE n == records[h].refcount_ - 1
               new == [records[h] EXCEPT !.refcount_ = n]
    <3>1. n \in Nat /\ n = opens[l] /\ records' = [records EXCEPT ![h] = new]
      BY <1>1, <2>1 DEF Uncounts
    <3> HIDE DEF n
    <3>2. /\ new \in Records /\ new.refcount_ = n /\ new.object_file_ = records[h].object_file_
          /\ new.nodelete = records[h].nodelete
      BY <1>1, <3>1 DEF Records
    <3> QED
      BY <1>1, <1>5, <1>6, <2>0, <2>1, <3>1, <3>2 DEF Recorded
  <2>2. CASE opens[l] = 0
    BY <1>1, <2>0, <2>2
  <2> QED
    BY <1>1, <2>1, <2>2
<1>9. \A r : ~ Stale(r) /\ ~ Stale(r)'
  BY <1>1, <1>3, <1>4, <1>6 DEF Stale, Busy, Closing
<1>10. RangesOK'
  BY <1>1, <1>9, SameLibrary DEF IInv, RangesOK, loader
<1>11. RecordsOK'
  <2>1. \A u \in Threads : u # t => call[u].at # "unrecord"
    BY <1>4 DEF Busy, Closing
  <2> QED
    BY <1>1, <1>6, <1>7, <1>8, <2>1, SameLibrary DEF IInv, RecordsOK, loader
<1>12. RestOK(l)'
  BY <1>1, <1>5, <1>6, <1>7, <1>8, SameLibrary DEF RestOK, Recorded, loader
<1>13. ASSUME NEW k \in Libs \ Helpers, k # l PROVE RestOK(k)'
  <2>1. k \in Mapped => handle[k] \in Handles /\ handle[k] # h
    BY <1>6, <1>7, <1>13 DEF IInv, LoaderOK, Places, References
  <2>2. opens[k] > 0 => k \in Mapped
    BY <1>4, <1>13 DEF RestOK
  <2> QED
    BY <1>1, <1>4, <1>8, <1>13, <2>1, <2>2, SameLibrary DEF RestOK, Recorded, loader
<1>14. CallOK(t)'
  BY <1>1, <1>3, <1>4 DEF CallOK, LookingUp, Busy, Adding, Helping, Opening, Closing
<1>15. ASSUME NEW k \in Helpers \cap Mapped PROVE records'[handle[k]] = records[handle[k]]
  BY <1>1, <1>4, <1>6, <1>8 DEF UnrecordOK, IInv, LoaderOK, Places, Mapped
<1>16. CallsOK' /\ HelpersOK'
  BY <1>1, <1>3, <1>14, <1>15, SameLibrary, ClosingCalls DEF Closing
<1>17. ASSUME NEW k \in Libs \ Helpers PROVE RestOK(k)'
  BY <1>12, <1>13
<1> QED
  BY <1>1, <1>4, <1>10, <1>11, <1>16, <1>17 DEF IInv

\* The library is unmapped: its record is gone, its range still has to go.
LEMMA UnrecordUnmappedKeeps ==
  ASSUME WellBehaved, IInv, NEW t \in Threads, NEW l \in Libs, l = Lib(t), NEW h, h = call[t].object,
         Unrecord(t), ~ (records[h].refcount_ > 1 \/ records[h].nodelete)
  PROVE  IInv'
<1> DEFINE o == records[h].object_file_
           c == Call("unregister", l, FALSE, o)
<1>1. /\ call[t].at = "unrecord" /\ UnrecordOK(t) /\ h \in Handles
      /\ records[h] \in Records /\ opens[l] \in Nat
      /\ records[h].refcount_ = opens[l] + 1
      /\ records' = [records EXCEPT ![h] = NoRecord]
      /\ Enter(t, c)
      /\ UNCHANGED <<loader, opens, held, ranges, objects, lbase_, lookup, aborted>>
  BY UnrecordFacts
<1>2. l \notin Mapped /\ opens[l] = 0 /\ o \in Objects /\ \E r \in ranges : r.object = o
  BY <1>1 DEF UnrecordOK, Recorded
<1>3. c \in CallTypes /\ c.at = "unregister" /\ c.lib = l /\ c.object = o
  BY <1>2 DEF Call, CallTypes, Closing
<1>4. /\ call' \in [Threads -> CallTypes]
      /\ call'[t].at = "unregister" /\ call'[t].lib = l /\ call'[t].object = o
      /\ \A u \in Threads : u # t => call'[u] = call[u]
  BY <1>1, <1>3, CallBecomes DEF IInv
<1>5. /\ \A u \in Threads : u # t => ~ Busy(u) /\ ~ Busy(u)'
      /\ l \in Plugins /\ l \notin Linked /\ l \notin Helpers /\ lookup[t].at = "idle"
      /\ \A u \in Threads : ~ Helping(u) /\ ~ Adding(u)'
      /\ LoaderOK'
      /\ \A k \in Libs \ Helpers : k # l => RestOK(k)
  BY <1>1, <1>4, ClosingGoesOn DEF Closing
<1>6. /\ records' \in [Handles -> Records] /\ records'[h] = NoRecord
      /\ \A g \in Handles : g # h => records'[g] = records[g]
  BY <1>1 DEF IInv, RecordsOK, NoRecord, Records
<1>7. \A r : (Stale(r) <=> r.object = o) /\ (Stale(r)' <=> r.object = o)
  <2>1. \A u \in Threads : call[u].at \in {"unregister", "unrecord"} => u = t
    BY <1>5 DEF Busy, Closing
  <2>2. \A u \in Threads : call'[u].at \in {"unregister", "unrecord"} => u = t
    BY <1>5 DEF Busy, Closing
  <2>3. \A r : Stale(r) <=> r.object = o
    BY <1>1, <1>2, <2>1 DEF Stale
  <2>4. \A r : Stale(r)' <=> r.object = o
    BY <1>4, <2>2 DEF Stale
  <2> QED
    BY <2>3, <2>4
<1>8. RangesOK'
  BY <1>1, <1>7, SameLibrary DEF IInv, RangesOK, loader
<1>9. RecordsOK'
  <2>1. \A u \in Threads : u # t => call[u].at # "unrecord"
    BY <1>5 DEF Busy, Closing
  <2> QED
    BY <1>1, <1>6, <2>1, SameLibrary DEF IInv, RecordsOK, loader
<1>10. ASSUME NEW k \in Libs \ Helpers, Resting(k)' PROVE RestOK(k)'
  <2>1. k # l
    BY <1>4, <1>10 DEF Resting, Busy, Closing, Lib
  <2>2. k \in Mapped => handle[k] \in Handles /\ handle[k] # h
    BY <1>1, <2>1 DEF UnrecordOK, IInv, LoaderOK, Places, References
  <2>3. opens[k] > 0 => k \in Mapped
    BY <1>5, <2>1 DEF RestOK
  <2> QED
    BY <1>1, <1>5, <1>6, <2>1, <2>2, <2>3, SameLibrary DEF RestOK, Recorded, loader
<1>11. CallOK(t)'
  <2>1. UnregisterOK(t)'
    BY <1>1, <1>2, <1>4, SameLibrary DEF UnregisterOK, Lib
  <2> QED
    BY <1>1, <1>4, <1>5, <2>1 DEF CallOK, Lib, Busy, Adding, Helping, Opening, LookingUp
<1>12. ASSUME NEW k \in Helpers \cap Mapped PROVE records'[handle[k]] = records[handle[k]]
  BY <1>1, <1>2, <1>6 DEF UnrecordOK, IInv, LoaderOK, Places, Mapped
<1>13. CallsOK' /\ HelpersOK'
  BY <1>1, <1>4, <1>11, <1>12, SameLibrary, ClosingCalls DEF Closing
<1> QED
  BY <1>1, <1>5, <1>8, <1>9, <1>10, <1>13 DEF IInv

\* The range of the library that is unmapped goes, and those of the others stay.
LEMMA UnregisterKeeps ==
  ASSUME WellBehaved, IInv, NEW t \in Threads, NEW l \in Libs, l = Lib(t), NEW o, o = call[t].object,
         Unregister(t)
  PROVE  IInv'
<1>1. /\ call[t].at = "unregister" /\ ranges' = ranges \ RangesOf(o)
      /\ UNCHANGED <<loader, opens, held, records, objects, lbase_, lookup, aborted>>
  BY DEF Unregister, At, filevars
<1>2. /\ UnregisterOK(t) /\ l \notin Mapped /\ opens[l] = 0
      /\ \E r \in ranges : r.object = o
  BY <1>1 DEF IInv, CallsOK, CallOK, UnregisterOK
<1>3. Goto(t, "delete")
  BY <1>2 DEF Unregister, RangesOf
<1>4. /\ call' \in [Threads -> CallTypes]
      /\ call'[t].at = "delete" /\ call'[t].lib = l /\ call'[t].object = o
      /\ \A u \in Threads : u # t => call'[u] = call[u]
  BY <1>3, GoesTo DEF IInv, Closing
<1>5. /\ \A u \in Threads : u # t => ~ Busy(u) /\ ~ Busy(u)'
      /\ l \in Plugins /\ l \notin Linked /\ l \notin Helpers /\ lookup[t].at = "idle"
      /\ \A u \in Threads : ~ Helping(u) /\ ~ Adding(u)'
      /\ LoaderOK'
      /\ \A k \in Libs \ Helpers : k # l => RestOK(k)
  BY <1>1, <1>4, ClosingGoesOn DEF Closing
<1>6. \A r : (Stale(r) <=> r.object = o) /\ ~ Stale(r)'
  <2>1. \A u \in Threads : call[u].at \in {"unregister", "unrecord"} => u = t
    BY <1>5 DEF Busy, Closing
  <2>2. \A u \in Threads : call'[u].at \notin {"unregister", "unrecord"}
    BY <1>4, <1>5 DEF Busy, Closing
  <2>3. \A r : Stale(r) <=> r.object = o
    BY <1>1, <2>1 DEF Stale
  <2>4. \A r : ~ Stale(r)'
    BY <2>2 DEF Stale
  <2> QED
    BY <2>3, <2>4
<1>7. /\ base' = base /\ handle' = handle /\ pinned' = pinned /\ Mapped' = Mapped
      /\ \A q, k : Range(q, k)' = Range(q, k)
  BY <1>1 DEF loader, Mapped, Range
<1>8. ASSUME NEW k \in Mapped, NEW q \in Objects, Known(q, k) PROVE Known(q, k)'
  <2>1. /\ Range(q, k) \in ranges /\ Range(q, k).object = q
        /\ Range(q, k).start = base[k] /\ Range(q, k).end = base[k] + Size[k]
    BY <1>8, RangeFields DEF Known
  <2>2. base[k] \in Nat /\ Size[k] \in Nat /\ Size[k] > 0
    BY MappedNumbers DEF IInv
  <2>3. ~ Stale(Range(q, k))
    BY <2>1, <2>2 DEF IInv, RangesOK
  <2>4. Range(q, k) \notin RangesOf(o)
    BY <1>6, <2>3 DEF RangesOf
  <2> QED
    BY <1>1, <1>7, <2>1, <2>4 DEF Known
<1>9. RangesOK'
  <2>1. \A r \in ranges' : r \in ranges /\ r.object # o
    BY <1>1 DEF RangesOf
  <2>2. \A r \in ranges' : \E k \in Mapped' : r = Range(r.object, k)'
    BY <1>6, <1>7, <2>1 DEF IInv, RangesOK
  <2> QED
    BY <1>1, <1>6, <2>1, <2>2 DEF IInv, RangesOK
<1>10. RecordsOK'
  <2>1. \A u \in Threads : call[u].at # "unrecord"
    BY <1>1, <1>5 DEF Busy, Closing
  <2> QED
    BY <1>1, <1>7, <2>1 DEF IInv, RecordsOK
<1>11. ASSUME NEW k \in Libs \ Helpers, Resting(k)' PROVE RestOK(k)'
  <2>1. k # l
    BY <1>4, <1>11 DEF Resting, Busy, Closing, Lib
  <2>2. RestOK(k)
    BY <1>5, <2>1
  <2>3. \A q \in Objects : k \in Mapped /\ Known(q, k) => Known(q, k)'
    BY <1>8
  <2> QED
    BY <1>1, <1>7, <2>2, <2>3 DEF RestOK, Recorded
<1>12. CallOK(t)'
  <2>1. o \in objects
    BY <1>2 DEF IInv, RangesOK
  <2>2. \A r \in ranges' : r.object # o
    BY <1>1 DEF RangesOf
  <2>3. DeleteOK(t)'
    BY <1>1, <1>2, <1>4, <1>7, <2>1, <2>2 DEF DeleteOK, Lib
  <2> QED
    BY <1>1, <1>4, <1>5, <2>3 DEF CallOK, Lib, Busy, Adding, Helping, Opening, LookingUp
<1>13. CallsOK' /\ HelpersOK'
  BY <1>1, <1>4, <1>7, <1>8, <1>12, ClosingCalls DEF Closing
<1> QED
  BY <1>1, <1>5, <1>9, <1>10, <1>11, <1>13 DEF IInv

\* The ObjectFile that is deleted is that of no range.
LEMMA DeleteKeeps ==
  ASSUME WellBehaved, IInv, NEW t \in Threads, NEW l \in Libs, l = Lib(t), NEW o, o = call[t].object,
         Delete(t)
  PROVE  IInv'
<1>1. /\ call[t].at = "delete" /\ Enter(t, Idle)
      /\ objects' = objects \ {o} /\ lbase_' = [lbase_ EXCEPT ![o] = NULL]
      /\ UNCHANGED <<loader, opens, held, records, ranges, lookup, aborted>>
  BY DEF Delete, At
<1>2. l \notin Mapped /\ opens[l] = 0 /\ o \in Objects /\ \A r \in ranges : r.object # o
  BY <1>1 DEF IInv, CallsOK, CallOK, DeleteOK, RangesOK
<1>3. Idle \in CallTypes /\ Idle.at = "idle"
  BY DEF Idle, Call, CallTypes
<1>4. /\ call' \in [Threads -> CallTypes] /\ call'[t].at = "idle"
      /\ \A u \in Threads : u # t => call'[u] = call[u]
  BY <1>1, <1>3, CallBecomes DEF IInv
<1>5. /\ \A u \in Threads : u # t => ~ Busy(u) /\ ~ Busy(u)'
      /\ l \notin Helpers /\ lookup[t].at = "idle"
      /\ \A u \in Threads : ~ Helping(u) /\ ~ Adding(u)'
      /\ LoaderOK'
      /\ \A k \in Libs \ Helpers : k # l => RestOK(k)
  BY <1>1, <1>4, ClosingGoesOn DEF Closing
<1>6. \A r : ~ Stale(r) /\ ~ Stale(r)'
  BY <1>1, <1>4, <1>5 DEF Stale, Busy, Closing
<1>7. RangesOK'
  <2>1. /\ lbase_' \in [Objects -> Nat \cup {NULL}]
        /\ \A q \in Objects : q # o => lbase_'[q] = lbase_[q]
    BY <1>1, <1>2 DEF IInv, RangesOK
  <2>2. objects' \subseteq Objects
    BY <1>1 DEF IInv, RangesOK
  <2>3. \A r \in ranges : r.object \in objects' /\ lbase_'[r.object] = r.start
    BY <1>1, <1>2, <2>1 DEF IInv, RangesOK
  <2>4. \A r \in ranges : \E k \in Mapped' : r = Range(r.object, k)'
    BY <1>1, <1>6, SameLibrary DEF IInv, RangesOK
  <2> QED
    BY <1>1, <1>6, <2>1, <2>2, <2>3, <2>4 DEF IInv, RangesOK
<1>8. RecordsOK'
  <2>1. \A u \in Threads : call[u].at # "unrecord"
    BY <1>1, <1>5 DEF Busy, Closing
  <2> QED
    BY <1>1, <2>1, SameLibrary DEF IInv, RecordsOK, loader
<1>9. ASSUME NEW k \in Libs \ Helpers PROVE RestOK(k)'
  <2>1. CASE k = l
    BY <1>1, <1>2, <2>1, SameLibrary DEF RestOK
  <2>2. CASE k # l
    <3>1. RestOK(k)
      BY <1>5, <2>2
    <3> QED
      BY <1>1, <3>1, SameLibrary DEF RestOK, Recorded, loader
  <2> QED
    BY <2>1, <2>2
<1>10. CallOK(t)'
  BY <1>1, <1>4, <1>5 DEF CallOK, LookingUp, Busy, Adding, Helping, Opening, Closing
<1>11. CallsOK' /\ HelpersOK'
  BY <1>1, <1>4, <1>10, SameLibrary, ClosingCalls DEF Closing
<1> QED
  BY <1>1, <1>5, <1>7, <1>8, <1>9, <1>11 DEF IInv
-----------------------------------------------------------------------------
(***************************************************************************)
(* The invariant holds.                                                    *)
(***************************************************************************)

LEMMA InitInv ==
  ASSUME WellBehaved, Init
  PROVE  IInv
<1>1. /\ base \in [Libs -> Nat \cup {NULL}] /\ handle \in [Libs -> Handles \cup {NULL}]
      /\ Mapped = Linked /\ pinned = {}
      /\ refs = [l \in Libs |-> 0] /\ opens = [l \in Libs |-> 0]
      /\ records = [h \in Handles |-> NoRecord] /\ call = [t \in Threads |-> Idle]
      /\ lookup = [t \in Threads |-> NoLookup] /\ held = {} /\ aborted = FALSE
  BY DEF Init
<1>2. Idle \in CallTypes /\ Idle.at = "idle" /\ NoLookup \in LookupTypes /\ NoLookup.at = "idle"
  BY DEF Idle, Call, CallTypes, NoLookup, Lookup, LookupTypes
<1>3. \A t \in Threads : call[t].at = "idle" /\ lookup[t].at = "idle"
  BY <1>1, <1>2
<1>4. \A t \in Threads : ~ Busy(t) /\ ~ Adding(t) /\ ~ Helping(t)
  BY <1>3 DEF Busy, Adding, Helping, Opening, Closing
<1>5. ASSUME NEW l \in Mapped
      PROVE  l \in Libs /\ base[l] \in Nat /\ Size[l] \in Nat /\ Size[l] > 0
  BY <1>1, LibsAssumption, NullAssumption DEF Mapped
<1>6. ASSUME NEW l \in Mapped, NEW k \in Mapped, l # k
      PROVE  handle[l] # handle[k] /\ Apart(l, k) /\ base[l] # base[k]
  <2>1. handle[l] # handle[k] /\ Span(l) \cap Span(k) = {}
    BY <1>1, <1>6 DEF Init
  <2>2. base[l] \in Nat /\ Size[l] \in Nat /\ Size[l] > 0 /\ base[k] \in Nat /\ Size[k] \in Nat /\ Size[k] > 0
    BY <1>5
  <2>3. (base[l] \notin Span(l) \/ base[l] \notin Span(k)) /\ (base[k] \notin Span(l) \/ base[k] \notin Span(k))
    BY <2>1
  <2> QED
    BY <2>1, <2>2, <2>3 DEF Span, Apart
<1>7. LoaderOK
  <2>1. \A l \in Libs : l \in Mapped <=> handle[l] # NULL
    BY <1>1 DEF Init
  <2>2. \A l \in Mapped : base[l] + Size[l] <= Pages
    BY <1>1 DEF Init
  <2>3. Places
    BY <1>1, <1>6, <2>1, <2>2 DEF Places
  <2>4. References
    BY <1>1, <1>4, LibsAssumption DEF References
  <2> QED
    BY <2>3, <2>4 DEF LoaderOK
<1>8. PICK file \in [Linked -> Objects] :
        /\ \A l, k \in Linked : file[l] = file[k] => l = k
        /\ objects = {file[l] : l \in Linked}
        /\ ranges = {Range(file[l], l) : l \in Linked}
        /\ lbase_ \in [Objects -> 0 .. Pages - 1 \cup {NULL}]
        /\ \A l \in Linked : lbase_[file[l]] = base[l]
  BY DEF Init
<1>9. \A r : ~ Stale(r)
  BY <1>3 DEF Stale
<1>10. RangesOK
  <2>1. ASSUME NEW r \in ranges
        PROVE  \E l \in Mapped : r = Range(r.object, l) /\ r.object = file[l]
    BY <1>1, <1>8, RangeFields
  <2>2. ASSUME NEW r \in ranges
        PROVE  /\ r \in [object : Objects, start : Nat, end : Nat]
               /\ r.object \in objects /\ lbase_[r.object] = r.start
    <3>1. PICK l \in Mapped : r = Range(r.object, l) /\ r.object = file[l]
      BY <2>1
    <3> QED
      BY <1>1, <1>5, <1>8, <3>1 DEF Range
  <2>3. ASSUME NEW r \in ranges, NEW q \in ranges, r.object = q.object \/ r.start = q.start
        PROVE  r = q
    <3>1. PICK l \in Mapped : r = Range(r.object, l) /\ r.object = file[l]
      BY <2>1
    <3>2. PICK k \in Mapped : q = Range(q.object, k) /\ q.object = file[k]
      BY <2>1
    <3>3. r.start = base[l] /\ q.start = base[k]
      BY <3>1, <3>2, RangeFields
    <3>4. l = k
      BY <1>1, <1>6, <1>8, <2>3, <3>1, <3>2, <3>3
    <3> QED
      BY <3>1, <3>2, <3>4
  <2>4. objects \subseteq Objects /\ lbase_ \in [Objects -> Nat \cup {NULL}]
    BY <1>8
  <2> QED
    BY <1>9, <2>1, <2>2, <2>3, <2>4 DEF RangesOK
<1>11. RecordsOK
  BY <1>1 DEF RecordsOK, Records, NoRecord
<1>12. ASSUME NEW l \in Mapped
       PROVE  l \in Linked /\ (\E o \in Objects : Known(o, l)) /\ records[handle[l]] = NoRecord
  <2>1. handle[l] \in Handles
    BY <1>7, NullAssumption DEF LoaderOK, Places, Mapped
  <2> QED
    BY <1>1, <1>8, <2>1 DEF Known
<1>13. ASSUME NEW l \in Libs PROVE RestOK(l)
  <2>1. opens[l] = 0
    BY <1>1
  <2> QED
    BY <1>12, <2>1 DEF RestOK
<1>14. HelpersOK
  BY <1>1, <1>12 DEF HelpersOK
<1>15. CallsOK
  BY <1>1, <1>2, <1>3, <1>4 DEF CallsOK, CallOK, LookingUp
<1> QED
  BY <1>1, <1>7, <1>10, <1>11, <1>13, <1>14, <1>15 DEF IInv

LEMMA OpeningKeeps ==
  ASSUME WellBehaved, IInv, NEW t \in Threads, Record(t) \/ Register(t) \/ Emplace(t)
  PROVE  IInv'
<1>1. call[t].at \in Opening
  BY DEF Record, Register, Emplace, At, Opening
<1>2. CASE Adding(t)
  <2>1. Lib(t) \in Libs
    BY <1>2, OnlyBusy DEF Busy
  <2> QED
    BY <1>2, <2>1, RecordKeeps, RecordNewKeeps, RegisterKeeps, EmplaceKeeps
<1>3. CASE Helping(t)
  <2>1. Lib(t) \in Libs
    BY <1>3, HelpingFacts DEF Mapped
  <2> QED
    BY <1>3, <2>1, HelperRecordKeeps, HelperRegisterKeeps, HelperEmplaceKeeps
<1> QED
  BY <1>1, <1>2, <1>3 DEF Adding, Helping

LEMMA ClosingKeeps ==
  ASSUME WellBehaved, IInv, NEW t \in Threads, Unrecord(t) \/ Unregister(t) \/ Delete(t)
  PROVE  IInv'
<1>1. Lib(t) \in Libs
  BY OnlyBusy DEF Unrecord, Unregister, Delete, At, Busy, Closing
<1> QED
  BY <1>1, UnrecordMappedKeeps, UnrecordUnmappedKeeps, UnregisterKeeps, DeleteKeeps

LEMMA StepKeeps ==
  ASSUME WellBehaved, IInv, Next
  PROVE  IInv'
<1> PICK t \in Threads :
      \/ \E l \in Plugins, nodelete, noload \in BOOLEAN : RealDlopen(t, l, nodelete, noload)
      \/ \E l \in Helpers : HelperDlopen(t, l)
      \/ Record(t) \/ Register(t) \/ Emplace(t)
      \/ \E l \in Libs : RealDlclose(t, l)
      \/ Unrecord(t) \/ Unregister(t) \/ Delete(t)
      \/ \E l \in Libs, a \in 0 .. Pages - 1 : Find(t, l, a)
      \/ Realize(t) \/ GetDebugInfoPath(t) \/ Load(t) \/ FindSymbol(t)
  BY DEF Next
<1>1. ASSUME NEW l \in Plugins, NEW nodelete \in BOOLEAN, NEW noload \in BOOLEAN,
             RealDlopen(t, l, nodelete, noload)
      PROVE  IInv'
  <2>1. noload = FALSE
    BY <1>1 DEF RealDlopen, WellBehaved
  <2>2. RealDlopen(t, l, nodelete, FALSE)
    BY <1>1, <2>1
  <2> QED
    BY <2>2, DlopenKeeps
<1>2. ASSUME NEW l \in Helpers, HelperDlopen(t, l) PROVE IInv'
  BY <1>2, HelperDlopenKeeps
<1>3. CASE Record(t) \/ Register(t) \/ Emplace(t)
  BY <1>3, OpeningKeeps
<1>4. ASSUME NEW l \in Libs, RealDlclose(t, l) PROVE IInv'
  BY <1>4, DlcloseMappedKeeps, DlcloseUnmapsKeeps
<1>5. CASE Unrecord(t) \/ Unregister(t) \/ Delete(t)
  BY <1>5, ClosingKeeps
<1>6. ASSUME NEW l \in Libs, NEW a \in 0 .. Pages - 1, Find(t, l, a) PROVE IInv'
  BY <1>6, FindKeeps
<1>7. CASE Realize(t) \/ GetDebugInfoPath(t)
  BY <1>7, RealizeKeeps
<1>8. CASE Load(t)
  BY <1>8, LoadKeeps
<1>9. CASE FindSymbol(t)
  BY <1>9, FindSymbolKeeps
<1> QED
  BY <1>1, <1>2, <1>3, <1>4, <1>5, <1>6, <1>7, <1>8, <1>9

LEMMA StutterKeeps ==
  ASSUME IInv, UNCHANGED vars
  PROVE  IInv'
<1>1. UNCHANGED <<loader, opens, held, records, ranges, objects, lbase_, call, lookup, aborted>>
  BY DEF vars, filevars
<1>2. /\ Mapped' = Mapped
      /\ \A o, l : Range(o, l)' = Range(o, l) /\ (Known(o, l)' <=> Known(o, l))
      /\ \A h, n, o : Recorded(h, n, o)' <=> Recorded(h, n, o)
      /\ pinned' = pinned /\ handle' = handle /\ base' = base
  BY <1>1, SameLibrary DEF Recorded, loader
<1>3. \A u : /\ (Adding(u)' <=> Adding(u)) /\ (Helping(u)' <=> Helping(u)) /\ (Busy(u)' <=> Busy(u))
             /\ Lib(u)' = Lib(u)
  BY <1>1 DEF Adding, Helping, Busy, Resolving, Lib
<1>4. LoaderOK'
  BY <1>1, <1>3, LoaderStays DEF IInv
<1>5. \A r : Stale(r)' <=> Stale(r)
  BY <1>1, <1>2, <1>3 DEF Stale
<1>6. RangesOK'
  BY <1>1, <1>2, <1>5 DEF IInv, RangesOK
<1>7. RecordsOK'
  BY <1>1, <1>2 DEF IInv, RecordsOK
<1>8. HelpersOK'
  BY <1>1, <1>2, <1>3 DEF IInv, HelpersOK
<1>9. ASSUME NEW l \in Libs \ Helpers, Resting(l)' PROVE RestOK(l)'
  <2>1. RestOK(l)
    BY <1>3, <1>9 DEF IInv, Resting
  <2> QED
    BY <1>1, <1>2, <2>1 DEF RestOK
<1>10. ASSUME NEW u \in Threads PROVE CallOK(u)'
  <2>1. CallOK(u)
    BY DEF IInv, CallsOK
  <2>2. (OpeningOK(u)' <=> OpeningOK(u)) /\ (HelpingOK(u)' <=> HelpingOK(u))
    BY <1>1, <1>2, <1>3 DEF OpeningOK, HelpingOK
  <2>3. UnrecordOK(u)' <=> UnrecordOK(u)
    BY <1>1, <1>2, <1>3 DEF UnrecordOK
  <2>4. (UnregisterOK(u)' <=> UnregisterOK(u)) /\ (DeleteOK(u)' <=> DeleteOK(u))
    BY <1>1, <1>2, <1>3 DEF UnregisterOK, DeleteOK
  <2>5. LookingUpOK(u)' <=> LookingUpOK(u)
    BY <1>1, <1>2 DEF LookingUpOK
  <2> QED
    BY <1>1, <1>3, <2>1, <2>2, <2>3, <2>4, <2>5 DEF CallOK
<1>11. CallsOK'
  BY <1>1, <1>3, <1>10 DEF IInv, CallsOK, CallTypes, LookupTypes
<1> QED
  BY <1>1, <1>4, <1>6, <1>7, <1>8, <1>9, <1>11 DEF IInv

\* The invariant holds in every state of a program that behaves well.
THEOREM Inductive ==
  ASSUME WellBehaved
  PROVE  Spec => []IInv
<1>1. Init => IInv
  BY InitInv
<1>2. IInv /\ [Next]_vars => IInv'
  BY StepKeeps, StutterKeeps
<1> QED
  BY <1>1, <1>2, PTL DEF Spec
-----------------------------------------------------------------------------
(***************************************************************************)
(* What follows.                                                           *)
(***************************************************************************)

LEMMA InvSynchronized ==
  ASSUME IInv
  PROVE  Synchronized
<1> DEFINE place(r) == [start |-> r.start, end |-> r.end]
           here(l) == [start |-> base[l], end |-> base[l] + Size[l]]
<1> SUFFICES ASSUME Quiet
             PROVE  {place(r) : r \in ranges} = {here(l) : l \in Mapped}
  BY DEF Synchronized
<1>1. \A t \in Threads : ~ Busy(t) /\ ~ Helping(t)
  BY DEF Quiet, Busy, Adding, Helping, Opening, Closing
<1>2. \A r : ~ Stale(r)
  BY DEF Quiet, Stale
<1>3. ASSUME NEW r \in ranges PROVE \E l \in Mapped : place(r) = here(l)
  <2>1. PICK l \in Mapped : r = Range(r.object, l)
    BY <1>2 DEF IInv, RangesOK
  <2>2. r.start = base[l] /\ r.end = base[l] + Size[l]
    BY <2>1, RangeFields
  <2> QED
    BY <2>2
<1>4. ASSUME NEW l \in Mapped PROVE \E r \in ranges : place(r) = here(l)
  <2>1. l \in Helpers => \E o \in Objects : Known(o, l)
    BY <1>1 DEF IInv, HelpersOK
  <2>2. ASSUME l \notin Helpers PROVE \E o \in Objects : Known(o, l)
    <3>1. l \in Libs /\ opens[l] \in Nat
      BY DEF Mapped, IInv, LoaderOK, References
    <3>2. RestOK(l)
      BY <1>1, <2>2, <3>1 DEF IInv, Resting
    <3> QED
      BY <3>1, <3>2 DEF RestOK
  <2>3. PICK o \in Objects : Known(o, l)
    BY <2>1, <2>2
  <2>4. Range(o, l) \in ranges /\ place(Range(o, l)) = here(l)
    BY <2>3, RangeFields DEF Known
  <2> QED
    BY <2>4
<1> HIDE DEF place, here
<1> QED
  BY <1>3, <1>4

LEMMA InvLookupSucceeds ==
  ASSUME IInv
  PROVE  LookupSucceeds
<1> SUFFICES ASSUME NEW t \in Threads, lookup[t].at \in LookingUp
             PROVE  lookup[t].object \in objects /\ lbase_[lookup[t].object] = base[lookup[t].lib]
  BY DEF LookupSucceeds
<1>1. Range(lookup[t].object, lookup[t].lib) \in ranges
  BY DEF IInv, CallsOK, CallOK, LookingUpOK, Known
<1> QED
  BY <1>1, RangeFields DEF IInv, RangesOK

\* A record refers to an ObjectFile that exists: that of its library, or that of a stale range.
LEMMA RecordedExists ==
  ASSUME WellBehaved, IInv, NEW h \in Handles, records[h] # NoRecord
  PROVE  records[h].object_file_ \in objects
<1>1. ASSUME NEW l \in Mapped, NEW o \in Objects, NEW n, Known(o, l), Recorded(h, n, o)
      PROVE  o \in objects /\ records[h].object_file_ = o
  BY <1>1, RangeFields DEF IInv, RangesOK, Known, Recorded
<1>2. ASSUME NEW t \in Threads, call[t].at = "unrecord", call[t].object = h
      PROVE  records[h].object_file_ \in objects
  <2>1. PICK o \in Objects :
          /\ Recorded(h, opens[Lib(t)] + 1, o)
          /\ Lib(t) \in Mapped => Known(o, Lib(t))
          /\ Lib(t) \notin Mapped => \E r \in ranges : r.object = o
    BY <1>2 DEF IInv, CallsOK, CallOK, UnrecordOK
  <2>2. CASE Lib(t) \in Mapped
    BY <1>1, <2>1, <2>2
  <2>3. CASE Lib(t) \notin Mapped
    BY <2>1, <2>3 DEF IInv, RangesOK, Recorded
  <2> QED
    BY <2>2, <2>3
<1>3. ASSUME NEW l \in Mapped, handle[l] = h
      PROVE  records[h].object_file_ \in objects
  <2>1. l \in Libs /\ opens[l] \in Nat
    BY DEF Mapped, IInv, LoaderOK, References
  <2>2. CASE l \in Helpers
    <3>1. Known(records[h].object_file_, l)
      BY <1>3, <2>2 DEF IInv, HelpersOK
    <3> QED
      BY <3>1, RangeFields DEF IInv, RangesOK, Known
  <2>3. CASE l \notin Helpers /\ Resting(l)
    <3>1. RestOK(l)
      BY <2>1, <2>3 DEF IInv
    <3>2. opens[l] > 0
      BY <1>3, <2>1, <3>1 DEF RestOK
    <3>3. PICK o \in Objects : Known(o, l) /\ Recorded(h, opens[l], o)
      BY <1>3, <3>1, <3>2 DEF RestOK
    <3> QED
      BY <1>1, <3>3
  <2>4. CASE ~ Resting(l)
    <3>1. PICK t \in Threads : Busy(t) /\ Lib(t) = l
      BY <2>4 DEF Resting
    <3>2. CallOK(t)
      BY DEF IInv, CallsOK
    <3>3. CASE Adding(t)
      <4>1. OpeningOK(t)
        BY <3>2, <3>3 DEF CallOK
      <4>2. call[t].at = "opened" /\ opens[l] > 0
        BY <1>3, <2>1, <3>1, <4>1 DEF OpeningOK
      <4>3. PICK o \in Objects : Known(o, l) /\ Recorded(h, opens[l], o)
        BY <1>3, <3>1, <4>1, <4>2 DEF OpeningOK
      <4> QED
        BY <1>1, <4>3
    <3>4. CASE call[t].at = "unrecord"
      BY <1>2, <1>3, <3>1, <3>2, <3>4 DEF CallOK, UnrecordOK
    <3>5. CASE call[t].at \in {"unregister", "delete"}
      BY <3>1, <3>2, <3>5 DEF CallOK, UnregisterOK, DeleteOK
    <3> QED
      BY <3>1, <3>3, <3>4, <3>5 DEF Busy, Closing
  <2> QED
    BY <2>2, <2>3, <2>4
<1> QED
  BY <1>2, <1>3 DEF IInv, RecordsOK

LEMMA InvNoUseAfterDelete ==
  ASSUME WellBehaved, IInv
  PROVE  NoUseAfterDelete
<1>1. \A r \in ranges : r.object \in objects
  BY DEF IInv, RangesOK
<1>2. ASSUME NEW t \in Threads, call[t].at \in {"emplace", "unregister", "delete"}
      PROVE  call[t].object \in objects
  <2>1. CallOK(t)
    BY DEF IInv, CallsOK
  <2>2. CASE call[t].at = "emplace"
    <3>1. Known(call[t].object, Lib(t))
      BY <2>1, <2>2 DEF CallOK, Adding, Helping, Opening, OpeningOK, HelpingOK
    <3> QED
      BY <1>1, <3>1, RangeFields DEF Known
  <2>3. CASE call[t].at = "unregister"
    BY <1>1, <2>1, <2>3 DEF CallOK, UnregisterOK
  <2>4. CASE call[t].at = "delete"
    BY <2>1, <2>4 DEF CallOK, DeleteOK
  <2> QED
    BY <1>2, <2>2, <2>3, <2>4
<1> QED
  BY <1>1, <1>2, RecordedExists DEF NoUseAfterDelete

\* When no thread is in dlopen() or dlclose(), called by the program or by libdw inside a lookup,
\* object_files_map holds exactly the ranges of the libraries that are mapped.
THEOREM RegistryIsSynchronized ==
  ASSUME WellBehaved
  PROVE  Spec => []Synchronized
BY Inductive, InvSynchronized, PTL

\* A thread that looks up an address of an open library has the ObjectFile of that library until
\* it is done, whatever the other threads open and close, and libdw opens inside their lookups.
THEOREM LookupsSucceed ==
  ASSUME WellBehaved
  PROVE  Spec => []LookupSucceeds
BY Inductive, InvLookupSucceeds, PTL

\* dlclose() deletes no ObjectFile that a range, a record or a call still refers to.
THEOREM NothingIsUsedAfterDelete ==
  ASSUME WellBehaved
  PROVE  Spec => []NoUseAfterDelete
BY Inductive, InvNoUseAfterDelete, PTL

\* No LIBCWD_ASSERT fails: ranges that are registered do not overlap, those of the libraries that
\* libdw opens in several threads at once included, and the symbols of an ObjectFile are loaded once.
THEOREM AssertionsAlwaysHold ==
  ASSUME WellBehaved
  PROVE  Spec => []AssertionsHold
<1>1. IInv => AssertionsHold
  BY DEF IInv, AssertionsHold
<1> QED
  BY <1>1, Inductive, PTL
=============================================================================
