------------------------------- MODULE DlRegistry -------------------------------
(***************************************************************************)
(* The registry of loaded object files: which ObjectFile an address        *)
(* belongs to (object_files_map), and the wrappers of dlopen(3) and        *)
(* dlclose(3) that keep it up to date while other threads look addresses   *)
(* up.                                                                     *)
(*                                                                         *)
(* The dynamic loader is external: it counts the references to a library,  *)
(* maps it somewhere when the first is made and unmaps it after the last.  *)
(* The wrappers count too, in dlopen_map, and each of their critical       *)
(* sections is a step: the call of the real function, the record, the      *)
(* ranges.  The loader serializes the callbacks of dl_iterate_phdr().      *)
(*                                                                         *)
(* A thread that looks up an address may have to find the debug info of a  *)
(* library.  For this libdw is called without a lock, because it opens     *)
(* libraries itself (libdebuginfod, and what that needs): the thread then  *)
(* is in the wrapper of dlopen inside its lookup.  So call, where a thread *)
(* is in a wrapper, and lookup, where it is in a lookup, are separate.     *)
(***************************************************************************)
EXTENDS Integers, FiniteSets

CONSTANTS
  Threads,
  Libs,
  Linked,      \* libraries that the program is linked with
  Plugins,     \* libraries that it passes to dlopen
  Helpers,     \* libraries that libdw passes to dlopen; it does not close them
  Size,        \* how many pages a library takes
  Pages,       \* bound: the pages of the address space that libraries are mapped in
  Handles,     \* the handles that the loader may return
  Objects,     \* addresses that a new ObjectFile may have
  NULL,
  Serial,      \* does the program serialize its calls of dlopen and dlclose?
  UsesNoload,  \* does it pass RTLD_NOLOAD?
  Forgets,     \* does it open a library again without the RTLD_NODELETE of before?
  Overlaps,    \* does it close a library while libdw is in dlopen?
  MaxOpens     \* bound: references to a library

ASSUME LibsAssumption ==
  Linked \cup Plugins \cup Helpers \subseteq Libs /\ Size \in [Libs -> Nat \ {0}]
ASSUME NullAssumption == NULL \notin Handles \cup Objects \cup Nat
ASSUME BoundAssumption == Pages \in Nat /\ MaxOpens \in Nat
ASSUME ProgramAssumption == {Serial, UsesNoload, Forgets, Overlaps} \subseteq BOOLEAN

VARIABLES
  refs, base, handle, pinned,  \* the loader, of a library: references, where it is, RTLD_NODELETE
  opens,             \* references of the program: dlopen returned and dlclose is not called
  held,              \* the libraries of which a dlopen of libdw returned
  records,           \* dlopen_map: of a handle, the DynamicLoaderRecord
  ranges,            \* object_files_map
  objects,           \* the ObjectFile objects that exist
  lbase_, loaded,    \* of an ObjectFile: its load base, and dwarf_symbols_loaded()
  call,              \* of a thread: where it is in dlopen() or dlclose(), and its local variables
  lookup,            \* of a thread: where it is in looking up an address
  aborted            \* has a LIBCWD_ASSERT failed?

loader == <<refs, base, handle, pinned>>
filevars == <<objects, lbase_, loaded>>
vars == <<loader, opens, held, records, ranges, filevars, call, lookup, aborted>>

Mapped == {l \in Libs : base[l] # NULL}
Span(l) == base[l] .. base[l] + Size[l] - 1
Range(o, l) == [object |-> o, start |-> base[l], end |-> base[l] + Size[l]]

NoRecord == [refcount_ |-> 0, nodelete |-> FALSE, object_file_ |-> NULL]
Call(at, l, nodelete, o) == [at |-> at, lib |-> l, nodelete |-> nodelete, object |-> o]
Idle == Call("idle", NULL, FALSE, NULL)
Lookup(at, l, o) == [at |-> at, lib |-> l, object |-> o]
NoLookup == Lookup("idle", NULL, NULL)

Opening == {"opened", "register", "emplace"}
Closing == {"unrecord", "unregister", "delete"}
LookingUp == {"realize", "path", "load", "symbols"}

\* At first the program has started and the libraries it is linked with are registered.
Init ==
  /\ refs = [l \in Libs |-> 0]
  /\ base \in [Libs -> 0 .. Pages - 1 \cup {NULL}]
  /\ Mapped = Linked
  /\ \A l \in Linked : base[l] + Size[l] <= Pages
  /\ \A l, k \in Linked : l # k => Span(l) \cap Span(k) = {}
  /\ handle \in [Libs -> Handles \cup {NULL}]
  /\ \A l \in Libs : handle[l] = NULL <=> l \notin Linked
  /\ \A l, k \in Linked : handle[l] = handle[k] => l = k
  /\ pinned = {}
  /\ opens = [l \in Libs |-> 0]
  /\ records = [h \in Handles |-> NoRecord]
  /\ \E file \in [Linked -> Objects] :
       /\ \A l, k \in Linked : file[l] = file[k] => l = k
       /\ objects = {file[l] : l \in Linked}
       /\ ranges = {Range(file[l], l) : l \in Linked}
       /\ lbase_ \in [Objects -> 0 .. Pages - 1 \cup {NULL}]
       /\ \A o \in Objects \ objects : lbase_[o] = NULL
       /\ \A l \in Linked : lbase_[file[l]] = base[l]
  /\ loaded = {}
  /\ call = [t \in Threads |-> Idle]
  /\ lookup = [t \in Threads |-> NoLookup]
  /\ held = {}
  /\ aborted = FALSE

At(t, where) == ~ aborted /\ call[t].at = where
Enter(t, c) == call' = [call EXCEPT ![t] = c]
Goto(t, where) == call' = [call EXCEPT ![t].at = where]
Lib(t) == call[t].lib
Quiet == \A t \in Threads : call[t].at = "idle"
\* Is the call of the thread one of libdw, and not of the program?
Resolving(t) == lookup[t].at = "path"
Free(t) ==
  /\ At(t, "idle") /\ lookup[t].at = "idle"
  /\ Serial => \A u \in Threads : call[u].at = "idle" \/ Resolving(u)
-----------------------------------------------------------------------------
(***************************************************************************)
(* dlopen().  The loader maps the library if it is not mapped, at pages    *)
(* that are free and with a handle that no other library has.  With        *)
(* RTLD_NOLOAD the wrapper does not record the reference.  MaxOpens bounds *)
(* how often a library is opened.                                          *)
(***************************************************************************)
Opens(l, nodelete) ==
  /\ refs[l] < MaxOpens
  /\ refs' = [refs EXCEPT ![l] = @ + 1]
  /\ pinned' = IF nodelete THEN pinned \cup {l} ELSE pinned
  /\ IF l \in Mapped
     THEN UNCHANGED <<base, handle>>
     ELSE \E b \in 0 .. Pages - Size[l], h \in Handles :
            /\ \A k \in Mapped : handle[k] # h /\ Span(k) \cap (b .. b + Size[l] - 1) = {}
            /\ base' = [base EXCEPT ![l] = b]
            /\ handle' = [handle EXCEPT ![l] = h]

RealDlopen(t, l, nodelete, noload) ==
  /\ Free(t)
  /\ noload => UsesNoload /\ l \in Mapped
  /\ l \in pinned /\ ~ nodelete => opens[l] > 0 \/ Forgets
  /\ Opens(l, nodelete)
  /\ IF noload
     THEN opens' = [opens EXCEPT ![l] = @ + 1] /\ UNCHANGED call
     ELSE Enter(t, Call("opened", l, nodelete, NULL)) /\ UNCHANGED opens
  /\ UNCHANGED <<held, records, ranges, filevars, lookup, aborted>>

\* libdw opens a library, as often as it likes, while it looks for debug info.
HelperDlopen(t, l) ==
  /\ At(t, "idle") /\ Resolving(t)
  /\ Overlaps \/ \A u \in Threads : call[u].at \notin Closing
  /\ Opens(l, FALSE)
  /\ Enter(t, Call("opened", l, FALSE, NULL))
  /\ UNCHANGED <<opens, held, records, ranges, filevars, lookup, aborted>>

Returns(t) ==
  /\ IF Resolving(t)
     THEN held' = held \cup {Lib(t)} /\ UNCHANGED opens
     ELSE opens' = [opens EXCEPT ![Lib(t)] = @ + 1] /\ UNCHANGED held
  /\ Enter(t, Idle)

CountsOnce(n) == n
Counts(n) == n + 1
Referenced(r, nodelete) == [r EXCEPT !.refcount_ = Counts(@), !.nodelete = @ \/ nodelete]

Record(t) ==
  LET h == handle[Lib(t)] IN
  /\ At(t, "opened")
  /\ IF records[h] # NoRecord
     THEN /\ records' = [records EXCEPT ![h] = Referenced(@, call[t].nodelete)]
          /\ Returns(t)
     ELSE /\ Goto(t, "register")
          /\ UNCHANGED <<records, opens, held>>
  /\ UNCHANGED <<loader, ranges, filevars, lookup, aborted>>

\* find_registered_object_file()
Registered(lbase) == {r.object : r \in {q \in ranges : lbase_[q.object] = lbase}}

\* register_object_file_at_lbase(), with the callback of dl_iterate_phdr()
Register(t) ==
  LET l == Lib(t) IN
  /\ At(t, "register")
  /\ \/ \E o \in Registered(base[l]) :
          /\ Enter(t, Call("emplace", l, call[t].nodelete, o))
          /\ UNCHANGED <<ranges, filevars, aborted>>
     \/ \E o \in Objects \ objects :
          /\ Registered(base[l]) = {}
          /\ objects' = objects \cup {o}
          /\ lbase_' = [lbase_ EXCEPT ![o] = base[l]]
          /\ ranges' = ranges \cup {Range(o, l)}
          /\ aborted' = \E r \in ranges : r.start < base[l] + Size[l] /\ base[l] < r.end
          /\ Enter(t, Call("emplace", l, call[t].nodelete, o))
          /\ UNCHANGED loaded
  /\ UNCHANGED <<loader, opens, held, records, lookup>>

\* emplace() leaves a record alone that another thread made meanwhile.
Emplace(t) ==
  LET h == handle[Lib(t)] IN
  /\ At(t, "emplace")
  /\ records' = IF records[h] # NoRecord THEN records
                ELSE [records EXCEPT ![h] = [refcount_ |-> 1, nodelete |-> call[t].nodelete,
                                             object_file_ |-> call[t].object]]
  /\ Returns(t)
  /\ UNCHANGED <<loader, ranges, filevars, lookup, aborted>>
-----------------------------------------------------------------------------
(***************************************************************************)
(* dlclose().  The program closes what it opened, and not a library of     *)
(* which it is still looking up an address.                                *)
(***************************************************************************)
InUse(l) == \E t \in Threads : lookup[t].at \in LookingUp /\ lookup[t].lib = l

RealDlclose(t, l) ==
  /\ Free(t)
  /\ Overlaps \/ \A u \in Threads : ~ (call[u].at \in Opening /\ Resolving(u))
  /\ opens[l] > 0
  /\ opens[l] = 1 => ~ InUse(l)
  /\ opens' = [opens EXCEPT ![l] = @ - 1]
  /\ refs' = [refs EXCEPT ![l] = @ - 1]
  /\ IF refs[l] = 1 /\ l \notin Linked \cup pinned
     THEN base' = [base EXCEPT ![l] = NULL] /\ handle' = [handle EXCEPT ![l] = NULL]
     ELSE UNCHANGED <<base, handle>>
  /\ Enter(t, [Call("unrecord", l, FALSE, NULL) EXCEPT !.object = handle[l]])
  /\ UNCHANGED <<pinned, held, records, ranges, filevars, lookup, aborted>>

\* The call has the handle that dlclose() was called with in place of an object.
UnregistersAlways(r) == TRUE
Unregisters(r) == ~ r.nodelete

Uncounts(n) == n - 1

ErasedNever(r) == [r EXCEPT !.refcount_ = 0]
Erased(r) == NoRecord

Unrecord(t) ==
  LET h == call[t].object
      r == records[h]
  IN
  /\ At(t, "unrecord")
  /\ IF r = NoRecord
     THEN Enter(t, Idle) /\ UNCHANGED records
     ELSE IF r.refcount_ > 1
     THEN /\ records' = [records EXCEPT ![h].refcount_ = Uncounts(@)]
          /\ Enter(t, Idle)
     ELSE /\ records' = [records EXCEPT ![h] = Erased(r)]
          /\ Enter(t, IF Unregisters(r) THEN Call("unregister", Lib(t), FALSE, r.object_file_) ELSE Idle)
  /\ UNCHANGED <<loader, opens, held, ranges, filevars, lookup, aborted>>

\* unregister_object_file_ranges(); what it returns is NULL when there were none.
RangesOf(o) == {r \in ranges : r.object = o}

Unregister(t) ==
  LET o == call[t].object IN
  /\ At(t, "unregister")
  /\ ranges' = ranges \ RangesOf(o)
  /\ IF RangesOf(o) = {} THEN Enter(t, Idle) ELSE Goto(t, "delete")
  /\ UNCHANGED <<loader, opens, held, records, filevars, lookup, aborted>>

Delete(t) ==
  LET o == call[t].object IN
  /\ At(t, "delete")
  /\ objects' = objects \ {o}
  /\ lbase_' = [lbase_ EXCEPT ![o] = NULL]
  /\ loaded' = loaded \ {o}
  /\ Enter(t, Idle)
  /\ UNCHANGED <<loader, opens, held, records, ranges, lookup, aborted>>
-----------------------------------------------------------------------------
(***************************************************************************)
(* A thread looks up an address a of a library: find_object_file(), that   *)
(* makes the ObjectFile load its symbols if it did not yet, and            *)
(* find_symbol().  The path of the debug info is determined without a lock.*)
(***************************************************************************)
Containing(a) == {r.object : r \in {q \in ranges : q.start <= a /\ a < q.end}}

LookupAt(t, where) == At(t, "idle") /\ lookup[t].at = where
Look(t, new) ==
  /\ lookup' = [lookup EXCEPT ![t] = new]
  /\ UNCHANGED <<loader, opens, held, records, ranges, objects, lbase_, call>>
LookOn(t, where) == Look(t, [lookup[t] EXCEPT !.at = where])

Find(t, l, a) ==
  /\ LookupAt(t, "idle")
  /\ l \in Mapped /\ (l \in Linked \cup held \/ opens[l] > 0)
  /\ a \in Span(l)
  /\ \/ \E o \in Containing(a) : Look(t, Lookup("realize", l, o))
     \/ Containing(a) = {} /\ Look(t, Lookup("symbols", l, NULL))
  /\ UNCHANGED <<loaded, aborted>>

Realize(t) ==
  /\ LookupAt(t, "realize")
  /\ LookOn(t, IF lookup[t].object \in loaded THEN "symbols" ELSE "path")
  /\ UNCHANGED <<loaded, aborted>>

\* get_debug_info_path() returns; until then libdw may open libraries.
GetDebugInfoPath(t) ==
  /\ LookupAt(t, "path")
  /\ LookOn(t, "load")
  /\ UNCHANGED <<loaded, aborted>>

\* Did another thread load the symbols meanwhile?
BeatenNever(o) == FALSE
Beaten(o) == o \in loaded

Load(t) ==
  LET o == lookup[t].object IN
  /\ LookupAt(t, "load")
  /\ IF Beaten(o)
     THEN UNCHANGED <<loaded, aborted>>
     ELSE loaded' = loaded \cup {o} /\ aborted' = (o \in loaded)
  /\ LookOn(t, "symbols")

FindSymbol(t) ==
  /\ LookupAt(t, "symbols")
  /\ Look(t, NoLookup)
  /\ UNCHANGED <<loaded, aborted>>

Next ==
  \E t \in Threads :
    \/ \E l \in Plugins, nodelete, noload \in BOOLEAN : RealDlopen(t, l, nodelete, noload)
    \/ \E l \in Helpers : HelperDlopen(t, l)
    \/ Record(t) \/ Register(t) \/ Emplace(t)
    \/ \E l \in Libs : RealDlclose(t, l)
    \/ Unrecord(t) \/ Unregister(t) \/ Delete(t)
    \/ \E l \in Libs, a \in 0 .. Pages - 1 : Find(t, l, a)
    \/ Realize(t) \/ GetDebugInfoPath(t) \/ Load(t) \/ FindSymbol(t)

Spec == Init /\ [][Next]_vars
-----------------------------------------------------------------------------
\* The type invariant.  A record counts no more references than the bound on dlopen() allows.
TypeOK ==
  /\ refs \in [Libs -> 0 .. MaxOpens]
  /\ base \in [Libs -> 0 .. Pages - 1 \cup {NULL}]
  /\ handle \in [Libs -> Handles \cup {NULL}]
  /\ pinned \subseteq Libs
  /\ opens \in [Libs -> 0 .. MaxOpens]
  /\ records \in [Handles -> [refcount_ : 0 .. MaxOpens, nodelete : BOOLEAN,
                              object_file_ : Objects \cup {NULL}]]
  /\ ranges \subseteq [object : Objects, start : 0 .. Pages - 1, end : 1 .. Pages]
  /\ objects \subseteq Objects
  /\ lbase_ \in [Objects -> 0 .. Pages - 1 \cup {NULL}]
  /\ loaded \subseteq Objects
  /\ call \in [Threads -> [at : {"idle"} \cup Opening \cup Closing,
                           lib : Libs \cup {NULL}, nodelete : BOOLEAN,
                           object : Objects \cup Handles \cup {NULL}]]
  /\ lookup \in [Threads -> [at : {"idle"} \cup LookingUp,
                             lib : Libs \cup {NULL}, object : Objects \cup {NULL}]]
  /\ held \subseteq Libs
  /\ aborted \in BOOLEAN

(***************************************************************************)
(* When no thread is in dlopen() or dlclose(), libdw inside a lookup       *)
(* included, the registry knows exactly the libraries that are mapped,     *)
(* each at the place where it is mapped.                                   *)
(***************************************************************************)
Synchronized ==
  Quiet => {[start |-> r.start, end |-> r.end] : r \in ranges}
             = {[start |-> base[l], end |-> base[l] + Size[l]] : l \in Mapped}

(***************************************************************************)
(* A thread that looks up an address of a library that stays open finds    *)
(* its ObjectFile, and that is not deleted before the thread is done with  *)
(* it, whatever other threads open and close.                              *)
(***************************************************************************)
LookupSucceeds ==
  \A t \in Threads : lookup[t].at \in LookingUp =>
    /\ lookup[t].object \in objects
    /\ lbase_[lookup[t].object] = base[lookup[t].lib]

\* What refers to an ObjectFile refers to one that exists.
NoUseAfterDelete ==
  /\ \A r \in ranges : r.object \in objects
  /\ \A h \in Handles : records[h] # NoRecord => records[h].object_file_ \in objects
  /\ \A t \in Threads : call[t].at \in {"emplace", "unregister", "delete"} => call[t].object \in objects

(***************************************************************************)
(* The assertions hold: the ranges of a library that is registered overlap *)
(* no other, and the symbols of an ObjectFile are loaded once although     *)
(* several threads find at the same time that they are not.                *)
(***************************************************************************)
AssertionsHold == ~ aborted
=============================================================================
