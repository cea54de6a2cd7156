----------------------------- MODULE LocationPaths -----------------------------
(***************************************************************************)
(* Location objects and the source-file paths that they share.             *)
(*                                                                         *)
(* A path is allocated by pc_location() and deleted by the one Location    *)
(* that owns it; copies share it without owning it.  Ownership moves when  *)
(* a Location is copied or assigned (filepath_, a lockable_auto_ptr),      *)
(* unless lock_ownership() was called.  The program that uses the class is *)
(* any program; tidy says whether it did so far what the documentation of  *)
(* the class asks: to keep the owner of a path as long as its copies.      *)
(***************************************************************************)

CONSTANTS
  Locations,    \* variables of type Location
  Paths,        \* what operator new may return
  Places,       \* source-file:line-number places
  NULL,
  AssignsBack   \* is it tidy to assign a copy to the owner of the path that it shares?

ASSUME NullAssumption == NULL \notin Paths \cup Places
ASSUME ProgramAssumption == AssignsBack \in BOOLEAN

VARIABLES
  alive,     \* the Location objects that exist
  loc,       \* of each: its members
  heap,      \* of an allocated path: the place whose file it names
  misfreed,  \* was a path deleted that is not allocated?
  tidy

vars == <<alive, loc, heap, misfreed, tidy>>

(***************************************************************************)
(* object tells whether object_file_name_ is set, name what function_name_ *)
(* points to (a function or one of the constant strings, of which that of  *)
(* an uninitialized Location counts as cleared), and pc whether the union  *)
(* of Location holds a pc rather than a file name or nothing.              *)
(***************************************************************************)
Location ==
  [known_ : BOOLEAN, line_ : Places \cup {NULL},
   ptr_ : Paths \cup {NULL}, owner_ : BOOLEAN, locked_ : BOOLEAN,
   object : BOOLEAN, name : {"pre", "unknown", "cleared", "function"}, pc : BOOLEAN]

\* The default constructor.
Blank ==
  [known_ |-> FALSE, line_ |-> NULL, ptr_ |-> NULL, owner_ |-> FALSE, locked_ |-> FALSE,
   object |-> FALSE, name |-> "cleared", pc |-> FALSE]

Init ==
  /\ alive = {}
  /\ loc = [x \in Locations |-> Blank]
  /\ heap = [q \in Paths |-> NULL]
  /\ misfreed = FALSE
  /\ tidy = TRUE

(***************************************************************************)
(* Deleting the paths q, and whether a Location is known to share the path *)
(* that x is about to delete; the Locations except are not counted.        *)
(***************************************************************************)
Without(q) == [p \in Paths |-> IF p \in q THEN NULL ELSE heap[p]]
Misfrees(q) == misfreed' = (misfreed \/ \E p \in q : heap[p] = NULL)

Owned(r) == IF r.owner_ THEN {r.ptr_} ELSE {}

SharedWith(x) == {y \in alive \ {x} : loc[y].known_ /\ loc[y].ptr_ \in Owned(loc[x])}
Judge(x, except) == tidy' = (tidy /\ SharedWith(x) \subseteq except)

\* clear() deletes the path of a Location that is known.  What is only read of a Location
\* that is known, or that owns its path, is forgotten with it.
ClearedKeepsOwner(r) ==
  IF r.known_ THEN [Blank EXCEPT !.owner_ = r.owner_, !.locked_ = r.locked_, !.pc = r.pc]
              ELSE [r EXCEPT !.object = FALSE, !.name = "cleared"]
Cleared(r) ==
  IF r.known_ THEN [Blank EXCEPT !.locked_ = r.locked_, !.pc = r.pc]
              ELSE [r EXCEPT !.object = FALSE, !.name = "cleared"]

FreedNever(r) == {}
FreedAlways(r) == IF r.known_ THEN {r.ptr_} ELSE {}
Freed(r) == IF r.known_ THEN Owned(r) ELSE {}

\* lockable_auto_ptr::operator=.  A pointer that is locked keeps the ownership.
Moves(r) == r.owner_ /\ ~ r.locked_

GivenNever(r) == r
Given(r) == [r EXCEPT !.owner_ = @ /\ r.locked_]

\* What a copy of proto is when it was r.  Of the prototype that is not known the union
\* is copied and filepath_ is left as it is.
CopiedWithoutPc(r, proto) ==
  IF proto.known_
  THEN [proto EXCEPT !.owner_ = Moves(proto), !.locked_ = r.locked_]
  ELSE [r EXCEPT !.object = proto.object, !.name = proto.name]
Copied(r, proto) ==
  IF proto.known_
  THEN [proto EXCEPT !.owner_ = Moves(proto), !.locked_ = r.locked_]
  ELSE [r EXCEPT !.pc = proto.pc, !.object = proto.object, !.name = proto.name]
-----------------------------------------------------------------------------
(***************************************************************************)
(* pc_location() finds nothing, or a file of which the line is known or    *)
(* not; r is the Location as it was before, and frees what was deleted     *)
(* already.  The new path is allocated before the one that filepath_ may   *)
(* still own is deleted.                                                   *)
(***************************************************************************)
Found(x, r, frees) ==
  \/ \E name \in {"pre", "unknown", "function"}, object \in BOOLEAN :
       /\ name = "pre" => ~ object
       /\ name = "function" => object
       /\ loc' = [loc EXCEPT ![x] = [r EXCEPT !.object = object, !.name = name, !.pc = name # "function"]]
       /\ heap' = Without(frees)
       /\ Misfrees(frees)
  \/ \E known \in BOOLEAN, place \in Places, q \in Paths :
       /\ Without(frees)[q] = NULL
       /\ loc' = [loc EXCEPT ![x] = [r EXCEPT !.known_ = known, !.line_ = IF known THEN place ELSE NULL,
                                              !.ptr_ = q, !.owner_ = TRUE,
                                              !.object = TRUE, !.name = "function", !.pc = FALSE]]
       /\ heap' = [Without(frees \cup Owned(r)) EXCEPT ![q] = place]
       /\ Misfrees(frees \cup Owned(r))

\* Location::Location() and Location::Location(addr)
Construct(x) ==
  /\ x \notin alive
  /\ alive' = alive \cup {x}
  /\ \/ loc' = [loc EXCEPT ![x] = Blank] /\ UNCHANGED <<heap, misfreed>>
     \/ Found(x, Blank, {})
  /\ UNCHANGED tidy

PcLocation(x) ==
  /\ x \in alive
  /\ Judge(x, {})
  /\ Found(x, Cleared(loc[x]), Freed(loc[x]))
  /\ UNCHANGED alive

\* Location::Location(Location const&)
Copy(x, y) ==
  /\ x \notin alive
  /\ y \in alive
  /\ alive' = alive \cup {x}
  /\ loc' = [loc EXCEPT ![x] = Copied(Blank, loc[y]),
                        ![y] = IF @.known_ THEN Given(@) ELSE @]
  /\ UNCHANGED <<heap, misfreed, tidy>>

\* operator=, of two objects; what lockable_auto_ptr::operator= deletes is what clear() did not.
Assign(x, y) ==
  LET r == Cleared(loc[x])
      q == Freed(loc[x]) \cup IF loc[y].known_ THEN Owned(r) ELSE {}
  IN
  /\ {x, y} \subseteq alive /\ x # y
  /\ Judge(x, IF AssignsBack THEN {y} ELSE {})
  /\ loc' = [loc EXCEPT ![x] = Copied(r, loc[y]),
                        ![y] = IF @.known_ THEN Given(@) ELSE @]
  /\ heap' = Without(q)
  /\ Misfrees(q)
  /\ UNCHANGED alive

\* The path of a Location that is not its owner may not be locked: lock() asserts that.
LockOwnership(x) ==
  /\ x \in alive
  /\ loc[x].known_ /\ loc[x].owner_
  /\ loc' = [loc EXCEPT ![x].locked_ = TRUE]
  /\ UNCHANGED <<alive, heap, misfreed, tidy>>

Clear(x) ==
  /\ x \in alive
  /\ Judge(x, {})
  /\ loc' = [loc EXCEPT ![x] = Cleared(@)]
  /\ heap' = Without(Freed(loc[x]))
  /\ Misfrees(Freed(loc[x]))
  /\ UNCHANGED alive

\* ~Location(), and then the destructor of filepath_
Destroy(x) ==
  /\ x \in alive
  /\ Judge(x, {})
  /\ alive' = alive \ {x}
  /\ loc' = [loc EXCEPT ![x] = Blank]
  /\ heap' = Without(Owned(loc[x]))
  /\ Misfrees(Owned(loc[x]))

Next ==
  \E x \in Locations :
    \/ Construct(x) \/ PcLocation(x) \/ LockOwnership(x) \/ Clear(x) \/ Destroy(x)
    \/ \E y \in Locations : Copy(x, y) \/ Assign(x, y)

Spec == Init /\ [][Next]_vars
-----------------------------------------------------------------------------
\* The type invariant; a Location that is known or that owns a path has one.
TypeOK ==
  /\ alive \subseteq Locations
  /\ loc \in [Locations -> Location]
  /\ \A x \in Locations :
       /\ IF loc[x].known_ THEN loc[x].ptr_ # NULL /\ loc[x].line_ # NULL ELSE loc[x].line_ = NULL
       /\ loc[x].owner_ => loc[x].ptr_ # NULL
       /\ x \notin alive => loc[x] = Blank
  /\ heap \in [Paths -> Places \cup {NULL}]
  /\ misfreed \in BOOLEAN
  /\ tidy \in BOOLEAN

(***************************************************************************)
(* Whatever the program does with its Locations, a path that is allocated  *)
(* has one owner, so that it is deleted once: none is lost and none is     *)
(* deleted twice.                                                          *)
(***************************************************************************)
OwnedOnce ==
  \A q \in Paths : heap[q] # NULL <=>
    \E x \in alive : loc[x].owner_ /\ loc[x].ptr_ = q
                     /\ \A y \in alive : loc[y].owner_ /\ loc[y].ptr_ = q => y = x

\* No path is deleted that is not allocated.
NoDoubleFree == ~ misfreed

(***************************************************************************)
(* As long as the program is tidy, the file name of every Location that is *)
(* known can be printed and is that of its line number.                    *)
(***************************************************************************)
KnownIsValid ==
  tidy => \A x \in alive : loc[x].known_ => heap[loc[x].ptr_] = loc[x].line_

(***************************************************************************)
(* What unknown_pc() returns for a Location without an object file is the  *)
(* address that was looked up, and never the file name that the union may  *)
(* hold or what was in memory.                                             *)
(***************************************************************************)
UnknownPcIsPc ==
  \A x \in alive : ~ loc[x].object /\ loc[x].name \in {"pre", "unknown"} => loc[x].pc
=============================================================================
