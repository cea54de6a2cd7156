----------------------------- MODULE SymbolTables -----------------------------
(***************************************************************************)
(* The function symbols of one object file: the table of disjoint ranges   *)
(* that they are inserted in (dwarf_symbol_ranges.h), and the threads that *)
(* look an address up, of which the first loads the symbols.               *)
(*                                                                         *)
(* The debug information is loaded at most once, and not before main() is  *)
(* reached; the ELF symbol table is loaded at most once, when an address   *)
(* is not found.  Both are loaded with the object file write-locked; what  *)
(* a thread reads while it holds a read lock is one step, and the caller   *)
(* uses the SymbolRange that find_symbol() returns without a lock.         *)
(***************************************************************************)
EXTENDS Integers, FiniteSets

CONSTANTS
  Threads,
  Main,       \* the thread that is alone until main() is reached
  End,        \* bound: addresses are less than this
  Symbols,    \* the symbols that a file may have
  NULL

Addresses == 0 .. End - 1

ASSUME EndAssumption == End \in Nat \ {0}
ASSUME ThreadsAssumption == Main \in Threads
ASSUME SymbolsAssumption ==
  \A s \in Symbols : s.start \in Addresses /\ s.end \in 0 .. End /\ s.elf \in BOOLEAN
ASSUME NullAssumption == NULL \notin Symbols \cup Threads

VARIABLES
  file,              \* the symbols of the object file
  table,             \* function_symbols_
  inserted,          \* the symbols that were inserted so far
  freed,             \* the symbols of which the copy of the name is freed
  dwarfed, elfed,    \* dwarf_symbols_loaded(), elf_symbols_loaded()
  writer, todo,      \* who has the write lock, and the symbols that it still has to insert
  main_reached,
  call               \* of a thread: where it is, the address and the SymbolRange it found

vars == <<file, table, inserted, freed, dwarfed, elfed, writer, todo, main_reached, call>>

\* A fragment of the symbol s.
Range(start, end, s) == [start |-> start, end |-> end, symbol |-> s]
Ranges == [start : Addresses, end : 1 .. End, symbol : Symbols]

Idle == [at |-> "idle", addr |-> 0, found |-> {}]

Init ==
  /\ file \in SUBSET Symbols
  /\ table = {}
  /\ inserted = {}
  /\ freed = {}
  /\ dwarfed = FALSE /\ elfed = FALSE
  /\ writer = NULL /\ todo = {}
  /\ main_reached = FALSE
  /\ call = [t \in Threads |-> Idle]
-----------------------------------------------------------------------------
Size(s) == s.end - s.start

\* new_symbol_range_wins(): does s win from the symbol q of an existing range?
WinsBySize(q, s) == Size(s) < Size(q)
WinsTies(q, s) == IF q.elf # s.elf THEN q.elf ELSE Size(s) <= Size(q)
Wins(q, s) == IF q.elf # s.elf THEN q.elf ELSE Size(s) < Size(q)

Overlapping(s) == {r \in table : r.start < s.end /\ s.start < r.end}
Losers(s) == {r \in Overlapping(s) : Wins(r.symbol, s)}

\* What is left of the existing ranges that s wins from.
Leftovers(s) ==
  {Range(r.start, s.start, r.symbol) : r \in {q \in Losers(s) : q.start < s.start}}
  \cup {Range(s.end, r.end, r.symbol) : r \in {q \in Losers(s) : s.end < q.end}}

\* pending_new_pieces: the maximal pieces of s that no existing range keeps.
PiecesUncut(s) == {Range(s.start, s.end, s)}
Pieces(s) ==
  LET keepers == Overlapping(s) \ Losers(s)
      starts == {s.start} \cup {r.end : r \in keepers}
      ends == {s.end} \cup {r.start : r \in keepers}
  IN {p \in {Range(b, e, s) : b \in starts, e \in ends} :
        /\ s.start <= p.start /\ p.start < p.end /\ p.end <= s.end
        /\ \A r \in keepers : r.end <= p.start \/ p.end <= r.start}

\* The name of an ELF symbol is freed when nothing of the symbol was inserted.
RefusedInPart(s) == s.elf /\ PiecesUncut(s) # Pieces(s)
Refused(s) == s.elf /\ Pieces(s) = {}

\* insert_function_symbol_range(); an empty range is ignored by its callers.
Insert(t) ==
  \E s \in todo :
    /\ writer = t
    /\ todo' = todo \ {s}
    /\ IF s.start < s.end
       THEN /\ table' = (table \ Losers(s)) \cup Leftovers(s) \cup Pieces(s)
            /\ inserted' = inserted \cup {s}
            /\ freed' = IF Refused(s) THEN freed \cup {s} ELSE freed
       ELSE UNCHANGED <<table, inserted, freed>>
    /\ UNCHANGED <<file, dwarfed, elfed, writer, main_reached, call>>
-----------------------------------------------------------------------------
At(t, where) == call[t].at = where
Goto(t, where) == call' = [call EXCEPT ![t].at = where]
tables == <<file, table, inserted, freed>>

\* get_symbol_range_from_function_symbols_map()
Containing(a) ==
  {r \in table : r.start <= a /\ a < r.end /\ \A q \in table : a < q.end => r.end <= q.end}

\* find_object_file(); until main() is reached only the thread Main runs.
Find(t, a) ==
  /\ At(t, "idle")
  /\ main_reached \/ t = Main
  /\ call' = [call EXCEPT ![t] = [at |-> "realize", addr |-> a, found |-> {}]]
  /\ UNCHANGED <<tables, dwarfed, elfed, writer, todo, main_reached>>

\* realize_symbols(), up to where the path of the debug information is looked for
Realize(t) ==
  /\ At(t, "realize")
  /\ writer = NULL
  /\ Goto(t, IF dwarfed \/ ~ main_reached THEN "symbol" ELSE "path")
  /\ UNCHANGED <<tables, dwarfed, elfed, writer, todo, main_reached>>

StartLoading(t, symbols) == writer' = t /\ todo' = symbols

LoadDwarf(t) ==
  /\ At(t, "path")
  /\ writer = NULL
  /\ IF dwarfed
     THEN Goto(t, "symbol") /\ UNCHANGED <<dwarfed, writer, todo>>
     ELSE /\ dwarfed' = TRUE
          /\ StartLoading(t, {s \in file : ~ s.elf})
          /\ Goto(t, "dwarf")
  /\ UNCHANGED <<tables, elfed, main_reached>>

DwarfLoaded(t) ==
  /\ At(t, "dwarf")
  /\ todo = {}
  /\ writer' = NULL
  /\ Goto(t, "symbol")
  /\ UNCHANGED <<tables, dwarfed, elfed, todo, main_reached>>

\* find_symbol(): does the symbol table have to be loaded?
FallsBackNever(a) == FALSE
FallsBack(a) == Containing(a) = {} /\ ~ elfed

FindSymbol(t) ==
  LET a == call[t].addr IN
  /\ At(t, "symbol")
  /\ writer = NULL
  /\ IF FallsBack(a)
     THEN /\ elfed' = TRUE
          /\ StartLoading(t, {s \in file : s.elf})
          /\ Goto(t, "elf")
     ELSE /\ call' = [call EXCEPT ![t] = [@ EXCEPT !.at = "found", !.found = Containing(a)]]
          /\ UNCHANGED <<elfed, writer, todo>>
  /\ UNCHANGED <<tables, dwarfed, main_reached>>

ElfLoaded(t) ==
  /\ At(t, "elf")
  /\ todo = {}
  /\ writer' = NULL
  /\ call' = [call EXCEPT ![t] = [@ EXCEPT !.at = "found", !.found = Containing(call[t].addr)]]
  /\ UNCHANGED <<tables, dwarfed, elfed, todo, main_reached>>

\* The caller has the name and the location of the symbol.
Return(t) ==
  /\ At(t, "found")
  /\ call' = [call EXCEPT ![t] = Idle]
  /\ UNCHANGED <<tables, dwarfed, elfed, writer, todo, main_reached>>

MainReached ==
  /\ ~ main_reached
  /\ At(Main, "idle")
  /\ main_reached' = TRUE
  /\ UNCHANGED <<tables, dwarfed, elfed, writer, todo, call>>

Next ==
  \/ MainReached
  \/ \E t \in Threads :
       \/ \E a \in Addresses : Find(t, a)
       \/ Realize(t) \/ LoadDwarf(t) \/ DwarfLoaded(t) \/ FindSymbol(t) \/ ElfLoaded(t)
       \/ Insert(t) \/ Return(t)

Spec == Init /\ [][Next]_vars
-----------------------------------------------------------------------------
(***************************************************************************)
(* The type invariant.  The table consists of fragments of symbols that    *)
(* do not overlap, so that the map has one range for every end address.    *)
(***************************************************************************)
TypeOK ==
  /\ file \subseteq Symbols /\ inserted \subseteq file
  /\ table \subseteq Ranges
  /\ \A r \in table : r.symbol.start <= r.start /\ r.start < r.end /\ r.end <= r.symbol.end
  /\ \A r, q \in table : r # q => r.end <= q.start \/ q.end <= r.start
  /\ freed \subseteq file
  /\ dwarfed \in BOOLEAN /\ elfed \in BOOLEAN /\ main_reached \in BOOLEAN
  /\ writer \in Threads \cup {NULL} /\ todo \subseteq file
  /\ call \in [Threads -> [at : {"idle", "realize", "path", "dwarf", "symbol", "elf", "found"},
                           addr : Addresses, found : SUBSET Ranges]]

OwnerOf(a) == IF \E r \in table : r.start <= a /\ a < r.end
              THEN (CHOOSE r \in table : r.start <= a /\ a < r.end).symbol
              ELSE NULL

Owners == INSTANCE AddressOwners WITH owner <- [a \in Addresses |-> OwnerOf(a)]

(***************************************************************************)
(* Cutting ranges into pieces implements the simple table that gives every *)
(* address to the best symbol, the first one if they are equally good.     *)
(***************************************************************************)
ImplementsAddressOwners == Owners!Spec

(***************************************************************************)
(* The SymbolRange that a thread uses without a lock stays in the table:   *)
(* loading the ELF symbols of an address of which there is no debug        *)
(* information does not disturb the ranges that there are.                 *)
(***************************************************************************)
FoundStays == \A t \in Threads : call[t].found \subseteq table

(***************************************************************************)
(* An address is only not found when no symbol covers it, and is found in  *)
(* the debug information, if that has it, once main() is reached.          *)
(***************************************************************************)
LookupFinds ==
  \A t \in Threads : At(t, "found") =>
    LET covering == {s \in file : Owners!Covers(s, call[t].addr) /\ (main_reached \/ s.elf)} IN
    /\ call[t].found = {} => covering = {}
    /\ \A r \in call[t].found, s \in covering : ~ s.elf => ~ r.symbol.elf

\* No range has a name that was freed.
NamesExist == \A r \in table : r.symbol \notin freed
=============================================================================
