---------------------------- MODULE MCSymbolTables ----------------------------
(* Instances of SymbolTables for TLC. *)
EXTENDS SymbolTables, TLC

Symbol(name, start, end, elf) == [name |-> name, start |-> start, end |-> end, elf |-> elf]

\* A function with one nested in it and one of the same size that it overlaps, and ELF symbols
\* of which some are smaller than the debug information that they overlap.  One is empty.
SomeSymbols ==
  {Symbol("outer", 0, 4, FALSE), Symbol("inner", 1, 2, FALSE), Symbol("other", 1, 5, FALSE),
   Symbol("none", 2, 2, FALSE),
   Symbol("text", 0, 6, TRUE), Symbol("alias", 2, 4, TRUE), Symbol("twin", 3, 5, TRUE)}

Others == Threads \ {Main}
Symmetric == Permutations(Others)
=============================================================================
