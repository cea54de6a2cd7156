----------------------------- MODULE AddressOwners -----------------------------
(***************************************************************************)
(* What the table of function symbols of an object file promises: every    *)
(* address belongs to the best symbol that was added so far and covers it, *)
(* to the first of those that are equally good.                            *)
(***************************************************************************)
EXTENDS Integers

CONSTANTS Addresses, Symbols, NULL

VARIABLE owner

\* Debug information is better than the symbol table; else the smaller symbol is.
Better(s, q) ==
  \/ ~ s.elf /\ q.elf
  \/ s.elf = q.elf /\ s.end - s.start < q.end - q.start

Covers(s, a) == s.start <= a /\ a < s.end

Init == owner = [a \in Addresses |-> NULL]

Add(s) ==
  owner' = [a \in Addresses |->
              IF Covers(s, a) /\ (owner[a] = NULL \/ Better(s, owner[a])) THEN s ELSE owner[a]]

Next == \E s \in Symbols : Add(s)

Spec == Init /\ [][Next]_owner
=============================================================================
