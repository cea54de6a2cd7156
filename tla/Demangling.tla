------------------------------ MODULE Demangling ------------------------------
(***************************************************************************)
(* demangle_symbol() and demangle_type() of demangle.cxx, applied to the   *)
(* mangled name of a declaration or type, and the printing of the floating *)
(* literals that occur in one (DecimalFloat).  A behaviour demangles one   *)
(* name or prints one number.                                              *)
(***************************************************************************)
EXTENDS DecimalFloat, Mangling

CONSTANT Declarations       \* declarations and types, as in Mangling

VARIABLES declaration,      \* what has been mangled
          session,          \* the session of the demangler when it is done
          output            \* the demangled name

vars == <<fvars, declaration, session, output>>

IsType(d) == d.k = "type"
Mangled(d) == IF IsType(d) THEN Mangle(Start, d.of) ELSE Encoding(Start, d)
Written(d) == IF IsType(d) THEN Declare(d.of, <<>>, <<>>) ELSE Text(d)

None == [k |-> "none"]
Idle == NewSession(<<>>)

\* A number to print, or no number.
NoNumber ==
  /\ number = <<>> /\ bitCount = 0 /\ stage = "idle"
  /\ result = Zero /\ bit = Zero /\ power = Zero
  /\ printed = Nothing
  /\ exact = [limbs |-> <<>>, tens |-> 0, twos |-> 0]

Init == /\ session = Idle
        /\ output = <<>>
        /\ \/ declaration \in Declarations /\ NoNumber
           \/ declaration = None /\ FInit

CallDemangleSymbol ==
  /\ declaration # None /\ ~IsType(declaration) /\ session = Idle
  /\ LET tokens == Mangled(declaration).tokens
     IN /\ session' = AnEncoding(tokens)
        /\ output' = DemangleSymbol(<<"_Z">> \o tokens)
  /\ UNCHANGED <<declaration, fvars>>

CallDemangleType ==
  /\ declaration # None /\ IsType(declaration) /\ session = Idle
  /\ LET tokens == Mangled(declaration).tokens
     IN /\ session' = AType(NewSession(tokens), FALSE)
        /\ output' = DemangleType(tokens)
  /\ UNCHANGED <<declaration, fvars>>

Next == \/ CallDemangleSymbol
        \/ CallDemangleType
        \/ FNext /\ UNCHANGED <<declaration, session, output>>

Spec == Init /\ [][Next]_vars
-----------------------------------------------------------------------------
Spaceless(text) == SelectSeq(text, LAMBDA piece : piece # " ")
Demangled == session # Idle

\* What is demangled is the declaration that was mangled: the pointers, the
\* array and function declarators around a name, the arguments that template
\* parameters and substitutions stand for, qualifiers and return types, all in
\* their place; no name is given up.
RoundTrip == Demangled => Spaceless(output) = Written(declaration)

\* The position of a substitution stands for the entity that has that index in
\* the dictionary of the ABI: no candidate is added twice, too early or not at
\* all, and it is decoded as what it was the first time.  (A local name has two
\* sessions, and its index is not checked.)
Meaning(i) ==
  LET s == [session EXCEPT !.in = @ \o Indexed("S", i - 1, 36), !.pos = Len(session.in) + 1,
                           !.out = <<>>]
  IN AType(s, FALSE).out
SubstitutionsMatch ==
  (Demangled /\ declaration.k \notin {"local", "guard", "thunk"}) =>
    LET dict == Mangled(declaration).dict
        args == IF declaration.k = "function" THEN Last(declaration.path).args ELSE <<>>
    IN /\ Len(session.table) = Len(dict)
       /\ \A i \in DOMAIN dict : Spaceless(Meaning(i)) = Declare(dict[i], <<>>, args)

\* Pieces that would read as another token are separated: words, the > of two
\* template argument lists, and the < of an operator and of its arguments.
Word(piece) == piece \in Names \cup {"const", "volatile", "restrict", "complex", "operator", "sizeof",
                                    "true", "false"}
                        \cup {BuiltinTypes[c] : c \in DOMAIN BuiltinTypes}
Glued(a, b) == \/ Word(a) /\ Word(b)
               \/ a = ">" /\ b = ">"
               \/ a \in {"operator<", "operator<<"} /\ b = "<"
NeverGlued == \A i \in 2 .. Len(output) : ~Glued(output[i - 1], output[i])
=============================================================================
