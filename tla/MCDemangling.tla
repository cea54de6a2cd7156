----------------------------- MODULE MCDemangling -----------------------------
(***************************************************************************)
(* The declarations and numbers of the runs of Demangling.                 *)
(***************************************************************************)
EXTENDS Demangling, FiniteSets

MCNames == {"f1", "g1", "A1", "B1", "X1", "x1", Anonymous}
MCReals == {"3fc00000", "c008000000000000"}

F(name, return, params) == Fun(<<name>>, FALSE, return, params)
f == Name("f1")
A == Class(<<Name("A1")>>)
AB == Class(<<Name("A1"), Name("B1")>>)
AOf(args) == Class(<<Template("A1", args)>>)
ABOf(args) == Class(<<Name("A1"), Template("B1", args)>>)
StdX == Class(<<Name("std"), Name("X1")>>)
StdXB == Class(<<Name("std"), Template("X1", <<Builtin("c")>>), Name("B1")>>)
int == Builtin("i")
char == Builtin("c")
string == StdType("Ss")
IntLiteral(n) == Literal(int, n)
T == Param(0)

\* A type, what can be made of it, and what can be made of that.
Made(t) == {Pointer(t), Reference(t), Const(t), Pointer(Const(t)), Complex(t),
            Array(2, t), Pointer(Array(3, Array(2, t))), Array(2, Pointer(Array(3, t))),
            Pointer(Array(2, Const(t))), Member(AB, t), Pointer(Member(A, Pointer(t))),
            ABOf(<<t, Const(t)>>)}
MadeOfFunctions(t) ==
  {Pointer(Function(t, <<t>>)), Member(A, Function(int, <<t>>)),
   ConstMember(A, Function(t, <<t, t>>)),
   Pointer(Function(Pointer(Function(t, <<char>>)), <<Reference(Function(A, <<>>))>>))}
Simple == {int, A, AB, AOf(<<int>>), StdX, StdXB, string}
AllTypes == Simple \cup UNION {Made(t) \cup MadeOfFunctions(t) : t \in {int, A, StdXB, string, AOf(<<int>>)}}

\* Functions of two parameters, that share parts.
Plain == {F(f, int, <<a, b>>) : a, b \in AllTypes}

\* A function template; the return type is part of its name.
Arguments == {t \in Simple \cup UNION {Made(u) : u \in {int, StdXB}} : t.k \notin {"R", "K", "A"}}
Dependent == {A, T, Const(T), Reference(T), Pointer(Const(T)), Pointer(Function(T, <<T>>)),
              Member(A, T), AOf(<<T, Pointer(T)>>)}
Templates == {F(Template("f1", <<a>>), r, <<b, T>>) : a \in Arguments, r \in {int, Pointer(T)},
                                                          b \in Dependent}

\* Members, constructors, operators and conversions, also of templates.
Scopes == {<<Name("A1")>>, <<Name("A1"), Name("B1")>>, <<Template("A1", <<int>>)>>,
           <<Name("A1"), Template("B1", <<AOf(<<int>>)>>)>>, StdX.path}
MemberNames == {f, Name("C1"), Template("C1", <<char>>), Name("ls"), Template("ls", <<char>>),
                Template("lt", <<AOf(<<char>>)>>), Conversion(Pointer(char)), Conversion(A),
                Conversion(AB), Conversion(AOf(<<int>>))}
Members ==
  {Fun(scope \o <<name>>, const, int, <<t, Pointer(t)>>) :
     scope \in Scopes, name \in MemberNames, const \in BOOLEAN, t \in {int, A, AB, ABOf(<<AOf(<<int>>)>>)}}
  \cup {Fun(scope \o <<Name("D1")>>, FALSE, int, <<>>) : scope \in Scopes}

\* Literals and expressions.  The addresses mention nothing that the dictionary holds or gets:
\* the demangler reads an address with a dictionary of its own, where the ABI has one for the name.
Literals == {IntLiteral(5), IntLiteral(-3), Literal(Builtin("b"), 1), Literal(Builtin("l"), 12),
             Real(Builtin("f"), "3fc00000"), Real(Builtin("d"), "c008000000000000"),
             Address(F(f, int, <<int>>)), Address(Data(<<Name("x1")>>)), Address(Data(<<Name("std"), Name("x1")>>))}
N == ValueParam(1)
Expressions == {Operation("pl", <<N, IntLiteral(1)>>), Operation("gt", <<N, IntLiteral(1)>>), Operation("ng", <<N>>),
                Operation("qu", <<N, N, IntLiteral(2)>>), SizeOf(T), Cast(T, N)}
Constants ==
  {F(Template("f1", <<a, b>>), int, <<A>>) : a, b \in Literals}
  \cup {F(Template("f1", <<a, IntLiteral(3)>>), int, <<AOf(<<Argument(e)>>), b>>) :
          a, b \in {int, A}, e \in Expressions}

\* More than 36 substitutions, so that an index has two digits.
Pointers == [n \in 1 .. 20 |-> Pointer(AOf(<<IntLiteral(n)>>))]
Long == {F(f, int, Pointers \o <<Pointers[n]>>) : n \in {1, 2, 9, 17, 18, 19, 20}}

x == Data(<<Name("x1")>>)
fA == F(f, int, <<A>>)
Locals == {Local(fA, x), Local(fA, Data(<<Name("B1"), Name("x1")>>)),
           Local(fA, Fun(<<Name("B1"), Name("g1")>>, FALSE, int, <<int>>))}
Others ==
  {Data(<<Name(n), Name("x1")>>) : n \in {"A1", Anonymous, "std"}}
  \cup {Special(code, t) : code \in DOMAIN SpecialText, t \in Simple}
  \cup {Construction(a, b) : a, b \in Simple \ {int, string}}
  \cup {Thunk(code, Fun(<<Name("A1"), Name("f1")>>, TRUE, int, <<A>>)) :
          code \in {<<"h", "n", "8", "_">>, <<"v", "0", "_", "n", "1", "2", "_">>}}
  \cup Locals \cup {Guard(Local(fA, x)), Guard(Data(<<Name("A1"), Name("x1")>>))}

MCDeclarations == Plain \cup Templates \cup Members \cup Constants \cup Long \cup Others
                  \cup {[k |-> "type", of |-> t] : t \in AllTypes}

-----------------------------------------------------------------------------
Bits(n, width) == [i \in 1 .. width |-> (n \div 2 ^ (width - i)) % 2]
Single(exponent, fraction) == <<0>> \o Bits(exponent, 8) \o Bits(fraction, 23)
Double(exponent, high, low) == <<1>> \o Bits(exponent, 11) \o Bits(high, 26) \o Bits(low, 26)
MCNumbers ==
  {Single(e, n) : e \in {0, 1, 2, 60, 126, 127, 128, 150, 254, 255},
                  n \in {0, 1, 4194304, 5592405, 7654321, 8388607}}
  \cup {Double(e, h, l) : e \in {1000, 1023, 1060}, h \in {0, 44739242, 67108863}, l \in {0, 12345678}}
=============================================================================
