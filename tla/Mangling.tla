-------------------------------- MODULE Mangling --------------------------------
(***************************************************************************)
(* The reference that the demangler is checked against: how the C++ ABI    *)
(* mangles a declaration, and how that declaration is written.  The ABI    *)
(* has one dictionary of the entities that were mentioned, in the order in *)
(* which they were completed, and replaces an entity that is in it by its  *)
(* index; the demangler has to rebuild it from positions in its input.     *)
(*                                                                         *)
(* A type is a record with its kind k.  A name is a sequence of components *)
(* with their template arguments (<<>> for none).  Mangled names are       *)
(* sequences of the tokens of Demangler; text is a sequence of pieces,     *)
(* without the spaces.                                                     *)
(***************************************************************************)
EXTENDS Demangler

Builtin(code) == [k |-> "builtin", code |-> code]
StdType(code) == [k |-> "std", code |-> code]
Pointer(t) == [k |-> "P", of |-> t]
Reference(t) == [k |-> "R", of |-> t]
Const(t) == [k |-> "K", of |-> t]
Complex(t) == [k |-> "C", of |-> t]
Array(n, t) == [k |-> "A", n |-> n, of |-> t]
Function(return, params) == [k |-> "F", return |-> return, params |-> params]
Member(class, t) == [k |-> "M", class |-> class, const |-> FALSE, of |-> t]
ConstMember(class, t) == [k |-> "M", class |-> class, const |-> TRUE, of |-> t]
Param(n) == [k |-> "T", n |-> n]
Class(path) == [k |-> "class", path |-> path]

Name(name) == [name |-> name, args |-> <<>>]
Template(name, args) == [name |-> name, args |-> args]
Conversion(t) == [name |-> "cv", args |-> <<>>, type |-> t]

\* Template arguments and expressions that are not types.
Literal(type, value) == [k |-> "literal", type |-> type, value |-> value]
Real(type, value) == [k |-> "real", type |-> type, value |-> value]
Address(declaration) == [k |-> "address", of |-> declaration]
Operation(op, operands) == [k |-> "op", op |-> op, operands |-> operands]
ValueParam(n) == [k |-> "N", n |-> n]
SizeOf(t) == [k |-> "sizeof", of |-> t]
Cast(t, e) == [k |-> "cast", type |-> t, of |-> e]
Values == {"N", "literal", "real", "address", "op", "sizeof", "cast"}

\* Declarations; a Local one is inside a function.
Data(path) == [k |-> "data", path |-> path]
Fun(path, const, return, params) ==
  [k |-> "function", path |-> path, const |-> const, return |-> return, params |-> params]
Special(code, t) == [k |-> "special", code |-> code, of |-> t]
Guard(declaration) == [k |-> "guard", of |-> declaration]
Thunk(code, function) == [k |-> "thunk", code |-> code, of |-> function]
Construction(class, base) == [k |-> "construction", class |-> class, base |-> base]
Local(function, entity) == [k |-> "local", function |-> function, entity |-> entity]
-----------------------------------------------------------------------------
(***************************************************************************)
(* Mangling: m has the tokens so far and the dictionary.                   *)
(***************************************************************************)
Start == [tokens |-> <<>>, dict |-> <<>>]
Write(m, tokens) == [m EXCEPT !.tokens = @ \o tokens]
Enter(m, entity) == [m EXCEPT !.dict = Append(@, entity)]
Known(m, entity) == \E i \in DOMAIN m.dict : m.dict[i] = entity

RECURSIVE Number(_, _)
Number(n, base) == (IF n < base THEN <<>> ELSE Number(n \div base, base))
                   \o <<SeqDigits[(n % base) + 1]>>
Indexed(letter, i, base) == <<letter>> \o (IF i = 0 THEN <<>> ELSE Number(i - 1, base)) \o <<"_">>
Mention(m, entity) ==
  Write(m, Indexed("S", (CHOOSE i \in DOMAIN m.dict : m.dict[i] = entity) - 1, 36))
Value(n) == IF n < 0 THEN <<"n">> \o Number(0 - n, 10) ELSE Number(n, 10)

Bare(path) == [path EXCEPT ![Len(path)].args = <<>>]      \* the template of path
IsStd(path) == path[1].name = "std"
Params(params) == IF params = <<>> THEN <<Builtin("v")>> ELSE params

RECURSIVE Mangle(_, _), MangleAll(_, _), Args(_, _), Component(_, _), LastOf(_, _, _), Prefix(_, _)
RECURSIVE MangleName(_, _, _), MangleValue(_, _), MangleCompound(_, _), Encoding(_, _)
MangleAll(m, seq) == FoldLeft(Mangle, m, seq)
Args(m, args) == IF args = <<>> THEN m ELSE Write(MangleAll(Write(m, <<"I">>), args), <<"E">>)

Component(m, component) ==
  IF component.name = "std" THEN Write(m, <<"St">>)
  ELSE IF component.name = "cv" THEN Mangle(Write(m, <<"cv">>), component.type)
  ELSE Write(m, <<component.name>>)

\* The last component of path after its prefix; of a template, the template
\* is an entity of its own.
LastOf(m, path, prefix) ==
  LET template == Class(Bare(path))
      named == Component(prefix, Last(path))
  IN IF Last(path).args = <<>> THEN named
     ELSE Args(IF Known(m, template) THEN Mention(m, template) ELSE Enter(named, template), Last(path).args)

Prefix(m, path) ==
  IF path = <<>> THEN m
  ELSE IF "k" \in DOMAIN path[1] /\ Len(path) = 1 THEN Mangle(m, path[1])
  ELSE IF path = <<Name("std")>> THEN Write(m, <<"St">>)
  ELSE IF Known(m, Class(path)) THEN Mention(m, Class(path))
  ELSE Enter(LastOf(m, path, Prefix(m, Front(path))), Class(path))

IsNested(path) == Len(path) > (IF "name" \in DOMAIN path[1] /\ IsStd(path) THEN 2 ELSE 1)
MangleName(m, path, const) ==
  IF ~IsNested(path) THEN LastOf(m, path, Prefix(m, Front(path)))
  ELSE LET n == Write(m, IF const THEN <<"N", "K">> ELSE <<"N">>)
       IN Write(LastOf(n, path, Prefix(n, Front(path))), <<"E">>)

MangleValue(m, e) ==
  CASE e.k = "N" -> Write(m, Indexed("T", e.n, 10))
    [] e.k = "literal" -> Write(Write(Mangle(Write(m, <<"L">>), e.type), Value(e.value)), <<"E">>)
    [] e.k = "real" -> Write(Mangle(Write(m, <<"L">>), e.type), <<e.value, "E">>)
    [] e.k = "address" -> Write(Encoding(Write(m, <<"L", "_", "Z">>), e.of), <<"E">>)
    [] e.k = "op" -> MangleAll(Write(m, <<e.op>>), e.operands)
    [] e.k = "sizeof" -> Mangle(Write(m, <<"st">>), e.of)
    [] e.k = "cast" -> Mangle(Mangle(Write(m, <<"cv">>), e.type), e.of)

\* A template argument that is an expression.
Argument(e) == [k |-> "X", of |-> e]

MangleCompound(m, t) ==
  CASE t.k \in {"P", "R", "K", "C"} -> Mangle(Write(m, <<t.k>>), t.of)
    [] t.k = "A" -> Mangle(Write(m, <<"A">> \o Number(t.n, 10) \o <<"_">>), t.of)
    [] t.k = "F" -> Write(MangleAll(Mangle(Write(m, <<"F">>), t.return), Params(t.params)), <<"E">>)
    [] t.k = "M" -> LET class == Mangle(Write(m, <<"M">>), t.class)
                    IN Mangle(IF t.const THEN Write(class, <<"K">>) ELSE class, t.of)
    [] t.k = "class" -> MangleName(m, t.path, FALSE)

Mangle(m, t) ==
  CASE t.k \in {"builtin", "std"} -> Write(m, <<t.code>>)
    [] t.k = "X" -> Write(Mangle(Write(m, <<"X">>), t.of), <<"E">>)
    [] t.k \in Values -> MangleValue(m, t)
    [] OTHER -> IF Known(m, t) THEN Mention(m, t)
                ELSE IF t.k = "T" THEN Enter(Write(m, Indexed("T", t.n, 10)), t)
                ELSE Enter(MangleCompound(m, t), t)

\* A function template has its return type, constructors and conversions not.
Returns(path) == Last(path).args # <<>> /\ Last(path).name \notin {"C1", "cv"}

Encoding(m, d) ==
  CASE d.k = "data" -> MangleName(m, d.path, FALSE)
    [] d.k = "function" ->
         LET name == MangleName(m, d.path, d.const)
         IN MangleAll(IF Returns(d.path) THEN Mangle(name, d.return) ELSE name, Params(d.params))
    [] d.k = "special" -> Mangle(Write(m, <<"T", d.code>>), d.of)
    [] d.k = "guard" -> Encoding(Write(m, <<"G", "V">>), d.of)
    [] d.k = "thunk" -> Encoding(Write(m, <<"T">> \o d.code), d.of)
    [] d.k = "construction" -> Mangle(Write(Mangle(Write(m, <<"T", "C">>), d.class), <<"0", "_">>), d.base)
    [] d.k = "local" -> Encoding(Write(Encoding(Write(m, <<"Z">>), d.function), <<"E">>), d.entity)
-----------------------------------------------------------------------------
(***************************************************************************)
(* Text: a declarator is written around what is declared, from the inside  *)
(* out; args are the arguments that the template parameters stand for.     *)
(***************************************************************************)
RECURSIVE Declare(_, _, _), Types(_, _), ParamText(_, _), ComponentText(_, _, _), PathText(_, _)
RECURSIVE ValueText(_, _), Text(_)

Separated(texts) ==
  IF texts = <<>> THEN <<>> ELSE FoldLeft(LAMBDA a, b : a \o <<",">> \o b, texts[1], Tail(texts))
Types(types, args) == Separated([i \in DOMAIN types |-> Declare(types[i], <<>>, args)])
ParamText(params, args) == <<"(">> \o Types(params, args) \o <<")">>

ComponentText(path, i, args) ==
  LET c == path[i]
  IN IF "k" \in DOMAIN c THEN Declare(c, <<>>, args)
     ELSE (CASE c.name = "C1" -> <<path[i - 1].name>>
         [] c.name = "D1" -> <<"~", path[i - 1].name>>
         [] c.name = "cv" -> <<"operator">> \o Declare(c.type, <<>>, args)
         [] c.name \in DOMAIN SymbolNameTable -> <<"operator" \o SymbolNameTable[c.name].symbol>>
         [] c.name = Anonymous -> <<"(anonymous namespace)">>
         [] OTHER -> <<c.name>>)
       \o (IF c.args = <<>> THEN <<>> ELSE <<"<">> \o Types(c.args, args) \o <<">">>)
PathText(path, args) ==
  FoldLeft(LAMBDA text, i : text \o <<"::">> \o ComponentText(path, i, args),
           ComponentText(path, 1, args), [i \in 1 .. Len(path) - 1 |-> i + 1])

Parenthesized(text) == <<"(">> \o text \o <<")">>
Decimals(n) == IF n < 0 THEN <<"-">> \o Number(0 - n, 10) ELSE Number(n, 10)
ValueText(e, args) ==
  LET OperandText(i) == Parenthesized(Declare(e.operands[i], <<>>, args))
      symbol == SymbolNameTable[e.op].symbol
      binary == OperandText(1) \o <<symbol>> \o OperandText(2)
      castTo == Parenthesized(Declare(e.type, <<>>, args))
  IN CASE e.k = "N" -> Declare(args[e.n + 1], <<>>, args)
       [] e.k = "literal" -> IF e.type = Builtin("b") THEN <<IF e.value = 0 THEN "false" ELSE "true">>
                             ELSE (IF e.type = Builtin("i") THEN <<>> ELSE castTo) \o Decimals(e.value)
       [] e.k = "real" -> castTo \o <<e.value>>
       [] e.k = "address" -> Text(e.of)
       [] e.k = "sizeof" -> <<"sizeof">> \o Parenthesized(Declare(e.of, <<>>, args))
       [] e.k = "cast" -> castTo \o Parenthesized(Declare(e.of, <<>>, args))
       [] e.k = "op" /\ Len(e.operands) = 1 -> <<symbol>> \o OperandText(1)
       [] e.k = "op" /\ Len(e.operands) = 3 -> binary \o <<":">> \o OperandText(3)
       [] e.k = "op" /\ Len(e.operands) = 2 -> IF e.op = "gt" THEN Parenthesized(binary) ELSE binary

Declare(t, inner, args) ==
  LET Around(text) == IF t.of.k = "A" THEN <<"(">> \o text \o inner \o <<")">> ELSE text \o inner
      class == Declare(t.class, <<>>, args)
  IN CASE t.k = "builtin" -> <<BuiltinTypes[t.code]>> \o inner
       [] t.k = "std" -> <<"std", "::", StandardSubstitutions[t.code]>> \o inner
       [] t.k = "class" -> PathText(t.path, args) \o inner
       [] t.k = "T" -> Declare(args[t.n + 1], inner, args)
       [] t.k = "P" -> Declare(t.of, Around(<<"*">>), args)
       [] t.k = "R" -> Declare(t.of, Around(<<"&">>), args)
       [] t.k = "K" -> Declare(t.of, <<"const">> \o inner, args)
       [] t.k = "C" -> <<"complex">> \o Declare(t.of, inner, args)
       [] t.k = "A" -> Declare(t.of, inner \o <<"[">> \o Number(t.n, 10) \o <<"]">>, args)
       [] t.k = "F" -> Declare(t.return, Parenthesized(inner) \o ParamText(t.params, args), args)
       [] t.k = "M" /\ t.of.k # "F" -> Declare(t.of, Around(class \o <<"::", "*">>), args)
       [] t.k = "M" /\ t.of.k = "F" ->
            Declare(t.of.return,
                    Parenthesized(class \o <<"::", "*">> \o inner) \o ParamText(t.of.params, args)
                    \o (IF t.const THEN <<"const">> ELSE <<>>), args)
       [] t.k = "X" -> Declare(t.of, inner, args)
       [] t.k \in Values -> ValueText(t, args)

SpecialText == [V |-> <<"vtable", "for">>, T |-> <<"VTT", "for">>, I |-> <<"typeinfo", "for">>,
                S |-> <<"typeinfo", "name", "for">>]
ThunkText == [h |-> <<"non-virtual", "thunk", "to">>, v |-> <<"virtual", "thunk", "to">>,
              c |-> <<"covariant", "return", "thunk", "to">>]

Text(d) ==
  CASE d.k = "data" -> PathText(d.path, <<>>)
    [] d.k = "function" ->
         LET args == Last(d.path).args
             function == PathText(d.path, args) \o ParamText(d.params, args)
                         \o (IF d.const THEN <<"const">> ELSE <<>>)
         IN IF Returns(d.path) THEN Declare(d.return, function, args) ELSE function
    [] d.k = "special" -> SpecialText[d.code] \o Declare(d.of, <<>>, <<>>)
    [] d.k = "guard" -> <<"guard", "variable", "for">> \o Text(d.of)
    [] d.k = "thunk" -> ThunkText[d.code[1]] \o Text(d.of)
    [] d.k = "construction" -> <<"construction", "vtable", "for">> \o Declare(d.base, <<>>, <<>>)
                               \o <<"-in-">> \o Declare(d.class, <<>>, <<>>)
    [] d.k = "local" -> Text(d.function) \o <<"::">> \o Text(d.entity)
=============================================================================
