------------------------------- MODULE Demangler -------------------------------
(***************************************************************************)
(* The demangler of cwd_demangle.h, in its default style.  A mangled name  *)
(* is a sequence of tokens: a <source-name> is one token, of Names, and so *)
(* are the two letters of an operator, of a constructor and of a standard  *)
(* substitution; every other token is one character.  Text is a sequence   *)
(* of pieces, in which a space is a piece of its own.                      *)
(*                                                                         *)
(* A decoder takes and returns a session, that has the members of the      *)
(* class (without their underscore), the text that was output so far and   *)
(* the qualifier list of the <type> that is being decoded.  A session that *)
(* failed stays as it is: the program returns from every decoder.          *)
(***************************************************************************)
EXTENDS Integers, Sequences, SequencesExt, FiniteSetsExt, TLC

CONSTANTS
  Names,              \* the <source-name>s
  Reals,              \* the encodings of floating point literals
  MaxInsideType       \* 20: nesting of types in which nothing is looked up anymore

Anonymous == "_GLOBAL__N_"        \* the name of an unnamed namespace

Decimal == {"0", "1", "2", "3", "4", "5", "6", "7", "8", "9"}
SeqDigits == <<"0", "1", "2", "3", "4", "5", "6", "7", "8", "9", "A", "B", "C", "D", "E", "F", "G", "H",
               "I", "J", "K", "L", "M", "N", "O", "P", "Q", "R", "S", "T", "U", "V", "W", "X", "Y", "Z">>
DigitValue(c) == (CHOOSE i \in DOMAIN SeqDigits : SeqDigits[i] = c) - 1

BuiltinTypes ==
  [a |-> "signed char", b |-> "bool", c |-> "char", d |-> "double", e |-> "long double",
   f |-> "float", g |-> "__float128", h |-> "unsigned char", i |-> "int",
   j |-> "unsigned int", l |-> "long", m |-> "unsigned long", n |-> "__int128",
   o |-> "unsigned __int128", s |-> "short", t |-> "unsigned short", v |-> "void",
   w |-> "wchar_t", x |-> "long long", y |-> "unsigned long long", z |-> "..."]

\* symbol_name_table_c: the operator, its number of arguments in an expression.
Operator(symbol, arity) == [symbol |-> symbol, arity |-> arity]
SymbolNameTable ==
  [aa |-> Operator("&&", 2), na |-> Operator("new[]", 1), le |-> Operator("<=", 2),
   ad |-> Operator("&", 1), da |-> Operator("delete[]", 1), ne |-> Operator("!=", 2),
   mi |-> Operator("-", 2), mI |-> Operator("-=", 2), ng |-> Operator("-", 1),
   de |-> Operator("*", 1), ml |-> Operator("*", 2), mL |-> Operator("*=", 2),
   mm |-> Operator("--", 1), cl |-> Operator("()", 1), cm |-> Operator(",", 2),
   an |-> Operator("&", 2), aN |-> Operator("&=", 2), co |-> Operator("~", 2),
   dl |-> Operator("delete", 1), ls |-> Operator("<<", 2), lS |-> Operator("<<=", 2),
   lt |-> Operator("<", 2), aS |-> Operator("=", 2), ge |-> Operator(">=", 2),
   nt |-> Operator("!", 1), rm |-> Operator("%", 2), rM |-> Operator("%=", 2),
   eo |-> Operator("^", 2), eO |-> Operator("^=", 2), nw |-> Operator("new", 1),
   eq |-> Operator("==", 2), dv |-> Operator("/", 2), dV |-> Operator("/=", 2),
   qu |-> Operator("?", 3), rs |-> Operator(">>", 2), rS |-> Operator(">>=", 2),
   pl |-> Operator("+", 2), pL |-> Operator("+=", 2), pm |-> Operator("->*", 2),
   oo |-> Operator("||", 2), pp |-> Operator("++", 1), or |-> Operator("|", 2),
   oR |-> Operator("|=", 2), gt |-> Operator(">", 2), ps |-> Operator("+", 1),
   pt |-> Operator("->", 2), ix |-> Operator("[]", 1)]
SpacedForgetsLess(op) == op \in {"ls", "lS"}
Spaced(op) == op \in {"ls", "lS", "lt"}     \* hash 16 and 17

StandardSubstitutions ==
  [Sa |-> "allocator", Sb |-> "basic_string", Sd |-> "iostream", Si |-> "istream",
   So |-> "ostream", Ss |-> "string"]
-----------------------------------------------------------------------------
NewSession(in) ==
  [in |-> in, pos |-> 1, ok |-> TRUE, insideTemplateArgs |-> 0, insideType |-> 0,
   insideSubstitution |-> 0, sawDestructor |-> FALSE, isCdtor |-> FALSE,
   isTemplate |-> FALSE, isConversion |-> FALSE, needSpace |-> FALSE,
   functionName |-> <<>>, argPos |-> <<>>, argOffset |-> 0, table |-> <<>>,
   out |-> <<>>, aliased |-> FALSE,     \* aliased: output is function_name_ itself
   postfix |-> <<>>, nameQualifiers |-> <<>>, qualifiers |-> <<>>, suppressed |-> FALSE]

Current(s) == IF s.pos \in DOMAIN s.in THEN s.in[s.pos] ELSE ""
AtEnd(s) == Current(s) \in {"", "E"}
Eat(s) == [s EXCEPT !.pos = @ + 1]
Fail(s) == [s EXCEPT !.ok = FALSE]
Expect(s, token) == IF s.ok /\ Current(s) = token THEN Eat(s) ELSE Fail(s)
IsDigit(c) == c \in Decimal \cup Names

Output(s) == IF s.aliased THEN s.functionName ELSE s.out
Put(s, text) == IF s.aliased THEN [s EXCEPT !.functionName = @ \o text]
                             ELSE [s EXCEPT !.out = @ \o text]
Begins(s, text) == IF s.ok THEN Put(s, text) ELSE s

\* A decoder that gets a string of its caller, and back to the caller's output.
Fresh(s) == [s EXCEPT !.out = <<>>, !.aliased = FALSE]
Resume(s, caller) == [s EXCEPT !.out = caller.out, !.aliased = caller.aliased]

AddSubstitution(s, start, kind, prefixes) ==
  IF s.insideSubstitution > 0 \/ ~s.ok THEN s
  ELSE [s EXCEPT !.table = Append(@, [start |-> start, kind |-> kind, prefixes |-> prefixes])]

RECURSIVE EatDigits(_)
EatDigits(s) == IF Current(s) \in Decimal THEN EatDigits(Put(Eat(s), <<Current(s)>>)) ELSE s

NonNegativeInteger(s) ==
  IF Current(s) \notin Decimal THEN Fail(s)
  ELSE IF Current(s) = "0" THEN Put(Eat(s), <<"0">>) ELSE EatDigits(s)

DecodeNumber(s) ==
  IF ~s.ok THEN s
  ELSE IF Current(s) = "n" THEN NonNegativeInteger(Put(Eat(s), <<"-">>)) ELSE NonNegativeInteger(s)

\* The number in base 10 or 36, and 0 when there is none, up to the "_".
RECURSIVE SeqId(_, _, _)
SeqId(s, base, value) ==
  IF Current(s) \in ToSet(SubSeq(SeqDigits, 1, base))
    THEN SeqId(Eat(s), base, base * value + DigitValue(Current(s)))
    ELSE [s |-> Expect(s, "_"), value |-> value]
Index(s, base) ==
  IF Current(s) = "_" THEN [s |-> Eat(s), value |-> 0]
  ELSE LET id == SeqId(s, base, 0) IN [id EXCEPT !.value = @ + 1]

DecodeBuiltinType(s) ==
  IF Current(s) \in DOMAIN BuiltinTypes THEN Put(Eat(s), <<BuiltinTypes[Current(s)]>>) ELSE Fail(s)

DecodeSourceName(s) ==
  IF ~s.ok \/ Current(s) \notin Names THEN Fail(s)
  ELSE Put(Eat(s), <<IF Current(s) = Anonymous THEN "(anonymous namespace)" ELSE Current(s)>>)

\* The decoders below call each other by the production they decode.
RECURSIVE Decode(_, _, _)
AType(s, shared) == Decode("type", s, shared)
ATypeBeforePostfix(s, shared) == Decode("type_with_postfix", s, shared)
AnUnqualifiedType(s, shared) == Decode("unqualified_type", s, shared)
AQualifiedType(s, shared) == Decode("qualified_type", s, shared)
AName(s) == Decode("name", s, FALSE)
AnUnqualifiedName(s) == Decode("unqualified_name", s, FALSE)
ASubstitution(s, shared) == Decode("substitution", s, shared)
ATemplateParam(s, shared) == Decode("template_param", s, shared)
TemplateArgs(s) == Decode("template_args", s, FALSE)
AnExpression(s) == Decode("expression", s, FALSE)
ALiteral(s) == Decode("literal", s, FALSE)
ABareFunctionType(s) == Decode("bare_function_type", s, FALSE)
AnEncoding(in) == Decode("encoding", NewSession(in), FALSE)
-----------------------------------------------------------------------------
\* std:: abbreviations; shared says that the caller passed its qualifier list.
StandardSubstitution(s, shared) ==
  LET name == StandardSubstitutions[Current(s)]
      t == Put(Eat(s), <<"std", "::", name>>)
      named == [t EXCEPT !.functionName = <<name>>, !.isTemplate = TRUE,
                         !.isCdtor = FALSE, !.isConversion = FALSE]
  IN [(IF s.insideTemplateArgs = 0 THEN named ELSE t) EXCEPT !.suppressed = @ \/ shared]

\* The prefixes of a nested name, decoded again.
RECURSIVE SubstitutedPrefixes(_, _, _)
SubstitutedPrefixes(s, left, prefixes) ==
  IF left = 0 \/ ~s.ok THEN s
  ELSE LET spaced == [(IF s.needSpace THEN Put(s, <<" ">>) ELSE s) EXCEPT !.needSpace = FALSE]
           scoped == IF left < prefixes THEN Put(s, <<"::">>) ELSE s
       IN SubstitutedPrefixes(IF Current(s) = "I" THEN TemplateArgs(spaced)
                   ELSE IF Current(s) = "S" \/ Current(s) \in DOMAIN StandardSubstitutions \cup {"St"}
                     THEN ASubstitution(scoped, FALSE)
                     ELSE AnUnqualifiedName(scoped),
                   left - 1, prefixes)

DecodeUnscopedName(s) ==
  IF ~s.ok THEN s
  ELSE AnUnqualifiedName(IF Current(s) = "St" THEN Put(Eat(s), <<"std", "::">>) ELSE s)

Suppressed(s, shared) == IF shared THEN [s EXCEPT !.suppressed = TRUE] ELSE s

NumberedSubstitution(s, shared) ==
  LET id == Index(Eat(s), 36)
      entry == id.s.table[id.value + 1]
      inside == [id.s EXCEPT !.insideSubstitution = @ + 1, !.pos = entry.start]
      decoded == CASE entry.kind = "type" -> AType(inside, shared)
                   [] entry.kind = "template_template_param" -> ATemplateParam(inside, FALSE)
                   [] entry.kind = "nested_name_prefix" ->
                        Suppressed(SubstitutedPrefixes(inside, entry.prefixes, entry.prefixes), shared)
                   [] entry.kind = "unscoped_template_name" ->
                        Suppressed(DecodeUnscopedName(inside), shared)
  IN IF ~id.s.ok \/ id.value >= Len(s.table) \/ s.insideType > MaxInsideType THEN Fail(s)
     ELSE [decoded EXCEPT !.pos = id.s.pos, !.insideSubstitution = @ - 1]

DecodeSubstitution(s, shared) ==
  IF ~s.ok THEN s
  ELSE IF Current(s) \in DOMAIN StandardSubstitutions THEN StandardSubstitution(s, shared)
  ELSE IF Current(s) = "St" THEN Suppressed(Put(Eat(s), <<"std">>), shared)
  ELSE NumberedSubstitution(s, shared)

\* The number is printed by decode_real, see DecimalFloat; types it refuses
\* are printed as they are encoded.
DecodeReal(s, refused) ==
  IF ~s.ok \/ Current(s) \notin Reals THEN Fail(s)
  ELSE Put(Eat(s), IF refused THEN <<"[", Current(s), "]">> ELSE <<Current(s)>>)

DecodeLiteral(s) ==
  LET c == Current(Eat(s))
      typed == IF c = "i" THEN Eat(Eat(s))
               ELSE Begins(AType(Put(Eat(s), <<"(">>), FALSE), <<")">>)
      external == Expect(Expect(Eat(s), "_"), "Z")
      encoding == AnEncoding(SubSeq(s.in, external.pos, Len(s.in)))
  IN IF c = "_"
       THEN IF external.ok /\ encoding.ok
              THEN Put([external EXCEPT !.pos = @ + encoding.pos - 1], encoding.out)
              ELSE Fail(s)
     ELSE IF c = "b"
       THEN Put(Eat(Eat(Eat(s))), <<IF Current(Eat(Eat(s))) = "0" THEN "false" ELSE "true">>)
     ELSE IF c \in {"d", "e", "f", "g"} THEN DecodeReal(typed, c \in {"e", "g"}) ELSE DecodeNumber(typed)

\* A conversion to a template parameter makes the argument list that follows
\* its T_ the template arguments.
DecodeConversion(s) ==
  LET t == Put(Eat(s), <<"operator", " ">>)
      param == IF Current(t) # "T" THEN t
               ELSE [t EXCEPT !.argOffset = Len(t.argPos), !.argPos = Append(@, t.pos + 3)]
      typed == AType(param, FALSE)
  IN [typed EXCEPT !.isConversion = @ \/ typed.insideTemplateArgs = 0]

DecodeOperatorName(s) ==
  LET op == Current(s)
  IN IF op = "cv" THEN DecodeConversion(s)
     ELSE IF op \notin DOMAIN SymbolNameTable THEN Fail(s)
     ELSE [Put(Eat(s), <<"operator" \o SymbolNameTable[op].symbol>>)
             EXCEPT !.needSpace = @ \/ Spaced(op)]

\* (operand), or nothing after a failure.
Operand(s) == Begins(AnExpression(Begins(s, <<"(">>)), <<")">>)
Infix(s, text) == Begins(s, <<" ", text, " ">>)

DecodeOperation(s) ==
  LET op == SymbolNameTable[Current(s)]
      guarded == Current(s) = "gt" /\ s.insideTemplateArgs > 0
      t == IF op.arity = 1 THEN Put(Eat(s), <<op.symbol>>) ELSE Eat(s)
      first == Operand(IF guarded THEN Put(t, <<"(">>) ELSE t)
      second == Operand(Infix(first, op.symbol))
      closed == IF guarded THEN Begins(second, <<")">>) ELSE second
  IN CASE op.arity = 1 -> first
       [] op.arity = 2 -> closed
       [] op.arity = 3 -> Operand(Infix(closed, ":"))

DecodeExpression(s) ==
  LET c == Current(s)
      sizeof == Put(Eat(s), <<"sizeof", " ", "(">>)
      dependent == AnUnqualifiedName(Begins(AType(Eat(s), FALSE), <<"::">>))
  IN IF ~s.ok THEN s
     ELSE CASE c = "T" -> ATemplateParam(s, FALSE)
            [] c = "L" -> Expect(ALiteral(s), "E")
            [] c = "st" -> Begins(AType(sizeof, FALSE), <<")">>)
            [] c = "sz" -> Begins(AnExpression(sizeof), <<")">>)
            [] c = "sr" -> IF Current(dependent) = "I" THEN TemplateArgs(dependent) ELSE dependent
            [] c = "cv" -> Operand(Begins(AType(Put(Eat(s), <<"(">>), FALSE), <<")">>))
            [] c \in DOMAIN SymbolNameTable -> DecodeOperation(s)
            [] OTHER -> Fail(s)

\* The parameter is decoded where the template argument is.
DecodeTemplateParam(s, shared) ==
  LET id == Index(Expect(s, "T"), 10)
      index == id.value + id.s.argOffset
      inside == [id.s EXCEPT !.insideSubstitution = @ + 1, !.pos = id.s.argPos[index + 1]]
      decoded == CASE Current(inside) = "X" -> AnExpression(Eat(inside))
                   [] Current(inside) = "L" -> ALiteral(inside)
                   [] OTHER -> AType(inside, shared)
  IN IF ~s.ok \/ ~id.s.ok \/ index >= Len(id.s.argPos) \/ s.insideType > MaxInsideType THEN Fail(s)
     ELSE [decoded EXCEPT !.pos = id.s.pos, !.insideSubstitution = @ - 1]

DecodeTemplateArg(s) ==
  CASE Current(s) = "X" -> Expect(AnExpression(Eat(s)), "E")
    [] Current(s) = "L" -> Expect(ALiteral(s), "E")
    [] OTHER -> AType(s, FALSE)

\* Only the arguments of the outermost template outside a type are what the
\* template parameters refer to.
RECURSIVE TemplateArgList(_)
TemplateArgList(s) ==
  LET noted == IF s.insideTemplateArgs = 1 /\ s.insideType = 0
                 THEN [s EXCEPT !.argPos = Append(@, s.pos)] ELSE s
      arg == DecodeTemplateArg(noted)
  IN IF ~arg.ok \/ Current(arg) = "E" THEN arg ELSE TemplateArgList(Put(arg, <<",", " ">>))

DecodeTemplateArgs(s) ==
  LET spaced == [(IF s.needSpace THEN Put(s, <<" ">>) ELSE s) EXCEPT !.needSpace = FALSE]
      list == TemplateArgList(Put([Expect(spaced, "I") EXCEPT !.insideTemplateArgs = @ + 1], <<"<">>))
      closed == Put(Eat(list), IF Last(Output(list)) = ">" THEN <<" ", ">">> ELSE <<">">>)
      done == [closed EXCEPT !.insideTemplateArgs = @ - 1]
  IN IF ~s.ok \/ Current(s) # "I" \/ ~list.ok THEN Fail(s)
     ELSE IF done.insideTemplateArgs = 0 /\ done.insideType = 0
       THEN [done EXCEPT !.isTemplate = TRUE, !.argOffset = Len(s.argPos)]
       ELSE done

\* At least one parameter.
RECURSIVE Parameters(_)
Parameters(s) ==
  LET t == AType(s, FALSE)
  IN IF ~t.ok \/ AtEnd(t) THEN t ELSE Parameters(Put(t, <<",", " ">>))

DecodeBareFunctionType(s) ==
  IF ~s.ok THEN s
  ELSE IF s.sawDestructor \/ Current(s) = "v"
    THEN IF Current(s) = "v" /\ AtEnd(Eat(s))
           THEN [Put(Eat(s), <<"(", ")">>) EXCEPT !.sawDestructor = FALSE] ELSE Fail(s)
    ELSE Begins(Parameters([Put(s, <<"(">>) EXCEPT !.needSpace = FALSE]), <<")">>)
-----------------------------------------------------------------------------
(***************************************************************************)
(* Types.  The qualifiers in front of a type are collected in a list, that *)
(* is printed from the right to the left after the type; a type that is    *)
(* decoded for a substitution or template parameter adds to the list of    *)
(* the type that it stands for (shared).                                   *)
(***************************************************************************)
CVQualifiers == {"K", "V", "r"}
CVText(cv) == (IF "K" \in cv THEN <<" ", "const">> ELSE <<>>)
           \o (IF "V" \in cv THEN <<" ", "volatile">> ELSE <<>>)
           \o (IF "r" \in cv THEN <<" ", "restrict">> ELSE <<>>)

\* The series of cv qualifiers at pos.
Series(s) == LET last == CHOOSE i \in s.pos .. Len(s.in) :
                           /\ \A j \in s.pos .. i : s.in[j] \in CVQualifiers
                           /\ i = Len(s.in) \/ s.in[i + 1] \notin CVQualifiers
             IN IF Current(s) \in CVQualifiers THEN SubSeq(s.in, s.pos, last) ELSE <<>>

\* Adds the qualifier that starts at s.pos and goes on with t.
AddQualifierStart(s, t, kind, text) ==
  [t EXCEPT !.qualifiers = Append(@, [kind |-> kind, start |-> s.pos, text |-> text,
                                      inside |-> s.insideSubstitution > 0])]

AddQualifiedAgain(q, s) ==
  [AddSubstitution([s EXCEPT !.insideSubstitution = 0], q.start, "type", 0)
     EXCEPT !.insideSubstitution = s.insideSubstitution]

\* The type from this qualifier on is a substitution candidate, unless it is part
\* of one already.
AddQualified(q, s) ==
  IF q.inside THEN s
  ELSE [AddSubstitution([s EXCEPT !.insideSubstitution = 0], q.start, "type", 0)
          EXCEPT !.insideSubstitution = s.insideSubstitution]

\* cv holds the cv qualifiers and arrays the dimensions seen since the last *,
\* & or ::*; those in front of one of these have to be put in parentheses.
BracketsReversed(arrays) == FlattenSeq([i \in DOMAIN arrays |-> <<"[">> \o arrays[i] \o <<"]">>])
Brackets(arrays) == FlattenSeq([i \in DOMAIN arrays |->
                                  <<"[">> \o arrays[Len(arrays) + 1 - i] \o <<"]">>])
DecodeKVrA(list, last) ==
  LET t == Put(list.s, CVText(list.cv))
      arrays == IF list.arrays = <<>> THEN t
                ELSE IF last THEN [t EXCEPT !.postfix = <<" ">> \o Brackets(list.arrays) \o @]
                ELSE [Put(t, <<" ", "(">>)
                        EXCEPT !.postfix = <<")", " ">> \o Brackets(list.arrays) \o @]
  IN [s |-> arrays, cv |-> {}, arrays |-> <<>>]

DecodeQualifiers(s) ==
  LET Printed(list, text) == LET done == DecodeKVrA(list, FALSE)
                             IN [done EXCEPT !.s = Put(@, text)]
      Step(q, list) ==
        LET at == [list EXCEPT !.s = AddQualified(q, @)]
        IN CASE q.kind = "P" -> Printed(at, <<"*">>)
             [] q.kind = "R" -> Printed(at, <<"&">>)
             [] q.kind = "M" -> Printed(at, <<" ">> \o q.text \o <<"::", "*">>)
             [] q.kind = "U" -> Printed(at, <<" ">> \o q.text)
             [] q.kind = "A" -> [at EXCEPT !.arrays = Append(@, q.text)]
             [] q.kind = "G" -> at
             [] q.kind = "K" -> [at EXCEPT !.cv = @ \cup ToSet(q.text)]
      none == [s |-> s, cv |-> {}, arrays |-> <<>>]
  IN IF ~s.ok THEN s
     ELSE [DecodeKVrA(FoldRight(Step, s.qualifiers, none), TRUE).s EXCEPT !.suppressed = FALSE]

\* <Q>F<R><B>E ==> R (Q)B
FunctionType(s, start) ==
  LET linkage == Current(Eat(s)) = "Y"
      return == ATypeBeforePostfix(IF linkage THEN Eat(Eat(s)) ELSE Eat(s), FALSE)
      spaced == IF return.postfix = <<>> \/ Last(Output(return)) # "*"
                  THEN Put(return, <<" ", "(">>) ELSE Put(return, <<"(">>)
      bare == ABareFunctionType(Fresh(spaced))
      closed == Resume(Expect(bare, "E"), spaced)
      t == DecodeQualifiers([AddSubstitution(closed, start, "type", 0) EXCEPT !.postfix = <<>>])
  IN IF ~return.ok THEN return
     ELSE [t EXCEPT !.postfix = @ \o <<")">> \o (IF linkage THEN <<" ", "[extern \"C\"]", " ">> ELSE <<>>)
                                 \o bare.out \o return.postfix]

\* <Q>M<C><Q2>F<R><B>E ==> R (C::*Q)B Q2, from <Q2>; class is the text of <C>.
MemberFunctionType(s, start, class) ==
  LET member == Series(s)
      t == Expect([s EXCEPT !.pos = @ + Len(member)], "F")
      return == ATypeBeforePostfix(t, FALSE)
      opened == Put(return, <<" ", "(">> \o class \o <<"::", "*">>)
      bare == ABareFunctionType(Fresh(opened))
      closed == Resume(Expect(bare, "E"), opened)
      added == AddSubstitution(AddSubstitution(closed, t.pos - 1, "type", 0), start, "type", 0)
      u == DecodeQualifiers([added EXCEPT !.postfix = <<>>])
  IN IF ~t.ok \/ ~return.ok THEN Fail(s)
     ELSE [u EXCEPT !.postfix = @ \o <<")">> \o bare.out \o CVText(ToSet(member)) \o return.postfix]

DecodeClassEnumType(s) == LET t == AName(s) IN Begins(t, t.nameQualifiers)

\* What is left of a type after its qualifiers.
UnqualifiedType(s, shared) ==
  LET start == s.pos
      c == Current(s)
      param == ATemplateParam(s, TRUE)
      template == IF Current(param) # "I" THEN param
                  ELSE TemplateArgs(AddSubstitution(param, start, "template_template_param", 0))
      substituted == ASubstitution(s, TRUE)
      arguments == TemplateArgs(substituted)
      OfShared(t) == [t EXCEPT !.suppressed = TRUE]
  IN CASE c = "F" -> FunctionType(s, start)
       [] c = "T" -> IF shared \/ ~template.suppressed THEN template
                     ELSE DecodeQualifiers(AddSubstitution(template, start, "type", 0))
       [] c = "S" \/ c \in DOMAIN StandardSubstitutions ->
            IF Current(substituted) # "I"
              THEN IF shared \/ ~substituted.suppressed THEN substituted ELSE DecodeQualifiers(substituted)
              ELSE IF shared \/ ~arguments.suppressed THEN arguments
                   ELSE DecodeQualifiers(AddSubstitution(arguments, start, "type", 0))
       [] c \in Names \cup {"N", "Z", "St"} ->
            LET t == DecodeClassEnumType(s)
            IN IF shared THEN OfShared(t) ELSE DecodeQualifiers(AddSubstitution(t, start, "type", 0))
       [] OTHER -> LET t == DecodeBuiltinType(s)
                   IN IF shared THEN OfShared(t) ELSE DecodeQualifiers(t)

\* The text between A and _.
Dimension(s) ==
  LET t == Fresh(Eat(s))
      index == CASE Current(t) \in Decimal -> DecodeNumber(t)
                 [] Current(t) = "_" -> t
                 [] OTHER -> AnExpression(t)
  IN Expect(index, "_")

EatQualifiers(s, shared) ==
  LET c == Current(s)
      series == Series(s)
      name == DecodeSourceName(Fresh(Eat(s)))
      class == AType(Fresh(Eat(s)), FALSE)
      Further(t, kind, text) == AQualifiedType(AddQualifierStart(s, Resume(t, s), kind, text), shared)
      complex == AddQualifierStart(s, Put(Eat(s), <<IF c = "C" THEN "complex" ELSE "imaginary", " ">>),
                                   "G", <<>>)
  IN IF ~s.ok THEN s
     ELSE CASE c \in {"P", "R"} -> Further(Eat(s), c, <<>>)
            [] c \in CVQualifiers -> Further([s EXCEPT !.pos = @ + Len(series)], "K", series)
            [] c = "U" -> Further(name, c, name.out)
            [] c = "A" -> Further(Dimension(s), c, Dimension(s).out)
            [] c = "M" -> IF Current(class) \in CVQualifiers \cup {"F"}
                            THEN MemberFunctionType(Resume(class, s), s.pos, class.out)
                            ELSE Further(class, c, class.out)
            [] c \in {"C", "G"} -> AnUnqualifiedType(complex, shared)
            [] OTHER -> AnUnqualifiedType(s, shared)

\* The text that follows the type is left in postfix.
TypeWithPostfix(s, shared) ==
  LET inside == [s EXCEPT !.insideType = @ + 1, !.postfix = <<>>]
      own == IF shared THEN inside ELSE [inside EXCEPT !.qualifiers = <<>>, !.suppressed = FALSE]
      t == [AQualifiedType(own, shared) EXCEPT !.insideType = @ - 1]
  IN IF ~s.ok THEN s
     ELSE IF shared THEN t
     ELSE [t EXCEPT !.qualifiers = s.qualifiers, !.suppressed = s.suppressed]

DecodeType(s, shared) ==
  LET t == ATypeBeforePostfix(s, shared) IN [Begins(t, t.postfix) EXCEPT !.postfix = s.postfix]
-----------------------------------------------------------------------------
DecodeUnqualifiedName(s) ==
  LET c == Current(s)
      plain == [s EXCEPT !.isTemplate = FALSE, !.isCdtor = FALSE, !.isConversion = FALSE]
      named == DecodeSourceName([plain EXCEPT !.functionName = <<>>, !.aliased = TRUE])
      operator == DecodeOperatorName([plain EXCEPT !.functionName = <<>>, !.aliased = TRUE])
      Printed(t) == Begins(Resume(t, s), t.functionName)
      cdtor == [Eat(s) EXCEPT !.isCdtor = TRUE]
  IN IF ~s.ok THEN s
     ELSE IF s.insideTemplateArgs > 0 THEN DecodeSourceName(s)
     ELSE CASE c \in Names -> IF s.aliased THEN DecodeSourceName(plain) ELSE Printed(named)
            [] c \in DOMAIN SymbolNameTable \cup {"cv"} -> Printed(operator)
            [] c \in {"C1", "C2", "C3"} -> Put(cdtor, s.functionName)
            [] c \in {"D0", "D1", "D2"} ->
                 Put([cdtor EXCEPT !.sawDestructor = TRUE], <<"~">> \o s.functionName)
            [] OTHER -> Fail(s)

\* n is the number of prefixes that were seen.
RECURSIVE NestedPrefixes(_, _, _)
NestedPrefixes(s, start, n) ==
  LET c == Current(s)
      t == CASE c \in {"S", "St"} \cup DOMAIN StandardSubstitutions -> ASubstitution(s, FALSE)
             [] c = "I" -> TemplateArgs(s)
             [] c = "T" -> ATemplateParam(s, FALSE)
             [] OTHER -> AnUnqualifiedName(s)
      added == IF c \in {"S", "St"} \cup DOMAIN StandardSubstitutions \/ Current(t) = "E" THEN t
               ELSE AddSubstitution(t, start, "nested_name_prefix", n)
      separated == IF Current(t) # "I" THEN Put(added, <<"::">>)
                   ELSE IF t.needSpace THEN Put(added, <<" ">>) ELSE added
  IN IF ~t.ok THEN t
     ELSE IF Current(t) = "E" THEN Eat(t)
     ELSE NestedPrefixes([separated EXCEPT !.needSpace = FALSE], start, n + 1)

DecodeNestedName(s) ==
  LET cv == Series(Eat(s))
      t == [s EXCEPT !.pos = @ + 1 + Len(cv)]
      text == FlattenSeq([i \in DOMAIN cv |-> CVText({cv[Len(cv) + 1 - i]})])
  IN [NestedPrefixes(t, t.pos, 1) EXCEPT !.nameQualifiers = text]

\* The function is decoded by a session of its own.
DecodeLocalName(s) ==
  LET function == AnEncoding(SubSeq(s.in, s.pos + 1, Len(s.in)))
      t == Begins(Expect([Put(s, function.out) EXCEPT !.pos = @ + function.pos], "E"), <<"::">>)
      name == AName(t)
      entity == IF Current(t) = "s" THEN Put(Eat(t), <<"string", " ", "literal">>)
                                    ELSE Begins(name, name.nameQualifiers)
      discriminator == DecodeNumber(Fresh(Eat(entity)))
  IN IF ~function.ok \/ ~t.ok THEN Fail(s)
     ELSE [(IF Current(entity) = "_" THEN Resume(discriminator, entity) ELSE entity)
             EXCEPT !.nameQualifiers = <<>>]

DecodeName(s) ==
  LET c == Current(s)
      name == IF c \in {"S"} \cup DOMAIN StandardSubstitutions THEN ASubstitution(s, FALSE)
              ELSE DecodeUnscopedName(s)
      template == TemplateArgs(AddSubstitution(name, s.pos, "unscoped_template_name", 0))
  IN IF ~s.ok THEN s
     ELSE IF c = "N" THEN DecodeNestedName(s)
     ELSE IF c = "Z" THEN DecodeLocalName(s)
     ELSE [(IF Current(name) = "I" THEN template ELSE name)
             EXCEPT !.needSpace = FALSE, !.nameQualifiers = <<>>]
-----------------------------------------------------------------------------
DecodeCallOffset(s) ==
  LET Offset(t) == Expect(DecodeNumber(Fresh(t)), "_")
  IN CASE ~s.ok -> s
       [] s.ok /\ Current(s) = "h" -> Resume(Offset(Eat(s)), s)
       [] s.ok /\ Current(s) = "v" -> Resume(Offset(Offset(Eat(s))), s)
       [] OTHER -> Fail(s)

DecodeSpecialName(s) ==
  LET c == Current(Eat(s))
      After(t, text) == Put(t, text \o <<" ">>)
      Type(text) == AType(After(Eat(Eat(s)), text), FALSE)
      Base(t) == LET base == AnEncoding(SubSeq(t.in, t.pos, Len(t.in)))
                 IN IF t.ok /\ base.ok THEN [Put(t, base.out) EXCEPT !.pos = @ + base.pos - 1]
                    ELSE Fail(t)
      thunk == IF c = "v" THEN <<"virtual", " ", "thunk", " ", "to">>
                          ELSE <<"non-virtual", " ", "thunk", " ", "to">>
      object == AName(After(Eat(Eat(s)), <<"guard", " ", "variable", " ", "for">>))
      first == AType(Fresh(Eat(Eat(s))), FALSE)
      offset == Resume(Expect(EatDigits(first), "_"), s)
  IN IF Current(s) = "G"
       THEN IF c = "V" THEN Begins(object, object.nameQualifiers) ELSE Fail(s)
     ELSE CASE c = "V" -> Type(<<"vtable", " ", "for">>)
            [] c = "T" -> Type(<<"VTT", " ", "for">>)
            [] c = "I" -> Type(<<"typeinfo", " ", "for">>)
            [] c = "S" -> Type(<<"typeinfo", " ", "name", " ", "for">>)
            [] c = "c" -> Base(DecodeCallOffset(DecodeCallOffset(
                            After(Eat(s), <<"covariant", " ", "return", " ", "thunk", " ", "to">>))))
            [] c = "C" -> Begins(AType(After(offset, <<"construction", " ", "vtable", " ", "for">>), FALSE),
                                 <<"-in-">> \o first.out)
            [] OTHER -> Base(DecodeCallOffset(After(Eat(s), thunk)))

\* A data object, or a function; of a template the return type comes first.
DecodeEncoding(s) ==
  LET name == AName(s)
      returns == name.isTemplate /\ ~(name.isCdtor \/ name.isConversion)
      return == IF returns THEN Begins(ATypeBeforePostfix(Fresh(name), FALSE), <<" ">>) ELSE Fresh(name)
      bare == ABareFunctionType(Begins(return, name.out))
      after == IF returns THEN return.postfix ELSE <<>>
  IN IF Current(s) \in {"T", "G"} THEN DecodeSpecialName(s)
     ELSE IF ~name.ok THEN name
     ELSE IF AtEnd(name) THEN Put(name, name.nameQualifiers)
     ELSE Begins(bare, name.nameQualifiers \o after)

Decode(production, s, shared) ==
  CASE production = "type" -> DecodeType(s, shared)
    [] production = "type_with_postfix" -> TypeWithPostfix(s, shared)
    [] production = "unqualified_type" -> UnqualifiedType(s, shared)
    [] production = "qualified_type" -> EatQualifiers(s, shared)
    [] production = "name" -> DecodeName(s)
    [] production = "unqualified_name" -> DecodeUnqualifiedName(s)
    [] production = "substitution" -> DecodeSubstitution(s, shared)
    [] production = "template_param" -> DecodeTemplateParam(s, shared)
    [] production = "template_args" -> DecodeTemplateArgs(s)
    [] production = "expression" -> DecodeExpression(s)
    [] production = "literal" -> DecodeLiteral(s)
    [] production = "bare_function_type" -> DecodeBareFunctionType(s)
    [] production = "encoding" -> DecodeEncoding(s)

\* demangle_symbol and demangle_type: what cannot be demangled is the result.
DemangleSymbol(input) ==
  LET t == AnEncoding(Tail(input))
  IN CASE input[1] = "_Z" -> IF t.ok /\ t.pos > Len(t.in) THEN t.out ELSE input
       [] input[1] = "_GLOBAL__D_" -> <<"global", " ", "destructors", " ", "keyed", " ", "to", " ">> \o Tail(input)
       [] input[1] = "_GLOBAL__I_" -> <<"global", " ", "constructors", " ", "keyed", " ", "to", " ">> \o Tail(input)
       [] OTHER -> input

DemangleType(input) ==
  LET t == AType(NewSession(input), FALSE)
  IN IF t.ok /\ t.pos > Len(t.in) THEN t.out ELSE input
=============================================================================
