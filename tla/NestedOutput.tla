------------------------------ MODULE NestedOutput ------------------------------
(***************************************************************************)
(* The debug output of one thread on one debug object.                     *)
(*                                                                         *)
(* A statement Dout(dc::channel|flags, args) runs start(), evaluates args  *)
(* and runs finish().  The arguments may call functions that execute Dout  *)
(* themselves, and Dout(dc::channel|continued_cf, ...) opens a section     *)
(* that stays open until its Dout(dc::finish, ...), so outputs nest.  The  *)
(* thread keeps, in DebugObject_ThreadSpecificData, the output being       *)
(* produced (current), the outputs it interrupted (output_state_stack) and *)
(* a run-length encoding, in off_count and continued_stack, of which open  *)
(* sections belong to a channel that was switched on.                      *)
(*                                                                         *)
(* Each of start() and finish() runs to completion: nothing in them        *)
(* executes user code, and other threads have a state of their own.        *)
(***************************************************************************)
EXTENDS Integers, Sequences, FiniteSets

CONSTANTS
  Outputs,        \* addresses that new OutputState may return
  Dummy,          \* WST_dummy_output_state, current when nothing is being output
  MaxSize,        \* DebugStack::max_size
  Choices,        \* the sets of control flags the program passes to Dout
  AlwaysFlush,    \* DebugObject::always_flush_is_on()
  NestInOpening,  \* do arguments of a statement with continued_cf execute Dout?
  MisuseInPart,   \* does a program that misuses dc::finish do so in arguments of dc::continued?
  MaxNest,        \* bound: statements, sections and scopes open at once
  MaxMarked       \* bound: the indentation that a Mark moves to the marker

ControlFlags == {"flush_cf", "nonewline_cf", "cerr_cf", "noprefix_cf", "coredump"}
MaskBits == ControlFlags \cup {"continued_cf", "continued_expected", "continued", "finish"}
Streams == {"os", "cerr"}

ASSUME OutputsAssumption == Dummy \notin Outputs
ASSUME MaxSizeAssumption == MaxSize \in Nat \ {0}
ASSUME BoundsAssumption == MaxNest \in Nat /\ MaxMarked \in Nat
ASSUME ChoicesAssumption == Choices \subseteq SUBSET ControlFlags
ASSUME ProgramAssumption == AlwaysFlush \in BOOLEAN /\ NestInOpening \in BOOLEAN /\ MisuseInPart \in BOOLEAN
ASSUME StreamNames == "start" \notin Outputs /\ "nonewline" \notin Outputs

VARIABLES
  live,                 \* the OutputState objects allocated and not yet deleted
  mask,                 \* OutputState::mask
  current,
  output_state_stack,
  start_expected,
  unfinished_expected,
  indent,
  off_count,
  continued_stack,
  pending,              \* what OutputState::buffer holds that writeto() has not written
  line,                 \* how the last line of each ostream ends
  mixed,                \* history: has a write joined a line that another output left open?
  prog,                 \* history: what the program has open, innermost last
  halted                \* "no", or what ended the program

tsdvars == <<live, mask, current, output_state_stack, start_expected,
             unfinished_expected, indent, off_count, continued_stack>>
streamvars == <<pending, line, mixed>>
vars == <<tsdvars, streamvars, prog, halted>>

\* indent is an unsigned short: it wraps around.
Width == 65536
Plus(i, n) == IF i + n < Width THEN i + n ELSE i + n - Width
Minus(i, n) == IF i < n THEN i - n + Width ELSE i - n

Top(s) == s[Len(s)]
Pop(s) == SubSeq(s, 1, Len(s) - 1)
Closed(p, i) == [j \in 1 .. Len(p) - 1 |-> IF j < i THEN p[j] ELSE p[j + 1]]
-----------------------------------------------------------------------------
(***************************************************************************)
(* What the thread's state means to the program: the outputs in progress,  *)
(* outermost first, the indentation that an output started now would get,  *)
(* and the two components that encode the open sections.                   *)
(***************************************************************************)
Nested == IF start_expected THEN output_state_stack ELSE Append(output_state_stack, current)
NextIndent == IF start_expected THEN indent ELSE Plus(indent, 4)

\* What the program has open:
\*   plain    a statement, or a dc::finish statement, whose arguments are being evaluated
\*   opening  a section whose first statement, the one with continued_cf, is
\*   section  a section between its statements
\*   part     a dc::continued statement of the section below it
\*   off      a section of a channel that is off
\*   mark     a Mark object in scope, that moved n spaces of indentation to the marker
Item(kind, out, n) == [kind |-> kind, out |-> out, n |-> n]
Statements == {"plain", "opening", "part"}
InStatement == prog # <<>> /\ Top(prog).kind \in Statements
InSection == prog # <<>> /\ Top(prog).kind = "section"
InOffSection == prog # <<>> /\ Top(prog).kind = "off"

MayOpen ==
  /\ halted = "no"
  /\ Len(prog) < MaxNest
  /\ (prog # <<>> /\ Top(prog).kind = "opening") => NestInOpening

Init ==
  /\ live = {}
  /\ mask = [o \in Outputs |-> {}]
  /\ current = Dummy
  /\ output_state_stack = <<>>
  /\ start_expected = TRUE
  /\ unfinished_expected = FALSE
  /\ indent = 0
  /\ off_count = 0
  /\ continued_stack = <<>>
  /\ pending = [o \in Outputs |-> "none"]
  /\ line = [s \in Streams |-> "start"]
  /\ mixed = FALSE
  /\ prog = <<>>
  /\ halted = "no"
-----------------------------------------------------------------------------
(***************************************************************************)
(* Buffer::writeto().  What is pending is either "line", text that starts  *)
(* with a prefix and so belongs on a line of its own, or "text", more text *)
(* for the line that its output left open.                                 *)
(***************************************************************************)
Target(m) == IF "cerr_cf" \in m THEN "cerr" ELSE "os"

Joins(o, s, what) == line[s] \in Outputs /\ (what = "line" \/ line[s] # o)

WriteTo(o, s, ending) ==
  /\ line' = [line EXCEPT ![s] =
       CASE ending = "newline" -> "start"
         [] ending = "nonewline" -> IF pending[o] # "none" \/ @ = o THEN "nonewline" ELSE @
         [] ending = "open" -> IF pending[o] # "none" THEN o ELSE @]
  /\ mixed' = (mixed \/ (Joins(o, s, pending[o]) /\ (pending[o] # "none" \/ ending = "newline")))

\* start() interrupts a section of this thread that has output since it was last interrupted.
InterruptsNever == FALSE
Interrupts == current # Dummy /\ "continued_cf" \in mask[current] /\ unfinished_expected

Flushes(m) == AlwaysFlush \/ "flush_cf" \in m

-----------------------------------------------------------------------------
(***************************************************************************)
(* start(), but for dc::continued and dc::finish.  Before the new output o *)
(* is made current, an interrupted section is written out and its buffer   *)
(* truncated to its prefix and "<continued> ".                             *)
(***************************************************************************)
RoomUnbounded == TRUE
Room == start_expected \/ Len(output_state_stack) < MaxSize

Prefix(m) == IF "noprefix_cf" \in m THEN "none" ELSE "line"

Start(o, m) ==
  /\ o \in Outputs \ live
  /\ Room
  /\ live' = live \cup {o}
  /\ output_state_stack' = Nested
  /\ indent' = NextIndent
  /\ mask' = [mask EXCEPT ![o] = m \cup IF start_expected THEN {} ELSE mask[current] \cap {"cerr_cf"}]
  /\ current' = o
  /\ start_expected' = FALSE
  /\ unfinished_expected' = TRUE
  /\ IF Interrupts
     THEN /\ WriteTo(current, Target(m), "newline")
          /\ pending' = [pending EXCEPT ![current] = "line", ![o] = Prefix(m)]
     ELSE /\ pending' = [pending EXCEPT ![o] = Prefix(m)]
          /\ UNCHANGED <<line, mixed>>

\* Dout(dc::channel|flags, ...) or DoutFatal(dc::core|flags, ...), the channel being on.
Dout(o, flags) ==
  /\ MayOpen
  /\ Start(o, flags)
  /\ prog' = Append(prog, Item("plain", o, 0))
  /\ UNCHANGED <<off_count, continued_stack, halted>>

\* Dout(dc::channel|flags|continued_cf, ...), the channel being on.
OpenSection(o, flags) ==
  /\ MayOpen
  /\ "coredump" \notin flags
  /\ Len(continued_stack) < MaxSize
  /\ continued_stack' = Append(continued_stack, off_count)
  /\ off_count' = 0
  /\ Start(o, flags \cup {"continued_cf"})
  /\ prog' = Append(prog, Item("opening", o, 0))
  /\ UNCHANGED halted

\* Dout(dc::channel|continued_cf, ...), the channel being off: the arguments are not evaluated.
OpenOffSection ==
  /\ MayOpen
  /\ off_count' = off_count + 1
  /\ prog' = Append(prog, Item("off", Dummy, 0))
  /\ UNCHANGED <<live, mask, current, output_state_stack, start_expected,
                 unfinished_expected, indent, continued_stack, streamvars, halted>>

\* DebugStack::push() of a full stack dumps core.
Overflow ==
  /\ MayOpen
  /\ ~ Room \/ Len(continued_stack) = MaxSize
  /\ halted' = "core_dump"
  /\ UNCHANGED <<tsdvars, streamvars, prog>>
-----------------------------------------------------------------------------
(***************************************************************************)
(* dc::continued and dc::finish.  They print when off_count is zero; then  *)
(* start() demands that the current output expects them.                   *)
(***************************************************************************)
ExpectedUnchecked == current # Dummy
Expected == current # Dummy /\ "continued_expected" \in mask[current]

Continued(flags) ==
  /\ halted = "no"
  /\ off_count = 0
  /\ Expected
  /\ Len(prog) < MaxNest
  /\ "coredump" \notin flags
  /\ mask' = [mask EXCEPT ![current] = @ \cup {"continued"} \cup flags]
  /\ prog' = Append(prog, Item("part", current, 0))
  /\ UNCHANGED <<live, current, output_state_stack, start_expected, unfinished_expected,
                 indent, off_count, continued_stack, streamvars, halted>>

\* The innermost section of an output, or section of a channel that is off, is closed.
CloseInnermost(p, kind, out) ==
  LET at == {i \in 1 .. Len(p) : p[i].kind = kind /\ p[i].out = out}
  IN  IF at = {} THEN p ELSE Closed(p, CHOOSE i \in at : \A j \in at : j <= i)

SavedOffCountReset == 0
SavedOffCount == Top(continued_stack)

FinishChannel(flags) ==
  /\ halted = "no"
  /\ off_count = 0
  /\ continued_stack # <<>>
  /\ Expected
  /\ "coredump" \notin flags
  /\ off_count' = SavedOffCount
  /\ continued_stack' = Pop(continued_stack)
  /\ mask' = [mask EXCEPT ![current] = (@ \cup {"finish"} \cup flags) \ {"continued_expected"}]
  /\ prog' = Append(CloseInnermost(prog, "section", current), Item("plain", current, 0))
  /\ UNCHANGED <<live, current, output_state_stack, start_expected, unfinished_expected,
                 indent, streamvars, halted>>

FinishOffChannel ==
  /\ halted = "no"
  /\ off_count # 0
  /\ off_count' = off_count - 1
  /\ prog' = CloseInnermost(prog, "off", Dummy)
  /\ UNCHANGED <<live, mask, current, output_state_stack, start_expected,
                 unfinished_expected, indent, continued_stack, streamvars, halted>>

\* The fatal message for a dc::continued or dc::finish without a matching continued_cf.
Unmatched ==
  /\ halted = "no"
  /\ off_count = 0
  /\ ~ Expected \/ continued_stack = <<>>
  /\ halted' = "unmatched"
  /\ UNCHANGED <<tsdvars, streamvars, prog>>
-----------------------------------------------------------------------------
(***************************************************************************)
(* The end of a statement: its arguments wrote text, then finish() runs on *)
(* the current output.                                                     *)
(***************************************************************************)
Text ==
  /\ halted = "no"
  /\ InStatement
  /\ pending[Top(prog).out] = "none"
  /\ pending' = [pending EXCEPT ![Top(prog).out] = "text"]
  /\ UNCHANGED <<tsdvars, line, mixed, prog, halted>>

EndsPart == "continued_cf" \in mask[current] /\ "finish" \notin mask[current]

\* finish() of a statement that leaves its section open.
FinishPart ==
  /\ halted = "no"
  /\ InStatement
  /\ current # Dummy
  /\ EndsPart
  /\ mask' = [mask EXCEPT ![current] = @ \cup {"continued_expected"}]
  /\ unfinished_expected' = (unfinished_expected \/ "continued" \in mask[current])
  /\ IF Flushes(mask[current])
     THEN /\ WriteTo(current, Target(mask[current]), "open")
          /\ pending' = [pending EXCEPT ![current] = "none"]
     ELSE UNCHANGED streamvars
  /\ prog' = IF Top(prog).kind = "opening"
             THEN Append(Pop(prog), [Top(prog) EXCEPT !.kind = "section"])
             ELSE Pop(prog)
  /\ UNCHANGED <<live, current, output_state_stack, start_expected, indent, off_count,
                 continued_stack, halted>>

WriteLast ==
  /\ WriteTo(current, Target(mask[current]),
             IF "nonewline_cf" \in mask[current] THEN "nonewline" ELSE "newline")
  /\ pending' = [pending EXCEPT ![current] = "none"]

\* The current output is on the stack when it was interrupted before it ended.
PoppedStackNever == output_state_stack
PoppedStack == IF start_expected THEN Pop(output_state_stack) ELSE output_state_stack
PoppedIndentAlways == Minus(indent, 4)
PoppedIndent == IF start_expected THEN Minus(indent, 4) ELSE indent
DeletedIfStacked == IF start_expected THEN live \ {current} ELSE live
Deleted == live \ {current}

\* finish() of any other statement: delete current and return to the output it interrupted.
Finish ==
  /\ halted = "no"
  /\ InStatement
  /\ current # Dummy
  /\ ~ EndsPart
  /\ "coredump" \notin mask[current]
  /\ WriteLast
  /\ live' = Deleted
  /\ output_state_stack' = PoppedStack
  /\ indent' = PoppedIndent
  /\ IF PoppedStack # <<>>
     THEN /\ current' = Top(PoppedStack)
          /\ mask' = IF Flushes(mask[current])
                     THEN [mask EXCEPT ![Top(PoppedStack)] = @ \cup {"flush_cf"}]
                     ELSE mask
     ELSE current' = Dummy /\ mask' = mask
  /\ start_expected' = TRUE
  /\ unfinished_expected' = FALSE
  /\ prog' = Pop(prog)
  /\ UNCHANGED <<off_count, continued_stack, halted>>

\* finish() of a fatal output does not return.
FinishFatal ==
  /\ halted = "no"
  /\ InStatement
  /\ current # Dummy
  /\ ~ EndsPart
  /\ "coredump" \in mask[current]
  /\ WriteLast
  /\ halted' = "aborted"
  /\ UNCHANGED <<tsdvars, prog>>
-----------------------------------------------------------------------------
(***************************************************************************)
(* libcwd::Mark moves the indentation to the marker while it is in scope.  *)
(***************************************************************************)
OpenMark ==
  /\ MayOpen
  /\ indent <= MaxMarked
  /\ indent' = 0
  /\ prog' = Append(prog, Item("mark", Dummy, indent))
  /\ UNCHANGED <<live, mask, current, output_state_stack, start_expected,
                 unfinished_expected, off_count, continued_stack, streamvars, halted>>

CloseMark ==
  /\ halted = "no"
  /\ \E i \in DOMAIN prog :
       /\ prog[i].kind = "mark"
       /\ indent' = Plus(indent, prog[i].n)
       /\ prog' = Closed(prog, i)
  /\ UNCHANGED <<live, mask, current, output_state_stack, start_expected,
                 unfinished_expected, off_count, continued_stack, streamvars, halted>>
-----------------------------------------------------------------------------
(***************************************************************************)
(* The program may use dc::continued and dc::finish anywhere, except, when *)
(* MisuseInPart is FALSE, in the arguments of dc::continued for a section  *)
(* that was not opened there.                                              *)
(***************************************************************************)
OpensSection(i) == \E j \in i + 1 .. Len(prog) : prog[j].kind \in {"section", "off"}
Allowed == MisuseInPart \/ \A i \in DOMAIN prog : prog[i].kind = "part" => OpensSection(i)

Next ==
  \/ \E o \in Outputs, flags \in Choices : Dout(o, flags) \/ OpenSection(o, flags)
  \/ OpenOffSection
  \/ Allowed /\ \E flags \in Choices : Continued(flags) \/ FinishChannel(flags)
  \/ Allowed /\ FinishOffChannel
  \/ Unmatched
  \/ Text \/ FinishPart \/ Finish \/ FinishFatal
  \/ OpenMark \/ CloseMark
  \/ Overflow

Spec == Init /\ [][Next]_vars
-----------------------------------------------------------------------------
Kinds == Statements \cup {"section", "off", "mark"}
Items == [kind : Kinds, out : Outputs \cup {Dummy}, n : 0 .. Width - 1]

\* The type invariant.
TypeOK ==
  /\ live \subseteq Outputs
  /\ mask \in [Outputs -> SUBSET MaskBits]
  /\ current \in Outputs \cup {Dummy}
  /\ output_state_stack \in Seq(Outputs) /\ Len(output_state_stack) <= MaxSize
  /\ start_expected \in BOOLEAN
  /\ unfinished_expected \in BOOLEAN
  /\ indent \in 0 .. Width - 1
  /\ off_count \in Nat
  /\ continued_stack \in Seq(Nat) /\ Len(continued_stack) <= MaxSize
  /\ pending \in [Outputs -> {"none", "text", "line"}]
  /\ line \in [Streams -> {"start", "nonewline"} \cup Outputs]
  /\ mixed \in BOOLEAN
  /\ prog \in Seq(Items)
  /\ halted \in {"no", "aborted", "core_dump", "unmatched"}

(***************************************************************************)
(* The view that follows from what the program p has open.                 *)
(***************************************************************************)
Sections == {"opening", "section"}
Starters == {"plain"} \cup Sections

View == [nested |-> Nested, indent |-> NextIndent, off |-> off_count, saved |-> continued_stack]
EmptyView == [nested |-> <<>>, indent |-> 0, off |-> 0, saved |-> <<>>]

After(v, it) ==
  [nested |-> IF it.kind \in Starters THEN Append(v.nested, it.out) ELSE v.nested,
   indent |-> IF it.kind \in Starters THEN Plus(v.indent, 4)
              ELSE IF it.kind = "mark" THEN Minus(v.indent, it.n) ELSE v.indent,
   off    |-> IF it.kind \in Sections THEN 0
              ELSE IF it.kind = "off" THEN v.off + 1 ELSE v.off,
   saved  |-> IF it.kind \in Sections THEN Append(v.saved, v.off) ELSE v.saved]

ViewOf(p) ==
  LET after[i \in 0 .. Len(p)] == IF i = 0 THEN EmptyView ELSE After(after[i - 1], p[i])
  IN  after[Len(p)]

(***************************************************************************)
(* After any sequence of statements, sections and marks, each              *)
(* interrupting the others, current, output_state_stack, start_expected,   *)
(* indent, off_count and continued_stack are those that what is still open *)
(* calls for: what was closed left no trace.                               *)
(***************************************************************************)
LeavesNoTrace == View = ViewOf(prog)

(***************************************************************************)
(* finish() handles the output of the statement that ends, although start()*)
(* and finish() of any number of other outputs ran in between.             *)
(***************************************************************************)
FinishesOwnOutput == InStatement => current = Top(prog).out

(***************************************************************************)
(* dc::continued and dc::finish print exactly when the innermost section is*)
(* one of a channel that was on, and then they never are taken for misuse. *)
(***************************************************************************)
NoFalseAlarm ==
  /\ InSection => off_count = 0 /\ Expected /\ continued_stack # <<>>
  /\ InOffSection => off_count > 0

Outs(p) == {p[i].out : i \in 1 .. Len(p)} \ {Dummy}

\* An OutputState is deleted exactly once: those allocated are those of what the program has open.
NoLeak == live = Outs(prog)

\* No output is written on a line that another output left open (nonewline_cf aside).
LinesNotMixed == ~ mixed

(***************************************************************************)
(* Whatever the program does, finish() has an output: the assertion at its *)
(* start (current != WST_dummy_output_state) holds.                        *)
(***************************************************************************)
FinishHasOutput == (halted = "no" /\ InStatement) => current # Dummy
=============================================================================
