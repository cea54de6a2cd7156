------------------------------- MODULE SharedLine -------------------------------
(***************************************************************************)
(* The current line of the ostream that several threads write their debug  *)
(* output to.  Buffer::writeto() runs under the lock of the ostream, so it *)
(* is one step here; between the writeto() of start(), that interrupts an  *)
(* open section, and that of finish() other threads write too.             *)
(*                                                                         *)
(* A thread that leaves a line open is remembered in newlineless_tsd_ and, *)
(* when a section left it open, the buffer of that section in              *)
(* unfinished_oss_.  The next thread that writes ends the line for it,     *)
(* with "<unfinished>" or "<no newline>", and tells the buffer through     *)
(* unfinished_already_printed_ and continued_needed_ to go on with its     *)
(* prefix and "<continued>" on a line of its own.                          *)
(***************************************************************************)
EXTENDS Integers, Sequences, FiniteSets

CONSTANTS
  Threads,      \* addresses that a ThreadSpecificData may have
  Buffers,      \* addresses that the buffer of an OutputState may have
  NULL,
  Gone,         \* a thread that left the line open and exited
  MaxNest,      \* bound: statements and sections that a thread has open at once
  TidyExits,    \* do threads end the line they left open before they exit?
  EmptyParts    \* may a statement that is written without a newline have nothing to write?

ASSUME NullAssumption == NULL # Gone /\ {NULL, Gone} \cap (Threads \cup Buffers) = {}
ASSUME BoundAssumption == MaxNest \in Nat \ {0}
ASSUME ProgramAssumption == TidyExits \in BOOLEAN /\ EmptyParts \in BOOLEAN

VARIABLES
  alive,                        \* the threads that have a ThreadSpecificData
  outputs,                      \* the outputs that a thread has in progress, innermost last
  unfinished_expected,
  pending,                      \* what a buffer holds that is not written yet
  unfinished_already_printed_,
  continued_needed_,
  newlineless_tsd_,
  unfinished_oss_,
  line,                         \* the thread and buffer that left the line open, if any
  faults                        \* history: what went wrong with the text on the ostream

bufvars == <<pending, unfinished_already_printed_, continued_needed_>>
osvars == <<newlineless_tsd_, unfinished_oss_, line, faults>>
vars == <<alive, outputs, unfinished_expected, bufvars, osvars>>

AtStart == [tsd |-> NULL, buffer |-> NULL]
LeftOpen(t, b) == [tsd |-> t, buffer |-> b]

\* An output in progress, as in NestedOutput: a "plain" statement, the "opening" statement
\* of a section, or a "section" between its statements.
Output(b, kind) == [buffer |-> b, kind |-> kind]
Kinds == {"plain", "opening", "section"}

Live == UNION {{outputs[t][i].buffer : i \in DOMAIN outputs[t]} : t \in Threads}
Current(t) == outputs[t][Len(outputs[t])]
Without(t) == SubSeq(outputs[t], 1, Len(outputs[t]) - 1)
In(t, kind) == outputs[t] # <<>> /\ Current(t).kind = kind

Init ==
  /\ alive = Threads
  /\ outputs = [t \in Threads |-> <<>>]
  /\ unfinished_expected = [t \in Threads |-> FALSE]
  /\ pending = [b \in Buffers |-> "none"]
  /\ unfinished_already_printed_ = [b \in Buffers |-> FALSE]
  /\ continued_needed_ = [b \in Buffers |-> FALSE]
  /\ newlineless_tsd_ = NULL
  /\ unfinished_oss_ = NULL
  /\ line = AtStart
  /\ faults = {}
-----------------------------------------------------------------------------
(***************************************************************************)
(* Buffer::writeto() of thread t, whose buffer b holds `held': nothing, a  *)
(* "line" that begins with the prefix, or "text" that goes on with what b  *)
(* wrote before.  `ending' is how the output ends: "interrupted" (a request*)
(* for <unfinished>), "newline", "nonewline" (nonewline_cf) or "open".     *)
(* What follows is part of the step: after an interruption the buffer is   *)
(* restored to its prefix and "<continued> ", after "newline" and          *)
(* "nonewline" the output is deleted.                                      *)
(***************************************************************************)
ForeignLine(t) == newlineless_tsd_ # NULL /\ newlineless_tsd_ # t

InterruptsSectionsOnly(t, b) == ForeignLine(t) /\ unfinished_oss_ # NULL /\ unfinished_oss_ # b
Interrupts(t, b) == ForeignLine(t) /\ unfinished_oss_ # b

\* The buffer that learns of it; writing to a deleted one does not last.
Informed(t, b) == {s \in Live : Interrupts(t, b) /\ unfinished_oss_ = s}

NeededNever(t, b) == continued_needed_
Needed(t, b) == [s \in Buffers |-> continued_needed_[s] \/ s \in Informed(t, b)]

PrintedNever(t, b) == unfinished_already_printed_
Printed(t, b) == [s \in Buffers |-> unfinished_already_printed_[s] \/ s \in Informed(t, b)]

\* restore_position()
NeededStays(needed) == needed
NeededAfterRestore(needed) == FALSE

EndsOnNewline(ending) == ending \in {"interrupted", "newline"}

Newlineless(t, writes, ending) ==
  IF EndsOnNewline(ending) THEN NULL ELSE IF writes THEN t ELSE newlineless_tsd_

UnfinishedKept(b, writes, ending) ==
  IF EndsOnNewline(ending) THEN NULL ELSE IF writes /\ ending = "open" THEN b ELSE unfinished_oss_
Unfinished(b, writes, ending) ==
  IF EndsOnNewline(ending) THEN NULL
  ELSE IF ~ writes THEN unfinished_oss_
  ELSE IF ending = "open" THEN b ELSE NULL

WriteTo(t, b, held, ending) ==
  LET before    == IF Interrupts(t, b) THEN AtStart ELSE line
      writes    == held # "none" \/ ending = "newline"
      continued == Needed(t, b)[b] /\ writes
      prefixed  == continued \/ held = "line"
      after     == IF writes THEN LeftOpen(t, b) ELSE before
      printed   == Printed(t, b)[b] /\ ~ continued
  IN
  /\ line' = CASE ending = "interrupted" -> IF printed THEN after ELSE AtStart
               [] ending = "newline" -> AtStart
               [] ending = "nonewline" -> IF writes THEN LeftOpen(t, NULL) ELSE after
               [] ending = "open" -> after
  /\ faults' = faults
       \cup {f \in {"mixed"} : writes /\ before # AtStart /\ before # LeftOpen(t, NULL)
                               /\ (prefixed \/ before # LeftOpen(t, b))}
       \cup {f \in {"orphan"} : writes /\ ~ prefixed /\ before = AtStart}
       \cup {f \in {"repeated"} : continued /\ held = "line"}
       \cup {f \in {"stray"} : ending = "interrupted" /\ ~ printed /\ after = AtStart}
       \cup {f \in {"open"} : ending = "interrupted" /\ line' # AtStart}
  /\ continued_needed_' = [Needed(t, b) EXCEPT ![b] =
       CASE ending = "interrupted" -> NeededAfterRestore(@ /\ ~ continued)
         [] ending = "open" -> @ /\ ~ continued
         [] OTHER -> FALSE]
  /\ unfinished_already_printed_' = [Printed(t, b) EXCEPT ![b] = FALSE]
  /\ newlineless_tsd_' = Newlineless(t, writes, ending)
  /\ unfinished_oss_' = Unfinished(b, writes, ending)
-----------------------------------------------------------------------------
(***************************************************************************)
(* start(): a section of this thread that has output since it was last     *)
(* interrupted is interrupted; its buffer then holds the prefix and        *)
(* "<continued> ".  A new OutputState has an empty buffer but for a prefix.*)
(* The program executes no Dout in the arguments of the opening statement  *)
(* of a section: after that the section may be interrupted unnoticed.      *)
(***************************************************************************)
\* The bound, and not the code, limits how many outputs a thread has in progress.
Room(t) == Len(outputs[t]) < MaxNest

Start(t, b, kind) ==
  /\ t \in alive /\ Room(t) /\ ~ In(t, "opening")
  /\ b \notin Live
  /\ outputs' = [outputs EXCEPT ![t] = Append(@, Output(b, kind))]
  /\ unfinished_expected' = [unfinished_expected EXCEPT ![t] = TRUE]
  /\ IF In(t, "section") /\ unfinished_expected[t]
     THEN LET s == Current(t).buffer
          IN  /\ WriteTo(t, s, pending[s], "interrupted")
              /\ pending' = [pending EXCEPT ![s] = "line", ![b] = "line"]
     ELSE /\ pending' = [pending EXCEPT ![b] = "line"]
          /\ UNCHANGED <<unfinished_already_printed_, continued_needed_, osvars>>
  /\ UNCHANGED alive

(***************************************************************************)
(* finish() of a statement that is not part of a section, and of the first *)
(* one of a section, which with flush_cf is written at once.               *)
(***************************************************************************)
Finish(t, ending) ==
  LET b == Current(t).buffer IN
  /\ In(t, "plain")
  /\ WriteTo(t, b, pending[b], ending)
  /\ pending' = [pending EXCEPT ![b] = "none"]
  /\ outputs' = [outputs EXCEPT ![t] = Without(t)]
  /\ unfinished_expected' = [unfinished_expected EXCEPT ![t] = FALSE]
  /\ UNCHANGED alive

FinishOpening(t, flush) ==
  LET b == Current(t).buffer IN
  /\ In(t, "opening")
  /\ outputs' = [outputs EXCEPT ![t] = Append(Without(t), Output(b, "section"))]
  /\ IF flush
     THEN WriteTo(t, b, pending[b], "open") /\ pending' = [pending EXCEPT ![b] = "none"]
     ELSE UNCHANGED <<bufvars, osvars>>
  /\ UNCHANGED <<alive, unfinished_expected>>

(***************************************************************************)
(* Dout(dc::continued, ...) and Dout(dc::finish, ...): start() only checks *)
(* that they are expected, so each is one step, after any output that      *)
(* their arguments produce.                                                *)
(***************************************************************************)
WithText(held, empty) == IF held = "none" /\ ~ empty THEN "text" ELSE held

Continued(t, empty, flush) ==
  LET b    == Current(t).buffer
      held == WithText(pending[b], empty)
  IN
  /\ In(t, "section")
  /\ (flush /\ held = "none") => EmptyParts
  /\ unfinished_expected' = [unfinished_expected EXCEPT ![t] = TRUE]
  /\ IF flush
     THEN WriteTo(t, b, held, "open") /\ pending' = [pending EXCEPT ![b] = "none"]
     ELSE /\ pending' = [pending EXCEPT ![b] = held]
          /\ UNCHANGED <<unfinished_already_printed_, continued_needed_, osvars>>
  /\ UNCHANGED <<alive, outputs>>

FinishSection(t, empty, ending) ==
  LET b    == Current(t).buffer
      held == WithText(pending[b], empty)
  IN
  /\ In(t, "section")
  /\ (ending = "nonewline" /\ held = "none") => EmptyParts
  /\ WriteTo(t, b, held, ending)
  /\ pending' = [pending EXCEPT ![b] = "none"]
  /\ outputs' = [outputs EXCEPT ![t] = Without(t)]
  /\ unfinished_expected' = [unfinished_expected EXCEPT ![t] = FALSE]
  /\ UNCHANGED alive
-----------------------------------------------------------------------------
(***************************************************************************)
(* A thread that exits deletes its ThreadSpecificData, and one that starts *)
(* may get it at the same address.                                         *)
(***************************************************************************)
Exit(t) ==
  /\ t \in alive
  /\ outputs[t] = <<>>
  /\ TidyExits => newlineless_tsd_ # t
  /\ alive' = alive \ {t}
  /\ UNCHANGED <<outputs, unfinished_expected, bufvars, osvars>>

Create(t) ==
  /\ t \notin alive
  /\ alive' = alive \cup {t}
  /\ line' = IF line.tsd = t THEN [line EXCEPT !.tsd = Gone] ELSE line
  /\ UNCHANGED <<outputs, unfinished_expected, bufvars,
                 newlineless_tsd_, unfinished_oss_, faults>>

Endings == {"newline", "nonewline"}

Next ==
  \E t \in Threads :
    \/ \E b \in Buffers, kind \in {"plain", "opening"} : Start(t, b, kind)
    \/ \E ending \in Endings : Finish(t, ending)
    \/ \E flush \in BOOLEAN : FinishOpening(t, flush)
    \/ \E empty, flush \in BOOLEAN : Continued(t, empty, flush)
    \/ \E empty \in BOOLEAN, ending \in Endings : FinishSection(t, empty, ending)
    \/ Exit(t) \/ Create(t)

Spec == Init /\ [][Next]_vars
-----------------------------------------------------------------------------
\* The type invariant.  An unfinished_oss_ has a thread: it is the output of newlineless_tsd_.
TypeOK ==
  /\ alive \subseteq Threads
  /\ outputs \in [Threads -> Seq([buffer : Buffers, kind : Kinds])]
  /\ \A t \in Threads : Len(outputs[t]) <= MaxNest
  /\ unfinished_expected \in [Threads -> BOOLEAN]
  /\ pending \in [Buffers -> {"none", "text", "line"}]
  /\ unfinished_already_printed_ \in [Buffers -> BOOLEAN]
  /\ continued_needed_ \in [Buffers -> BOOLEAN]
  /\ newlineless_tsd_ \in Threads \cup {NULL}
  /\ unfinished_oss_ \in Buffers \cup {NULL}
  /\ unfinished_oss_ # NULL => newlineless_tsd_ # NULL
  /\ line \in [tsd : Threads \cup {NULL, Gone}, buffer : Buffers \cup {NULL}]
  /\ faults \subseteq {"mixed", "orphan", "repeated", "stray", "open"}

(***************************************************************************)
(* Whatever the threads do, no output is written on a line that another    *)
(* output left open, except what a thread itself writes after an output of *)
(* its own with nonewline_cf.                                              *)
(***************************************************************************)
LinesNotMixed == "mixed" \notin faults

(***************************************************************************)
(* What a section writes on a line of its own starts with its prefix, once:*)
(* text that was interrupted, by this thread or by others, any number of   *)
(* times, never appears as a bare fragment.                                *)
(***************************************************************************)
TextHasItsPrefix == "orphan" \notin faults /\ "repeated" \notin faults

(***************************************************************************)
(* "<unfinished>" is written once for every line that is interrupted: a    *)
(* section that another thread interrupted is not interrupted again by its *)
(* own thread, and one that is interrupted does not leave its line open.   *)
(***************************************************************************)
UnfinishedOnce == "stray" \notin faults /\ "open" \notin faults

\* What the debug object remembers of the line is a thread that runs and an output that exists.
NoDangling ==
  /\ newlineless_tsd_ \in alive \cup {NULL}
  /\ unfinished_oss_ \in Live \cup {NULL}
=============================================================================
