--------------------------- MODULE SharedLine_proofs ---------------------------
(***************************************************************************)
(* The threads never mix their lines, for any number of threads, outputs   *)
(* and levels of nesting, when they end the line they left open before     *)
(* they exit and write no empty part without a newline.                    *)
(***************************************************************************)
EXTENDS SharedLine, SequenceTheorems, TLAPS

\* The outputs that a thread may have in progress.
Outputs == [buffer : Buffers, kind : Kinds]

\* The programs considered.
WellBehaved == TidyExits /\ ~ EmptyParts

\* The buffer of the i-th output of a thread, counted from the outermost.
Buffer(t, i) == outputs[t][i].buffer

\* A buffer belongs to one output of one thread.
Distinct ==
  \A t, u \in Threads : \A i \in DOMAIN outputs[t], j \in DOMAIN outputs[u] :
    Buffer(t, i) = Buffer(u, j) => t = u /\ i = j

\* The debug object knows who left the line open.
LineKnown ==
  /\ line = LeftOpen(newlineless_tsd_, unfinished_oss_)
  /\ newlineless_tsd_ \in alive \cup {NULL}
  /\ unfinished_oss_ \in Live \cup {NULL}
  /\ \A t \in Threads : outputs[t] # <<>> => t \in alive

\* Another thread marks a buffer with both flags, and they are cleared together.
FlagsAgree ==
  \A b \in Buffers :
    /\ continued_needed_[b] = unfinished_already_printed_[b]
    /\ b \notin Live => ~ continued_needed_[b]

(***************************************************************************)
(* A buffer holds a line that begins with the prefix; or it is that of the *)
(* section a thread is in, that wrote, and then it is marked when another  *)
(* thread ended its line and otherwise what the line was left open by.     *)
(***************************************************************************)
Fresh(b) == pending[b] = "line" /\ ~ continued_needed_[b] /\ unfinished_oss_ # b

Begun(t, i) ==
  /\ pending[Buffer(t, i)] # "line"
  /\ outputs[t][i].kind = "section" /\ i = Len(outputs[t]) /\ unfinished_expected[t]
  /\ IF continued_needed_[Buffer(t, i)]
     THEN newlineless_tsd_ # t /\ unfinished_oss_ # Buffer(t, i)
     ELSE newlineless_tsd_ = t /\ unfinished_oss_ = Buffer(t, i)

Buffered == \A t \in Threads : \A i \in DOMAIN outputs[t] : Fresh(Buffer(t, i)) \/ Begun(t, i)

\* The opening statement of a section is the innermost output, and nothing interrupted it.
OpeningOnTop ==
  \A t \in Threads : \A i \in DOMAIN outputs[t] :
    outputs[t][i].kind = "opening" => i = Len(outputs[t]) /\ unfinished_expected[t]

IInv == TypeOK /\ Distinct /\ LineKnown /\ FlagsAgree /\ OpeningOnTop /\ Buffered /\ faults = {}

-----------------------------------------------------------------------------
(***************************************************************************)
(* The outputs of the threads: what starting and ending one does to the    *)
(* buffers that are in use.                                                *)
(***************************************************************************)
\* The outputs of a thread are a sequence; their buffers are buffers that are in use.
LEMMA OutputsTyped ==
  ASSUME TypeOK, NEW t \in Threads
  PROVE  /\ outputs[t] \in Seq(Outputs)
         /\ Len(outputs[t]) \in Nat
         /\ DOMAIN outputs[t] = 1 .. Len(outputs[t])
         /\ \A i \in DOMAIN outputs[t] :
              /\ outputs[t][i] \in Outputs
              /\ Buffer(t, i) \in Buffers
              /\ Buffer(t, i) \in Live
         /\ outputs[t] = <<>> <=> Len(outputs[t]) = 0
<1>1. outputs[t] \in Seq(Outputs)
  BY DEF TypeOK, Outputs
<1>2. Len(outputs[t]) \in Nat /\ DOMAIN outputs[t] = 1 .. Len(outputs[t])
  BY <1>1, LenProperties
<1>3. \A i \in DOMAIN outputs[t] : outputs[t][i] \in Outputs
  BY <1>1, <1>2, ElementOfSeq
<1>4. \A i \in DOMAIN outputs[t] : Buffer(t, i) \in Buffers /\ Buffer(t, i) \in Live
  BY <1>3 DEF Buffer, Outputs, Live
<1>5. outputs[t] = <<>> <=> Len(outputs[t]) = 0
  BY <1>1, EmptySeq
<1> QED
  BY <1>1, <1>2, <1>3, <1>4, <1>5

\* A buffer is in use by an output of a thread, and is a buffer.
LEMMA LiveBuffers ==
  ASSUME TypeOK
  PROVE  /\ Live \subseteq Buffers
         /\ \A b : b \in Live <=> \E t \in Threads : \E i \in DOMAIN outputs[t] : Buffer(t, i) = b
<1>1. \A b : b \in Live <=> \E t \in Threads : \E i \in DOMAIN outputs[t] : Buffer(t, i) = b
  BY DEF Live, Buffer
<1> QED
  BY <1>1, OutputsTyped

\* The innermost output of a thread.
LEMMA CurrentTyped ==
  ASSUME TypeOK, NEW t \in Threads, outputs[t] # <<>>
  PROVE  /\ Len(outputs[t]) \in DOMAIN outputs[t]
         /\ Current(t) \in Outputs
         /\ Current(t).buffer = Buffer(t, Len(outputs[t]))
         /\ Current(t).buffer \in Buffers
         /\ Current(t).buffer \in Live
<1>1. Len(outputs[t]) \in DOMAIN outputs[t]
  BY OutputsTyped
<1> QED
  BY <1>1, OutputsTyped DEF Current, Buffer

\* A thread starts an output.
LEMMA Pushed ==
  ASSUME TypeOK, Distinct, NEW t \in Threads, NEW b \in Buffers \ Live, NEW kind \in Kinds, Room(t),
         outputs' = [outputs EXCEPT ![t] = Append(@, Output(b, kind))]
  PROVE  /\ outputs' \in [Threads -> Seq(Outputs)]
         /\ \A u \in Threads : Len(outputs'[u]) <= MaxNest
         /\ \A u \in Threads \ {t} : outputs'[u] = outputs[u]
         /\ Len(outputs'[t]) = Len(outputs[t]) + 1
         /\ outputs'[t] # <<>>
         /\ DOMAIN outputs'[t] = 1 .. Len(outputs[t]) + 1
         /\ \A i \in DOMAIN outputs[t] : outputs'[t][i] = outputs[t][i]
         /\ outputs'[t][Len(outputs[t]) + 1] = Output(b, kind)
         /\ Live' = Live \cup {b}
         /\ Distinct'
<1>1. Output(b, kind) \in Outputs
  BY DEF Output, Outputs
<1>2. /\ outputs \in [Threads -> Seq(Outputs)]
      /\ \A u \in Threads : Len(outputs[u]) <= MaxNest
  BY DEF TypeOK, Outputs
<1>3. /\ outputs'[t] = Append(outputs[t], Output(b, kind))
      /\ \A u \in Threads \ {t} : outputs'[u] = outputs[u]
  BY <1>2
<1>4. outputs[t] \in Seq(Outputs) /\ Len(outputs[t]) \in Nat /\ DOMAIN outputs[t] = 1 .. Len(outputs[t])
  BY OutputsTyped
<1>5. /\ outputs'[t] \in Seq(Outputs)
      /\ outputs'[t] # <<>>
      /\ Len(outputs'[t]) = Len(outputs[t]) + 1
      /\ \A i \in DOMAIN outputs[t] : outputs'[t][i] = outputs[t][i]
      /\ outputs'[t][Len(outputs[t]) + 1] = Output(b, kind)
  BY <1>1, <1>3, <1>4, AppendProperties
<1>6. DOMAIN outputs'[t] = 1 .. Len(outputs[t]) + 1
  BY <1>5, LenProperties
<1>7. outputs' \in [Threads -> Seq(Outputs)]
  BY <1>1, <1>2, <1>4, <1>5, <1>3
<1>8. \A u \in Threads : Len(outputs'[u]) <= MaxNest
  BY <1>2, <1>3, <1>4, <1>5, BoundAssumption DEF Room
<1>9. \A u \in Threads : \A i : i \in DOMAIN outputs'[u] =>
         \/ i \in DOMAIN outputs[u] /\ outputs'[u][i] = outputs[u][i]
         \/ u = t /\ i = Len(outputs[t]) + 1 /\ outputs'[u][i].buffer = b
  <2> SUFFICES ASSUME NEW u \in Threads, NEW i \in DOMAIN outputs'[u]
               PROVE  \/ i \in DOMAIN outputs[u] /\ outputs'[u][i] = outputs[u][i]
                      \/ u = t /\ i = Len(outputs[t]) + 1 /\ outputs'[u][i].buffer = b
    OBVIOUS
  <2>1. CASE u # t
    BY <2>1, <1>3
  <2>2. CASE u = t
    BY <2>2, <1>4, <1>5, <1>6 DEF Output
  <2> QED
    BY <2>1, <2>2
<1>10. \A u \in Threads : \A i : i \in DOMAIN outputs[u] =>
         i \in DOMAIN outputs'[u] /\ outputs'[u][i] = outputs[u][i]
  BY <1>3, <1>4, <1>5, <1>6
<1>11. Live' = Live \cup {b}
  <2>1. Live' \subseteq Live \cup {b}
    BY <1>9 DEF Live
  <2>2. Live \subseteq Live'
    BY <1>10 DEF Live
  <2>3. b \in Live'
    BY <1>4, <1>5, <1>6 DEF Live, Output
  <2> QED
    BY <2>1, <2>2, <2>3
<1>12. \A u \in Threads : \A i \in DOMAIN outputs[u] : outputs[u][i].buffer # b
  BY LiveBuffers DEF Buffer
<1>13. Distinct'
  BY <1>9, <1>12 DEF Distinct, Buffer
<1> QED
  BY <1>3, <1>5, <1>6, <1>7, <1>8, <1>11, <1>13
\* What remains of a sequence without its last element.
LEMMA Shortened ==
  ASSUME NEW S, NEW s \in Seq(S), Len(s) # 0
  PROVE  /\ SubSeq(s, 1, Len(s) - 1) \in Seq(S)
         /\ Len(SubSeq(s, 1, Len(s) - 1)) = Len(s) - 1
         /\ \A i \in 1 .. Len(s) - 1 : SubSeq(s, 1, Len(s) - 1)[i] = s[i]
<1> DEFINE n == Len(s) - 1
<1>1. Len(s) \in Nat /\ n \in Nat /\ n <= Len(s)
  BY LenProperties
<1>2. \A i \in 1 .. n : s[i] \in S
  BY <1>1, ElementOfSeq
<1> HIDE DEF n
<1>3. /\ SubSeq(s, 1, n) \in Seq(S)
      /\ Len(SubSeq(s, 1, n)) = IF 1 <= n THEN n - 1 + 1 ELSE 0
      /\ \A i \in 1 .. n - 1 + 1 : SubSeq(s, 1, n)[i] = s[1 + i - 1]
  BY <1>1, <1>2, SubSeqProperties
<1>4. Len(SubSeq(s, 1, n)) = n
  BY <1>1, <1>3
<1>5. \A i \in 1 .. n : SubSeq(s, 1, n)[i] = s[i]
  <2> SUFFICES ASSUME NEW i \in 1 .. n PROVE SubSeq(s, 1, n)[i] = s[i]
    OBVIOUS
  <2>1. i \in 1 .. n - 1 + 1 /\ 1 + i - 1 = i
    BY <1>1
  <2> QED
    BY <1>3, <2>1
<1> QED
  BY <1>3, <1>4, <1>5 DEF n

\* A thread ends its innermost output.
LEMMA Popped ==
  ASSUME TypeOK, Distinct, NEW t \in Threads, outputs[t] # <<>>,
         outputs' = [outputs EXCEPT ![t] = Without(t)]
  PROVE  /\ outputs' \in [Threads -> Seq(Outputs)]
         /\ \A u \in Threads : Len(outputs'[u]) <= MaxNest
         /\ \A u \in Threads \ {t} : outputs'[u] = outputs[u]
         /\ DOMAIN outputs'[t] = 1 .. Len(outputs[t]) - 1
         /\ \A i \in DOMAIN outputs'[t] : outputs'[t][i] = outputs[t][i]
         /\ Live' = Live \ {Current(t).buffer}
         /\ Distinct'
<1>1. /\ outputs \in [Threads -> Seq(Outputs)]
      /\ \A u \in Threads : Len(outputs[u]) <= MaxNest
  BY DEF TypeOK, Outputs
<1>2. /\ outputs'[t] = SubSeq(outputs[t], 1, Len(outputs[t]) - 1)
      /\ \A u \in Threads \ {t} : outputs'[u] = outputs[u]
  BY <1>1 DEF Without
<1>3. /\ outputs[t] \in Seq(Outputs) /\ Len(outputs[t]) \in Nat \ {0}
      /\ DOMAIN outputs[t] = 1 .. Len(outputs[t])
  BY OutputsTyped
<1>4. /\ outputs'[t] \in Seq(Outputs)
      /\ Len(outputs'[t]) = Len(outputs[t]) - 1
      /\ \A i \in 1 .. Len(outputs[t]) - 1 : outputs'[t][i] = outputs[t][i]
  BY <1>2, <1>3, Shortened
<1>5. DOMAIN outputs'[t] = 1 .. Len(outputs[t]) - 1
  BY <1>4, LenProperties
<1>6. outputs' \in [Threads -> Seq(Outputs)]
  BY <1>1, <1>2, <1>4
<1>7. \A u \in Threads : Len(outputs'[u]) <= MaxNest
  BY <1>1, <1>2, <1>3, <1>4, BoundAssumption
<1>8. \A u \in Threads : \A i : i \in DOMAIN outputs'[u] =>
         i \in DOMAIN outputs[u] /\ outputs'[u][i] = outputs[u][i]
  BY <1>2, <1>3, <1>4, <1>5
<1>9. \A u \in Threads : \A i : i \in DOMAIN outputs[u] /\ ~ (u = t /\ i = Len(outputs[t])) =>
         i \in DOMAIN outputs'[u] /\ outputs'[u][i] = outputs[u][i]
  BY <1>2, <1>3, <1>4, <1>5
<1>10. Distinct'
  BY <1>8 DEF Distinct, Buffer
<1>11. \A u \in Threads : \A i : i \in DOMAIN outputs'[u] => ~ (u = t /\ i = Len(outputs[t]))
  BY <1>3, <1>5
<1>12. Live' \subseteq Live \ {Current(t).buffer}
  <2> SUFFICES ASSUME NEW u \in Threads, NEW i \in DOMAIN outputs'[u]
               PROVE  outputs'[u][i].buffer \in Live /\ outputs'[u][i].buffer # Current(t).buffer
    BY DEF Live
  <2>1. i \in DOMAIN outputs[u] /\ outputs'[u][i] = outputs[u][i] /\ ~ (u = t /\ i = Len(outputs[t]))
    BY <1>8, <1>11
  <2>2. outputs[u][i].buffer \in Live
    BY <2>1 DEF Live
  <2>3. Current(t).buffer = Buffer(t, Len(outputs[t])) /\ Len(outputs[t]) \in DOMAIN outputs[t]
    BY CurrentTyped
  <2> QED
    BY <2>1, <2>2, <2>3 DEF Distinct, Buffer
<1>13. Live \ {Current(t).buffer} \subseteq Live'
  BY <1>9 DEF Live, Current
<1> QED
  BY <1>2, <1>4, <1>5, <1>6, <1>7, <1>10, <1>12, <1>13

\* The opening statement of a section becomes the section.
LEMMA Replaced ==
  ASSUME TypeOK, Distinct, NEW t \in Threads, outputs[t] # <<>>,
         outputs' = [outputs EXCEPT ![t] = Append(Without(t), Output(Current(t).buffer, "section"))]
  PROVE  /\ outputs' \in [Threads -> Seq(Outputs)]
         /\ \A u \in Threads : Len(outputs'[u]) <= MaxNest
         /\ \A u \in Threads \ {t} : outputs'[u] = outputs[u]
         /\ Len(outputs'[t]) = Len(outputs[t])
         /\ outputs'[t] # <<>>
         /\ DOMAIN outputs'[t] = DOMAIN outputs[t]
         /\ \A i \in 1 .. Len(outputs[t]) - 1 : outputs'[t][i] = outputs[t][i]
         /\ outputs'[t][Len(outputs[t])] = Output(Current(t).buffer, "section")
         /\ Live' = Live
         /\ Distinct'
<1> DEFINE section == Output(Current(t).buffer, "section")
<1>1. /\ outputs \in [Threads -> Seq(Outputs)]
      /\ \A u \in Threads : Len(outputs[u]) <= MaxNest
  BY DEF TypeOK, Outputs
<1>2. /\ outputs'[t] = Append(SubSeq(outputs[t], 1, Len(outputs[t]) - 1), section)
      /\ \A u \in Threads \ {t} : outputs'[u] = outputs[u]
  BY <1>1 DEF Without
<1>3. /\ outputs[t] \in Seq(Outputs) /\ Len(outputs[t]) \in Nat \ {0}
      /\ DOMAIN outputs[t] = 1 .. Len(outputs[t])
  BY OutputsTyped
<1>4. section \in Outputs /\ section.buffer = Buffer(t, Len(outputs[t]))
  BY CurrentTyped DEF Output, Outputs, Kinds
<1>5. /\ outputs'[t] \in Seq(Outputs)
      /\ outputs'[t] # <<>>
      /\ Len(outputs'[t]) = Len(outputs[t])
      /\ \A i \in 1 .. Len(outputs[t]) - 1 : outputs'[t][i] = outputs[t][i]
      /\ outputs'[t][Len(outputs[t])] = section
  <2> DEFINE short == SubSeq(outputs[t], 1, Len(outputs[t]) - 1)
  <2>1. /\ short \in Seq(Outputs) /\ Len(short) = Len(outputs[t]) - 1
        /\ \A i \in 1 .. Len(outputs[t]) - 1 : short[i] = outputs[t][i]
    BY <1>3, Shortened
  <2>2. outputs'[t] = Append(short, section)
    BY <1>2
  <2> HIDE DEF short, section
  <2> DEFINE long == Append(short, section)
  <2>3. /\ long \in Seq(Outputs)
        /\ long # <<>>
        /\ Len(long) = Len(short) + 1
        /\ \A i \in 1 .. Len(short) : long[i] = short[i]
        /\ long[Len(short) + 1] = section
    BY <1>4, <2>1, AppendProperties
  <2> HIDE DEF long
  <2>4. Len(short) + 1 = Len(outputs[t])
    BY <1>3, <2>1
  <2>5. outputs'[t] = long
    BY <2>2 DEF long
  <2> QED
    BY <2>1, <2>3, <2>4, <2>5
<1>6. DOMAIN outputs'[t] = DOMAIN outputs[t]
  BY <1>3, <1>5, LenProperties
<1>7. outputs' \in [Threads -> Seq(Outputs)]
  BY <1>1, <1>2, <1>5, <1>4, <1>3
<1>8. \A u \in Threads : Len(outputs'[u]) <= MaxNest
  BY <1>1, <1>2, <1>5
<1>9. \A u \in Threads : /\ DOMAIN outputs'[u] = DOMAIN outputs[u]
                         /\ \A i \in DOMAIN outputs[u] : outputs'[u][i].buffer = outputs[u][i].buffer
  BY <1>2, <1>3, <1>4, <1>5, <1>6 DEF Buffer
<1>10. Live' = Live /\ Distinct'
  <2>1. Live' \subseteq Live
    BY <1>9 DEF Live
  <2>2. Live \subseteq Live'
    BY <1>9 DEF Live
  <2>3. Distinct'
    BY <1>9 DEF Distinct, Buffer
  <2> QED
    BY <2>1, <2>2, <2>3
<1> QED
  BY <1>2, <1>5, <1>6, <1>7, <1>8, <1>10
-----------------------------------------------------------------------------
(***************************************************************************)
(* The line that is open belongs to what its thread is in, and no other    *)
(* output of that thread can have left it open.                            *)
(***************************************************************************)
LEMMA OpenLineIsOfCurrent ==
  ASSUME IInv, unfinished_oss_ # NULL
  PROVE  \E u \in Threads :
           /\ newlineless_tsd_ = u
           /\ outputs[u] # <<>>
           /\ unfinished_oss_ = Current(u).buffer
           /\ ~ continued_needed_[unfinished_oss_]
<1>1. PICK u \in Threads : \E i \in DOMAIN outputs[u] : Buffer(u, i) = unfinished_oss_
  BY LiveBuffers DEF IInv, LineKnown
<1>0. PICK i \in DOMAIN outputs[u] : Buffer(u, i) = unfinished_oss_
  BY <1>1
<1>2. Begun(u, i)
  BY <1>0 DEF IInv, Buffered, Fresh
<1>3. newlineless_tsd_ = u /\ ~ continued_needed_[unfinished_oss_] /\ i = Len(outputs[u])
  BY <1>0, <1>2 DEF Begun
<1>4. outputs[u] # <<>>
  BY <1>0, OutputsTyped DEF IInv
<1> QED
  BY <1>0, <1>3, <1>4 DEF Current, Buffer

(***************************************************************************)
(* What writeto() does for the thread that is in b when all is well: the   *)
(* text fits the line, the debug object knows the line, and another buffer *)
(* is marked when its line was ended for it.                               *)
(***************************************************************************)
LEMMA Written ==
  ASSUME IInv,
         NEW t \in Threads, outputs[t] # <<>>,
         NEW b, b = Current(t).buffer,
         NEW held \in {"none", "text", "line"}, held = "line" <=> pending[b] = "line",
         NEW ending \in {"interrupted", "newline", "nonewline", "open"},
         ending \in {"open", "nonewline"} => held # "none",
         WriteTo(t, b, held, ending)
  PROVE  /\ faults' = {}
         /\ newlineless_tsd_' = IF EndsOnNewline(ending) THEN NULL ELSE t
         /\ unfinished_oss_' = IF ending = "open" THEN b ELSE NULL
         /\ line' = LeftOpen(newlineless_tsd_', unfinished_oss_')
         /\ continued_needed_' = [c \in Buffers |-> c # b /\ (continued_needed_[c] \/ c \in Informed(t, b))]
         /\ unfinished_already_printed_' = continued_needed_'
<1> DEFINE before    == IF Interrupts(t, b) THEN AtStart ELSE line
           writes    == held # "none" \/ ending = "newline"
           continued == Needed(t, b)[b] /\ writes
           prefixed  == continued \/ held = "line"
           after     == IF writes THEN LeftOpen(t, b) ELSE before
           printed   == Printed(t, b)[b] /\ ~ continued
<1>1. /\ line' = CASE ending = "interrupted" -> IF printed THEN after ELSE AtStart
                   [] ending = "newline" -> AtStart
                   [] ending = "nonewline" -> IF writes THEN LeftOpen(t, NULL) ELSE after
                   [] ending = "open" -> after
      /\ faults' = faults
           \cup {f \in {"mixed"} : writes /\ before # AtStart /\ before # LeftOpen(t, NULL)
                                   /\ (prefixed \/ before # LeftOpen(t, b))}
           \cup {f \in {"orphan"} : writes /\ ~ prefixed /\ before = AtStart}
           \cup {f \in {"repeated"} : continued /\ held = "line"}
           \cup {f \in {"stray"} : ending = "interrupted" /\ ~ printed /\ after = AtStart}
           \cup {f \in {"open"} : ending = "interrupted" /\ line' # AtStart}
      /\ continued_needed_' = [Needed(t, b) EXCEPT ![b] =
           CASE ending = "interrupted" -> NeededAfterRestore(@ /\ ~ continued)
             [] ending = "open" -> @ /\ ~ continued
             [] OTHER -> FALSE]
      /\ unfinished_already_printed_' = [Printed(t, b) EXCEPT ![b] = FALSE]
      /\ newlineless_tsd_' = Newlineless(t, writes, ending)
      /\ unfinished_oss_' = Unfinished(b, writes, ending)
  BY DEF WriteTo
<1>2. /\ b \in Buffers /\ b \in Live /\ b = Buffer(t, Len(outputs[t]))
      /\ Len(outputs[t]) \in DOMAIN outputs[t]
  BY CurrentTyped DEF IInv
<1>3. /\ t # NULL /\ b # NULL /\ t # Gone
  BY <1>2, NullAssumption
<1>4. b \notin Informed(t, b)
  BY DEF Informed, Interrupts
<1>5. /\ Needed(t, b) = [c \in Buffers |-> continued_needed_[c] \/ c \in Informed(t, b)]
      /\ Printed(t, b) = Needed(t, b)
  BY DEF Needed, Printed, IInv, FlagsAgree
<1>6. /\ continued_needed_ \in [Buffers -> BOOLEAN]
      /\ Needed(t, b)[b] = continued_needed_[b] /\ Printed(t, b)[b] = continued_needed_[b]
  BY <1>2, <1>4, <1>5 DEF IInv, TypeOK
<1>7. line = LeftOpen(newlineless_tsd_, unfinished_oss_)
  BY DEF IInv, LineKnown
<1>8. Fresh(b) \/ Begun(t, Len(outputs[t]))
  BY <1>2 DEF IInv, Buffered
<1>9. ending \in {"open", "nonewline"} => writes
  OBVIOUS
<1>10. newlineless_tsd_' = IF EndsOnNewline(ending) THEN NULL ELSE t
  BY <1>1, <1>9 DEF Newlineless, EndsOnNewline
<1>11. unfinished_oss_' = IF ending = "open" THEN b ELSE NULL
  BY <1>1, <1>9 DEF Unfinished, EndsOnNewline
<1>12. unfinished_already_printed_' = [c \in Buffers |-> c # b /\ (continued_needed_[c] \/ c \in Informed(t, b))]
  BY <1>1, <1>2, <1>5, <1>6
<1>13. continued_needed_' = [c \in Buffers |-> c # b /\ (continued_needed_[c] \/ c \in Informed(t, b))]
  <2>1. ending = "open" => ~ (Needed(t, b)[b] /\ ~ continued)
    BY <1>9
  <2>2. continued_needed_' = [Needed(t, b) EXCEPT ![b] = FALSE]
    BY <1>1, <2>1 DEF NeededAfterRestore
  <2> QED
    BY <2>2, <1>2, <1>5
\* When b has nothing of its own on the line, the line is the thread's own or is ended first.
<1>14. ASSUME newlineless_tsd_ # t \/ unfinished_oss_ # b, unfinished_oss_ # b
       PROVE  before \in {AtStart, LeftOpen(t, NULL)}
  <2>1. CASE newlineless_tsd_ = NULL
    <3>1. unfinished_oss_ = NULL
      BY <2>1 DEF IInv, TypeOK
    <3> QED
      BY <2>1, <3>1, <1>7 DEF Interrupts, ForeignLine, AtStart, LeftOpen
  <2>2. CASE newlineless_tsd_ = t
    <3>1. unfinished_oss_ = NULL
      BY <2>2, <1>14, OpenLineIsOfCurrent
    <3> QED
      BY <2>2, <3>1, <1>7, <1>3 DEF Interrupts, ForeignLine, AtStart, LeftOpen
  <2>3. CASE newlineless_tsd_ # NULL /\ newlineless_tsd_ # t
    BY <2>3, <1>14 DEF Interrupts, ForeignLine
  <2> QED
    BY <2>1, <2>2, <2>3
<1>15. CASE Fresh(b)
  <2>1. held = "line" /\ ~ continued_needed_[b] /\ unfinished_oss_ # b
    BY <1>15 DEF Fresh
  <2>2. before \in {AtStart, LeftOpen(t, NULL)}
    BY <2>1, <1>14
  <2>3. writes /\ ~ continued /\ ~ printed /\ prefixed /\ after = LeftOpen(t, b)
    BY <2>1, <1>6
  <2>4. line' = LeftOpen(newlineless_tsd_', unfinished_oss_')
    BY <1>1, <1>10, <1>11, <2>3 DEF EndsOnNewline, AtStart, LeftOpen
  <2>5. after # AtStart
    BY <2>3, <1>3 DEF AtStart, LeftOpen
  <2>6. ending = "interrupted" => line' = AtStart
    BY <1>1, <2>3
  <2> HIDE DEF before, writes, continued, prefixed, after, printed
  <2>7. faults' = {}
    BY <1>1, <2>2, <2>3, <2>5, <2>6 DEF IInv
  <2> QED
    BY <1>10, <1>11, <1>12, <1>13, <2>4, <2>7
<1>16. CASE Begun(t, Len(outputs[t])) /\ continued_needed_[b]
  <2>1. held # "line" /\ newlineless_tsd_ # t /\ unfinished_oss_ # b
    BY <1>16, <1>2 DEF Begun
  <2>2. before = AtStart
    <3>1. CASE newlineless_tsd_ = NULL
      BY <3>1, <1>7 DEF IInv, TypeOK, Interrupts, ForeignLine, AtStart, LeftOpen
    <3>2. CASE newlineless_tsd_ # NULL
      BY <3>2, <2>1 DEF Interrupts, ForeignLine
    <3> QED
      BY <3>1, <3>2
  <2>3. /\ writes => continued /\ prefixed /\ ~ printed /\ after = LeftOpen(t, b)
        /\ ~ writes => ~ continued /\ printed /\ after = AtStart
    BY <2>2, <1>6, <1>16
  <2>4. line' = LeftOpen(newlineless_tsd_', unfinished_oss_')
    BY <1>1, <1>10, <1>11, <2>3, <1>9 DEF EndsOnNewline, AtStart, LeftOpen
  <2>5. LeftOpen(t, b) # AtStart
    BY <1>3 DEF AtStart, LeftOpen
  <2>6. ending = "interrupted" => line' = AtStart
    BY <1>1, <2>3
  <2> HIDE DEF before, writes, continued, prefixed, after, printed
  <2>7. faults' = {}
    BY <1>1, <2>1, <2>2, <2>3, <2>5, <2>6 DEF IInv
  <2> QED
    BY <1>10, <1>11, <1>12, <1>13, <2>4, <2>7
<1>17. CASE Begun(t, Len(outputs[t])) /\ ~ continued_needed_[b]
  <2>1. held # "line" /\ newlineless_tsd_ = t /\ unfinished_oss_ = b
    BY <1>17, <1>2 DEF Begun
  <2>2. before = LeftOpen(t, b)
    BY <2>1, <1>7 DEF Interrupts, ForeignLine
  <2>3. ~ continued /\ ~ printed /\ ~ prefixed /\ after = LeftOpen(t, b)
    BY <2>1, <2>2, <1>6, <1>17
  <2>4. line' = LeftOpen(newlineless_tsd_', unfinished_oss_')
    BY <1>1, <1>10, <1>11, <2>3, <1>9 DEF EndsOnNewline, AtStart, LeftOpen
  <2>5. LeftOpen(t, b) # AtStart
    BY <1>3 DEF AtStart, LeftOpen
  <2>6. ending = "interrupted" => line' = AtStart
    BY <1>1, <2>3
  <2> HIDE DEF before, writes, continued, prefixed, after, printed
  <2>7. faults' = {}
    BY <1>1, <2>1, <2>2, <2>3, <2>5, <2>6 DEF IInv
  <2> QED
    BY <1>10, <1>11, <1>12, <1>13, <2>4, <2>7
<1> QED
  BY <1>8, <1>15, <1>16, <1>17
\* The variables of the ostream and the marks of the buffers keep their types.
StreamTyped ==
  /\ unfinished_already_printed_ \in [Buffers -> BOOLEAN]
  /\ continued_needed_ \in [Buffers -> BOOLEAN]
  /\ newlineless_tsd_ \in Threads \cup {NULL}
  /\ unfinished_oss_ \in Buffers \cup {NULL}
  /\ unfinished_oss_ # NULL => newlineless_tsd_ # NULL
  /\ line \in [tsd : Threads \cup {NULL, Gone}, buffer : Buffers \cup {NULL}]
  /\ faults = {}

\* A thread that wrote leaves what the debug object knows and the marks as they should be.
LEMMA AfterWrite ==
  ASSUME IInv,
         NEW t \in Threads, outputs[t] # <<>>,
         NEW b, b = Current(t).buffer,
         NEW held \in {"none", "text", "line"}, held = "line" <=> pending[b] = "line",
         NEW ending \in {"interrupted", "newline", "nonewline", "open"},
         ending \in {"open", "nonewline"} => held # "none",
         WriteTo(t, b, held, ending),
         Live \ {b} \subseteq Live', ending = "open" => b \in Live',
         alive' = alive, \A u \in Threads : outputs'[u] # <<>> => u \in alive
  PROVE  StreamTyped' /\ LineKnown' /\ FlagsAgree'
<1>1. /\ faults' = {}
      /\ newlineless_tsd_' = IF EndsOnNewline(ending) THEN NULL ELSE t
      /\ unfinished_oss_' = IF ending = "open" THEN b ELSE NULL
      /\ line' = LeftOpen(newlineless_tsd_', unfinished_oss_')
      /\ continued_needed_' = [c \in Buffers |-> c # b /\ (continued_needed_[c] \/ c \in Informed(t, b))]
      /\ unfinished_already_printed_' = continued_needed_'
  BY Written
<1>2. b \in Buffers
  BY CurrentTyped DEF IInv
<1>3. t # NULL
  BY NullAssumption
<1>4. StreamTyped'
  <2>1. continued_needed_' \in [Buffers -> BOOLEAN]
    BY <1>1 DEF IInv, TypeOK
  <2>2. newlineless_tsd_' \in Threads \cup {NULL} /\ unfinished_oss_' \in Buffers \cup {NULL}
    BY <1>1, <1>2
  <2>3. unfinished_oss_' # NULL => newlineless_tsd_' # NULL
    BY <1>1, <1>3 DEF EndsOnNewline
  <2>4. line' \in [tsd : Threads \cup {NULL, Gone}, buffer : Buffers \cup {NULL}]
    BY <1>1, <2>2 DEF LeftOpen
  <2> QED
    BY <1>1, <2>1, <2>2, <2>3, <2>4 DEF StreamTyped
<1>5. LineKnown'
  BY <1>1 DEF IInv, LineKnown, LeftOpen, EndsOnNewline
<1>6. FlagsAgree'
  <2> SUFFICES ASSUME NEW c \in Buffers, c \notin Live'
               PROVE  ~ continued_needed_'[c]
    BY <1>1 DEF FlagsAgree
  <2>1. c = b \/ c \notin Live
    OBVIOUS
  <2>2. c \notin Live => ~ continued_needed_[c] /\ c \notin Informed(t, b)
    BY DEF IInv, FlagsAgree, Informed
  <2> QED
    BY <1>1, <2>1, <2>2
<1> QED
  BY <1>4, <1>5, <1>6

\* The buffers of other outputs are as they were, or marked because their line was ended.
LEMMA OthersKeep ==
  ASSUME IInv,
         NEW t \in Threads, outputs[t] # <<>>,
         NEW b, b = Current(t).buffer,
         newlineless_tsd_' \in {NULL, t}, unfinished_oss_' \in {NULL, b},
         continued_needed_' = [c \in Buffers |-> c # b /\ (continued_needed_[c] \/ c \in Informed(t, b))],
         NEW u \in Threads, NEW i \in DOMAIN outputs[u], Buffer(u, i) # b,
         outputs'[u][i] = outputs[u][i],
         u # t => outputs'[u] = outputs[u] /\ unfinished_expected'[u] = unfinished_expected[u],
         pending'[Buffer(u, i)] = pending[Buffer(u, i)]
  PROVE  Fresh(Buffer(u, i))' \/ Begun(u, i)'
<1> DEFINE c == Buffer(u, i)
<1>1. c \in Buffers /\ c \in Live /\ c # NULL
  BY OutputsTyped, NullAssumption DEF IInv
<1>2. Buffer(u, i)' = c
  BY DEF Buffer
<1>3. CASE Fresh(c)
  <2>1. c \notin Informed(t, b)
    BY <1>3 DEF Fresh, Informed
  <2> QED
    BY <1>1, <1>2, <1>3, <2>1 DEF Fresh
<1>4. CASE Begun(u, i)
  <2>1. u # t /\ u # NULL
    <3>1. u = t => c = b
      BY <1>4, CurrentTyped DEF Begun, IInv
    <3> QED
      BY <3>1, NullAssumption
  <2>2. continued_needed_'[c]
    <3>1. CASE continued_needed_[c]
      BY <3>1, <1>1
    <3>2. CASE ~ continued_needed_[c]
      <4>1. newlineless_tsd_ = u /\ unfinished_oss_ = c
        BY <1>4, <3>2 DEF Begun
      <4>2. c \in Informed(t, b)
        BY <4>1, <1>1, <2>1 DEF Informed, Interrupts, ForeignLine
      <4> QED
        BY <4>2, <1>1
    <3> QED
      BY <3>1, <3>2
  <2>3. newlineless_tsd_' # u /\ unfinished_oss_' # c
    BY <1>1, <2>1
  <2> HIDE DEF c
  <2> QED
    BY <1>2, <1>4, <2>1, <2>2, <2>3 DEF Begun, c
<1> QED
  BY <1>3, <1>4 DEF IInv, Buffered
-----------------------------------------------------------------------------
(***************************************************************************)
(* Every action keeps the invariant.                                       *)
(***************************************************************************)
LEMMA StartKeeps ==
  ASSUME IInv, NEW t \in Threads, NEW b \in Buffers, NEW kind \in {"plain", "opening"}, Start(t, b, kind)
  PROVE  IInv'
<1>1. /\ t \in alive /\ Room(t) /\ ~ In(t, "opening")
      /\ b \notin Live
      /\ outputs' = [outputs EXCEPT ![t] = Append(@, Output(b, kind))]
      /\ unfinished_expected' = [unfinished_expected EXCEPT ![t] = TRUE]
      /\ alive' = alive
  BY DEF Start
<1>2. TypeOK /\ Distinct /\ LineKnown /\ FlagsAgree /\ OpeningOnTop /\ Buffered
  BY DEF IInv
<1>3. kind \in Kinds
  BY DEF Kinds
<1>4. /\ outputs' \in [Threads -> Seq(Outputs)]
      /\ \A u \in Threads : Len(outputs'[u]) <= MaxNest
      /\ \A u \in Threads \ {t} : outputs'[u] = outputs[u]
      /\ Len(outputs'[t]) = Len(outputs[t]) + 1
      /\ outputs'[t] # <<>>
      /\ DOMAIN outputs'[t] = 1 .. Len(outputs[t]) + 1
      /\ \A i \in DOMAIN outputs[t] : outputs'[t][i] = outputs[t][i]
      /\ outputs'[t][Len(outputs[t]) + 1] = Output(b, kind)
      /\ Live' = Live \cup {b}
      /\ Distinct'
  BY <1>1, <1>2, <1>3, Pushed
<1>5. Len(outputs[t]) \in Nat /\ DOMAIN outputs[t] = 1 .. Len(outputs[t])
  BY <1>2, OutputsTyped
<1>6. /\ unfinished_expected' \in [Threads -> BOOLEAN] /\ unfinished_expected'[t]
      /\ \A u \in Threads \ {t} : unfinished_expected'[u] = unfinished_expected[u]
  BY <1>1, <1>2 DEF TypeOK
<1>7. \A u \in Threads : \A i : i \in DOMAIN outputs'[u] =>
         \/ i \in DOMAIN outputs[u] /\ outputs'[u][i] = outputs[u][i] /\ Buffer(u, i) # b
         \/ u = t /\ i = Len(outputs[t]) + 1
  <2> SUFFICES ASSUME NEW u \in Threads, NEW i \in DOMAIN outputs'[u], ~ (u = t /\ i = Len(outputs[t]) + 1)
               PROVE  i \in DOMAIN outputs[u] /\ outputs'[u][i] = outputs[u][i] /\ Buffer(u, i) # b
    OBVIOUS
  <2>1. i \in DOMAIN outputs[u] /\ outputs'[u][i] = outputs[u][i]
    BY <1>4, <1>5
  <2> QED
    BY <2>1, <1>1, <1>2, LiveBuffers
<1>8. OpeningOnTop'
  <2> SUFFICES ASSUME NEW u \in Threads, NEW i \in DOMAIN outputs'[u], outputs'[u][i].kind = "opening"
               PROVE  i = Len(outputs'[u]) /\ unfinished_expected'[u]
    BY DEF OpeningOnTop
  <2>1. CASE u = t /\ i = Len(outputs[t]) + 1
    BY <2>1, <1>4, <1>6
  <2>2. CASE ~ (u = t /\ i = Len(outputs[t]) + 1)
    <3>1. i \in DOMAIN outputs[u] /\ outputs[u][i].kind = "opening"
      BY <2>2, <1>7
    <3>2. i = Len(outputs[u]) /\ unfinished_expected[u]
      BY <3>1, <1>2 DEF OpeningOnTop
    <3>3. u # t
      BY <3>1, <3>2, <1>1, <1>5 DEF In, Current
    <3> QED
      BY <3>2, <3>3, <1>4, <1>6
  <2> QED
    BY <2>1, <2>2
<1>9. \A u \in Threads : outputs'[u] # <<>> => u \in alive
  BY <1>1, <1>2, <1>4 DEF LineKnown
<1>10. outputs'[t][Len(outputs[t]) + 1].buffer = b
  BY <1>4 DEF Output
<1>11. CASE In(t, "section") /\ unfinished_expected[t]
  <2> DEFINE s == Current(t).buffer
  <2>1. /\ WriteTo(t, s, pending[s], "interrupted")
        /\ pending' = [pending EXCEPT ![s] = "line", ![b] = "line"]
    BY <1>11 DEF Start
  <2>2. outputs[t] # <<>>
    BY <1>11 DEF In
  <2>3. s \in Buffers /\ s \in Live /\ s = Buffer(t, Len(outputs[t])) /\ Len(outputs[t]) \in DOMAIN outputs[t]
    BY <2>2, <1>2, CurrentTyped
  <2>4. pending[s] \in {"none", "text", "line"}
    BY <2>3, <1>2 DEF TypeOK
  <2> HIDE DEF s
  <2>5. StreamTyped' /\ LineKnown' /\ FlagsAgree'
    BY <2>1, <2>2, <2>4, <1>1, <1>4, <1>9, AfterWrite DEF s
  <2>6. /\ newlineless_tsd_' = NULL
        /\ unfinished_oss_' = NULL
        /\ continued_needed_' = [c \in Buffers |-> c # s /\ (continued_needed_[c] \/ c \in Informed(t, s))]
    BY <2>1, <2>2, <2>4, Written DEF s, EndsOnNewline
  <2>7. pending' \in [Buffers -> {"none", "text", "line"}] /\ pending'[s] = "line" /\ pending'[b] = "line"
        /\ \A c \in Buffers \ {s, b} : pending'[c] = pending[c]
    BY <2>1, <2>3, <1>2 DEF TypeOK
  <2>8. TypeOK'
    BY <2>5, <2>7, <1>1, <1>2, <1>4, <1>6 DEF TypeOK, StreamTyped, Outputs
  <2>9. Buffered'
    <3> SUFFICES ASSUME NEW u \in Threads, NEW i \in DOMAIN outputs'[u]
                 PROVE  Fresh(Buffer(u, i))' \/ Begun(u, i)'
      BY DEF Buffered
    <3>1. CASE u = t /\ i = Len(outputs[t]) + 1
      <4>1. ~ continued_needed_[b] /\ b \notin Informed(t, s)
        BY <1>1, <1>2 DEF FlagsAgree, Informed
      <4>2. b # NULL /\ Buffer(u, i)' = b
        BY <3>1, <1>10, NullAssumption DEF Buffer
      <4> QED
        BY <4>1, <4>2, <2>6, <2>7 DEF Fresh
    <3>2. CASE ~ (u = t /\ i = Len(outputs[t]) + 1) /\ Buffer(u, i) = s
      <4>1. Buffer(u, i)' = s /\ s # NULL
        BY <3>2, <1>7, <2>3, NullAssumption DEF Buffer
      <4> QED
        BY <4>1, <2>3, <2>6, <2>7 DEF Fresh
    <3>3. CASE ~ (u = t /\ i = Len(outputs[t]) + 1) /\ Buffer(u, i) # s
      <4>1. i \in DOMAIN outputs[u] /\ outputs'[u][i] = outputs[u][i] /\ Buffer(u, i) # b
        BY <3>3, <1>7
      <4>2. Buffer(u, i) \in Buffers
        BY <4>1, <1>2, OutputsTyped
      <4>3. u # t => outputs'[u] = outputs[u] /\ unfinished_expected'[u] = unfinished_expected[u]
        BY <1>4, <1>6
      <4>4. pending'[Buffer(u, i)] = pending[Buffer(u, i)]
        BY <3>3, <4>1, <4>2, <2>7
      <4>5. newlineless_tsd_' \in {NULL, t} /\ unfinished_oss_' \in {NULL, s}
        BY <2>6
      <4>6. s = Current(t).buffer
        BY DEF s
      <4> QED
        BY <3>3, <4>1, <4>3, <4>4, <4>5, <4>6, <2>2, <2>6, OthersKeep
    <3> QED
      BY <3>1, <3>2, <3>3
  <2> QED
    BY <2>5, <2>8, <2>9, <1>4, <1>8 DEF IInv, StreamTyped
<1>12. CASE ~ (In(t, "section") /\ unfinished_expected[t])
  <2>1. /\ pending' = [pending EXCEPT ![b] = "line"]
        /\ UNCHANGED <<unfinished_already_printed_, continued_needed_, osvars>>
    BY <1>12 DEF Start
  <2>2. pending' \in [Buffers -> {"none", "text", "line"}] /\ pending'[b] = "line"
        /\ \A c \in Buffers \ {b} : pending'[c] = pending[c]
    BY <2>1, <1>2 DEF TypeOK
  <2>3. TypeOK' /\ faults' = {}
    BY <2>1, <2>2, <1>1, <1>2, <1>4, <1>6 DEF TypeOK, osvars, Outputs, IInv
  <2>4. LineKnown' /\ FlagsAgree'
    BY <2>1, <1>1, <1>2, <1>4, <1>9 DEF LineKnown, FlagsAgree, osvars, LeftOpen
  <2>5. Buffered'
    <3> SUFFICES ASSUME NEW u \in Threads, NEW i \in DOMAIN outputs'[u]
                 PROVE  Fresh(Buffer(u, i))' \/ Begun(u, i)'
      BY DEF Buffered
    <3>1. CASE u = t /\ i = Len(outputs[t]) + 1
      <4>1. ~ continued_needed_[b] /\ unfinished_oss_ # b
        BY <1>1, <1>2, NullAssumption DEF FlagsAgree, LineKnown
      <4> QED
        BY <3>1, <4>1, <1>10, <2>1, <2>2 DEF Fresh, Buffer, osvars
    <3>2. CASE ~ (u = t /\ i = Len(outputs[t]) + 1)
      <4>1. i \in DOMAIN outputs[u] /\ outputs'[u][i] = outputs[u][i] /\ Buffer(u, i) # b
        BY <3>2, <1>7
      <4>2. Buffer(u, i) \in Buffers /\ Buffer(u, i)' = Buffer(u, i)
        BY <4>1, <1>2, OutputsTyped DEF Buffer
      <4>3. CASE Fresh(Buffer(u, i))
        BY <4>1, <4>2, <4>3, <2>1, <2>2 DEF Fresh, osvars
      <4>4. CASE Begun(u, i)
        <5>1. u # t
          BY <4>4, <1>12, <1>5, <4>1 DEF Begun, In, Current
        <5> QED
          BY <5>1, <4>1, <4>2, <4>4, <2>1, <2>2, <1>4, <1>6 DEF Begun, osvars
      <4> QED
        BY <4>1, <4>3, <4>4, <1>2 DEF Buffered
    <3> QED
      BY <3>1, <3>2
  <2> QED
    BY <2>3, <2>4, <2>5, <1>4, <1>8 DEF IInv
<1> QED
  BY <1>11, <1>12

\* What the end of a statement that ends its output does beside writing.
Ends(t, b) ==
  /\ pending' = [pending EXCEPT ![b] = "none"]
  /\ outputs' = [outputs EXCEPT ![t] = Without(t)]
  /\ unfinished_expected' = [unfinished_expected EXCEPT ![t] = FALSE]
  /\ alive' = alive

LEMMA EndKeeps ==
  ASSUME IInv, NEW t \in Threads, outputs[t] # <<>>,
         NEW b, b = Current(t).buffer,
         NEW held \in {"none", "text", "line"}, held = "line" <=> pending[b] = "line",
         NEW ending \in Endings, ending = "nonewline" => held # "none",
         WriteTo(t, b, held, ending), Ends(t, b)
  PROVE  IInv'
<1>1. TypeOK /\ Distinct /\ LineKnown /\ FlagsAgree /\ OpeningOnTop /\ Buffered
  BY DEF IInv
<1>2. /\ outputs' \in [Threads -> Seq(Outputs)]
      /\ \A u \in Threads : Len(outputs'[u]) <= MaxNest
      /\ \A u \in Threads \ {t} : outputs'[u] = outputs[u]
      /\ DOMAIN outputs'[t] = 1 .. Len(outputs[t]) - 1
      /\ \A i \in DOMAIN outputs'[t] : outputs'[t][i] = outputs[t][i]
      /\ Live' = Live \ {b}
      /\ Distinct'
  BY <1>1, Popped DEF Ends
<1>3. Len(outputs[t]) \in Nat \ {0} /\ DOMAIN outputs[t] = 1 .. Len(outputs[t])
  BY <1>1, OutputsTyped
<1>4. /\ unfinished_expected' \in [Threads -> BOOLEAN]
      /\ \A u \in Threads \ {t} : unfinished_expected'[u] = unfinished_expected[u]
      /\ alive' = alive
  BY <1>1 DEF TypeOK, Ends
<1>5. \A u \in Threads : \A i : i \in DOMAIN outputs'[u] =>
         /\ i \in DOMAIN outputs[u] /\ outputs'[u][i] = outputs[u][i]
         /\ ~ (u = t /\ i = Len(outputs[t]))
  <2> SUFFICES ASSUME NEW u \in Threads, NEW i \in DOMAIN outputs'[u]
               PROVE  /\ i \in DOMAIN outputs[u] /\ outputs'[u][i] = outputs[u][i]
                      /\ ~ (u = t /\ i = Len(outputs[t]))
    OBVIOUS
  <2>1. CASE u # t
    BY <2>1, <1>2
  <2>2. CASE u = t
    BY <2>2, <1>2, <1>3
  <2> QED
    BY <2>1, <2>2
<1>6. ending \in {"newline", "nonewline"}
  BY DEF Endings
<1>7. \A u \in Threads : outputs'[u] # <<>> => u \in alive
  BY <1>1, <1>2 DEF LineKnown
<1>8. StreamTyped' /\ LineKnown' /\ FlagsAgree'
  BY <1>2, <1>4, <1>6, <1>7, AfterWrite
<1>9. /\ newlineless_tsd_' \in {NULL, t}
      /\ unfinished_oss_' = NULL
      /\ continued_needed_' = [c \in Buffers |-> c # b /\ (continued_needed_[c] \/ c \in Informed(t, b))]
  BY <1>6, Written DEF EndsOnNewline
<1>10. pending' \in [Buffers -> {"none", "text", "line"}] /\ \A c \in Buffers \ {b} : pending'[c] = pending[c]
  BY <1>1 DEF TypeOK, Ends
<1>11. TypeOK'
  BY <1>1, <1>2, <1>4, <1>8, <1>10 DEF TypeOK, StreamTyped, Outputs
<1>12. OpeningOnTop'
  BY <1>1, <1>2, <1>3, <1>4, <1>5 DEF OpeningOnTop
<1>13. Buffered'
  <2> SUFFICES ASSUME NEW u \in Threads, NEW i \in DOMAIN outputs'[u]
               PROVE  Fresh(Buffer(u, i))' \/ Begun(u, i)'
    BY DEF Buffered
  <2>1. i \in DOMAIN outputs[u] /\ outputs'[u][i] = outputs[u][i] /\ ~ (u = t /\ i = Len(outputs[t]))
    BY <1>5
  <2>2. Buffer(u, i) \in Buffers
    BY <2>1, <1>1, OutputsTyped
  <2>3. Buffer(u, i) # b
    BY <2>1, <1>1, CurrentTyped DEF Distinct
  <2>4. u # t => outputs'[u] = outputs[u] /\ unfinished_expected'[u] = unfinished_expected[u]
    BY <1>2, <1>4
  <2>5. pending'[Buffer(u, i)] = pending[Buffer(u, i)]
    BY <2>2, <2>3, <1>10
  <2>6. unfinished_oss_' \in {NULL, b}
    BY <1>9
  <2> QED
    BY <2>1, <2>3, <2>4, <2>5, <2>6, <1>9, OthersKeep
<1> QED
  BY <1>2, <1>8, <1>11, <1>12, <1>13 DEF IInv, StreamTyped
\* A statement that is not part of a section, and the last one of a section.
LEMMA FinishKeeps ==
  ASSUME IInv, NEW t \in Threads, NEW ending \in Endings, Finish(t, ending)
  PROVE  IInv'
<1> DEFINE b == Current(t).buffer
<1>1. outputs[t] # <<>> /\ Current(t).kind = "plain"
  BY DEF Finish, In
<1>2. b \in Buffers /\ b = Buffer(t, Len(outputs[t])) /\ Len(outputs[t]) \in DOMAIN outputs[t]
  BY <1>1, CurrentTyped DEF IInv
<1>3. Fresh(b)
  BY <1>1, <1>2 DEF IInv, Buffered, Begun, Current
<1>4. pending[b] \in {"none", "text", "line"} /\ pending[b] # "none"
  BY <1>2, <1>3 DEF Fresh
<1>5. WriteTo(t, b, pending[b], ending) /\ Ends(t, b)
  BY DEF Finish, Ends
<1> HIDE DEF b
<1>6. b = Current(t).buffer
  BY DEF b
<1> QED
  BY <1>1, <1>4, <1>5, <1>6, EndKeeps

\* What a part of a section leaves in the buffer of the section.
LEMMA WithTextKeeps ==
  ASSUME NEW held \in {"none", "text", "line"}, NEW empty \in BOOLEAN
  PROVE  /\ WithText(held, empty) \in {"none", "text", "line"}
         /\ WithText(held, empty) = "line" <=> held = "line"
  BY DEF WithText

LEMMA FinishSectionKeeps ==
  ASSUME WellBehaved, IInv, NEW t \in Threads, NEW empty \in BOOLEAN, NEW ending \in Endings,
         FinishSection(t, empty, ending)
  PROVE  IInv'
<1> DEFINE b    == Current(t).buffer
           held == WithText(pending[b], empty)
<1>1. outputs[t] # <<>>
  BY DEF FinishSection, In
<1>2. pending[b] \in {"none", "text", "line"}
  BY <1>1, CurrentTyped DEF IInv, TypeOK
<1>3. held \in {"none", "text", "line"} /\ (held = "line" <=> pending[b] = "line")
  BY <1>2, WithTextKeeps
<1>4. /\ ending = "nonewline" => held # "none"
      /\ WriteTo(t, b, held, ending) /\ Ends(t, b)
  BY DEF FinishSection, Ends, WellBehaved
<1> HIDE DEF b, held
<1>5. b = Current(t).buffer
  BY DEF b
<1> QED
  BY <1>1, <1>3, <1>4, <1>5, EndKeeps

\* The opening statement of a section becomes the section, that was written or was not.
LEMMA FinishOpeningKeeps ==
  ASSUME IInv, NEW t \in Threads, NEW flush \in BOOLEAN, FinishOpening(t, flush)
  PROVE  IInv'
<1> DEFINE b == Current(t).buffer
           n == Len(outputs[t])
<1>1. /\ outputs[t] # <<>> /\ Current(t).kind = "opening"
      /\ outputs' = [outputs EXCEPT ![t] = Append(Without(t), Output(b, "section"))]
      /\ alive' = alive /\ unfinished_expected' = unfinished_expected
  BY DEF FinishOpening, In
<1>2. TypeOK /\ Distinct /\ LineKnown /\ FlagsAgree /\ OpeningOnTop /\ Buffered
  BY DEF IInv
<1>3. b \in Buffers /\ b \in Live /\ b = Buffer(t, n) /\ n \in DOMAIN outputs[t]
  BY <1>1, <1>2, CurrentTyped
<1>4. unfinished_expected[t] /\ Fresh(b)
  BY <1>1, <1>2, <1>3 DEF OpeningOnTop, Buffered, Begun, Current
<1>5. /\ outputs' \in [Threads -> Seq(Outputs)]
      /\ \A u \in Threads : Len(outputs'[u]) <= MaxNest
      /\ \A u \in Threads \ {t} : outputs'[u] = outputs[u]
      /\ Len(outputs'[t]) = n
      /\ outputs'[t] # <<>>
      /\ DOMAIN outputs'[t] = DOMAIN outputs[t]
      /\ \A i \in 1 .. n - 1 : outputs'[t][i] = outputs[t][i]
      /\ outputs'[t][n] = Output(b, "section")
      /\ Live' = Live
      /\ Distinct'
  BY <1>1, <1>2, Replaced
<1>6. n \in Nat \ {0} /\ DOMAIN outputs[t] = 1 .. n
  BY <1>1, <1>2, OutputsTyped
<1>7. outputs'[t][n].buffer = b /\ outputs'[t][n].kind = "section"
  BY <1>5 DEF Output
<1> HIDE DEF b, n
<1>8. \A u \in Threads : \A i : i \in DOMAIN outputs'[u] /\ ~ (u = t /\ i = n) =>
        /\ i \in DOMAIN outputs[u] /\ outputs'[u][i] = outputs[u][i]
        /\ Buffer(u, i) \in Buffers /\ Buffer(u, i) # b
  <2> SUFFICES ASSUME NEW u \in Threads, NEW i \in DOMAIN outputs'[u], ~ (u = t /\ i = n)
               PROVE  /\ i \in DOMAIN outputs[u] /\ outputs'[u][i] = outputs[u][i]
                      /\ Buffer(u, i) \in Buffers /\ Buffer(u, i) # b
    OBVIOUS
  <2>1. i \in DOMAIN outputs[u]
    BY <1>5
  <2>2. outputs'[u][i] = outputs[u][i]
    <3>1. CASE u # t
      BY <3>1, <1>5
    <3>2. CASE u = t
      <4>1. i \in 1 .. n - 1
        BY <3>2, <2>1, <1>6
      <4> QED
        BY <3>2, <4>1, <1>5
    <3> QED
      BY <3>1, <3>2
  <2>3. Buffer(u, i) \in Buffers
    BY <2>1, <1>2, OutputsTyped
  <2>4. Buffer(u, i) # b
    BY <2>1, <1>2, <1>3 DEF Distinct
  <2> QED
    BY <2>1, <2>2, <2>3, <2>4
<1>9. OpeningOnTop'
  <2> SUFFICES ASSUME NEW u \in Threads, NEW i \in DOMAIN outputs'[u], outputs'[u][i].kind = "opening"
               PROVE  i = Len(outputs'[u]) /\ unfinished_expected[u]
    BY <1>1 DEF OpeningOnTop
  <2>1. ~ (u = t /\ i = n)
    BY <1>7
  <2>2. i \in DOMAIN outputs[u] /\ outputs[u][i].kind = "opening"
    BY <2>1, <1>8
  <2> QED
    BY <2>1, <2>2, <1>2, <1>5 DEF OpeningOnTop, n
<1>10. \A u \in Threads : outputs'[u] # <<>> => u \in alive
  BY <1>1, <1>2, <1>5 DEF LineKnown
<1>11. CASE flush
  <2>1. WriteTo(t, b, pending[b], "open") /\ pending' = [pending EXCEPT ![b] = "none"]
    BY <1>11 DEF FinishOpening, b
  <2>2. pending[b] = "line" /\ b = Current(t).buffer
    BY <1>4 DEF Fresh, b
  <2>3. StreamTyped' /\ LineKnown' /\ FlagsAgree'
    BY <2>1, <2>2, <1>1, <1>3, <1>5, <1>10, AfterWrite
  <2>4. /\ newlineless_tsd_' = t
        /\ unfinished_oss_' = b
        /\ continued_needed_' = [c \in Buffers |-> c # b /\ (continued_needed_[c] \/ c \in Informed(t, b))]
    BY <2>1, <2>2, <1>1, Written DEF EndsOnNewline
  <2>5. /\ pending' \in [Buffers -> {"none", "text", "line"}] /\ pending'[b] = "none"
        /\ \A c \in Buffers \ {b} : pending'[c] = pending[c]
    BY <2>1, <1>2, <1>3 DEF TypeOK
  <2>6. TypeOK'
    BY <2>3, <2>5, <1>1, <1>2, <1>5 DEF TypeOK, StreamTyped, Outputs
  <2>7. Buffered'
    <3> SUFFICES ASSUME NEW u \in Threads, NEW i \in DOMAIN outputs'[u]
                 PROVE  Fresh(Buffer(u, i))' \/ Begun(u, i)'
      BY DEF Buffered
    <3>1. CASE u = t /\ i = n
      <4>1. Buffer(u, i)' = b
        BY <3>1, <1>7 DEF Buffer
      <4>2. ~ continued_needed_'[b]
        BY <2>4, <1>3
      <4> QED
        BY <3>1, <4>1, <4>2, <2>4, <2>5, <1>1, <1>4, <1>5, <1>7 DEF Begun
    <3>2. CASE ~ (u = t /\ i = n)
      <4>1. i \in DOMAIN outputs[u] /\ outputs'[u][i] = outputs[u][i] /\ Buffer(u, i) # b
        BY <3>2, <1>8
      <4>2. u # t => outputs'[u] = outputs[u] /\ unfinished_expected'[u] = unfinished_expected[u]
        BY <1>1, <1>5
      <4>3. pending'[Buffer(u, i)] = pending[Buffer(u, i)]
        BY <3>2, <1>8, <2>5
      <4>4. newlineless_tsd_' \in {NULL, t} /\ unfinished_oss_' \in {NULL, b}
        BY <2>4
      <4> QED
        BY <4>1, <4>2, <4>3, <4>4, <2>2, <2>4, <1>1, OthersKeep
    <3> QED
      BY <3>1, <3>2
  <2> QED
    BY <2>3, <2>6, <2>7, <1>5, <1>9 DEF IInv, StreamTyped
<1>12. CASE ~ flush
  <2>1. UNCHANGED <<bufvars, osvars>>
    BY <1>12 DEF FinishOpening
  <2>2. TypeOK'
    BY <2>1, <1>1, <1>2, <1>5 DEF TypeOK, bufvars, osvars, Outputs
  <2>3. LineKnown' /\ FlagsAgree' /\ faults' = {}
    BY <2>1, <1>1, <1>2, <1>5, <1>10 DEF LineKnown, FlagsAgree, bufvars, osvars, LeftOpen, IInv
  <2>4. Buffered'
    <3> SUFFICES ASSUME NEW u \in Threads, NEW i \in DOMAIN outputs'[u]
                 PROVE  Fresh(Buffer(u, i))' \/ Begun(u, i)'
      BY DEF Buffered
    <3>1. CASE u = t /\ i = n
      BY <3>1, <1>4, <1>7, <2>1 DEF Fresh, Buffer, bufvars, osvars
    <3>2. CASE ~ (u = t /\ i = n)
      <4>1. i \in DOMAIN outputs[u] /\ outputs'[u][i] = outputs[u][i] /\ Buffer(u, i)' = Buffer(u, i)
        BY <3>2, <1>8 DEF Buffer
      <4>2. Len(outputs'[u]) = Len(outputs[u])
        BY <1>5 DEF n
      <4> QED
        BY <4>1, <4>2, <2>1, <1>1, <1>2 DEF Buffered, Fresh, Begun, bufvars, osvars
    <3> QED
      BY <3>1, <3>2
  <2> QED
    BY <2>2, <2>3, <2>4, <1>5, <1>9 DEF IInv
<1> QED
  BY <1>11, <1>12

\* A part of a section that goes on, written or kept.
LEMMA ContinuedKeeps ==
  ASSUME WellBehaved, IInv, NEW t \in Threads, NEW empty \in BOOLEAN, NEW flush \in BOOLEAN,
         Continued(t, empty, flush)
  PROVE  IInv'
<1> DEFINE b    == Current(t).buffer
           held == WithText(pending[b], empty)
           n    == Len(outputs[t])
<1>1. /\ outputs[t] # <<>> /\ Current(t).kind = "section"
      /\ unfinished_expected' = [unfinished_expected EXCEPT ![t] = TRUE]
      /\ alive' = alive /\ outputs' = outputs
  BY DEF Continued, In
<1>2. TypeOK /\ Distinct /\ LineKnown /\ FlagsAgree /\ OpeningOnTop /\ Buffered
  BY DEF IInv
<1>3. b \in Buffers /\ b \in Live /\ b = Buffer(t, n) /\ n \in DOMAIN outputs[t]
  BY <1>1, <1>2, CurrentTyped
<1>4. held \in {"none", "text", "line"} /\ (held = "line" <=> pending[b] = "line")
  BY <1>2, <1>3, WithTextKeeps DEF TypeOK
<1>5. /\ flush => /\ held # "none"
                  /\ WriteTo(t, b, held, "open") /\ pending' = [pending EXCEPT ![b] = "none"]
      /\ ~ flush => /\ pending' = [pending EXCEPT ![b] = held]
                    /\ UNCHANGED <<unfinished_already_printed_, continued_needed_, osvars>>
  BY DEF Continued, WellBehaved
<1>6. /\ unfinished_expected' \in [Threads -> BOOLEAN] /\ unfinished_expected'[t]
      /\ \A u \in Threads \ {t} : unfinished_expected'[u] = unfinished_expected[u]
  BY <1>1, <1>2 DEF TypeOK
<1>7. Live' = Live /\ Distinct' /\ OpeningOnTop'
  BY <1>1, <1>2, <1>6 DEF Live, Distinct, Buffer, OpeningOnTop
<1>8. outputs[t][n].kind = "section" /\ b = Current(t).buffer
  BY <1>1 DEF Current
<1> HIDE DEF b, held
<1>9. \A u \in Threads : \A i \in DOMAIN outputs[u] : ~ (u = t /\ i = n) =>
        Buffer(u, i) \in Buffers /\ Buffer(u, i) # b
  BY <1>2, <1>3, OutputsTyped DEF Distinct
<1>10. \A u \in Threads : outputs'[u] # <<>> => u \in alive
  BY <1>1, <1>2 DEF LineKnown
<1>11. CASE flush
  <2>1. StreamTyped' /\ LineKnown' /\ FlagsAgree'
    BY <1>11, <1>1, <1>3, <1>4, <1>5, <1>7, <1>8, <1>10, AfterWrite
  <2>2. /\ newlineless_tsd_' = t
        /\ unfinished_oss_' = b
        /\ continued_needed_' = [c \in Buffers |-> c # b /\ (continued_needed_[c] \/ c \in Informed(t, b))]
    BY <1>11, <1>1, <1>4, <1>5, <1>8, Written DEF EndsOnNewline
  <2>3. /\ pending' \in [Buffers -> {"none", "text", "line"}] /\ pending'[b] = "none"
        /\ \A c \in Buffers \ {b} : pending'[c] = pending[c]
    BY <1>11, <1>2, <1>3, <1>5 DEF TypeOK
  <2>4. TypeOK'
    BY <2>1, <2>3, <1>1, <1>2, <1>6 DEF TypeOK, StreamTyped
  <2>5. Buffered'
    <3> SUFFICES ASSUME NEW u \in Threads, NEW i \in DOMAIN outputs[u]
                 PROVE  Fresh(Buffer(u, i))' \/ Begun(u, i)'
      BY <1>1 DEF Buffered
    <3>1. CASE u = t /\ i = n
      <4>1. Buffer(u, i)' = b
        BY <3>1, <1>1, <1>3 DEF Buffer
      <4>2. ~ continued_needed_'[b]
        BY <2>2, <1>3
      <4> QED
        BY <3>1, <4>1, <4>2, <2>2, <2>3, <1>1, <1>6, <1>8 DEF Begun
    <3>2. CASE ~ (u = t /\ i = n)
      <4>1. outputs'[u][i] = outputs[u][i] /\ Buffer(u, i) # b
        BY <3>2, <1>1, <1>9
      <4>2. u # t => outputs'[u] = outputs[u] /\ unfinished_expected'[u] = unfinished_expected[u]
        BY <1>1, <1>6
      <4>3. pending'[Buffer(u, i)] = pending[Buffer(u, i)]
        BY <3>2, <1>9, <2>3
      <4>4. newlineless_tsd_' \in {NULL, t} /\ unfinished_oss_' \in {NULL, b}
        BY <2>2
      <4> QED
        BY <4>1, <4>2, <4>3, <4>4, <2>2, <1>1, <1>8, OthersKeep
    <3> QED
      BY <3>1, <3>2
  <2> QED
    BY <2>1, <2>4, <2>5, <1>7 DEF IInv, StreamTyped
<1>12. CASE ~ flush
  <2>1. /\ pending' \in [Buffers -> {"none", "text", "line"}] /\ pending'[b] = held
        /\ \A c \in Buffers \ {b} : pending'[c] = pending[c]
        /\ UNCHANGED <<unfinished_already_printed_, continued_needed_, osvars>>
    BY <1>12, <1>2, <1>3, <1>4, <1>5 DEF TypeOK
  <2>2. TypeOK'
    BY <2>1, <1>1, <1>2, <1>6 DEF TypeOK, osvars
  <2>3. LineKnown' /\ FlagsAgree' /\ faults' = {}
    BY <2>1, <1>1, <1>2, <1>7, <1>10 DEF LineKnown, FlagsAgree, osvars, LeftOpen, IInv
  <2>4. Buffered'
    <3> SUFFICES ASSUME NEW u \in Threads, NEW i \in DOMAIN outputs[u]
                 PROVE  Fresh(Buffer(u, i))' \/ Begun(u, i)'
      BY <1>1 DEF Buffered
    <3>1. Buffer(u, i)' = Buffer(u, i) /\ (Fresh(Buffer(u, i)) \/ Begun(u, i))
      BY <1>1, <1>2 DEF Buffer, Buffered
    <3>2. pending'[Buffer(u, i)] = "line" <=> pending[Buffer(u, i)] = "line"
      BY <2>1, <1>3, <1>4, <1>9
    <3>3. Begun(u, i) => unfinished_expected'[u]
      BY <1>6 DEF Begun
    <3> QED
      BY <3>1, <3>2, <3>3, <2>1, <1>1 DEF Fresh, Begun, osvars
  <2> QED
    BY <2>2, <2>3, <2>4, <1>7 DEF IInv
<1> QED
  BY <1>11, <1>12

\* What is about the outputs does not depend on which threads are alive.
LEMMA OutputsKeep ==
  ASSUME IInv, alive' \subseteq Threads,
         UNCHANGED <<outputs, unfinished_expected, bufvars, osvars>>
  PROVE  /\ TypeOK' /\ Distinct' /\ FlagsAgree' /\ OpeningOnTop' /\ Buffered' /\ faults' = {}
         /\ Live' = Live
<1>1. TypeOK'
  BY DEF IInv, TypeOK, bufvars, osvars
<1>2. Distinct' /\ OpeningOnTop'
  BY DEF IInv, Distinct, OpeningOnTop, Buffer
<1>3. Live' = Live
  BY DEF Live
<1>4. FlagsAgree'
  BY <1>3 DEF IInv, FlagsAgree, bufvars
<1>5. Buffered' /\ faults' = {}
  BY DEF IInv, Buffered, Fresh, Begun, Buffer, bufvars, osvars
<1> QED
  BY <1>1, <1>2, <1>3, <1>4, <1>5

\* A thread that ended its line exits, and another starts.
LEMMA ExitKeeps ==
  ASSUME WellBehaved, IInv, NEW t \in Threads, Exit(t)
  PROVE  IInv'
<1>1. /\ outputs[t] = <<>> /\ newlineless_tsd_ # t /\ alive' = alive \ {t}
      /\ UNCHANGED <<outputs, unfinished_expected, bufvars, osvars>>
  BY DEF Exit, WellBehaved
<1>2. alive' \subseteq Threads
  BY <1>1 DEF IInv, TypeOK
<1>3. LineKnown'
  BY <1>1 DEF IInv, LineKnown, Live, LeftOpen, osvars
<1> QED
  BY <1>1, <1>2, <1>3, OutputsKeep DEF IInv

LEMMA CreateKeeps ==
  ASSUME IInv, NEW t \in Threads, Create(t)
  PROVE  IInv'
<1>1. /\ t \notin alive /\ alive' = alive \cup {t}
      /\ line' = IF line.tsd = t THEN [line EXCEPT !.tsd = Gone] ELSE line
      /\ UNCHANGED <<outputs, unfinished_expected, bufvars, newlineless_tsd_, unfinished_oss_, faults>>
  BY DEF Create
<1>2. line.tsd # t
  BY <1>1, NullAssumption DEF IInv, LineKnown, LeftOpen
<1>3. line' = line
  BY <1>1, <1>2
<1>4. alive' \subseteq Threads
  BY <1>1 DEF IInv, TypeOK
<1>5. UNCHANGED <<outputs, unfinished_expected, bufvars, osvars>>
  BY <1>1, <1>3 DEF osvars
<1>6. LineKnown'
  BY <1>1, <1>3 DEF IInv, LineKnown, Live, LeftOpen
<1> QED
  BY <1>4, <1>5, <1>6, OutputsKeep DEF IInv
-----------------------------------------------------------------------------
LEMMA InitHolds == Init => IInv
<1> SUFFICES ASSUME Init PROVE IInv
  OBVIOUS
<1>1. \A t \in Threads : outputs[t] = <<>> /\ DOMAIN outputs[t] = {} /\ Len(outputs[t]) = 0
  BY DEF Init
<1>2. Live = {}
  BY <1>1 DEF Live
<1>3. outputs \in [Threads -> Seq(Outputs)]
  BY EmptySeq DEF Init
<1>4. TypeOK
  BY <1>1, <1>3, BoundAssumption DEF Init, TypeOK, AtStart, Outputs
<1>5. Distinct /\ OpeningOnTop /\ Buffered
  BY <1>1 DEF Distinct, OpeningOnTop, Buffered
<1>6. LineKnown /\ FlagsAgree
  BY <1>1 DEF Init, LineKnown, FlagsAgree, AtStart, LeftOpen
<1> QED
  BY <1>4, <1>5, <1>6 DEF IInv, Init

LEMMA StepHolds ==
  ASSUME WellBehaved, IInv, [Next]_vars
  PROVE  IInv'
<1>1. CASE Next
  <2> PICK t \in Threads :
         \/ \E b \in Buffers, kind \in {"plain", "opening"} : Start(t, b, kind)
         \/ \E ending \in Endings : Finish(t, ending)
         \/ \E flush \in BOOLEAN : FinishOpening(t, flush)
         \/ \E empty, flush \in BOOLEAN : Continued(t, empty, flush)
         \/ \E empty \in BOOLEAN, ending \in Endings : FinishSection(t, empty, ending)
         \/ Exit(t) \/ Create(t)
    BY <1>1 DEF Next
  <2>1. CASE \E b \in Buffers, kind \in {"plain", "opening"} : Start(t, b, kind)
    BY <2>1, StartKeeps
  <2>2. CASE \E ending \in Endings : Finish(t, ending)
    BY <2>2, FinishKeeps
  <2>3. CASE \E flush \in BOOLEAN : FinishOpening(t, flush)
    BY <2>3, FinishOpeningKeeps
  <2>4. CASE \E empty, flush \in BOOLEAN : Continued(t, empty, flush)
    BY <2>4, ContinuedKeeps
  <2>5. CASE \E empty \in BOOLEAN, ending \in Endings : FinishSection(t, empty, ending)
    BY <2>5, FinishSectionKeeps
  <2>6. CASE Exit(t)
    BY <2>6, ExitKeeps
  <2>7. CASE Create(t)
    BY <2>7, CreateKeeps
  <2> QED
    BY <2>1, <2>2, <2>3, <2>4, <2>5, <2>6, <2>7
<1>2. CASE UNCHANGED vars
  <2>1. alive' \subseteq Threads /\ UNCHANGED <<outputs, unfinished_expected, bufvars, osvars>>
    BY <1>2 DEF IInv, TypeOK, vars
  <2>2. LineKnown'
    BY <1>2 DEF IInv, LineKnown, Live, LeftOpen, vars, osvars
  <2> QED
    BY <2>1, <2>2, OutputsKeep DEF IInv
<1> QED
  BY <1>1, <1>2

(***************************************************************************)
(* Threads that end their line before they exit, and write no empty part   *)
(* without a newline, keep the invariant, whatever they do and however     *)
(* they interrupt each other.                                              *)
(***************************************************************************)
THEOREM Inductive == ASSUME WellBehaved PROVE Spec => []IInv
<1>1. IInv /\ [Next]_vars => IInv'
  BY StepHolds
<1> QED
  BY <1>1, InitHolds, PTL DEF Spec

\* Every variable keeps its type, and the bound on nested output is kept.
THEOREM TypeCorrect == ASSUME WellBehaved PROVE Spec => []TypeOK
<1>1. IInv => TypeOK
  BY DEF IInv
<1> QED
  BY <1>1, Inductive, PTL

\* No output is written on a line that another output left open.
THEOREM LinesAreNotMixed == ASSUME WellBehaved PROVE Spec => []LinesNotMixed
<1>1. IInv => LinesNotMixed
  BY DEF IInv, LinesNotMixed
<1> QED
  BY <1>1, Inductive, PTL

\* What was interrupted goes on with its prefix, once.
THEOREM PrefixIsWrittenOnce == ASSUME WellBehaved PROVE Spec => []TextHasItsPrefix
<1>1. IInv => TextHasItsPrefix
  BY DEF IInv, TextHasItsPrefix
<1> QED
  BY <1>1, Inductive, PTL

\* A line that is interrupted ends with one "<unfinished>".
THEOREM UnfinishedIsWrittenOnce == ASSUME WellBehaved PROVE Spec => []UnfinishedOnce
<1>1. IInv => UnfinishedOnce
  BY DEF IInv, UnfinishedOnce
<1> QED
  BY <1>1, Inductive, PTL

\* The debug object does not remember a thread that exited or an output that was deleted.
THEOREM NothingDangles == ASSUME WellBehaved PROVE Spec => []NoDangling
<1>1. IInv => NoDangling
  BY DEF IInv, LineKnown, NoDangling
<1> QED
  BY <1>1, Inductive, PTL
=============================================================================
