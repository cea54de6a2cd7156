------------------------------- MODULE RcFile -------------------------------
(***************************************************************************)
(* RcFile::read() of utils/rcfile.cxx: what each line of a configuration    *)
(* file does to the off counters of the thread that reads it.  s is the     *)
(* state of the reader:                                                     *)
(*   count       the off counters of the thread (off_cnt_array), a channel  *)
(*               is on when its counter is negative                         *)
(*   saved       the counter of dc::rcfile as it was before                 *)
(*   rcfileOn, elfutilsOn, defaultSet, defaultOn, didReset, file   locals   *)
(*               and members of the same name; file 2 is the override file  *)
(*   ended       "core" or "fatal" when the program was ended               *)
(* visible is the list of ForAllDebugChannels.  A line has a keyword and a  *)
(* value, a list of channels being a sequence of masks; empty lines, lines  *)
(* of comment and the keywords gdb and xterm do nothing here.               *)
(***************************************************************************)
EXTENDS Integers, FiniteSets, Sequences, SequencesExt, Wildcards

CONSTANTS
  Channels,
  LabelOf,                     \* [Channels -> Seq(characters)]
  Warning, Elfutils, Rcfile    \* channels of libcwd: dc::warning, ...

ASSUME ChannelsAssumption == /\ {Warning, Elfutils, Rcfile} \subseteq Channels
                             /\ Rcfile \notin {Warning, Elfutils} /\ Warning # Elfutils

IsSequence(s) == s \in Seq(ToSet(s))
\* No character of a label is the zero behind a mask.
ASSUME LabelOfAssumption ==
  \A c \in Channels : IsSequence(LabelOf[c]) /\ Zero \notin ToSet(LabelOf[c])
\* A line with a list of channels has a sequence of masks.
IsLine(line) ==
  line.keyword \in {"channels_toggle", "channels_on", "channels_off"}
    => IsSequence(line.value) /\ \A i \in DOMAIN line.value : IsSequence(line.value[i])

IsOn(s, c) == s.count[c] < 0
Off(s, c) == [s EXCEPT !.count[c] = @ + 1]
\* on() dumps core when it is called more often than off().
On(s, c) == IF s.count[c] = -1 THEN [s EXCEPT !.ended = "core"] ELSE [s EXCEPT !.count[c] = @ - 1]
OnOnce(s, c) == IF IsOn(s, c) THEN s ELSE On(s, c)
UntilOn(s, c) == IF IsOn(s, c) THEN s ELSE [s EXCEPT !.count[c] = -1]

\* ELFUTILS is turned on when the file was read; off() is called at once.
ProcessElfutils(s, action) ==
  IF ~s.elfutilsOn /\ action \in {"on", "toggle"} THEN [s EXCEPT !.elfutilsOn = TRUE]
  ELSE IF s.elfutilsOn /\ action \in {"off", "toggle"}
    THEN Off([s EXCEPT !.elfutilsOn = FALSE], Elfutils)
  ELSE s

ProcessChannel(s, c, mask, action) ==
  IF ~Match(mask, LabelOf[c]) THEN s
  ELSE IF LabelOf[c] = LabelOf[Elfutils] THEN ProcessElfutils(s, action)
  ELSE IF ~IsOn(s, c) /\ action \in {"on", "toggle"} THEN UntilOn(s, c)
  ELSE IF IsOn(s, c) /\ action \in {"off", "toggle"} THEN Off(s, c)
  ELSE s

ProcessChannels(s, visible, masks, action) ==
  LET Process(t, mask) == FoldLeft(LAMBDA u, c : ProcessChannel(u, c, mask, action), t, visible)
  IN FoldLeft(Process, s, masks)

SetAllChannelsOn(s, visible) ==
  LET Set(t, c) == IF LabelOf[c] = LabelOf[Elfutils] THEN t ELSE UntilOn(t, c)
  IN [FoldLeft(Set, s, visible) EXCEPT !.elfutilsOn = TRUE]

SetAllChannelsOff(s, visible, warningOn) ==
  LET off == FoldLeft(LAMBDA t, c : IF IsOn(t, c) THEN Off(t, c) ELSE t, s, visible)
  IN [IF warningOn THEN On(off, Warning) ELSE off EXCEPT !.elfutilsOn = FALSE]

Fatal(s) == [s EXCEPT !.ended = "fatal"]
SawDefault(s) == s.defaultSet[1] \/ s.defaultSet[2]

\* Turns the messages about what is read off and on.
Silent(s, value) ==
  IF value = "on" /\ IsOn(s, Rcfile) THEN [Off(s, Rcfile) EXCEPT !.rcfileOn = FALSE]
  ELSE IF value = "off" /\ ~IsOn(s, Rcfile) THEN [On(s, Rcfile) EXCEPT !.rcfileOn = TRUE]
  ELSE s

\* A second channels_default of a file is ignored, with a warning.
ChannelsDefault(s, visible, value) ==
  LET t == [s EXCEPT !.defaultSet[s.file] = TRUE]
  IN IF s.defaultSet[s.file] THEN s
     ELSE CASE value = "on"  -> [SetAllChannelsOn(t, visible) EXCEPT !.defaultOn = TRUE]
            [] value = "off" -> [SetAllChannelsOff(t, visible, FALSE) EXCEPT !.defaultOn = FALSE]
            [] OTHER         -> Fatal(t)

ChannelsToggle(s, visible, masks) ==
  IF ~s.defaultSet[s.file] /\ ~s.defaultSet[1] THEN Fatal(s)
  ELSE ProcessChannels(s, visible, masks, "toggle")

\* The first channels_on of the override file starts from no channels when it did
\* from all, or from none but WARNING when no default was seen; the first
\* channels_off starts from all channels when it did from none.
ChannelsOn(s, visible, masks) ==
  LET resets == s.file = 2 /\ ~s.didReset /\ (SawDefault(s) => s.defaultOn)
      t == IF resets THEN [SetAllChannelsOff(s, visible, ~SawDefault(s)) EXCEPT !.didReset = TRUE]
                     ELSE s
  IN ProcessChannels(t, visible, masks, "on")

ChannelsOff(s, visible, masks) ==
  LET resets == s.file = 2 /\ ~s.didReset /\ SawDefault(s) /\ ~s.defaultOn
      t == IF resets THEN [SetAllChannelsOn(s, visible) EXCEPT !.didReset = TRUE] ELSE s
  IN ProcessChannels(t, visible, masks, "off")

\* An unknown keyword forces dc::warning on for a message and restores it.
ReadLine(s, visible, line) ==
  CASE line.keyword = "silent"           -> Silent(s, line.value)
    [] line.keyword = "channels_default" -> ChannelsDefault(s, visible, line.value)
    [] line.keyword = "channels_toggle"  -> ChannelsToggle(s, visible, line.value)
    [] line.keyword = "channels_on"      -> ChannelsOn(s, visible, line.value)
    [] line.keyword = "channels_off"     -> ChannelsOff(s, visible, line.value)
    [] line.keyword = "syntax error"     -> Fatal(s)
    [] OTHER                             -> s

\* force_on() of dc::rcfile, and the locals of read().
BeginReading(count) ==
  [count |-> [count EXCEPT ![Rcfile] = -1], saved |-> count[Rcfile], rcfileOn |-> TRUE,
   elfutilsOn |-> count[Elfutils] < 0, defaultSet |-> <<FALSE, FALSE>>, defaultOn |-> FALSE,
   didReset |-> FALSE, file |-> 1, ended |-> ""]

UnbalancedRcfile(s) == s
BalancedRcfile(s) == IF s.rcfileOn THEN s ELSE On(s, Rcfile)

\* restore() dumps core unless off() and on() were called in pairs.
EndReading(s) ==
  LET t == BalancedRcfile(s)
      restored == IF t.count[Rcfile] # -1 THEN [t EXCEPT !.ended = "core"]
                  ELSE [t EXCEPT !.count[Rcfile] = s.saved]
  IN IF s.elfutilsOn THEN UntilOn(restored, Elfutils) ELSE restored
-----------------------------------------------------------------------------
(***************************************************************************)
(* What the files mean: the set of the channels that are on.                *)
(***************************************************************************)
Covered(channels, masks) ==
  {c \in channels : \E i \in DOMAIN masks : Covers(masks[i], LabelOf[c])}
\* A channel is toggled once for every mask that covers it.
ToggledBy(channels, masks) ==
  {c \in channels : Cardinality({i \in DOMAIN masks : Covers(masks[i], LabelOf[c])}) % 2 = 1}

FirstOf(file, keyword) == {i \in DOMAIN file : file[i].keyword = keyword
                              /\ \A j \in 1 .. i - 1 : file[j].keyword # keyword}

\* The value of the channels_default that was read in front of line i, if any.
DefaultBefore(file, i) ==
  {file[j].value : j \in {k \in FirstOf(file, "channels_default") : k < i}}
\* The override file is read after the other one.
DefaultInForce(files, i) ==
  IF DefaultBefore(files[2], i) # {} THEN DefaultBefore(files[2], i)
  ELSE DefaultBefore(files[1], Len(files[1]) + 1)

\* A channels_on that starts anew does so with no channels, or when there is no default with
\* dc::warning; a channels_off with all.
StartOf(files, channels, i) ==
  IF files[2][i].keyword = "channels_off" THEN channels
  ELSE IF DefaultInForce(files, i) = {} THEN {Warning} ELSE {}

\* A line of the override file at which the reader does not go on with what was on before,
\* but starts anew: the first of them that lists what differs from the default.
ListsExceptions(files, i) ==
  LET line == files[2][i]
  IN \/ line.keyword = "channels_on" /\ DefaultInForce(files, i) \in {{}, {"on"}}
     \/ line.keyword = "channels_off" /\ DefaultInForce(files, i) = {"off"}
StartsAnew(files) ==
  {i \in DOMAIN files[2] : /\ ListsExceptions(files, i)
                          /\ \A j \in 1 .. i - 1 : ~ListsExceptions(files, j)}
StartsFrom(files, channels) == [i \in StartsAnew(files) |-> StartOf(files, channels, i)]

\* start[i] is what line i starts from, if not from what is on.
Means(file, channels, start, on, i) ==
  LET line == file[i]
      from == IF i \in DOMAIN start THEN start[i] ELSE on
  IN CASE line.keyword = "channels_default" /\ i \in FirstOf(file, "channels_default") ->
            (IF line.value = "on" THEN channels ELSE {})
       [] line.keyword = "channels_toggle" ->
            LET toggled == ToggledBy(channels, line.value)
            IN (on \ toggled) \cup (toggled \ on)
       [] line.keyword = "channels_on" -> from \cup Covered(channels, line.value)
       [] line.keyword = "channels_off" -> from \ Covered(channels, line.value)
       [] OTHER -> on

Meaning(file, channels, before, start) ==
  FoldLeft(LAMBDA on, i : Means(file, channels, start, on, i), before, [i \in DOMAIN file |-> i])

\* What the reader turns on.
FilesTurnOn(files, channels) ==
  LET first == Meaning(files[1], channels, {}, <<>>)
  IN IF Len(files) = 1 THEN first
     ELSE Meaning(files[2], channels, first, StartsFrom(files, channels))

(***************************************************************************)
(* The manual: "Using channels_on even once, in this file, will reset all  *)
(* previously turned on channels, although additional channels_on lines    *)
(* accumulate again" (doc/reference-manual/rcfile.md), whatever the        *)
(* default.  Of channels_off it says nothing, and neither of the default   *)
(* being missing: there the meaning is what the reader does.               *)
(***************************************************************************)
ResetsOf(files) ==
  FirstOf(files[2], "channels_on")
    \cup {i \in StartsAnew(files) : files[2][i].keyword = "channels_off"}
ResetsTo(files, channels) == [i \in ResetsOf(files) |-> StartOf(files, channels, i)]

FilesMean(files, channels) ==
  LET first == Meaning(files[1], channels, {}, <<>>)
  IN IF Len(files) = 1 THEN first
     ELSE Meaning(files[2], channels, first, ResetsTo(files, channels))

\* Does the reader start anew at the first channels_on of the override file?
ResetsAsDocumented(files) ==
  Len(files) = 2 => FirstOf(files[2], "channels_on") \subseteq StartsAnew(files)
=============================================================================
