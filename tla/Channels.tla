------------------------------ MODULE Channels ------------------------------
(***************************************************************************)
(* The registry of debug channels and the off counters that every thread    *)
(* has for each of them: registration by the constructors of global objects *)
(* and of libraries that are opened later (debug.cxx, DebugChannels), the   *)
(* start of a program by init() and of a thread by init_thread()            *)
(* (init_functions.cxx), and on() and off().  The registry has a read/write *)
(* lock; ForAllDebugChannels holds it for reading during its whole loop.    *)
(***************************************************************************)
EXTENDS RcFile

CONSTANTS
  Threads, Main,
  FatalChannels,               \* add to the width of the labels only
  BeforeMain, Late,            \* channels of global objects, and of libraries opened by a thread
  MinWidth,                    \* the initial value of WST_max_len
  Alphabet,                    \* the characters, in their order; the first is the space
  WarningLabel,                \* the label "WARNING"
  Configurations,              \* each a sequence of one or two files, see RcFile
  MainMode, ThreadModes,       \* of init_thread()
  OffBefore,                   \* the channels that the program may turn off before init()
  Toggled,                     \* the channels that the main thread turns on and off
  Abbreviations                \* of labels, for find_channel()

ASSUME ThreadsAssumption == Main \in Threads
ASSUME RegistrationAssumption == /\ {Warning, Elfutils, Rcfile} \subseteq BeforeMain
                                 /\ BeforeMain \cup Late \subseteq Channels
                                 /\ Late \cap BeforeMain = {}
                                 /\ OffBefore \cup Toggled \subseteq Channels
\* "ELFUTILS" is the label of no other channel: process_channels() knows it by its label.
ASSUME ElfutilsAssumption == \A c \in Channels : LabelOf[c] = LabelOf[Elfutils] => c = Elfutils
\* A label is a word; the first character of the alphabet is the space.
Letters == {Alphabet[i] : i \in 2 .. Len(Alphabet)}
ASSUME LabelsAssumption ==
  /\ Alphabet \in Seq(ToSet(Alphabet)) /\ IsInjective(Alphabet) /\ Len(Alphabet) > 0
  /\ \A c \in Channels \cup FatalChannels : LabelOf[c] \in Seq(Letters)
  /\ LabelOf[Warning] = WarningLabel
  /\ Abbreviations \subseteq Seq(Letters)
  /\ MinWidth \in Nat
ASSUME ConfigurationsAssumption ==
  \A files \in Configurations :
    /\ IsSequence(files) /\ Len(files) \in 1 .. 2
    /\ \A f \in DOMAIN files : /\ IsSequence(files[f])
                              /\ \A i \in DOMAIN files[f] : IsLine(files[f][i])

VARIABLES
  visible,        \* ChannelSets::visible_
  hidden,         \* ChannelSets::hidden_
  width,          \* WST_max_len
  count,          \* count[t][c]: off_cnt_array of the thread
  objectOff,      \* objectOff[t]: debug_object_off_array of the thread, for libcw_do
  states,         \* rcfile_dc_states: label -> on
  hasMutex,       \* libcw_do has a lock
  configuration,  \* the files that init() reads
  rc,             \* the reader, see RcFile
  line,           \* the lines of its file that were read
  pc, mode,       \* of init_thread() of each thread
  at,             \* the place of its loop over the channels
  window          \* what main had on, and off, while the thread copied it
registry == <<visible, hidden, width>>
vars == <<registry, count, objectOff, states, hasMutex, configuration, rc, line, pc, mode, at, window>>

Label(c) == LabelOf[c]
Order(character) == CHOOSE i \in DOMAIN Alphabet : Alphabet[i] = character
Padded(label, n) == [i \in 1 .. n |-> IF i <= Len(label) THEN label[i] ELSE Alphabet[1]]
\* get_label(): the label is padded with spaces up to WST_max_len.
GetLabel(c) == Padded(Label(c), width)
\* strncmp(a, b, WST_max_len) > 0
Greater(a, b) ==
  \E i \in DOMAIN a : /\ \A j \in 1 .. i - 1 : a[j] = b[j]
                      /\ Order(a[i]) > Order(b[i])

Registered == ToSet(visible) \cup hidden
\* strncmp(label, "WARNING", label_len) == 0
DefaultCount(c) == IF IsPrefix(Label(c), WarningLabel) THEN -1 ELSE 0

None == [on |-> {}, off |-> {}, object |-> {}]

Init ==
  /\ visible = <<>> /\ hidden = {} /\ width = MinWidth
  /\ count = [t \in Threads |-> [c \in Channels |-> 0]]
  /\ objectOff = [t \in Threads |-> 0]
  /\ states = <<>>
  /\ hasMutex = FALSE
  /\ configuration = <<>>
  /\ rc = BeginReading(count[Main]) /\ line = 0
  /\ pc = [t \in Threads |-> IF t = Main THEN "constructors" ELSE "none"]
  /\ mode = [t \in Threads |-> MainMode]
  /\ at = [t \in Threads |-> 1]
  /\ window = [t \in Threads |-> None]
-----------------------------------------------------------------------------
(***************************************************************************)
(* Registration.                                                            *)
(***************************************************************************)
WidenedNever(label) == width
Widened(label) == IF Len(label) > width THEN Len(label) ELSE width

PlaceLast(c, w) == Len(visible) + 1
\* In front of the first channel with a greater label.
Place(c, w) ==
  LET Behind == {i \in DOMAIN visible :
                   Greater(Padded(Label(visible[i]), w), Padded(Label(c), w))}
  IN IF Behind = {} THEN Len(visible) + 1 ELSE CHOOSE i \in Behind : \A j \in Behind : i <= j

\* dc::rcfile is the channel that is not added to the list.
InitializeChannel(t, c) ==
  /\ c \notin Registered
  /\ \A u \in Threads : pc[u] # "loop"
  /\ width' = Widened(Label(c))
  /\ count' = [count EXCEPT ![t][c] = DefaultCount(c)]
  /\ IF c = Rcfile THEN hidden' = hidden \cup {c} /\ UNCHANGED visible
                   ELSE visible' = InsertAt(visible, Place(c, width'), c) /\ UNCHANGED hidden

Construct ==
  /\ pc[Main] = "constructors"
  /\ \E c \in BeforeMain : InitializeChannel(Main, c)
  /\ UNCHANGED <<objectOff, states, hasMutex, configuration, rc, line, pc, mode, at, window>>

ConstructFatal ==
  /\ pc[Main] = "constructors"
  /\ \E f \in FatalChannels : width' = Widened(LabelOf[f])
  /\ UNCHANGED <<visible, hidden, count, objectOff, states, hasMutex, configuration, rc, line, pc,
                 mode, at, window>>

\* dlopen() of a library with a channel.
OpenLibrary(t) ==
  /\ pc[t] = "ready"
  /\ \E c \in Late : InitializeChannel(t, c)
  /\ UNCHANGED <<objectOff, states, hasMutex, configuration, rc, line, pc, mode, at, window>>
-----------------------------------------------------------------------------
(***************************************************************************)
(* init() in the main thread.                                               *)
(***************************************************************************)
\* The program may turn a channel off once before it calls init().
TurnOffBefore(c) ==
  /\ pc[Main] = "constructors" /\ c \in Registered
  /\ count[Main][c] = DefaultCount(c)
  /\ count' = [count EXCEPT ![Main][c] = @ + 1]
  /\ UNCHANGED <<registry, objectOff, states, hasMutex, configuration, rc, line, pc, mode, at, window>>

\* All channels of the list are turned off before the file is read.
AllOff(counts) == [c \in Channels |-> IF c \in ToSet(visible) /\ counts[c] < 0 THEN 0 ELSE counts[c]]

BeginInit ==
  /\ pc[Main] = "constructors" /\ Registered = BeforeMain
  /\ \A f \in FatalChannels : Len(LabelOf[f]) <= width
  /\ objectOff' = [objectOff EXCEPT ![Main] = @ - 1]
  /\ rc' = BeginReading(AllOff(count[Main]))
  /\ count' = [count EXCEPT ![Main] = rc'.count]
  /\ configuration' \in Configurations
  /\ pc' = [pc EXCEPT ![Main] = "reading"]
  /\ UNCHANGED <<registry, states, hasMutex, line, mode, at, window>>

Lines == configuration[rc.file]

Read ==
  /\ pc[Main] = "reading" /\ rc.ended = "" /\ line < Len(Lines)
  /\ rc' = ReadLine(rc, visible, Lines[line + 1])
  /\ line' = line + 1
  /\ count' = [count EXCEPT ![Main] = rc'.count]
  /\ UNCHANGED <<registry, objectOff, states, hasMutex, configuration, pc, mode, at, window>>

ReadOverride ==
  /\ pc[Main] = "reading" /\ rc.ended = "" /\ line = Len(Lines) /\ rc.file < Len(configuration)
  /\ rc' = [rc EXCEPT !.file = 2, !.didReset = FALSE]
  /\ line' = 0
  /\ UNCHANGED <<registry, count, objectOff, states, hasMutex, configuration, pc, mode, at, window>>

\* set_state() keeps the first of equal labels.
DcStates(counts) ==
  [label \in {GetLabel(c) : c \in ToSet(visible)} |->
     LET first == CHOOSE i \in DOMAIN visible :
                    /\ GetLabel(visible[i]) = label
                    /\ \A j \in 1 .. i - 1 : GetLabel(visible[j]) # label
     IN counts[visible[first]] < 0]

\* The end of read(), save_dc_states() and the call of init_thread().
EndInit ==
  /\ pc[Main] = "reading" /\ rc.ended = "" /\ line = Len(Lines) /\ rc.file = Len(configuration)
  /\ rc' = EndReading(rc)
  /\ count' = [count EXCEPT ![Main] = rc'.count]
  /\ objectOff' = [objectOff EXCEPT ![Main] = @ + 1]
  /\ states' = DcStates(rc'.count)
  /\ pc' = [pc EXCEPT ![Main] = "loop"]
  /\ UNCHANGED <<registry, hasMutex, configuration, line, mode, at, window>>
-----------------------------------------------------------------------------
(***************************************************************************)
(* init_thread().                                                           *)
(***************************************************************************)
StartThread(t) ==
  /\ pc[t] = "none" /\ pc[Main] = "ready"
  /\ \E m \in ThreadModes :
       /\ mode' = [mode EXCEPT ![t] = m]
       /\ pc' = [pc EXCEPT ![t] = IF m = "debug_off" THEN "object" ELSE "loop"]
  /\ window' = [window EXCEPT ![t] = [on |-> {c \in Channels : count[Main][c] < 0},
                                      off |-> {c \in Channels : count[Main][c] >= 0},
                                      object |-> {objectOff[Main]}]]
  /\ UNCHANGED <<registry, count, objectOff, states, hasMutex, configuration, rc, line, at>>

IsOnInRcFile(c) == GetLabel(c) \in DOMAIN states /\ states[GetLabel(c)]
WantedFromMain(t, c) == count[Main][c] < 0
WantedFromRcFile(t, c) == IsOnInRcFile(c)
Wanted(t, c) == IF mode[t] = "from_rcfile" THEN IsOnInRcFile(c) ELSE count[Main][c] < 0

\* The next channel of the loop over all channels.
TurnOnChannel(t) ==
  /\ pc[t] = "loop" /\ at[t] <= Len(visible)
  /\ LET c == visible[at[t]]
     IN count' = IF count[t][c] >= 0 /\ Wanted(t, c) THEN [count EXCEPT ![t][c] = @ - 1] ELSE count
  /\ at' = [at EXCEPT ![t] = @ + 1]
  /\ UNCHANGED <<registry, objectOff, states, hasMutex, configuration, rc, line, pc, mode, window>>

EndLoop(t) ==
  /\ pc[t] = "loop" /\ at[t] > Len(visible)
  /\ pc' = [pc EXCEPT ![t] = "object"]
  /\ UNCHANGED <<registry, count, objectOff, states, hasMutex, configuration, rc, line, mode, at, window>>

\* Only the first thread, that is alone, finds no mutex.
TurnOnObject(t) ==
  /\ pc[t] = "object"
  /\ objectOff' = IF \/ mode[t] = "debug_off"
                     \/ mode[t] = "copy_from_main" /\ objectOff[Main] # -1
                  THEN objectOff ELSE [objectOff EXCEPT ![t] = @ - 1]
  /\ hasMutex' = TRUE
  /\ pc' = [pc EXCEPT ![t] = "ready"]
  /\ UNCHANGED <<registry, count, states, configuration, rc, line, mode, at, window>>
-----------------------------------------------------------------------------
(***************************************************************************)
(* The main thread turns channels and the debug object off and on again.    *)
(***************************************************************************)
Copying(t) == pc[t] \in {"loop", "object"}
Seen(field, value) ==
  [t \in Threads |-> IF Copying(t) THEN [window[t] EXCEPT ![field] = @ \cup {value}] ELSE window[t]]

ChannelOff(c) ==
  /\ pc[Main] = "ready" /\ count[Main][c] <= 0
  /\ count' = [count EXCEPT ![Main][c] = @ + 1]
  /\ window' = Seen("off", c)
  /\ UNCHANGED <<registry, objectOff, states, hasMutex, configuration, rc, line, pc, mode, at>>

ChannelOn(c) ==
  /\ pc[Main] = "ready" /\ count[Main][c] >= 0
  /\ count' = [count EXCEPT ![Main][c] = @ - 1]
  /\ window' = IF count[Main][c] = 0 THEN Seen("on", c) ELSE window
  /\ UNCHANGED <<registry, objectOff, states, hasMutex, configuration, rc, line, pc, mode, at>>

ToggleObject ==
  /\ pc[Main] = "ready"
  /\ objectOff' = [objectOff EXCEPT ![Main] = -1 - @]
  /\ window' = Seen("object", -1 - objectOff[Main])
  /\ UNCHANGED <<registry, count, states, hasMutex, configuration, rc, line, pc, mode, at>>

Next == \/ Construct \/ ConstructFatal
        \/ \E c \in OffBefore : TurnOffBefore(c)
        \/ BeginInit \/ Read \/ ReadOverride \/ EndInit
        \/ \E t \in Threads : \/ OpenLibrary(t)
                              \/ StartThread(t) \/ TurnOnChannel(t) \/ EndLoop(t) \/ TurnOnObject(t)
        \/ \E c \in Toggled : ChannelOff(c) \/ ChannelOn(c)
        \/ ToggleObject

Spec == Init /\ [][Next]_vars
-----------------------------------------------------------------------------
\* find_channel(): the last of the list that begins with the abbreviation.
Find(abbreviation) ==
  LET found == {i \in DOMAIN visible : IsPrefix(abbreviation, GetLabel(visible[i]))}
  IN {visible[i] : i \in {j \in found : \A k \in found : k <= j}}

\* The list holds every channel once and no label is longer than the width; no
\* counter is below -1: neither on() nor restore() was called once too often.
TypeOK ==
  /\ visible \in Seq(Channels \ {Rcfile}) /\ IsInjective(visible)
  /\ hidden \subseteq {Rcfile}
  /\ \A c \in Registered : Len(Label(c)) <= width
  /\ \A t \in Threads : /\ \A c \in Channels : count[t][c] \in Nat \cup {-1}
                        /\ objectOff[t] \in {-1, 0}
  /\ \A t \in Threads : at[t] \in 1 .. Len(visible) + 1
  /\ pc[Main] = "reading" => rc.count = count[Main]

\* "When several channels match, the lexicographically largest matching label is
\* returned so abbreviated lookups resolve deterministically regardless of
\* registration order" (debug.cxx), also while labels get wider between one
\* registration and the next.
FindsLargest ==
  \A abbreviation \in Abbreviations :
    LET found == Find(abbreviation)
        matching == {c \in ToSet(visible) : IsPrefix(abbreviation, Label(c))}
    IN /\ matching # {} => found # {}
       /\ \A c \in found : c \in matching /\ \A d \in matching : ~Greater(GetLabel(d), GetLabel(c))

\* However the files turn channels and the messages about them on and off, the
\* off() and on() of dc::rcfile are in pairs when it is restored, and on() is
\* never called for a channel that is on: the program is not ended by core_dump().
NoCoreDump == rc.ended # "core"

Meant == [files \in Configurations |-> FilesMean(files, BeforeMain \ {Rcfile})]
TurnedOn == [files \in Configurations |-> FilesTurnOn(files, BeforeMain \ {Rcfile})]

\* When the files were read the channels that are on are those that the files mean,
\* and the debug object is off again, however often the program had called off().  Left out
\* are files of which the first channels_on of the override file does not reset what was on.
InitRead == pc[Main] = "loop" /\ at[Main] = 1
ConfiguredAsWritten ==
  InitRead => /\ ResetsAsDocumented(configuration) =>
                   {c \in ToSet(visible) : count[Main][c] < 0} = Meant[configuration]
              /\ objectOff[Main] = 0

\* The manual of all files: "Using channels_on even once, in this file, will reset all
\* previously turned on channels" (doc/reference-manual/rcfile.md).
ConfiguredAsDocumented ==
  InitRead => {c \in ToSet(visible) : count[Main][c] < 0} = Meant[configuration]

\* "The function turns on all debug channels that were turned on after reading the
\* rcfile at the start of the application" (init_functions.cxx), whatever the main
\* thread turned on or off and whatever was registered since; channels that did not
\* exist then are off.
StartsAsConfigured ==
  \A t \in Threads \ {Main} :
    (pc[t] = "ready" /\ mode[t] = "from_rcfile") =>
      /\ {c \in BeforeMain : count[t][c] < 0} = TurnedOn[configuration]
      /\ \A c \in Late : count[t][c] \in {0, DefaultCount(c)}
      /\ objectOff[t] = -1

\* With copy_from_main a thread has on what the main thread had on, each channel at
\* some moment while it was copied, and the same for the debug object.
CopiesMain ==
  \A t \in Threads \ {Main} :
    (pc[t] = "ready" /\ mode[t] = "copy_from_main") =>
      /\ \A c \in BeforeMain \ {Rcfile} :
           IF count[t][c] < 0 THEN c \in window[t].on ELSE c \in window[t].off
      /\ objectOff[t] \in window[t].object
=============================================================================
