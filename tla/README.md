# A verification project for libcwd

libcwd is a debugging support library for (threaded) C++ programs. A program
writes debug output with `Dout(dc::channel|flags, args)`; libcwd prefixes,
nests, continues and serializes that output, and looks up the source-file,
line number and function of code addresses (`Location`). It also demangles symbols and configures which
channels are on, from an rc file, for the program and for each of its threads.

This directory holds TLA+ models of the parts of libcwd in which state is kept
between calls and in which threads meet, the TLC configurations that check
them on small instances, and proofs, checked by TLAPS, of what holds for every
instance. Source positions below are relative to the root of the repository.

## 1. Inventory

| component | state | operations | interacts with |
|---|---|---|---|
| nested output of a thread (`src/debug.cxx`, `include/private_DebugStack.inl.h`) | `current`, `output_state_stack`, `start_expected`, `unfinished_expected`, `indent`, `off_count`, `continued_stack`, the masks of the `OutputState`s | `start`, `finish`, `operator\|` of `continued_cf`, `dc::continued`, `dc::finish`; `Mark`, `Indent` | executed re-entrantly by the arguments of a statement; `finish` calls `Buffer::writeto` |
| the line of a shared ostream (`Buffer::writeto`) | `newlineless_tsd_`, `unfinished_oss_` of the debug object; `unfinished_already_printed_`, `continued_needed_` of each buffer | `writeto`, `restore_position`, `continued` | all threads, under the lock of the ostream |
| ostream and lock (`OstreamState`) | `state_mutex_`, `real_os_`, `mutex_` | `get_locked_os`, `try_lock_os`, `set_ostream` (2x) | the mutex and the streams of the application |
| fatal termination | `fatal_termination_started` | `claim_fatal_termination_ownership` | all threads that reach `dc::fatal` or `dc::core` |
| registry of object files (`src/dwarf.cxx`) | `object_files_map`, `dlopen_map` | wrappers of `dlopen` and `dlclose`, `find_object_file` | the dynamic loader, threads that look up addresses |
| function symbols of an object file (`src/dwarf.cxx`, `include/dwarf_symbol_ranges.h`) | `function_symbols_`, `dwarf_fd_`, `elf_symbols_loaded_` | `realize_symbols`, `find_symbol`, `insert_function_symbol_range` | threads under a read/write lock; libdw, libelf |
| `Location` (`src/location.cxx`, `lockable_auto_ptr.h`) | `filepath_` (`ptr_`, `owner_`, `locked_`), `known_`, the union | lookup, copy, assignment, `lock_ownership`, `clear`, destruction | other `Location`s that share the path |
| channels (`DebugChannels`, `Channel`) | the ordered list and its label width, a counter `off_cnt_array` per thread and channel | registration, `find_channel`, `on`, `off`, `force_on`, `restore` | rc file, `init_thread`, libraries that are opened |
| initialization (`src/init_functions.cxx`) | `rcfile_dc_states` | `init`, `save_dc_states`, `init_thread` with three modes | channels, rc file, the main thread |
| rc file (`src/utils/rcfile.cxx`, `match.cxx`) | the members of `RcFile` while it reads | `read`, `process_channels`, `match` | the off counters |
| demangler (`include/cwd_demangle.h`, `src/demangle.cxx`) | a session: position, substitution table, template arguments, nesting and the list of qualifiers | `demangle_symbol`, `demangle_type`, `print_IEEE_fp` | none: a pure function of the name |
| thread-specific data (`src/threading.cxx`) | `current_tsd`, `main_thread_tsd` | `instance`, `cleanup_routine` | everything |
| recursion guards (`NS_init`, `ensure_initialization`) | `being_initialized_`, `s_object_files_initialized_`, `s_main_reached` | start-up from global constructors | everything |
| line and inline scope lookup (`SymbolRange::lookup_location`) | none of its own | walks the DIE tree and line table of libdw | symbols, `Location` |
| margins and markers, type info, reference counting, formatting, `attach_gdb` | little or none | text handling, external programs | |

What makes this code hard to test: output that interrupts output (of the same
thread in its arguments, of other threads in between two writes of a section,
of both); state that one thread writes for another (`unfinished_already_printed_`,
`continued_needed_`); pointers that are kept across calls (`newlineless_tsd_`,
`unfinished_oss_`, the lock that a writer selected, `SymbolRange`s that are used
without a lock); the windows between the dynamic loader's view and the
registry's; check-then-load of the symbols; ownership of a path that moves with
every copy; a list that is kept in order while what orders it changes; labels
that serve as keys and change; substitutions that are rebuilt from positions
while the same part of a name is decoded twice. `PROJECT.json` lists these hazards, each at its line, with the
properties that would catch it.

What each part has to satisfy:

* nested output: what is closed leaves no trace; `finish` handles the output of
  the statement that ends; no misuse is reported that is none; every
  `OutputState` is deleted once; no line of one output is continued by another;
* shared line: the same between threads, `<unfinished>` once for each
  interruption, and a prefix before every continuation;
* stream locks: one writer at a time, no use of a deleted lock or a destroyed
  stream, every operation returns, exactly one thread ends the process;
* registry: equal to what the loader has mapped whenever no wrapper is running;
  an address of an open library is always found; nothing deleted is used;
* symbols: every address belongs to its best symbol, whatever the order; what
  was found stays; what is there is found;
* `Location`: one owner for each path; a known `Location` can be printed;
* channels: after the rc file was read, and in every thread that starts, what is
  on is what the files say or the main thread has; lookup by abbreviation does
  not depend on the order of registration; no file makes the reader dump core;
* demangler: what comes out is the declaration that was mangled, with every
  substitution and template parameter standing for the right entity.

## 2. The modules

| module | models | checked by | proved in |
|---|---|---|---|
| `NestedOutput` | the output of one thread | `MCNestedOutput` | `NestedOutput_proofs` |
| `SharedLine` | the line that threads share | `MCSharedLine` | `SharedLine_proofs` |
| `StreamLocks` | the ostream, its lock, fatal termination | `MCStreamLocks` | `StreamLocks_proofs` |
| `ExclusiveOutput` | abstract: exclusive access to streams that may be destroyed | implemented by `StreamLocks` | `StreamLocks_proofs` |
| `DlRegistry` | object files, `dlopen`, `dlclose`, lookup | `MCDlRegistry` | `DlRegistry_proofs` |
| `SymbolTables` | the symbols of one object file | `MCSymbolTables` | `SymbolTables_proofs` |
| `AddressOwners` | abstract: the best symbol of every address | implemented by `SymbolTables` | `SymbolTables_proofs` |
| `LocationPaths` | `Location` and `lockable_auto_ptr` | `MCLocationPaths` | `LocationPaths_proofs` |
| `Wildcards` | `match()`, and what a mask means | with `RcFile` | `Channels_proofs` |
| `RcFile` | the lines of the rc file, and what a file means | with `Channels` | `Channels_proofs` |
| `Channels` | the registry, `init`, `init_thread`, `on` and `off` | `MCChannels` | `Channels_proofs` |
| `Demangler` | the session and all its `decode_` functions | with `Demangling` | |
| `Mangling` | reference (external): the mangling of the C++ ABI and the text of a declaration | with `Demangling` | |
| `DecimalFloat` | `decimal_float`, `print_IEEE_fp` | with `Demangling` | `DecimalFloat_proofs` |
| `Demangling` | composes the three | `MCDemangling` | |

Variables have the names of the members they model. An operator whose name ends
in `Never`, `Always`, `Unbounded` and the like, just before the operator it
resembles, is that operator with a plausible mistake; `PROJECT.json` names, for
each property, the one with which the property fails.

**NestedOutput.** One thread and one debug object. Neither `start` nor `finish`
runs user code, so each is one action: `Dout` and `OpenSection` are `start` (with
`operator|(continued_cf_nt)` before it), `Continued` and `FinishChannel` are
`operator|` and the short path through `start`, `FinishPart`, `Finish` and
`FinishFatal` the three ends of `finish`. The arguments of a statement are what
happens between the two; `prog` remembers what the program has open, only to state
the properties. A section is opened by a statement (`opening`), continued by
others (`part`), and ended by one that is then like any other (`plain`). The
program is any program: it uses `dc::continued` and `dc::finish` where it likes
(`Allowed` excludes one thing, section 6), and a `Mark` ends at any time, not only
when it was opened last (`Mark::end()` can be called by anyone). So an item of
`prog` is closed wherever it is; `CloseInnermost` names the section that a
`dc::finish` is for. Only a statement ends in order, since its arguments are
evaluated inside it. Text is abstracted: a buffer holds nothing, text
that starts with a prefix (`line`), or text that goes on (`text`), and a stream
remembers which output left its last line open. `halted` tells that the program
ended: `DoutFatal`, a full stack, or a misuse that libcwd reports (`Unmatched`).
`LeavesNoTrace` compares the state of the thread with `ViewOf(prog)`, which adds up
what each thing that is still open did, from the outermost on.

**SharedLine.** `writeto` runs under the lock of the ostream, so it is one action
together with what its caller does to the buffer; `Start`, `Finish`,
`FinishOpening`, `Continued` and `FinishSection` are the statements that may call
it, in the form `NestedOutput` has them, `Exit` and `Create` the ends of a thread.
`line` is what really is on the ostream, kept apart from what the debug object
remembers of it; `faults` records what went wrong with the text.

**StreamLocks.** A thread's `call` tells where it is. `Select` takes `state_mutex_`
and reads both pointers, `LockStream` gets the lock of the stream and releases
`state_mutex_` (`get_locked_os`); `Unlock` is the end of `writeto`. `SetOstream` and
`SetOs` swap under `state_mutex_`, `Drain` is the lock and unlock of the old lock,
`Delete` its deletion. A lock belongs to a stream, so that two debug objects that write
to one stream, or swap theirs, wait for each other's writers. `Prompt` repeats the selection for `wait_cf`. The
application (external) writes to streams under their own lock and destroys a
stream when the `set_ostream` that replaced it has returned.

**DlRegistry.** The loader is external: `refs`, `base`, `handle`, `pinned`. Every
critical section of a wrapper is an action, in the order of the code: the real
`dlopen` (`RealDlopen`), `Record`, `Register`, `Emplace`; the real `dlclose`
(`RealDlclose`), `Unrecord`, `Unregister`, `Delete`. A lookup is `Find` (the read
lock), `Realize` (the first check), `GetDebugInfoPath`, `Load` (the second check and the
load), `FindSymbol`. While a thread determines the path, without a lock, libdw may open
libraries in it as often as it likes (`src/dwarf.cxx:629-631`): `HelperDlopen` is the
real `dlopen` of such a call, and `Record`, `Register` and `Emplace` follow as in any
other. So a thread has two places: `call` is where it is in a wrapper, `lookup` where
it is in a lookup. `Helpers` are the libraries that libdw opens; several threads may
open the same one at the same moment, also while the program is in `dlopen`.
The constants `Serial`, `UsesNoload`, `Forgets`, `Overlaps` and `Helpers` say what programs
are considered; see section 6.

**SymbolTables.** A range of the table is a fragment of a symbol. `Insert` is
`insert_function_symbol_range`: the existing ranges that lose are cut
(`Leftovers`) and the new symbol gets the maximal pieces that no winner keeps
(`Pieces`). The file's symbols are inserted in any order by the thread that holds
the write lock. `Find`, `Realize`, `LoadDwarf`, `FindSymbol` and `ElfLoaded` are the
steps of a lookup, `MainReached` the end of the time in which only ELF symbols are
loaded.

**LocationPaths.** A `Location` is a record of its members; a path that is
allocated remembers the place whose file it names, so that a stale path can be
told from the right one. The operations are those of the class, each a step;
the class promises nothing between threads. `Found` is `pc_location` with every
outcome: nothing, an object file without symbol, a file with or without a line.
What is only read of a known `Location` is forgotten when it is cleared: the
dangling `ptr_` of a non-owner is never read again.

**Wildcards, RcFile.** A mask and a label are sequences of characters. `Match` is
`match()` with its recursion as a recursive function over the positions in both;
`Covers` says independently what a mask means. `ReadLine` is one turn of the loop
of `read()` for each keyword: it maps the state of the reader to the next, with
`ProcessChannel` for one channel of `process_channels`, in the order of the list.
`BeginReading` and `EndReading` are what `read` does before and after. What files mean
is stated without the counters, the flags and the lists of the reader, with sets of
channels that are on: every line maps the set of before to that of behind it
(`Means`), and some lines of the override file start from another set. There are two
such statements. `FilesTurnOn` is about the reader: one line at most starts anew
(`StartsAnew`, `StartsFrom`), the first that lists what differs from the default that is
in force there. `FilesMean` follows the manual: the first `channels_on` of the override
file does, whatever the default (`ResetsOf`, `ResetsTo`). `ConfiguredAsWritten` is about
the files for which both say the same of that line (`ResetsAsDocumented`),
`ConfiguredAsDocumented` about all.

**Channels.** `Construct`, `ConstructFatal` and `OpenLibrary` are the constructors that
register a channel, in any order: they widen the labels and insert in front of
the first greater one (`Place`). `BeginInit`, `Read`, `ReadOverride` and `EndInit` are
`init()`, a line at a time, with `save_dc_states()` in the last. `StartThread`,
`TurnOnChannel` and `TurnOnObject` are `init_thread()`: the loop over the channels
takes a step for each, while the main thread turns channels and the debug object
on and off (`ChannelOff`, `ChannelOn`, `ToggleObject`). A thread that registers a
channel waits for the lock that the loop holds. `window` remembers what the main
thread had while it was copied.

**Demangler.** The input is a sequence of tokens; an identifier with its length is
one token. A decoder is an operator from session to session: the session holds
the position, the table of substitutions (positions in the input, with the
template arguments of then), the arguments of the template, `inside_type` and
the qualifier list of the type that is decoded, and `ok`, that once FALSE stays
so. The decoders call each other through one recursive operator, `Decode`, by the
name of the production. **Mangling** describes a declaration as a record and has
the other direction: `Mangle` and `Encoding` with a dictionary of entities,
`Declare` and `Text` for how the declaration is written. **DecimalFloat** takes a step
for each iteration of the two loops of `print_IEEE_fp`, carries included; `exact`
follows the same number in exact arithmetic. A behaviour of **Demangling** takes one
declaration, or prints one number.

## 3. The runs

`tlc -config X.cfg MC...`; all of them end within two minutes, `locks` in about three.

| run | instance | what it shows |
|---|---|---|
| `nested` | 4 outputs, stacks of 2, 4 things open; flush, no newline, fatal; any program that nests nothing in an opening statement | `LeavesNoTrace`, `FinishesOwnOutput`, `NoFalseAlarm`, `NoLeak`, `LinesNotMixed`, `FinishHasOutput` |
| `shared` | 3 threads, 5 buffers, 3 outputs per thread | the line is shared properly |
| `locks` | 3 threads with an operation each, 2 debug objects, 2 streams and `cerr`, 4 `LockInterface`s | safety, refinement of `ExclusiveOutput`, liveness |
| `locks_try` | 2 threads, 2 operations each, with misuse | finding 1 |
| `dl` | 3 threads, 3 libraries (one linked, one of two pages that the program opens, one that libdw opens), 4 pages | the registry follows the loader |
| `dl_linked` | 2 threads, `dlopen` of a linked library | finding 2 |
| `location` | 3 `Location`s, 3 paths, 2 places | ownership and validity |
| `symbols` | 2 threads, 6 addresses, every subset of 7 symbols in every order | refinement of `AddressOwners`, stability, completeness |
| `channels` | 6 channels and a fatal one at the start, 1 loaded later, 2 threads, about 150 configurations of up to two files | registration, configuration, the state a thread starts with |
| `channels_manual` | as `channels`, both files turn channels on | finding 3 |
| `threads_labels` | as `channels`, the library's label is the widest | finding 4 |
| `demangle` | some thousand declarations and types, 78 numbers of 32 and 64 bits | the demangler inverts the mangling; numbers are printed as they are |

Why the bounds are enough. *NestedOutput*: a mistake in `start_expected`, `indent`
or `off_count` needs an output that interrupts an output that was interrupted or
is between its statements; with four things open every pair of kinds occurs in
every order below a third and is closed in every order, and stacks of two
overflow. The run has neither `cerr_cf` nor `noprefix_cf` by itself, and nests nothing
in an opening statement, which `LinesNotMixed` needs; the theorems on the other
properties have all of these. `MaxMarked` bounds what a `Mark` adds back to `indent`, which otherwise
grows by opening marks and closing them out of order. The theorems drop these
bounds. *SharedLine*: an interruption involves the thread that left the line
open, one that interrupts it and one that interrupts that; each can have a
section in a section. The theorems drop this bound too. *StreamLocks*: one writer,
one replacer and one more of either, each with either debug object, so that both may
get one stream and its lock, swap theirs, or wait for what the other one writes. An
operation replaces a stream once, so that the two debug objects start with one
`LockInterface` each and there are two more. Nothing is written to `cerr` here; with
`cerr_cf` the operations are the same but for the stream. The theorems
drop the bounds for safety, `cerr` included. *DlRegistry*: a library of two pages
and two of one page reuse each other's addresses in part, there are fewer
handles and objects than opens, so both are reused; two lookups can be in `dlopen`
of the same library together with the program in that of another. The theorems drop
these bounds. *LocationPaths*: sharing of
a path by two while a third takes it over. *SymbolTables*: the symbols overlap
in every way: nested, equal sizes, overlapping ends, touching, empty, DWARF over
ELF and ELF under DWARF, a piece cut in two. *Channels*: one label is a prefix of
another, one is wider than all before, two share a beginning and one begins with
a channel's whole label; the files have every keyword, alone and after each
default, two changes of overlapping lists, unbalanced `silent`, and an override
file that adds to, takes from or resets the first, with a default in either file,
in both and in none. The theorems drop this bound. *Demangling*: every constructor
of types applied to results of every other, in two parameters that share parts,
so that every pair of types meets in one substitution table; names with up to
two scopes and template arguments in either; a table of more than 36 entries, so
that an index has two digits. *DecimalFloat*: exponents at both ends, at zero and
across the carry into another element, fractions of all zeros, all ones and
alternating bits. For normal numbers the theorem on `SameExponent` drops this bound.

`CHECK_DEADLOCK FALSE` is said where the system really stops: the program of
`NestedOutput` may have ended, the reader of `Channels` may end the program, and its
threads finish starting; a name is demangled once. `StreamLocks` has an explicit
`Done`; the others never stop.

**Symmetry** is used where constants are not told apart, and not in `locks`, which
checks liveness, nor in `symbols`, `channels` and `demangle`, whose values differ.

**Fairness.** Only `StreamLocks` states any: weak fairness of the steps that a
thread takes inside an operation. A thread that waits for a mutex does not
starve although its step is not continuously enabled, because every thread
starts finitely many operations (`MaxOps`), as the competing writers of a moment
do; with infinitely many writers a `std::mutex` promises nothing. For output with
`wait_cf` the fairness includes that the user presses return. Starting an
operation and the application's `Destroy` are not fair.

## 4. Findings

Four runs must end in a counterexample to one property. `PROJECT.json` quotes
the sentence of the repository that the code departs from.

1. `locks_try`, `include/libcwd/DebugObject.inl.h:193`: `try_lock_os` has its
   condition the wrong way around.
2. `dl_linked`, `src/dwarf.cxx:1406`: a library that the program is linked with is
   unregistered by `dlopen` and `dlclose`.
3. `channels_manual`, `src/utils/rcfile.cxx:316`: after a default of off the first
   `channels_on` of the override file adds to what is on.
   `doc/reference-manual/rcfile.md:52-53` says that it "will reset all previously turned
   on channels".
4. `threads_labels`, `src/init_functions.cxx:97`: the states that were read from the
   rc file are kept by padded label; a library with a wider label changes all of
   them, and threads that start later have all channels off.

Other values of the constants, or other elements of the sets of inputs, make TLC
violate a property of a passing run:

* `NestInOpening` TRUE: output in the arguments of the statement that opens a
  section resets `unfinished_expected`, so that the flushed section is later
  interrupted without `<unfinished>` (`src/debug.cxx:1173`).
* `TidyExits` FALSE: `newlineless_tsd_` outlives its thread; a new thread at the same
  address appends to the open line (`src/debug.cxx:118`).
* `AssignsBack` TRUE: assignment deletes the path that the source shares before it
  copies the pointer (`src/location.cxx:198`).
* The demangler departs from the declaration, or gives up, for these names; the
  declarations of the instance are without them:
  - `_Z1fI1XEvNT_1tES1_`: the template parameter that a nested name begins with (`S1_`) is
    refused as a substitution;
  - `_Z1fIL_Z1gP1AEEvS1_`, and all in which the address `L_Z..E` of something mentions a
    candidate that is substituted outside of it, or the other way around: the ABI has one
    dictionary for the whole name, `decode_literal` reads the address with a session of
    its own (`include/cwd_demangle.h:901`), and the substitution is refused or means
    something else. The addresses of the instance have no candidates;
  - `_ZN1AcvSsEv` is written as a function `string` of `A`; so are conversions to an
    instance of a standard template (`cvSbI..E`) and to pointers to members;
  - `_Z1fIFvvEEvPT_S2_` and other functions or pointers to (member) functions that
    a template parameter is bound to: the parameter becomes no candidate;
    likewise a function pointer that is returned through `T_`;
  - `_ZN1CcvPT_IiEEv`: a conversion to a type that mentions its own parameters;
  - `_ZZ1fP1AEN1B1gES0_S0_`: a local name begins with an empty substitution table;
  - `_Z1fM1AKFiiEM1BS0_`: the `const` of a member function type is lost when it is
    substituted;
  - `_Z1fM1AKi`: a pointer to a member that is const is refused
    (`include/cwd_demangle.h:1793`, the grammar in the comment at 1783 has it);
  - `_Z2ffPFiiEPFS0_vE`: what is written behind a function type is decoded before
    the candidates in front of it are known;
  - `_ZTch0_h16_N1D1fEv`: covariant thunks are refused;
  - `_ZZN1A1fEvENK1B1gEv` is written as `B::g const()`.
* Denormal numbers are printed with wrong digits (the `float` with bits `000020c7`
  as 1.1770907e-41, the least `double` as 4.94e-341): `bit` and `result` have
  different exponents, `SameExponent`.

Where the manual says nothing the models have what the code does. `FilesMean` differs
from the code in finding 3 only: that the first `channels_off` of the override file,
after a default of off, turns all channels on before it turns some off, and that a
`channels_on` without any default starts from `dc::warning`, is nowhere documented.
`co` in an expression is decoded as a binary operator by the demangler, and is in no
declaration of the instance.

## 5. The proofs

`tlapm X_proofs.tla` checks them; they assume nothing but the named assumptions
on the constants in the modules.

**NestedOutput_proofs**: for every set of outputs, size of the stacks, choice of
flags and depth of nesting, and for every program that does not misuse
`dc::continued` or `dc::finish` in the arguments of a `dc::continued`
(~ `MisuseInPart`), `Spec` implies `TypeOK`, `LeavesNoTrace`, `FinishesOwnOutput`,
`NoFalseAlarm`, `NoLeak` and `FinishHasOutput`. `LeavesNoTrace` says that the view of the
state (the outputs in progress, the next indentation, the encoding of the
sections) is that which `ViewOf` adds up from `prog`. To reason about it, `Chain`
gives a view for every prefix of `prog`, each following from the one before by
`After`; `ViewOfChain` shows that this is what the recursive function computes.
Opening extends the chain at its end (`PushChain`), ending a statement shortens it
(`PopChain`), and closing an item in the middle undoes what that item did in every
view above it (`CloseChain`): a mark gives its indentation back to all of them
(`CloseMarkView`), a section that is off is one less in the run it is counted in
(`CloseOffView`), a section takes its output from the top of the stack, its four
spaces and its run (`CloseSectionView`). That these commute with what was opened
later is arithmetic modulo 2^16 (`PlusCommutes`, `MinusCommutes`), and for the stacks
the fact that nothing that touches them was.

The chain alone is not inductive: `finish` pops what it finds, and `operator|` looks
at `off_count` and the mask of `current` only. The invariant `IInv` adds that the
outputs of what is open differ and are those allocated, that between a
`dc::continued` and its section only marks are open (`WellNested`), and that the
masks agree with the kinds: a section that waits, and no other output, has
`continued_expected`, a statement that ends for good is not a part (`MasksTell`).
From these `AtItsSection` finds, for a `dc::continued` or `dc::finish` that prints, the
section that it is for: `current` is the innermost output, `continued_expected` makes
it a section, and `off_count` being zero excludes a section that is off above it.
`AtItsOffSection` does the same for one that is counted. Then there is one lemma for
each action.

`LinesNotMixed` is proved of the same programs when all output goes to one stream
and nothing is nested in an opening statement (`OneStream`; with either one
dropped, and `flush_cf` among the choices, TLC finds a line that is mixed).
`LineInv`, preserved together with `IInv`, says that a line left open is that of
`current`, which has `continued_cf`, still has `unfinished_expected` and has nothing
pending that starts a line; that an opening statement is innermost and has
`unfinished_expected` set, so that what interrupts its section later ends the line
first; and that a part is written with `continued` in its mask.

**LocationPaths_proofs**: for every set of `Location`s, paths and places, `Spec`
implies `TypeOK`, `OwnedOnce`, `NoDoubleFree` and `UnknownPcIsPc`: no program, tidy or
not, makes two owners. The invariant splits `OwnedOnce` in two directions that
are each preserved: owners point to allocated paths and no two to the same
(`OneOwner`), every allocated path has an owner (`Accounted`). For programs that do
not assign a copy back to its owner, `KnownIsValid` is proved from the same
invariant: every step that deletes a path either keeps `tidy` FALSE or deletes
one that no other known `Location` shares.

**SharedLine_proofs**: for every number of threads, buffers and levels of nesting,
`Spec` implies `LinesNotMixed`, `TextHasItsPrefix`, `UnfinishedOnce` and `NoDangling`, when
threads end the line they left open before they exit (`TidyExits`) and write no
empty text without a newline (~ `EmptyParts`). What the properties say of the past
(`faults`) follows from what a buffer can be in: it holds a line that begins with
its prefix (`Fresh`), and then nothing about it is remembered anywhere; or it is
that of the section its thread is in (`Begun`), and then either the line is open and
known to be its, or it is marked. `LineKnown` says that the debug object knows who
left the line open, `FlagsAgree` that the two marks are set and cleared together,
`Distinct` that an `OutputState` belongs to one output. `Written` is the effect of
`writeto()` under this invariant, `OthersKeep` what it does to the other buffers;
then there is one lemma for each action. `OpeningOnTop` is needed because the
opening statement becomes a section that has written: `unfinished_expected` must
be set, which is where output nested in it breaks the proof, as it breaks the
property.

**StreamLocks_proofs**: for every number of threads, debug objects, streams,
mutexes and operations, `Spec` implies `TypeOK`, `NoUseAfterDelete` and
`WritersOwnTheLock`, and, when one debug object at most writes to `cerr` and the
application does not, the refinement of `ExclusiveOutput`. Neither is inductive: who
writes may use a `LockInterface` that was replaced. The invariant says that a thread
that has `state_mutex_` selected, or replaced, what the debug object has
(`Holders`, `SelectedOK`), that while one drains the old lock all that still write to
the old stream use it, and when nobody drains they use the present one
(`WritingOK`), and that a `LockInterface` that is deleted is used by nobody else
(`AdaptersOK`). Exclusion on a stream then follows from the owner of its mutex, and
that a destroyed stream has no writers from the end of the drain.

**SymbolTables_proofs**: for every number of threads, addresses and symbols that
overlap in any way and arrive in any order, `Spec` implies `TypeOK`, `FoundStays`,
`LookupFinds`, `NamesExist` and the refinement of `AddressOwners`. Half of it is about
one insertion. `WithInserted(s)` is the table after it; the lemmas show that what is
left of the losers (`Leftovers`) and the new pieces (`Pieces`) are not empty, are
inside their symbols and are apart from each other and from what is kept
(`InsertedWellFormed`), and that an address then belongs to the new symbol exactly when
this covers it and no previous owner wins (`InsertedOwner`). That there is a piece at
every such address (`PieceExists`) takes the nearest kept range on either side: a set
of numbers that is not empty and bounded has a smallest and a largest element,
which follows from the library's theorem that `<` on `Nat` is well-founded. `IInv` then
says that every address of an inserted symbol has an owner, of the debug
information if the symbol is (`Covered`), that one thread loads at a time and
nothing is loaded twice (`LoadingOK`), and of what a thread uses without a lock that
it is in the table and cannot be cut: no debug information is loaded when
something was found, and ELF symbols that are loaded do not win from debug
information (`FoundOK`). The proofs need that there is at least one address
(`EndAssumption`).

**DlRegistry_proofs**: for every number of threads, libraries, pages, handles and
references, and every size of the libraries, `Spec` implies `Synchronized`,
`LookupSucceeds`, `NoUseAfterDelete` and `AssertionsHold` of programs that are
`WellBehaved`: they call `dlopen` and `dlclose` one at a time, never of a library that
they are linked with or that libdw opens, do not use `RTLD_NOLOAD`, repeat
`RTLD_NODELETE`, and call no `dlclose` while libdw is in `dlopen`. Section 4 and
the hazards say what TLC finds without each of these conditions. libdw itself opens its
libraries at any time inside any number of lookups at once, also while the program is
in `dlopen`.
`Synchronized` speaks of the time between calls, so that the invariant has to say
what each call has done so far. At most one thread is in a call of the program
(`Adding`, or one of `Closing`); of all other libraries of the program (`RestOK`) the record counts what the program has open and has the
flag exactly when the loader pinned the library, and its range is registered at the
place where it is mapped. The library that is opened (`OpeningOK`) is mapped, and
either has the record and the range of before or no record yet; the one
that is closed (`UnrecordOK`, `UnregisterOK`, `DeleteOK`) loses its record, its range and
its `ObjectFile` in that order. A range is that of a mapped library or is `Stale`: that
of the library that is being closed, which no mapped library overlaps, because
no other is opened before it is gone. Any number of threads may be in a call of libdw
(`Helping`), of the same library too: what is registered is looked up and inserted in
one critical section, so that the library has one range whoever is first, and a record
of whichever call made it refers to that (`HelpersOK`); how many references it counts
does not matter, because libdw does not close the library. The proof keeps where
libraries are (`Places`) apart from how often the program has them open (`References`), because
a call of libdw changes the first only. That a lookup under way keeps its
`ObjectFile` (`LookingUpOK`) follows because its library is open, and what is
unregistered is not mapped. There is one lemma for each action, two where the
outcome decides what becomes of the library.

**Channels_proofs**, first part: what is read. It proves `MatchIsCovers`, that `match()` is true exactly for the names
that the mask covers, and what the reader does with one line. The recursive function
of `Match` has one solution (`MatchIsUnique`), and what a mask means solves the same
equation (`FromEquation`). What a recursive function or a fold computes for every
input is an induction over data; here it is one over a *set*: a set that contains
0 and with n also n + 1 contains all natural numbers (`Induction`), which follows
from the library's theorem that `<` on `Nat` is well-founded. The folds of
`process_channels` and of `set_all_channels_on` go over the prefixes 1 .. i
of a list, and `ChainRule` carries a property along. The state of the reader is a
record, and every assignment of the code an assignment to one field of it (`Put`).
From there on the lemmas speak of the set of channels that are on (`OnIn`, in which
`ELFUTILS` is on when the reader will turn it on at the end): `ProcessOne` for a
channel, `ProcessChannelsSets` for a line of masks, `SetAllOnSets`, `SetAllOffSets`,
and `LineReads` for every keyword. They need that `dc::warning` was not turned off
twice and that no other channel has the label of `ELFUTILS`. `ReadTo` then
says that the reader has done what the first n lines say, and remembers of the
defaults and of the reset what the lines behind them need; `ReadToBegins`, the step to
the next line, `ReadToOverride` and `ReadToEnds` lead from the start of `read` to
`FilesMean`.

**Channels_proofs**, second part: for every number of threads and channels, all labels, files
and orders of registration, `Spec` implies `TypeOK`, `FindsLargest`, `NoCoreDump`,
`CopiesMain` and `ConfiguredAsWritten`, and `StartsAsConfigured` under two conditions.
The invariant `IInv` goes by the parts of the state. `RegistryOK` keeps the list
sorted by the labels as they are padded *now*: a list that is sorted at one width
is sorted at every greater one (`SortedAtAnyWidth`), because the padding is the
smallest character, and `Greater` is a strict order at every width. `FindsLargest`
follows: of the channels that match, the last is the greatest. `ReadingOK` says that
while files are read the counter of `dc::rcfile` is what the reader thinks it is
(`Paired`), which every line preserves. `CopiesOK` says of a thread that copies what
it has copied so far and what is still in front of it in the list: it is on or off as
main had it in the window, and the list does not change meanwhile (`RegistryKept`).
`MeantOK`, preserved together with `IInv`, is that before `init()` the program has
turned off `dc::warning` once at most, and the reader has done what the lines
say (`ReadTo`); `ConfiguredAsWritten` is its end.

`StartsAsConfigured` is proved of the programs for which `OwnLabels` and `LateFits`
hold: the channels have labels of their own, and the label of a channel that is
registered later is not longer than all those of before. Finding 3 is
that the second is needed. `SInv` says that the saved states are found under the labels
of now, which is because the width does not grow any more once the files were read
(`WidthKept`), and that a thread has of what is behind it in the list on
what the files say. The instance `channels` satisfies both conditions and
`threads_labels` is the same without the second.

The proofs use these assumptions of the modules, which the code justifies:
`WARNING`, `ELFUTILS` and `dc::rcfile` are channels of before main, libraries that are
opened later bring channels of their own, no other channel is called `ELFUTILS`
(`process_channels` knows it by its label), labels are words without spaces, and the
lines of a file have the keywords and the lists of masks that reading gives them.

**DecimalFloat_proofs** is about `FSpec`, one call of `print_IEEE_fp`, of which a
behaviour of `Demangling` that prints a number is an instance. `Carry`, the recursive
function for `do_carry`, keeps the number that the elements stand for (`CarryValue`),
and from there on the lemmas are about that number, `Value`: of a sum (`PlusValue`), a
product (`TimesValue`) and a half, which rounds up (`HalvedValue`). The invariant `IInv`
says of a normal number that after the n-th decrement of the exponent the mantissa of
`result` is at least 10^n and, with twice that of `bit`, at most 2 * 10^n. So
`max_precision_reached` is set by the nineteenth decrement and not before, both
exponents are decremented up to there, and behind it the roundings of the halves add
up to 63 at most, too little for another digit: no mantissa overflows, and
`SameExponent` holds (`NormalNumbersAddUp`). The theorem is of `Normalized(number)`
because of denormals it is false, see the end of section 4. The numbers in `IInv` have
up to 20 digits, which TLC cannot compute with; the run checks `SameExponent` itself.

**Only model-checked**: the liveness properties of `StreamLocks`, since liveness under
fairness and ENABLED are out of the prover's reach, and the demangler: its decoders
call each other through a RECURSIVE operator, and in a module that reaches one the
prover has no SMT backend (`RoundTrip`, `SubstitutionsMatch`, `NeverGlued`).
`PrintsTheNumber` is about exact arithmetic on digits of unbounded length,
powers of two and divisions, for the exponents and fractions of the run.

## 6. What the models leave out

* Programs. `NestInOpening`, `MisuseInPart`, `TidyExits`, `EmptyParts`, `Serial`,
  `UsesNoload`, `Forgets`, `Overlaps` and `AssignsBack` are constants that widen the programs
  considered; with the other value TLC finds a property violated. Section 4 lists
  those of which the repository promises something; the others are hazards with a
  note: `MisuseInPart` (`dc::continued` or `dc::finish` inside the arguments of a
  `dc::continued`, for a section that was not opened there), `EmptyParts` (a flushed section ended by an empty
  `dc::finish|nonewline_cf`), `Serial` FALSE (concurrent `dlopen` and `dlclose`),
  `UsesNoload`, `Forgets`, `Overlaps` (a `dlclose` of the program while libdw is in `dlopen`
  inside a lookup of another thread) and, in the same way, a library that is both in
  `Plugins` and in `Helpers`: the loader then has references of libdw, and `emplace`
  drops one of two first calls. The code allows all of these: a serial program is not
  protected from what libdw does in its lookups.
* libdw does not close the libraries that it opens. What the real `dlopen` and `dlclose`
  run themselves, the constructors and destructors of a library, is not a part of these
  calls; what it looks up or opens is represented by the steps of other threads.
  The path is determined after `main` was reached (`src/dwarf.cxx:626`); before that a
  lookup ends there, as one does that finds the symbols loaded.
* Two debug objects that write to `cerr` with `cerr_cf`: each protects it with its own
  lock only.
* The debug object without a lock, before `init_thread` or `set_ostream(os, mutex)`.
* Text: prefix, margin, marker, color and the errno message, except for where a
  line starts and ends; of a label only its characters and width matter.
* One range for each library instead of one for each PT_LOAD segment: the ranges
  of a library are made and erased together. Dependencies of a library are not
  modelled.
* Channels: the array of `LIBCWD_DC_MAX` counters is not bounded, its bound is a
  constant of the build that nothing checks at run time. Splitting a line of the
  rc file in words, the file's name and place, and the keywords `gdb` and `xterm`.
* The demangler: a name that no declaration is mangled to; characters of an
  identifier; the styles other than the default.
* Recursion guards of the start-up (`NS_init`, `ensure_initialization`) and the
  destruction of thread-specific data: they depend on the order in which the C++
  runtime constructs and destroys objects of other translation units.
* Line and inlined-scope lookup, reading of the files: nearly all of it is the
  semantics of libdw and libelf.
* `Indent`: it adds to `indent` like `Mark` but takes from it with `dec_indent`, which
  stops at zero where `finish` wraps around: an `Indent` in the scope of a `Mark`, in
  which a section that was interrupted before is finished, leaves the four spaces
  that `finish` took. `Mark` alone leaves no trace there.
* Margins and markers, type information, formatting, the reference counting
  helper and external programs keep no state that two calls share.

## 7. Plan

Done: `NestedOutput`, `SharedLine`, `StreamLocks` (over `ExclusiveOutput`),
`DlRegistry`, `LocationPaths` and `SymbolTables` (over `AddressOwners`), each with its
proofs; `Channels` with `RcFile` and `Wildcards`, with their proofs; `Demangling` with
`Demangler`, `Mangling` and `DecimalFloat`.

Left, in this order:

1. `Startup`: a debug object without a lock, `has_mutex` and `set_ostream` as separate
   steps, `NS_init` re-entered from constructors.
2. `LocationPaths` with `DlRegistry`: a `Location` whose object file is closed.
3. The choice of the innermost inlined scope as a pure function.
4. `Indent` in `NestedOutput`, with the condition under which it leaves no trace.
