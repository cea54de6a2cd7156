------------------------------ MODULE StreamLocks ------------------------------
(***************************************************************************)
(* OstreamState: the ostream of a debug object and the lock that protects  *)
(* it, and the threads that use and replace them.                          *)
(*                                                                         *)
(* The mutex of an ostream belongs to the application, which may write to  *)
(* the ostream itself.  A debug object refers to it through a LockInterface*)
(* that set_ostream() allocates, and deletes when it is replaced.  A thread*)
(* that writes selects the ostream and the LockInterface under             *)
(* state_mutex_ and keeps state_mutex_ until it has locked the ostream; a  *)
(* thread that replaces them swaps both under state_mutex_ and keeps it    *)
(* until the old lock was free once.                                       *)
(***************************************************************************)
EXTENDS Naturals, FiniteSets

CONSTANTS
  Threads,
  Objects,     \* the debug objects
  Streams,
  cerr,        \* the stream that output with cerr_cf goes to
  Mutexes,     \* the mutexes of the application
  LockOf,      \* which of them protects a stream
  Adapters,    \* addresses that a new LockInterface may have
  First,       \* the LockInterface that a debug object has when the threads start
  NULL,
  UsesCerr,    \* the debug objects that are used with cerr_cf
  AppWrites,   \* the streams that the application writes to itself
  MaxOps       \* bound: operations that a thread starts

ASSUME LockAssumption == LockOf \in [Streams -> Mutexes]
ASSUME FirstAssumption ==
  First \in [Objects -> Adapters] /\ \A o, p \in Objects : First[o] = First[p] => o = p
ASSUME NullAssumption == NULL \notin Threads \cup Adapters \cup Streams \cup Mutexes \cup Objects
ASSUME UseAssumption == cerr \in Streams /\ UsesCerr \subseteq Objects /\ AppWrites \subseteq Streams
ASSUME BoundAssumption == MaxOps \in Nat

VARIABLES
  state_mutex_,     \* of a debug object: the thread that owns it
  mutex_,           \* of a debug object: its LockInterface
  real_os_,
  allocated,        \* the LockInterface objects that exist
  wraps,            \* LockInterface<T>::mutex_
  owner,            \* of a mutex of the application: the thread that owns it
  call,             \* of a thread: where it is, and its local variables
  left,             \* operations that a thread may still start
  destroyed,        \* the streams that the application destroyed
  fatal_termination_started,
  ended             \* has the process terminated?

objvars == <<state_mutex_, mutex_, real_os_>>
lockvars == <<allocated, wraps>>
fatalvars == <<fatal_termination_started, ended>>
vars == <<objvars, lockvars, owner, call, left, destroyed, fatalvars>>

Places == {"idle", "selected", "writing", "draining", "deleting", "app",
        "prompt", "fatal", "terminating", "asleep"}
Kinds == {"plain", "wait_cf", "fatal"}

Call(at, o, s, a, k) == [at |-> at, dobj |-> o, os |-> s, adapter |-> a, kind |-> k]
Idle == Call("idle", NULL, NULL, NULL, "plain")

Init ==
  /\ state_mutex_ = [o \in Objects |-> NULL]
  /\ mutex_ = First
  /\ real_os_ \in [Objects -> Streams \ {cerr}]
  /\ allocated = {First[o] : o \in Objects}
  /\ wraps \in [Adapters -> Mutexes \cup {NULL}]
  /\ \A a \in Adapters \ allocated : wraps[a] = NULL
  /\ \A o \in Objects : wraps[First[o]] = LockOf[real_os_[o]]
  /\ owner = [m \in Mutexes |-> NULL]
  /\ call = [t \in Threads |-> Idle]
  /\ left = [t \in Threads |-> MaxOps]
  /\ destroyed = {}
  /\ fatal_termination_started = FALSE
  /\ ended = FALSE

At(t, where) == ~ ended /\ call[t].at = where
Goto(t, where) == call' = [call EXCEPT ![t] = IF where = "idle" THEN Idle ELSE [@ EXCEPT !.at = where]]
Enter(t, new) == call' = [call EXCEPT ![t] = new]

\* The bound, and not the program, limits what a thread does.
Begins(t) == At(t, "idle") /\ left[t] > 0 /\ left' = [left EXCEPT ![t] = @ - 1]

ReleaseStateNever(t) == UNCHANGED state_mutex_
ReleaseState(t) == state_mutex_' = [state_mutex_ EXCEPT ![call[t].dobj] = NULL]
-----------------------------------------------------------------------------
(***************************************************************************)
(* Buffer::writeto(): get_locked_os(), the output, and unlock().  With     *)
(* wait_cf finish() then does the same again for "(type return)"; after    *)
(* output to dc::fatal or dc::core it terminates the process.              *)
(***************************************************************************)
\* state_mutex_ is kept until the stream is locked.
KeptByNone(t) == NULL
KeptBy(t) == t

Select(t, o, on_cerr, k) ==
  /\ state_mutex_[o] = NULL
  /\ state_mutex_' = [state_mutex_ EXCEPT ![o] = KeptBy(t)]
  /\ Enter(t, Call("selected", o, IF on_cerr THEN cerr ELSE real_os_[o], mutex_[o], k))
  /\ UNCHANGED <<mutex_, real_os_, lockvars, owner, destroyed, fatalvars>>

Write(t, o, on_cerr, k) ==
  /\ Begins(t)
  /\ on_cerr => o \in UsesCerr
  /\ Select(t, o, on_cerr, k)

Prompt(t) ==
  /\ At(t, "prompt")
  /\ Select(t, call[t].dobj, call[t].os = cerr, "plain")
  /\ UNCHANGED left

\* LockInterfaceBase::lock()
LocksAnyway(m) == TRUE
Locks(m) == owner[m] = NULL

LockStream(t) ==
  /\ At(t, "selected")
  /\ Locks(wraps[call[t].adapter])
  /\ owner' = [owner EXCEPT ![wraps[call[t].adapter]] = t]
  /\ ReleaseState(t)
  /\ Goto(t, "writing")
  /\ UNCHANGED <<mutex_, real_os_, lockvars, left, destroyed, fatalvars>>

AfterWrite(k) == CASE k = "plain" -> "idle" [] k = "wait_cf" -> "prompt" [] k = "fatal" -> "fatal"

Unlock(t) ==
  /\ At(t, "writing")
  /\ owner' = [owner EXCEPT ![wraps[call[t].adapter]] = NULL]
  /\ Goto(t, AfterWrite(call[t].kind))
  /\ UNCHANGED <<objvars, lockvars, left, destroyed, fatalvars>>
-----------------------------------------------------------------------------
(***************************************************************************)
(* DebugObject::set_ostream(os, mutex), that replaces both, and            *)
(* set_ostream(os), that keeps the lock: the program calls it only for a   *)
(* stream that this lock protects.  The os of the call is then the stream  *)
(* that it replaced.                                                       *)
(***************************************************************************)
SetOstream(t, o, s, a) ==
  /\ Begins(t)
  /\ s # cerr /\ s \notin destroyed
  /\ a \notin allocated
  /\ state_mutex_[o] = NULL
  /\ state_mutex_' = [state_mutex_ EXCEPT ![o] = t]
  /\ allocated' = allocated \cup {a}
  /\ wraps' = [wraps EXCEPT ![a] = LockOf[s]]
  /\ mutex_' = [mutex_ EXCEPT ![o] = a]
  /\ real_os_' = [real_os_ EXCEPT ![o] = s]
  /\ Enter(t, Call("draining", o, real_os_[o], mutex_[o], "plain"))
  /\ UNCHANGED <<owner, destroyed, fatalvars>>

SetOs(t, o, s) ==
  /\ Begins(t)
  /\ s # cerr /\ s \notin destroyed
  /\ wraps[mutex_[o]] = LockOf[s]
  /\ state_mutex_[o] = NULL
  /\ state_mutex_' = [state_mutex_ EXCEPT ![o] = t]
  /\ real_os_' = [real_os_ EXCEPT ![o] = s]
  /\ Enter(t, Call("draining", o, real_os_[o], mutex_[o], "plain"))
  /\ UNCHANGED <<mutex_, lockvars, owner, destroyed, fatalvars>>

\* Locks and unlocks the old lock: every thread that selected it has left the stream.
DrainedNever(t) == TRUE
Drained(t) == owner[wraps[call[t].adapter]] = NULL

\* set_ostream(os) replaced no lock, so there is none to delete.
Spared(t) == mutex_[call[t].dobj] = call[t].adapter

Drain(t) ==
  /\ At(t, "draining")
  /\ Drained(t)
  /\ ReleaseState(t)
  /\ Goto(t, IF Spared(t) THEN "idle" ELSE "deleting")
  /\ UNCHANGED <<mutex_, real_os_, lockvars, owner, left, destroyed, fatalvars>>

Delete(t) ==
  /\ At(t, "deleting")
  /\ allocated' = allocated \ {call[t].adapter}
  /\ wraps' = [wraps EXCEPT ![call[t].adapter] = NULL]
  /\ Goto(t, "idle")
  /\ UNCHANGED <<objvars, owner, left, destroyed, fatalvars>>
-----------------------------------------------------------------------------
(***************************************************************************)
(* The application writes to a stream itself, under its lock, and destroys *)
(* a stream once the set_ostream() that replaced it has returned.          *)
(***************************************************************************)
AppWrite(t, s) ==
  /\ Begins(t)
  /\ s \in AppWrites \ destroyed
  /\ owner[LockOf[s]] = NULL
  /\ owner' = [owner EXCEPT ![LockOf[s]] = t]
  /\ Enter(t, Call("app", NULL, s, NULL, "plain"))
  /\ UNCHANGED <<objvars, lockvars, destroyed, fatalvars>>

AppUnlock(t) ==
  /\ At(t, "app")
  /\ owner' = [owner EXCEPT ![LockOf[call[t].os]] = NULL]
  /\ Goto(t, "idle")
  /\ UNCHANGED <<objvars, lockvars, left, destroyed, fatalvars>>

Replacing(s) == \E t \in Threads : call[t].at \in {"draining", "deleting"} /\ call[t].os = s

Destroy(s) ==
  /\ ~ ended
  /\ s # cerr /\ s \notin destroyed
  /\ \A o \in Objects : real_os_[o] # s
  /\ ~ Replacing(s)
  /\ \A t \in Threads : ~ (call[t].at = "app" /\ call[t].os = s)
  /\ destroyed' = destroyed \cup {s}
  /\ UNCHANGED <<objvars, lockvars, owner, call, left, fatalvars>>
-----------------------------------------------------------------------------
(***************************************************************************)
(* The end of finish() for dc::fatal and dc::core: the thread for which    *)
(* claim_fatal_termination_ownership() returns TRUE terminates the process *)
(* and any other sleeps until it has.                                      *)
(***************************************************************************)
ClaimsIfStarted == fatal_termination_started
Claims == ~ fatal_termination_started

Claim(t) ==
  /\ At(t, "fatal")
  /\ fatal_termination_started' = TRUE
  /\ Goto(t, IF Claims THEN "terminating" ELSE "asleep")
  /\ UNCHANGED <<objvars, lockvars, owner, left, destroyed, ended>>

Terminate(t) ==
  /\ At(t, "terminating")
  /\ ended' = TRUE
  /\ UNCHANGED <<objvars, lockvars, owner, call, left, destroyed, fatal_termination_started>>

Continue(t) ==
  \/ Prompt(t) \/ LockStream(t) \/ Unlock(t)
  \/ Drain(t) \/ Delete(t)
  \/ AppUnlock(t)
  \/ Claim(t) \/ Terminate(t)

Start(t) ==
  \/ \E o \in Objects, on_cerr \in BOOLEAN, k \in Kinds : Write(t, o, on_cerr, k)
  \/ \E o \in Objects, s \in Streams, a \in Adapters : SetOstream(t, o, s, a)
  \/ \E o \in Objects, s \in Streams : SetOs(t, o, s)
  \/ \E s \in Streams : AppWrite(t, s)

\* Every thread has run its operations, or the process has terminated.
Done == (ended \/ \A t \in Threads : At(t, "idle") /\ left[t] = 0) /\ UNCHANGED vars

Next ==
  \/ \E t \in Threads : Start(t) \/ Continue(t)
  \/ \E s \in Streams : Destroy(s)
  \/ Done

Fairness == \A t \in Threads : WF_vars(Continue(t))
Spec == Init /\ [][Next]_vars /\ Fairness
-----------------------------------------------------------------------------
(***************************************************************************)
(* Dout(dc::continued, ...) or Dout(dc::finish, ...) that no section       *)
(* expects: start() tries to lock the stream, writes a newline, unlocks it *)
(* and ends in DoutFatal(dc::core, ...).  try_lock_os() returns FALSE, and *)
(* start() tries again, when try_lock() returned TRUE.                     *)
(***************************************************************************)
TryLock(t, o, on_cerr) ==
  LET m == wraps[mutex_[o]] IN
  /\ Begins(t)
  /\ on_cerr => o \in UsesCerr
  /\ state_mutex_[o] = NULL
  /\ IF owner[m] = NULL
     THEN owner' = [owner EXCEPT ![m] = t] /\ UNCHANGED call
     ELSE /\ Enter(t, Call("writing", o, IF on_cerr THEN cerr ELSE real_os_[o], mutex_[o], "fatal"))
          /\ UNCHANGED owner
  /\ UNCHANGED <<objvars, lockvars, destroyed, fatalvars>>

SpecMisuse ==
  /\ Init
  /\ [][Next \/ \E t \in Threads, o \in Objects, on_cerr \in BOOLEAN : TryLock(t, o, on_cerr)]_vars
-----------------------------------------------------------------------------
\* The type invariant.  The adapter that mutex_ points to is never a deleted one.
TypeOK ==
  /\ state_mutex_ \in [Objects -> Threads \cup {NULL}]
  /\ real_os_ \in [Objects -> Streams]
  /\ allocated \subseteq Adapters
  /\ mutex_ \in [Objects -> allocated]
  /\ wraps \in [Adapters -> Mutexes \cup {NULL}]
  /\ owner \in [Mutexes -> Threads \cup {NULL}]
  /\ call \in [Threads -> [at : Places, dobj : Objects \cup {NULL}, os : Streams \cup {NULL},
                         adapter : Adapters \cup {NULL}, kind : Kinds]]
  /\ left \in [Threads -> 0 .. MaxOps]
  /\ destroyed \subseteq Streams
  /\ fatal_termination_started \in BOOLEAN
  /\ ended \in BOOLEAN

(***************************************************************************)
(* No thread calls a LockInterface that was deleted: between get_locked_os *)
(* and unlock() it uses the one it selected, whatever set_ostream() does.  *)
(***************************************************************************)
NoUseAfterDelete ==
  \A t \in Threads :
    call[t].at \in {"selected", "writing", "draining", "deleting"} => call[t].adapter \in allocated

(***************************************************************************)
(* A thread that writes owns the lock of the stream it writes to, or that  *)
(* of the debug object when the output goes to cerr instead.               *)
(***************************************************************************)
WritersOwnTheLock ==
  \A t \in Threads : call[t].at = "writing" => owner[wraps[call[t].adapter]] = t

\* One thread at a time writes to a stream, and never to one that is destroyed.
Exclusive == INSTANCE ExclusiveOutput WITH
  writers <- [s \in Streams |-> {t \in Threads : call[t].at \in {"writing", "app"} /\ call[t].os = s}],
  exists <- Streams \ destroyed
ImplementsExclusiveOutput == Exclusive!Spec

(***************************************************************************)
(* Every operation returns, unless the process terminates first: neither   *)
(* the threads that write nor those that replace streams of several debug  *)
(* objects that share locks wait for each other.                           *)
(***************************************************************************)
OperationsReturn == \A t \in Threads : call[t].at # "idle" ~> (call[t].at = "idle" \/ ended)

\* Output to dc::fatal or dc::core ends the process, also when several threads have it.
FatalEnds == \A t \in Threads : call[t].at = "fatal" ~> ended
=============================================================================
