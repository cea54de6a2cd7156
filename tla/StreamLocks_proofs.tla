-------------------------- MODULE StreamLocks_proofs --------------------------
(***************************************************************************)
(* The locks of OstreamState do what ExclusiveOutput promises, for any      *)
(* number of threads, debug objects, streams, mutexes and operations.       *)
(***************************************************************************)
EXTENDS StreamLocks, TLAPS

\* Where a thread uses the LockInterface that it selected or replaced.
Active == {"selected", "writing", "draining", "deleting"}
Uses(t) == call[t].at \in Active

(***************************************************************************)
(* The inductive invariant.  A thread that has state_mutex_ selected, or    *)
(* replaced, what the debug object has, or had.  While one is replacing,    *)
(* all that still write to the old stream use the old LockInterface; when   *)
(* nobody is, they use the present one.                                     *)
(***************************************************************************)
CallsOK ==
  \A t \in Threads :
    /\ Uses(t) => call[t].adapter \in allocated
    /\ Uses(t) \/ call[t].at = "prompt" => call[t].dobj \in Objects /\ call[t].os \in Streams
    /\ call[t].at \in {"selected", "writing", "prompt"} /\ call[t].os = cerr => call[t].dobj \in UsesCerr

ObjectsOK ==
  /\ \A a \in allocated : wraps[a] \in Mutexes
  /\ \A o \in Objects : /\ real_os_[o] # cerr /\ real_os_[o] \notin destroyed
                        /\ wraps[mutex_[o]] = LockOf[real_os_[o]]
  /\ \A o, p \in Objects : mutex_[o] = mutex_[p] => o = p
  /\ cerr \notin destroyed

\* A LockInterface is used for one debug object, and by nobody else when it is deleted.
AdaptersOK ==
  /\ \A t, u \in Threads : Uses(t) /\ Uses(u) /\ call[t].adapter = call[u].adapter => call[t].dobj = call[u].dobj
  /\ \A t \in Threads, o \in Objects : Uses(t) /\ call[t].adapter = mutex_[o] => call[t].dobj = o
  /\ \A t \in Threads : call[t].at = "deleting" =>
       /\ \A o \in Objects : mutex_[o] # call[t].adapter
       /\ \A u \in Threads : u # t /\ Uses(u) => call[u].adapter # call[t].adapter

Holders ==
  \A t \in Threads : call[t].at \in {"selected", "draining"} => state_mutex_[call[t].dobj] = t

SelectedOK ==
  \A t \in Threads : call[t].at = "selected" =>
    /\ call[t].adapter = mutex_[call[t].dobj]
    /\ call[t].os = cerr \/ call[t].os = real_os_[call[t].dobj]

DrainedBy(t, u) == call[u].at = "draining" /\ call[u].dobj = call[t].dobj

WritingOK ==
  \A t \in Threads : call[t].at = "writing" =>
    /\ owner[wraps[call[t].adapter]] = t
    /\ call[t].os # cerr => wraps[call[t].adapter] = LockOf[call[t].os]
    /\ \A u \in Threads : DrainedBy(t, u) =>
         /\ call[t].adapter = call[u].adapter
         /\ call[t].os = cerr \/ call[t].os = call[u].os
    /\ (\A u \in Threads : ~ DrainedBy(t, u)) =>
         /\ call[t].adapter = mutex_[call[t].dobj]
         /\ call[t].os = cerr \/ call[t].os = real_os_[call[t].dobj]

AppsOK ==
  \A t \in Threads : call[t].at = "app" =>
    call[t].os \in AppWrites \ destroyed /\ owner[LockOf[call[t].os]] = t

IInv == TypeOK /\ CallsOK /\ ObjectsOK /\ AdaptersOK /\ Holders /\ SelectedOK /\ WritingOK /\ AppsOK

USE DEF Active, Uses, DrainedBy
-----------------------------------------------------------------------------
LEMMA InitInv == Init => IInv
<1> SUFFICES ASSUME Init PROVE IInv
  OBVIOUS
<1>1. \A t \in Threads : call[t] = Idle
  BY DEF Init
<1>2. Idle.at = "idle"
  BY DEF Idle, Call
<1>3. TypeOK
  <2>1. mutex_ \in [Objects -> allocated] /\ allocated \subseteq Adapters
    BY FirstAssumption DEF Init
  <2>2. Idle \in [at : Places, dobj : Objects \cup {NULL}, os : Streams \cup {NULL},
                  adapter : Adapters \cup {NULL}, kind : Kinds]
    BY DEF Idle, Call, Places, Kinds
  <2>3. real_os_ \in [Objects -> Streams] /\ MaxOps \in 0 .. MaxOps
    BY BoundAssumption DEF Init
  <2> QED
    BY <2>1, <2>2, <2>3 DEF Init, TypeOK
<1>4. ObjectsOK
  BY LockAssumption, FirstAssumption, UseAssumption DEF Init, ObjectsOK
<1> QED
  BY <1>1, <1>2, <1>3, <1>4
  DEF IInv, CallsOK, AdaptersOK, Holders, SelectedOK, WritingOK, AppsOK

LEMMA SelectInv ==
  ASSUME IInv, NEW t \in Threads, NEW o \in Objects, NEW on_cerr \in BOOLEAN, NEW k \in Kinds,
         call[t].at \in {"idle", "prompt"}, left' \in [Threads -> 0 .. MaxOps],
         on_cerr => o \in UsesCerr, Select(t, o, on_cerr, k)
  PROVE  IInv'
<1> DEFINE new == Call("selected", o, IF on_cerr THEN cerr ELSE real_os_[o], mutex_[o], k)
<1>1. /\ call' = [call EXCEPT ![t] = new]
      /\ state_mutex_[o] = NULL
      /\ state_mutex_' = [state_mutex_ EXCEPT ![o] = t]
      /\ UNCHANGED <<mutex_, real_os_, lockvars, owner, destroyed, fatalvars>>
  BY DEF Select, Enter, KeptBy
<1>2. TypeOK /\ CallsOK /\ ObjectsOK /\ AdaptersOK /\ Holders /\ SelectedOK /\ WritingOK /\ AppsOK
  BY DEF IInv
<1>3. /\ new.at = "selected" /\ new.dobj = o /\ new.adapter = mutex_[o]
      /\ new.os = IF on_cerr THEN cerr ELSE real_os_[o]
      /\ new \in [at : Places, dobj : Objects \cup {NULL}, os : Streams \cup {NULL},
                  adapter : Adapters \cup {NULL}, kind : Kinds]
  BY <1>2, UseAssumption DEF Call, TypeOK, Places
<1> HIDE DEF new
<1>4. call'[t] = new /\ \A u \in Threads : u # t => call'[u] = call[u]
  BY <1>1, <1>2 DEF TypeOK
<1>5. TypeOK'
  BY <1>1, <1>2, <1>3 DEF TypeOK, lockvars, fatalvars
<1>6. CallsOK'
  BY <1>1, <1>2, <1>3, <1>4, UseAssumption DEF CallsOK, TypeOK, ObjectsOK, lockvars
<1>7. ObjectsOK'
  BY <1>1, <1>2 DEF ObjectsOK, lockvars
<1>8. AdaptersOK'
  BY <1>1, <1>2, <1>3, <1>4 DEF AdaptersOK, lockvars, ObjectsOK
<1>9. Holders'
  BY <1>1, <1>2, <1>3, <1>4, NullAssumption DEF Holders, TypeOK, CallsOK
<1>10. SelectedOK'
  BY <1>1, <1>2, <1>3, <1>4 DEF SelectedOK, lockvars
<1>11. WritingOK'
  BY <1>1, <1>2, <1>3, <1>4 DEF WritingOK, lockvars
<1>12. AppsOK'
  BY <1>1, <1>2, <1>3, <1>4 DEF AppsOK
<1> QED
  BY <1>5, <1>6, <1>7, <1>8, <1>9, <1>10, <1>11, <1>12 DEF IInv
LEMMA WriteInv ==
  ASSUME IInv, NEW t \in Threads, NEW o \in Objects, NEW on_cerr \in BOOLEAN, NEW k \in Kinds,
         Write(t, o, on_cerr, k)
  PROVE  IInv'
<1>1. left' \in [Threads -> 0 .. MaxOps]
  BY BoundAssumption DEF Write, Begins, IInv, TypeOK
<1> QED
  BY <1>1, SelectInv DEF Write, Begins, At

LEMMA PromptInv ==
  ASSUME IInv, NEW t \in Threads, Prompt(t)
  PROVE  IInv'
<1>1. /\ call[t].dobj \in Objects
      /\ call[t].os = cerr => call[t].dobj \in UsesCerr
      /\ left' \in [Threads -> 0 .. MaxOps]
  BY DEF Prompt, At, IInv, CallsOK, TypeOK
<1>2. "plain" \in Kinds /\ (call[t].os = cerr) \in BOOLEAN
  BY DEF Kinds
<1> QED
  BY <1>1, <1>2, SelectInv DEF Prompt, At

LEMMA LockStreamInv ==
  ASSUME IInv, NEW t \in Threads, LockStream(t)
  PROVE  IInv'
<1>1. /\ call[t].at = "selected"
      /\ owner[wraps[call[t].adapter]] = NULL
      /\ owner' = [owner EXCEPT ![wraps[call[t].adapter]] = t]
      /\ state_mutex_' = [state_mutex_ EXCEPT ![call[t].dobj] = NULL]
      /\ call' = [call EXCEPT ![t] = [@ EXCEPT !.at = "writing"]]
      /\ UNCHANGED <<mutex_, real_os_, lockvars, left, destroyed, fatalvars>>
  BY DEF LockStream, At, Locks, ReleaseState, Goto
<1>2. TypeOK /\ CallsOK /\ ObjectsOK /\ AdaptersOK /\ Holders /\ SelectedOK /\ WritingOK /\ AppsOK
  BY DEF IInv
<1>3. /\ call'[t] = [call[t] EXCEPT !.at = "writing"]
      /\ call'[t] \in [at : Places, dobj : Objects \cup {NULL}, os : Streams \cup {NULL},
                  adapter : Adapters \cup {NULL}, kind : Kinds]
      /\ wraps[call[t].adapter] \in Mutexes
  BY <1>1, <1>2 DEF TypeOK, CallsOK, ObjectsOK, Places
<1>4. \A u \in Threads : u # t => call'[u] = call[u]
  BY <1>1, <1>2, <1>3 DEF TypeOK
<1>5. TypeOK'
  BY <1>1, <1>2, <1>3 DEF TypeOK, lockvars, fatalvars, objvars
<1>6. CallsOK'
  BY <1>1, <1>2, <1>3, <1>4 DEF CallsOK, lockvars, fatalvars, objvars, TypeOK
<1>7. ObjectsOK'
  BY <1>1, <1>2, <1>3, <1>4 DEF ObjectsOK, lockvars, fatalvars, objvars, TypeOK
<1>8. AdaptersOK'
  BY <1>1, <1>2, <1>3, <1>4 DEF AdaptersOK, lockvars, fatalvars, objvars, TypeOK
<1>9. Holders'
  BY <1>1, <1>2, <1>3, <1>4, NullAssumption DEF Holders, CallsOK, lockvars, fatalvars, objvars, TypeOK
<1>10. SelectedOK'
  BY <1>1, <1>2, <1>3, <1>4 DEF SelectedOK, lockvars, fatalvars, objvars, TypeOK
<1>11. WritingOK'
  BY <1>1, <1>2, <1>3, <1>4, NullAssumption DEF WritingOK, CallsOK, ObjectsOK, SelectedOK, Holders, lockvars, fatalvars, objvars, TypeOK
<1>12. AppsOK'
  BY <1>1, <1>2, <1>3, <1>4, NullAssumption, LockAssumption, UseAssumption DEF AppsOK, lockvars, fatalvars, objvars, TypeOK
<1> QED
  BY <1>5, <1>6, <1>7, <1>8, <1>9, <1>10, <1>11, <1>12 DEF IInv

LEMMA UnlockInv ==
  ASSUME IInv, NEW t \in Threads, Unlock(t)
  PROVE  IInv'
<1>1. /\ call[t].at = "writing"
      /\ owner' = [owner EXCEPT ![wraps[call[t].adapter]] = NULL]
      /\ Goto(t, AfterWrite(call[t].kind))
      /\ UNCHANGED <<objvars, lockvars, left, destroyed, fatalvars>>
  BY DEF Unlock, At
<1>2. TypeOK /\ CallsOK /\ ObjectsOK /\ AdaptersOK /\ Holders /\ SelectedOK /\ WritingOK /\ AppsOK
  BY DEF IInv
<1>3. wraps[call[t].adapter] \in Mutexes /\ owner[wraps[call[t].adapter]] = t
  BY <1>1, <1>2 DEF TypeOK, CallsOK, ObjectsOK, WritingOK
<1>4. AfterWrite(call[t].kind) \in {"idle", "prompt", "fatal"}
  BY <1>2 DEF TypeOK, Kinds, AfterWrite
<1>5. Idle \in [at : Places, dobj : Objects \cup {NULL}, os : Streams \cup {NULL},
                adapter : Adapters \cup {NULL}, kind : Kinds] /\ Idle.at = "idle"
  BY DEF Idle, Call, Places, Kinds
<1>6. PICK new \in [at : Places, dobj : Objects \cup {NULL}, os : Streams \cup {NULL},
                    adapter : Adapters \cup {NULL}, kind : Kinds] :
        /\ call' = [call EXCEPT ![t] = new]
        /\ new.at \in {"idle", "prompt", "fatal"}
        /\ new.at = "prompt" => new.dobj = call[t].dobj /\ new.os = call[t].os
  <2>1. CASE AfterWrite(call[t].kind) = "idle"
    BY <1>1, <1>5, <2>1 DEF Goto
  <2>2. CASE AfterWrite(call[t].kind) # "idle"
    <3> DEFINE new == [call[t] EXCEPT !.at = AfterWrite(call[t].kind)]
    <3>1. /\ new \in [at : Places, dobj : Objects \cup {NULL}, os : Streams \cup {NULL},
                      adapter : Adapters \cup {NULL}, kind : Kinds]
          /\ new.at = AfterWrite(call[t].kind) /\ new.dobj = call[t].dobj /\ new.os = call[t].os
      BY <1>2, <1>4 DEF TypeOK, Places
    <3>2. call' = [call EXCEPT ![t] = new]
      BY <1>1, <2>2 DEF Goto
    <3> QED
      BY <1>4, <3>1, <3>2
  <2> QED
    BY <2>1, <2>2
<1>7. call'[t] = new /\ \A u \in Threads : u # t => call'[u] = call[u]
  BY <1>2, <1>6 DEF TypeOK
<1>8. TypeOK'
  BY <1>1, <1>2, <1>3, <1>6 DEF TypeOK, objvars, lockvars, fatalvars
<1>9. CallsOK'
  BY <1>1, <1>2, <1>6, <1>7 DEF CallsOK, objvars, lockvars
<1>10. ObjectsOK'
  BY <1>1, <1>2 DEF ObjectsOK, objvars, lockvars
<1>11. AdaptersOK'
  BY <1>1, <1>2, <1>6, <1>7 DEF AdaptersOK, objvars
<1>12. Holders' /\ SelectedOK'
  BY <1>1, <1>2, <1>6, <1>7 DEF Holders, SelectedOK, objvars
<1>13. WritingOK'
  <2>1. \A w \in Threads : call'[w].at = "writing" =>
           /\ w # t /\ call'[w] = call[w]
           /\ wraps[call[w].adapter] \in Mutexes
           /\ owner'[wraps[call[w].adapter]] = w
    BY <1>1, <1>2, <1>3, <1>6, <1>7 DEF WritingOK, TypeOK, CallsOK, ObjectsOK
  <2>2. \A w \in Threads, u \in Threads : w # t => (DrainedBy(w, u)' <=> DrainedBy(w, u))
    BY <1>1, <1>6, <1>7
  <2>3. \A u \in Threads : call'[u].at = "draining" => call'[u] = call[u]
    BY <1>6, <1>7
  <2> QED
    BY <1>1, <1>2, <2>1, <2>2, <2>3 DEF WritingOK, objvars, lockvars
<1>14. AppsOK'
  BY <1>1, <1>2, <1>3, <1>6, <1>7, LockAssumption, UseAssumption DEF AppsOK, TypeOK
<1> QED
  BY <1>8, <1>9, <1>10, <1>11, <1>12, <1>13, <1>14 DEF IInv

LEMMA SetOstreamInv ==
  ASSUME IInv, NEW t \in Threads, NEW o \in Objects, NEW s \in Streams, NEW a \in Adapters,
         SetOstream(t, o, s, a)
  PROVE  IInv'
<1> DEFINE new == Call("draining", o, real_os_[o], mutex_[o], "plain")
<1>1. /\ call[t].at = "idle" /\ left' = [left EXCEPT ![t] = @ - 1] /\ left[t] > 0
      /\ s # cerr /\ s \notin destroyed /\ a \notin allocated
      /\ state_mutex_[o] = NULL
      /\ state_mutex_' = [state_mutex_ EXCEPT ![o] = t]
      /\ allocated' = allocated \cup {a}
      /\ wraps' = [wraps EXCEPT ![a] = LockOf[s]]
      /\ mutex_' = [mutex_ EXCEPT ![o] = a]
      /\ real_os_' = [real_os_ EXCEPT ![o] = s]
      /\ call' = [call EXCEPT ![t] = new]
      /\ UNCHANGED <<owner, destroyed, fatalvars>>
  BY DEF SetOstream, Begins, At, Enter
<1>2. TypeOK /\ CallsOK /\ ObjectsOK /\ AdaptersOK /\ Holders /\ SelectedOK /\ WritingOK /\ AppsOK
  BY DEF IInv
<1>3. /\ new.at = "draining" /\ new.dobj = o /\ new.adapter = mutex_[o] /\ new.os = real_os_[o]
      /\ new \in [at : Places, dobj : Objects \cup {NULL}, os : Streams \cup {NULL},
                  adapter : Adapters \cup {NULL}, kind : Kinds]
  BY <1>2 DEF Call, TypeOK, Places, Kinds
<1> HIDE DEF new
<1>4. call'[t] = new /\ \A u \in Threads : u # t => call'[u] = call[u]
  BY <1>1, <1>2 DEF TypeOK
<1>5. LockOf[s] \in Mutexes
  BY LockAssumption
<1>6. TypeOK'
  <2>1. left' \in [Threads -> 0 .. MaxOps]
    BY <1>1, <1>2, BoundAssumption DEF TypeOK
  <2>2. mutex_' \in [Objects -> allocated']
    BY <1>1, <1>2 DEF TypeOK
  <2> QED
    BY <1>1, <1>2, <1>3, <1>5, <2>1, <2>2 DEF TypeOK, fatalvars
<1>7. CallsOK'
  BY <1>1, <1>2, <1>3, <1>4 DEF CallsOK, TypeOK
<1>8. ObjectsOK'
  BY <1>1, <1>2, <1>5 DEF ObjectsOK, TypeOK
<1>9. AdaptersOK'
  BY <1>1, <1>2, <1>3, <1>4 DEF AdaptersOK, ObjectsOK, CallsOK, TypeOK
<1>10. Holders'
  BY <1>1, <1>2, <1>3, <1>4, NullAssumption DEF Holders, CallsOK, TypeOK
<1>11. SelectedOK'
  BY <1>1, <1>2, <1>3, <1>4, NullAssumption DEF SelectedOK, Holders, CallsOK, TypeOK
<1>12. WritingOK'
  <2> SUFFICES ASSUME NEW w \in Threads, call'[w].at = "writing"
               PROVE  /\ owner'[wraps'[call'[w].adapter]] = w
                      /\ call'[w].os # cerr => wraps'[call'[w].adapter] = LockOf[call'[w].os]
                      /\ \A u \in Threads : DrainedBy(w, u)' =>
                           /\ call'[w].adapter = call'[u].adapter
                           /\ call'[w].os = cerr \/ call'[w].os = call'[u].os
                      /\ (\A u \in Threads : ~ DrainedBy(w, u)') =>
                           /\ call'[w].adapter = mutex_'[call'[w].dobj]
                           /\ call'[w].os = cerr \/ call'[w].os = real_os_'[call'[w].dobj]
    BY DEF WritingOK
  <2>1. w # t /\ call'[w] = call[w] /\ call[w].adapter \in Adapters /\ call[w].adapter # a
    BY <1>1, <1>2, <1>3, <1>4 DEF CallsOK, TypeOK
  <2>2. \A u \in Threads : DrainedBy(w, u) => call[w].dobj # o
    BY <1>1, <1>2, NullAssumption DEF Holders
  <2>3. wraps'[call[w].adapter] = wraps[call[w].adapter]
    BY <1>1, <1>2, <2>1 DEF TypeOK
  <2>4. CASE call[w].dobj = o
    <3>1. \A u \in Threads : ~ DrainedBy(w, u)
      BY <2>2, <2>4
    <3>2. call[w].adapter = mutex_[o] /\ (call[w].os = cerr \/ call[w].os = real_os_[o])
      BY <1>2, <2>1, <2>4, <3>1 DEF WritingOK
    <3>3. DrainedBy(w, t)' /\ \A u \in Threads : DrainedBy(w, u)' => u = t
      BY <1>3, <1>4, <2>1, <2>4, <3>1
    <3> QED
      BY <1>1, <1>2, <1>3, <1>4, <2>1, <2>3, <3>2, <3>3 DEF WritingOK
  <2>5. CASE call[w].dobj # o
    <3>1. \A u \in Threads : DrainedBy(w, u)' <=> DrainedBy(w, u)
      BY <1>1, <1>3, <1>4, <2>1, <2>5
    <3>2. call[w].dobj \in Objects
      BY <1>2, <2>1 DEF CallsOK
    <3>3. mutex_'[call[w].dobj] = mutex_[call[w].dobj] /\ real_os_'[call[w].dobj] = real_os_[call[w].dobj]
      BY <1>1, <1>2, <2>5, <3>2 DEF TypeOK
    <3> QED
      BY <1>1, <1>2, <1>4, <2>1, <2>3, <3>1, <3>3 DEF WritingOK
  <2> QED
    BY <2>4, <2>5
<1>13. AppsOK'
  BY <1>1, <1>2, <1>3, <1>4 DEF AppsOK
<1> QED
  BY <1>6, <1>7, <1>8, <1>9, <1>10, <1>11, <1>12, <1>13 DEF IInv

LEMMA SetOsInv ==
  ASSUME IInv, NEW t \in Threads, NEW o \in Objects, NEW s \in Streams, SetOs(t, o, s)
  PROVE  IInv'
<1> DEFINE new == Call("draining", o, real_os_[o], mutex_[o], "plain")
<1>1. /\ call[t].at = "idle" /\ left' = [left EXCEPT ![t] = @ - 1] /\ left[t] > 0
      /\ s # cerr /\ s \notin destroyed /\ wraps[mutex_[o]] = LockOf[s]
      /\ state_mutex_[o] = NULL
      /\ state_mutex_' = [state_mutex_ EXCEPT ![o] = t]
      /\ real_os_' = [real_os_ EXCEPT ![o] = s]
      /\ call' = [call EXCEPT ![t] = new]
      /\ UNCHANGED <<mutex_, lockvars, owner, destroyed, fatalvars>>
  BY DEF SetOs, Begins, At, Enter
<1>2. TypeOK /\ CallsOK /\ ObjectsOK /\ AdaptersOK /\ Holders /\ SelectedOK /\ WritingOK /\ AppsOK
  BY DEF IInv
<1>3. /\ new.at = "draining" /\ new.dobj = o /\ new.adapter = mutex_[o] /\ new.os = real_os_[o]
      /\ new \in [at : Places, dobj : Objects \cup {NULL}, os : Streams \cup {NULL},
                  adapter : Adapters \cup {NULL}, kind : Kinds]
  BY <1>2 DEF Call, TypeOK, Places, Kinds
<1> HIDE DEF new
<1>4. call'[t] = new /\ \A u \in Threads : u # t => call'[u] = call[u]
  BY <1>1, <1>2 DEF TypeOK
<1>5. TypeOK'
  <2>1. left' \in [Threads -> 0 .. MaxOps]
    BY <1>1, <1>2, BoundAssumption DEF TypeOK
  <2> QED
    BY <1>1, <1>2, <1>3, <2>1 DEF TypeOK, lockvars, fatalvars
<1>6. CallsOK'
  BY <1>1, <1>2, <1>3, <1>4 DEF CallsOK, TypeOK, lockvars
<1>7. ObjectsOK'
  BY <1>1, <1>2 DEF ObjectsOK, TypeOK, lockvars
<1>8. AdaptersOK'
  BY <1>1, <1>2, <1>3, <1>4 DEF AdaptersOK, ObjectsOK, CallsOK, TypeOK
<1>9. Holders'
  BY <1>1, <1>2, <1>3, <1>4, NullAssumption DEF Holders, CallsOK, TypeOK
<1>10. SelectedOK'
  BY <1>1, <1>2, <1>3, <1>4, NullAssumption DEF SelectedOK, Holders, CallsOK, TypeOK
<1>11. WritingOK'
  <2> SUFFICES ASSUME NEW w \in Threads, call'[w].at = "writing"
               PROVE  /\ owner'[wraps'[call'[w].adapter]] = w
                      /\ call'[w].os # cerr => wraps'[call'[w].adapter] = LockOf[call'[w].os]
                      /\ \A u \in Threads : DrainedBy(w, u)' =>
                           /\ call'[w].adapter = call'[u].adapter
                           /\ call'[w].os = cerr \/ call'[w].os = call'[u].os
                      /\ (\A u \in Threads : ~ DrainedBy(w, u)') =>
                           /\ call'[w].adapter = mutex_'[call'[w].dobj]
                           /\ call'[w].os = cerr \/ call'[w].os = real_os_'[call'[w].dobj]
    BY DEF WritingOK
  <2>1. w # t /\ call'[w] = call[w]
    BY <1>3, <1>4
  <2>2. \A u \in Threads : DrainedBy(w, u) => call[w].dobj # o
    BY <1>1, <1>2, NullAssumption DEF Holders
  <2>3. CASE call[w].dobj = o
    <3>1. \A u \in Threads : ~ DrainedBy(w, u)
      BY <2>2, <2>3
    <3>2. call[w].adapter = mutex_[o] /\ (call[w].os = cerr \/ call[w].os = real_os_[o])
      BY <1>2, <2>1, <2>3, <3>1 DEF WritingOK
    <3>3. DrainedBy(w, t)' /\ \A u \in Threads : DrainedBy(w, u)' => u = t
      BY <1>3, <1>4, <2>1, <2>3, <3>1
    <3> QED
      BY <1>1, <1>2, <1>3, <1>4, <2>1, <3>2, <3>3 DEF WritingOK, lockvars
  <2>4. CASE call[w].dobj # o
    <3>1. \A u \in Threads : DrainedBy(w, u)' <=> DrainedBy(w, u)
      BY <1>1, <1>3, <1>4, <2>1, <2>4
    <3>2. call[w].dobj \in Objects
      BY <1>2, <2>1 DEF CallsOK
    <3>3. real_os_'[call[w].dobj] = real_os_[call[w].dobj]
      BY <1>1, <1>2, <2>4, <3>2 DEF TypeOK
    <3> QED
      BY <1>1, <1>2, <1>4, <2>1, <3>1, <3>3 DEF WritingOK, lockvars
  <2> QED
    BY <2>3, <2>4
<1>12. AppsOK'
  BY <1>1, <1>2, <1>3, <1>4 DEF AppsOK
<1> QED
  BY <1>5, <1>6, <1>7, <1>8, <1>9, <1>10, <1>11, <1>12 DEF IInv

\* When the old lock is free nobody uses the debug object but the thread that replaces.
LEMMA DrainInv ==
  ASSUME IInv, NEW t \in Threads, Drain(t)
  PROVE  IInv'
<1> DEFINE o == call[t].dobj
<1>1. /\ call[t].at = "draining"
      /\ owner[wraps[call[t].adapter]] = NULL
      /\ state_mutex_' = [state_mutex_ EXCEPT ![o] = NULL]
      /\ Goto(t, IF Spared(t) THEN "idle" ELSE "deleting")
      /\ UNCHANGED <<mutex_, real_os_, lockvars, owner, left, destroyed, fatalvars>>
  BY DEF Drain, At, Drained, ReleaseState
<1>2. TypeOK /\ CallsOK /\ ObjectsOK /\ AdaptersOK /\ Holders /\ SelectedOK /\ WritingOK /\ AppsOK
  BY DEF IInv
<1>3. o \in Objects /\ state_mutex_[o] = t
  BY <1>1, <1>2 DEF CallsOK, Holders
<1>4. PICK new \in [at : Places, dobj : Objects \cup {NULL}, os : Streams \cup {NULL},
                    adapter : Adapters \cup {NULL}, kind : Kinds] :
        /\ call' = [call EXCEPT ![t] = new]
        /\ \/ new.at = "idle"
           \/ /\ new.at = "deleting" /\ ~ Spared(t)
              /\ new.dobj = o /\ new.os = call[t].os /\ new.adapter = call[t].adapter
  <2>1. CASE Spared(t)
    <3>1. Idle \in [at : Places, dobj : Objects \cup {NULL}, os : Streams \cup {NULL},
                    adapter : Adapters \cup {NULL}, kind : Kinds] /\ Idle.at = "idle"
      BY DEF Idle, Call, Places, Kinds
    <3> QED
      BY <1>1, <2>1, <3>1 DEF Goto
  <2>2. CASE ~ Spared(t)
    <3> DEFINE new == [call[t] EXCEPT !.at = "deleting"]
    <3>1. /\ new \in [at : Places, dobj : Objects \cup {NULL}, os : Streams \cup {NULL},
                      adapter : Adapters \cup {NULL}, kind : Kinds]
          /\ new.at = "deleting" /\ new.dobj = o /\ new.os = call[t].os
          /\ new.adapter = call[t].adapter
      BY <1>2 DEF TypeOK, Places
    <3>2. call' = [call EXCEPT ![t] = new]
      BY <1>1, <2>2 DEF Goto
    <3> QED
      BY <2>2, <3>1, <3>2
  <2> QED
    BY <2>1, <2>2
<1>5. call'[t] = new /\ \A u \in Threads : u # t => call'[u] = call[u]
  BY <1>2, <1>4 DEF TypeOK
<1>6. \A u \in Threads : u # t /\ call[u].at \in {"selected", "writing", "draining"} => call[u].dobj # o
  <2>1. \A u \in Threads : u # t /\ call[u].at \in {"selected", "draining"} => call[u].dobj # o
    BY <1>2, <1>3 DEF Holders
  <2>2. \A u \in Threads : call[u].at = "writing" => call[u].dobj # o
    BY <1>1, <1>2, NullAssumption DEF WritingOK
  <2> QED
    BY <2>1, <2>2
<1> HIDE DEF o
<1>7. TypeOK'
  BY <1>1, <1>2, <1>4 DEF TypeOK, lockvars, fatalvars
<1>8. CallsOK'
  BY <1>1, <1>2, <1>3, <1>4, <1>5 DEF CallsOK, lockvars
<1>9. ObjectsOK'
  BY <1>1, <1>2 DEF ObjectsOK, lockvars
<1>10. AdaptersOK'
  <2>1. new.at = "deleting" =>
          /\ \A p \in Objects : mutex_[p] # new.adapter
          /\ \A u \in Threads : u # t /\ Uses(u) => call[u].adapter # new.adapter
    <3> SUFFICES ASSUME new.at = "deleting"
                 PROVE  /\ \A p \in Objects : mutex_[p] # call[t].adapter
                        /\ \A u \in Threads : u # t /\ Uses(u) => call[u].adapter # call[t].adapter
      BY <1>4
    <3>1. mutex_[o] # call[t].adapter
      BY <1>4 DEF Spared, o
    <3>2. \A p \in Objects : mutex_[p] # call[t].adapter
      BY <1>1, <1>2, <3>1 DEF AdaptersOK, o
    <3>3. \A u \in Threads : u # t /\ Uses(u) => call[u].adapter # call[t].adapter
      BY <1>1, <1>2, <1>6 DEF AdaptersOK, o
    <3> QED
      BY <3>2, <3>3
  <2>2. \A u \in Threads : Uses(u)' => Uses(u) /\ call'[u].adapter = call[u].adapter /\ call'[u].dobj = call[u].dobj
    BY <1>1, <1>4, <1>5 DEF o
  <2>3. (/\ \A u, v \in Threads : Uses(u) /\ Uses(v) /\ call[u].adapter = call[v].adapter => call[u].dobj = call[v].dobj
         /\ \A u \in Threads, p \in Objects : Uses(u) /\ call[u].adapter = mutex_[p] => call[u].dobj = p)'
    BY <1>1, <1>2, <2>2 DEF AdaptersOK
  <2>4. \A u \in Threads : call'[u].at = "deleting" =>
          /\ \A p \in Objects : mutex_'[p] # call'[u].adapter
          /\ \A v \in Threads : v # u /\ Uses(v)' => call'[v].adapter # call'[u].adapter
    <3> SUFFICES ASSUME NEW u \in Threads, call'[u].at = "deleting"
                 PROVE  /\ \A p \in Objects : mutex_'[p] # call'[u].adapter
                        /\ \A v \in Threads : v # u /\ Uses(v)' => call'[v].adapter # call'[u].adapter
      OBVIOUS
    <3>1. CASE u = t
      BY <1>1, <1>5, <2>1, <3>1
    <3>2. CASE u # t
      BY <1>1, <1>2, <1>5, <2>2, <3>2 DEF AdaptersOK
    <3> QED
      BY <3>1, <3>2
  <2> QED
    BY <2>3, <2>4 DEF AdaptersOK
<1>11. Holders' /\ SelectedOK'
  BY <1>1, <1>2, <1>4, <1>5, <1>6 DEF Holders, SelectedOK, CallsOK, TypeOK
<1>12. WritingOK'
  <2>1. \A w \in Threads : call'[w].at = "writing" => w # t /\ call'[w] = call[w] /\ call[w].dobj # o
    BY <1>4, <1>5, <1>6
  <2>2. \A w \in Threads, u \in Threads : call'[w].at = "writing" => (DrainedBy(w, u)' <=> DrainedBy(w, u))
    BY <1>4, <1>5, <2>1 DEF o
  <2>3. \A u \in Threads : call'[u].at = "draining" => call'[u] = call[u]
    BY <1>4, <1>5
  <2> QED
    BY <1>1, <1>2, <2>1, <2>2, <2>3 DEF WritingOK, lockvars
<1>13. AppsOK'
  BY <1>1, <1>2, <1>4, <1>5 DEF AppsOK
<1> QED
  BY <1>7, <1>8, <1>9, <1>10, <1>11, <1>12, <1>13 DEF IInv

LEMMA DeleteInv ==
  ASSUME IInv, NEW t \in Threads, Delete(t)
  PROVE  IInv'
<1> DEFINE a == call[t].adapter
<1>1. /\ call[t].at = "deleting"
      /\ allocated' = allocated \ {a}
      /\ wraps' = [wraps EXCEPT ![a] = NULL]
      /\ call' = [call EXCEPT ![t] = Idle]
      /\ UNCHANGED <<objvars, owner, left, destroyed, fatalvars>>
  BY DEF Delete, At, Goto
<1>2. TypeOK /\ CallsOK /\ ObjectsOK /\ AdaptersOK /\ Holders /\ SelectedOK /\ WritingOK /\ AppsOK
  BY DEF IInv
<1>3. Idle.at = "idle" /\ Idle \in [at : Places, dobj : Objects \cup {NULL}, os : Streams \cup {NULL},
                                    adapter : Adapters \cup {NULL}, kind : Kinds]
  BY DEF Idle, Call, Places, Kinds
<1>4. call'[t] = Idle /\ \A u \in Threads : u # t => call'[u] = call[u]
  BY <1>1, <1>2 DEF TypeOK
<1>5. /\ \A o \in Objects : mutex_[o] # a
      /\ \A u \in Threads : u # t /\ Uses(u) => call[u].adapter # a
  BY <1>1, <1>2 DEF AdaptersOK
<1> HIDE DEF a
<1>6. \A b \in Adapters : b # a => wraps'[b] = wraps[b]
  BY <1>1, <1>2 DEF TypeOK
<1>7. TypeOK'
  <2>1. mutex_ \in [Objects -> allocated \ {a}]
    BY <1>2, <1>5 DEF TypeOK
  <2> QED
    BY <1>1, <1>2, <1>3, <2>1 DEF TypeOK, objvars, fatalvars
<1>8. CallsOK'
  BY <1>1, <1>2, <1>3, <1>4, <1>5 DEF CallsOK
<1>9. ObjectsOK'
  BY <1>1, <1>2, <1>5, <1>6 DEF ObjectsOK, TypeOK, objvars
<1>10. AdaptersOK'
  BY <1>1, <1>2, <1>3, <1>4 DEF AdaptersOK, objvars
<1>11. Holders' /\ SelectedOK'
  BY <1>1, <1>2, <1>3, <1>4 DEF Holders, SelectedOK, objvars
<1>12. WritingOK'
  <2>1. \A w \in Threads : call'[w].at = "writing" =>
           w # t /\ call'[w] = call[w] /\ wraps'[call[w].adapter] = wraps[call[w].adapter]
    BY <1>2, <1>3, <1>4, <1>5, <1>6 DEF CallsOK, TypeOK
  <2>2. \A w \in Threads, u \in Threads : w # t => (DrainedBy(w, u)' <=> DrainedBy(w, u))
    BY <1>1, <1>3, <1>4
  <2>3. \A u \in Threads : call'[u].at = "draining" => call'[u] = call[u]
    BY <1>3, <1>4
  <2> QED
    BY <1>1, <1>2, <2>1, <2>2, <2>3 DEF WritingOK, objvars
<1>13. AppsOK'
  BY <1>1, <1>2, <1>3, <1>4 DEF AppsOK
<1> QED
  BY <1>7, <1>8, <1>9, <1>10, <1>11, <1>12, <1>13 DEF IInv

\* A step of a thread that neither is nor gets inside an operation of a debug object.
LEMMA OutsideInv ==
  ASSUME IInv, NEW t \in Threads, ~ Uses(t), TypeOK',
         NEW new, call' = [call EXCEPT ![t] = new],
         new.at \in Places \ (Active \cup {"prompt"}),
         UNCHANGED <<objvars, lockvars, destroyed>>,
         \A w \in Threads : w # t /\ call[w].at = "writing"
                             => owner'[wraps[call[w].adapter]] = w,
         AppsOK'
  PROVE  IInv'
<1>1. TypeOK /\ CallsOK /\ ObjectsOK /\ AdaptersOK /\ Holders /\ SelectedOK /\ WritingOK /\ AppsOK
  BY DEF IInv
<1>2. call'[t] = new /\ \A u \in Threads : u # t => call'[u] = call[u]
  BY <1>1 DEF TypeOK
<1>3. new.at \notin Active \cup {"prompt"} /\ call[t].at \notin Active
  OBVIOUS
<1>4. CallsOK'
  BY <1>1, <1>2, <1>3 DEF CallsOK, lockvars
<1>5. ObjectsOK'
  BY <1>1 DEF ObjectsOK, objvars, lockvars
<1>6. AdaptersOK'
  BY <1>1, <1>2, <1>3 DEF AdaptersOK, objvars
<1>7. Holders' /\ SelectedOK'
  BY <1>1, <1>2, <1>3 DEF Holders, SelectedOK, objvars
<1>8. WritingOK'
  <2>1. \A w \in Threads : call'[w].at = "writing" =>
           w # t /\ call'[w] = call[w] /\ owner'[wraps[call[w].adapter]] = w
    BY <1>2, <1>3
  <2>2. \A w \in Threads, u \in Threads : w # t => (DrainedBy(w, u)' <=> DrainedBy(w, u))
    BY <1>2, <1>3
  <2>3. \A u \in Threads : call'[u].at = "draining" => call'[u] = call[u]
    BY <1>2, <1>3
  <2> QED
    BY <1>1, <2>1, <2>2, <2>3 DEF WritingOK, objvars, lockvars
<1> QED
  BY <1>4, <1>5, <1>6, <1>7, <1>8 DEF IInv

LEMMA AppWriteInv ==
  ASSUME IInv, NEW t \in Threads, NEW s \in Streams, AppWrite(t, s)
  PROVE  IInv'
<1> DEFINE new == Call("app", NULL, s, NULL, "plain")
<1>1. /\ call[t].at = "idle" /\ left' = [left EXCEPT ![t] = @ - 1] /\ left[t] > 0
      /\ s \in AppWrites \ destroyed /\ owner[LockOf[s]] = NULL
      /\ owner' = [owner EXCEPT ![LockOf[s]] = t]
      /\ call' = [call EXCEPT ![t] = new]
      /\ UNCHANGED <<objvars, lockvars, destroyed, fatalvars>>
  BY DEF AppWrite, Begins, At, Enter
<1>2. TypeOK /\ CallsOK /\ ObjectsOK /\ WritingOK /\ AppsOK
  BY DEF IInv
<1>3. /\ new.at = "app" /\ new.os = s
      /\ new \in [at : Places, dobj : Objects \cup {NULL}, os : Streams \cup {NULL},
                  adapter : Adapters \cup {NULL}, kind : Kinds]
  BY DEF Call, Places, Kinds
<1> HIDE DEF new
<1>4. TypeOK'
  <2>1. left' \in [Threads -> 0 .. MaxOps]
    BY <1>1, <1>2, BoundAssumption DEF TypeOK
  <2> QED
    BY <1>1, <1>2, <1>3, <2>1 DEF TypeOK, objvars, lockvars, fatalvars
<1>5. \A w \in Threads : w # t /\ call[w].at = "writing" => owner'[wraps[call[w].adapter]] = w
  <2>1. \A w \in Threads : call[w].at = "writing" =>
          wraps[call[w].adapter] \in Mutexes /\ owner[wraps[call[w].adapter]] = w
    BY <1>2 DEF CallsOK, ObjectsOK, WritingOK
  <2> QED
    BY <1>1, <1>2, <2>1, NullAssumption DEF TypeOK
<1>6. AppsOK'
  BY <1>1, <1>2, <1>3, LockAssumption, UseAssumption, NullAssumption DEF AppsOK, TypeOK
<1> QED
  BY <1>1, <1>3, <1>4, <1>5, <1>6, OutsideInv DEF Places

LEMMA AppUnlockInv ==
  ASSUME IInv, NEW t \in Threads, AppUnlock(t)
  PROVE  IInv'
<1>1. /\ call[t].at = "app"
      /\ owner' = [owner EXCEPT ![LockOf[call[t].os]] = NULL]
      /\ call' = [call EXCEPT ![t] = Idle]
      /\ UNCHANGED <<objvars, lockvars, left, destroyed, fatalvars>>
  BY DEF AppUnlock, At, Goto
<1>2. TypeOK /\ CallsOK /\ ObjectsOK /\ WritingOK /\ AppsOK
  BY DEF IInv
<1>3. Idle.at = "idle" /\ Idle \in [at : Places, dobj : Objects \cup {NULL}, os : Streams \cup {NULL},
                                    adapter : Adapters \cup {NULL}, kind : Kinds]
  BY DEF Idle, Call, Places, Kinds
<1>4. owner[LockOf[call[t].os]] = t /\ LockOf[call[t].os] \in Mutexes
  BY <1>1, <1>2, UseAssumption, LockAssumption DEF AppsOK
<1>5. TypeOK'
  BY <1>1, <1>2, <1>3 DEF TypeOK, objvars, lockvars, fatalvars
<1>6. \A w \in Threads : w # t /\ call[w].at = "writing" => owner'[wraps[call[w].adapter]] = w
  <2>1. \A w \in Threads : call[w].at = "writing" =>
          wraps[call[w].adapter] \in Mutexes /\ owner[wraps[call[w].adapter]] = w
    BY <1>2 DEF CallsOK, ObjectsOK, WritingOK
  <2> QED
    BY <1>1, <1>2, <1>4, <2>1 DEF TypeOK
<1>7. AppsOK'
  <2>1. \A u \in Threads : call'[u].at = "app" => u # t /\ call'[u] = call[u]
    BY <1>1, <1>2, <1>3 DEF TypeOK
  <2> QED
    BY <1>1, <1>2, <1>4, <2>1, UseAssumption, LockAssumption DEF AppsOK, TypeOK
<1> QED
  BY <1>1, <1>3, <1>5, <1>6, <1>7, OutsideInv DEF Places

LEMMA DestroyInv ==
  ASSUME IInv, NEW s \in Streams, Destroy(s)
  PROVE  IInv'
<1>1. /\ s # cerr
      /\ \A o \in Objects : real_os_[o] # s
      /\ \A t \in Threads : ~ (call[t].at = "app" /\ call[t].os = s)
      /\ destroyed' = destroyed \cup {s}
      /\ UNCHANGED <<objvars, lockvars, owner, call, left, fatalvars>>
  BY DEF Destroy
<1>2. TypeOK /\ CallsOK /\ ObjectsOK /\ AdaptersOK /\ Holders /\ SelectedOK /\ WritingOK /\ AppsOK
  BY DEF IInv
<1>3. TypeOK'
  BY <1>1, <1>2 DEF TypeOK, objvars, lockvars, fatalvars
<1>4. CallsOK' /\ AdaptersOK' /\ Holders' /\ SelectedOK' /\ WritingOK'
  BY <1>1, <1>2 DEF CallsOK, AdaptersOK, Holders, SelectedOK, WritingOK, objvars, lockvars
<1>5. ObjectsOK' /\ AppsOK'
  BY <1>1, <1>2 DEF ObjectsOK, AppsOK, objvars, lockvars
<1> QED
  BY <1>3, <1>4, <1>5 DEF IInv

LEMMA ClaimInv ==
  ASSUME IInv, NEW t \in Threads, Claim(t)
  PROVE  IInv'
<1> DEFINE new == [call[t] EXCEPT !.at = IF Claims THEN "terminating" ELSE "asleep"]
<1>1. /\ call[t].at = "fatal"
      /\ fatal_termination_started' = TRUE
      /\ call' = [call EXCEPT ![t] = new]
      /\ UNCHANGED <<objvars, lockvars, owner, left, destroyed, ended>>
  BY DEF Claim, At, Goto
<1>2. TypeOK /\ WritingOK /\ AppsOK
  BY DEF IInv
<1>3. /\ new.at \in {"terminating", "asleep"}
      /\ new \in [at : Places, dobj : Objects \cup {NULL}, os : Streams \cup {NULL},
                  adapter : Adapters \cup {NULL}, kind : Kinds]
  BY <1>2 DEF TypeOK, Places
<1> HIDE DEF new
<1>4. TypeOK'
  BY <1>1, <1>2, <1>3 DEF TypeOK, objvars, lockvars
<1>5. AppsOK'
  BY <1>1, <1>2, <1>3 DEF AppsOK, TypeOK
<1> QED
  BY <1>1, <1>2, <1>3, <1>4, <1>5, OutsideInv DEF Places, WritingOK

LEMMA SameCallsInv ==
  ASSUME IInv, UNCHANGED <<objvars, lockvars, owner, call, left, destroyed, fatal_termination_started>>,
         ended' \in BOOLEAN
  PROVE  IInv'
BY DEF IInv, TypeOK, CallsOK, ObjectsOK, AdaptersOK, Holders, SelectedOK, WritingOK, AppsOK, objvars, lockvars

LEMMA NextInv ==
  ASSUME IInv, [Next]_vars
  PROVE  IInv'
<1>1. ASSUME NEW t \in Threads, Start(t) PROVE IInv'
  BY <1>1, WriteInv, SetOstreamInv, SetOsInv, AppWriteInv DEF Start
<1>2. ASSUME NEW t \in Threads, Continue(t) PROVE IInv'
  <2>1. CASE Terminate(t)
    BY <2>1, SameCallsInv DEF Terminate
  <2> QED
    BY <1>2, <2>1, PromptInv, LockStreamInv, UnlockInv, DrainInv, DeleteInv, AppUnlockInv, ClaimInv DEF Continue
<1>3. CASE UNCHANGED vars
  BY <1>3, SameCallsInv DEF vars, fatalvars, IInv, TypeOK
<1> QED
  BY <1>1, <1>2, <1>3, DestroyInv DEF Next, Done

\* The invariant of the proofs, for any number of threads, objects and streams.
THEOREM Inductive == Spec => []IInv
<1>1. IInv /\ [Next]_vars => IInv'
  BY NextInv
<1> QED
  BY InitInv, <1>1, PTL DEF Spec

(***************************************************************************)
(* The types, among them that the LockInterface of a debug object is one   *)
(* that exists.                                                            *)
(***************************************************************************)
THEOREM TypeCorrect == Spec => []TypeOK
<1>1. IInv => TypeOK
  BY DEF IInv
<1> QED
  BY Inductive, <1>1, PTL

(***************************************************************************)
(* No thread calls a LockInterface that set_ostream() of another thread    *)
(* deleted.                                                                *)
(***************************************************************************)
THEOREM NothingIsUsedAfterDelete == Spec => []NoUseAfterDelete
<1>1. IInv => NoUseAfterDelete
  BY DEF IInv, CallsOK, NoUseAfterDelete
<1> QED
  BY Inductive, <1>1, PTL

\* A thread that writes owns the mutex of the application that its LockInterface refers to.
THEOREM WritersOwn == Spec => []WritersOwnTheLock
<1>1. IInv => WritersOwnTheLock
  BY DEF IInv, WritingOK, WritersOwnTheLock
<1> QED
  BY Inductive, <1>1, PTL
-----------------------------------------------------------------------------
(***************************************************************************)
(* The refinement.  Output with cerr_cf is protected by the lock of the    *)
(* debug object: it is exclusive when one debug object at most has it, and *)
(* the application leaves cerr alone.                                      *)
(***************************************************************************)
CerrIsOfOneObject == cerr \notin AppWrites /\ \A o, p \in UsesCerr : o = p

WritersOf(s) == {t \in Threads : call[t].at \in {"writing", "app"} /\ call[t].os = s}

OneWriter == \A s \in Streams : \A t, u \in WritersOf(s) : t = u

LEMMA WritersAreAlone == IInv /\ CerrIsOfOneObject => OneWriter
<1> SUFFICES ASSUME IInv, CerrIsOfOneObject,
                    NEW s \in Streams, NEW t \in WritersOf(s), NEW u \in WritersOf(s)
             PROVE  t = u
  BY DEF OneWriter
<1>1. CallsOK /\ WritingOK /\ AppsOK
  BY DEF IInv
<1>2. t \in Threads /\ u \in Threads
  BY DEF WritersOf
<1>3. CASE s # cerr
  <2>1. \A w \in WritersOf(s) : owner[LockOf[s]] = w
    BY <1>1, <1>3 DEF WritersOf, WritingOK, AppsOK
  <2> QED
    BY <2>1
<1>4. CASE s = cerr
  <2>1. call[t].at = "writing" /\ call[u].at = "writing"
    BY <1>1, <1>4 DEF WritersOf, AppsOK, CerrIsOfOneObject
  <2>2. call[t].dobj = call[u].dobj
    BY <1>1, <1>2, <1>4, <2>1 DEF CallsOK, WritersOf, CerrIsOfOneObject
  <2>3. call[t].adapter = call[u].adapter
    <3>1. CASE \E x \in Threads : DrainedBy(t, x)
      BY <1>1, <1>2, <2>1, <2>2, <3>1 DEF WritingOK
    <3>2. CASE \A x \in Threads : ~ DrainedBy(t, x)
      <4>1. \A x \in Threads : ~ DrainedBy(u, x)
        BY <2>2, <3>2
      <4>2. call[t].adapter = mutex_[call[t].dobj]
        BY <1>1, <1>2, <2>1, <3>2 DEF WritingOK
      <4>3. call[u].adapter = mutex_[call[u].dobj]
        BY <1>1, <1>2, <2>1, <4>1 DEF WritingOK
      <4> QED
        BY <2>2, <4>2, <4>3
    <3> QED
      BY <3>1, <3>2
  <2> QED
    BY <1>1, <1>2, <2>1, <2>3 DEF WritingOK
<1> QED
  BY <1>3, <1>4

\* A thread that does not write, and does not start to.
LEMMA Stutters ==
  ASSUME IInv, NEW t \in Threads, NEW new, call' = [call EXCEPT ![t] = new],
         call[t].at \notin {"writing", "app"}, new.at \notin {"writing", "app"},
         destroyed' = destroyed
  PROVE  UNCHANGED Exclusive!vars
<1>1. \A u \in Threads : u # t => call'[u] = call[u]
  BY DEF IInv, TypeOK
<1>2. call'[t] = new
  BY DEF IInv, TypeOK
<1>3. \A s \in Streams : WritersOf(s)' = WritersOf(s)
  BY <1>1, <1>2 DEF WritersOf
<1> QED
  BY <1>3 DEF Exclusive!vars, WritersOf

\* A thread that starts to write to a stream that exists is alone.
LEMMA StepBegins ==
  ASSUME IInv, IInv', CerrIsOfOneObject, NEW t \in Threads, NEW new, NEW s \in Streams \ destroyed,
         call' = [call EXCEPT ![t] = new],
         call[t].at \notin {"writing", "app"}, new.at \in {"writing", "app"}, new.os = s,
         destroyed' = destroyed
  PROVE  Exclusive!Begin(t, s)
<1>1. call'[t] = new /\ \A u \in Threads : u # t => call'[u] = call[u]
  BY DEF IInv, TypeOK
<1>2. t \in WritersOf(s)' /\ t \notin WritersOf(s)
  BY <1>1 DEF WritersOf
<1>3. \A u \in WritersOf(s)' : u = t
  <2>1. (IInv /\ CerrIsOfOneObject => OneWriter)'
    BY WritersAreAlone, PTL
  <2>2. OneWriter'
    BY <2>1 DEF CerrIsOfOneObject
  <2> QED
    BY <1>2, <2>2 DEF OneWriter
<1>4. WritersOf(s)' = {t} /\ WritersOf(s) = {}
  BY <1>1, <1>2, <1>3 DEF WritersOf
<1>5. \A r \in Streams : r # s => WritersOf(r)' = WritersOf(r)
  BY <1>1 DEF WritersOf
<1>6. [r \in Streams |-> WritersOf(r)'] = [[r \in Streams |-> WritersOf(r)] EXCEPT ![s] = {t}]
  BY <1>4, <1>5
<1> QED
  BY <1>4, <1>6 DEF Exclusive!Begin, WritersOf

LEMMA StepEnds ==
  ASSUME IInv, CerrIsOfOneObject, NEW t \in Threads, NEW new, NEW s \in Streams,
         call' = [call EXCEPT ![t] = new],
         call[t].at \in {"writing", "app"}, call[t].os = s, new.at \notin {"writing", "app"},
         destroyed' = destroyed
  PROVE  Exclusive!End(t, s)
<1>1. call'[t] = new /\ \A u \in Threads : u # t => call'[u] = call[u]
  BY DEF IInv, TypeOK
<1>2. t \in WritersOf(s) /\ \A u \in WritersOf(s) : u = t
  BY WritersAreAlone DEF WritersOf, OneWriter
<1>3. WritersOf(s)' = {}
  BY <1>1, <1>2 DEF WritersOf
<1>4. \A r \in Streams : r # s => WritersOf(r)' = WritersOf(r)
  BY <1>1 DEF WritersOf
<1>5. [r \in Streams |-> WritersOf(r)'] = [[r \in Streams |-> WritersOf(r)] EXCEPT ![s] = {}]
  BY <1>3, <1>4
<1> QED
  BY <1>2, <1>5 DEF Exclusive!End, WritersOf

LEMMA DestroyDestroys ==
  ASSUME IInv, NEW s \in Streams, Destroy(s)
  PROVE  Exclusive!Destroy(s)
<1>1. /\ s # cerr
      /\ \A o \in Objects : real_os_[o] # s
      /\ ~ Replacing(s)
      /\ \A t \in Threads : ~ (call[t].at = "app" /\ call[t].os = s)
      /\ destroyed' = destroyed \cup {s} /\ call' = call
  BY DEF Destroy
<1>2. \A t \in Threads : call[t].at = "writing" => call[t].os # s
  <2> SUFFICES ASSUME NEW t \in Threads, call[t].at = "writing", call[t].os = s PROVE FALSE
    OBVIOUS
  <2>1. call[t].dobj \in Objects /\ WritingOK
    BY DEF IInv, CallsOK
  <2>2. CASE \E u \in Threads : DrainedBy(t, u)
    BY <1>1, <2>1, <2>2 DEF WritingOK, Replacing
  <2>3. CASE \A u \in Threads : ~ DrainedBy(t, u)
    BY <1>1, <2>1, <2>3 DEF WritingOK
  <2> QED
    BY <2>2, <2>3
<1>3. WritersOf(s) = {}
  BY <1>1, <1>2 DEF WritersOf
<1> QED
  BY <1>1, <1>3 DEF Exclusive!Destroy, WritersOf

\* Every step is a step of ExclusiveOutput, or changes nothing there.
LEMMA StepRefines ==
  ASSUME IInv, IInv', CerrIsOfOneObject, [Next]_vars
  PROVE  [Exclusive!Next]_(Exclusive!vars)
<1>1. TypeOK /\ CallsOK /\ ObjectsOK /\ SelectedOK /\ AppsOK
  BY DEF IInv
<1>2. Idle.at = "idle"
  BY DEF Idle, Call
<1>3. ASSUME NEW t \in Threads, NEW o \in Objects, NEW on_cerr \in BOOLEAN, NEW k \in Kinds,
             Write(t, o, on_cerr, k)
      PROVE  UNCHANGED Exclusive!vars
  <2> DEFINE new == Call("selected", o, IF on_cerr THEN cerr ELSE real_os_[o], mutex_[o], k)
  <2>1. call[t].at = "idle" /\ call' = [call EXCEPT ![t] = new] /\ destroyed' = destroyed /\ new.at = "selected"
    BY <1>3 DEF Write, Begins, At, Select, Enter, Call
  <2> HIDE DEF new
  <2> QED
    BY <2>1, Stutters
<1>4. ASSUME NEW t \in Threads, Prompt(t) PROVE UNCHANGED Exclusive!vars
  <2> DEFINE new == Call("selected", call[t].dobj, IF call[t].os = cerr THEN cerr ELSE real_os_[call[t].dobj],
                         mutex_[call[t].dobj], "plain")
  <2>1. call[t].at = "prompt" /\ call' = [call EXCEPT ![t] = new] /\ destroyed' = destroyed /\ new.at = "selected"
    BY <1>4 DEF Prompt, At, Select, Enter, Call
  <2> HIDE DEF new
  <2> QED
    BY <2>1, Stutters
<1>5. ASSUME NEW t \in Threads, NEW s \in Streams, s = call[t].os, LockStream(t) PROVE Exclusive!Begin(t, s)
  <2> DEFINE new == [call[t] EXCEPT !.at = "writing"]
  <2>1. call[t].at = "selected" /\ call' = [call EXCEPT ![t] = new] /\ destroyed' = destroyed
    BY <1>5 DEF LockStream, At, Goto
  <2>2. new.at = "writing" /\ new.os = s
    BY <1>1, <1>5 DEF TypeOK
  <2>3. s \in Streams \ destroyed
    BY <1>1, <1>5, <2>1 DEF CallsOK, SelectedOK, ObjectsOK
  <2> HIDE DEF new
  <2> QED
    BY <2>1, <2>2, <2>3, StepBegins
<1>6. ASSUME NEW t \in Threads, NEW s \in Streams, s = call[t].os, Unlock(t) PROVE Exclusive!End(t, s)
  <2> DEFINE where == AfterWrite(call[t].kind)
             new == IF where = "idle" THEN Idle ELSE [call[t] EXCEPT !.at = where]
  <2>1. call[t].at = "writing" /\ call' = [call EXCEPT ![t] = new] /\ destroyed' = destroyed
    BY <1>6 DEF Unlock, At, Goto
  <2>2. where \in {"idle", "prompt", "fatal"}
    BY <1>1 DEF TypeOK, Kinds, AfterWrite
  <2>3. new.at \notin {"writing", "app"}
    BY <1>1, <1>2, <2>2 DEF TypeOK
  <2> HIDE DEF new
  <2> QED
    BY <1>6, <2>1, <2>3, StepEnds
<1>7. ASSUME NEW t \in Threads, NEW o \in Objects, NEW s \in Streams, NEW a \in Adapters,
             SetOstream(t, o, s, a) \/ SetOs(t, o, s)
      PROVE  UNCHANGED Exclusive!vars
  <2> DEFINE new == Call("draining", o, real_os_[o], mutex_[o], "plain")
  <2>1. call[t].at = "idle" /\ call' = [call EXCEPT ![t] = new] /\ destroyed' = destroyed /\ new.at = "draining"
    BY <1>7 DEF SetOstream, SetOs, Begins, At, Enter, Call
  <2> HIDE DEF new
  <2> QED
    BY <2>1, Stutters
<1>8. ASSUME NEW t \in Threads, Drain(t) \/ Delete(t) \/ Claim(t) PROVE UNCHANGED Exclusive!vars
  <2>1. PICK where \in {"idle", "deleting", "terminating", "asleep"} : Goto(t, where)
    BY <1>8 DEF Drain, Delete, Claim
  <2> DEFINE new == IF where = "idle" THEN Idle ELSE [call[t] EXCEPT !.at = where]
  <2>2. call[t].at \in {"draining", "deleting", "fatal"} /\ destroyed' = destroyed
    BY <1>8 DEF Drain, Delete, Claim, At
  <2>3. call' = [call EXCEPT ![t] = new]
    BY <2>1 DEF Goto
  <2>4. new.at \notin {"writing", "app"}
    BY <1>1, <1>2 DEF TypeOK
  <2> HIDE DEF new
  <2> QED
    BY <2>2, <2>3, <2>4, Stutters
<1>9. ASSUME NEW t \in Threads, NEW s \in Streams, AppWrite(t, s) PROVE Exclusive!Begin(t, s)
  <2> DEFINE new == Call("app", NULL, s, NULL, "plain")
  <2>1. /\ call[t].at = "idle" /\ call' = [call EXCEPT ![t] = new] /\ destroyed' = destroyed
        /\ s \in Streams \ destroyed /\ new.at = "app" /\ new.os = s
    BY <1>9 DEF AppWrite, Begins, At, Enter, Call
  <2> HIDE DEF new
  <2> QED
    BY <2>1, StepBegins
<1>10. ASSUME NEW t \in Threads, NEW s \in Streams, s = call[t].os, AppUnlock(t) PROVE Exclusive!End(t, s)
  <2>1. call[t].at = "app" /\ call' = [call EXCEPT ![t] = Idle] /\ destroyed' = destroyed
    BY <1>10 DEF AppUnlock, At, Goto
  <2> QED
    BY <1>2, <1>10, <2>1, StepEnds
<1>11. ASSUME UNCHANGED <<call, destroyed>> PROVE UNCHANGED Exclusive!vars
  BY <1>11 DEF Exclusive!vars
<1>12. ASSUME NEW t \in Threads, Start(t) PROVE [Exclusive!Next]_(Exclusive!vars)
  <2>1. CASE \E o \in Objects, on_cerr \in BOOLEAN, k \in Kinds : Write(t, o, on_cerr, k)
    BY <1>3, <2>1
  <2>2. CASE \E o \in Objects, s \in Streams, a \in Adapters : SetOstream(t, o, s, a)
    BY <1>7, <2>2
  <2>3. CASE \E o \in Objects, s \in Streams : SetOs(t, o, s)
    <3>1. \E a \in Adapters : TRUE
      BY <2>3, FirstAssumption
    <3> QED
      BY <1>7, <2>3, <3>1
  <2>4. CASE \E s \in Streams : AppWrite(t, s)
    BY <1>9, <2>4 DEF Exclusive!Next
  <2> QED
    BY <1>12, <2>1, <2>2, <2>3, <2>4 DEF Start
<1>13. ASSUME NEW t \in Threads, Continue(t) PROVE [Exclusive!Next]_(Exclusive!vars)
  <2>1. CASE LockStream(t)
    <3>1. PICK s \in Streams : s = call[t].os
      BY <1>1, <2>1 DEF LockStream, At, CallsOK
    <3>2. Exclusive!Begin(t, s)
      BY <1>5, <2>1, <3>1
    <3> QED
      BY <3>2 DEF Exclusive!Next
  <2>2. CASE Unlock(t)
    <3>1. PICK s \in Streams : s = call[t].os
      BY <1>1, <2>2 DEF Unlock, At, CallsOK
    <3>2. Exclusive!End(t, s)
      BY <1>6, <2>2, <3>1
    <3> QED
      BY <3>2 DEF Exclusive!Next
  <2>3. CASE AppUnlock(t)
    <3>1. PICK s \in Streams : s = call[t].os
      BY <1>1, <2>3, UseAssumption DEF AppUnlock, At, AppsOK
    <3>2. Exclusive!End(t, s)
      BY <1>10, <2>3, <3>1
    <3> QED
      BY <3>2 DEF Exclusive!Next
  <2>4. CASE Prompt(t) \/ Drain(t) \/ Delete(t) \/ Claim(t)
    BY <1>4, <1>8, <2>4
  <2>5. CASE Terminate(t)
    BY <1>11, <2>5 DEF Terminate
  <2> QED
    BY <1>13, <2>1, <2>2, <2>3, <2>4, <2>5 DEF Continue
<1>14. ASSUME NEW s \in Streams, Destroy(s) PROVE Exclusive!Next
  BY <1>14, DestroyDestroys DEF Exclusive!Next
<1>15. CASE UNCHANGED vars
  BY <1>11, <1>15 DEF vars
<1> QED
  BY <1>12, <1>13, <1>14, <1>15 DEF Next, Done

(***************************************************************************)
(* The threads write to a stream one at a time, and never to one that the  *)
(* application destroyed: the locks implement ExclusiveOutput, whatever    *)
(* threads write, replace streams and destroy them.                        *)
(***************************************************************************)
THEOREM StreamsAreExclusive ==
  ASSUME CerrIsOfOneObject
  PROVE  Spec => ImplementsExclusiveOutput
<1>1. Init => Exclusive!Init
  BY DEF Init, Exclusive!Init, Idle, Call
<1>2. IInv /\ IInv' /\ [Next]_vars => [Exclusive!Next]_(Exclusive!vars)
  BY StepRefines
<1> QED
  BY Inductive, <1>1, <1>2, PTL DEF Spec, ImplementsExclusiveOutput, Exclusive!Spec
=============================================================================
