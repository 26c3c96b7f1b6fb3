-------------------------- MODULE RunCommandProofs --------------------------
(***************************************************************************)
(* What the registry and the watcher keep by themselves they also keep in  *)
(* the run command: every step of the command is a step of the registry or *)
(* leaves it alone, and likewise of the watcher.  The safety of the two    *)
(* components, proved in modules of their own, then holds of the whole,    *)
(* for any tests, adapters, command lines and numbers of edits.  With it   *)
(* follow the properties of the command itself: what it leaves on the      *)
(* failed list, when it closes its adapters, and which edits it has run.   *)
(***************************************************************************)
EXTENDS RunCommand, FiniteSets, FiniteSetTheorems, TLAPS

Shared == INSTANCE SharedProofs WITH Proc <- Goroutine, MaxTimers <- MaxChanges

\* Every step of the command, as the registry sees it.
LEMMA StepsOfRegistry == [Next]_vars => [Reg!RNext]_reg
<1> SUFFICES ASSUME [Next]_vars PROVE Reg!RNext \/ UNCHANGED reg
  BY DEF reg
<1>0. 0 \in Goroutine /\ Run \subseteq Goroutine /\ Adapter \subseteq Goroutine
  BY CommandAssumption, SMT DEF Goroutine, Run
<1>a. Adapter \subseteq Name
  BY CommandAssumption DEF Reg!Parameters
<1>1. CASE UNCHANGED vars
  BY <1>1 DEF vars
<1>2. CASE User
  <2>1. CASE (\E f \in File : EditTest(f)) \/ \E d \in Dir : MakeDir(d)
    BY <2>1 DEF EditTest, MakeDir
  <2>2. CASE EditOther \/ Interrupt
    BY <2>2 DEF EditOther, Interrupt
  <2>3. CASE Kill
    BY <2>3 DEF Kill, Gone, Reg!RNext
  <2>4. ASSUME NEW o \in Options, Invoke(o) \/ NothingFound(o) \/ NothingFailed(o) PROVE UNCHANGED reg
    BY <2>4 DEF Invoke, NothingFound, NothingFailed
  <2>5. QED
    BY <1>2, <2>1, <2>2, <2>3, <2>4 DEF User
<1>3. CASE MainStep
  <2>1. CASE FirstRun \/ StartWatch \/ WatchHandle
    BY <2>1 DEF FirstRun, StartWatch, WatchHandle
  <2>2. CASE ExitFailed \/ Exit
    BY <2>2 DEF ExitFailed, Exit, Gone, Reg!RNext
  <2>3. CASE FinishRun \/ WatchFails \/ WatchStop
    BY <1>0, <2>3 DEF FinishRun, WatchFails, WatchStop, ReturnFrom, Reg!RNext
  <2>4. QED
    BY <1>3, <2>1, <2>2, <2>3 DEF MainStep
<1>4. ASSUME NEW a \in Adapter, WarmAsk(a) \/ WarmDone(a) PROVE Reg!RNext
  BY <1>0, <1>a, <1>4 DEF WarmAsk, WarmDone, Reg!RNext
<1>5. ASSUME NEW r \in Run, RunStep(r) PROVE Reg!RNext \/ UNCHANGED reg
  <2>1. CASE Load(r) \/ Finish(r) \/ SaveNothing(r) \/ SaveCreate(r) \/ SaveFails(r)
             \/ SaveWrite(r)
    BY <2>1 DEF Load, Finish, SaveNothing, SaveCreate, SaveFails, SaveWrite
  <2>2. ASSUME NEW n \in Name, AskAdapter(r, n) PROVE Reg!RNext
    BY <1>0, <2>2 DEF AskAdapter, Reg!RNext
  <2>3. CASE StepDone(r)
    BY <1>0, <2>3 DEF StepDone, Reg!RNext
  <2>4. QED
    BY <1>5, <2>1, <2>2, <2>3 DEF RunStep
<1>6. ASSUME NEW p \in Goroutine, RegistryStep(p) PROVE Reg!RNext
  BY <1>6 DEF RegistryStep, Reg!RNext
<1>7. ASSUME NEW i \in Wat!Timer, TimerStep(i) PROVE UNCHANGED reg
  BY <1>7 DEF TimerStep, CallRun, RunReturns
<1>8. QED
  BY <1>1, <1>2, <1>3, <1>4, <1>5, <1>6, <1>7 DEF Next

\* Only directories of Dir are made.
LEMMA DirectoriesKnown == dirs \subseteq Dir /\ [Next]_vars => (dirs \subseteq Dir)'
<1> SUFFICES ASSUME dirs \subseteq Dir, [Next]_vars PROVE dirs' \subseteq Dir
  OBVIOUS
<1>1. ASSUME NEW d \in Dir, MakeDir(d) PROVE dirs' \subseteq Dir
  BY <1>1 DEF MakeDir
<1>2. CASE dirs' = dirs
  BY <1>2
<1>3. QED
  BY <1>1, <1>2 DEF Next, vars, world, User, EditTest, EditOther, Interrupt, Kill, Gone,
     Invoke, NothingFound, NothingFailed, MainStep, FirstRun, ExitFailed, FinishRun, StartWatch,
     WatchFails, WatchHandle, WatchStop, Exit, ReturnFrom, WarmAsk, WarmDone, RunStep,
     Load, Finish, SaveNothing, SaveCreate, SaveFails, SaveWrite, AskAdapter, StepDone,
     RegistryStep, TimerStep, CallRun, RunReturns

\* Every step of the command, as the watcher sees it.
LEMMA StepsOfWatcher == dirs \subseteq Dir /\ [Next]_vars => [Wat!WNext]_wat
<1> SUFFICES ASSUME dirs \subseteq Dir, [Next]_vars PROVE Wat!WNext \/ UNCHANGED wat
  BY DEF wat
<1>1. CASE UNCHANGED vars
  BY <1>1 DEF vars
<1>2. ASSUME NEW place \in Dir, NEW e \in Wat!Event, Wat!Emit(place, e) PROVE Wat!WNext
  BY <1>2 DEF Wat!WNext
<1>3. CASE User
  <2>1. ASSUME NEW f \in File, EditTest(f) PROVE Wat!WNext
    <3>1. Place[f] \in Dir /\ [kind |-> "test", dir |-> Place[f]] \in Wat!Event
      BY CommandAssumption DEF Wat!Event
    <3>2. QED
      BY <1>2, <2>1, <3>1 DEF EditTest
  <2>2. ASSUME NEW d \in Dir, MakeDir(d) PROVE Wat!WNext
    <3>1. [kind |-> "dir", dir |-> d] \in Wat!Event
      BY DEF Wat!Event
    <3>2. QED
      BY <1>2, <2>2, <3>1, CommandAssumption DEF MakeDir
  <2>3. CASE EditOther
    <3>1. [kind |-> "other", dir |-> Root] \in Wat!Event
      BY CommandAssumption DEF Wat!Event
    <3>2. QED
      BY <1>2, <2>3, <3>1, CommandAssumption DEF EditOther
  <2>4. CASE Interrupt
    BY <2>4 DEF Interrupt
  <2>5. CASE Kill
    BY <2>5 DEF Kill, Gone, Wat!WNext
  <2>6. ASSUME NEW o \in Options, Invoke(o) \/ NothingFound(o) \/ NothingFailed(o) PROVE UNCHANGED wat
    BY <2>6 DEF Invoke, NothingFound, NothingFailed
  <2>7. QED
    BY <1>3, <2>1, <2>2, <2>3, <2>4, <2>5, <2>6 DEF User
<1>4. CASE MainStep
  <2>1. CASE FirstRun \/ FinishRun \/ WatchFails
    BY <2>1 DEF FirstRun, FinishRun, WatchFails
  <2>2. CASE ExitFailed \/ Exit
    BY <2>2 DEF ExitFailed, Exit, Gone, Wat!WNext
  <2>3. CASE StartWatch
    <3>1. Wat!New(dirs) /\ dirs \in SUBSET Dir
      BY <2>3 DEF StartWatch
    <3>2. QED
      BY <3>1 DEF Wat!WNext
  <2>4. CASE WatchHandle \/ WatchStop
    BY <2>4 DEF WatchHandle, WatchStop, Wat!WNext
  <2>5. QED
    BY <1>4, <2>1, <2>2, <2>3, <2>4 DEF MainStep
<1>5. ASSUME NEW a \in Adapter, WarmAsk(a) \/ WarmDone(a) PROVE UNCHANGED wat
  BY <1>5 DEF WarmAsk, WarmDone
<1>6. ASSUME NEW r \in Run, RunStep(r) PROVE UNCHANGED wat
  BY <1>6 DEF RunStep, Load, Finish, SaveNothing, SaveCreate, SaveFails, SaveWrite,
     AskAdapter, StepDone
<1>7. ASSUME NEW p \in Goroutine, RegistryStep(p) PROVE UNCHANGED wat
  BY <1>7 DEF RegistryStep
<1>8. ASSUME NEW i \in Wat!Timer, TimerStep(i) PROVE Wat!WNext
  BY <1>8 DEF TimerStep, CallRun, RunReturns, Wat!WNext
<1>9. QED
  BY <1>1, <1>3, <1>4, <1>5, <1>6, <1>7, <1>8 DEF Next

\* The command begins with an empty registry and without a watcher.
LEMMA CommandBegins == Init => Reg!RInit /\ Wat!WInit /\ dirs \subseteq Dir
BY CommandAssumption DEF Init

\* The invariants of the components hold in the command.
LEMMA RegistryKept ==
  /\ Init => Shared!RInv
  /\ Shared!RInv /\ [Next]_vars => Shared!RInv'
<1>1. Shared!Parameters
  BY CommandAssumption DEF Reg!Parameters, Shared!Parameters
<1>2. Init => Shared!RInv
  BY <1>1, CommandBegins, Shared!RegistryBegins DEF Reg!RInit, Shared!RInit
<1>3. Reg!RNext => Shared!RNext
  BY DEF Reg!RNext, Reg!Ask, Reg!AskClose, Reg!Inside, Reg!Lock, Reg!GetUnknown,
     Reg!GetConnected, Reg!Connect, Reg!ConnectFails, Reg!Return, Reg!CloseOne,
     Reg!CloseDone, Reg!RRestart, Reg!Leave, Reg!Move, Shared!RNext,
     Shared!Ask, Shared!AskClose, Shared!Inside,
     Shared!Lock, Shared!GetUnknown, Shared!GetConnected,
     Shared!Connect, Shared!ConnectFails, Shared!Return,
     Shared!CloseOne, Shared!CloseDone, Shared!RRestart,
     Shared!Leave, Shared!Move
<1>4. Shared!RInv /\ [Next]_vars => Shared!RInv'
  BY <1>1, <1>3, StepsOfRegistry, Shared!RegistrySteps DEF reg, Shared!rvars
<1>5. QED
  BY <1>2, <1>4

WatcherInv == Shared!WInv /\ dirs \subseteq Dir

\* The invariant of the watcher, seen from the process.
LEMMA WatcherKept ==
  /\ Init => WatcherInv
  /\ WatcherInv /\ [Next]_vars => WatcherInv'
<1> USE DEF WatcherInv
<1>1. MaxChanges \in Nat
  BY CommandAssumption
<1>2. Init => WatcherInv
  BY <1>1, CommandBegins, Shared!WatcherBegins
  DEF Wat!WInit, Shared!WInit, Wat!Timer, Shared!Timer
<1>3. Wat!WNext => Shared!WNext
  BY DEF Wat!WNext, Wat!New, Wat!Emit, Wat!Handle, Wat!HandleTest, Wat!HandleDir,
     Wat!HandleOther, Wat!StopAndReturn, Wat!Fire, Wat!Check, Wat!Call, Wat!CallReturns,
     Wat!WRestart, Wat!Disarmed, Wat!Timer, Wat!Event, Shared!WNext,
     Shared!New, Shared!Emit, Shared!Handle,
     Shared!HandleTest, Shared!HandleDir, Shared!HandleOther,
     Shared!StopAndReturn, Shared!Fire, Shared!Check,
     Shared!Call, Shared!CallReturns, Shared!WRestart,
     Shared!Disarmed, Shared!Timer, Shared!Event
<1>4. WatcherInv /\ [Next]_vars => WatcherInv'
  BY <1>1, <1>3, StepsOfWatcher, DirectoriesKnown, Shared!WatcherSteps
  DEF wat, Shared!wvars
<1>5. QED
  BY <1>2, <1>4

\* In the run command an adapter has one open session or none, as it is marked,
\* and the goroutine in a critical section of the registry holds its mutex.
THEOREM CommandOneSession == Spec => []OneSession
<1>1. Shared!RInv => OneSession
  BY DEF Shared!RInv, Shared!MutexHeld, Shared!OneSession,
     OneSession, Reg!MutexHeld, Reg!OneSession
<1>2. QED
  BY <1>1, RegistryKept, PTL DEF Spec

\* In the run command at most one timer of the watcher is armed, the last one
\* set, and none after Stop.
THEOREM CommandOneTimerArmed == Spec => []OneTimerArmed
<1>1. WatcherInv => OneTimerArmed
  BY DEF WatcherInv, Shared!WInv, Shared!Debounced, Shared!OneTimerArmed,
     OneTimerArmed, Wat!OneTimerArmed, Wat!Timer, Shared!Timer
<1>2. QED
  BY <1>1, WatcherKept, PTL DEF Spec

-----------------------------------------------------------------------------
(* Without --watch the main goroutine is alone with the pre-warming ones. *)

Plain == ~option.watch \/ main = "none"

\* What the proofs below need of the types.
Typed ==
  /\ option \in Option
  /\ runAt \in [Run -> {"off", "loading", "testing", "stepping", "tested", "finished",
                        "saving", "saved"}]
  /\ verdict \in [Run -> [Test -> {"none", "passed", "failed", "skipped"}]]
  /\ list \in [inode : {<< >>} \cup Nat \X Run, names : SUBSET Test]
  /\ file \in [Run -> {<< >>} \cup Nat \X Run]
  /\ invocations \in Nat

\* No watcher, hence no callback and no run but the first.
Alone ==
  /\ main \in {"none", "warming"} => runAt[0] = "off"
  /\ Plain =>
       /\ main # "watching" /\ loop = "off"
       /\ \A i \in Wat!Timer : callback[i] = "unset" /\ runAt[i] = "off"

\* The list while the first run writes it, and from then on.
ListWritten ==
  ~option.watch /\ option.writable =>
    /\ runAt[0] = "saving" => list.inode = file[0] /\ list.names = {}
    /\ runAt[0] = "saved" => list.names = FailedIn(verdict[0])

ListInv == Typed /\ Alone /\ ListWritten /\ FailureIsListed

\* When CloseAll is called, no other goroutine is in the registry.
ClosedAlone ==
  Plain =>
    /\ main # "warming" => warm = {}
    /\ main = "closing" => runAt[0] = "saved"
    /\ \A a \in Adapter \ warm : at[a] = "out"
    /\ \A r \in Run : runAt[r] # "stepping" /\ ~(r = 0 /\ main = "closing") => at[r] = "out"
    /\ \A p \in Goroutine : at[p] \in {"askingClose", "closing"} => p = 0 /\ main = "closing"
    /\ \A p \in Goroutine : at[p] = "using" => want[p] \in connected

OpenInv == Typed /\ Alone /\ ClosedAlone /\ Shared!RInv

\* The types of the main goroutine and of the runs survive every step.
LEMMA TypedStep == Typed /\ [Next]_vars => Typed'
<1>0. SUFFICES ASSUME Typed, [Next]_vars PROVE Typed'
  OBVIOUS
<1> USE DEF Typed
<1>1. CASE UNCHANGED vars
  BY <1>0, <1>1 DEF vars, process, world, runs
<1>2. CASE User
  <2>1. CASE (\E f \in File : EditTest(f)) \/ \E d \in Dir : MakeDir(d)
    BY <1>0, <2>1 DEF EditTest, MakeDir, process, runs
  <2>2. CASE EditOther \/ Interrupt
    BY <1>0, <2>2 DEF EditOther, Interrupt, process, world, runs
  <2>3. CASE Kill
    BY <1>0, <2>3 DEF Kill, Gone
  <2>4. ASSUME NEW o \in Options, Invoke(o) \/ NothingFound(o) \/ NothingFailed(o) PROVE Typed'
    <3>1. o \in Option /\ [o EXCEPT !.keep = @ \cap list.names] \in Option
      BY CommandAssumption DEF Option
    <3>2. option' \in Option
      <4> HIDE DEF Typed
      <4>1. option' \in {o, [o EXCEPT !.keep = @ \cap list.names]}
        BY <2>4 DEF Invoke, NothingFound, NothingFailed
      <4>2. QED
        BY <3>1, <4>1
    <3>3. invocations' \in Nat
      BY <1>0, <2>4 DEF Invoke, NothingFound, NothingFailed
    <3>4. QED
      BY <1>0, <2>4, <3>2, <3>3 DEF Invoke, NothingFound, NothingFailed, NoVerdict
  <2>5. QED
    BY <1>2, <2>1, <2>2, <2>3, <2>4 DEF User
<1>3. CASE MainStep
  <2>1. CASE FirstRun
    <3>1. 0 \in Run
      BY CommandAssumption DEF Run
    <3>2. QED
      BY <1>0, <2>1, <3>1 DEF FirstRun, world
  <2>2. CASE ExitFailed \/ Exit
    BY <1>0, <2>2 DEF ExitFailed, Exit, Gone
  <2>3. CASE FinishRun \/ StartWatch \/ WatchFails \/ WatchHandle \/ WatchStop
    BY <1>0, <2>3 DEF FinishRun, StartWatch, WatchFails, WatchHandle, WatchStop, ReturnFrom,
       process, world, runs
  <2>4. QED
    BY <1>3, <2>1, <2>2, <2>3 DEF MainStep
<1>4. ASSUME NEW a \in Adapter, WarmAsk(a) \/ WarmDone(a) PROVE Typed'
  BY <1>0, <1>4 DEF WarmAsk, WarmDone, process, world, runs
<1>5. ASSUME NEW r \in Run, RunStep(r) PROVE Typed'
  <2>1. CASE Load(r)
    BY <1>0, <2>1 DEF Load, Goes, process, world
  <2>2. CASE Finish(r)
    <3>1. PICK v \in [selected[r] -> {"passed", "failed", "skipped"}] :
            verdict' = [verdict EXCEPT ![r] = [t \in Test |-> IF t \in selected[r] THEN v[t] ELSE "none"]]
      BY <2>2 DEF Finish, PossibleVerdicts, SuiteOf
    <3>2. verdict' \in [Run -> [Test -> {"none", "passed", "failed", "skipped"}]]
      BY <1>0, <3>1
    <3>3. QED
      BY <1>0, <2>2, <3>2 DEF Finish, Goes, process, world
  <2>3. CASE SaveNothing(r) \/ SaveFails(r)
    BY <1>0, <2>3 DEF SaveNothing, SaveFails, Goes, NoList, process, world
  <2>4. CASE SaveCreate(r)
    <3>1. PICK n \in {<< >>} \cup Nat \X Run :
            list' = [inode |-> n, names |-> {}] /\ file' = [file EXCEPT ![r] = n]
      BY <1>0, <2>4 DEF SaveCreate
    <3>2. QED
      BY <1>0, <2>4, <3>1 DEF SaveCreate, Goes, process, world
  <2>5. CASE SaveWrite(r)
    <3>1. FailedIn(verdict[r]) \subseteq Test
      BY DEF FailedIn
    <3>2. list' \in [inode : {<< >>} \cup Nat \X Run, names : SUBSET Test]
      BY <1>0, <2>5, <3>1 DEF SaveWrite
    <3>3. QED
      BY <1>0, <2>5, <3>2 DEF SaveWrite, Goes, process, world
  <2>6. ASSUME NEW n \in Name, AskAdapter(r, n) PROVE Typed'
    BY <1>0, <2>6 DEF AskAdapter, Goes, process, world
  <2>7. CASE StepDone(r)
    BY <1>0, <2>7 DEF StepDone, Goes, process, world
  <2>8. QED
    BY <1>5, <2>1, <2>2, <2>3, <2>4, <2>5, <2>6, <2>7 DEF RunStep
<1>6. ASSUME NEW p \in Goroutine, RegistryStep(p) PROVE Typed'
  BY <1>0, <1>6 DEF RegistryStep, process, world, runs
<1>7. ASSUME NEW i \in Wat!Timer, TimerStep(i) PROVE Typed'
  <2>1. i \in Run
    BY CommandAssumption DEF Run, Wat!Timer
  <2>2. CASE UNCHANGED <<process, world, list, runs, reg>>
    BY <1>0, <2>2 DEF process, world, runs
  <2>3. CASE CallRun(i)
    BY <1>0, <2>1, <2>3 DEF CallRun, Goes, process, world
  <2>4. CASE RunReturns(i)
    BY <1>0, <2>1, <2>4 DEF RunReturns, Goes, NoVerdict, process, world
  <2>5. QED
    BY <1>7, <2>2, <2>3, <2>4 DEF TimerStep
<1>8. QED
  BY <1>0, <1>1, <1>2, <1>3, <1>4, <1>5, <1>6, <1>7 DEF Next

\* Without --watch no run but the first comes to exist.
LEMMA AloneStep == Typed /\ Alone /\ [Next]_vars => Alone'
<1>0. SUFFICES ASSUME Typed, Alone, [Next]_vars PROVE Alone'
  OBVIOUS
<1>a. 0 \in Run /\ Wat!Timer \subseteq Run /\ 0 \notin Wat!Timer
  BY CommandAssumption DEF Run, Wat!Timer
<1>b. \A r \in Run : r = 0 \/ r \in Wat!Timer
  BY CommandAssumption DEF Run, Wat!Timer
<1> USE DEF Typed, Alone, Plain
<1>1. CASE UNCHANGED vars
  BY <1>0, <1>1 DEF vars, process, runs, wat
<1>2. CASE User
  <2>1. CASE (\E f \in File : EditTest(f)) \/ \E d \in Dir : MakeDir(d)
    BY <1>0, <2>1 DEF EditTest, MakeDir, process, runs
  <2>2. CASE EditOther \/ Interrupt
    BY <1>0, <2>2 DEF EditOther, Interrupt, Wat!Emit, process, runs, wat
  <2>3. CASE Kill
    BY <1>a, <2>3 DEF Kill, Gone, Wat!WRestart
  <2>4. ASSUME NEW o \in Options, Invoke(o) \/ NothingFound(o) \/ NothingFailed(o) PROVE Alone'
    BY <1>0, <2>4 DEF Invoke, NothingFound, NothingFailed, wat
  <2>5. QED
    BY <1>2, <2>1, <2>2, <2>3, <2>4 DEF User
<1>3. CASE MainStep
  <2>1. CASE FirstRun
    BY <1>0, <1>a, <2>1 DEF FirstRun, wat
  <2>2. CASE ExitFailed \/ Exit
    BY <1>a, <2>2 DEF ExitFailed, Exit, Gone, Wat!WRestart
  <2>3. CASE FinishRun \/ StartWatch \/ WatchFails
    BY <1>0, <2>3 DEF FinishRun, StartWatch, WatchFails, ReturnFrom, runs, wat
  <2>4. CASE WatchHandle \/ WatchStop
    BY <1>0, <2>4 DEF WatchHandle, WatchStop, ReturnFrom, Wat!Handle, Wat!HandleTest, Wat!HandleDir,
       Wat!HandleOther, Wat!StopAndReturn, process, runs
  <2>5. QED
    BY <1>3, <2>1, <2>2, <2>3, <2>4 DEF MainStep
<1>4. ASSUME NEW a \in Adapter, WarmAsk(a) \/ WarmDone(a) PROVE Alone'
  BY <1>0, <1>4 DEF WarmAsk, WarmDone, process, runs, wat
<1>5. ASSUME NEW r \in Run, RunStep(r) PROVE Alone'
  <2>1. runAt[r] # "off" /\ UNCHANGED <<main, option>> /\ UNCHANGED wat
        /\ \A q \in Run \ {r} : runAt'[q] = runAt[q]
    BY <1>0, <1>5 DEF RunStep, Load, Finish, SaveNothing, SaveCreate, SaveFails, SaveWrite, AskAdapter,
       StepDone, Goes, process, world
  <2>2. QED
    BY <1>0, <1>a, <1>b, <2>1 DEF wat
<1>6. ASSUME NEW p \in Goroutine, RegistryStep(p) PROVE Alone'
  BY <1>0, <1>6 DEF RegistryStep, process, runs, wat
<1>7. ASSUME NEW i \in Wat!Timer, TimerStep(i) PROVE Alone'
  <2>1. callback[i] # "unset" /\ UNCHANGED <<main, option>>
    BY <1>7 DEF TimerStep, CallRun, RunReturns, Wat!Fire, Wat!Check, Wat!Call, Wat!CallReturns, process
  <2>2. ~Plain /\ ~Plain'
    BY <1>0, <1>7, <2>1
  <2>3. main \notin {"none", "warming"} \/ UNCHANGED runAt[0]
    BY <1>0, <1>a, <1>7 DEF TimerStep, CallRun, RunReturns, Goes, runs
  <2>4. QED
    BY <1>0, <2>1, <2>2, <2>3
<1>8. QED
  BY <1>0, <1>1, <1>2, <1>3, <1>4, <1>5, <1>6, <1>7 DEF Next

\* The list follows the first run through every step.
LEMMA ListStep == ListInv /\ [Next]_vars => (ListWritten /\ FailureIsListed)'
<1>0. SUFFICES ASSUME ListInv, [Next]_vars PROVE (ListWritten /\ FailureIsListed)'
  OBVIOUS
<1> DEFINE Goal == ListWritten /\ FailureIsListed
<1>a. 0 \in Run /\ 0 \notin Wat!Timer
  BY CommandAssumption DEF Run, Wat!Timer
<1>b. \A r \in Run : r = 0 \/ r \in Wat!Timer
  BY CommandAssumption DEF Run, Wat!Timer
<1> USE DEF ListInv, Typed, Alone, Plain, ListWritten, FailureIsListed
<1>1. CASE UNCHANGED vars
  BY <1>0, <1>1 DEF vars, process, world, runs, FailedIn
<1>2. CASE User
  <2>1. CASE (\E f \in File : EditTest(f)) \/ \E d \in Dir : MakeDir(d)
    BY <1>0, <2>1 DEF EditTest, MakeDir, process, runs, FailedIn
  <2>2. CASE EditOther \/ Interrupt
    BY <1>0, <2>2 DEF EditOther, Interrupt, process, world, runs, FailedIn
  <2>3. CASE Kill
    BY <1>0, <1>a, <2>3 DEF Kill, Gone
  <2>4. ASSUME NEW o \in Options, Invoke(o) \/ NothingFound(o) \/ NothingFailed(o) PROVE Goal'
    BY <1>0, <1>a, <2>4 DEF Invoke, NothingFound, NothingFailed
  <2>5. QED
    BY <1>2, <2>1, <2>2, <2>3, <2>4 DEF User
<1>3. CASE MainStep
  <2>1. CASE FirstRun
    BY <1>0, <1>a, <2>1 DEF FirstRun, world
  <2>2. CASE ExitFailed
    <3>1. ~option.watch /\ option.writable => list.names = FailedIn(verdict[0]) /\ list.names # {}
      BY <1>0, <2>2 DEF ExitFailed
    <3>2. UNCHANGED <<option, list, verdict>> /\ runAt'[0] = "off"
      BY <1>a, <2>2 DEF ExitFailed, Gone
    <3>3. QED
      BY <3>1, <3>2 DEF FailedIn
  <2>3. CASE Exit
    BY <1>0, <1>a, <2>3 DEF Exit, Gone
  <2>4. CASE FinishRun \/ StartWatch \/ WatchFails \/ WatchHandle \/ WatchStop
    BY <1>0, <2>4 DEF FinishRun, StartWatch, WatchFails, WatchHandle, WatchStop, ReturnFrom,
       process, world, runs, FailedIn
  <2>5. QED
    BY <1>3, <2>1, <2>2, <2>3, <2>4 DEF MainStep
<1>4. ASSUME NEW a \in Adapter, WarmAsk(a) \/ WarmDone(a) PROVE Goal'
  BY <1>0, <1>4 DEF WarmAsk, WarmDone, process, world, runs, FailedIn
<1>5. ASSUME NEW r \in Run, RunStep(r) PROVE Goal'
  <2>1. runAt[r] # "off" /\ UNCHANGED <<main, option>>
    BY <1>0, <1>5 DEF RunStep, Load, Finish, SaveNothing, SaveCreate, SaveFails, SaveWrite, AskAdapter,
       StepDone, Goes, process, world
  <2>2. CASE Plain
    <3>1. r = 0 /\ main # "none"
      BY <1>0, <1>b, <2>1, <2>2
    <3>2. CASE Load(r) \/ Finish(r) \/ (\E n \in Name : AskAdapter(r, n)) \/ StepDone(r) \/ SaveFails(r)
      BY <1>0, <1>a, <2>1, <3>1, <3>2 DEF Load, Finish, AskAdapter, StepDone, SaveFails, Goes, process
    <3>3. CASE SaveNothing(r)
      BY <1>0, <1>a, <2>1, <3>1, <3>3 DEF SaveNothing, NoList, Goes, FailedIn
    <3>4. CASE SaveCreate(r)
      <4>1. /\ list' = [inode |-> list'.inode, names |-> {}]
            /\ file'[0] = list'.inode
            /\ runAt'[0] = "saving"
        BY <1>0, <1>a, <3>1, <3>4 DEF SaveCreate, Goes
      <4>2. QED
        BY <2>1, <3>1, <4>1
    <3>5. CASE SaveWrite(r)
      <4>1. option.writable => list'.names = FailedIn(verdict[0])
        BY <1>0, <2>1, <2>2, <3>1, <3>5 DEF SaveWrite
      <4>2. runAt'[0] = "saved" /\ verdict' = verdict
        BY <1>0, <1>a, <3>1, <3>5 DEF SaveWrite, Goes
      <4>3. QED
        BY <2>1, <3>1, <4>1, <4>2 DEF FailedIn
    <3>6. QED
      BY <1>5, <3>2, <3>3, <3>4, <3>5 DEF RunStep
  <2>3. CASE ~Plain
    BY <2>1, <2>3
  <2>4. QED
    BY <2>2, <2>3
<1>6. ASSUME NEW p \in Goroutine, RegistryStep(p) PROVE Goal'
  BY <1>0, <1>6 DEF RegistryStep, process, world, runs, FailedIn
<1>7. ASSUME NEW i \in Wat!Timer, TimerStep(i) PROVE Goal'
  <2>1. callback[i] # "unset" /\ UNCHANGED <<main, option>>
    BY <1>7 DEF TimerStep, CallRun, RunReturns, Wat!Fire, Wat!Check, Wat!Call, Wat!CallReturns, process
  <2>2. ~Plain
    BY <1>0, <1>7, <2>1
  <2>3. QED
    BY <2>1, <2>2
<1>8. QED
  BY <1>0, <1>1, <1>2, <1>3, <1>4, <1>5, <1>6, <1>7 DEF Next

\* Before the first invocation nothing runs.
LEMMA ProcessBegins == Init => Typed /\ Alone
<1>1. ASSUME Init PROVE Typed
  BY <1>1, CommandAssumption DEF Init, Typed, NoList, NoVerdict
<1>2. ASSUME Init PROVE Alone
  BY <1>2, CommandAssumption DEF Init, Alone, Wat!WInit, Run, Wat!Timer
<1>3. QED
  BY <1>1, <1>2

\* A process that exits with 1 because tests failed has left their names, and no
\* others, on the list, for any tests and any sequence of invocations, interrupts
\* and kills (run.go:333).
THEOREM CommandFailureIsListed == Spec => []FailureIsListed
<1>1. Init => ListInv
  BY ProcessBegins, CommandAssumption DEF Init, ListInv, ListWritten, FailureIsListed, Run
<1>2. ListInv /\ [Next]_vars => ListInv'
  BY TypedStep, AloneStep, ListStep DEF ListInv
<1>3. ListInv => FailureIsListed
  BY DEF ListInv
<1>4. QED
  BY <1>1, <1>2, <1>3, PTL DEF Spec

\* Every step keeps the goroutines where CloseAll may find them.
LEMMA ClosedAloneStep == OpenInv /\ [Next]_vars => ClosedAlone'
<1>0. SUFFICES ASSUME OpenInv, [Next]_vars PROVE ClosedAlone'
  OBVIOUS
<1>a. 0 \in Run /\ Wat!Timer \subseteq Run /\ 0 \notin Wat!Timer
  BY CommandAssumption DEF Run, Wat!Timer
<1>b. \A r \in Run : r = 0 \/ r \in Wat!Timer
  BY CommandAssumption DEF Run, Wat!Timer
<1>c. Adapter \cap Run = {} /\ Goroutine = Run \cup Adapter
  BY CommandAssumption DEF Goroutine
<1>d. at \in [Goroutine -> {"out", "asking", "askingClose", "getting", "closing", "using", "refused"}]
      /\ want \in [Goroutine -> Name]
  BY <1>0 DEF OpenInv, Shared!RInv, Shared!RTypeOK
<1> USE DEF OpenInv, Typed, Alone, Plain, ClosedAlone
<1>1. CASE UNCHANGED vars
  BY <1>0, <1>1 DEF vars, process, runs, reg
<1>2. CASE User
  <2>1. CASE (\E f \in File : EditTest(f)) \/ \E d \in Dir : MakeDir(d)
    BY <1>0, <2>1 DEF EditTest, MakeDir, process, runs, reg
  <2>2. CASE EditOther \/ Interrupt
    BY <1>0, <2>2 DEF EditOther, Interrupt, process, runs, reg
  <2>3. CASE Kill
    BY <1>c, <2>3 DEF Kill, Gone, Reg!RRestart
  <2>4. ASSUME NEW o \in Options, Invoke(o) \/ NothingFound(o) \/ NothingFailed(o) PROVE ClosedAlone'
    <3>1. \A p \in Goroutine : at[p] = "out"
      BY <1>0, <1>a, <1>b, <1>c, <2>4 DEF Invoke, NothingFound, NothingFailed
    <3>2. UNCHANGED <<at, connected, want, runAt>> /\ main' \in {"none", "warming"}
          /\ (main' = "none" => warm' = {})
      BY <1>0, <2>4 DEF Invoke, NothingFound, NothingFailed, reg
    <3>3. QED
      BY <1>c, <3>1, <3>2
  <2>5. QED
    BY <1>2, <2>1, <2>2, <2>3, <2>4 DEF User
<1>3. CASE MainStep
  <2>1. CASE FirstRun
    <3>1. at[0] = "out" \/ ~Plain
      BY <1>0, <1>a, <2>1 DEF FirstRun
    <3>2. QED
      BY <1>0, <1>a, <2>1, <3>1 DEF FirstRun, reg
  <2>2. CASE ExitFailed \/ Exit
    BY <1>c, <2>2 DEF ExitFailed, Exit, Gone, Reg!RRestart
  <2>3. CASE FinishRun
    <3>1. /\ main = "first" /\ main' = "closing" /\ runAt[0] = "saved"
          /\ at' = [at EXCEPT ![0] = "askingClose"]
          /\ UNCHANGED <<option, warm, runAt, want, connected>>
      BY <2>3 DEF FinishRun, ReturnFrom, Reg!AskClose, Reg!Move, runs
    <3>2. QED
      BY <1>0, <1>a, <1>c, <1>d, <3>1
  <2>4. CASE StartWatch \/ WatchFails \/ WatchHandle \/ WatchStop
    <3>1. ~Plain /\ UNCHANGED option /\ main' # "none"
      BY <1>0, <2>4 DEF StartWatch, WatchFails, WatchHandle, WatchStop, ReturnFrom, Wat!Handle,
         Wat!HandleTest, Wat!HandleDir, Wat!HandleOther, Wat!StopAndReturn, process
    <3>2. QED
      BY <3>1
  <2>5. QED
    BY <1>3, <2>1, <2>2, <2>3, <2>4 DEF MainStep
<1>4. ASSUME NEW a \in Adapter, WarmAsk(a) \/ WarmDone(a) PROVE ClosedAlone'
  <2>1. a \in Goroutine /\ a \notin Run
    BY <1>c
  <2>2. CASE WarmAsk(a)
    BY <1>0, <1>c, <1>d, <2>1, <2>2 DEF WarmAsk, Reg!Ask, Reg!Move, process, runs
  <2>3. CASE WarmDone(a)
    BY <1>0, <1>c, <1>d, <2>1, <2>3 DEF WarmDone, Reg!Return, Reg!Move, runs
  <2>4. QED
    BY <1>4, <2>2, <2>3
<1>5. ASSUME NEW r \in Run, RunStep(r) PROVE ClosedAlone'
  <2>1. r \in Goroutine /\ r \notin Adapter
    BY <1>c
  <2>2. CASE Plain
    <3>1. r = 0 /\ main # "none"
      BY <1>0, <1>b, <1>5, <2>2 DEF RunStep, Load, Finish, SaveNothing, SaveCreate, SaveFails, SaveWrite,
         AskAdapter, StepDone
    <3>2. CASE Load(r) \/ Finish(r) \/ SaveNothing(r) \/ SaveCreate(r) \/ SaveFails(r) \/ SaveWrite(r)
      <4>1. /\ runAt[r] \notin {"stepping", "saved"} /\ runAt'[r] # "stepping"
            /\ \A q \in Run \ {r} : runAt'[q] = runAt[q]
            /\ UNCHANGED <<main, option, warm, at, want, connected>>
        BY <1>0, <3>2 DEF Load, Finish, SaveNothing, SaveCreate, SaveFails, SaveWrite, Goes, process, reg
      <4>2. QED
        BY <1>0, <1>a, <3>1, <4>1
    <3>3. ASSUME NEW n \in Name, AskAdapter(r, n) PROVE ClosedAlone'
      BY <1>0, <1>c, <1>d, <2>1, <3>1, <3>3 DEF AskAdapter, Reg!Ask, Reg!Move, Goes, process
    <3>4. CASE StepDone(r)
      BY <1>0, <1>c, <1>d, <2>1, <3>1, <3>4 DEF StepDone, Reg!Return, Reg!Move, Goes, process
    <3>5. QED
      BY <1>5, <3>2, <3>3, <3>4 DEF RunStep
  <2>3. CASE ~Plain
    BY <1>5, <2>3 DEF RunStep, Load, Finish, SaveNothing, SaveCreate, SaveFails, SaveWrite, AskAdapter,
       StepDone, process
  <2>4. QED
    BY <2>2, <2>3
<1>6. ASSUME NEW p \in Goroutine, RegistryStep(p) PROVE ClosedAlone'
  <2>0. UNCHANGED <<main, option, warm, runAt>>
    BY <1>6 DEF RegistryStep, process, runs
  <2>1. CASE Plain
    <3>1. CASE Reg!Lock(p)
      BY <1>0, <1>a, <1>c, <1>d, <2>0, <2>1, <3>1 DEF Reg!Lock, Reg!Move
    <3>2. CASE Reg!GetUnknown(p) \/ Reg!GetConnected(p) \/ Reg!ConnectFails(p)
      BY <1>0, <1>a, <1>c, <1>d, <2>0, <2>1, <3>2
      DEF Reg!GetUnknown, Reg!GetConnected, Reg!ConnectFails, Reg!Leave, Reg!Move
    <3>3. CASE Reg!Connect(p)
      BY <1>0, <1>a, <1>c, <1>d, <2>0, <2>1, <3>3 DEF Reg!Connect, Reg!Leave, Reg!Move
    <3>4. CASE Reg!CloseOne(p) \/ Reg!CloseDone(p)
      <4>1. p = 0 /\ main = "closing" /\ runAt[0] = "saved"
        BY <1>0, <2>1, <3>4 DEF Reg!CloseOne, Reg!CloseDone
      <4>2. \A q \in Goroutine \ {0} : at[q] = "out"
        BY <1>0, <1>b, <1>c, <2>1, <4>1
      <4>3. at'[0] \in {"closing", "out"} /\ \A q \in Goroutine \ {0} : at'[q] = at[q]
        BY <1>d, <3>4, <4>1 DEF Reg!CloseOne, Reg!CloseDone, Reg!Leave, Reg!Move
      <4>4. QED
        BY <1>0, <1>a, <1>c, <2>0, <2>1, <4>1, <4>2, <4>3
    <3>5. QED
      BY <1>6, <3>1, <3>2, <3>3, <3>4 DEF RegistryStep, Reg!Inside
  <2>2. CASE ~Plain
    BY <2>0, <2>2
  <2>3. QED
    BY <2>1, <2>2
<1>7. ASSUME NEW i \in Wat!Timer, TimerStep(i) PROVE ClosedAlone'
  <2>1. callback[i] # "unset" /\ UNCHANGED <<main, option>>
    BY <1>7 DEF TimerStep, CallRun, RunReturns, Wat!Fire, Wat!Check, Wat!Call, Wat!CallReturns, process
  <2>2. ~Plain
    BY <1>0, <1>7, <2>1
  <2>3. QED
    BY <2>1, <2>2
<1>8. QED
  BY <1>0, <1>1, <1>2, <1>3, <1>4, <1>5, <1>6, <1>7 DEF Next

\* Without --watch every step uses a connected adapter, for any adapters: the
\* deferred CloseAll finds nobody in the registry (run.go:269, registry.go:72).
THEOREM CommandUsedWhileOpen == Spec => []UsedWhileOpen
<1>1. Init => ClosedAlone
  BY CommandAssumption DEF Init, ClosedAlone, Reg!RInit, Goroutine
<1>2. Init => OpenInv
  BY <1>1, ProcessBegins, RegistryKept DEF OpenInv
<1>3. OpenInv /\ [Next]_vars => OpenInv'
  BY TypedStep, AloneStep, ClosedAloneStep, RegistryKept DEF OpenInv
<1>4. OpenInv => UsedWhileOpen
  BY DEF OpenInv, ClosedAlone, Plain, UsedWhileOpen
<1>5. QED
  BY <1>2, <1>3, <1>4, PTL DEF Spec

-----------------------------------------------------------------------------
(* What the watcher has been told of is on its way to a run. *)

TestQueued == \E k \in 1..Len(queue) : queue[k].kind = "test"

Due == \/ TestQueued
       \/ \E i \in Wat!Timer : callback[i] \in {"armed", "fired", "checked"}
       \/ \E r \in Run : runAt[r] = "loading"

Current == \E r \in Run : \A f \in paths : Knows(r, f)

\* Until it has stopped, the watcher either owes a run or has given it; what it was
\* told of is there to be loaded.
Attended ==
  /\ edits \in Nat /\ disk \in [File -> 0..edits] /\ paths \subseteq File
  /\ noticed \in [File -> Nat] /\ \A f \in File : noticed[f] <= disk[f]
  /\ loaded \in [Run -> [File -> Nat]]
  /\ ~stopped => Current \/ Due

\* The watcher of the next process has been told of nothing.
Fresh == main = "none" => noticed = NoEdit

CurrentInv == Typed /\ WatcherInv /\ Fresh /\ Attended

\* Only a watching process is told of edits.
LEMMA FreshStep == Fresh /\ [Next]_vars => Fresh'
<1> SUFFICES ASSUME Fresh, [Next]_vars PROVE Fresh'
  OBVIOUS
<1>1. CASE main' = main /\ noticed' = noticed
  BY <1>1 DEF Fresh, NoEdit
<1>2. CASE main' # "none"
  BY <1>2 DEF Fresh
<1>3. CASE noticed' = NoEdit
  BY <1>3 DEF Fresh, NoEdit
<1>4. CASE User
  BY <1>1, <1>2, <1>3, <1>4 DEF User, EditTest, MakeDir, EditOther, Interrupt, Kill, Gone, Invoke,
     NothingFound, NothingFailed, process, world
<1>5. CASE MainStep
  BY <1>1, <1>2, <1>3, <1>5 DEF MainStep, FirstRun, ExitFailed, FinishRun, StartWatch, WatchFails,
     WatchHandle, WatchStop, Exit, ReturnFrom, Gone, process, world
<1>6. CASE ~User /\ ~MainStep
  BY <1>1, <1>6 DEF Next, vars, process, world, WarmAsk, WarmDone, RunStep, Load, Finish, SaveNothing,
     SaveCreate, SaveFails, SaveWrite, AskAdapter, StepDone, RegistryStep, TimerStep, CallRun, RunReturns
<1> QED BY <1>4, <1>5, <1>6

\* An event that is appended leaves the others where they are.
LEMMA EmitKeeps ==
  ASSUME WatcherInv, NEW place, NEW e \in Wat!Event, Wat!Emit(place, e), TestQueued
  PROVE TestQueued'
<1>1. queue \in Seq(Wat!Event)
  BY DEF WatcherInv, Shared!WInv, Shared!Event, Wat!Event
<1>2. PICK k \in 1..Len(queue) : queue[k].kind = "test"
  BY DEF TestQueued
<1>3. CASE queue' = Append(queue, e)
  <2>1. k \in 1..Len(queue') /\ queue'[k] = queue[k]
    BY <1>1, <1>3
  <2>2. QED
    BY <1>2, <2>1 DEF TestQueued
<1>4. CASE queue' = queue
  BY <1>4 DEF TestQueued
<1>5. QED
  BY <1>3, <1>4 DEF Wat!Emit

\* A change of a test file is not lost when another event is handled.
LEMMA HandleKeeps ==
  ASSUME WatcherInv, Wat!HandleDir \/ Wat!HandleOther, TestQueued
  PROVE TestQueued'
<1>1. queue \in Seq(Wat!Event) /\ queue # << >> /\ queue' = Tail(queue) /\ queue[1].kind # "test"
  BY DEF WatcherInv, Shared!WInv, Shared!Event, Wat!Event, Wat!HandleDir, Wat!HandleOther
<1>2. PICK k \in 1..Len(queue) : queue[k].kind = "test"
  BY DEF TestQueued
<1>3. k - 1 \in 1..Len(queue') /\ queue'[k - 1] = queue[k]
  BY <1>1, <1>2
<1>4. QED
  BY <1>2, <1>3 DEF TestQueued

\* Every step hands on the duty to load what was noticed.
LEMMA AttendedStep == CurrentInv /\ [Next]_vars => Attended'
<1>0. SUFFICES ASSUME CurrentInv, [Next]_vars PROVE Attended'
  OBVIOUS
<1>a. 0 \in Run /\ Wat!Timer \subseteq Run /\ Wat!Timer = Shared!Timer
  BY CommandAssumption DEF Run, Wat!Timer, Shared!Timer
<1>b. /\ runAt \in [Run -> {"off", "loading", "testing", "stepping", "tested", "finished",
                             "saving", "saved"}]
      /\ callback \in [Wat!Timer -> {"unset", "armed", "cancelled", "fired", "checked",
                                     "calling", "returned"}]
      /\ timer \in 0..MaxChanges /\ MaxChanges \in Nat
  BY <1>0, <1>a, CommandAssumption
  DEF CurrentInv, Typed, WatcherInv, Shared!WInv, Shared!Debounced
<1>c. /\ edits \in Nat /\ disk \in [File -> 0..edits] /\ paths \subseteq File
      /\ noticed \in [File -> Nat] /\ \A f \in File : noticed[f] <= disk[f]
      /\ loaded \in [Run -> [File -> Nat]]
      /\ ~stopped => Current \/ Due
  BY <1>0 DEF CurrentInv, Attended
\* A step that changes neither edits nor loads, and removes no cause of a run.
<1>k. ASSUME UNCHANGED <<edits, disk, paths, noticed, loaded, stopped>>, ~stopped /\ Due => Due'
      PROVE  Attended'
  BY <1>c, <1>k DEF Attended, Current, Knows
\* The process is gone.
<1>g. ASSUME NEW code, Gone(code) PROVE Attended'
  <2>1. /\ UNCHANGED <<edits, disk>> /\ paths' = {} /\ noticed' = [f \in File |-> 0]
        /\ loaded' = [r \in Run |-> [f \in File |-> 0]]
    BY <1>g DEF Gone, NoEdit
  <2>2. Current'
    BY <1>a, <2>1 DEF Current
  <2>3. noticed' \in [File -> Nat] /\ \A f \in File : noticed'[f] <= disk'[f]
    BY <1>c, <2>1
  <2>4. loaded' \in [Run -> [File -> Nat]]
    BY <2>1
  <2> QED BY <1>c, <2>1, <2>2, <2>3, <2>4 DEF Attended
<1>1. CASE UNCHANGED vars
  <2>1. UNCHANGED <<edits, disk, paths, noticed, loaded, stopped, queue, callback, runAt>>
    BY <1>1 DEF vars, world, runs, wat
  <2>2. QED
    BY <1>k, <2>1 DEF Due, TestQueued
<1>2. CASE User
  <2>1. ASSUME NEW f \in File, EditTest(f) PROVE Attended'
    <3> DEFINE e == [kind |-> "test", dir |-> Place[f]]
    <3>1. e \in Wat!Event /\ e.kind = "test"
      BY CommandAssumption DEF Wat!Event
    <3>2. /\ edits' = edits + 1 /\ disk' = [disk EXCEPT ![f] = edits + 1] /\ Wat!Emit(Place[f], e)
          /\ UNCHANGED <<paths, loaded, stopped, callback, runAt>>
      BY <2>1 DEF EditTest, Wat!Emit, runs
    <3> HIDE DEF e
    <3>3. /\ edits' \in Nat /\ disk' \in [File -> 0..edits'] /\ paths' \subseteq File
          /\ loaded' \in [Run -> [File -> Nat]]
      <4>1. edits + 1 \in 0..edits + 1 /\ 0..edits \subseteq 0..edits + 1
        BY <1>c
      <4> QED BY <1>c, <3>2, <4>1
    <3>4. CASE Place[f] \in watched /\ ~stopped
      <4>1. queue \in Seq(Wat!Event)
        BY <1>0 DEF CurrentInv, WatcherInv, Shared!WInv, Shared!Event, Wat!Event
      <4>2. queue' = Append(queue, e)
        BY <3>2, <3>4 DEF Wat!Emit
      <4>3. Len(queue') \in 1..Len(queue') /\ queue'[Len(queue')].kind = "test"
        BY <3>1, <4>1, <4>2
      <4>4. Due'
        BY <4>3 DEF Due, TestQueued
      <4>5. noticed' = [noticed EXCEPT ![f] = edits + 1]
        BY <2>1, <3>2, <3>4 DEF EditTest
      <4>6. noticed' \in [File -> Nat] /\ \A h \in File : noticed'[h] <= disk'[h]
        BY <1>c, <3>2, <4>5
      <4>7. QED
        BY <3>3, <4>4, <4>6 DEF Attended
    <3>5. CASE ~(Place[f] \in watched /\ ~stopped)
      <4>1. noticed' = noticed /\ queue' = queue
        BY <2>1, <3>2, <3>5 DEF EditTest, Wat!Emit
      <4>2. \A h \in File : noticed'[h] <= disk'[h]
        BY <1>c, <3>2, <4>1
      <4>3. Current \/ Due => Current' \/ Due'
        BY <3>2, <4>1 DEF Current, Knows, Due, TestQueued
      <4>4. QED
        BY <1>c, <3>2, <3>3, <4>1, <4>2, <4>3 DEF Attended
    <3>6. QED
      BY <3>4, <3>5
  <2>2. ASSUME NEW e \in Wat!Event, Wat!Emit(Root, e), UNCHANGED <<edits, disk, paths, noticed, loaded, runAt>>
        PROVE Attended'
    <3>1. UNCHANGED <<stopped, callback>>
      BY <2>2 DEF Wat!Emit
    <3>2. TestQueued => TestQueued'
      BY <1>0, <2>2, EmitKeeps DEF CurrentInv
    <3>3. QED
      BY <1>k, <2>2, <3>1, <3>2 DEF Due
  <2>3. ASSUME NEW d \in Dir, MakeDir(d) PROVE Attended'
    BY <2>2, <2>3 DEF MakeDir, Wat!Event, runs
  <2>4. CASE EditOther
    BY <2>2, <2>4, CommandAssumption DEF EditOther, Wat!Event, world, runs
  <2>5. CASE Interrupt
    <3>1. UNCHANGED <<edits, disk, paths, noticed, loaded, stopped, queue, callback, runAt>>
      BY <2>5 DEF Interrupt, world, runs, wat
    <3>2. QED
      BY <1>k, <3>1 DEF Due, TestQueued
  <2>6. CASE Kill
    BY <1>g, <2>6 DEF Kill
  <2>7. ASSUME NEW o \in Options, NothingFound(o) \/ NothingFailed(o) PROVE Attended'
    <3>1. UNCHANGED <<edits, disk, paths, noticed, loaded, stopped, queue, callback, runAt>>
      BY <2>7 DEF NothingFound, NothingFailed, wat
    <3>2. QED
      BY <1>k, <3>1 DEF Due, TestQueued
  <2>8. ASSUME NEW o \in Options, Invoke(o) PROVE Attended'
    <3>1. paths' \subseteq File /\ UNCHANGED <<edits, disk, noticed, loaded>>
      BY <2>8 DEF Invoke
    <3>2. \A f \in File : noticed[f] = 0
      BY <1>0, <2>8 DEF Invoke, CurrentInv, Fresh, NoEdit
    <3>3. Current'
      BY <1>a, <1>c, <3>1, <3>2 DEF Current, Knows
    <3>4. QED
      BY <1>c, <3>1, <3>3 DEF Attended
  <2>9. QED
    BY <1>2, <2>1, <2>3, <2>4, <2>5, <2>6, <2>7, <2>8 DEF User
<1>3. CASE MainStep
  <2>1. CASE FirstRun
    <3>1. runAt'[0] = "loading" /\ UNCHANGED <<edits, disk, paths, noticed, loaded, stopped>>
      BY <1>a, <1>b, <2>1 DEF FirstRun, world, wat
    <3>2. QED
      BY <1>a, <1>k, <3>1 DEF Due
  <2>2. CASE ExitFailed \/ Exit
    BY <1>g, <2>2 DEF ExitFailed, Exit
  <2>3. CASE FinishRun \/ StartWatch \/ WatchFails
    <3>1. UNCHANGED <<edits, disk, paths, noticed, loaded, stopped, queue, callback, runAt>>
      BY <2>3 DEF FinishRun, StartWatch, WatchFails, ReturnFrom, Wat!New, world, runs, wat
    <3>2. QED
      BY <1>k, <3>1 DEF Due, TestQueued
  <2>4. CASE WatchHandle
    <3>1. UNCHANGED <<edits, disk, paths, noticed, loaded, stopped, runAt>>
      BY <2>4 DEF WatchHandle, Wat!Handle, Wat!HandleTest, Wat!HandleDir, Wat!HandleOther, world, runs
    <3>2. CASE Wat!HandleTest
      <4>1. timer + 1 \in Wat!Timer /\ callback' = [Wat!Disarmed EXCEPT ![timer + 1] = "armed"]
        BY <1>b, <3>2 DEF Wat!HandleTest, Wat!Timer
      <4>2. callback'[timer + 1] = "armed"
        BY <4>1 DEF Wat!Disarmed
      <4>3. QED
        BY <1>k, <3>1, <4>1, <4>2 DEF Due
    <3>3. CASE Wat!HandleDir \/ Wat!HandleOther
      <4>1. TestQueued => TestQueued'
        BY <1>0, <3>3, HandleKeeps DEF CurrentInv
      <4>2. callback' = callback
        BY <3>3 DEF Wat!HandleDir, Wat!HandleOther
      <4>3. QED
        BY <1>k, <3>1, <4>1, <4>2 DEF Due
    <3>4. QED
      BY <2>4, <3>2, <3>3 DEF WatchHandle, Wat!Handle
  <2>5. CASE WatchStop
    BY <1>c, <2>5 DEF WatchStop, ReturnFrom, Wat!StopAndReturn, Attended, world, runs
  <2>6. QED
    BY <1>3, <2>1, <2>2, <2>3, <2>4, <2>5 DEF MainStep
<1>4. ASSUME NEW a \in Adapter, WarmAsk(a) \/ WarmDone(a) PROVE Attended'
  <2>1. UNCHANGED <<edits, disk, paths, noticed, loaded, stopped, queue, callback, runAt>>
    BY <1>4 DEF WarmAsk, WarmDone, world, runs, wat
  <2>2. QED
    BY <1>k, <2>1 DEF Due, TestQueued
<1>5. ASSUME NEW r \in Run, RunStep(r) PROVE Attended'
  <2>1. CASE Load(r)
    <3>1. loaded' = [loaded EXCEPT ![r] = OnDisk] /\ UNCHANGED <<edits, disk, paths, noticed>>
      BY <2>1 DEF Load, world
    <3>2. OnDisk \in [File -> Nat] /\ \A f \in paths : OnDisk[f] >= noticed[f]
      BY <1>c DEF OnDisk
    <3>3. loaded' \in [Run -> [File -> Nat]] /\ loaded'[r] = OnDisk
      BY <1>c, <3>1, <3>2
    <3>4. Current'
      BY <3>1, <3>2, <3>3 DEF Current, Knows
    <3>5. QED
      BY <1>c, <3>1, <3>3, <3>4 DEF Attended
  <2>2. CASE ~Load(r)
    <3>1. /\ runAt[r] # "loading" /\ UNCHANGED <<edits, disk, paths, noticed, loaded, stopped, queue, callback>>
          /\ \A q \in Run \ {r} : runAt'[q] = runAt[q]
      BY <1>b, <1>5, <2>2 DEF RunStep, Finish, SaveNothing, SaveCreate, SaveFails, SaveWrite,
         AskAdapter, StepDone, Goes, world, wat
    <3>2. QED
      BY <1>k, <3>1 DEF Due, TestQueued
  <2>3. QED
    BY <2>1, <2>2
<1>6. ASSUME NEW p \in Goroutine, RegistryStep(p) PROVE Attended'
  <2>1. UNCHANGED <<edits, disk, paths, noticed, loaded, stopped, queue, callback, runAt>>
    BY <1>6 DEF RegistryStep, world, runs, wat
  <2>2. QED
    BY <1>k, <2>1 DEF Due, TestQueued
<1>7. ASSUME NEW i \in Wat!Timer, TimerStep(i) PROVE Attended'
  <2>1. UNCHANGED <<edits, disk, paths, noticed, loaded, stopped, queue>>
    BY <1>7 DEF TimerStep, CallRun, RunReturns, Wat!Fire, Wat!Check, Wat!Call, Wat!CallReturns,
       world, runs
  <2>2. CASE Wat!Fire(i) /\ runAt' = runAt
    BY <1>b, <1>k, <2>1, <2>2 DEF Wat!Fire, Due, TestQueued
  <2>3. CASE Wat!Check(i) /\ runAt' = runAt
    BY <1>b, <1>k, <2>1, <2>3 DEF Wat!Check, Due, TestQueued
  <2>4. CASE CallRun(i)
    <3>1. runAt'[i] = "loading"
      BY <1>a, <1>b, <2>4 DEF CallRun, Goes
    <3>2. QED
      BY <1>a, <1>k, <2>1, <3>1 DEF Due
  <2>5. CASE RunReturns(i)
    <3>1. /\ callback[i] = "calling" /\ \A j \in Wat!Timer \ {i} : callback'[j] = callback[j]
          /\ runAt[i] = "saved" /\ \A q \in Run \ {i} : runAt'[q] = runAt[q]
      BY <1>a, <1>b, <2>5 DEF RunReturns, Wat!CallReturns, Goes
    <3>2. QED
      BY <1>a, <1>k, <2>1, <3>1 DEF Due, TestQueued
  <2>6. QED
    BY <1>7, <2>2, <2>3, <2>4, <2>5 DEF TimerStep, runs
<1>8. QED
  BY <1>0, <1>1, <1>2, <1>3, <1>4, <1>5, <1>6, <1>7 DEF Next

\* Nothing has been edited, and nothing found.
LEMMA AttendedBegins == Init => Attended /\ Fresh
<1> SUFFICES ASSUME Init PROVE Attended /\ Fresh
  OBVIOUS
<1>1. /\ 0 \in Run /\ edits = 0 /\ paths = {} /\ noticed = NoEdit
      /\ disk = [f \in File |-> 0] /\ noticed = [f \in File |-> 0]
      /\ loaded = [r \in Run |-> [f \in File |-> 0]]
  BY CommandAssumption DEF Init, Run, NoEdit
<1>2. Current
  BY <1>1 DEF Current
<1>3. disk \in [File -> 0..edits] /\ noticed \in [File -> Nat] /\ \A f \in File : noticed[f] <= disk[f]
  BY <1>1
<1>4. loaded \in [Run -> [File -> Nat]]
  BY <1>1
<1> QED BY <1>1, <1>2, <1>3, <1>4 DEF Attended, Fresh

\* When the watcher has come to rest one run has loaded every file the process
\* found as it was after the last edit the watcher was told of, for any files,
\* edits, new directories and overlapping runs (watcher.go:166, run.go:165).
THEOREM CommandQuietIsCurrent == Spec => []QuietIsCurrent
<1>1. Init => CurrentInv
  BY AttendedBegins, ProcessBegins, WatcherKept DEF CurrentInv
<1>2. CurrentInv /\ [Next]_vars => CurrentInv'
  BY TypedStep, WatcherKept, FreshStep, AttendedStep DEF CurrentInv
<1>3. ASSUME CurrentInv, Quiet PROVE Current
  <2>1. 1..Len(queue) = {}
    BY <1>3 DEF Quiet
  <2>2. ~Due /\ ~stopped
    BY <1>3, <2>1 DEF Quiet, Due, TestQueued
  <2>3. QED
    BY <1>3, <2>2 DEF CurrentInv, Attended
<1>4. CurrentInv => QuietIsCurrent
  BY <1>3 DEF QuietIsCurrent, Current
<1>5. QED
  BY <1>1, <1>2, <1>4, PTL DEF Spec

-----------------------------------------------------------------------------
(* The rest of the types. *)

OtherTypes ==
  /\ main \in {"none", "warming", "first", "watching", "closing"}
  /\ warm \subseteq Adapter
  /\ ctxDone \in BOOLEAN
  /\ exit \in {"none", "0", "1", "error", "killed"}
  /\ invocations <= MaxInvocations
  /\ edits <= MaxChanges
  /\ \A r \in Run, f \in File : loaded[r][f] <= edits
  /\ selected \in [Run -> SUBSET Test]

CommandTypes == CurrentInv /\ OtherTypes

\* The types of the rest survive every step.
LEMMA OtherTypesStep == CommandTypes /\ [Next]_vars => OtherTypes'
<1>0. SUFFICES ASSUME CommandTypes, [Next]_vars PROVE OtherTypes'
  OBVIOUS
<1>a. /\ invocations \in Nat /\ edits \in Nat /\ disk \in [File -> 0..edits]
      /\ loaded \in [Run -> [File -> Nat]] /\ option \in Option
  BY <1>0 DEF CommandTypes, CurrentInv, Typed, Attended
<1>b. MaxInvocations \in Nat /\ MaxChanges \in Nat
  BY CommandAssumption
<1>c. [r \in Run |-> {}] \in [Run -> SUBSET Test] /\ \A r \in Run, f \in File : [q \in Run |-> NoEdit][r][f] = 0
  BY DEF NoEdit
<1> USE DEF CommandTypes, OtherTypes
<1>1. CASE UNCHANGED vars
  BY <1>0, <1>1 DEF vars, process, world, runs
<1>2. CASE User
  <2>1. ASSUME NEW f \in File, EditTest(f) PROVE OtherTypes'
    BY <1>0, <1>a, <1>b, <2>1 DEF EditTest, process, runs
  <2>2. ASSUME NEW d \in Dir, MakeDir(d) PROVE OtherTypes'
    BY <1>0, <2>2 DEF MakeDir, process, runs
  <2>3. CASE EditOther
    BY <1>0, <2>3 DEF EditOther, process, world, runs
  <2>4. CASE Interrupt
    BY <1>0, <2>4 DEF Interrupt, world, runs
  <2>5. CASE Kill
    <3>1. /\ main' = "none" /\ exit' = "killed" /\ warm' = {} /\ ctxDone' \in BOOLEAN
          /\ UNCHANGED <<invocations, edits>>
          /\ loaded' = [r \in Run |-> NoEdit] /\ selected' = [r \in Run |-> {}]
      BY <2>5 DEF Kill, Gone
    <3>2. QED
      BY <1>0, <1>a, <1>c, <3>1
  <2>6. ASSUME NEW o \in Options, Invoke(o) PROVE OtherTypes'
    BY <1>0, <1>a, <1>b, <2>6 DEF Invoke
  <2>7. ASSUME NEW o \in Options, NothingFound(o) \/ NothingFailed(o) PROVE OtherTypes'
    BY <1>0, <1>a, <1>b, <2>7 DEF NothingFound, NothingFailed
  <2>8. QED
    BY <1>2, <2>1, <2>2, <2>3, <2>4, <2>5, <2>6, <2>7 DEF User
<1>3. CASE MainStep
  <2>1. CASE ExitFailed
    <3>1. /\ main' = "none" /\ exit' \in {"1"} /\ warm' = {} /\ ctxDone' \in BOOLEAN
          /\ UNCHANGED <<invocations, edits>>
          /\ loaded' = [r \in Run |-> NoEdit] /\ selected' = [r \in Run |-> {}]
      BY <2>1 DEF ExitFailed, Gone
    <3>2. QED
      BY <1>0, <1>a, <1>c, <3>1
  <2>2. CASE Exit
    <3>1. /\ main' = "none" /\ exit' \in {"0", "error"} /\ warm' = {} /\ ctxDone' \in BOOLEAN
          /\ UNCHANGED <<invocations, edits>>
          /\ loaded' = [r \in Run |-> NoEdit] /\ selected' = [r \in Run |-> {}]
      BY <2>2 DEF Exit, Gone
    <3>2. QED
      BY <1>0, <1>a, <1>c, <3>1
  <2>3. CASE FirstRun \/ FinishRun \/ StartWatch \/ WatchFails \/ WatchHandle \/ WatchStop
    BY <1>0, <2>3 DEF FirstRun, FinishRun, StartWatch, WatchFails, WatchHandle, WatchStop, ReturnFrom,
       process, world, runs
  <2>4. QED
    BY <1>3, <2>1, <2>2, <2>3 DEF MainStep
<1>4. ASSUME NEW a \in Adapter, WarmAsk(a) \/ WarmDone(a) PROVE OtherTypes'
  BY <1>0, <1>4 DEF WarmAsk, WarmDone, process, world, runs
<1>5. ASSUME NEW r \in Run, RunStep(r) PROVE OtherTypes'
  <2>1. CASE Load(r)
    <3>1. \A c \in SUBSET option.keep : c \in SUBSET Test
      BY <1>a DEF Option
    <3>2. selected' \in [Run -> SUBSET Test]
      BY <1>0, <2>1, <3>1 DEF Load
    <3>3. loaded' = [loaded EXCEPT ![r] = OnDisk] /\ UNCHANGED <<process, world>>
      BY <2>1 DEF Load
    <3>4. \A f \in File : OnDisk[f] <= edits
      BY <1>a DEF OnDisk
    <3>5. \A q \in Run, f \in File : loaded'[q][f] <= edits
      BY <1>0, <1>a, <3>3, <3>4
    <3>6. QED
      BY <1>0, <3>2, <3>3, <3>5 DEF process, world
  <2>2. CASE ~Load(r)
    BY <1>0, <1>5, <2>2 DEF RunStep, Finish, SaveNothing, SaveCreate, SaveFails, SaveWrite, AskAdapter,
       StepDone, process, world
  <2>3. QED
    BY <2>1, <2>2
<1>6. ASSUME NEW p \in Goroutine, RegistryStep(p) PROVE OtherTypes'
  BY <1>0, <1>6 DEF RegistryStep, process, world, runs
<1>7. ASSUME NEW i \in Wat!Timer, TimerStep(i) PROVE OtherTypes'
  <2>1. UNCHANGED <<process, world, loaded>> /\ selected' \in {selected, [selected EXCEPT ![i] = {}]}
    BY <1>7 DEF TimerStep, CallRun, RunReturns, runs
  <2>2. selected' \in [Run -> SUBSET Test]
    BY <1>0, <2>1
  <2>3. QED
    BY <1>0, <2>1, <2>2 DEF process, world
<1>8. QED
  BY <1>0, <1>1, <1>2, <1>3, <1>4, <1>5, <1>6, <1>7 DEF Next

\* The first state.
LEMMA CommandTypesBegin == Init => Attended /\ Fresh /\ OtherTypes
<1>1. ASSUME Init PROVE OtherTypes
  <2>1. MaxInvocations \in Nat /\ MaxChanges \in Nat
    BY CommandAssumption
  <2>2. /\ main = "none" /\ warm = {} /\ ctxDone \in BOOLEAN /\ exit = "none" /\ invocations = 0 /\ edits = 0
        /\ loaded = [r \in Run |-> NoEdit] /\ selected = [r \in Run |-> {}]
    BY <1>1 DEF Init
  <2>3. selected \in [Run -> SUBSET Test] /\ \A r \in Run, f \in File : loaded[r][f] = 0
    BY <2>2 DEF NoEdit
  <2>4. QED
    BY <2>1, <2>2, <2>3 DEF OtherTypes
<1>2. QED
  BY <1>1, AttendedBegins

\* Every state of the command is well typed, its registry's and its watcher's
\* part included.
THEOREM CommandTypeCorrect == Spec => []TypeOK
<1>1. Init => CommandTypes /\ Shared!RInv
  BY CommandTypesBegin, ProcessBegins, WatcherKept, RegistryKept DEF CommandTypes, CurrentInv
<1>2. CommandTypes /\ [Next]_vars => CommandTypes'
  BY TypedStep, WatcherKept, FreshStep, AttendedStep, OtherTypesStep DEF CommandTypes, CurrentInv
<1>3. ASSUME CommandTypes, Shared!RInv PROVE TypeOK
  <2>1. Reg!RTypeOK
    BY <1>3 DEF Shared!RInv, Shared!RTypeOK, Reg!RTypeOK
  <2>2. Wat!WTypeOK /\ dirs \subseteq Dir
    BY <1>3 DEF CommandTypes, CurrentInv, WatcherInv, Shared!WInv, Shared!Debounced,
       Shared!Event, Shared!Timer, Wat!WTypeOK, Wat!Event, Wat!Timer
  <2>3. invocations \in 0..MaxInvocations /\ edits \in 0..MaxChanges
    BY <1>3, CommandAssumption DEF CommandTypes, CurrentInv, Typed, Attended, OtherTypes
  <2>4. disk \in [File -> 0..edits] /\ noticed \in [File -> 0..edits] /\ paths \subseteq File
    <3>1. /\ edits \in Nat /\ disk \in [File -> 0..edits] /\ paths \subseteq File
          /\ noticed \in [File -> Nat] /\ \A f \in File : noticed[f] <= disk[f]
      BY <1>3 DEF CommandTypes, CurrentInv, Attended
    <3>2. \A f \in File : noticed[f] \in 0..edits
      BY <3>1
    <3> QED BY <3>1, <3>2
  <2>5. loaded \in [Run -> [File -> 0..edits]]
    <3>1. /\ edits \in Nat /\ loaded \in [Run -> [File -> Nat]]
          /\ \A r \in Run, f \in File : loaded[r][f] <= edits
      BY <1>3 DEF CommandTypes, CurrentInv, Attended, OtherTypes
    <3>2. \A r \in Run : loaded[r] \in [File -> 0..edits]
      BY <3>1
    <3> QED BY <3>1, <3>2
  <2>6. QED
    BY <1>3, <2>1, <2>2, <2>3, <2>4, <2>5 DEF TypeOK, CommandTypes, CurrentInv, Typed, Attended, OtherTypes
<1>4. CommandTypes /\ Shared!RInv => TypeOK
  BY <1>3
<1>5. QED
  BY <1>1, <1>2, <1>4, RegistryKept, PTL DEF Spec

-----------------------------------------------------------------------------
(* Progress.  What InterruptReturns rests on, besides fairness.                  *)

\* Where the main goroutine is in the registry, for the step of its own run or for
\* CloseAll, and in the watcher.
MainPlaced ==
  /\ main = "closing" => at[0] \in {"out", "askingClose", "closing"}
  /\ main # "closing" => /\ at[0] = "out" <=> runAt[0] # "stepping"
                         /\ at[0] \notin {"askingClose", "closing"}
  /\ main = "first" => runAt[0] # "off"
  /\ main \in {"watching", "closing"} => runAt[0] = "saved"
  /\ main = "watching" => loop = "running"

PlacedInv == CommandTypes /\ Alone /\ MainPlaced /\ Shared!RInv

\* The guards of Inside: a goroutine with the mutex has an answer for every name.
RegistryCanMove ==
  \E p \in Goroutine : \/ at[p] \in {"getting", "closing"}
                       \/ at[p] \in {"asking", "askingClose"} /\ holder = Nobody

\* The guards of WarmAsk and WarmDone.
WarmCanMove == \E a \in warm : at[a] \in {"out", "using", "refused"}

\* The guards of the first run.
FirstCanMove ==
  \/ runAt[0] \in {"loading", "finished", "saving"}
  \/ runAt[0] \in {"testing", "tested"} /\ PossibleVerdicts(SuiteOf(selected[0]), ctxDone) # {}
  \/ runAt[0] = "stepping" /\ at[0] \in {"using", "refused"}

\* The guards of MainStep.
MainCanMove ==
  \/ main = "warming" /\ warm = {}
  \/ main = "first" /\ runAt[0] = "saved" /\ at[0] = "out"
  \/ main = "watching" /\ ctxDone /\ loop = "running" /\ at[0] = "out"
  \/ main = "closing" /\ at[0] = "out"

\* A process that does not watch, or is interrupted, can go on to its end.
ProcessNeverStuck ==
  main # "none" /\ (main = "watching" => ctxDone) =>
    RegistryCanMove \/ WarmCanMove \/ FirstCanMove \/ MainCanMove

\* Every step keeps the main goroutine where it may be.
LEMMA MainPlacedStep == PlacedInv /\ [Next]_vars => MainPlaced'
<1>0. SUFFICES ASSUME PlacedInv, [Next]_vars PROVE MainPlaced'
  OBVIOUS
<1>a. 0 \in Run /\ Wat!Timer \subseteq Run /\ 0 \notin Wat!Timer
  BY CommandAssumption DEF Run, Wat!Timer
<1>c. Adapter \cap Run = {} /\ Goroutine = Run \cup Adapter
  BY CommandAssumption DEF Goroutine
<1>d. /\ at \in [Goroutine -> {"out", "asking", "askingClose", "getting", "closing", "using", "refused"}]
      /\ runAt \in [Run -> {"off", "loading", "testing", "stepping", "tested", "finished",
                            "saving", "saved"}]
      /\ main \in {"none", "warming"} => runAt[0] = "off"
      /\ MainPlaced
  BY <1>0 DEF PlacedInv, CommandTypes, CurrentInv, Shared!RInv, Shared!RTypeOK, Typed, Alone
<1>e. ASSUME UNCHANGED <<main, at[0], runAt[0]>>, main = "watching" => loop' = loop
      PROVE  MainPlaced'
  BY <1>d, <1>e DEF MainPlaced
<1>1. CASE UNCHANGED vars
  BY <1>1, <1>e DEF vars, process, runs, reg, wat
<1>2. CASE User
  <2>1. CASE (\E f \in File : EditTest(f)) \/ (\E d \in Dir : MakeDir(d)) \/ EditOther \/ Interrupt
    BY <1>e, <2>1 DEF EditTest, MakeDir, EditOther, Interrupt, Wat!Emit, process, runs, reg, wat
  <2>2. CASE Kill
    BY <1>a, <1>c, <2>2 DEF Kill, Gone, Reg!RRestart, MainPlaced
  <2>3. CASE \E o \in Options : Invoke(o) \/ NothingFound(o) \/ NothingFailed(o)
    BY <1>d, <2>3 DEF Invoke, NothingFound, NothingFailed, MainPlaced, reg
  <2> QED BY <1>2, <2>1, <2>2, <2>3 DEF User
<1>3. CASE MainStep
  <2>1. CASE FirstRun
    BY <1>a, <1>d, <2>1 DEF FirstRun, MainPlaced, reg
  <2>2. CASE ExitFailed \/ Exit
    BY <1>a, <1>c, <2>2 DEF ExitFailed, Exit, Gone, Reg!RRestart, MainPlaced
  <2>3. CASE FinishRun \/ WatchFails \/ WatchStop
    <3>1. /\ main' = "closing" /\ at' = [at EXCEPT ![0] = "askingClose"] /\ runAt' = runAt
          /\ runAt[0] = "saved"
      BY <1>d, <2>3 DEF FinishRun, WatchFails, WatchStop, ReturnFrom, Reg!AskClose, Reg!Move, runs, MainPlaced
    <3> QED BY <1>a, <1>c, <1>d, <3>1 DEF MainPlaced
  <2>4. CASE StartWatch
    BY <1>d, <2>4 DEF StartWatch, Wat!New, MainPlaced, runs, reg
  <2>5. CASE WatchHandle
    BY <1>e, <2>5 DEF WatchHandle, Wat!Handle, Wat!HandleTest, Wat!HandleDir, Wat!HandleOther,
                      process, runs, reg
  <2> QED BY <1>3, <2>1, <2>2, <2>3, <2>4, <2>5 DEF MainStep
<1>4. CASE \E a \in Adapter : WarmAsk(a) \/ WarmDone(a)
  BY <1>a, <1>c, <1>d, <1>e, <1>4
  DEF WarmAsk, WarmDone, Reg!Ask, Reg!Return, Reg!Move, process, runs, wat
<1>5. ASSUME NEW r \in Run, RunStep(r) PROVE MainPlaced'
  <2>1. CASE r # 0
    BY <1>a, <1>c, <1>d, <1>e, <1>5, <2>1
    DEF RunStep, Load, Finish, SaveNothing, SaveCreate, SaveFails, SaveWrite, AskAdapter, StepDone,
        Reg!Ask, Reg!Return, Reg!Move, Goes, process, reg, wat
  <2>2. CASE r = 0
    <3>1. UNCHANGED <<main, loop>>
      BY <1>5 DEF RunStep, Load, Finish, SaveNothing, SaveCreate, SaveFails, SaveWrite, AskAdapter,
                  StepDone, process, wat
    <3>2. CASE Load(0) \/ Finish(0) \/ SaveNothing(0) \/ SaveCreate(0) \/ SaveFails(0) \/ SaveWrite(0)
      <4>1. /\ runAt[0] \notin {"off", "saved", "stepping"} /\ runAt'[0] \notin {"off", "stepping"}
            /\ at' = at
        BY <1>a, <1>d, <3>2 DEF Load, Finish, SaveNothing, SaveCreate, SaveFails, SaveWrite, Goes, reg
      <4> QED BY <1>d, <3>1, <4>1 DEF MainPlaced
    <3>3. CASE \E n \in Name : AskAdapter(0, n)
      <4>1. runAt[0] = "testing" /\ runAt'[0] = "stepping" /\ at'[0] = "asking"
        BY <1>a, <1>c, <1>d, <3>3 DEF AskAdapter, Reg!Ask, Reg!Move, Goes
      <4> QED BY <1>d, <3>1, <4>1 DEF MainPlaced
    <3>4. CASE StepDone(0)
      <4>1. runAt[0] = "stepping" /\ runAt'[0] = "tested" /\ at'[0] = "out"
        BY <1>a, <1>c, <1>d, <3>4 DEF StepDone, Reg!Return, Reg!Move, Goes
      <4> QED BY <1>d, <3>1, <4>1 DEF MainPlaced
    <3> QED BY <1>5, <2>2, <3>2, <3>3, <3>4 DEF RunStep
  <2> QED BY <2>1, <2>2
<1>6. ASSUME NEW p \in Goroutine, RegistryStep(p) PROVE MainPlaced'
  <2>1. UNCHANGED <<main, runAt, loop>>
    BY <1>6 DEF RegistryStep, process, runs, wat
  <2>2. /\ p # 0 => at'[0] = at[0]
        /\ p = 0 => \/ at[0] = "asking" /\ at'[0] = "getting"
                    \/ at[0] = "askingClose" /\ at'[0] = "closing"
                    \/ at[0] = "getting" /\ at'[0] \in {"using", "refused"}
                    \/ at[0] = "closing" /\ at'[0] \in {"closing", "out"}
    BY <1>a, <1>c, <1>d, <1>6
    DEF RegistryStep, Reg!Inside, Reg!Lock, Reg!GetUnknown, Reg!GetConnected, Reg!Connect,
        Reg!ConnectFails, Reg!CloseOne, Reg!CloseDone, Reg!Leave, Reg!Move
  <2> QED BY <1>d, <2>1, <2>2 DEF MainPlaced
<1>7. ASSUME NEW i \in Wat!Timer, TimerStep(i) PROVE MainPlaced'
  BY <1>a, <1>d, <1>e, <1>7
  DEF TimerStep, CallRun, RunReturns, Goes, Wat!Fire, Wat!Check, Wat!Call, Wat!CallReturns, process, runs, reg
<1> QED BY <1>0, <1>1, <1>2, <1>3, <1>4, <1>5, <1>6, <1>7 DEF Next

\* There are verdicts to return for any tests, whatever they depend on.
LEMMA VerdictsExist ==
  ASSUME NEW tests, NEW interrupted
  PROVE  PossibleVerdicts(SuiteOf(tests), interrupted) # {}
<1> DEFINE s == SuiteOf(tests)
           v == [t \in tests |-> IF \E d \in Depends[t] : d \notin tests THEN "skipped" ELSE "passed"]
<1>1. s.tests = tests /\ s.depends = Depends /\ s.skip = {}
  BY DEF SuiteOf
<1>2. v \in [s.tests -> {"passed", "failed", "skipped"}]
  BY <1>1
<1>3. ASSUME NEW t \in tests
      PROVE  Justified(s, interrupted, v, t)
  <2>1. IsBarred(s, v, t) <=> \E d \in Depends[t] : d \notin tests
    BY <1>1 DEF IsBarred
  <2> QED BY <1>1, <2>1 DEF Justified
<1> HIDE DEF s, v
<1>4. v \in PossibleVerdicts(s, interrupted)
  BY <1>1, <1>2, <1>3 DEF PossibleVerdicts
<1> QED BY <1>4 DEF s

\* Where the main goroutine is, in every state.
LEMMA PlacedInvariant == Spec => []PlacedInv
<1>1. Init => MainPlaced
  BY CommandAssumption DEF Init, MainPlaced, Reg!RInit, Goroutine, Run
<1>2. Init => PlacedInv
  <2>1. Init => Attended /\ Fresh /\ OtherTypes
    BY CommandTypesBegin
  <2> QED BY <1>1, <2>1, ProcessBegins, WatcherKept, RegistryKept DEF PlacedInv, CommandTypes, CurrentInv
<1>3. PlacedInv /\ [Next]_vars => PlacedInv'
  BY TypedStep, AloneStep, WatcherKept, FreshStep, AttendedStep, OtherTypesStep, MainPlacedStep, RegistryKept
  DEF PlacedInv, CommandTypes, CurrentInv
<1> QED BY <1>2, <1>3, PTL DEF Spec

\* Until the process is gone some goroutine of it can move, unless it watches and
\* nobody has interrupted it: the mutex of the registry, which is held while an
\* adapter connects, never makes all wait, and CloseAll is reached with nobody of
\* the main goroutine in the registry (run.go:219, registry.go:46).
THEOREM CommandIsNeverStuck == Spec => []ProcessNeverStuck
<1>1. PlacedInv => ProcessNeverStuck
  <2> SUFFICES ASSUME PlacedInv, main # "none", main = "watching" => ctxDone, ~RegistryCanMove,
                      ~WarmCanMove, ~FirstCanMove
               PROVE  MainCanMove
    BY DEF ProcessNeverStuck
  <2>1. 0 \in Goroutine /\ Adapter \subseteq Goroutine
    BY CommandAssumption DEF Goroutine, Run
  <2>2. \A p \in Goroutine : at[p] \in {"out", "using", "refused"}
    <3>1. /\ at \in [Goroutine -> {"out", "asking", "askingClose", "getting", "closing", "using",
                                   "refused"}]
          /\ holder \in Goroutine \cup {Nobody}
          /\ \A p \in Goroutine : at[p] \in {"getting", "closing"} <=> holder = p
      BY DEF PlacedInv, Shared!RInv, Shared!RTypeOK, Shared!MutexHeld
    <3>2. holder = Nobody
      BY <3>1 DEF RegistryCanMove
    <3> QED BY <3>1, <3>2 DEF RegistryCanMove
  <2>3. MainPlaced /\ main \in {"warming", "first", "watching", "closing"}
    BY DEF PlacedInv, CommandTypes, OtherTypes
  <2>4. CASE main = "warming"
    <3>1. warm \subseteq Adapter
      BY DEF PlacedInv, CommandTypes, OtherTypes
    <3>2. warm = {}
      BY <2>2, <2>1, <3>1 DEF WarmCanMove
    <3> QED BY <2>4, <3>2 DEF MainCanMove
  <2>5. CASE main = "first"
    <3>1. runAt[0] \in {"loading", "testing", "stepping", "tested", "finished", "saving", "saved"}
      BY <2>3, <2>5, CommandAssumption DEF MainPlaced, PlacedInv, CommandTypes, CurrentInv, Typed, Run
    <3>2. runAt[0] \notin {"testing", "tested"}
      BY VerdictsExist DEF FirstCanMove
    <3>3. runAt[0] # "stepping"
      BY <2>1, <2>2, <2>3, <2>5 DEF FirstCanMove, MainPlaced
    <3>4. runAt[0] = "saved" /\ at[0] = "out"
      BY <2>3, <2>5, <3>1, <3>2, <3>3 DEF FirstCanMove, MainPlaced
    <3> QED BY <2>5, <3>4 DEF MainCanMove
  <2>6. CASE main \in {"watching", "closing"}
    BY <2>1, <2>2, <2>3, <2>6 DEF MainCanMove, MainPlaced
  <2> QED BY <2>3, <2>4, <2>5, <2>6
<1> QED BY <1>1, PlacedInvariant, PTL

\* The changes of test files that the watcher has not handled yet.
TestsIn(q) == {k \in 1..Len(q) : q[k].kind = "test"}

\* An edit arms one timer at the most.
TimersBounded == timer + Cardinality(TestsIn(queue)) <= edits

\* The guards of what leads from an edit to a run: those of Handle, with the bound on
\* timers, of Fire, Check and Call, and of Load.
WatcherCanMove ==
  \/ loop = "running" /\ queue # << >> /\ (Head(queue).kind = "test" => timer < MaxChanges)
  \/ \E i \in Wat!Timer : callback[i] \in {"armed", "fired", "checked"}
  \/ \E r \in Run : runAt[r] = "loading"

\* As long as no run has loaded all the files that were found as the watcher was
\* told of them, something brings it to a run ...
EditNeverStuck ==
  main = "watching" /\ (\A r \in Run : \E f \in paths : ~Knows(r, f)) => WatcherCanMove

\* ... and the run that loads next is one that has.
LoadIsCurrent == \A r \in Run : Load(r) => \A f \in paths : Knows(r, f)'

\* The events of a queue are finite in number.
LEMMA TestsFinite ==
  ASSUME NEW q \in Seq(Wat!Event)
  PROVE  IsFiniteSet(TestsIn(q)) /\ Cardinality(TestsIn(q)) \in Nat
<1>1. Len(q) \in Nat
  OBVIOUS
<1>2. IsFiniteSet(1..Len(q))
  BY <1>1, FS_Interval
<1>3. TestsIn(q) \subseteq 1..Len(q)
  BY DEF TestsIn
<1> QED BY <1>2, <1>3, FS_Subset, FS_CardinalityType

\* An event is added.
LEMMA TestsAppend ==
  ASSUME NEW q \in Seq(Wat!Event), NEW e \in Wat!Event
  PROVE  Cardinality(TestsIn(Append(q, e))) =
           IF e.kind = "test" THEN Cardinality(TestsIn(q)) + 1 ELSE Cardinality(TestsIn(q))
<1>1. /\ Len(q) \in Nat /\ Len(Append(q, e)) = Len(q) + 1
      /\ \A k \in 1..Len(q) : Append(q, e)[k] = q[k]
      /\ Append(q, e)[Len(q) + 1] = e
  OBVIOUS
<1>2. TestsIn(Append(q, e)) = IF e.kind = "test" THEN TestsIn(q) \cup {Len(q) + 1} ELSE TestsIn(q)
  BY <1>1 DEF TestsIn
<1>3. Len(q) + 1 \notin TestsIn(q)
  BY <1>1 DEF TestsIn
<1>4. IsFiniteSet(TestsIn(q)) /\ Cardinality(TestsIn(q)) \in Nat
  BY TestsFinite
<1>5. Cardinality(TestsIn(q) \cup {Len(q) + 1}) = Cardinality(TestsIn(q)) + 1
  BY <1>3, <1>4, FS_AddElement
<1> QED BY <1>2, <1>5

\* An event is taken off.
LEMMA TestsTail ==
  ASSUME NEW q \in Seq(Wat!Event), q # << >>
  PROVE  Cardinality(TestsIn(Tail(q))) =
           IF Head(q).kind = "test" THEN Cardinality(TestsIn(q)) - 1 ELSE Cardinality(TestsIn(q))
<1> DEFINE rest == TestsIn(q) \ {1}
           f == [k \in TestsIn(Tail(q)) |-> k + 1]
<1>1. /\ Len(q) \in Nat /\ Len(q) >= 1 /\ Tail(q) \in Seq(Wat!Event) /\ Len(Tail(q)) = Len(q) - 1
      /\ \A k \in 1..Len(q) - 1 : Tail(q)[k] = q[k + 1]
      /\ Head(q) = q[1]
  OBVIOUS
<1>2. IsFiniteSet(TestsIn(q)) /\ IsFiniteSet(TestsIn(Tail(q))) /\ Cardinality(TestsIn(q)) \in Nat
  BY <1>1, TestsFinite
<1>3. \A k \in TestsIn(Tail(q)) : k \in Nat /\ k >= 1 /\ k + 1 \in rest
  BY <1>1 DEF TestsIn
<1>4. \A m \in rest : m - 1 \in TestsIn(Tail(q)) /\ f[m - 1] = m
  BY <1>1 DEF TestsIn
<1>5. f \in Bijection(TestsIn(Tail(q)), rest)
  <2>1. f \in [TestsIn(Tail(q)) -> rest]
    BY <1>3
  <2>2. \A k, l \in TestsIn(Tail(q)) : f[k] = f[l] => k = l
    BY <1>3
  <2> HIDE DEF f
  <2>3. \A m \in rest : \E k \in TestsIn(Tail(q)) : f[k] = m
    BY <1>4
  <2> QED BY <2>1, <2>2, <2>3 DEF Bijection, Injection, Surjection, IsInjective
<1>6. Cardinality(TestsIn(Tail(q))) = Cardinality(rest)
  <2>1. ExistsBijection(TestsIn(Tail(q)), rest)
    BY <1>5 DEF ExistsBijection
  <2> QED BY <1>2, <2>1, FS_Bijection
<1>7. Head(q).kind = "test" <=> 1 \in TestsIn(q)
  BY <1>1 DEF TestsIn
<1>8. Cardinality(rest) = IF 1 \in TestsIn(q) THEN Cardinality(TestsIn(q)) - 1 ELSE Cardinality(TestsIn(q))
  BY <1>2, FS_RemoveElement
<1> QED BY <1>6, <1>7, <1>8

\* No step arms a timer without an edit.
LEMMA TimersStep == CurrentInv /\ TimersBounded /\ [Next]_vars => TimersBounded'
<1> SUFFICES ASSUME CurrentInv, TimersBounded, [Next]_vars PROVE TimersBounded'
  OBVIOUS
<1> DEFINE Tests(q) == Cardinality(TestsIn(q))
<1>1. queue \in Seq(Wat!Event) /\ timer \in Nat /\ edits \in Nat /\ timer + Tests(queue) <= edits
  BY CommandAssumption
  DEF CurrentInv, WatcherInv, Shared!WInv, Shared!Debounced, Shared!Event, Wat!Event, Attended, TimersBounded
<1>2. Tests(queue) \in Nat
  BY <1>1, TestsFinite
<1>3. TestsIn(<< >>) = {} /\ Tests(<< >>) = 0
  BY FS_EmptySet DEF TestsIn
<1> HIDE DEF Tests
<1>4. ASSUME UNCHANGED <<queue, timer, edits>> PROVE TimersBounded'
  BY <1>4 DEF TimersBounded
<1>5. ASSUME queue' = << >>, timer' <= timer, timer' \in Nat, edits' = edits PROVE TimersBounded'
  BY <1>1, <1>2, <1>3, <1>5 DEF TimersBounded, Tests
<1>6. ASSUME NEW e \in Wat!Event, queue' = Append(queue, e) \/ queue' = queue, timer' = timer,
             edits' = (IF e.kind = "test" THEN edits + 1 ELSE edits)
      PROVE  TimersBounded'
  <2>1. Tests(Append(queue, e)) = IF e.kind = "test" THEN Tests(queue) + 1 ELSE Tests(queue)
    BY <1>1, TestsAppend DEF Tests
  <2>2. timer' + Tests(queue') <= edits'
    <3>1. CASE queue' = queue
      BY <1>1, <1>2, <1>6, <3>1
    <3>2. CASE queue' = Append(queue, e)
      BY <1>1, <1>2, <1>6, <2>1, <3>2
    <3> QED BY <1>6, <3>1, <3>2
  <2> QED BY <2>2 DEF TimersBounded, Tests
<1>7. CASE UNCHANGED vars
  BY <1>4, <1>7 DEF vars, world, wat
<1>8. ASSUME NEW code, Gone(code) PROVE TimersBounded'
  BY <1>1, <1>5, <1>8 DEF Gone, Wat!WRestart
<1>9. ASSUME NEW f \in File, EditTest(f) PROVE TimersBounded'
  <2> DEFINE e == [kind |-> "test", dir |-> Place[f]]
  <2>1. e \in Wat!Event /\ e.kind = "test" /\ edits' = edits + 1 /\ timer' = timer
        /\ (queue' = Append(queue, e) \/ queue' = queue)
    BY <1>9, CommandAssumption DEF EditTest, Wat!Emit, Wat!Event
  <2> HIDE DEF e
  <2> QED BY <1>6, <2>1
<1>10. ASSUME NEW d \in Dir, MakeDir(d) PROVE TimersBounded'
  <2> DEFINE e == [kind |-> "dir", dir |-> d]
  <2>1. e \in Wat!Event /\ e.kind # "test" /\ edits' = edits /\ timer' = timer
        /\ (queue' = Append(queue, e) \/ queue' = queue)
    BY <1>10 DEF MakeDir, Wat!Emit, Wat!Event
  <2> HIDE DEF e
  <2> QED BY <1>6, <2>1
<1>11. CASE EditOther
  <2> DEFINE e == [kind |-> "other", dir |-> Root]
  <2>1. e \in Wat!Event /\ e.kind # "test" /\ edits' = edits /\ timer' = timer
        /\ (queue' = Append(queue, e) \/ queue' = queue)
    BY <1>11, CommandAssumption DEF EditOther, Wat!Emit, Wat!Event, world
  <2> HIDE DEF e
  <2> QED BY <1>6, <2>1
<1>12. CASE WatchHandle
  <2>1. queue # << >> /\ queue' = Tail(queue) /\ edits' = edits
    BY <1>12 DEF WatchHandle, Wat!Handle, Wat!HandleTest, Wat!HandleDir, Wat!HandleOther, world
  <2>2. timer' = IF Head(queue).kind = "test" THEN timer + 1 ELSE timer
    BY <1>12 DEF WatchHandle, Wat!Handle, Wat!HandleTest, Wat!HandleDir, Wat!HandleOther
  <2>3. Tests(queue') = IF Head(queue).kind = "test" THEN Tests(queue) - 1 ELSE Tests(queue)
    BY <1>1, <2>1, TestsTail DEF Tests
  <2>4. timer' + Tests(queue') <= edits'
    BY <1>1, <1>2, <2>1, <2>2, <2>3
  <2> QED BY <2>4 DEF TimersBounded, Tests
<1>13. CASE WatchStop
  BY <1>1, <1>5, <1>13 DEF WatchStop, ReturnFrom, Wat!StopAndReturn, world
<1>14. CASE Interrupt \/ (\E o \in Options : Invoke(o) \/ NothingFound(o) \/ NothingFailed(o)) \/ FirstRun \/ FinishRun
            \/ StartWatch \/ WatchFails
  BY <1>4, <1>14 DEF Interrupt, Invoke, NothingFound, NothingFailed, FirstRun, FinishRun, StartWatch, WatchFails,
                     ReturnFrom, Wat!New, world, wat
<1>15. CASE (\E a \in Adapter : WarmAsk(a) \/ WarmDone(a)) \/ \E p \in Goroutine : RegistryStep(p)
  BY <1>4, <1>15 DEF WarmAsk, WarmDone, RegistryStep, world, wat
<1>16. CASE \E r \in Run : RunStep(r)
  BY <1>4, <1>16 DEF RunStep, Load, Finish, SaveNothing, SaveCreate, SaveFails, SaveWrite, AskAdapter,
                     StepDone, world, wat
<1>17. CASE \E i \in Wat!Timer : TimerStep(i)
  BY <1>4, <1>17 DEF TimerStep, CallRun, RunReturns, Wat!Fire, Wat!Check, Wat!Call, Wat!CallReturns, world
<1>18. CASE User
  BY <1>8, <1>9, <1>10, <1>11, <1>14, <1>18 DEF User, Kill
<1>19. CASE MainStep
  BY <1>8, <1>12, <1>13, <1>14, <1>19 DEF MainStep, ExitFailed, Exit
<1> QED BY <1>7, <1>15, <1>16, <1>17, <1>18, <1>19 DEF Next

\* An edit the watcher was told of, of a file the process found, can always be brought
\* to a run: the events before it are handled, a timer fires, its callback runs the
\* suite, and the bound on timers never keeps an event from being handled.  The run
\* that loads next loads that edit, or a later one (watcher.go:166, run.go:165).
THEOREM CommandEditsGoOn ==
  Spec => [](TimersBounded /\ EditNeverStuck) /\ [][LoadIsCurrent]_vars
<1>1. Init => TimersBounded
  <2> SUFFICES ASSUME Init PROVE TimersBounded
    OBVIOUS
  <2>1. queue = << >> /\ timer = 0 /\ edits = 0
    BY DEF Init, Wat!WInit
  <2>2. TestsIn(<< >>) = {} /\ Cardinality({}) = 0
    BY FS_EmptySet DEF TestsIn
  <2>3. Cardinality(TestsIn(queue)) = 0
    BY <2>1, <2>2
  <2> QED BY <2>1, <2>3 DEF TimersBounded
<1>2. PlacedInv /\ TimersBounded => EditNeverStuck
  <2> SUFFICES ASSUME PlacedInv, TimersBounded, main = "watching",
                      \A r \in Run : \E f \in paths : ~Knows(r, f)
               PROVE  WatcherCanMove
    BY DEF EditNeverStuck
  <2>1. /\ queue \in Seq(Wat!Event) /\ timer \in Nat /\ edits \in Nat /\ edits <= MaxChanges
    BY CommandAssumption
    DEF PlacedInv, CommandTypes, OtherTypes, CurrentInv, WatcherInv, Shared!WInv, Shared!Debounced,
        Shared!Event, Wat!Event, Attended
  <2>2. loop = "running" /\ ~stopped
    BY DEF PlacedInv, MainPlaced, CommandTypes, CurrentInv, WatcherInv, Shared!WInv, Shared!Debounced
  <2>3. Due
    BY <2>1, <2>2 DEF PlacedInv, CommandTypes, CurrentInv, Attended, Current
  <2>4. CASE TestQueued
    <3>1. queue # << >>
      BY <2>4 DEF TestQueued
    <3>2. ASSUME Head(queue).kind = "test" PROVE timer < MaxChanges
      <4>1. IsFiniteSet(TestsIn(queue)) /\ Cardinality(TestsIn(queue)) \in Nat
        BY <2>1, TestsFinite
      <4>2. 1 \in TestsIn(queue)
        BY <2>1, <3>1, <3>2 DEF TestsIn
      <4>3. Cardinality(TestsIn(queue)) # 0
        BY <4>1, <4>2, FS_EmptySet
      <4> QED BY <2>1, <4>1, <4>3, CommandAssumption DEF TimersBounded
    <3> QED BY <2>2, <3>1, <3>2 DEF WatcherCanMove
  <2> QED BY <2>3, <2>4 DEF Due, WatcherCanMove
<1>3. Spec => []PlacedInv
  BY PlacedInvariant
<1>4. PlacedInv /\ TimersBounded /\ [Next]_vars => TimersBounded'
  BY TimersStep DEF PlacedInv, CommandTypes
<1>5. PlacedInv /\ [Next]_vars => [LoadIsCurrent]_vars
  <2> SUFFICES ASSUME PlacedInv, NEW r \in Run, Load(r), NEW f \in paths PROVE Knows(r, f)'
    BY DEF LoadIsCurrent
  <2>1. /\ edits \in Nat /\ disk \in [File -> 0..edits] /\ paths \subseteq File
        /\ noticed \in [File -> Nat] /\ \A h \in File : noticed[h] <= disk[h]
        /\ loaded \in [Run -> [File -> Nat]]
    BY DEF PlacedInv, CommandTypes, CurrentInv, Attended
  <2>2. loaded' = [loaded EXCEPT ![r] = OnDisk] /\ noticed' = noticed
    BY DEF Load, world
  <2>3. OnDisk[f] = disk[f]
    BY <2>1 DEF OnDisk
  <2>4. loaded'[r][f] = disk[f]
    BY <2>1, <2>2, <2>3
  <2> QED BY <2>1, <2>2, <2>4 DEF Knows
<1> QED BY <1>1, <1>2, <1>3, <1>4, <1>5, PTL DEF Spec
=============================================================================
