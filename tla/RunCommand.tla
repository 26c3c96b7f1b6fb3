----------------------------- MODULE RunCommand -----------------------------
(***************************************************************************)
(* `tryve run' (internal/cli/run.go) from invocation to exit, one          *)
(* invocation after another: the adapters are connected ahead, the suite   *)
(* runs, the names of the tests that failed are written to a file, and in  *)
(* watch mode the suite runs again, in a goroutine of the watcher, after   *)
(* each burst of changes.  The registry and the watcher are modules of     *)
(* their own; this one composes them with the main goroutine, the runs,    *)
(* the files, and a user who edits, interrupts and kills.                  *)
(*                                                                         *)
(* A run of the suite is abstracted to what the others see of it: which    *)
(* change of each file it loaded, one step that asks for an adapter, and   *)
(* verdicts that SuiteContract may conclude with.  Which tests the files   *)
(* hold is left open, and tests marked `skip' are left out.                *)
(***************************************************************************)
EXTENDS Integers, Sequences, SuiteVerdicts

CONSTANTS
  Test, Depends,   \* the tests and Depends[t], the tests t depends on
  Name, Adapter,   \* adapter names, and those that are registered
  Nobody,
  Dir, Root,       \* the directories there may be, and the one watched
  File, Place,     \* the test files there may be, and the directory of each
  Options,         \* the command lines that may be given
  MaxInvocations, MaxChanges   \* bounds on the invocations and the edits

\* What matters of a command line; `keep' is what its filters let through, and
\* `writable' says whether the directory it is given in can be written.
Option == [watch : BOOLEAN, failedOnly : BOOLEAN, bail : BOOLEAN, keep : SUBSET Test,
           writable : BOOLEAN]

VARIABLES
  \* the process and the world around it
  main,         \* where the main goroutine is, "none" without a process
  option,       \* the command line, its `keep' cut to the failed list
  warm,         \* the pre-warming goroutines that have not ended
  ctxDone,      \* has the user interrupted the process?
  exit,         \* the exit code, "none" while the process runs
  invocations,
  dirs,         \* the directories
  edits, disk,  \* the number of edits so far, and disk[f]: the last one of file f
  paths,        \* the files that were found when the process began
  noticed,      \* noticed[f]: the last edit of file f that fsnotify saw
  list,         \* the file .tryve-failed
  \* the runs: 0 is the first, i the one of the callback of timer i
  runAt, loaded, selected, verdict, file,
  \* the registry
  holder, at, want, connected, sessions,
  \* the watcher
  watched, queue, timer, callback, stopped, loop

Run == 0..MaxChanges
Goroutine == Run \cup Adapter

Reg == INSTANCE Registry WITH Proc <- Goroutine
Wat == INSTANCE Watcher WITH MaxTimers <- MaxChanges

ASSUME CommandAssumption ==
  /\ Depends \in [Test -> SUBSET Test]
  /\ Root \in Dir
  /\ Place \in [File -> Dir]
  /\ Options \subseteq Option
  /\ Reg!Parameters
  /\ Adapter \cap Run = {}
  /\ MaxInvocations \in Nat /\ MaxChanges \in Nat

world == <<invocations, dirs, edits, disk, paths, noticed>>
runs == <<runAt, loaded, selected, verdict, file>>
process == <<main, option, warm, ctxDone, exit>>
reg == <<holder, at, want, connected, sessions>>
wat == <<watched, queue, timer, callback, stopped, loop>>
vars == <<process, world, list, runs, reg, wat>>

\* The names on the list, and the identity of the file they are in: a file
\* that is removed while it is being written is not the one created next.
NoList == [inode |-> << >>, names |-> {}]
NoVerdict == [t \in Test |-> "none"]
NoEdit == [f \in File |-> 0]

FailedIn(v) == {t \in Test : v[t] = "failed"}

Init ==
  /\ main = "none"
  /\ option \in Options
  /\ warm = {}
  /\ ctxDone = FALSE
  /\ exit = "none"
  /\ invocations = 0
  /\ dirs \in {D \in SUBSET Dir : Root \in D}
  /\ edits = 0
  /\ disk = NoEdit
  /\ paths = {}
  /\ noticed = NoEdit
  /\ list = NoList
  /\ runAt = [r \in Run |-> "off"]
  /\ loaded = [r \in Run |-> NoEdit]
  /\ selected = [r \in Run |-> {}]
  /\ verdict = [r \in Run |-> NoVerdict]
  /\ file = [r \in Run |-> << >>]
  /\ Reg!RInit
  /\ Wat!WInit
-----------------------------------------------------------------------------
(* The process begins and ends. *)

\* No test file is found, which is an error.
NothingFound(o) ==
  /\ main = "none"
  /\ invocations < MaxInvocations
  /\ invocations' = invocations + 1
  /\ option' = o
  /\ exit' = "error"
  /\ verdict' = [r \in Run |-> NoVerdict]
  /\ UNCHANGED <<main, warm, ctxDone, dirs, edits, disk, paths, noticed, list, reg, wat,
                 runAt, loaded, selected, file>>

\* With --failed-only and no name on the list there is nothing to run.
NothingFailed(o) ==
  /\ main = "none"
  /\ invocations < MaxInvocations
  /\ o.failedOnly /\ list.names = {}
  /\ invocations' = invocations + 1
  /\ option' = o
  /\ exit' = "0"
  /\ verdict' = [r \in Run |-> NoVerdict]
  /\ UNCHANGED <<main, warm, ctxDone, dirs, edits, disk, paths, noticed, list, reg, wat,
                 runAt, loaded, selected, file>>

\* The command line is read, the files are found, once for all the runs of the
\* process, and the adapters that the tests need are connected, one goroutine
\* for each.  Any of the files may exist whose directory does.
Invoke(o) ==
  /\ main = "none"
  /\ invocations < MaxInvocations
  /\ o.failedOnly => list.names # {}
  /\ invocations' = invocations + 1
  /\ option' = IF o.failedOnly THEN [o EXCEPT !.keep = @ \cap list.names] ELSE o
  /\ main' = "warming"
  /\ exit' = "none"
  /\ \E found \in SUBSET {f \in File : Place[f] \in dirs} : found # {} /\ paths' = found
  /\ \E S \in SUBSET Adapter : warm' = S
  /\ verdict' = [r \in Run |-> NoVerdict]
  /\ UNCHANGED <<ctxDone, dirs, edits, disk, noticed, list, reg, wat, runAt, loaded, selected, file>>

\* The process is gone, and all its goroutines with it.
Gone(code) ==
  /\ main' = "none"
  /\ exit' = code
  /\ warm' = {}
  /\ ctxDone' = FALSE
  /\ paths' = {}
  /\ noticed' = NoEdit
  /\ runAt' = [r \in Run |-> "off"]
  /\ loaded' = [r \in Run |-> NoEdit]
  /\ selected' = [r \in Run |-> {}]
  /\ file' = [r \in Run |-> << >>]
  /\ Reg!RRestart
  /\ Wat!WRestart
  /\ UNCHANGED <<option, invocations, dirs, edits, disk, list, verdict>>

\* Killed: whatever was under way is not finished.
Kill == main # "none" /\ Gone("killed")

\* The user presses Ctrl+C.
Interrupt ==
  /\ main # "none"
  /\ ~ctxDone
  /\ ctxDone' = TRUE
  /\ UNCHANGED <<main, option, warm, exit, world, list, runs, reg, wat>>
-----------------------------------------------------------------------------
(* The main goroutine. *)

WarmAsk(a) ==
  /\ a \in warm
  /\ Reg!Ask(a, a)
  /\ UNCHANGED <<process, world, list, runs, wat>>

WarmDone(a) ==
  /\ a \in warm
  /\ Reg!Return(a)
  /\ warm' = warm \ {a}
  /\ UNCHANGED <<main, option, ctxDone, exit, world, list, runs, wat>>

\* Faulty variant of FirstRun: the pre-warming goroutines are not waited for.
FirstRunEarly ==
  /\ main = "warming"
  /\ main' = "first"
  /\ runAt' = [runAt EXCEPT ![0] = "loading"]
  /\ UNCHANGED <<option, warm, ctxDone, exit, world, list, loaded, selected,
                 verdict, file, reg, wat>>

\* Every adapter has been tried, and the first run begins.
FirstRun ==
  /\ main = "warming"
  /\ warm = {}
  /\ main' = "first"
  /\ runAt' = [runAt EXCEPT ![0] = "loading"]
  /\ UNCHANGED <<option, warm, ctxDone, exit, world, list, loaded, selected,
                 verdict, file, reg, wat>>

\* Faulty variant of ExitFailed: the exit comes before the names are saved.
ExitUnsaved ==
  /\ main = "first" /\ runAt[0] \in {"finished", "saved"}
  /\ ~option.watch
  /\ FailedIn(verdict[0]) # {}
  /\ Gone("1")

\* A failure makes the process exit at once, deferred calls left out.
ExitFailed ==
  /\ main = "first" /\ runAt[0] = "saved"
  /\ ~option.watch
  /\ FailedIn(verdict[0]) # {}
  /\ Gone("1")

\* runCmdHandler returns and the deferred CloseAll is called.
ReturnFrom(place) ==
  /\ main = place
  /\ main' = "closing"
  /\ Reg!AskClose(0)
  /\ UNCHANGED <<option, warm, ctxDone, exit, world, list, runs>>

FinishRun ==
  /\ runAt[0] = "saved"
  /\ ~option.watch
  /\ FailedIn(verdict[0]) = {}
  /\ ReturnFrom("first")
  /\ UNCHANGED wat

\* In watch mode the watcher is created when the first run is over ...
StartWatch ==
  /\ main = "first" /\ runAt[0] = "saved"
  /\ option.watch
  /\ main' = "watching"
  /\ Wat!New(dirs)
  /\ UNCHANGED <<option, warm, ctxDone, exit, world, list, runs, reg>>

\* ... unless it cannot be.
WatchFails ==
  /\ runAt[0] = "saved"
  /\ option.watch
  /\ ReturnFrom("first")
  /\ UNCHANGED wat

WatchHandle ==
  /\ Wat!Handle
  /\ UNCHANGED <<process, world, list, runs, reg>>

\* The loop of Start sees that the context has ended.
WatchStop ==
  /\ ctxDone
  /\ Wat!StopAndReturn
  /\ ReturnFrom("watching")

\* Every adapter is closed.  Without a watcher, --watch ends in an error.
Exit ==
  /\ main = "closing"
  /\ at[0] = "out"
  /\ Gone(IF option.watch /\ loop = "off" THEN "error" ELSE "0")

MainStep ==
  FirstRun \/ ExitFailed \/ FinishRun \/ StartWatch \/ WatchFails \/ WatchHandle
  \/ WatchStop \/ Exit
-----------------------------------------------------------------------------
(* A run of the suite, by the main goroutine or by a callback. *)

Goes(r, place) == runAt' = [runAt EXCEPT ![r] = place]

\* onChange is called.
CallRun(i) ==
  /\ Wat!Call(i)
  /\ Goes(i, "loading")
  /\ UNCHANGED <<process, world, list, loaded, selected, verdict, file, reg>>

\* What a run reads: the files that were found, and no other.
OnDisk == [f \in File |-> IF f \in paths THEN disk[f] ELSE 0]

\* Faulty variant of Load: what the first run has read is used again.
LoadOnce(r) ==
  /\ runAt[r] = "loading"
  /\ loaded' = [loaded EXCEPT ![r] = IF r = 0 THEN OnDisk ELSE loaded[0]]
  /\ \E c \in SUBSET option.keep :
       /\ selected' = [selected EXCEPT ![r] = c]
       /\ Goes(r, IF c = {} THEN "finished" ELSE "testing")
  /\ UNCHANGED <<process, world, list, verdict, file, reg, wat>>

\* The files are read, all in one step: those that are gone, do not parse or do
\* not validate are left out, and the failed list was read when the process
\* began.  Without a test the run ends with an empty result.
Load(r) ==
  /\ runAt[r] = "loading"
  /\ loaded' = [loaded EXCEPT ![r] = OnDisk]
  /\ \E c \in SUBSET option.keep :
       /\ selected' = [selected EXCEPT ![r] = c]
       /\ Goes(r, IF c = {} THEN "finished" ELSE "testing")
  /\ UNCHANGED <<process, world, list, verdict, file, reg, wat>>

\* A step of some test asks for its adapter ...
AskAdapter(r, n) ==
  /\ runAt[r] = "testing"
  /\ Reg!Ask(r, n)
  /\ Goes(r, "stepping")
  /\ UNCHANGED <<process, world, list, loaded, selected, verdict, file, wat>>

\* ... and is done with it, or with the error.
StepDone(r) ==
  /\ runAt[r] = "stepping"
  /\ Reg!Return(r)
  /\ Goes(r, "tested")
  /\ UNCHANGED <<process, world, list, loaded, selected, verdict, file, wat>>

\* The tests of a run as the orchestrator is given them.
SuiteOf(c) == [tests |-> c, depends |-> Depends, skip |-> {}, bail |-> option.bail]

\* The orchestrator returns the result of the suite.
Finish(r) ==
  /\ runAt[r] \in {"testing", "tested"}
  /\ \E v \in PossibleVerdicts(SuiteOf(selected[r]), ctxDone) :
       verdict' = [verdict EXCEPT ![r] = [t \in Test |-> IF t \in selected[r] THEN v[t] ELSE "none"]]
  /\ Goes(r, "finished")
  /\ UNCHANGED <<process, world, list, loaded, selected, file, reg, wat>>

\* No test failed: the list is removed.
SaveNothing(r) ==
  /\ runAt[r] = "finished"
  /\ FailedIn(verdict[r]) = {}
  /\ list' = IF option.writable THEN NoList ELSE list
  /\ Goes(r, "saved")
  /\ UNCHANGED <<process, world, loaded, selected, verdict, file, reg, wat>>

\* os.Create opens the file there is and truncates it, or makes a new one.
SaveCreate(r) ==
  /\ runAt[r] = "finished"
  /\ FailedIn(verdict[r]) # {}
  /\ option.writable
  /\ LET inode == IF list.inode = << >> THEN <<invocations, r>> ELSE list.inode
     IN  /\ list' = [inode |-> inode, names |-> {}]
         /\ file' = [file EXCEPT ![r] = inode]
  /\ Goes(r, "saving")
  /\ UNCHANGED <<process, world, loaded, selected, verdict, reg, wat>>

\* os.Create fails, and nobody looks at the error.
SaveFails(r) ==
  /\ runAt[r] = "finished"
  /\ FailedIn(verdict[r]) # {}
  /\ ~option.writable
  /\ Goes(r, "saved")
  /\ UNCHANGED <<process, world, list, loaded, selected, verdict, file, reg, wat>>

\* The names are flushed.  What another run has written since is overwritten
\* as far as the names reach; what is written to a removed file is lost.
SaveWrite(r) ==
  /\ runAt[r] = "saving"
  /\ \E rest \in SUBSET list.names :
       list' = IF list.inode = file[r]
               THEN [list EXCEPT !.names = FailedIn(verdict[r]) \cup rest] ELSE list
  /\ Goes(r, "saved")
  /\ UNCHANGED <<process, world, loaded, selected, verdict, file, reg, wat>>

\* onChange returns to the callback.
RunReturns(i) ==
  /\ runAt[i] = "saved"
  /\ Wat!CallReturns(i)
  /\ Goes(i, "off")
  /\ selected' = [selected EXCEPT ![i] = {}]
  /\ verdict' = [verdict EXCEPT ![i] = NoVerdict]
  /\ file' = [file EXCEPT ![i] = << >>]
  /\ UNCHANGED <<process, world, list, loaded, reg>>

RunStep(r) ==
  \/ Load(r) \/ Finish(r) \/ SaveNothing(r) \/ SaveCreate(r) \/ SaveFails(r)
  \/ SaveWrite(r)
  \/ \E n \in Name : AskAdapter(r, n)
  \/ StepDone(r)

RegistryStep(p) == Reg!Inside(p) /\ UNCHANGED <<process, world, list, runs, wat>>

TimerStep(i) ==
  \/ (Wat!Fire(i) \/ Wat!Check(i)) /\ UNCHANGED <<process, world, list, runs, reg>>
  \/ CallRun(i)
  \/ RunReturns(i)
-----------------------------------------------------------------------------
(* The user edits; what happens to the files matters to a watching process only. *)

\* File f is created, written or removed.
EditTest(f) ==
  /\ main # "none" /\ option.watch
  /\ Place[f] \in dirs
  /\ edits < MaxChanges
  /\ edits' = edits + 1
  /\ disk' = [disk EXCEPT ![f] = edits']
  /\ noticed' = IF Place[f] \in watched /\ ~stopped THEN [noticed EXCEPT ![f] = edits'] ELSE noticed
  /\ Wat!Emit(Place[f], [kind |-> "test", dir |-> Place[f]])
  /\ UNCHANGED <<process, invocations, dirs, paths, list, runs, reg>>

\* A directory is created below the root.
MakeDir(d) ==
  /\ main # "none" /\ option.watch
  /\ d \notin dirs
  /\ dirs' = dirs \cup {d}
  /\ Wat!Emit(Root, [kind |-> "dir", dir |-> d])
  /\ UNCHANGED <<process, invocations, edits, disk, paths, noticed, list, runs, reg>>

\* Anything else happens in the root.
EditOther ==
  /\ main = "watching"
  /\ \A i \in DOMAIN queue : queue[i].kind # "other"
  /\ Wat!Emit(Root, [kind |-> "other", dir |-> Root])
  /\ UNCHANGED <<process, world, list, runs, reg>>

User == \/ \E f \in File : EditTest(f)
        \/ \E d \in Dir : MakeDir(d)
        \/ EditOther \/ Interrupt \/ Kill
        \/ \E o \in Options : Invoke(o) \/ NothingFound(o) \/ NothingFailed(o)

Next ==
  \/ User
  \/ MainStep
  \/ \E a \in Adapter : WarmAsk(a) \/ WarmDone(a)
  \/ \E r \in Run : RunStep(r)
  \/ \E p \in Goroutine : RegistryStep(p)
  \/ \E i \in Wat!Timer : TimerStep(i)

Spec == Init /\ [][Next]_vars

\* Every goroutine and timer of the process is scheduled; the user need not act.
Fairness ==
  /\ WF_vars(MainStep)
  /\ WF_vars(WatchStop)
  /\ \A a \in Adapter : WF_vars(WarmAsk(a) \/ WarmDone(a))
  /\ \A r \in Run : WF_vars(RunStep(r))
  /\ \A p \in Goroutine : WF_vars(RegistryStep(p))
  /\ \A i \in Wat!Timer : WF_vars(TimerStep(i))

FairSpec == Spec /\ Fairness
-----------------------------------------------------------------------------
(* Properties *)

\* Types of the state.
TypeOK ==
  /\ main \in {"none", "warming", "first", "watching", "closing"}
  /\ option \in Option
  /\ warm \subseteq Adapter
  /\ ctxDone \in BOOLEAN
  /\ exit \in {"none", "0", "1", "error", "killed"}
  /\ invocations \in 0..MaxInvocations
  /\ dirs \subseteq Dir
  /\ edits \in 0..MaxChanges
  /\ disk \in [File -> 0..edits]
  /\ paths \subseteq File
  /\ noticed \in [File -> 0..edits]
  /\ list.names \subseteq Test
  /\ runAt \in [Run -> {"off", "loading", "testing", "stepping", "tested", "finished",
                        "saving", "saved"}]
  /\ loaded \in [Run -> [File -> 0..edits]]
  /\ selected \in [Run -> SUBSET Test]
  /\ verdict \in [Run -> [Test -> {"none", "passed", "failed", "skipped"}]]
  /\ Reg!RTypeOK
  /\ Wat!WTypeOK

\* However many runs and pre-warming goroutines ask for it at once, and while
\* CloseAll is at work, an adapter has one session or none, as it is marked.
OneSession == Reg!MutexHeld /\ Reg!OneSession

\* A burst of edits ends in one call, and none is pending after Stop.
OneTimerArmed == Wat!OneTimerArmed

\* Nothing is under way that would make the suite run again.
Quiet ==
  /\ main = "watching" /\ ~stopped
  /\ queue = << >>
  /\ \A i \in Wat!Timer : callback[i] \notin {"armed", "fired", "checked"}
  /\ \A r \in Run : runAt[r] # "loading"

\* Run r has loaded what the watcher was told of file f, or something later.
Knows(r, f) == loaded[r][f] >= noticed[f]

\* When the watcher has come to rest, one and the same run has loaded every file
\* that the process found as it was after the last edit the watcher was told of.
QuietIsCurrent == Quiet => \E r \in Run : \A f \in paths : Knows(r, f)

\* Without --watch no step uses an adapter that is not connected: CloseAll
\* comes when the pre-warming and the run are over.
UsedWhileOpen ==
  ~option.watch => \A p \in Goroutine : at[p] = "using" => want[p] \in connected

\* A process that exits with 1 because tests failed has left their names, and
\* no others, for --failed-only.
FailureIsListed ==
  main = "none" /\ exit = "1" /\ ~option.watch /\ option.writable =>
    list.names = FailedIn(verdict[0]) /\ list.names # {}

\* Ctrl+C ends the process, whatever its goroutines are doing.
InterruptReturns == ctxDone ~> main = "none"

\* An edit the watcher is told of, of a file that the process found, is followed
\* by a run that loads it, unless the user ends the process.
EditIsRun ==
  \A f \in File, k \in 1..MaxChanges :
    f \in paths /\ noticed[f] >= k ~>
      (\E r \in Run : loaded[r][f] >= k) \/ ctxDone \/ main = "none"
-----------------------------------------------------------------------------
(* Statements of the documentation that the code does not keep. *)

\* docs/sections/cli.md:71, of --failed-only: "Rerun only previously failed
\* tests".  The tests it selects are run.
FailedOnlyReruns ==
  option.failedOnly /\ runAt[0] = "finished" /\ ~ctxDone =>
    \A t \in selected[0] : verdict[0][t] # "skipped"

\* docs/sections/cli.md:64, of --watch: "Re-run tests on file changes".  When the
\* watcher has come to rest, a run has loaded every test file it was told of.
ChangedFilesAreRun == Quiet => \E r \in Run : \A f \in File : Knows(r, f)

=============================================================================
