------------------------------- MODULE Watcher -------------------------------
(***************************************************************************)
(* The watcher of test files (internal/watcher/watcher.go): the loop of    *)
(* Start reads file-system events and arms a timer that calls onChange     *)
(* when no further event comes for half a second; Stop cancels the timer.  *)
(* The callback of a timer is a goroutine of its own: it reads `stopped'   *)
(* under the mutex and calls onChange after it has released it.            *)
(*                                                                         *)
(* A timer is known by its number: the first one armed is 1.               *)
(***************************************************************************)
EXTENDS Integers, Sequences

CONSTANTS
  Dir,        \* the directories below the watched root, and the root itself
  MaxTimers   \* bound on the number of timers

VARIABLES
  watched,   \* the directories fsnotify watches
  queue,     \* the events fsnotify has not delivered yet
  timer,     \* the number of the timer in w.timer, 0 for nil
  callback,  \* callback[i]: the state of timer i and of its callback
  stopped,
  loop       \* where the loop of Start is

wvars == <<watched, queue, timer, callback, stopped, loop>>

Timer == 1..MaxTimers

\* A test file is created, written or removed in `dir', `dir' itself is created,
\* or anything else: other files, excluded directories, renames, modes.
Event == [kind : {"test", "dir", "other"}, dir : Dir]

WInit ==
  /\ watched = {}
  /\ queue = << >>
  /\ timer = 0
  /\ callback = [i \in Timer |-> "unset"]
  /\ stopped = FALSE
  /\ loop = "off"

\* The process ends; the next one begins without a watcher.
WRestart ==
  /\ watched' = {}
  /\ queue' = << >>
  /\ timer' = 0
  /\ callback' = [i \in Timer |-> "unset"]
  /\ stopped' = FALSE
  /\ loop' = "off"

\* New watches every directory there is, and Start is called.
New(dirs) ==
  /\ loop = "off"
  /\ watched' = dirs
  /\ loop' = "running"
  /\ UNCHANGED <<queue, timer, callback, stopped>>

\* fsnotify sees what happens in the directories it watches.
Emit(place, e) ==
  /\ queue' = IF place \in watched /\ ~stopped THEN Append(queue, e) ELSE queue
  /\ UNCHANGED <<watched, timer, callback, stopped, loop>>

\* timer.Stop prevents the callback of a timer that has not fired.
Disarmed == [i \in Timer |-> IF i = timer /\ callback[i] = "armed" THEN "cancelled"
                             ELSE callback[i]]

\* Faulty variant of HandleTest: a timer that was armed before is left alone.
HandleTestOnce ==
  /\ loop = "running"
  /\ queue # << >> /\ Head(queue).kind = "test"
  /\ IF timer = 0
     THEN timer' = 1 /\ callback' = [callback EXCEPT ![1] = "armed"]
     ELSE UNCHANGED <<timer, callback>>
  /\ queue' = Tail(queue)
  /\ UNCHANGED <<watched, stopped, loop>>

\* Faulty variant of HandleTest: the earlier timer keeps running.
HandleTestBoth ==
  /\ loop = "running"
  /\ queue # << >> /\ Head(queue).kind = "test"
  /\ timer < MaxTimers
  /\ timer' = timer + 1
  /\ callback' = [callback EXCEPT ![timer + 1] = "armed"]
  /\ queue' = Tail(queue)
  /\ UNCHANGED <<watched, stopped, loop>>

\* A change of a test file cancels the timer and arms a new one.
HandleTest ==
  /\ loop = "running"
  /\ queue # << >> /\ Head(queue).kind = "test"
  /\ timer < MaxTimers
  /\ timer' = timer + 1
  /\ callback' = [Disarmed EXCEPT ![timer + 1] = "armed"]
  /\ queue' = Tail(queue)
  /\ UNCHANGED <<watched, stopped, loop>>

\* A new directory is watched (it has no subdirectory yet), and that is all.
HandleDir ==
  /\ loop = "running"
  /\ queue # << >> /\ Head(queue).kind = "dir"
  /\ watched' = watched \cup {Head(queue).dir}
  /\ queue' = Tail(queue)
  /\ UNCHANGED <<timer, callback, stopped, loop>>

\* Every other event is ignored.
HandleOther ==
  /\ loop = "running"
  /\ queue # << >> /\ Head(queue).kind = "other"
  /\ queue' = Tail(queue)
  /\ UNCHANGED <<watched, timer, callback, stopped, loop>>

\* The context has ended: Stop closes fsnotify, whose events are lost, cancels
\* the timer, and Start returns.
StopAndReturn ==
  /\ loop = "running"
  /\ stopped' = TRUE
  /\ callback' = Disarmed
  /\ queue' = << >>
  /\ loop' = "returned"
  /\ UNCHANGED <<watched, timer>>

Handle == HandleTest \/ HandleDir \/ HandleOther

\* Half a second has passed: the callback of the timer begins.
Fire(i) ==
  /\ callback[i] = "armed"
  /\ callback' = [callback EXCEPT ![i] = "fired"]
  /\ UNCHANGED <<watched, queue, timer, stopped, loop>>

\* The callback reads `stopped' under the mutex ...
Check(i) ==
  /\ callback[i] = "fired"
  /\ callback' = [callback EXCEPT ![i] = IF stopped THEN "returned" ELSE "checked"]
  /\ UNCHANGED <<watched, queue, timer, stopped, loop>>

\* ... and calls onChange without it.
Call(i) ==
  /\ callback[i] = "checked"
  /\ callback' = [callback EXCEPT ![i] = "calling"]
  /\ UNCHANGED <<watched, queue, timer, stopped, loop>>

\* onChange has returned.
CallReturns(i) ==
  /\ callback[i] = "calling"
  /\ callback' = [callback EXCEPT ![i] = "returned"]
  /\ UNCHANGED <<watched, queue, timer, stopped, loop>>

WNext ==
  \/ \E dirs \in SUBSET Dir : New(dirs)
  \/ \E place \in Dir, e \in Event : Emit(place, e)
  \/ Handle \/ StopAndReturn
  \/ \E i \in Timer : Fire(i) \/ Check(i) \/ Call(i) \/ CallReturns(i)
  \/ WRestart

WSpec == WInit /\ [][WNext]_wvars
-----------------------------------------------------------------------------
(* Properties *)

\* Types of the state.
WTypeOK ==
  /\ watched \subseteq Dir
  /\ queue \in Seq(Event)
  /\ timer \in 0..MaxTimers
  /\ callback \in [Timer -> {"unset", "armed", "cancelled", "fired", "checked",
                             "calling", "returned"}]
  /\ stopped \in BOOLEAN
  /\ loop \in {"off", "running", "returned"}

\* At most one timer is armed, the one in w.timer: a burst of changes ends in
\* one call of onChange.  None is armed after Stop.
OneTimerArmed ==
  \A i \in Timer : callback[i] = "armed" => i = timer /\ ~stopped
=============================================================================
