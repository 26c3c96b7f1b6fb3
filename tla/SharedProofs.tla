---------------------------- MODULE SharedProofs ----------------------------
(***************************************************************************)
(* The safety of the two objects that the runs of a process share, the     *)
(* registry and the watcher.                                               *)
(*                                                                         *)
(* Of the registry, for any goroutines, names and adapters, the three      *)
(* properties are inductive together: the mutex is what lets a first       *)
(* request conclude from a missing mark that no session is open.  Of the   *)
(* watcher, for any directories and any number of events, that at most one *)
(* timer is armed needs two facts more: timers above w.timer were never    *)
(* set, and only a loop that has returned was stopped.                     *)
(***************************************************************************)
EXTENDS Registry, Watcher, SequenceTheorems, TLAPS

-----------------------------------------------------------------------------
(* The registry *)

\* The inductive invariant.
RInv == RTypeOK /\ MutexHeld /\ OneSession

\* The invariant of the registry holds of an empty one.
LEMMA RegistryBegins == ASSUME Parameters PROVE RInit => RInv
<1>1. (CHOOSE n \in Name : TRUE) \in Name
  BY DEF Parameters
<1>2. QED
  BY <1>1, SMT DEF RInit, RInv, RTypeOK, MutexHeld, OneSession, Parameters

\* Every step of a goroutine in the registry, and a restart, keeps RInv.
LEMMA RegistrySteps == ASSUME Parameters PROVE RInv /\ [RNext]_rvars => RInv'
<1>0. SUFFICES ASSUME RInv, [RNext]_rvars PROVE RInv'
  OBVIOUS
<1> USE DEF RInv
<1>1. CASE UNCHANGED rvars
  BY <1>0, <1>1 DEF rvars, RTypeOK, MutexHeld, OneSession
<1>2. CASE RRestart
  <2>1. (CHOOSE n \in Name : TRUE) \in Name
    BY DEF Parameters
  <2>2. QED
    BY <1>2, <2>1, SMT DEF RRestart, RTypeOK, MutexHeld, OneSession, Parameters
<1>3. ASSUME NEW p \in Proc, NEW n \in Name, Ask(p, n) PROVE RInv'
  BY <1>0, <1>3, SMT DEF Ask, Move, RTypeOK, MutexHeld, OneSession
<1>4. ASSUME NEW p \in Proc, AskClose(p) PROVE RInv'
  BY <1>0, <1>4, SMT DEF AskClose, Move, RTypeOK, MutexHeld, OneSession
<1>5. ASSUME NEW p \in Proc, Lock(p) PROVE RInv'
  BY <1>0, <1>5, SMT DEF Lock, Move, RTypeOK, MutexHeld, OneSession, Parameters
<1>6. ASSUME NEW p \in Proc, GetUnknown(p) \/ GetConnected(p) \/ ConnectFails(p) PROVE RInv'
  BY <1>0, <1>6, SMT DEF GetUnknown, GetConnected, ConnectFails, Leave, Move, RTypeOK,
     MutexHeld, OneSession, Parameters
<1>7. ASSUME NEW p \in Proc, Connect(p) PROVE RInv'
  BY <1>0, <1>7, SMT DEF Connect, Leave, Move, RTypeOK, MutexHeld, OneSession, Parameters
<1>8. ASSUME NEW p \in Proc, Return(p) PROVE RInv'
  BY <1>0, <1>8, SMT DEF Return, Move, RTypeOK, MutexHeld, OneSession
<1>9. ASSUME NEW p \in Proc, CloseOne(p) PROVE RInv'
  BY <1>0, <1>9, SMT DEF CloseOne, RTypeOK, MutexHeld, OneSession
<1>10. ASSUME NEW p \in Proc, CloseDone(p) PROVE RInv'
  BY <1>0, <1>10, SMT DEF CloseDone, Leave, Move, RTypeOK, MutexHeld, OneSession, Parameters
<1>11. QED
  BY <1>0, <1>1, <1>2, <1>3, <1>4, <1>5, <1>6, <1>7, <1>8, <1>9, <1>10 DEF RNext, Inside

\* Types, mutual exclusion, and one session per connected adapter.
THEOREM RegistrySafe == ASSUME Parameters PROVE RSpec => []RInv
<1>1. RInit => RInv
  BY RegistryBegins
<1>2. RInv /\ [RNext]_rvars => RInv'
  BY RegistrySteps
<1>3. QED
  BY <1>1, <1>2, PTL DEF RSpec

-----------------------------------------------------------------------------
(* The watcher *)

\* The inductive invariant: the queue aside, which no other part depends on, ...
Debounced ==
  /\ watched \subseteq Dir
  /\ timer \in 0..MaxTimers
  /\ callback \in [Timer -> {"unset", "armed", "cancelled", "fired", "checked",
                             "calling", "returned"}]
  /\ stopped \in BOOLEAN
  /\ loop \in {"off", "running", "returned"}
  /\ OneTimerArmed
  /\ \A i \in Timer : i > timer => callback[i] = "unset"
  /\ stopped => loop = "returned"

\* ... and with it.
WInv == Debounced /\ queue \in Seq(Event)

\* The invariant of the watcher holds of one that is not started.
LEMMA WatcherBegins == ASSUME MaxTimers \in Nat PROVE WInit => WInv
<1> SUFFICES ASSUME WInit PROVE WInv
  OBVIOUS
<1>1. queue \in Seq(Event)
  BY Zenon, EmptySeq DEF WInit
<1>2. Debounced
  <2> HIDE DEF Event
  <2>1. /\ watched = {} /\ timer = 0 /\ loop = "off"
        /\ ~stopped /\ stopped \in BOOLEAN
        /\ callback = [i \in Timer |-> "unset"]
    BY DEF WInit
  <2>2. QED
    BY <2>1, SMT DEF Debounced, OneTimerArmed, Timer
<1>3. QED
  BY <1>1, <1>2 DEF WInv

\* The queue holds events whatever happens.
LEMMA QueueOfEvents == WInv /\ [WNext]_wvars => (queue \in Seq(Event))'
<1> SUFFICES ASSUME WInv, [WNext]_wvars PROVE queue' \in Seq(Event)
  OBVIOUS
<1>1. ASSUME NEW place \in Dir, NEW e \in Event, Emit(place, e) PROVE queue' \in Seq(Event)
  BY <1>1, SMT DEF Emit, WInv
<1>2. CASE Handle
  BY <1>2, SMT DEF Handle, HandleTest, HandleDir, HandleOther, WInv
<1>3. CASE queue' = << >>
  BY <1>3, Zenon, EmptySeq
<1>4. CASE queue' = queue
  BY <1>4 DEF WInv
<1>5. QED
  BY <1>1, <1>2, <1>3, <1>4 DEF WNext, wvars, New, StopAndReturn, WRestart, Fire, Check,
     Call, CallReturns

\* Every event, timer and callback keeps the rest.
LEMMA WatcherSteps == ASSUME MaxTimers \in Nat PROVE WInv /\ [WNext]_wvars => WInv'
<1>0. SUFFICES ASSUME WInv, [WNext]_wvars PROVE Debounced'
  BY QueueOfEvents DEF WInv
<1>d. Debounced
  BY <1>0 DEF WInv
<1> USE DEF Debounced, OneTimerArmed, Timer
<1>1. CASE UNCHANGED wvars
  BY <1>d, <1>1 DEF wvars
<1>2. CASE WRestart
  <2>1. /\ watched' = {} /\ timer' = 0 /\ loop' = "off"
        /\ ~stopped' /\ stopped' \in BOOLEAN
        /\ callback' = [i \in Timer |-> "unset"]
    BY <1>2 DEF WRestart
  <2>2. QED
    BY <2>1, SMT
<1>3. ASSUME NEW dirs \in SUBSET Dir, New(dirs) PROVE Debounced'
  BY <1>d, <1>3, SMT DEF New
<1>4. ASSUME NEW place \in Dir, NEW e \in Event, Emit(place, e) PROVE Debounced'
  BY <1>d, <1>4, SMT DEF Emit
<1>5. CASE HandleTest
  <2>1. \A i \in Timer :
          /\ callback'[i] = IF i = timer + 1 THEN "armed" ELSE Disarmed[i]
          /\ Disarmed[i] # "armed"
          /\ i > timer => Disarmed[i] = "unset"
    BY <1>d, <1>5, SMT DEF HandleTest, Disarmed
  <2>2. /\ callback' \in [Timer -> {"unset", "armed", "cancelled", "fired", "checked",
                                   "calling", "returned"}]
        /\ timer' \in 0..MaxTimers
    BY <1>d, <1>5, SMT DEF HandleTest, Disarmed
  <2>3. QED
    BY <1>d, <1>5, <2>1, <2>2, SMT DEF HandleTest
<1>6. CASE HandleDir
  <2>1. Head(queue).dir \in Dir
    <3>1. queue \in Seq(Event) /\ queue # << >>
      BY <1>0, <1>6 DEF HandleDir, WInv
    <3>2. Head(queue) \in Event
      BY <3>1, SMT
    <3>3. QED
      BY <3>2 DEF Event
  <2>2. QED
    BY <1>d, <1>6, <2>1, SMT DEF HandleDir
<1>7. CASE HandleOther
  BY <1>d, <1>7, SMT DEF HandleOther
<1>8. CASE StopAndReturn
  <2>1. /\ UNCHANGED <<watched, timer>> /\ stopped' = TRUE /\ loop' = "returned"
        /\ callback' = Disarmed
    BY <1>8 DEF StopAndReturn
  <2>2. QED
    BY <1>d, <2>1, SMT DEF Disarmed
<1>9. ASSUME NEW i \in Timer, Fire(i) \/ Check(i) \/ Call(i) \/ CallReturns(i) PROVE Debounced'
  BY <1>d, <1>9, SMT DEF Fire, Check, Call, CallReturns
<1>10. QED
  BY <1>0, <1>1, <1>2, <1>3, <1>4, <1>5, <1>6, <1>7, <1>8, <1>9 DEF WNext, Handle

\* Types, and at most one armed timer, none after Stop.
THEOREM WatcherSafe == ASSUME MaxTimers \in Nat PROVE WSpec => []WInv
<1>1. WInit => WInv
  BY WatcherBegins
<1>2. WInv /\ [WNext]_wvars => WInv'
  BY WatcherSteps
<1>3. QED
  BY <1>1, <1>2, PTL DEF WSpec
=============================================================================
