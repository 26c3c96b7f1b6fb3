------------------------------ MODULE Registry ------------------------------
(***************************************************************************)
(* The registry of adapters (internal/adapter/registry.go): Get connects   *)
(* an adapter on the first request and CloseAll closes what is connected,  *)
(* both under one mutex that is held while the adapter connects or closes. *)
(* A caller then uses the adapter outside the mutex.                       *)
(*                                                                         *)
(* An adapter is known by the number of sessions it holds open.  Connect   *)
(* opens one or fails without a trace, and Close ends one whether or not   *)
(* it reports an error.                                                    *)
(***************************************************************************)
EXTENDS Integers

CONSTANTS
  Proc,     \* the goroutines that call the registry
  Name,     \* the adapter names steps ask for
  Adapter,  \* the names BuildRegistry has registered
  Nobody    \* the holder of a free mutex

\* What whoever uses the module has to see to.
Parameters == Adapter \subseteq Name /\ Name # {} /\ Nobody \notin Proc

VARIABLES
  holder,     \* who holds the mutex
  at,         \* at[p]: where p is in its call
  want,       \* want[p]: the name p has asked for
  connected,  \* the adapters marked connected
  sessions    \* sessions[a]: the sessions open on adapter a

rvars == <<holder, at, want, connected, sessions>>

RInit ==
  /\ holder = Nobody
  /\ at = [p \in Proc |-> "out"]
  /\ want = [p \in Proc |-> CHOOSE n \in Name : TRUE]
  /\ connected = {}
  /\ sessions = [a \in Adapter |-> 0]

\* The process ends; the next one begins with a new registry.
RRestart ==
  /\ holder' = Nobody
  /\ at' = [p \in Proc |-> "out"]
  /\ want' = [p \in Proc |-> CHOOSE n \in Name : TRUE]
  /\ connected' = {}
  /\ sessions' = [a \in Adapter |-> 0]

Move(p, place) == at' = [at EXCEPT ![p] = place]

\* Get(name) is called, and waits for the mutex.
Ask(p, n) ==
  /\ at[p] = "out"
  /\ Move(p, "asking")
  /\ want' = [want EXCEPT ![p] = n]
  /\ UNCHANGED <<holder, connected, sessions>>

\* CloseAll is called, and waits for the mutex.
AskClose(p) ==
  /\ at[p] = "out"
  /\ Move(p, "askingClose")
  /\ UNCHANGED <<holder, want, connected, sessions>>

Lock(p) ==
  /\ at[p] \in {"asking", "askingClose"}
  /\ holder = Nobody
  /\ holder' = p
  /\ Move(p, IF at[p] = "asking" THEN "getting" ELSE "closing")
  /\ UNCHANGED <<want, connected, sessions>>

\* The call ends and the mutex is released.
Leave(p, place) == holder' = Nobody /\ Move(p, place)

\* Nothing is registered under the name.
GetUnknown(p) ==
  /\ at[p] = "getting"
  /\ want[p] \notin Adapter
  /\ Leave(p, "refused")
  /\ UNCHANGED <<want, connected, sessions>>

\* The adapter is connected already.
GetConnected(p) ==
  /\ at[p] = "getting"
  /\ want[p] \in connected
  /\ Leave(p, "using")
  /\ UNCHANGED <<want, connected, sessions>>

\* Faulty variant of Connect: the adapter is not marked.
ConnectUnmarked(p) ==
  /\ at[p] = "getting"
  /\ want[p] \in Adapter \ connected
  /\ sessions' = [sessions EXCEPT ![want[p]] = @ + 1]
  /\ Leave(p, "using")
  /\ UNCHANGED <<want, connected>>

\* The adapter connects, and is marked.
Connect(p) ==
  /\ at[p] = "getting"
  /\ want[p] \in Adapter \ connected
  /\ sessions' = [sessions EXCEPT ![want[p]] = @ + 1]
  /\ connected' = connected \cup {want[p]}
  /\ Leave(p, "using")
  /\ UNCHANGED want

\* Faulty variant of ConnectFails: the mutex is not released.
ConnectFailsLocked(p) ==
  /\ at[p] = "getting"
  /\ want[p] \in Adapter \ connected
  /\ Move(p, "refused")
  /\ UNCHANGED <<holder, want, connected, sessions>>

\* The adapter cannot connect; nothing is remembered of it.
ConnectFails(p) ==
  /\ at[p] = "getting"
  /\ want[p] \in Adapter \ connected
  /\ Leave(p, "refused")
  /\ UNCHANGED <<want, connected, sessions>>

\* The caller is done with the adapter, or with the error.
Return(p) ==
  /\ at[p] \in {"using", "refused"}
  /\ Move(p, "out")
  /\ UNCHANGED <<holder, want, connected, sessions>>

\* Faulty variant of CloseOne: adapters that are not connected are closed too.
CloseAny(p) ==
  /\ at[p] = "closing"
  /\ \E a \in Adapter :
       /\ sessions' = [sessions EXCEPT ![a] = @ - 1]
       /\ connected' = connected \ {a}
  /\ UNCHANGED <<holder, at, want>>

\* CloseAll closes one of the connected adapters and removes its mark.
CloseOne(p) ==
  /\ at[p] = "closing"
  /\ \E a \in connected :
       /\ sessions' = [sessions EXCEPT ![a] = @ - 1]
       /\ connected' = connected \ {a}
  /\ UNCHANGED <<holder, at, want>>

\* Nothing is left to close.
CloseDone(p) ==
  /\ at[p] = "closing"
  /\ connected = {}
  /\ Leave(p, "out")
  /\ UNCHANGED <<want, connected, sessions>>

\* The steps a goroutine takes by itself once it has called the registry.
Inside(p) ==
  \/ Lock(p) \/ GetUnknown(p) \/ GetConnected(p) \/ Connect(p) \/ ConnectFails(p)
  \/ CloseOne(p) \/ CloseDone(p)

RNext ==
  \/ \E p \in Proc :
       \/ \E n \in Name : Ask(p, n)
       \/ AskClose(p)
       \/ Inside(p)
       \/ Return(p)
  \/ RRestart

RSpec == RInit /\ [][RNext]_rvars
-----------------------------------------------------------------------------
(* Properties *)

\* Types of the state.
RTypeOK ==
  /\ holder \in Proc \cup {Nobody}
  /\ at \in [Proc -> {"out", "asking", "askingClose", "getting", "closing",
                      "using", "refused"}]
  /\ want \in [Proc -> Name]
  /\ connected \subseteq Adapter
  /\ sessions \in [Adapter -> Nat]

\* The goroutine in a critical section is the holder of the mutex.
MutexHeld == \A p \in Proc : at[p] \in {"getting", "closing"} <=> holder = p

\* An adapter has one open session if it is marked connected and none if it is
\* not: concurrent first requests open one, and a closed adapter can be opened
\* again.
OneSession == \A a \in Adapter : sessions[a] = IF a \in connected THEN 1 ELSE 0
=============================================================================
