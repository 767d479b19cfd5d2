---------------------------- MODULE EngineOwner ----------------------------
(***************************************************************************)
(* What the XPC service promises of an engine run, without connections,    *)
(* monitors or mutexes: a run is installed when no other is, is taken by   *)
(* one of those who may end it, is shut down once and then gives back the  *)
(* transaction that keeps the process alive.  A run that is taken no       *)
(* longer stands in the way of the next.                                   *)
(***************************************************************************)
EXTENDS Integers

CONSTANT Runs

VARIABLES
  phase,         \* of each run: none, installed, taken, drained, over
  shutdowns,     \* calls of shutdown on each run
  transactions   \* XPC transactions begun and not ended

vars == <<phase, shutdowns, transactions>>

Init ==
  /\ phase = [m \in Runs |-> "none"]
  /\ shutdowns = [m \in Runs |-> 0]
  /\ transactions = 0

Install(m) ==
  /\ phase[m] = "none"
  /\ \A k \in Runs : phase[k] # "installed"
  /\ phase' = [phase EXCEPT ![m] = "installed"]
  /\ transactions' = transactions + 1
  /\ UNCHANGED shutdowns

Take(m) ==
  /\ phase[m] = "installed"
  /\ phase' = [phase EXCEPT ![m] = "taken"]
  /\ UNCHANGED <<shutdowns, transactions>>

Shutdown(m) ==
  /\ phase[m] = "taken"
  /\ phase' = [phase EXCEPT ![m] = "drained"]
  /\ shutdowns' = [shutdowns EXCEPT ![m] = @ + 1]
  /\ UNCHANGED transactions

EndTransaction(m) ==
  /\ phase[m] = "drained"
  /\ phase' = [phase EXCEPT ![m] = "over"]
  /\ transactions' = transactions - 1
  /\ UNCHANGED shutdowns

Next == \E m \in Runs : Install(m) \/ Take(m) \/ Shutdown(m) \/ EndTransaction(m)

Spec == Init /\ [][Next]_vars
=============================================================================
