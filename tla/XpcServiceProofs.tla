-------------------------- MODULE XpcServiceProofs --------------------------
(***************************************************************************)
(* For any number of clients, runs and termination notices: a run has one  *)
(* owner, its transaction covers it, and the service implements            *)
(* EngineOwner.                                                            *)
(*                                                                         *)
(* Neither property is inductive.  OwnerInv says where a run can be: in    *)
(* the mutex, with its monitor still looking on, or with exactly one       *)
(* handler or monitor, or drained and given back; and that transactions    *)
(* counts the runs of the first two kinds.  Every step then has one of     *)
(* five effects on the runs, which are the steps of EngineOwner.           *)
(*                                                                         *)
(* Until a termination notice comes, one client at a time has the service  *)
(* (AloneInv): a monitor then takes its own run only, and an event reaches *)
(* the client it is about.                                                 *)
(***************************************************************************)
EXTENDS XpcService, FiniteSetTheorems, TLAPS

Undrained == {"live", "failed"}
Open(m) == run = m \/ Held(m)
OpenRuns == {m \in Runs : Open(m)}

\* A start that is under way holds the mutex, and the mutex is then empty.
LockInv ==
  /\ \A c \in Clients : hpc[c] = "starting" => runLock = c
  /\ runLock # NoClient => run = NoRun

\* The run in the mutex has not been drained, and nobody has told its monitor
\* to stop, so the monitor is still polling.
InstalledInv ==
  run # NoRun => /\ engine[run] \in Undrained
                 /\ mpc[run] \in {"poll", "armed"}
                 /\ ~monitor_stop[run]

\* A monitor exists from the start of its run.
MonitorInv ==
  \A m \in Runs : /\ mpc[m] = "none" <=> engine[m] = "none"
                  /\ monitor_stop[m] => engine[m] # "none"

\* What a handler holds at each of its steps.
HandlerInv ==
  \A c \in Clients :
    /\ hpc[c] \in {"signal", "join", "shutdown"} =>
         ending[c] \in Runs /\ engine[ending[c]] \in Undrained
    /\ hpc[c] \in {"stopped", "end"} => ending[c] \in Runs /\ engine[ending[c]] = "drained"
    /\ hpc[c] = "reply" => ending[c] = NoRun \/ engine[ending[c]] = "drained"
    /\ hpc[c] \in {"idle", "forget", "starting", "started", "failed"} => ending[c] = NoRun

\* What a monitor holds at each of its steps.
TakenInv ==
  \A k \in Runs :
    /\ mpc[k] \in {"error", "shutdown"} => taken[k] \in Runs /\ engine[taken[k]] \in Undrained
    /\ mpc[k] \in {"stopped", "end"} => taken[k] \in Runs /\ engine[taken[k]] = "drained"

\* One owner, and none beside the mutex.
OneHolder ==
  \A m \in Runs :
    /\ \A c, d \in Clients : HandlerHolds(c, m) /\ HandlerHolds(d, m) => c = d
    /\ \A k, l \in Runs : MonitorHolds(k, m) /\ MonitorHolds(l, m) => k = l
    /\ \A c \in Clients, k \in Runs : ~(HandlerHolds(c, m) /\ MonitorHolds(k, m))
    /\ run = m => ~Held(m)

\* A run that has begun is drained, in the mutex or with someone.
NoneLost == \A m \in Runs : engine[m] \in Undrained => Open(m)

Counted == transactions = Cardinality(OpenRuns)

Places == LockInv /\ InstalledInv /\ MonitorInv /\ HandlerInv /\ TakenInv /\ OneHolder
OwnerInv == TypeOK /\ Places /\ NoneLost /\ Counted
-----------------------------------------------------------------------------
(***************************************************************************)
(* The effects a step can have on the runs.                                *)
(***************************************************************************)
Quiet ==
  /\ run' = run
  /\ \A m \in Runs : Held(m)' <=> Held(m)
  /\ \A m \in Runs : \/ engine'[m] = engine[m]
                     \/ engine[m] = "live" /\ engine'[m] = "failed"
  /\ UNCHANGED <<shutdowns, transactions>>

Installs(m) ==
  /\ run = NoRun /\ run' = m /\ engine[m] = "none" /\ ~Held(m)
  /\ engine' = [engine EXCEPT ![m] = "live"]
  /\ \A k \in Runs : Held(k)' <=> Held(k)
  /\ transactions' = transactions + 1
  /\ UNCHANGED shutdowns

Takes(m) ==
  /\ run = m /\ run' = NoRun /\ Held(m)'
  /\ \A k \in Runs \ {m} : Held(k)' <=> Held(k)
  /\ UNCHANGED <<engine, shutdowns, transactions>>

Drains(m) ==
  /\ Held(m) /\ engine[m] \in Undrained
  /\ run' = run
  /\ engine' = [engine EXCEPT ![m] = "drained"]
  /\ \A k \in Runs : Held(k)' <=> Held(k)
  /\ shutdowns' = [shutdowns EXCEPT ![m] = @ + 1]
  /\ UNCHANGED transactions

Ends(m) ==
  /\ Held(m) /\ ~Held(m)' /\ engine[m] = "drained"
  /\ run' = run
  /\ \A k \in Runs \ {m} : Held(k)' <=> Held(k)
  /\ transactions' = transactions - 1
  /\ UNCHANGED <<engine, shutdowns>>

Effect ==
  Quiet \/ \E m \in Runs : Installs(m) \/ Takes(m) \/ Drains(m) \/ Ends(m)

\* What each step is shown to do.  That transactions stays a natural number
\* follows from Counted, once the effect is known.
StepOK == (transactions' \in Nat => TypeOK') /\ Places' /\ Effect

\* Runs are finitely many numbers other than NoRun.
LEMMA RunFacts == NoRun \notin Runs /\ IsFiniteSet(Runs) /\ Runs \subseteq Nat
BY BoundsAssumption, FS_Interval DEF Runs, NoRun

\* send_to_peer keeps the history of events typed.
LEMMA SendTyped ==
  ASSUME TypeOK, NEW m \in Runs,
         NEW what \in {"error", "stopped_requested", "stopped_failed"},
         Send(what, m)
  PROVE  sent' \in [Runs -> Seq(Notices)]
<1>1. CASE peer = NoClient
  BY <1>1 DEF TypeOK, Send
<1>2. CASE peer # NoClient
  <2>1. [what |-> what, to |-> peer] \in Notices
    BY <1>2 DEF TypeOK, Notices
  <2>2. Append(sent[m], [what |-> what, to |-> peer]) \in Seq(Notices)
    BY <2>1 DEF TypeOK
  <2> QED BY <1>2, <2>2 DEF TypeOK, Send
<1> QED BY <1>1, <1>2

\* A run somebody holds is not the one in the mutex.
LEMMA HeldNotInstalled ==
  ASSUME OwnerInv, NEW m \in Runs, Held(m)
  PROVE  run # m
BY DEF OwnerInv, Places, OneHolder
-----------------------------------------------------------------------------
(***************************************************************************)
(* Steps that leave every run where it is.                                 *)
(***************************************************************************)

\* Accepting or refusing a connection.
LEMMA AcceptPeerStep ==
  ASSUME OwnerInv, NEW c \in Clients, AcceptPeer(c)
  PROVE  StepOK
<1> USE RunFacts, ClientsAssumption DEF OwnerInv, Places, AcceptPeer, PeerFree,
    serviceVars, handlerVars, monitorVars, runVars
<1>1. transactions' \in Nat => TypeOK'
  <2>1. peer' \in Clients \cup {NoClient}
    BY DEF TypeOK
  <2>2. conn' \in [Clients -> {"new", "open", "refused", "closed"}]
    BY DEF TypeOK
  <2> QED BY <2>1, <2>2 DEF TypeOK
<1>2. LockInv' /\ InstalledInv' /\ MonitorInv'
  BY DEF TypeOK, LockInv, InstalledInv, MonitorInv
<1>3. HandlerInv' /\ TakenInv'
  BY DEF TypeOK, HandlerInv, TakenInv, Undrained
<1>4. \A r \in Runs : \A d \in Clients : HandlerHolds(d, r)' <=> HandlerHolds(d, r)
  BY DEF TypeOK, HandlerInv, HandlerHolds
<1>5. \A r \in Runs : \A k \in Runs : MonitorHolds(k, r)' <=> MonitorHolds(k, r)
  BY DEF TypeOK, MonitorHolds
<1>6. Effect
  BY <1>4, <1>5 DEF TypeOK, Effect, Quiet, Held
<1>7. OneHolder'
  BY <1>4, <1>5 DEF OneHolder, Held
<1> QED BY <1>1, <1>2, <1>3, <1>6, <1>7 DEF StepOK

\* A start refused because a run is installed.
LEMMA StartRefusedStep ==
  ASSUME OwnerInv, NEW c \in Clients, StartRefused(c)
  PROVE  StepOK
<1> USE RunFacts, ClientsAssumption DEF OwnerInv, Places, StartRefused, Ready, Goto,
    serviceVars, handlerVars, monitorVars, runVars
<1>1. transactions' \in Nat => TypeOK'
  BY DEF TypeOK, HandlerStates, MonitorStates
<1>2. LockInv' /\ InstalledInv' /\ MonitorInv'
  BY DEF TypeOK, LockInv, InstalledInv, MonitorInv
<1>3. HandlerInv' /\ TakenInv'
  BY DEF TypeOK, HandlerInv, TakenInv, Undrained
<1>4. \A r \in Runs : \A d \in Clients : HandlerHolds(d, r)' <=> HandlerHolds(d, r)
  BY DEF TypeOK, HandlerInv, HandlerHolds
<1>5. \A r \in Runs : \A k \in Runs : MonitorHolds(k, r)' <=> MonitorHolds(k, r)
  BY DEF TypeOK, MonitorHolds
<1>6. Effect
  BY <1>4, <1>5 DEF TypeOK, Effect, Quiet, Held
<1>7. OneHolder'
  BY <1>4, <1>5 DEF OneHolder, Held
<1> QED BY <1>1, <1>2, <1>3, <1>6, <1>7 DEF StepOK

\* Start locking the run mutex.
LEMMA StartLockStep ==
  ASSUME OwnerInv, NEW c \in Clients, StartLock(c)
  PROVE  StepOK
<1> USE RunFacts, ClientsAssumption DEF OwnerInv, Places, StartLock, Ready, Goto,
    serviceVars, handlerVars, monitorVars, runVars
<1>1. transactions' \in Nat => TypeOK'
  BY DEF TypeOK, HandlerStates, MonitorStates
<1>2. LockInv' /\ InstalledInv' /\ MonitorInv'
  BY DEF TypeOK, LockInv, InstalledInv, MonitorInv
<1>3. HandlerInv' /\ TakenInv'
  BY DEF TypeOK, HandlerInv, TakenInv, Undrained
<1>4. \A r \in Runs : \A d \in Clients : HandlerHolds(d, r)' <=> HandlerHolds(d, r)
  BY DEF TypeOK, HandlerInv, HandlerHolds
<1>5. \A r \in Runs : \A k \in Runs : MonitorHolds(k, r)' <=> MonitorHolds(k, r)
  BY DEF TypeOK, MonitorHolds
<1>6. Effect
  BY <1>4, <1>5 DEF TypeOK, Effect, Quiet, Held
<1>7. OneHolder'
  BY <1>4, <1>5 DEF OneHolder, Held
<1> QED BY <1>1, <1>2, <1>3, <1>6, <1>7 DEF StepOK

\* A start that fails and unlocks.
LEMMA StartFailedStep ==
  ASSUME OwnerInv, NEW c \in Clients, StartFailed(c)
  PROVE  StepOK
<1> USE RunFacts, ClientsAssumption DEF OwnerInv, Places, StartFailed, Goto,
    serviceVars, handlerVars, monitorVars, runVars
<1>1. transactions' \in Nat => TypeOK'
  BY DEF TypeOK, HandlerStates, MonitorStates
<1>2. LockInv' /\ InstalledInv' /\ MonitorInv'
  BY DEF TypeOK, LockInv, InstalledInv, MonitorInv
<1>3. HandlerInv' /\ TakenInv'
  BY DEF TypeOK, HandlerInv, TakenInv, Undrained
<1>4. \A r \in Runs : \A d \in Clients : HandlerHolds(d, r)' <=> HandlerHolds(d, r)
  BY DEF TypeOK, HandlerInv, HandlerHolds
<1>5. \A r \in Runs : \A k \in Runs : MonitorHolds(k, r)' <=> MonitorHolds(k, r)
  BY DEF TypeOK, MonitorHolds
<1>6. Effect
  BY <1>4, <1>5 DEF TypeOK, Effect, Quiet, Held
<1>7. OneHolder'
  BY <1>4, <1>5 DEF OneHolder, Held
<1> QED BY <1>1, <1>2, <1>3, <1>6, <1>7 DEF StepOK

\* The reply to a failed start.
LEMMA ReplyStartErrorStep ==
  ASSUME OwnerInv, NEW c \in Clients, ReplyStartError(c)
  PROVE  StepOK
<1> USE RunFacts, ClientsAssumption DEF OwnerInv, Places, ReplyStartError, Goto,
    serviceVars, handlerVars, monitorVars, runVars
<1>1. transactions' \in Nat => TypeOK'
  BY DEF TypeOK, HandlerStates, MonitorStates
<1>2. LockInv' /\ InstalledInv' /\ MonitorInv'
  BY DEF TypeOK, LockInv, InstalledInv, MonitorInv
<1>3. HandlerInv' /\ TakenInv'
  BY DEF TypeOK, HandlerInv, TakenInv, Undrained
<1>4. \A r \in Runs : \A d \in Clients : HandlerHolds(d, r)' <=> HandlerHolds(d, r)
  BY DEF TypeOK, HandlerInv, HandlerHolds
<1>5. \A r \in Runs : \A k \in Runs : MonitorHolds(k, r)' <=> MonitorHolds(k, r)
  BY DEF TypeOK, MonitorHolds
<1>6. Effect
  BY <1>4, <1>5 DEF TypeOK, Effect, Quiet, Held
<1>7. OneHolder'
  BY <1>4, <1>5 DEF OneHolder, Held
<1> QED BY <1>1, <1>2, <1>3, <1>6, <1>7 DEF StepOK

\* The reply to a start.
LEMMA ReplyStartStep ==
  ASSUME OwnerInv, NEW c \in Clients, ReplyStart(c)
  PROVE  StepOK
<1> USE RunFacts, ClientsAssumption DEF OwnerInv, Places, ReplyStart, Goto,
    serviceVars, handlerVars, monitorVars, runVars
<1>1. transactions' \in Nat => TypeOK'
  BY DEF TypeOK, HandlerStates, MonitorStates
<1>2. LockInv' /\ InstalledInv' /\ MonitorInv'
  BY DEF TypeOK, LockInv, InstalledInv, MonitorInv
<1>3. HandlerInv' /\ TakenInv'
  BY DEF TypeOK, HandlerInv, TakenInv, Undrained
<1>4. \A r \in Runs : \A d \in Clients : HandlerHolds(d, r)' <=> HandlerHolds(d, r)
  BY DEF TypeOK, HandlerInv, HandlerHolds
<1>5. \A r \in Runs : \A k \in Runs : MonitorHolds(k, r)' <=> MonitorHolds(k, r)
  BY DEF TypeOK, MonitorHolds
<1>6. Effect
  BY <1>4, <1>5 DEF TypeOK, Effect, Quiet, Held
<1>7. OneHolder'
  BY <1>4, <1>5 DEF OneHolder, Held
<1> QED BY <1>1, <1>2, <1>3, <1>6, <1>7 DEF StepOK

\* End_run setting monitor_stop.
LEMMA SignalMonitorStep ==
  ASSUME OwnerInv, NEW c \in Clients, SignalMonitor(c)
  PROVE  StepOK
<1> USE RunFacts, ClientsAssumption DEF OwnerInv, Places, SignalMonitor, Goto,
    serviceVars, handlerVars, monitorVars, runVars
<1>1. transactions' \in Nat => TypeOK'
  BY DEF TypeOK, HandlerStates, MonitorStates
<1>2. LockInv' /\ InstalledInv' /\ MonitorInv'
  <2>1. PICK r \in Runs : r = ending[c] /\ engine[r] \in Undrained
    BY DEF HandlerInv
  <2>2. Held(r)
    BY <2>1 DEF Held, HandlerHolds
  <2>3. run # r
    BY <2>2, HeldNotInstalled
  <2> QED BY <2>1, <2>3 DEF TypeOK, LockInv, InstalledInv, MonitorInv, Undrained
<1>3. HandlerInv' /\ TakenInv'
  BY DEF TypeOK, HandlerInv, TakenInv, Undrained
<1>4. \A r \in Runs : \A d \in Clients : HandlerHolds(d, r)' <=> HandlerHolds(d, r)
  BY DEF TypeOK, HandlerInv, HandlerHolds
<1>5. \A r \in Runs : \A k \in Runs : MonitorHolds(k, r)' <=> MonitorHolds(k, r)
  BY DEF TypeOK, MonitorHolds
<1>6. Effect
  BY <1>4, <1>5 DEF TypeOK, Effect, Quiet, Held
<1>7. OneHolder'
  BY <1>4, <1>5 DEF OneHolder, Held
<1> QED BY <1>1, <1>2, <1>3, <1>6, <1>7 DEF StepOK

\* End_run joining the monitor.
LEMMA JoinMonitorStep ==
  ASSUME OwnerInv, NEW c \in Clients, JoinMonitor(c)
  PROVE  StepOK
<1> USE RunFacts, ClientsAssumption DEF OwnerInv, Places, JoinMonitor, Goto,
    serviceVars, handlerVars, monitorVars, runVars
<1>1. transactions' \in Nat => TypeOK'
  BY DEF TypeOK, HandlerStates, MonitorStates
<1>2. LockInv' /\ InstalledInv' /\ MonitorInv'
  BY DEF TypeOK, LockInv, InstalledInv, MonitorInv
<1>3. HandlerInv' /\ TakenInv'
  BY DEF TypeOK, HandlerInv, TakenInv, Undrained
<1>4. \A r \in Runs : \A d \in Clients : HandlerHolds(d, r)' <=> HandlerHolds(d, r)
  BY DEF TypeOK, HandlerInv, HandlerHolds
<1>5. \A r \in Runs : \A k \in Runs : MonitorHolds(k, r)' <=> MonitorHolds(k, r)
  BY DEF TypeOK, MonitorHolds
<1>6. Effect
  BY <1>4, <1>5 DEF TypeOK, Effect, Quiet, Held
<1>7. OneHolder'
  BY <1>4, <1>5 DEF OneHolder, Held
<1> QED BY <1>1, <1>2, <1>3, <1>6, <1>7 DEF StepOK

\* The reply to stop.
LEMMA ReplyStopStep ==
  ASSUME OwnerInv, NEW c \in Clients, ReplyStop(c)
  PROVE  StepOK
<1> USE RunFacts, ClientsAssumption DEF OwnerInv, Places, ReplyStop, Goto,
    serviceVars, handlerVars, monitorVars, runVars
<1>1. transactions' \in Nat => TypeOK'
  BY DEF TypeOK, HandlerStates, MonitorStates
<1>2. LockInv' /\ InstalledInv' /\ MonitorInv'
  BY DEF TypeOK, LockInv, InstalledInv, MonitorInv
<1>3. HandlerInv' /\ TakenInv'
  BY DEF TypeOK, HandlerInv, TakenInv, Undrained
<1>4. \A r \in Runs : \A d \in Clients : HandlerHolds(d, r)' <=> HandlerHolds(d, r)
  BY DEF TypeOK, HandlerInv, HandlerHolds
<1>5. \A r \in Runs : \A k \in Runs : MonitorHolds(k, r)' <=> MonitorHolds(k, r)
  BY DEF TypeOK, MonitorHolds
<1>6. Effect
  BY <1>4, <1>5 DEF TypeOK, Effect, Quiet, Held
<1>7. OneHolder'
  BY <1>4, <1>5 DEF OneHolder, Held
<1> QED BY <1>1, <1>2, <1>3, <1>6, <1>7 DEF StepOK

\* The stopped event of a requested stop.
LEMMA SendStoppedStep ==
  ASSUME OwnerInv, NEW c \in Clients, SendStopped(c)
  PROVE  StepOK
<1> USE RunFacts, ClientsAssumption DEF OwnerInv, Places, SendStopped, Goto,
    serviceVars, handlerVars, monitorVars, runVars
<1>1. transactions' \in Nat => TypeOK'
  <2>1. PICK r \in Runs : r = ending[c]
    BY DEF HandlerInv
  <2>2. Send("stopped_requested", r)
    BY <2>1 DEF Send
  <2>3. sent' \in [Runs -> Seq(Notices)]
    BY <2>2, SendTyped
  <2> QED BY <2>3 DEF TypeOK, HandlerStates, MonitorStates
<1>2. LockInv' /\ InstalledInv' /\ MonitorInv'
  BY DEF TypeOK, LockInv, InstalledInv, MonitorInv
<1>3. HandlerInv' /\ TakenInv'
  BY DEF TypeOK, HandlerInv, TakenInv, Undrained
<1>4. \A r \in Runs : \A d \in Clients : HandlerHolds(d, r)' <=> HandlerHolds(d, r)
  BY DEF TypeOK, HandlerInv, HandlerHolds
<1>5. \A r \in Runs : \A k \in Runs : MonitorHolds(k, r)' <=> MonitorHolds(k, r)
  BY DEF TypeOK, MonitorHolds
<1>6. Effect
  BY <1>4, <1>5 DEF TypeOK, Effect, Quiet, Held
<1>7. OneHolder'
  BY <1>4, <1>5 DEF OneHolder, Held
<1> QED BY <1>1, <1>2, <1>3, <1>6, <1>7 DEF StepOK

\* Clearing the peer.
LEMMA ForgetPeerStep ==
  ASSUME OwnerInv, NEW c \in Clients, ForgetPeer(c)
  PROVE  StepOK
<1> USE RunFacts, ClientsAssumption DEF OwnerInv, Places, ForgetPeer, Goto,
    serviceVars, handlerVars, monitorVars, runVars
<1>1. transactions' \in Nat => TypeOK'
  BY DEF TypeOK, HandlerStates, MonitorStates
<1>2. LockInv' /\ InstalledInv' /\ MonitorInv'
  BY DEF TypeOK, LockInv, InstalledInv, MonitorInv
<1>3. HandlerInv' /\ TakenInv'
  BY DEF TypeOK, HandlerInv, TakenInv, Undrained
<1>4. \A r \in Runs : \A d \in Clients : HandlerHolds(d, r)' <=> HandlerHolds(d, r)
  BY DEF TypeOK, HandlerInv, HandlerHolds
<1>5. \A r \in Runs : \A k \in Runs : MonitorHolds(k, r)' <=> MonitorHolds(k, r)
  BY DEF TypeOK, MonitorHolds
<1>6. Effect
  BY <1>4, <1>5 DEF TypeOK, Effect, Quiet, Held
<1>7. OneHolder'
  BY <1>4, <1>5 DEF OneHolder, Held
<1> QED BY <1>1, <1>2, <1>3, <1>6, <1>7 DEF StepOK

\* A hardware stream error.
LEMMA EngineFailsStep ==
  ASSUME OwnerInv, NEW m \in Runs, EngineFails(m)
  PROVE  StepOK
<1> USE RunFacts, ClientsAssumption DEF OwnerInv, Places, EngineFails,
    serviceVars, handlerVars, monitorVars, runVars
<1>1. transactions' \in Nat => TypeOK'
  BY DEF TypeOK, HandlerStates, MonitorStates
<1>2. LockInv' /\ InstalledInv' /\ MonitorInv'
  BY DEF TypeOK, LockInv, InstalledInv, MonitorInv, Undrained
<1>3. HandlerInv' /\ TakenInv'
  BY DEF TypeOK, HandlerInv, TakenInv, Undrained
<1>4. \A r \in Runs : \A d \in Clients : HandlerHolds(d, r)' <=> HandlerHolds(d, r)
  BY DEF TypeOK, HandlerInv, HandlerHolds
<1>5. \A r \in Runs : \A k \in Runs : MonitorHolds(k, r)' <=> MonitorHolds(k, r)
  BY DEF TypeOK, MonitorHolds
<1>6. Effect
  BY <1>4, <1>5 DEF TypeOK, Effect, Quiet, Held
<1>7. OneHolder'
  BY <1>4, <1>5 DEF OneHolder, Held
<1> QED BY <1>1, <1>2, <1>3, <1>6, <1>7 DEF StepOK

\* The monitor looking at monitor_stop.
LEMMA MonitorPollStep ==
  ASSUME OwnerInv, NEW m \in Runs, MonitorPoll(m)
  PROVE  StepOK
<1> USE RunFacts, ClientsAssumption DEF OwnerInv, Places, MonitorPoll, MonitorGoto,
    serviceVars, handlerVars, monitorVars, runVars
<1>1. transactions' \in Nat => TypeOK'
  BY DEF TypeOK, HandlerStates, MonitorStates
<1>2. LockInv' /\ InstalledInv' /\ MonitorInv'
  BY DEF TypeOK, LockInv, InstalledInv, MonitorInv
<1>3. HandlerInv' /\ TakenInv'
  BY DEF TypeOK, HandlerInv, TakenInv, Undrained
<1>4. \A r \in Runs : \A d \in Clients : HandlerHolds(d, r)' <=> HandlerHolds(d, r)
  BY DEF TypeOK, HandlerInv, HandlerHolds
<1>5. \A r \in Runs : \A k \in Runs : MonitorHolds(k, r)' <=> MonitorHolds(k, r)
  BY DEF TypeOK, MonitorHolds
<1>6. Effect
  BY <1>4, <1>5 DEF TypeOK, Effect, Quiet, Held
<1>7. OneHolder'
  BY <1>4, <1>5 DEF OneHolder, Held
<1> QED BY <1>1, <1>2, <1>3, <1>6, <1>7 DEF StepOK

\* The monitor sending the error event.
LEMMA MonitorErrorStep ==
  ASSUME OwnerInv, NEW m \in Runs, MonitorError(m)
  PROVE  StepOK
<1> USE RunFacts, ClientsAssumption DEF OwnerInv, Places, MonitorError, MonitorGoto,
    serviceVars, handlerVars, monitorVars, runVars
<1>1. transactions' \in Nat => TypeOK'
  <2>1. PICK r \in Runs : r = taken[m]
    BY DEF TakenInv
  <2>2. Send("error", r)
    BY <2>1 DEF Send
  <2>3. sent' \in [Runs -> Seq(Notices)]
    BY <2>2, SendTyped
  <2> QED BY <2>3 DEF TypeOK, HandlerStates, MonitorStates
<1>2. LockInv' /\ InstalledInv' /\ MonitorInv'
  BY DEF TypeOK, LockInv, InstalledInv, MonitorInv
<1>3. HandlerInv' /\ TakenInv'
  BY DEF TypeOK, HandlerInv, TakenInv, Undrained
<1>4. \A r \in Runs : \A d \in Clients : HandlerHolds(d, r)' <=> HandlerHolds(d, r)
  BY DEF TypeOK, HandlerInv, HandlerHolds
<1>5. \A r \in Runs : \A k \in Runs : MonitorHolds(k, r)' <=> MonitorHolds(k, r)
  BY DEF TypeOK, MonitorHolds
<1>6. Effect
  BY <1>4, <1>5 DEF TypeOK, Effect, Quiet, Held
<1>7. OneHolder'
  BY <1>4, <1>5 DEF OneHolder, Held
<1> QED BY <1>1, <1>2, <1>3, <1>6, <1>7 DEF StepOK

\* The monitor sending the stopped event.
LEMMA MonitorStoppedStep ==
  ASSUME OwnerInv, NEW m \in Runs, MonitorStopped(m)
  PROVE  StepOK
<1> USE RunFacts, ClientsAssumption DEF OwnerInv, Places, MonitorStopped, MonitorGoto,
    serviceVars, handlerVars, monitorVars, runVars
<1>1. transactions' \in Nat => TypeOK'
  <2>1. PICK r \in Runs : r = taken[m]
    BY DEF TakenInv
  <2>2. Send("stopped_failed", r)
    BY <2>1 DEF Send
  <2>3. sent' \in [Runs -> Seq(Notices)]
    BY <2>2, SendTyped
  <2> QED BY <2>3 DEF TypeOK, HandlerStates, MonitorStates
<1>2. LockInv' /\ InstalledInv' /\ MonitorInv'
  BY DEF TypeOK, LockInv, InstalledInv, MonitorInv
<1>3. HandlerInv' /\ TakenInv'
  BY DEF TypeOK, HandlerInv, TakenInv, Undrained
<1>4. \A r \in Runs : \A d \in Clients : HandlerHolds(d, r)' <=> HandlerHolds(d, r)
  BY DEF TypeOK, HandlerInv, HandlerHolds
<1>5. \A r \in Runs : \A k \in Runs : MonitorHolds(k, r)' <=> MonitorHolds(k, r)
  BY DEF TypeOK, MonitorHolds
<1>6. Effect
  BY <1>4, <1>5 DEF TypeOK, Effect, Quiet, Held
<1>7. OneHolder'
  BY <1>4, <1>5 DEF OneHolder, Held
<1> QED BY <1>1, <1>2, <1>3, <1>6, <1>7 DEF StepOK
-----------------------------------------------------------------------------
(***************************************************************************)
(* Steps that drain a run, or give back its transaction.                   *)
(***************************************************************************)

\* App::shutdown returning to end_run: the run drained is this thread's alone.
LEMMA ShutdownEndedStep ==
  ASSUME OwnerInv, NEW c \in Clients, ShutdownEnded(c)
  PROVE  StepOK
<1> USE RunFacts, ClientsAssumption DEF OwnerInv, Places, ShutdownEnded, Goto, Drain,
    serviceVars, handlerVars, monitorVars, runVars
<1>1. PICK r \in Runs : r = ending[c] /\ engine[r] \in Undrained
  BY DEF HandlerInv
<1>2. HandlerHolds(c, r)
  BY <1>1 DEF HandlerHolds
<1>3. Held(r) /\ run # r
  BY <1>2, HeldNotInstalled DEF Held
<1>4. /\ \A d \in Clients : HandlerHolds(d, r) => d = c
      /\ \A k \in Runs : MonitorHolds(k, r) => FALSE
  BY <1>2 DEF OneHolder
<1>5. transactions' \in Nat => TypeOK'
  <2>1. engine' \in [Runs -> {"none", "live", "failed", "drained"}]
    BY <1>1 DEF TypeOK
  <2>2. shutdowns' \in [Runs -> Nat]
    BY <1>1 DEF TypeOK
  <2> QED BY <2>1, <2>2 DEF TypeOK, HandlerStates, MonitorStates
<1>6. LockInv' /\ InstalledInv' /\ MonitorInv'
  BY <1>1, <1>3 DEF TypeOK, LockInv, InstalledInv, MonitorInv, Undrained
<1>7. HandlerInv'
  BY <1>1, <1>4 DEF TypeOK, HandlerInv, HandlerHolds, Undrained
<1>8. TakenInv'
  BY <1>1, <1>4 DEF TypeOK, TakenInv, MonitorHolds, Undrained
<1>9. \A q \in Runs : \A d \in Clients : HandlerHolds(d, q)' <=> HandlerHolds(d, q)
  BY DEF TypeOK, HandlerHolds
<1>10. \A q \in Runs : \A k \in Runs : MonitorHolds(k, q)' <=> MonitorHolds(k, q)
  BY DEF TypeOK, MonitorHolds
<1>11. OneHolder'
  BY <1>9, <1>10 DEF OneHolder, Held
<1>12. Drains(r)
  BY <1>1, <1>3, <1>9, <1>10 DEF TypeOK, Drains, Held
<1> QED BY <1>5, <1>6, <1>7, <1>8, <1>11, <1>12 DEF StepOK, Effect

\* App::shutdown returning to the monitor: the run drained is this thread's alone.
LEMMA MonitorShutdownStep ==
  ASSUME OwnerInv, NEW m \in Runs, MonitorShutdown(m)
  PROVE  StepOK
<1> USE RunFacts, ClientsAssumption DEF OwnerInv, Places, MonitorShutdown, MonitorGoto, Drain,
    serviceVars, handlerVars, monitorVars, runVars
<1>1. PICK r \in Runs : r = taken[m] /\ engine[r] \in Undrained
  BY DEF TakenInv
<1>2. MonitorHolds(m, r)
  BY <1>1 DEF MonitorHolds
<1>3. Held(r) /\ run # r
  BY <1>2, HeldNotInstalled DEF Held
<1>4. /\ \A d \in Clients : HandlerHolds(d, r) => FALSE
      /\ \A k \in Runs : MonitorHolds(k, r) => k = m
  BY <1>2 DEF OneHolder
<1>5. transactions' \in Nat => TypeOK'
  <2>1. engine' \in [Runs -> {"none", "live", "failed", "drained"}]
    BY <1>1 DEF TypeOK
  <2>2. shutdowns' \in [Runs -> Nat]
    BY <1>1 DEF TypeOK
  <2> QED BY <2>1, <2>2 DEF TypeOK, HandlerStates, MonitorStates
<1>6. LockInv' /\ InstalledInv' /\ MonitorInv'
  BY <1>1, <1>3 DEF TypeOK, LockInv, InstalledInv, MonitorInv, Undrained
<1>7. HandlerInv'
  BY <1>1, <1>4 DEF TypeOK, HandlerInv, HandlerHolds, Undrained
<1>8. TakenInv'
  BY <1>1, <1>4 DEF TypeOK, TakenInv, MonitorHolds, Undrained
<1>9. \A q \in Runs : \A d \in Clients : HandlerHolds(d, q)' <=> HandlerHolds(d, q)
  BY DEF TypeOK, HandlerHolds
<1>10. \A q \in Runs : \A k \in Runs : MonitorHolds(k, q)' <=> MonitorHolds(k, q)
  BY DEF TypeOK, MonitorHolds
<1>11. OneHolder'
  BY <1>9, <1>10 DEF OneHolder, Held
<1>12. Drains(r)
  BY <1>1, <1>3, <1>9, <1>10 DEF TypeOK, Drains, Held
<1> QED BY <1>5, <1>6, <1>7, <1>8, <1>11, <1>12 DEF StepOK, Effect

\* End_run ending the transaction of the run it holds.
LEMMA EndTransactionStep ==
  ASSUME OwnerInv, NEW c \in Clients, EndTransaction(c)
  PROVE  StepOK
<1> USE RunFacts, ClientsAssumption DEF OwnerInv, Places, EndTransaction, Goto, TransactionEnd,
    serviceVars, handlerVars, monitorVars, runVars
<1>1. PICK r \in Runs : r = ending[c] /\ engine[r] = "drained"
  BY DEF HandlerInv
<1>2. HandlerHolds(c, r)
  BY <1>1 DEF HandlerHolds
<1>3. /\ \A d \in Clients : HandlerHolds(d, r) => d = c
      /\ \A k \in Runs : MonitorHolds(k, r) => FALSE
  BY <1>2 DEF OneHolder
<1>4. transactions' \in Nat => TypeOK'
  BY DEF TypeOK, HandlerStates, MonitorStates
<1>5. LockInv' /\ InstalledInv' /\ MonitorInv'
  BY DEF TypeOK, LockInv, InstalledInv, MonitorInv, Undrained
<1>6. HandlerInv' /\ TakenInv'
  BY DEF TypeOK, HandlerInv, TakenInv, Undrained
<1>7. \A q \in Runs : \A d \in Clients :
        HandlerHolds(d, q)' <=> HandlerHolds(d, q) /\ ~(d = c /\ q = r)
  BY <1>1 DEF TypeOK, HandlerHolds
<1>8. \A q \in Runs : \A k \in Runs : MonitorHolds(k, q)' <=> MonitorHolds(k, q)
  BY DEF TypeOK, MonitorHolds
<1>9. OneHolder'
  BY <1>7, <1>8 DEF OneHolder, Held
<1>10. Ends(r)
  BY <1>1, <1>2, <1>3, <1>7, <1>8 DEF TypeOK, Ends, Held
<1> QED BY <1>4, <1>5, <1>6, <1>9, <1>10 DEF StepOK, Effect

\* The monitor ending the transaction of the run it holds.
LEMMA MonitorEndStep ==
  ASSUME OwnerInv, NEW m \in Runs, MonitorEnd(m)
  PROVE  StepOK
<1> USE RunFacts, ClientsAssumption DEF OwnerInv, Places, MonitorEnd, MonitorGoto,
    serviceVars, handlerVars, monitorVars, runVars
<1>1. PICK r \in Runs : r = taken[m] /\ engine[r] = "drained"
  BY DEF TakenInv
<1>2. MonitorHolds(m, r)
  BY <1>1 DEF MonitorHolds
<1>3. /\ \A d \in Clients : HandlerHolds(d, r) => FALSE
      /\ \A k \in Runs : MonitorHolds(k, r) => k = m
  BY <1>2 DEF OneHolder
<1>4. transactions' \in Nat => TypeOK'
  BY DEF TypeOK, HandlerStates, MonitorStates
<1>5. LockInv' /\ InstalledInv' /\ MonitorInv'
  BY DEF TypeOK, LockInv, InstalledInv, MonitorInv, Undrained
<1>6. HandlerInv' /\ TakenInv'
  BY DEF TypeOK, HandlerInv, TakenInv, Undrained
<1>7. \A q \in Runs : \A d \in Clients : HandlerHolds(d, q)' <=> HandlerHolds(d, q)
  BY DEF TypeOK, HandlerHolds
<1>8. \A q \in Runs : \A k \in Runs :
        MonitorHolds(k, q)' <=> MonitorHolds(k, q) /\ ~(k = m /\ q = r)
  BY <1>1 DEF TypeOK, MonitorHolds
<1>9. OneHolder'
  BY <1>7, <1>8 DEF OneHolder, Held
<1>10. Ends(r)
  BY <1>1, <1>2, <1>3, <1>7, <1>8 DEF TypeOK, Ends, Held
<1> QED BY <1>4, <1>5, <1>6, <1>9, <1>10 DEF StepOK, Effect
-----------------------------------------------------------------------------
(***************************************************************************)
(* Steps that take a run out of the mutex, or put one into it.             *)
(***************************************************************************)

\* end_run's take, for whatever reason: an idle handler that held nothing
\* holds the run that was in the mutex, if there was one.
LEMMA TakeToEndStep ==
  ASSUME OwnerInv, NEW c \in Clients, hpc[c] = "idle",
         NEW why \in {"stop", "gone"}, NEW whenIdle \in {"reply", "forget"},
         TakeToEnd(c, why, whenIdle),
         conn' \in [Clients -> {"new", "open", "refused", "closed"}],
         terminations' \in 0..MaxTerminations,
         UNCHANGED <<peer, transactions, monitorVars, runVars, sent>>
  PROVE  StepOK
<1> USE RunFacts, ClientsAssumption DEF OwnerInv, Places, TakeToEnd, Goto, TakeRun,
    DropGuard, monitorVars, runVars
<1>1. transactions' \in Nat => TypeOK'
  <2>1. hpc' \in [Clients -> HandlerStates]
    BY DEF TypeOK, HandlerStates
  <2>2. run' \in Runs \cup {NoRun} /\ runLock' \in Clients \cup {NoClient}
    BY DEF TypeOK
  <2>3. ending' \in [Clients -> Runs \cup {NoRun}] /\ cause' \in [Clients -> {"stop", "gone"}]
    BY DEF TypeOK
  <2> QED BY <2>1, <2>2, <2>3 DEF TypeOK
<1>2. LockInv' /\ InstalledInv' /\ MonitorInv'
  BY DEF TypeOK, LockInv, InstalledInv, MonitorInv
<1>3. HandlerInv' /\ TakenInv'
  BY DEF TypeOK, InstalledInv, HandlerInv, TakenInv
<1>4. \A m \in Runs : \A k \in Runs : MonitorHolds(k, m)' <=> MonitorHolds(k, m)
  BY DEF MonitorHolds
<1>5. \A m \in Runs : \A d \in Clients \ {c} : HandlerHolds(d, m)' <=> HandlerHolds(d, m)
  BY DEF TypeOK, HandlerHolds
<1>6. CASE run = NoRun
  <2>1. \A m \in Runs : ~HandlerHolds(c, m) /\ ~HandlerHolds(c, m)'
    BY <1>6 DEF TypeOK, HandlerInv, HandlerHolds
  <2>2. OneHolder'
    BY <1>4, <1>5, <1>6, <2>1 DEF OneHolder, Held
  <2>3. Quiet
    BY <1>4, <1>5, <1>6, <2>1 DEF Quiet, Held
  <2> QED BY <1>1, <1>2, <1>3, <2>2, <2>3 DEF StepOK, Effect
<1>7. CASE run # NoRun
  <2>1. PICK r \in Runs : r = run
    BY <1>7 DEF TypeOK
  <2>2. \A m \in Runs : ~HandlerHolds(c, m) /\ (HandlerHolds(c, m)' <=> m = r)
    BY <1>7, <2>1 DEF TypeOK, HandlerHolds
  <2>3. ~Held(r)
    BY <2>1 DEF OneHolder
  <2>4. OneHolder'
    BY <1>4, <1>5, <1>7, <2>1, <2>2, <2>3 DEF OneHolder, Held
  <2>5. Takes(r)
    BY <1>4, <1>5, <1>7, <2>1, <2>2 DEF Takes, Held
  <2> QED BY <1>1, <1>2, <1>3, <2>4, <2>5 DEF StepOK, Effect
<1> QED BY <1>6, <1>7

\* stop takes the run.
LEMMA StopStep ==
  ASSUME OwnerInv, NEW c \in Clients, Stop(c)
  PROVE  StepOK
<1>1. TakeToEnd(c, "stop", "reply") /\ hpc[c] = "idle"
  BY DEF Stop, Ready
<1>2. /\ conn' \in [Clients -> {"new", "open", "refused", "closed"}]
      /\ terminations' \in 0..MaxTerminations
      /\ UNCHANGED <<peer, transactions, monitorVars, runVars, sent>>
  BY DEF OwnerInv, TypeOK, Stop
<1> QED BY <1>1, <1>2, TakeToEndStep

\* A client that disconnects takes its run with it.
LEMMA DisconnectStep ==
  ASSUME OwnerInv, NEW c \in Clients, Disconnect(c)
  PROVE  StepOK
<1>1. TakeToEnd(c, "gone", "forget") /\ hpc[c] = "idle"
  BY DEF Disconnect, Ready
<1>2. /\ conn' \in [Clients -> {"new", "open", "refused", "closed"}]
      /\ terminations' \in 0..MaxTerminations
      /\ UNCHANGED <<peer, transactions, monitorVars, runVars, sent>>
  BY DEF OwnerInv, TypeOK, Disconnect
<1> QED BY <1>1, <1>2, TakeToEndStep

\* So does a termination notice.
LEMMA TerminationImminentStep ==
  ASSUME OwnerInv, NEW c \in Clients, TerminationImminent(c)
  PROVE  StepOK
<1>1. TakeToEnd(c, "gone", "forget") /\ hpc[c] = "idle"
  BY DEF TerminationImminent, Ready
<1>2. /\ conn' \in [Clients -> {"new", "open", "refused", "closed"}]
      /\ terminations' \in 0..MaxTerminations
      /\ UNCHANGED <<peer, transactions, monitorVars, runVars, sent>>
  BY BoundsAssumption DEF OwnerInv, TypeOK, TerminationImminent
<1> QED BY <1>1, <1>2, TakeToEndStep

\* A monitor under the mutex goes back to polling, finishes, or takes a failed
\* run, which may be another's.
LEMMA MonitorLockStep ==
  ASSUME OwnerInv, NEW m \in Runs, MonitorLock(m)
  PROVE  StepOK
<1> USE RunFacts, ClientsAssumption DEF OwnerInv, Places, MonitorLock, MonitorGoto, TakeRun,
    handlerVars, runVars
<1>1. transactions' \in Nat => TypeOK'
  BY DEF TypeOK, MonitorStates
<1>2. LockInv' /\ InstalledInv' /\ MonitorInv'
  BY DEF TypeOK, LockInv, InstalledInv, MonitorInv
<1>3. HandlerInv' /\ TakenInv'
  BY DEF TypeOK, HandlerInv, TakenInv, Undrained
<1>4. \A q \in Runs : \A d \in Clients : HandlerHolds(d, q)' <=> HandlerHolds(d, q)
  BY DEF HandlerHolds
<1>5. \A q \in Runs : \A k \in Runs \ {m} : MonitorHolds(k, q)' <=> MonitorHolds(k, q)
  BY DEF TypeOK, MonitorHolds
<1>6. \A q \in Runs : ~MonitorHolds(m, q)
  BY DEF MonitorHolds
<1>7. CASE run' = run
  <2>1. \A q \in Runs : ~MonitorHolds(m, q)'
    BY <1>7 DEF TypeOK, MonitorHolds
  <2>2. OneHolder'
    BY <1>4, <1>5, <1>6, <1>7, <2>1 DEF OneHolder, Held
  <2>3. Quiet
    BY <1>4, <1>5, <1>6, <1>7, <2>1 DEF Quiet, Held
  <2> QED BY <1>1, <1>2, <1>3, <2>2, <2>3 DEF StepOK, Effect
<1>8. CASE run' # run
  <2>1. PICK r \in Runs : r = run
    BY <1>8 DEF TypeOK
  <2>2. \A q \in Runs : MonitorHolds(m, q)' <=> q = r
    BY <1>8, <2>1 DEF TypeOK, MonitorHolds
  <2>3. ~Held(r)
    BY <2>1 DEF OneHolder
  <2>4. OneHolder'
    BY <1>4, <1>5, <1>6, <1>8, <2>1, <2>2, <2>3 DEF OneHolder, Held
  <2>5. Takes(r)
    BY <1>4, <1>5, <1>6, <1>8, <2>1, <2>2 DEF Takes, Held
  <2> QED BY <1>1, <1>2, <1>3, <2>4, <2>5 DEF StepOK, Effect
<1> QED BY <1>7, <1>8

\* start installs a run nobody can be holding yet.
LEMMA StartRunStep ==
  ASSUME OwnerInv, NEW c \in Clients, StartRun(c)
  PROVE  StepOK
<1> USE RunFacts, ClientsAssumption DEF OwnerInv, Places, StartRun, Goto
<1>1. PICK r \in Runs :
        /\ engine[r] = "none"
        /\ transactions' = transactions + 1
        /\ mpc' = [mpc EXCEPT ![r] = "poll"]
        /\ engine' = [engine EXCEPT ![r] = "live"]
        /\ startedBy' = [startedBy EXCEPT ![r] = c]
        /\ run' = r
  BY DEF Begun
<1>2. run = NoRun
  BY DEF LockInv
<1>3. mpc[r] = "none" /\ ~monitor_stop[r]
  BY <1>1 DEF MonitorInv
<1>4. transactions' \in Nat => TypeOK'
  BY <1>1 DEF TypeOK, HandlerStates, MonitorStates
<1>5. LockInv' /\ InstalledInv' /\ MonitorInv'
  BY <1>1, <1>2, <1>3 DEF TypeOK, LockInv, InstalledInv, MonitorInv, Undrained
<1>6. HandlerInv' /\ TakenInv'
  BY <1>1, <1>3 DEF TypeOK, HandlerInv, TakenInv, Undrained
<1>7. \A q \in Runs : \A d \in Clients : HandlerHolds(d, q)' <=> HandlerHolds(d, q)
  BY DEF TypeOK, HandlerInv, HandlerHolds
<1>8. \A q \in Runs : \A k \in Runs : MonitorHolds(k, q)' <=> MonitorHolds(k, q)
  BY <1>1, <1>3 DEF TypeOK, MonitorHolds
<1>9. ~Held(r)
  <2>1. \A d \in Clients : ~HandlerHolds(d, r)
    BY <1>1 DEF HandlerHolds, HandlerInv, Undrained
  <2>2. \A k \in Runs : ~MonitorHolds(k, r)
    BY <1>1 DEF MonitorHolds, TakenInv, Undrained
  <2> QED BY <2>1, <2>2 DEF Held
<1>10. OneHolder'
  <2>1. \A q \in Runs : run' = q => ~Held(q)'
    BY <1>1, <1>7, <1>8, <1>9 DEF Held
  <2> QED BY <1>7, <1>8, <2>1 DEF OneHolder
<1>11. Installs(r)
  BY <1>1, <1>2, <1>7, <1>8, <1>9 DEF Installs, Held
<1> QED BY <1>4, <1>5, <1>6, <1>10, <1>11 DEF StepOK, Effect
-----------------------------------------------------------------------------
(***************************************************************************)
(* From the effects to the invariant and to EngineOwner.                   *)
(***************************************************************************)

\* Every step of the service has one of the effects.
LEMMA NextStep ==
  ASSUME OwnerInv, Next
  PROVE  StepOK
<1>1. ASSUME NEW c \in Clients, ClientEvent(c) PROVE StepOK
  BY <1>1, AcceptPeerStep, StopStep, DisconnectStep, TerminationImminentStep,
     StartRefusedStep, StartLockStep DEF ClientEvent
<1>2. ASSUME NEW c \in Clients, HandlerStep(c) PROVE StepOK
  BY <1>2, SignalMonitorStep, JoinMonitorStep, ShutdownEndedStep, ReplyStopStep,
     SendStoppedStep, EndTransactionStep, ForgetPeerStep, StartFailedStep,
     ReplyStartErrorStep, StartRunStep, ReplyStartStep DEF HandlerStep
<1>3. ASSUME NEW m \in Runs, MonitorStep(m) PROVE StepOK
  BY <1>3, MonitorPollStep, MonitorLockStep, MonitorErrorStep, MonitorShutdownStep,
     MonitorStoppedStep, MonitorEndStep DEF MonitorStep
<1> QED BY <1>1, <1>2, <1>3, EngineFailsStep DEF Next

\* A run stops being open only when it has been drained.
LEMMA KeepsNoneLost ==
  ASSUME OwnerInv, Effect
  PROVE  NoneLost'
<1> USE RunFacts DEF OwnerInv, NoneLost, Open, Undrained
<1>1. CASE Quiet
  BY <1>1 DEF Quiet
<1>2. ASSUME NEW m \in Runs, Installs(m) PROVE NoneLost'
  BY <1>2 DEF Installs, TypeOK
<1>3. ASSUME NEW m \in Runs, Takes(m) PROVE NoneLost'
  BY <1>3 DEF Takes
<1>4. ASSUME NEW m \in Runs, Drains(m) PROVE NoneLost'
  BY <1>4 DEF Drains, TypeOK
<1>5. ASSUME NEW m \in Runs, Ends(m) PROVE NoneLost'
  BY <1>5 DEF Ends
<1> QED BY <1>1, <1>2, <1>3, <1>4, <1>5 DEF Effect

\* One transaction for each open run: it is begun with the run and ended with
\* the run's last owner.
LEMMA KeepsCounted ==
  ASSUME OwnerInv, Effect
  PROVE  Counted' /\ transactions' \in Nat
<1> USE RunFacts DEF OwnerInv
<1>1. /\ IsFiniteSet(OpenRuns) /\ OpenRuns \subseteq Runs
      /\ transactions = Cardinality(OpenRuns) /\ transactions \in Nat
  BY FS_Subset, FS_CardinalityType DEF OpenRuns, Counted
<1>2. CASE OpenRuns' = OpenRuns /\ transactions' = transactions
  BY <1>1, <1>2 DEF Counted
<1>3. CASE Quiet
  <2>1. OpenRuns' = OpenRuns /\ transactions' = transactions
    BY <1>3 DEF Quiet, OpenRuns, Open
  <2> QED BY <1>2, <2>1
<1>4. ASSUME NEW m \in Runs, Installs(m) PROVE Counted' /\ transactions' \in Nat
  <2>1. m \notin OpenRuns /\ OpenRuns' = OpenRuns \cup {m}
    BY <1>4 DEF Installs, OpenRuns, Open
  <2>2. Cardinality(OpenRuns') = Cardinality(OpenRuns) + 1
    BY <1>1, <2>1, FS_AddElement
  <2> QED BY <1>1, <1>4, <2>2 DEF Installs, Counted
<1>5. ASSUME NEW m \in Runs, Takes(m) PROVE Counted' /\ transactions' \in Nat
  <2>1. OpenRuns' = OpenRuns /\ transactions' = transactions
    BY <1>5 DEF Takes, OpenRuns, Open
  <2> QED BY <1>2, <2>1
<1>6. ASSUME NEW m \in Runs, Drains(m) PROVE Counted' /\ transactions' \in Nat
  <2>1. OpenRuns' = OpenRuns /\ transactions' = transactions
    BY <1>6 DEF Drains, OpenRuns, Open
  <2> QED BY <1>2, <2>1
<1>7. ASSUME NEW m \in Runs, Ends(m) PROVE Counted' /\ transactions' \in Nat
  <2>1. run # m
    BY <1>7, HeldNotInstalled DEF Ends
  <2>2. m \in OpenRuns /\ OpenRuns' = OpenRuns \ {m}
    BY <1>7, <2>1 DEF Ends, OpenRuns, Open
  <2>3. IsFiniteSet(OpenRuns') /\ Cardinality(OpenRuns') = Cardinality(OpenRuns) - 1
    BY <1>1, <2>2, FS_RemoveElement
  <2>4. Cardinality(OpenRuns') \in Nat
    BY <2>3, FS_CardinalityType
  <2> QED BY <1>1, <1>7, <2>3, <2>4 DEF Ends, Counted
<1> QED BY <1>3, <1>4, <1>5, <1>6, <1>7 DEF Effect

\* Nothing has begun in the initial state.
LEMMA InitOwnerInv == Init => OwnerInv
<1> SUFFICES ASSUME Init PROVE OwnerInv
  OBVIOUS
<1> USE RunFacts, ClientsAssumption DEF Init
<1>1. TypeOK
  BY BoundsAssumption DEF TypeOK, HandlerStates, MonitorStates
<1>2. LockInv /\ InstalledInv /\ MonitorInv /\ HandlerInv /\ TakenInv
  BY DEF LockInv, InstalledInv, MonitorInv, HandlerInv, TakenInv
<1>3. \A m \in Runs : ~Held(m) /\ run # m
  BY DEF Held, HandlerHolds, MonitorHolds
<1>4. OneHolder
  BY <1>3 DEF OneHolder, Held
<1>5. NoneLost
  BY DEF NoneLost, Undrained
<1>6. OpenRuns = {}
  BY <1>3 DEF OpenRuns, Open
<1>7. Counted
  BY <1>6, FS_EmptySet DEF Counted
<1> QED BY <1>1, <1>2, <1>4, <1>5, <1>7 DEF OwnerInv, Places

\* The invariant is inductive.
LEMMA StepOwnerInv == OwnerInv /\ [Next]_vars => OwnerInv'
<1> SUFFICES ASSUME OwnerInv, [Next]_vars PROVE OwnerInv'
  OBVIOUS
<1>1. CASE Next
  <2>1. StepOK
    BY <1>1, NextStep
  <2>2. NoneLost' /\ Counted' /\ transactions' \in Nat
    BY <2>1, KeepsNoneLost, KeepsCounted DEF StepOK
  <2> QED BY <2>1, <2>2 DEF StepOK, OwnerInv
<1>2. CASE UNCHANGED vars
  BY <1>2 DEF vars, serviceVars, handlerVars, monitorVars, runVars, OwnerInv, Places, TypeOK,
     LockInv, InstalledInv, MonitorInv, HandlerInv, TakenInv, OneHolder, NoneLost, Counted,
     OpenRuns, Open, Held, HandlerHolds, MonitorHolds
<1> QED BY <1>1, <1>2
-----------------------------------------------------------------------------
(***************************************************************************)
(* The theorems.                                                           *)
(***************************************************************************)

\* Every run is in the mutex, with one handler or monitor, or drained and given
\* back, and the transactions count the runs of the first two kinds.
THEOREM OwnerInvariant == Spec => []OwnerInv
BY InitOwnerInv, StepOwnerInv, PTL DEF Spec

\* The variables keep their kinds; transactions never goes below zero.
THEOREM TypeCorrect == Spec => []TypeOK
<1>1. OwnerInv => TypeOK
  BY DEF OwnerInv
<1> QED BY <1>1, OwnerInvariant, PTL

\* A transaction is open for every engine that is not drained, and none is when
\* everyone is idle.
THEOREM TransactionCovers == Spec => []TransactionCoversRun
<1>1. OwnerInv => TransactionCoversRun
  <2> SUFFICES ASSUME OwnerInv PROVE TransactionCoversRun
    OBVIOUS
  <2> USE RunFacts DEF OwnerInv, Places
  <2>1. IsFiniteSet(OpenRuns) /\ Cardinality(OpenRuns) = transactions
    BY FS_Subset DEF OpenRuns, Counted
  <2>2. {m \in Begun : engine[m] # "drained"} \subseteq OpenRuns
    BY DEF Begun, OpenRuns, NoneLost, Undrained, TypeOK
  <2>3. transactions >= Cardinality({m \in Begun : engine[m] # "drained"})
    BY <2>1, <2>2, FS_Subset, FS_CardinalityType
  <2>4. ASSUME \A c \in Clients : hpc[c] = "idle",
               \A m \in Runs : mpc[m] \in {"none", "done"}
        PROVE  transactions = 0
    <3>1. run = NoRun
      BY <2>4 DEF InstalledInv, TypeOK
    <3>2. \A m \in Runs : ~Held(m)
      BY <2>4 DEF Held, HandlerHolds, MonitorHolds
    <3>3. OpenRuns = {}
      BY <3>1, <3>2 DEF OpenRuns, Open
    <3> QED BY <2>1, <3>3, FS_EmptySet
  <2> QED BY <2>3, <2>4 DEF TransactionCoversRun
<1> QED BY <1>1, OwnerInvariant, PTL

\* Each effect is a step of EngineOwner or none of its business.
LEMMA EffectRefines ==
  ASSUME OwnerInv, Effect
  PROVE  [Owner!Next]_(Owner!vars)
<1> DEFINE P == [m \in Runs |-> Phase(m)]
<1> USE RunFacts DEF OwnerInv, Places
<1>1. CASE Quiet
  <2>1. \A k \in Runs : Phase(k)' = Phase(k)
    BY <1>1 DEF Quiet, Phase, TypeOK
  <2>2. P' = P
    BY <2>1
  <2> QED BY <1>1, <2>2 DEF Quiet, Owner!vars
<1>2. ASSUME NEW m \in Runs, Installs(m) PROVE Owner!Install(m)
  <2>1. P[m] = "none" /\ P'[m] = "installed" /\ \A k \in Runs : P[k] # "installed"
    BY <1>2 DEF Installs, Phase, TypeOK
  <2>2. \A k \in Runs \ {m} : P'[k] = P[k]
    BY <1>2 DEF Installs, Phase, TypeOK
  <2>3. P' = [P EXCEPT ![m] = "installed"]
    BY <2>1, <2>2
  <2> QED BY <1>2, <2>1, <2>3 DEF Installs, Owner!Install
<1>3. ASSUME NEW m \in Runs, Takes(m) PROVE Owner!Take(m)
  <2>1. P[m] = "installed" /\ P'[m] = "taken"
    BY <1>3 DEF Takes, Phase, InstalledInv, Undrained
  <2>2. \A k \in Runs \ {m} : P'[k] = P[k]
    BY <1>3 DEF Takes, Phase, TypeOK
  <2>3. P' = [P EXCEPT ![m] = "taken"]
    BY <2>1, <2>2
  <2> QED BY <1>3, <2>1, <2>3 DEF Takes, Owner!Take
<1>4. ASSUME NEW m \in Runs, Drains(m) PROVE Owner!Shutdown(m)
  <2>1. run # m
    BY <1>4, HeldNotInstalled DEF Drains
  <2>2. P[m] = "taken" /\ P'[m] = "drained"
    BY <1>4, <2>1 DEF Drains, Phase, Undrained, TypeOK
  <2>3. \A k \in Runs \ {m} : P'[k] = P[k]
    BY <1>4 DEF Drains, Phase, TypeOK
  <2>4. P' = [P EXCEPT ![m] = "drained"]
    BY <2>2, <2>3
  <2> QED BY <1>4, <2>2, <2>4 DEF Drains, Owner!Shutdown
<1>5. ASSUME NEW m \in Runs, Ends(m) PROVE Owner!EndTransaction(m)
  <2>1. run # m
    BY <1>5, HeldNotInstalled DEF Ends
  <2>2. P[m] = "drained" /\ P'[m] = "over"
    BY <1>5, <2>1 DEF Ends, Phase
  <2>3. \A k \in Runs \ {m} : P'[k] = P[k]
    BY <1>5 DEF Ends, Phase
  <2>4. P' = [P EXCEPT ![m] = "over"]
    BY <2>2, <2>3
  <2> QED BY <1>5, <2>2, <2>4 DEF Ends, Owner!EndTransaction
<1> QED BY <1>1, <1>2, <1>3, <1>4, <1>5 DEF Effect, Owner!Next

\* The service implements EngineOwner: whatever the race between stop, a
\* disconnect, a termination notice and the monitors, a run is shut down once
\* and its transaction ends once and afterwards.
THEOREM ServiceImplementsOwner == Spec => ImplementsOwner
<1>1. Init => Owner!Init
  BY RunFacts DEF Init, Owner!Init, Phase
<1>2. OwnerInv /\ [Next]_vars => [Owner!Next]_(Owner!vars)
  <2> SUFFICES ASSUME OwnerInv, [Next]_vars PROVE [Owner!Next]_(Owner!vars)
    OBVIOUS
  <2>1. CASE Next
    BY <2>1, NextStep, EffectRefines DEF StepOK
  <2>2. CASE UNCHANGED vars
    BY <2>2 DEF vars, serviceVars, handlerVars, monitorVars, runVars, Owner!vars, Phase, Held,
       HandlerHolds, MonitorHolds
  <2> QED BY <2>1, <2>2
<1> QED BY <1>1, <1>2, OwnerInvariant, PTL DEF Spec, ImplementsOwner, Owner!Spec
-----------------------------------------------------------------------------
(***************************************************************************)
(* One client at a time: what holds until a termination notice comes.      *)
(***************************************************************************)

\* One client has the service: an open connection, or a handler under way, is
\* the peer's, and a client that is being forgotten has closed its connection.
SolePeer ==
  \A c \in Clients :
    /\ conn[c] = "open" \/ hpc[c] # "idle" => peer = c
    /\ hpc[c] = "forget" \/ cause[c] = "gone" => conn[c] = "closed"
    /\ hpc[c] = "starting" => conn[c] = "open"

\* end_run is joining the monitor of the run it took.
Joining(c, m) == ending[c] = m /\ hpc[c] \in {"signal", "join"}

\* A monitor that may still take a run has its own in the mutex, or is about to
\* be joined; and no run is started before it has been.
MonitorsJoined ==
  /\ \A m \in Runs : mpc[m] \in {"poll", "armed"} =>
       run = m \/ \E c \in Clients : Joining(c, m)
  /\ \A c \in Clients : hpc[c] \in {"signal", "join"} => run = NoRun

OwnRun == \A m \in Runs : taken[m] \in {m, NoRun}

\* Who started a run: the client whose connection is open while the run is in
\* the mutex, and the one whose handler ends it.
Starters ==
  /\ \A m \in Runs : engine[m] # "none" =>
       startedBy[m] \in Clients /\ conn[startedBy[m]] \in {"open", "closed"}
  /\ run # NoRun => conn[startedBy[run]] = "open"
  /\ \A c \in Clients, m \in Runs : HandlerHolds(c, m) => startedBy[m] = c

\* Nothing is said about a run before it starts, and later only to its starter
\* while that one is there.
Delivered ==
  \A m \in Runs :
    /\ engine[m] = "none" => sent[m] = << >>
    /\ \A i \in 1..Len(sent[m]) :
         sent[m][i].to # startedBy[m] => conn[startedBy[m]] = "closed"

Alone == SolePeer /\ MonitorsJoined /\ OwnRun /\ Starters /\ Delivered
AloneInv == terminations = 0 => Alone

\* An event about a run that has begun, sent to its starter or after that one
\* has closed its connection.
LEMMA SendDelivered ==
  ASSUME TypeOK, Delivered, NEW r \in Runs, NEW what, Send(what, r),
         engine[r] # "none",
         peer # startedBy[r] => conn[startedBy[r]] = "closed",
         UNCHANGED <<conn, engine, startedBy>>
  PROVE  Delivered'
<1>1. CASE peer = NoClient
  BY <1>1 DEF Delivered, Send
<1>2. CASE peer # NoClient
  <2> DEFINE e == [what |-> what, to |-> peer]
  <2>1. sent[r] \in Seq(Notices) /\ sent' = [sent EXCEPT ![r] = Append(sent[r], e)]
    BY <1>2 DEF TypeOK, Send
  <2>2. Len(sent'[r]) = Len(sent[r]) + 1 /\ Len(sent[r]) \in Nat
        /\ sent'[r][Len(sent[r]) + 1] = e /\ e.to = peer
        /\ \A i \in 1..Len(sent[r]) : sent'[r][i] = sent[r][i]
    BY <2>1 DEF TypeOK
  <2>3. \A m \in Runs \ {r} : sent'[m] = sent[m]
    BY <2>1 DEF TypeOK
  <2> HIDE DEF e
  <2>4. \A i \in 1..Len(sent'[r]) :
          sent'[r][i].to # startedBy[r] => conn[startedBy[r]] = "closed"
    BY <2>2 DEF Delivered
  <2> QED BY <2>3, <2>4 DEF Delivered
<1> QED BY <1>1, <1>2

\* A handler that takes a run comes to hold that run and no other.
LEMMA TakeToEndHolds ==
  ASSUME OwnerInv, NEW c \in Clients, NEW why, NEW whenIdle, TakeToEnd(c, why, whenIdle)
  PROVE  \A d \in Clients, m \in Runs :
           HandlerHolds(d, m)' => HandlerHolds(d, m) \/ (d = c /\ m = run)
<1> USE RunFacts DEF OwnerInv, TypeOK, TakeToEnd, Goto
<1> TAKE d \in Clients, m \in Runs
<1>1. CASE d = c
  <2>1. ending'[c] = run
    OBVIOUS
  <2> QED BY <1>1, <2>1 DEF HandlerHolds
<1>2. CASE d # c
  <2>1. ending'[d] = ending[d] /\ hpc'[d] = hpc[d]
    BY <1>2
  <2> QED BY <2>1 DEF HandlerHolds
<1> QED BY <1>1, <1>2

\* A connection is accepted only when there is no peer, so no handler is under
\* way; the new client has started nothing.
LEMMA AcceptPeerAlone ==
  ASSUME OwnerInv, Alone, NEW c \in Clients, AcceptPeer(c)
  PROVE  Alone'
<1> USE RunFacts, ClientsAssumption DEF OwnerInv, Places, TypeOK, Alone,
    AcceptPeer, PeerFree, serviceVars, handlerVars, monitorVars, runVars
<1>1. SolePeer'
  BY DEF SolePeer
<1>2. MonitorsJoined'
  BY DEF MonitorsJoined, Joining
<1>3. OwnRun'
  BY DEF OwnRun
<1>4. Starters'
  <2>1. \A m \in Runs : engine[m] # "none" => startedBy[m] # c
    BY DEF Starters
  <2>2. \A m \in Runs : engine[m] # "none" =>
          startedBy[m] \in Clients /\ conn'[startedBy[m]] = conn[startedBy[m]]
    BY <2>1 DEF Starters
  <2>3. run # NoRun => engine[run] # "none"
    BY DEF InstalledInv, Undrained
  <2> QED BY <2>2, <2>3 DEF Starters, HandlerHolds
<1>5. Delivered'
  <2>1. \A m \in Runs : engine[m] # "none" =>
          startedBy[m] \in Clients /\ startedBy[m] # c
    BY DEF Starters
  <2>2. \A m \in Runs : engine[m] = "none" => 1..Len(sent[m]) = {}
    BY DEF Delivered
  <2> QED BY <2>1, <2>2 DEF Delivered
<1> QED BY <1>1, <1>2, <1>3, <1>4, <1>5 DEF Alone

\* stop takes the run of the client that asks.
LEMMA StopAlone ==
  ASSUME OwnerInv, Alone, NEW c \in Clients, Stop(c)
  PROVE  Alone'
<1> USE RunFacts, ClientsAssumption DEF OwnerInv, Places, TypeOK, Alone,
    Stop, TakeToEnd, TakeRun, DropGuard, Ready, Goto, serviceVars, handlerVars, monitorVars,
    runVars
<1>1. SolePeer'
  BY DEF SolePeer
<1>2. MonitorsJoined'
  BY DEF MonitorsJoined, Joining
<1>3. OwnRun'
  BY DEF OwnRun
<1>4. Starters'
  <2>1. run # NoRun => startedBy[run] = c
    BY DEF Starters, SolePeer, InstalledInv, Undrained
  <2>2. \A d \in Clients, m \in Runs :
          HandlerHolds(d, m)' => HandlerHolds(d, m) \/ (d = c /\ m = run)
    BY TakeToEndHolds
  <2>3. \A d \in Clients, m \in Runs : HandlerHolds(d, m)' => startedBy'[m] = d
    BY <2>1, <2>2 DEF Starters
  <2>4. \A m \in Runs : engine[m] # "none" =>
          startedBy[m] \in Clients /\ conn'[startedBy[m]] \in {"open", "closed"}
    BY DEF Starters
  <2> QED BY <2>3, <2>4 DEF Starters
<1>5. Delivered'
  BY DEF Delivered
<1> QED BY <1>1, <1>2, <1>3, <1>4, <1>5 DEF Alone

\* So does a disconnect; the connection is closed from then on.
LEMMA DisconnectAlone ==
  ASSUME OwnerInv, Alone, NEW c \in Clients, Disconnect(c)
  PROVE  Alone'
<1> USE RunFacts, ClientsAssumption DEF OwnerInv, Places, TypeOK, Alone,
    Disconnect, TakeToEnd, TakeRun, DropGuard, Ready, Goto, serviceVars, handlerVars,
    monitorVars, runVars
<1>1. SolePeer'
  BY DEF SolePeer
<1>2. MonitorsJoined'
  BY DEF MonitorsJoined, Joining
<1>3. OwnRun'
  BY DEF OwnRun
<1>4. Starters'
  <2>1. run # NoRun => startedBy[run] = c
    BY DEF Starters, SolePeer, InstalledInv, Undrained
  <2>2. \A d \in Clients, m \in Runs :
          HandlerHolds(d, m)' => HandlerHolds(d, m) \/ (d = c /\ m = run)
    BY TakeToEndHolds
  <2>3. \A d \in Clients, m \in Runs : HandlerHolds(d, m)' => startedBy'[m] = d
    BY <2>1, <2>2 DEF Starters
  <2>4. \A m \in Runs : engine[m] # "none" =>
          startedBy[m] \in Clients /\ conn'[startedBy[m]] \in {"open", "closed"}
    BY DEF Starters
  <2> QED BY <2>3, <2>4 DEF Starters
<1>5. Delivered'
  BY DEF Delivered
<1> QED BY <1>1, <1>2, <1>3, <1>4, <1>5 DEF Alone

\* A start refused because a run is installed.
LEMMA StartRefusedAlone ==
  ASSUME OwnerInv, Alone, NEW c \in Clients, StartRefused(c)
  PROVE  Alone'
<1> USE RunFacts, ClientsAssumption DEF OwnerInv, Places, TypeOK, Alone,
    StartRefused, Ready, Goto, serviceVars, handlerVars, monitorVars, runVars
<1>1. SolePeer'
  BY DEF SolePeer
<1>2. MonitorsJoined'
  BY DEF MonitorsJoined, Joining
<1>3. OwnRun'
  BY DEF OwnRun
<1>4. Starters'
  BY DEF Starters, HandlerHolds
<1>5. Delivered'
  BY DEF Delivered
<1> QED BY <1>1, <1>2, <1>3, <1>4, <1>5 DEF Alone

\* A start locks the mutex for a client whose connection is open.
LEMMA StartLockAlone ==
  ASSUME OwnerInv, Alone, NEW c \in Clients, StartLock(c)
  PROVE  Alone'
<1> USE RunFacts, ClientsAssumption DEF OwnerInv, Places, TypeOK, Alone,
    StartLock, Ready, Goto, serviceVars, handlerVars, monitorVars, runVars
<1>1. SolePeer'
  BY DEF SolePeer
<1>2. MonitorsJoined'
  BY DEF MonitorsJoined, Joining
<1>3. OwnRun'
  BY DEF OwnRun
<1>4. Starters'
  BY DEF Starters, HandlerHolds
<1>5. Delivered'
  BY DEF Delivered
<1> QED BY <1>1, <1>2, <1>3, <1>4, <1>5 DEF Alone

\* A start that fails.
LEMMA StartFailedAlone ==
  ASSUME OwnerInv, Alone, NEW c \in Clients, StartFailed(c)
  PROVE  Alone'
<1> USE RunFacts, ClientsAssumption DEF OwnerInv, Places, TypeOK, Alone,
    StartFailed, Goto, serviceVars, handlerVars, monitorVars, runVars
<1>1. SolePeer'
  BY DEF SolePeer
<1>2. MonitorsJoined'
  BY DEF MonitorsJoined, Joining
<1>3. OwnRun'
  BY DEF OwnRun
<1>4. Starters'
  BY DEF Starters, HandlerHolds
<1>5. Delivered'
  BY DEF Delivered
<1> QED BY <1>1, <1>2, <1>3, <1>4, <1>5 DEF Alone

\* The reply to it.
LEMMA ReplyStartErrorAlone ==
  ASSUME OwnerInv, Alone, NEW c \in Clients, ReplyStartError(c)
  PROVE  Alone'
<1> USE RunFacts, ClientsAssumption DEF OwnerInv, Places, TypeOK, Alone,
    ReplyStartError, Goto, serviceVars, handlerVars, monitorVars, runVars
<1>1. SolePeer'
  BY DEF SolePeer
<1>2. MonitorsJoined'
  BY DEF MonitorsJoined, Joining
<1>3. OwnRun'
  BY DEF OwnRun
<1>4. Starters'
  BY DEF Starters, HandlerHolds
<1>5. Delivered'
  BY DEF Delivered
<1> QED BY <1>1, <1>2, <1>3, <1>4, <1>5 DEF Alone

\* A run starts when every earlier monitor has been joined or has taken its run,
\* since the one handler that is under way is the one that starts it.
LEMMA StartRunAlone ==
  ASSUME OwnerInv, Alone, NEW c \in Clients, StartRun(c)
  PROVE  Alone'
<1> USE RunFacts, ClientsAssumption DEF OwnerInv, Places, TypeOK, Alone,
    StartRun, Goto, Begun, serviceVars, handlerVars, monitorVars, runVars
<1>1. SolePeer'
  BY DEF SolePeer
<1>2. MonitorsJoined'
  <2>1. peer = c /\ run = NoRun
    BY DEF SolePeer, LockInv
  <2>2. \A d \in Clients : hpc[d] \notin {"signal", "join"}
    BY <2>1 DEF SolePeer
  <2>3. \A k \in Runs : mpc[k] \notin {"poll", "armed"}
    BY <2>1, <2>2 DEF MonitorsJoined, Joining
  <2>4. \A k \in Runs : mpc'[k] \in {"poll", "armed"} => run' = k
    BY <2>3
  <2> QED BY <2>2, <2>4 DEF MonitorsJoined
<1>3. OwnRun'
  BY DEF OwnRun
<1>4. Starters'
  BY DEF Starters, HandlerHolds, SolePeer
<1>5. Delivered'
  <2>1. PICK r \in Runs : engine[r] = "none" /\ startedBy' = [startedBy EXCEPT ![r] = c]
                          /\ engine' = [engine EXCEPT ![r] = "live"]
    OBVIOUS
  <2>2. 1..Len(sent[r]) = {}
    BY <2>1 DEF Delivered
  <2> QED BY <2>1, <2>2 DEF Delivered
<1> QED BY <1>1, <1>2, <1>3, <1>4, <1>5 DEF Alone

\* The reply to start.
LEMMA ReplyStartAlone ==
  ASSUME OwnerInv, Alone, NEW c \in Clients, ReplyStart(c)
  PROVE  Alone'
<1> USE RunFacts, ClientsAssumption DEF OwnerInv, Places, TypeOK, Alone,
    ReplyStart, Goto, serviceVars, handlerVars, monitorVars, runVars
<1>1. SolePeer'
  BY DEF SolePeer
<1>2. MonitorsJoined'
  BY DEF MonitorsJoined, Joining
<1>3. OwnRun'
  BY DEF OwnRun
<1>4. Starters'
  BY DEF Starters, HandlerHolds
<1>5. Delivered'
  BY DEF Delivered
<1> QED BY <1>1, <1>2, <1>3, <1>4, <1>5 DEF Alone

\* end_run sets monitor_stop.
LEMMA SignalMonitorAlone ==
  ASSUME OwnerInv, Alone, NEW c \in Clients, SignalMonitor(c)
  PROVE  Alone'
<1> USE RunFacts, ClientsAssumption DEF OwnerInv, Places, TypeOK, Alone,
    SignalMonitor, Goto, serviceVars, handlerVars, monitorVars, runVars
<1>1. SolePeer'
  BY DEF SolePeer
<1>2. MonitorsJoined'
  BY DEF MonitorsJoined, Joining
<1>3. OwnRun'
  BY DEF OwnRun
<1>4. Starters'
  BY DEF Starters, HandlerHolds
<1>5. Delivered'
  BY DEF Delivered
<1> QED BY <1>1, <1>2, <1>3, <1>4, <1>5 DEF Alone

\* After the join the monitor can take nothing.
LEMMA JoinMonitorAlone ==
  ASSUME OwnerInv, Alone, NEW c \in Clients, JoinMonitor(c)
  PROVE  Alone'
<1> USE RunFacts, ClientsAssumption DEF OwnerInv, Places, TypeOK, Alone,
    JoinMonitor, Goto, MonitorJoined, serviceVars, handlerVars, monitorVars, runVars
<1>1. SolePeer'
  BY DEF SolePeer
<1>2. MonitorsJoined'
  BY DEF MonitorsJoined, Joining
<1>3. OwnRun'
  BY DEF OwnRun
<1>4. Starters'
  BY DEF Starters, HandlerHolds
<1>5. Delivered'
  BY DEF Delivered
<1> QED BY <1>1, <1>2, <1>3, <1>4, <1>5 DEF Alone

\* end_run shuts the engine down.
LEMMA ShutdownEndedAlone ==
  ASSUME OwnerInv, Alone, NEW c \in Clients, ShutdownEnded(c)
  PROVE  Alone'
<1> USE RunFacts, ClientsAssumption DEF OwnerInv, Places, TypeOK, Alone,
    ShutdownEnded, Goto, Drain, serviceVars, handlerVars, monitorVars, runVars
<1>1. SolePeer'
  BY DEF SolePeer
<1>2. MonitorsJoined'
  BY DEF MonitorsJoined, Joining
<1>3. OwnRun'
  BY DEF OwnRun
<1>4. Starters'
  <2>1. PICK r \in Runs : r = ending[c] /\ engine[r] # "none"
    BY DEF HandlerInv, Undrained
  <2>2. \A m \in Runs : engine'[m] # "none" => engine[m] # "none"
    BY <2>1
  <2>3. \A d \in Clients, m \in Runs : HandlerHolds(d, m)' => HandlerHolds(d, m)
    BY DEF HandlerHolds
  <2> QED BY <2>2, <2>3 DEF Starters
<1>5. Delivered'
  BY DEF Delivered
<1> QED BY <1>1, <1>2, <1>3, <1>4, <1>5 DEF Alone

\* The reply to stop.
LEMMA ReplyStopAlone ==
  ASSUME OwnerInv, Alone, NEW c \in Clients, ReplyStop(c)
  PROVE  Alone'
<1> USE RunFacts, ClientsAssumption DEF OwnerInv, Places, TypeOK, Alone,
    ReplyStop, Goto, serviceVars, handlerVars, monitorVars, runVars
<1>1. SolePeer'
  BY DEF SolePeer
<1>2. MonitorsJoined'
  BY DEF MonitorsJoined, Joining
<1>3. OwnRun'
  BY DEF OwnRun
<1>4. Starters'
  BY DEF Starters, HandlerHolds
<1>5. Delivered'
  BY DEF Delivered
<1> QED BY <1>1, <1>2, <1>3, <1>4, <1>5 DEF Alone

\* The handler that sends stopped is its starter's, and the peer's.
LEMMA SendStoppedAlone ==
  ASSUME OwnerInv, Alone, NEW c \in Clients, SendStopped(c)
  PROVE  Alone'
<1> USE RunFacts, ClientsAssumption DEF OwnerInv, Places, TypeOK, Alone,
    SendStopped, Goto, serviceVars, handlerVars, monitorVars, runVars
<1>1. SolePeer'
  BY DEF SolePeer
<1>2. MonitorsJoined'
  BY DEF MonitorsJoined, Joining
<1>3. OwnRun'
  BY DEF OwnRun
<1>4. Starters'
  BY DEF Starters, HandlerHolds
<1>5. Delivered'
  <2>1. PICK r \in Runs : r = ending[c] /\ engine[r] # "none"
    BY DEF HandlerInv
  <2>2. startedBy[r] = c /\ peer = c
    BY <2>1 DEF SolePeer, Starters, HandlerHolds
  <2> QED BY <2>1, <2>2, SendDelivered
<1> QED BY <1>1, <1>2, <1>3, <1>4, <1>5 DEF Alone

\* The handler gives the run back.
LEMMA EndTransactionAlone ==
  ASSUME OwnerInv, Alone, NEW c \in Clients, EndTransaction(c)
  PROVE  Alone'
<1> USE RunFacts, ClientsAssumption DEF OwnerInv, Places, TypeOK, Alone,
    EndTransaction, Goto, serviceVars, handlerVars, monitorVars, runVars
<1>1. SolePeer'
  BY DEF SolePeer
<1>2. MonitorsJoined'
  BY DEF MonitorsJoined, Joining
<1>3. OwnRun'
  BY DEF OwnRun
<1>4. Starters'
  BY DEF Starters, HandlerHolds
<1>5. Delivered'
  BY DEF Delivered
<1> QED BY <1>1, <1>2, <1>3, <1>4, <1>5 DEF Alone

\* The client that is forgotten has closed its connection.
LEMMA ForgetPeerAlone ==
  ASSUME OwnerInv, Alone, NEW c \in Clients, ForgetPeer(c)
  PROVE  Alone'
<1> USE RunFacts, ClientsAssumption DEF OwnerInv, Places, TypeOK, Alone,
    ForgetPeer, Goto, serviceVars, handlerVars, monitorVars, runVars
<1>1. SolePeer'
  BY DEF SolePeer
<1>2. MonitorsJoined'
  BY DEF MonitorsJoined, Joining
<1>3. OwnRun'
  BY DEF OwnRun
<1>4. Starters'
  BY DEF Starters, HandlerHolds
<1>5. Delivered'
  BY DEF Delivered
<1> QED BY <1>1, <1>2, <1>3, <1>4, <1>5 DEF Alone

\* A hardware error.
LEMMA EngineFailsAlone ==
  ASSUME OwnerInv, Alone, NEW m \in Runs, EngineFails(m)
  PROVE  Alone'
<1> USE RunFacts, ClientsAssumption DEF OwnerInv, Places, TypeOK, Alone,
    EngineFails, serviceVars, handlerVars, monitorVars, runVars
<1>1. SolePeer'
  BY DEF SolePeer
<1>2. MonitorsJoined'
  BY DEF MonitorsJoined, Joining
<1>3. OwnRun'
  BY DEF OwnRun
<1>4. Starters'
  BY DEF Starters, HandlerHolds
<1>5. Delivered'
  BY DEF Delivered
<1> QED BY <1>1, <1>2, <1>3, <1>4, <1>5 DEF Alone

\* A monitor looks at its flag.
LEMMA MonitorPollAlone ==
  ASSUME OwnerInv, Alone, NEW m \in Runs, MonitorPoll(m)
  PROVE  Alone'
<1> USE RunFacts, ClientsAssumption DEF OwnerInv, Places, TypeOK, Alone,
    MonitorPoll, MonitorGoto, serviceVars, handlerVars, monitorVars, runVars
<1>1. SolePeer'
  BY DEF SolePeer
<1>2. MonitorsJoined'
  BY DEF MonitorsJoined, Joining
<1>3. OwnRun'
  BY DEF OwnRun
<1>4. Starters'
  BY DEF Starters, HandlerHolds
<1>5. Delivered'
  BY DEF Delivered
<1> QED BY <1>1, <1>2, <1>3, <1>4, <1>5 DEF Alone

\* A monitor that finds a run in the mutex finds its own: had it been taken by a
\* handler, the mutex would be empty.
LEMMA MonitorLockAlone ==
  ASSUME OwnerInv, Alone, NEW m \in Runs, MonitorLock(m)
  PROVE  Alone'
<1> USE RunFacts, ClientsAssumption DEF OwnerInv, Places, TypeOK, Alone,
    MonitorLock, MonitorGoto, TakeRun, serviceVars, handlerVars, monitorVars, runVars
<1>1. SolePeer'
  BY DEF SolePeer
<1>2. MonitorsJoined'
  BY DEF MonitorsJoined, Joining
<1>3. OwnRun'
  <2>1. run # NoRun => run = m
    BY DEF MonitorsJoined, Joining
  <2> QED BY <2>1 DEF OwnRun
<1>4. Starters'
  BY DEF Starters, HandlerHolds
<1>5. Delivered'
  BY DEF Delivered
<1> QED BY <1>1, <1>2, <1>3, <1>4, <1>5 DEF Alone

\* A monitor's events go to the peer, who is the starter if that one is there.
LEMMA MonitorErrorAlone ==
  ASSUME OwnerInv, Alone, NEW m \in Runs, MonitorError(m)
  PROVE  Alone'
<1> USE RunFacts, ClientsAssumption DEF OwnerInv, Places, TypeOK, Alone,
    MonitorError, MonitorGoto, serviceVars, handlerVars, monitorVars, runVars
<1>1. SolePeer'
  BY DEF SolePeer
<1>2. MonitorsJoined'
  BY DEF MonitorsJoined, Joining
<1>3. OwnRun'
  BY DEF OwnRun
<1>4. Starters'
  BY DEF Starters, HandlerHolds
<1>5. Delivered'
  <2>1. PICK r \in Runs : r = taken[m] /\ engine[r] # "none"
    BY DEF TakenInv, Undrained
  <2>2. peer # startedBy[r] => conn[startedBy[r]] = "closed"
    BY <2>1 DEF SolePeer, Starters
  <2> QED BY <2>1, <2>2, SendDelivered
<1> QED BY <1>1, <1>2, <1>3, <1>4, <1>5 DEF Alone

\* A monitor shuts the engine down.
LEMMA MonitorShutdownAlone ==
  ASSUME OwnerInv, Alone, NEW m \in Runs, MonitorShutdown(m)
  PROVE  Alone'
<1> USE RunFacts, ClientsAssumption DEF OwnerInv, Places, TypeOK, Alone,
    MonitorShutdown, MonitorGoto, Drain, serviceVars, handlerVars, monitorVars, runVars
<1>1. SolePeer'
  BY DEF SolePeer
<1>2. MonitorsJoined'
  BY DEF MonitorsJoined, Joining
<1>3. OwnRun'
  BY DEF OwnRun
<1>4. Starters'
  <2>1. PICK r \in Runs : r = taken[m] /\ engine[r] # "none"
    BY DEF TakenInv, Undrained
  <2>2. \A k \in Runs : engine'[k] # "none" => engine[k] # "none"
    BY <2>1
  <2> QED BY <2>2 DEF Starters, HandlerHolds
<1>5. Delivered'
  BY DEF Delivered
<1> QED BY <1>1, <1>2, <1>3, <1>4, <1>5 DEF Alone

\* A monitor's second event.
LEMMA MonitorStoppedAlone ==
  ASSUME OwnerInv, Alone, NEW m \in Runs, MonitorStopped(m)
  PROVE  Alone'
<1> USE RunFacts, ClientsAssumption DEF OwnerInv, Places, TypeOK, Alone,
    MonitorStopped, MonitorGoto, serviceVars, handlerVars, monitorVars, runVars
<1>1. SolePeer'
  BY DEF SolePeer
<1>2. MonitorsJoined'
  BY DEF MonitorsJoined, Joining
<1>3. OwnRun'
  BY DEF OwnRun
<1>4. Starters'
  BY DEF Starters, HandlerHolds
<1>5. Delivered'
  <2>1. PICK r \in Runs : r = taken[m] /\ engine[r] # "none"
    BY DEF TakenInv, Undrained
  <2>2. peer # startedBy[r] => conn[startedBy[r]] = "closed"
    BY <2>1 DEF SolePeer, Starters
  <2> QED BY <2>1, <2>2, SendDelivered
<1> QED BY <1>1, <1>2, <1>3, <1>4, <1>5 DEF Alone

\* A monitor gives the run back.
LEMMA MonitorEndAlone ==
  ASSUME OwnerInv, Alone, NEW m \in Runs, MonitorEnd(m)
  PROVE  Alone'
<1> USE RunFacts, ClientsAssumption DEF OwnerInv, Places, TypeOK, Alone,
    MonitorEnd, MonitorGoto, serviceVars, handlerVars, monitorVars, runVars
<1>1. SolePeer'
  BY DEF SolePeer
<1>2. MonitorsJoined'
  BY DEF MonitorsJoined, Joining
<1>3. OwnRun'
  BY DEF OwnRun
<1>4. Starters'
  BY DEF Starters, HandlerHolds
<1>5. Delivered'
  BY DEF Delivered
<1> QED BY <1>1, <1>2, <1>3, <1>4, <1>5 DEF Alone

-----------------------------------------------------------------------------
\* Every step keeps the sole client alone, until a termination notice comes.
LEMMA StepAlone ==
  ASSUME OwnerInv, AloneInv, [Next]_vars
  PROVE  AloneInv'
<1> SUFFICES ASSUME terminations' = 0 PROVE Alone'
  BY DEF AloneInv
<1>1. CASE UNCHANGED vars
  BY <1>1 DEF AloneInv, vars, serviceVars, handlerVars, monitorVars, runVars, Alone, SolePeer,
     MonitorsJoined, Joining, OwnRun, Starters, HandlerHolds, Delivered
<1>2. CASE Next
  <2>1. ASSUME NEW c \in Clients, TerminationImminent(c) PROVE FALSE
    BY <2>1 DEF TerminationImminent, OwnerInv, TypeOK
  <2>2. terminations = 0
    BY <1>2, <2>1 DEF Next, ClientEvent, HandlerStep, MonitorStep, handlerVars,
       AcceptPeer, Stop, Disconnect, StartRefused, StartLock, SignalMonitor, JoinMonitor,
       ShutdownEnded, ReplyStop, SendStopped, EndTransaction, ForgetPeer, StartFailed,
       ReplyStartError, StartRun, ReplyStart, EngineFails, MonitorPoll, MonitorLock,
       MonitorError, MonitorShutdown, MonitorStopped, MonitorEnd
  <2>3. Alone
    BY <2>2 DEF AloneInv
  <2>4. ASSUME NEW c \in Clients, ClientEvent(c) PROVE Alone'
    BY <2>1, <2>3, <2>4, AcceptPeerAlone, StopAlone, DisconnectAlone, StartRefusedAlone,
       StartLockAlone DEF ClientEvent
  <2>5. ASSUME NEW c \in Clients, HandlerStep(c) PROVE Alone'
    BY <2>3, <2>5, SignalMonitorAlone, JoinMonitorAlone, ShutdownEndedAlone, ReplyStopAlone,
       SendStoppedAlone, EndTransactionAlone, ForgetPeerAlone, StartFailedAlone,
       ReplyStartErrorAlone, StartRunAlone, ReplyStartAlone DEF HandlerStep
  <2>6. ASSUME NEW m \in Runs, MonitorStep(m) PROVE Alone'
    BY <2>3, <2>6, MonitorPollAlone, MonitorLockAlone, MonitorErrorAlone, MonitorShutdownAlone,
       MonitorStoppedAlone, MonitorEndAlone DEF MonitorStep
  <2> QED BY <1>2, <2>3, <2>4, <2>5, <2>6, EngineFailsAlone DEF Next
<1> QED BY <1>1, <1>2

\* Before any termination notice one client at a time has the engine: the peer,
\* whose handler is the only one under way and joins a run's monitor before the
\* next run can start.
THEOREM SoleClient == Spec => []AloneInv
<1>1. Init => AloneInv
  BY RunFacts, ClientsAssumption DEF Init, AloneInv, Alone, SolePeer, MonitorsJoined, Joining,
     OwnRun, Starters, HandlerHolds, Delivered
<1> QED BY <1>1, OwnerInvariant, StepAlone, PTL DEF Spec

\* A monitor never takes a later run down while one client at a time has the
\* engine.
THEOREM MonitorsTakeOwnRun == Spec => []MonitorTakesOwnRun
<1>1. AloneInv => MonitorTakesOwnRun
  BY DEF AloneInv, Alone, OwnRun, MonitorTakesOwnRun
<1> QED BY <1>1, SoleClient, PTL

\* Under the same condition an event reaches the client whose run it is about,
\* unless that client has closed its connection.
THEOREM EventsDelivered == Spec => []EventsReachStarter
<1>1. AloneInv => EventsReachStarter
  BY DEF AloneInv, Alone, Delivered, EventsReachStarter
<1> QED BY <1>1, SoleClient, PTL
=============================================================================
