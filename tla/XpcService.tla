----------------------------- MODULE XpcService -----------------------------
(***************************************************************************)
(* The XPC service: one peer at a time, one engine run at a time, and a    *)
(* monitor thread per run.  libxpc calls a connection's handler for one    *)
(* event at a time, so every connection is a thread of its own here; each  *)
(* monitor is another.  They meet at two mutexes (peer, run) and at the    *)
(* monitor_stop flag.  The run mutex is held across the whole of start; its *)
(* other critical sections are single steps.  The engine behind a run is   *)
(* only live, failed (keep_running cleared by a hardware error) or drained *)
(* (App::shutdown returned); requests that only query are left out.        *)
(***************************************************************************)
EXTENDS Integers, Sequences, FiniteSets

CONSTANTS
  Clients,          \* connections clients may open
  NoClient,         \* no connection
  MaxRuns,          \* bound: runs started
  MaxTerminations   \* bound: termination-imminent events delivered

ASSUME ClientsAssumption == NoClient \notin Clients
ASSUME BoundsAssumption == MaxRuns \in Nat /\ MaxTerminations \in Nat

Runs  == 1..MaxRuns
NoRun == 0

VARIABLES
  peer,          \* Service.peer
  run,           \* Service.run: the active run, or NoRun
  runLock,       \* the connection whose start holds the run mutex
  conn,          \* state of each connection: new, open, refused, closed
  hpc,           \* where each connection's handler is
  cause,         \* why it is ending a run: stop, or the client has gone
  ending,        \* the run it has taken out of the mutex
  mpc,           \* where each run's monitor is
  taken,         \* the run a monitor has taken out of the mutex
  monitor_stop,  \* Running.monitor_stop
  engine,        \* state of each run's engine
  transactions,  \* XPC transactions begun and not ended
  startedBy,     \* the connection that started each run
  shutdowns,     \* history: calls of shutdown on each run's App
  sent,          \* history: the events sent about each run, in order
  terminations   \* termination-imminent events so far

serviceVars == <<peer, run, runLock, transactions>>
handlerVars == <<conn, hpc, cause, ending, terminations>>
monitorVars == <<mpc, taken>>
runVars     == <<monitor_stop, engine, startedBy, shutdowns>>
vars == <<serviceVars, handlerVars, monitorVars, runVars, sent>>

Init ==
  /\ peer = NoClient
  /\ run = NoRun
  /\ runLock = NoClient
  /\ conn = [c \in Clients |-> "new"]
  /\ hpc = [c \in Clients |-> "idle"]
  /\ cause = [c \in Clients |-> "stop"]
  /\ ending = [c \in Clients |-> NoRun]
  /\ mpc = [m \in Runs |-> "none"]
  /\ taken = [m \in Runs |-> NoRun]
  /\ monitor_stop = [m \in Runs |-> FALSE]
  /\ engine = [m \in Runs |-> "none"]
  /\ transactions = 0
  /\ startedBy = [m \in Runs |-> NoClient]
  /\ shutdowns = [m \in Runs |-> 0]
  /\ sent = [m \in Runs |-> << >>]
  /\ terminations = 0

\* send_to_peer: an event goes to whichever connection is the peer now, or to
\* nobody.  The history keeps the events; a reply only moves its handler on.
Send(what, m) ==
  IF peer = NoClient
    THEN UNCHANGED sent
    ELSE sent' = [sent EXCEPT ![m] = Append(@, [what |-> what, to |-> peer])]

\* The handler of c goes on.
Goto(c, pc) == hpc' = [hpc EXCEPT ![c] = pc]

Begun == {m \in Runs : engine[m] # "none"}
-----------------------------------------------------------------------------
(***************************************************************************)
(* Connections                                                             *)
(***************************************************************************)
\* Mutant: the second connection displaces the first.
LastComes == TRUE

\* One client at a time.
PeerFree == peer = NoClient

AcceptPeer(c) ==
  /\ conn[c] = "new"
  /\ IF PeerFree
       THEN peer' = c /\ conn' = [conn EXCEPT ![c] = "open"]
       ELSE peer' = peer /\ conn' = [conn EXCEPT ![c] = "refused"]
  /\ UNCHANGED <<run, runLock, transactions, hpc, cause, ending, terminations,
                 monitorVars, runVars, sent>>

\* An open connection whose handler is free to be called.
Ready(c) == conn[c] = "open" /\ hpc[c] = "idle"

\* Mutant: the run is cloned out of the mutex instead of taken.
LeaveRun == run

\* What is left in the mutex once a run has been taken from it.
TakeRun == NoRun

\* Mutant: the guard lives on, so the mutex is held until the run has ended.
KeepGuard(c) == runLock' = c

\* end_run's guard is a temporary: the mutex is free after the take.
DropGuard(c) == UNCHANGED runLock

\* lock(&self.run).take() at the top of end_run, for either cause.
TakeToEnd(c, why, whenIdle) ==
  /\ runLock = NoClient
  /\ cause' = [cause EXCEPT ![c] = why]
  /\ ending' = [ending EXCEPT ![c] = run]
  /\ IF run = NoRun
       THEN Goto(c, whenIdle) /\ UNCHANGED <<run, runLock>>
       ELSE Goto(c, "signal") /\ run' = TakeRun /\ DropGuard(c)

\* Stop while idle goes straight to its reply.
Stop(c) ==
  /\ Ready(c)
  /\ TakeToEnd(c, "stop", "reply")
  /\ UNCHANGED <<peer, transactions, conn, terminations, monitorVars, runVars, sent>>

\* The connection becomes invalid.
Disconnect(c) ==
  /\ Ready(c)
  /\ conn' = [conn EXCEPT ![c] = "closed"]
  /\ TakeToEnd(c, "gone", "forget")
  /\ UNCHANGED <<peer, transactions, terminations, monitorVars, runVars, sent>>

\* The runtime says termination is imminent; the connection stays open.
TerminationImminent(c) ==
  /\ Ready(c)
  /\ terminations < MaxTerminations
  /\ terminations' = terminations + 1
  /\ TakeToEnd(c, "gone", "forget")
  /\ UNCHANGED <<peer, transactions, conn, monitorVars, runVars, sent>>

SignalMonitor(c) ==
  /\ hpc[c] = "signal"
  /\ monitor_stop' = [monitor_stop EXCEPT ![ending[c]] = TRUE]
  /\ Goto(c, "join")
  /\ UNCHANGED <<serviceVars, conn, cause, ending, terminations, monitorVars,
                 engine, startedBy, shutdowns, sent>>

\* Mutant: the monitor's handle is dropped, not joined.
DetachMonitor(m) == m \in Runs

\* monitor.join() returns when the monitor thread has.
MonitorJoined(m) == mpc[m] = "done"

JoinMonitor(c) ==
  /\ hpc[c] = "join"
  /\ MonitorJoined(ending[c])
  /\ Goto(c, "shutdown")
  /\ UNCHANGED <<serviceVars, conn, cause, ending, terminations, monitorVars,
                 runVars, sent>>

\* app.shutdown() of run m returns: its workers are joined.
Drain(m) ==
  /\ engine' = [engine EXCEPT ![m] = "drained"]
  /\ shutdowns' = [shutdowns EXCEPT ![m] = @ + 1]
  /\ UNCHANGED <<monitor_stop, startedBy>>

ShutdownEnded(c) ==
  /\ hpc[c] = "shutdown"
  /\ Drain(ending[c])
  /\ Goto(c, IF cause[c] = "stop" THEN "reply" ELSE "end")
  /\ UNCHANGED <<serviceVars, conn, cause, ending, terminations, monitorVars, sent>>

ReplyStop(c) ==
  /\ hpc[c] = "reply"
  /\ Goto(c, IF ending[c] = NoRun THEN "idle" ELSE "stopped")
  /\ UNCHANGED <<serviceVars, conn, cause, ending, terminations, monitorVars, runVars, sent>>

SendStopped(c) ==
  /\ hpc[c] = "stopped"
  /\ Send("stopped_requested", ending[c])
  /\ Goto(c, "end")
  /\ UNCHANGED <<serviceVars, conn, cause, ending, terminations, monitorVars, runVars>>

\* Mutant: a client that has gone does not end its run's transaction.
EndOnlyIfStopped(c) == IF cause[c] = "stop" THEN transactions - 1 ELSE transactions

TransactionEnd(c) == transactions - 1

EndTransaction(c) ==
  /\ hpc[c] = "end"
  /\ transactions' = TransactionEnd(c)
  /\ ending' = [ending EXCEPT ![c] = NoRun]
  /\ Goto(c, IF cause[c] = "stop" THEN "idle" ELSE "forget")
  /\ UNCHANGED <<peer, run, runLock, conn, cause, terminations, monitorVars,
                 runVars, sent>>

\* *lock(&self.peer) = None, whoever the peer is.
ForgetPeer(c) ==
  /\ hpc[c] = "forget"
  /\ peer' = NoClient
  /\ cause' = [cause EXCEPT ![c] = "stop"]
  /\ Goto(c, "idle")
  /\ UNCHANGED <<run, runLock, transactions, conn, ending, terminations,
                 monitorVars, runVars, sent>>
-----------------------------------------------------------------------------
(***************************************************************************)
(* start holds the run mutex from its first check to the run it installs.  *)
(***************************************************************************)
StartRefused(c) ==
  /\ Ready(c)
  /\ runLock = NoClient /\ run # NoRun
  /\ Goto(c, "failed")
  /\ UNCHANGED <<serviceVars, conn, cause, ending, terminations, monitorVars, runVars, sent>>

StartLock(c) ==
  /\ Ready(c)
  /\ runLock = NoClient /\ run = NoRun
  /\ runLock' = c
  /\ Goto(c, "starting")
  /\ UNCHANGED <<peer, run, transactions, conn, cause, ending, terminations, monitorVars,
                 runVars, sent>>

\* The config, the engine or the region failed; what was built is shut down.
StartFailed(c) ==
  /\ hpc[c] = "starting"
  /\ runLock' = NoClient
  /\ Goto(c, "failed")
  /\ UNCHANGED <<peer, run, transactions, conn, cause, ending, terminations, monitorVars,
                 runVars, sent>>

ReplyStartError(c) ==
  /\ hpc[c] = "failed"
  /\ Goto(c, "idle")
  /\ UNCHANGED <<serviceVars, conn, cause, ending, terminations, monitorVars, runVars, sent>>

\* The transaction begins, the monitor is spawned, the run is installed.
StartRun(c) ==
  /\ hpc[c] = "starting"
  /\ \E m \in Runs \ Begun :
       /\ \A k \in Runs : k < m => k \in Begun
       /\ transactions' = transactions + 1
       /\ mpc' = [mpc EXCEPT ![m] = "poll"]
       /\ engine' = [engine EXCEPT ![m] = "live"]
       /\ startedBy' = [startedBy EXCEPT ![m] = c]
       /\ run' = m
  /\ runLock' = NoClient
  /\ Goto(c, "started")
  /\ UNCHANGED <<peer, conn, cause, ending, terminations, taken, monitor_stop,
                 shutdowns, sent>>

ReplyStart(c) ==
  /\ hpc[c] = "started"
  /\ Goto(c, "idle")
  /\ UNCHANGED <<serviceVars, conn, cause, ending, terminations, monitorVars, runVars, sent>>

\* A hardware stream error clears keep_running behind the service's back.
EngineFails(m) ==
  /\ engine[m] = "live"
  /\ engine' = [engine EXCEPT ![m] = "failed"]
  /\ UNCHANGED <<serviceVars, handlerVars, monitorVars, monitor_stop, startedBy, shutdowns, sent>>
-----------------------------------------------------------------------------
(***************************************************************************)
(* The monitor of run m.  Its two looks at monitor_stop around the sleep   *)
(* are one: the flag is never cleared, so the second look decides.         *)
(***************************************************************************)
MonitorGoto(m, pc) == mpc' = [mpc EXCEPT ![m] = pc]

MonitorPoll(m) ==
  /\ mpc[m] = "poll"
  /\ MonitorGoto(m, IF monitor_stop[m] THEN "done" ELSE "armed")
  /\ UNCHANGED <<serviceVars, handlerVars, taken, runVars, sent>>

\* Under the run mutex: no run, a healthy one, or a failed one to take.
MonitorLock(m) ==
  /\ mpc[m] = "armed"
  /\ runLock = NoClient
  /\ \/ /\ run = NoRun
        /\ MonitorGoto(m, "done")
        /\ UNCHANGED <<run, taken>>
     \/ /\ run # NoRun /\ engine[run] # "failed"
        /\ MonitorGoto(m, "poll")
        /\ UNCHANGED <<run, taken>>
     \/ /\ run # NoRun /\ engine[run] = "failed"
        /\ taken' = [taken EXCEPT ![m] = run]
        /\ run' = TakeRun
        /\ MonitorGoto(m, "error")
  /\ UNCHANGED <<peer, runLock, transactions, handlerVars, runVars, sent>>

MonitorError(m) ==
  /\ mpc[m] = "error"
  /\ Send("error", taken[m])
  /\ MonitorGoto(m, "shutdown")
  /\ UNCHANGED <<serviceVars, handlerVars, taken, runVars>>

MonitorShutdown(m) ==
  /\ mpc[m] = "shutdown"
  /\ Drain(taken[m])
  /\ MonitorGoto(m, "stopped")
  /\ UNCHANGED <<serviceVars, handlerVars, taken, sent>>

MonitorStopped(m) ==
  /\ mpc[m] = "stopped"
  /\ Send("stopped_failed", taken[m])
  /\ MonitorGoto(m, "end")
  /\ UNCHANGED <<serviceVars, handlerVars, taken, runVars>>

MonitorEnd(m) ==
  /\ mpc[m] = "end"
  /\ transactions' = transactions - 1
  /\ MonitorGoto(m, "done")
  /\ UNCHANGED <<peer, run, runLock, handlerVars, taken, runVars, sent>>
-----------------------------------------------------------------------------
\* Steps of a handler that has begun; new events are the clients' choice.
HandlerStep(c) ==
  \/ SignalMonitor(c) \/ JoinMonitor(c) \/ ShutdownEnded(c) \/ ReplyStop(c) \/ SendStopped(c)
  \/ EndTransaction(c) \/ ForgetPeer(c) \/ StartFailed(c) \/ ReplyStartError(c)
  \/ StartRun(c) \/ ReplyStart(c)

ClientEvent(c) ==
  \/ AcceptPeer(c) \/ Stop(c) \/ Disconnect(c) \/ TerminationImminent(c)
  \/ StartRefused(c) \/ StartLock(c)

MonitorStep(m) ==
  \/ MonitorPoll(m) \/ MonitorLock(m) \/ MonitorError(m) \/ MonitorShutdown(m)
  \/ MonitorStopped(m) \/ MonitorEnd(m)

Next ==
  \/ \E c \in Clients : ClientEvent(c) \/ HandlerStep(c)
  \/ \E m \in Runs : EngineFails(m) \/ MonitorStep(m)

\* Handlers and monitors are threads the scheduler runs; clients and hardware
\* owe nothing.
Fairness ==
  /\ \A c \in Clients : WF_vars(HandlerStep(c))
  /\ \A m \in Runs : WF_vars(MonitorStep(m))

Spec == Init /\ [][Next]_vars /\ Fairness
-----------------------------------------------------------------------------
HandlerStates == {"idle", "signal", "join", "shutdown", "reply", "stopped", "end", "forget",
                  "starting", "started", "failed"}
MonitorStates == {"none", "poll", "armed", "error", "shutdown", "stopped", "end", "done"}
Notices == [what : {"error", "stopped_requested", "stopped_failed"}, to : Clients]

\* The variables hold values of their kind; transactions never go negative.
TypeOK ==
  /\ peer \in Clients \cup {NoClient}
  /\ run \in Runs \cup {NoRun}
  /\ runLock \in Clients \cup {NoClient}
  /\ conn \in [Clients -> {"new", "open", "refused", "closed"}]
  /\ hpc \in [Clients -> HandlerStates]
  /\ cause \in [Clients -> {"stop", "gone"}]
  /\ ending \in [Clients -> Runs \cup {NoRun}]
  /\ mpc \in [Runs -> MonitorStates]
  /\ taken \in [Runs -> Runs \cup {NoRun}]
  /\ monitor_stop \in [Runs -> BOOLEAN]
  /\ engine \in [Runs -> {"none", "live", "failed", "drained"}]
  /\ transactions \in Nat
  /\ startedBy \in [Runs -> Clients \cup {NoClient}]
  /\ shutdowns \in [Runs -> Nat]
  /\ sent \in [Runs -> Seq(Notices)]
  /\ terminations \in 0..MaxTerminations

\* A handler or a monitor that has taken a run and not yet ended its
\* transaction.
HandlerHolds(c, m) ==
  ending[c] = m /\ hpc[c] \in {"signal", "join", "shutdown", "reply", "stopped", "end"}
MonitorHolds(k, m) ==
  taken[k] = m /\ mpc[k] \in {"error", "shutdown", "stopped", "end"}
Held(m) == (\E c \in Clients : HandlerHolds(c, m)) \/ (\E k \in Runs : MonitorHolds(k, m))

\* The abstract phase of run m.  A run that is neither in the mutex nor drained
\* nor held by anyone is lost, which is no phase of EngineOwner.
Phase(m) ==
  CASE engine[m] = "none" -> "none"
    [] engine[m] # "none" /\ run = m -> "installed"
    [] engine[m] # "none" /\ run # m /\ Held(m) ->
         IF engine[m] = "drained" THEN "drained" ELSE "taken"
    [] OTHER -> IF engine[m] = "drained" THEN "over" ELSE "lost"

\* However stop, a disconnect and the monitor race for a run, it is in the
\* mutex or with exactly one of them, is shut down once, and its transaction
\* ends once and after that: the service implements EngineOwner.
Owner == INSTANCE EngineOwner WITH
  phase <- [m \in Runs |-> Phase(m)], shutdowns <- shutdowns, transactions <- transactions
ImplementsOwner == Owner!Spec

\* The service holds an XPC transaction for every engine that is not drained,
\* so the system never ends it mid-run, and holds none when everyone is idle.
TransactionCoversRun ==
  /\ transactions >= Cardinality({m \in Begun : engine[m] # "drained"})
  /\ (\A c \in Clients : hpc[c] = "idle") /\ (\A m \in Runs : mpc[m] \in {"none", "done"})
       => transactions = 0

\* A monitor outlives its run only to find the mutex empty: while one client
\* at a time has the engine, it never takes a later run down.  (After a
\* termination notice the old client's connection is still open beside the
\* next one's, and a monitor may then drain a run that is not its own.)
MonitorTakesOwnRun ==
  terminations = 0 => \A m \in Runs : taken[m] \in {m, NoRun}

\* No event goes astray while its client is there: one that another client is
\* sent belongs to a run whose client has closed its connection.  (That other
\* client, which connected while the monitor drained, is sent it all the
\* same: the peer is looked up when the event is sent.)
EventsReachStarter ==
  terminations = 0 =>
    \A m \in Runs : \A i \in 1..Len(sent[m]) :
      sent[m][i].to # startedBy[m] => conn[startedBy[m]] = "closed"

\* Joining the monitor, waiting for the mutex and draining never wait on each
\* other: a handler that has begun always finishes.  (After a termination
\* notice two connections can compete for the mutex, which promises nobody a
\* turn.)
HandlerFinishes ==
  \A c \in Clients : hpc[c] # "idle" ~> hpc[c] = "idle" \/ terminations > 0

\* An engine that stopped itself is always drained, under the same condition.
FailedEngineDrains ==
  \A m \in Runs : engine[m] = "failed" ~> engine[m] = "drained" \/ terminations > 0
-----------------------------------------------------------------------------
(***************************************************************************)
(* What docs/xpc.md promises and the code does not keep.                   *)
(***************************************************************************)

\* start "is valid only while the engine is idle": it never starts a second
\* engine beside one that has not drained.
StartOnlyWhenIdle == Cardinality({m \in Begun : engine[m] # "drained"}) <= 1
=============================================================================
