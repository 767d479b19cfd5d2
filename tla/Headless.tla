------------------------------- MODULE Headless -------------------------------
(***************************************************************************)
(* A headless run as its supervising host sees it: the process starts the  *)
(* engine, writes ready, installs the signal handlers and the stdin        *)
(* watcher, polls, drains and writes one last event.  Running beside it:   *)
(* the stdin watcher, the hardware stream's error callback, signals, and a *)
(* host that may close stdin or be gone altogether.                        *)
(*                                                                         *)
(* The engine is up or drained; its workers are the business of Lifecycle. *)
(* An event is its kind and its code or reason.  Panics abort the process  *)
(* and are left out.                                                       *)
(***************************************************************************)
EXTENDS Naturals, Sequences

VARIABLES
  pc,             \* where the main thread is
  engine,         \* none, up or drained
  keep_running,
  hardware_stream_error,  \* an error has been recorded
  callback,       \* the error callback: idle, first (one of its two writes
                  \* done) or done
  handlers,       \* the signal handlers are registered
  shutdown_requested,     \* the flag they set
  stdin,          \* the host's end of the pipe: open or eof
  watcher,        \* none, reading or done
  stdin_closed,   \* the flag the watcher sets
  stdout,         \* open, or broken once the host has gone
  seen,           \* the flags this poll has loaded
  result,         \* what run_headless returned
  events,         \* lines the host can read
  exit,           \* none, success, failure or killed
  failedFirst     \* history: the stream had failed before any stop request

mainVars   == <<pc, seen, result, events>>
engineVars == <<engine, keep_running, hardware_stream_error, callback>>
hostVars   == <<handlers, shutdown_requested, stdin, watcher, stdin_closed, stdout>>
vars == <<mainVars, engineVars, hostVars, exit, failedFirst>>

NoFlags == [signal |-> FALSE, eof |-> FALSE]
Nothing == [kind |-> "none", what |-> "none"]
Ready   == [kind |-> "ready", what |-> "none"]
Stopped(reason) == [kind |-> "shutdown", what |-> reason]
Failed(code)    == [kind |-> "error", what |-> code]

Init ==
  /\ pc = "start"
  /\ engine = "none"
  /\ keep_running = TRUE
  /\ hardware_stream_error = FALSE
  /\ callback = "idle"
  /\ handlers = FALSE
  /\ shutdown_requested = FALSE
  /\ stdin = "open"
  /\ watcher = "none"
  /\ stdin_closed = FALSE
  /\ stdout = "open"
  /\ seen = NoFlags
  /\ result = Nothing
  /\ events = << >>
  /\ exit = "none"
  /\ failedFirst = FALSE

Alive == exit = "none"

\* write_event reaches a host that still reads.
Write(event) == events' = IF stdout = "open" THEN Append(events, event) ELSE events
-----------------------------------------------------------------------------
(***************************************************************************)
(* The main thread                                                         *)
(***************************************************************************)
\* The configuration and App::new_headless.
StartEngine ==
  /\ Alive /\ pc = "start"
  /\ \/ pc' = "ready" /\ engine' = "up" /\ UNCHANGED result
     \/ pc' = "report" /\ result' = Failed("Startup") /\ UNCHANGED engine
  /\ UNCHANGED <<seen, events, keep_running, hardware_stream_error, callback,
                 hostVars, exit, failedFirst>>

\* A ready line that cannot be written ends the run; dropping the App drains.
WriteReady ==
  /\ Alive /\ pc = "ready"
  /\ Write(Ready)
  /\ IF stdout = "open"
       THEN pc' = "register" /\ UNCHANGED result
       ELSE pc' = "shutdown" /\ result' = Failed("Unknown")
  /\ UNCHANGED <<seen, engineVars, hostVars, exit, failedFirst>>

RegisterHandlers ==
  /\ Alive /\ pc = "register"
  /\ \/ pc' = "watch" /\ handlers' = TRUE /\ UNCHANGED result
     \/ pc' = "shutdown" /\ result' = Failed("Unknown") /\ UNCHANGED handlers
  /\ UNCHANGED <<seen, events, engineVars, shutdown_requested, stdin, watcher,
                 stdin_closed, stdout, exit, failedFirst>>

WatchStdin ==
  /\ Alive /\ pc = "watch"
  /\ \/ pc' = "signal" /\ watcher' = "reading" /\ UNCHANGED result
     \/ pc' = "shutdown" /\ result' = Failed("Unknown") /\ UNCHANGED watcher
  /\ UNCHANGED <<seen, events, engineVars, handlers, shutdown_requested, stdin,
                 stdin_closed, stdout, exit, failedFirst>>

\* The three loads of a poll, in their order.
LoadRequests ==
  /\ Alive
  /\ \/ /\ pc = "signal"
        /\ seen' = [seen EXCEPT !.signal = shutdown_requested]
        /\ pc' = "eof"
     \/ /\ pc = "eof"
        /\ seen' = [seen EXCEPT !.eof = stdin_closed]
        /\ pc' = "decide"
  /\ UNCHANGED <<result, events, engineVars, hostVars, exit, failedFirst>>

\* Mutant: a closed stdin does not stop the run.
IgnoreStdin(signal, eof) == IF signal THEN "signal" ELSE "none"

\* headless_stop's precedence among the requests.
Requested(signal, eof) ==
  IF signal THEN "signal" ELSE IF eof THEN "stdin_closed" ELSE "none"

\* engine_failure takes the recorded error.
EngineFailure == Failed(IF hardware_stream_error THEN "HardwareStreamError" ELSE "Unknown")

\* Mutant: the loop waits for requests alone.
EngineIgnored == FALSE

\* Nobody requested a stop, and the flag is clear.
EngineStopped == ~keep_running

Decide ==
  /\ Alive /\ pc = "decide"
  /\ LET reason == Requested(seen.signal, seen.eof)
     IN \/ /\ reason # "none"
           /\ keep_running' = FALSE
           /\ result' = Stopped(reason)
           /\ pc' = "shutdown"
           /\ UNCHANGED hardware_stream_error
        \/ /\ reason = "none" /\ EngineStopped
           /\ result' = EngineFailure
           /\ hardware_stream_error' = FALSE
           /\ pc' = "shutdown"
           /\ UNCHANGED keep_running
        \/ /\ reason = "none" /\ ~EngineStopped
           /\ pc' = "signal"
           /\ UNCHANGED <<result, keep_running, hardware_stream_error>>
  /\ seen' = NoFlags
  /\ UNCHANGED <<events, engine, callback, hostVars, exit, failedFirst>>

\* Mutant: run_headless's error is returned without the shutdown.
DrainIfStopped == IF result.kind = "shutdown" THEN "drained" ELSE engine

\* App::shutdown, which run_headless_until_shutdown calls either way and Drop
\* repeats.
Drained == "drained"

Shutdown ==
  /\ Alive /\ pc = "shutdown"
  /\ keep_running' = FALSE
  /\ engine' = Drained
  /\ pc' = "report"
  /\ UNCHANGED <<seen, result, events, hardware_stream_error, callback, hostVars, exit, failedFirst>>

\* The last event and the exit code; a broken pipe is no failure of a stop.
Report ==
  /\ Alive /\ pc = "report"
  /\ Write(result)
  /\ exit' = IF result.kind = "shutdown" THEN "success" ELSE "failure"
  /\ UNCHANGED <<pc, seen, result, engineVars, hostVars, failedFirst>>
-----------------------------------------------------------------------------
(***************************************************************************)
(* Everything else                                                         *)
(***************************************************************************)
\* Mutant: the flag is cleared before the error is recorded.
ClearThenRecord ==
  \/ callback = "idle" /\ keep_running' = FALSE /\ UNCHANGED hardware_stream_error
  \/ callback = "first" /\ hardware_stream_error' = TRUE /\ UNCHANGED keep_running

\* fail_hardware_stream: the error first, then the flag.
RecordThenClear ==
  \/ callback = "idle" /\ hardware_stream_error' = TRUE /\ UNCHANGED keep_running
  \/ callback = "first" /\ keep_running' = FALSE /\ UNCHANGED hardware_stream_error

StreamFails ==
  /\ Alive /\ engine = "up"
  /\ RecordThenClear
  /\ callback' = IF callback = "idle" THEN "first" ELSE "done"
  /\ failedFirst' = (callback' = "done" /\ watcher # "none" /\ stdin = "open"
                     /\ ~shutdown_requested)
  /\ UNCHANGED <<mainVars, engine, hostVars, exit>>

\* SIGINT or SIGTERM: the handler's flag, or the default action.
Signal ==
  /\ Alive
  /\ IF handlers
       THEN ~shutdown_requested /\ shutdown_requested' = TRUE /\ UNCHANGED exit
       ELSE exit' = "killed" /\ UNCHANGED shutdown_requested
  /\ UNCHANGED <<mainVars, engineVars, handlers, stdin, watcher, stdin_closed,
                 stdout, failedFirst>>

HostClosesStdin ==
  /\ Alive /\ stdin = "open"
  /\ stdin' = "eof"
  /\ UNCHANGED <<mainVars, engineVars, handlers, shutdown_requested, watcher,
                 stdin_closed, stdout, exit, failedFirst>>

\* The host exits, a crash included: the system closes its ends of the pipes.
HostExits ==
  /\ Alive /\ stdout = "open"
  /\ stdin' = "eof"
  /\ stdout' = "broken"
  /\ UNCHANGED <<mainVars, engineVars, handlers, shutdown_requested, watcher,
                 stdin_closed, exit, failedFirst>>

\* End of file, or a read error that is not an interruption.
WatcherCloses ==
  /\ Alive /\ watcher = "reading" /\ stdin = "eof"
  /\ watcher' = "done"
  /\ stdin_closed' = TRUE
  /\ UNCHANGED <<mainVars, engineVars, handlers, shutdown_requested, stdin, stdout, exit, failedFirst>>
-----------------------------------------------------------------------------
Main ==
  \/ StartEngine \/ WriteReady \/ RegisterHandlers \/ WatchStdin
  \/ LoadRequests \/ Decide \/ Shutdown \/ Report

Next ==
  \/ Main \/ StreamFails \/ WatcherCloses
  \/ Signal \/ HostClosesStdin \/ HostExits

\* The process's threads run; a callback that has begun ends.  Nobody has to
\* signal, close stdin or fail.
Spec ==
  /\ Init /\ [][Next]_vars
  /\ WF_vars(Main) /\ WF_vars(WatcherCloses)
  /\ WF_vars(callback = "first" /\ StreamFails)
-----------------------------------------------------------------------------
(***************************************************************************)
(* Properties                                                              *)
(***************************************************************************)
\* The state has its types, and the host reads at most ready and a last line.
TypeOK ==
  /\ pc \in {"start", "ready", "register", "watch", "signal", "eof", "decide",
             "shutdown", "report"}
  /\ engine \in {"none", "up", "drained"}
  /\ callback \in {"idle", "first", "done"}
  /\ stdin \in {"open", "eof"} /\ stdout \in {"open", "broken"}
  /\ watcher \in {"none", "reading", "done"}
  /\ exit \in {"none", "success", "failure", "killed"}
  /\ {keep_running, hardware_stream_error, handlers, shutdown_requested,
      stdin_closed} \subseteq BOOLEAN
  /\ seen \in [signal : BOOLEAN, eof : BOOLEAN]
  /\ Len(events) <= 2

\* The process never reports and never exits by itself with the engine still
\* up: whichever step failed, the workers have drained first.
DrainedBeforeReport ==
  (exit \in {"success", "failure"} \/ (events # << >> /\ events[Len(events)] # Ready))
    => engine # "up"

\* A run that the engine ended is reported with the stream's error and not as
\* an unexplained stop, whenever the callback and the poll overlap.
FailureHasItsCause == watcher # "none" => result # Failed("Unknown")

\* The engine does not outlive its host: once stdin has reached its end, at
\* whatever stage of the start, the process exits.
HostGoneStops == stdin = "eof" ~> exit # "none"

\* A stream failure ends the run, whatever else happens.
StreamFailureStops == (callback = "done") ~> exit # "none"

\* docs/headless.md: "a hardware stream error during the run, writes an
\* `error` event and exits non-zero".  A request that arrives before the next
\* poll takes precedence over a failure that has already stopped the engine.
StreamErrorExitsNonZero == failedFirst => exit # "success"
===============================================================================
