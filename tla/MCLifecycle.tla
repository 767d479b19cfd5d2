----------------------------- MODULE MCLifecycle -----------------------------
(***************************************************************************)
(* Instances of Lifecycle.  The command line configures network outputs;   *)
(* the XPC service configures the frame region.                            *)
(***************************************************************************)
EXTENDS Lifecycle

\* Two network outputs, so that the second can fail after the first has
\* started, or the frame region.
SafetyOutputs == {<<"websocket", "osc">>, <<"frames">>}

\* The longest chain of exits: analyser, mapper, OSC sender.
LiveOutputs == {<<"osc">>}
=============================================================================
