------------------------------- MODULE WsServer -------------------------------
(***************************************************************************)
(* The WebSocket server: an accept loop, one serialiser task and a task    *)
(* per client on a single-threaded runtime, fed by the mapper's display    *)
(* channel from another thread.  A task runs undisturbed from one await to *)
(* the next, and those stretches are the actions; only the mapper and the  *)
(* keep_running flag change under a running task.                          *)
(*                                                                         *)
(* A display payload is its number.  A watch channel is its latest value,  *)
(* its version and what each receiver has seen of it.  Timeouts are        *)
(* alternatives: a write or a handshake ends well, or the client is gone.  *)
(***************************************************************************)
EXTENDS Naturals, FiniteSets

CONSTANTS
  Clients,      \* TCP connections that may be made
  NoClient,
  max_clients,
  Rejected,     \* payloads the serialiser refuses (a non-finite value)
  MaxFrames     \* bound: payloads the mapper publishes

ASSUME ClientsAssumption == NoClient \notin Clients /\ IsFiniteSet(Clients)
ASSUME ServerAssumption == max_clients \in Nat \ {0} /\ MaxFrames \in Nat \ {0}

VARIABLES
  keep_running,
  display, displayClosed,      \* the mapper's channel: latest payload, dropped
  consumed,                    \* the payload display_rx has seen
  serialised, version,         \* the serialised channel: payload and version
  serialiser,                  \* alive, or done: serialised_tx dropped
  refresh,                     \* the snapshot refresh request: none, queued, done
  server,                      \* where the accept loop is
  admitting,                   \* the client it is admitting
  slots,                       \* free permits of client_slots
  client,                      \* where each client's task is
  seen,                        \* the version each client's receiver has seen
  payload,                     \* what each client's task is writing
  sent,                        \* the last payload each client was sent, or 0
  notified                     \* clients that notify_waiters has woken

displayVars == <<keep_running, display, displayClosed>>
serialiserVars == <<consumed, serialised, version, serialiser>>
acceptVars == <<server, admitting>>
clientVars == <<client, seen, payload, sent>>
vars == <<displayVars, serialiserVars, refresh, acceptVars, slots, clientVars, notified>>

\* Payload 1 is the zeroed one both channels begin with.
Init ==
  /\ keep_running = TRUE
  /\ display = 1 /\ displayClosed = FALSE
  /\ consumed = 1
  /\ serialised = 1 /\ version = 0
  /\ serialiser = "alive"
  /\ refresh = "none"
  /\ server = "check"
  /\ admitting = NoClient
  /\ slots = max_clients
  /\ client = [c \in Clients |-> "new"]
  /\ seen = [c \in Clients |-> 0]
  /\ payload = [c \in Clients |-> 0]
  /\ sent = [c \in Clients |-> 0]
  /\ notified = {}

\* The client's task exists, and so its receiver and its slot.
Tasks == {c \in Clients : client[c] \notin {"new", "refused", "gone"}}
-----------------------------------------------------------------------------
(***************************************************************************)
(* The rest of the engine                                                  *)
(***************************************************************************)
Publish ==
  /\ ~displayClosed
  /\ display < MaxFrames
  /\ display' = display + 1
  /\ UNCHANGED <<keep_running, displayClosed, serialiserVars, refresh, acceptVars,
                 slots, clientVars, notified>>

ClearFlag ==
  /\ keep_running
  /\ keep_running' = FALSE
  /\ UNCHANGED <<display, displayClosed, serialiserVars, refresh, acceptVars,
                 slots, clientVars, notified>>

\* The mapper exits, which needs the flag clear.
MapperExits ==
  /\ ~keep_running /\ ~displayClosed
  /\ displayClosed' = TRUE
  /\ UNCHANGED <<keep_running, display, serialiserVars, refresh, acceptVars,
                 slots, clientVars, notified>>
-----------------------------------------------------------------------------
(***************************************************************************)
(* The serialiser                                                          *)
(***************************************************************************)
\* Mutant: every refresh replaces the snapshot.
AlwaysReplace(byRefresh) == TRUE

\* A refresh that finds the snapshot current leaves it alone.
SnapshotChanged(byRefresh) == ~byRefresh \/ serialised # display

\* serialise_display_payload returns a text, not None.
Encodable(p) == p \notin Rejected

\* Encode the latest payload and publish it to the clients.
Serialise(byRefresh) ==
  /\ consumed' = display
  /\ IF Encodable(display) /\ SnapshotChanged(byRefresh)
       THEN serialised' = display /\ version' = version + 1
       ELSE UNCHANGED <<serialised, version>>
  /\ UNCHANGED serialiser

\* Nobody is listening: the payload is marked seen and not encoded.
Skip ==
  /\ consumed' = display
  /\ UNCHANGED <<serialised, version, serialiser>>

\* Mutant: one receiver too many is taken for the server's own.
MoreThanOneClient == Cardinality(Tasks) > 1

\* Receivers beyond the one the accept loop keeps.
has_connected_clients == Tasks # {}

DisplayChanged ==
  /\ serialiser = "alive"
  /\ consumed # display
  /\ IF has_connected_clients THEN Serialise(FALSE) ELSE Skip
  /\ UNCHANGED <<displayVars, refresh, acceptVars, slots, clientVars, notified>>

RefreshRequested ==
  /\ serialiser = "alive"
  /\ refresh = "queued"
  /\ Serialise(TRUE)
  /\ refresh' = "done"
  /\ UNCHANGED <<displayVars, acceptVars, slots, clientVars, notified>>

\* Mutant: the accept loop is left waiting for the acknowledgement.
LeaveQueued == UNCHANGED refresh

\* The queue and the request in it are dropped with the serialiser.
DropRequest == refresh' = IF refresh = "queued" THEN "done" ELSE refresh

SerialiserExits ==
  /\ serialiser = "alive"
  /\ displayClosed /\ consumed = display
  /\ serialiser' = "done"
  /\ DropRequest
  /\ UNCHANGED <<displayVars, consumed, serialised, version, acceptVars,
                 slots, clientVars, notified>>
-----------------------------------------------------------------------------
(***************************************************************************)
(* The accept loop                                                         *)
(***************************************************************************)
\* The flag is read before each wait for a connection, and a wait without one
\* ends; a connection may still arrive after the flag has been cleared.
AwaitConnection ==
  /\ \/ server = "check" /\ keep_running /\ server' = "accept"
     \/ server = "accept" /\ server' = "check"
  /\ UNCHANGED <<displayVars, serialiserVars, refresh, admitting, slots,
                 clientVars, notified>>

\* try_acquire_owned fails.
AtCapacity == slots = 0

\* A connection is refused at capacity; otherwise it holds a slot from here on
\* and the loop asks for a current snapshot.
Accept(c) ==
  /\ server = "accept"
  /\ client[c] = "new"
  /\ IF AtCapacity
       THEN /\ client' = [client EXCEPT ![c] = "refused"]
            /\ server' = "check"
            /\ UNCHANGED <<slots, refresh, admitting>>
       ELSE /\ slots' = slots - 1
            /\ admitting' = c
            /\ refresh' = IF serialiser = "alive" THEN "queued" ELSE "done"
            /\ server' = "refresh"
            /\ UNCHANGED client
  /\ UNCHANGED <<displayVars, serialiserVars, seen, payload, sent, notified>>

\* The request has been answered or dropped: the client's task starts.
SpawnClient ==
  /\ server = "refresh"
  /\ refresh = "done"
  /\ client' = [client EXCEPT ![admitting] = "handshake"]
  /\ refresh' = "none"
  /\ admitting' = NoClient
  /\ server' = "check"
  /\ UNCHANGED <<displayVars, serialiserVars, slots, seen, payload, sent, notified>>

\* notify_waiters reaches the tasks that wait in their loop, and no others.
BeginShutdown ==
  /\ server = "check" /\ ~keep_running
  /\ notified' = {c \in Clients : client[c] = "loop"}
  /\ server' = "closing"
  /\ UNCHANGED <<displayVars, serialiserVars, refresh, admitting, slots, clientVars>>

\* Mutant: the join has no deadline.
EveryoneLeft == Tasks = {} /\ serialiser = "done"

\* All tasks have been joined, or the deadline passes.
JoinEnds == TRUE

\* Returning drops the join set: what is left of it is aborted.
ServerExits ==
  /\ server = "closing"
  /\ JoinEnds
  /\ server' = "done"
  /\ client' = [c \in Clients |-> IF c \in Tasks THEN "gone" ELSE client[c]]
  /\ slots' = max_clients
  /\ serialiser' = "done"
  /\ UNCHANGED <<displayVars, consumed, serialised, version, refresh,
                 admitting, seen, payload, sent, notified>>
-----------------------------------------------------------------------------
(***************************************************************************)
(* A client's task                                                         *)
(***************************************************************************)
\* Mutant: an exit path that forgets the slot.
KeepSlot == UNCHANGED slots

\* The task's permit goes with the task, whichever way it returns.
ReleaseSlot == slots' = slots + 1

Leave(c) ==
  /\ client' = [client EXCEPT ![c] = "gone"]
  /\ ReleaseSlot
  /\ UNCHANGED <<displayVars, serialiserVars, refresh, acceptVars, seen, payload,
                 sent, notified>>

\* borrow_and_update, then a write of what was borrowed.
BeginWrite(c) ==
  /\ client' = [client EXCEPT ![c] = "writing"]
  /\ seen' = [seen EXCEPT ![c] = version]
  /\ payload' = [payload EXCEPT ![c] = serialised]
  /\ UNCHANGED <<displayVars, serialiserVars, refresh, acceptVars, slots, sent, notified>>

\* Accepted: the current snapshot follows.  Or refused, failed or timed out.
HandshakeEnds(c) ==
  /\ client[c] = "handshake"
  /\ BeginWrite(c) \/ Leave(c)

\* Written in time; or failed or timed out, and the client is dropped.
WriteEnds(c) ==
  \/ /\ client[c] = "writing"
     /\ client' = [client EXCEPT ![c] = "loop"]
     /\ sent' = [sent EXCEPT ![c] = payload[c]]
     /\ UNCHANGED <<displayVars, serialiserVars, refresh, acceptVars, slots, seen,
                    payload, notified>>
  \/ client[c] = "writing" /\ Leave(c)

\* The biased select: shutdown before everything else.
Notified(c) ==
  /\ client[c] = "loop" /\ c \in notified
  /\ client' = [client EXCEPT ![c] = "close"]
  /\ UNCHANGED <<displayVars, serialiserVars, refresh, acceptVars, slots, seen,
                 payload, sent, notified>>

\* A Ping is answered by a flush that must complete like any write.
PingFlush(c) ==
  /\ client[c] = "loop" /\ c \notin notified
  /\ client' = [client EXCEPT ![c] = "flush"]
  /\ UNCHANGED <<displayVars, serialiserVars, refresh, acceptVars, slots, seen,
                 payload, sent, notified>>

FlushEnds(c) ==
  \/ /\ client[c] = "flush"
     /\ client' = [client EXCEPT ![c] = "loop"]
     /\ UNCHANGED <<displayVars, serialiserVars, refresh, acceptVars, slots, seen,
                    payload, sent, notified>>
  \/ client[c] = "flush" /\ Leave(c)

\* Close, an application message, an error or the end of the stream.
IncomingEnds(c) ==
  /\ client[c] = "loop" /\ c \notin notified
  /\ Leave(c)

SnapshotChangedFor(c) ==
  /\ client[c] = "loop" /\ c \notin notified
  /\ \/ seen[c] # version /\ BeginWrite(c)
     \/ /\ seen[c] = version /\ serialiser = "done"
        /\ client' = [client EXCEPT ![c] = "close"]
        /\ UNCHANGED <<displayVars, serialiserVars, refresh, acceptVars, slots,
                       seen, payload, sent, notified>>

\* The close frame is written, or fails; the task returns either way.
CloseEnds(c) == client[c] = "close" /\ Leave(c)
-----------------------------------------------------------------------------
Serialiser == DisplayChanged \/ RefreshRequested \/ SerialiserExits
Server == AwaitConnection \/ SpawnClient \/ BeginShutdown \/ ServerExits
Client(c) ==
  HandshakeEnds(c) \/ WriteEnds(c) \/ Notified(c) \/ FlushEnds(c)
  \/ SnapshotChangedFor(c) \/ CloseEnds(c)

Next ==
  \/ Publish \/ ClearFlag \/ MapperExits
  \/ Serialiser \/ Server
  \/ \E c \in Clients : Accept(c) \/ Client(c) \/ PingFlush(c) \/ IncomingEnds(c)

\* The runtime polls every task that is ready, the serialiser's select takes
\* each ready branch in the end, and timeouts expire.  A client's select is
\* biased towards what comes in, so its updates need a client that does not
\* have a Ping waiting for ever.  Nobody has to connect, ping, publish or stop
\* the engine.
Fairness ==
  /\ WF_vars(DisplayChanged) /\ WF_vars(RefreshRequested) /\ WF_vars(SerialiserExits)
  /\ WF_vars(Server)
  /\ \A c \in Clients : WF_vars(Client(c)) /\ SF_vars(SnapshotChangedFor(c))

Spec == Init /\ [][Next]_vars /\ Fairness
-----------------------------------------------------------------------------
(***************************************************************************)
(* Properties                                                              *)
(***************************************************************************)
\* The state has its types.
TypeOK ==
  /\ {keep_running, displayClosed} \subseteq BOOLEAN
  /\ {display, serialised, consumed} \subseteq 1..MaxFrames
  /\ version \in Nat
  /\ serialiser \in {"alive", "done"} /\ refresh \in {"none", "queued", "done"}
  /\ server \in {"check", "accept", "refresh", "closing", "done"}
  /\ admitting \in Clients \cup {NoClient}
  /\ slots \in 0..max_clients
  /\ client \in [Clients -> {"new", "refused", "handshake", "writing", "loop",
                             "flush", "close", "gone"}]
  /\ \A c \in Clients : {seen[c], payload[c], sent[c]} \subseteq Nat
  /\ notified \subseteq Clients

\* Every slot is free or held by one client: by the one being admitted or by
\* a client whose task exists.  No way out of a task leaks one.
SlotsConserved ==
  slots + Cardinality(Tasks) + (IF admitting = NoClient THEN 0 ELSE 1) = max_clients

\* The snapshot of payload 1 is seeded, with an empty payload if need be; any
\* other payload that is sent was encoded.
Sendable(p) == p = 1 \/ p \notin Rejected

\* What the clients' tasks are writing.
Writing == [c \in Clients |-> IF client[c] = "writing" THEN payload[c] ELSE 0]

\* The serialiser, its snapshot and the client tasks implement a feed of
\* values: no task writes a payload its client has, an older one after a newer
\* or one that cannot be encoded, though what it writes was borrowed an await
\* earlier and another client's admission refreshes the snapshot.
Feed == INSTANCE LatestValue WITH
  First <- 1, Receivers <- Clients, Sendable <- Sendable,
  published <- display, held <- sent, offered <- Writing
ImplementsLatestValue == Feed!Spec

\* The accept loop does not hang on its refresh request, and the client it is
\* admitting gets its task, even when the serialiser exits meanwhile.
AdmissionEnds == server = "refresh" ~> server # "refresh"

\* Once the flag is clear the server returns with no task left, whatever its
\* clients do.
ServerStops == ~keep_running ~> (server = "done" /\ Tasks = {})

\* A payload that the serialiser has still to see reaches every client that
\* is connected by then, unless the client leaves or the engine stops.
LatestReachesClients ==
  \A c \in Clients :
    (c \in Tasks /\ display = MaxFrames /\ consumed # display)
      ~> (sent[c] = MaxFrames \/ c \notin Tasks \/ ~keep_running)

===============================================================================
