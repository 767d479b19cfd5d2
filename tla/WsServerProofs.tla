--------------------------- MODULE WsServerProofs ---------------------------
(***************************************************************************)
(* For any number of clients, slots and payloads, and any payloads that    *)
(* cannot be encoded: no slot is lost, and the clients are served as       *)
(* LatestValue says, each with payloads that can be encoded, each newer    *)
(* than the one before.                                                    *)
(*                                                                         *)
(* SlotsConserved needs to know who is being admitted (AdmitInv).  The     *)
(* refinement needs the order of the payloads along their way (OrderInv),  *)
(* so that a version a client has not seen holds a payload it has not been *)
(* sent (ClientInv), and that what is on that way was encoded              *)
(* (EncodedInv).                                                           *)
(***************************************************************************)
EXTENDS WsServer, FiniteSetTheorems, TLAPS

TaskStates == {"handshake", "writing", "loop", "flush", "close"}

Kinds ==
  /\ slots \in Nat
  /\ client \in [Clients -> {"new", "refused", "gone"} \cup TaskStates]
  /\ seen \in [Clients -> Nat] /\ payload \in [Clients -> Nat] /\ sent \in [Clients -> Nat]
  /\ version \in Nat
  /\ {display, consumed, serialised} \subseteq Nat \ {0}

\* A client is being admitted while the accept loop waits for its refresh, and
\* has no task yet.
AdmitInv ==
  /\ admitting # NoClient <=> server = "refresh"
  /\ admitting # NoClient => admitting \in Clients /\ client[admitting] = "new"

\* The snapshot is no newer than what the serialiser has seen, nor that than
\* what the mapper has published.
OrderInv == serialised <= consumed /\ consumed <= display

\* What a client has been sent, and what a new version has for it.
ClientInv ==
  \A c \in Clients :
    /\ payload[c] <= serialised
    /\ seen[c] # version => payload[c] < serialised
    /\ client[c] \in {"new", "handshake"} => sent[c] = 0
    /\ client[c] = "writing" => sent[c] < payload[c]
    /\ client[c] \in {"loop", "flush"} => sent[c] = payload[c]

\* The snapshot, and what a task is writing of it, can be sent.
EncodedInv ==
  /\ Sendable(serialised)
  /\ \A c \in Clients : client[c] = "writing" => Sendable(payload[c])

ServerInv == Kinds /\ AdmitInv /\ OrderInv /\ ClientInv /\ SlotsConserved
-----------------------------------------------------------------------------
\* Adding a task and ending one, counted.
LEMMA TaskCount ==
  /\ IsFiniteSet(Tasks) /\ Cardinality(Tasks) \in Nat
  /\ \A c \in Clients \ Tasks : Cardinality(Tasks \cup {c}) = Cardinality(Tasks) + 1
  /\ \A c \in Tasks : Cardinality(Tasks \ {c}) = Cardinality(Tasks) - 1
<1>1. IsFiniteSet(Tasks)
  BY ClientsAssumption, FS_Subset DEF Tasks
<1> QED BY <1>1, FS_CardinalityType, FS_AddElement, FS_RemoveElement

\* A step that keeps the tasks, the free slots and the admission.
LEMMA SlotsKept ==
  ASSUME SlotsConserved, Tasks' = Tasks, slots' = slots, admitting' = admitting
  PROVE  SlotsConserved'
BY DEF SlotsConserved

\* Nobody is connected in the initial state.
LEMMA InitServer == Init => ServerInv
<1> SUFFICES ASSUME Init PROVE ServerInv
  OBVIOUS
<1> USE ServerAssumption, ClientsAssumption DEF Init
<1>1. Kinds
  BY DEF Kinds
<1>2. AdmitInv /\ OrderInv /\ ClientInv
  BY DEF AdmitInv, OrderInv, ClientInv
<1>3. Tasks = {}
  BY DEF Tasks
<1>4. SlotsConserved
  BY <1>3, FS_EmptySet DEF SlotsConserved
<1> QED BY <1>1, <1>2, <1>4 DEF ServerInv
-----------------------------------------------------------------------------
(***************************************************************************)
(* Steps outside the clients' tasks.                                       *)
(***************************************************************************)

\* The mapper publishes.
LEMMA PublishKeeps ==
  ASSUME ServerInv, Publish
  PROVE  ServerInv'
<1> USE ServerAssumption, ClientsAssumption DEF ServerInv, Publish,
    displayVars, serialiserVars, acceptVars, clientVars
<1>1. Kinds'
  BY DEF Kinds, TaskStates
<1>2. AdmitInv' /\ OrderInv'
  BY DEF Kinds, AdmitInv, OrderInv
<1>3. ClientInv'
  BY DEF Kinds, OrderInv, ClientInv
<1>4. Tasks' = Tasks
  BY DEF Tasks, Kinds, TaskStates
<1>5. SlotsConserved'
  BY <1>4, SlotsKept
<1> QED BY <1>1, <1>2, <1>3, <1>5

\* The flag is cleared.
LEMMA ClearFlagKeeps ==
  ASSUME ServerInv, ClearFlag
  PROVE  ServerInv'
<1> USE ServerAssumption, ClientsAssumption DEF ServerInv, ClearFlag,
    displayVars, serialiserVars, acceptVars, clientVars
<1>1. Kinds'
  BY DEF Kinds, TaskStates
<1>2. AdmitInv' /\ OrderInv'
  BY DEF Kinds, AdmitInv, OrderInv
<1>3. ClientInv'
  BY DEF Kinds, OrderInv, ClientInv
<1>4. Tasks' = Tasks
  BY DEF Tasks, Kinds, TaskStates
<1>5. SlotsConserved'
  BY <1>4, SlotsKept
<1> QED BY <1>1, <1>2, <1>3, <1>5

\* The mapper leaves.
LEMMA MapperExitsKeeps ==
  ASSUME ServerInv, MapperExits
  PROVE  ServerInv'
<1> USE ServerAssumption, ClientsAssumption DEF ServerInv, MapperExits,
    displayVars, serialiserVars, acceptVars, clientVars
<1>1. Kinds'
  BY DEF Kinds, TaskStates
<1>2. AdmitInv' /\ OrderInv'
  BY DEF Kinds, AdmitInv, OrderInv
<1>3. ClientInv'
  BY DEF Kinds, OrderInv, ClientInv
<1>4. Tasks' = Tasks
  BY DEF Tasks, Kinds, TaskStates
<1>5. SlotsConserved'
  BY <1>4, SlotsKept
<1> QED BY <1>1, <1>2, <1>3, <1>5

\* The serialiser encodes a payload it has not seen, or skips it.
LEMMA DisplayChangedKeeps ==
  ASSUME ServerInv, DisplayChanged
  PROVE  ServerInv'
<1> USE ServerAssumption, ClientsAssumption DEF ServerInv, DisplayChanged, Serialise, Skip, SnapshotChanged,
    displayVars, serialiserVars, acceptVars, clientVars
<1>1. Kinds'
  BY DEF Kinds, TaskStates
<1>2. AdmitInv' /\ OrderInv'
  BY DEF Kinds, AdmitInv, OrderInv
<1>3. ClientInv'
  BY DEF Kinds, OrderInv, ClientInv
<1>4. Tasks' = Tasks
  BY DEF Tasks, Kinds, TaskStates
<1>5. SlotsConserved'
  BY <1>4, SlotsKept
<1> QED BY <1>1, <1>2, <1>3, <1>5

\* A refresh publishes only a payload that is newer than the snapshot.
LEMMA RefreshRequestedKeeps ==
  ASSUME ServerInv, RefreshRequested
  PROVE  ServerInv'
<1> USE ServerAssumption, ClientsAssumption DEF ServerInv, RefreshRequested, Serialise, SnapshotChanged,
    displayVars, serialiserVars, acceptVars, clientVars
<1>1. Kinds'
  BY DEF Kinds, TaskStates
<1>2. AdmitInv' /\ OrderInv'
  BY DEF Kinds, AdmitInv, OrderInv
<1>3. ClientInv'
  BY DEF Kinds, OrderInv, ClientInv
<1>4. Tasks' = Tasks
  BY DEF Tasks, Kinds, TaskStates
<1>5. SlotsConserved'
  BY <1>4, SlotsKept
<1> QED BY <1>1, <1>2, <1>3, <1>5

\* The serialiser leaves.
LEMMA SerialiserExitsKeeps ==
  ASSUME ServerInv, SerialiserExits
  PROVE  ServerInv'
<1> USE ServerAssumption, ClientsAssumption DEF ServerInv, SerialiserExits, DropRequest,
    displayVars, serialiserVars, acceptVars, clientVars
<1>1. Kinds'
  BY DEF Kinds, TaskStates
<1>2. AdmitInv' /\ OrderInv'
  BY DEF Kinds, AdmitInv, OrderInv
<1>3. ClientInv'
  BY DEF Kinds, OrderInv, ClientInv
<1>4. Tasks' = Tasks
  BY DEF Tasks, Kinds, TaskStates
<1>5. SlotsConserved'
  BY <1>4, SlotsKept
<1> QED BY <1>1, <1>2, <1>3, <1>5

\* The accept loop waits.
LEMMA AwaitConnectionKeeps ==
  ASSUME ServerInv, AwaitConnection
  PROVE  ServerInv'
<1> USE ServerAssumption, ClientsAssumption DEF ServerInv, AwaitConnection,
    displayVars, serialiserVars, acceptVars, clientVars
<1>1. Kinds'
  BY DEF Kinds, TaskStates
<1>2. AdmitInv' /\ OrderInv'
  BY DEF Kinds, AdmitInv, OrderInv
<1>3. ClientInv'
  BY DEF Kinds, OrderInv, ClientInv
<1>4. Tasks' = Tasks
  BY DEF Tasks, Kinds, TaskStates
<1>5. SlotsConserved'
  BY <1>4, SlotsKept
<1> QED BY <1>1, <1>2, <1>3, <1>5

\* The accept loop stops.
LEMMA BeginShutdownKeeps ==
  ASSUME ServerInv, BeginShutdown
  PROVE  ServerInv'
<1> USE ServerAssumption, ClientsAssumption DEF ServerInv, BeginShutdown,
    displayVars, serialiserVars, acceptVars, clientVars
<1>1. Kinds'
  BY DEF Kinds, TaskStates
<1>2. AdmitInv' /\ OrderInv'
  BY DEF Kinds, AdmitInv, OrderInv
<1>3. ClientInv'
  BY DEF Kinds, OrderInv, ClientInv
<1>4. Tasks' = Tasks
  BY DEF Tasks, Kinds, TaskStates
<1>5. SlotsConserved'
  BY <1>4, SlotsKept
<1> QED BY <1>1, <1>2, <1>3, <1>5

\* A connection is refused, or takes a slot and waits for its task.
LEMMA AcceptKeeps ==
  ASSUME ServerInv, NEW c \in Clients, Accept(c)
  PROVE  ServerInv'
<1> USE ServerAssumption, ClientsAssumption DEF ServerInv, Accept, AtCapacity,
    displayVars, serialiserVars
<1>1. Kinds'
  BY DEF Kinds
<1>2. AdmitInv' /\ OrderInv'
  BY DEF Kinds, AdmitInv, OrderInv
<1>3. ClientInv'
  BY DEF Kinds, ClientInv
<1>4. Tasks' = Tasks
  BY DEF Tasks, Kinds, TaskStates
<1>5. SlotsConserved'
  BY <1>4, TaskCount DEF SlotsConserved, Kinds, AdmitInv
<1> QED BY <1>1, <1>2, <1>3, <1>5

\* The admitted client's task takes over its slot.
LEMMA SpawnClientKeeps ==
  ASSUME ServerInv, SpawnClient
  PROVE  ServerInv'
<1> USE ServerAssumption, ClientsAssumption DEF ServerInv, SpawnClient,
    displayVars, serialiserVars
<1>1. Kinds'
  BY DEF Kinds, TaskStates, AdmitInv
<1>2. AdmitInv' /\ OrderInv'
  BY DEF AdmitInv, OrderInv
<1>3. ClientInv'
  BY DEF Kinds, AdmitInv, ClientInv
<1>4. PICK a \in Clients : a = admitting /\ client[a] = "new"
  BY DEF AdmitInv
<1>5. a \notin Tasks /\ Tasks' = Tasks \cup {a}
  BY <1>4 DEF Tasks, Kinds
<1>6. SlotsConserved'
  BY <1>4, <1>5, TaskCount DEF SlotsConserved, Kinds, AdmitInv
<1> QED BY <1>1, <1>2, <1>3, <1>6

\* Returning aborts the tasks that are left, and their permits with them.
LEMMA ServerExitsKeeps ==
  ASSUME ServerInv, ServerExits
  PROVE  ServerInv'
<1> USE ServerAssumption, ClientsAssumption DEF ServerInv, ServerExits, displayVars
<1>1. Kinds'
  BY DEF Kinds
<1>2. AdmitInv' /\ OrderInv'
  BY DEF AdmitInv, OrderInv
<1>3. ClientInv'
  BY DEF Kinds, ClientInv, Tasks
<1>4. Tasks' = {}
  BY DEF Tasks
<1>5. SlotsConserved'
  BY <1>2, <1>4, FS_EmptySet DEF SlotsConserved, AdmitInv
<1> QED BY <1>1, <1>2, <1>3, <1>5
-----------------------------------------------------------------------------
(***************************************************************************)
(* Steps of a client's task.                                               *)
(***************************************************************************)

\* A task that returns gives its slot back.
LEMMA LeaveKeeps ==
  ASSUME ServerInv, NEW c \in Tasks, Leave(c)
  PROVE  ServerInv'
<1> USE ServerAssumption, ClientsAssumption DEF ServerInv, Leave, ReleaseSlot,
    displayVars, serialiserVars, acceptVars
<1>1. c \in Clients /\ client[c] \in TaskStates
  BY DEF Tasks, Kinds
<1>2. Kinds'
  BY <1>1 DEF Kinds
<1>3. AdmitInv' /\ OrderInv'
  BY <1>1 DEF Kinds, AdmitInv, OrderInv, TaskStates
<1>4. ClientInv'
  BY <1>1 DEF Kinds, ClientInv
<1>5. Tasks' = Tasks \ {c}
  BY <1>1 DEF Tasks, Kinds
<1>6. SlotsConserved'
  BY <1>5, TaskCount DEF SlotsConserved, Kinds
<1> QED BY <1>2, <1>3, <1>4, <1>6

\* The payload a task begins to write is newer than any it was sent.
LEMMA BeginWriteKeeps ==
  ASSUME ServerInv, NEW c \in Clients, BeginWrite(c),
         client[c] = "handshake" \/ (client[c] = "loop" /\ seen[c] # version)
  PROVE  ServerInv'
<1> USE ServerAssumption, ClientsAssumption DEF ServerInv, BeginWrite,
    displayVars, serialiserVars, acceptVars
<1>1. Kinds'
  BY DEF Kinds, TaskStates
<1>2. AdmitInv' /\ OrderInv'
  BY DEF Kinds, AdmitInv, OrderInv
<1>3. ClientInv'
  BY DEF Kinds, ClientInv
<1>4. Tasks' = Tasks
  BY DEF Tasks, Kinds
<1>5. SlotsConserved'
  BY <1>4, SlotsKept
<1> QED BY <1>1, <1>2, <1>3, <1>5

\* A task moves on without a slot or a payload changing hands: a write ends, a
\* notice arrives, a Ping is answered, the closing begins.
LEMMA TaskMovesKeeps ==
  ASSUME ServerInv, NEW c \in Clients, NEW to \in {"loop", "flush", "close"},
         client' = [client EXCEPT ![c] = to],
         \/ client[c] = "writing" /\ to = "loop" /\ sent' = [sent EXCEPT ![c] = payload[c]]
         \/ client[c] \in {"loop", "flush"} /\ sent' = sent,
         UNCHANGED <<displayVars, serialiserVars, acceptVars, slots, seen, payload>>
  PROVE  ServerInv'
<1> USE ServerAssumption, ClientsAssumption DEF ServerInv, displayVars, serialiserVars,
    acceptVars
<1>1. Kinds'
  BY DEF Kinds, TaskStates
<1>2. AdmitInv' /\ OrderInv'
  BY DEF Kinds, AdmitInv, OrderInv
<1>3. ClientInv'
  BY DEF Kinds, ClientInv
<1>4. Tasks' = Tasks
  BY DEF Tasks, Kinds
<1>5. SlotsConserved'
  BY <1>4, SlotsKept
<1> QED BY <1>1, <1>2, <1>3, <1>5

\* Every step of a client's task is one of the three.
LEMMA ClientKeeps ==
  ASSUME ServerInv, NEW c \in Clients, Client(c) \/ PingFlush(c) \/ IncomingEnds(c)
  PROVE  ServerInv'
<1>1. client[c] \in TaskStates => c \in Tasks
  BY DEF Tasks, TaskStates
<1> USE DEF TaskStates
<1>2. CASE HandshakeEnds(c)
  BY <1>1, <1>2, LeaveKeeps, BeginWriteKeeps DEF HandshakeEnds
<1>3. CASE WriteEnds(c)
  BY <1>1, <1>3, LeaveKeeps, TaskMovesKeeps DEF WriteEnds
<1>4. CASE Notified(c)
  BY <1>4, TaskMovesKeeps DEF Notified
<1>5. CASE FlushEnds(c)
  BY <1>1, <1>5, LeaveKeeps, TaskMovesKeeps DEF FlushEnds
<1>6. CASE SnapshotChangedFor(c)
  BY <1>6, BeginWriteKeeps, TaskMovesKeeps DEF SnapshotChangedFor
<1>7. CASE CloseEnds(c)
  BY <1>1, <1>7, LeaveKeeps DEF CloseEnds
<1>8. CASE PingFlush(c)
  BY <1>8, TaskMovesKeeps DEF PingFlush
<1>9. CASE IncomingEnds(c)
  BY <1>1, <1>9, LeaveKeeps DEF IncomingEnds
<1> QED BY <1>2, <1>3, <1>4, <1>5, <1>6, <1>7, <1>8, <1>9 DEF Client
-----------------------------------------------------------------------------
\* The invariant is inductive.
LEMMA StepServer == ServerInv /\ [Next]_vars => ServerInv'
<1> SUFFICES ASSUME ServerInv, [Next]_vars PROVE ServerInv'
  OBVIOUS
<1>1. CASE Next
  <2>1. CASE Serialiser
    BY <2>1, DisplayChangedKeeps, RefreshRequestedKeeps, SerialiserExitsKeeps DEF Serialiser
  <2>2. CASE Server
    BY <2>2, AwaitConnectionKeeps, SpawnClientKeeps, BeginShutdownKeeps, ServerExitsKeeps
       DEF Server
  <2> QED BY <1>1, <2>1, <2>2, PublishKeeps, ClearFlagKeeps, MapperExitsKeeps, AcceptKeeps,
             ClientKeeps DEF Next
<1>2. CASE UNCHANGED vars
  BY <1>2 DEF vars, displayVars, serialiserVars, acceptVars, clientVars, ServerInv, Kinds,
     AdmitInv, OrderInv, ClientInv, SlotsConserved, Tasks
<1> QED BY <1>1, <1>2

\* ServerInv holds throughout.
LEMMA ServerInvariant == Spec => []ServerInv
BY InitServer, StepServer, PTL DEF Spec

\* Every slot is free or held by one client, whichever way tasks end.
THEOREM NoSlotLost == Spec => []SlotsConserved
<1>1. ServerInv => SlotsConserved
  BY DEF ServerInv
<1> QED BY <1>1, ServerInvariant, PTL

-----------------------------------------------------------------------------
(***************************************************************************)
(* The clients are given the latest value.                                 *)
(***************************************************************************)

\* A client's task borrows a snapshot that was encoded.
LEMMA ClientEncoded ==
  ASSUME ServerInv, EncodedInv, NEW c \in Clients,
         Client(c) \/ PingFlush(c) \/ IncomingEnds(c)
  PROVE  EncodedInv'
<1>1. CASE BeginWrite(c)
  BY <1>1 DEF BeginWrite, EncodedInv, ServerInv, Kinds, Sendable, displayVars, serialiserVars
<1>2. ASSUME client'[c] # "writing", \A d \in Clients \ {c} : client'[d] = client[d],
             UNCHANGED <<serialised, payload>>
      PROVE  EncodedInv'
  BY <1>2 DEF EncodedInv, Sendable
<1>3. ASSUME NEW to, to # "writing", client' = [client EXCEPT ![c] = to],
             UNCHANGED <<serialised, payload>>
      PROVE  EncodedInv'
  BY <1>2, <1>3 DEF ServerInv, Kinds
<1>4. CASE Leave(c)
  BY <1>3, <1>4 DEF Leave, serialiserVars
<1> QED
  BY <1>1, <1>3, <1>4 DEF Client, HandshakeEnds, WriteEnds, Notified, PingFlush, FlushEnds,
     IncomingEnds, SnapshotChangedFor, CloseEnds, serialiserVars

\* Nothing is published or written that was not encoded.
LEMMA StepEncoded == ServerInv /\ EncodedInv /\ [Next]_vars => EncodedInv'
<1> SUFFICES ASSUME ServerInv, EncodedInv, [Next]_vars PROVE EncodedInv'
  OBVIOUS
<1>1. ASSUME UNCHANGED <<serialised, client, payload>> PROVE EncodedInv'
  BY <1>1 DEF EncodedInv, Sendable
<1>2. CASE DisplayChanged \/ RefreshRequested
  <2>1. serialised' \in {serialised, display} /\ (serialised' # serialised => Encodable(display))
    BY <1>2 DEF DisplayChanged, RefreshRequested, Serialise, Skip
  <2>2. UNCHANGED <<client, payload>>
    BY <1>2 DEF DisplayChanged, RefreshRequested, clientVars
  <2> QED BY <2>1, <2>2 DEF EncodedInv, Sendable, Encodable
<1>3. CASE Publish \/ ClearFlag \/ MapperExits \/ SerialiserExits
  BY <1>1, <1>3 DEF Publish, ClearFlag, MapperExits, SerialiserExits, serialiserVars, clientVars
<1>4. CASE AwaitConnection \/ BeginShutdown
  BY <1>1, <1>4 DEF AwaitConnection, BeginShutdown, serialiserVars, clientVars
<1>5. ASSUME UNCHANGED <<serialised, payload>>,
             \A c \in Clients : client'[c] = "writing" => client[c] = "writing"
      PROVE  EncodedInv'
  BY <1>5 DEF EncodedInv, Sendable
<1>6. CASE SpawnClient
  BY <1>5, <1>6 DEF SpawnClient, ServerInv, Kinds, AdmitInv, serialiserVars
<1>7. CASE ServerExits
  BY <1>5, <1>7 DEF ServerExits
<1>8. ASSUME NEW c \in Clients, Accept(c) PROVE EncodedInv'
  BY <1>5, <1>8 DEF Accept, ServerInv, Kinds, serialiserVars
<1>9. CASE UNCHANGED vars
  BY <1>1, <1>9 DEF vars, serialiserVars, clientVars
<1> QED
  BY <1>2, <1>3, <1>4, <1>6, <1>7, <1>8, <1>9, ClientEncoded DEF Next, Serialiser, Server

\* A task that borrows the snapshot offers it; one whose write ends has given it.
LEMMA ClientRefines ==
  ASSUME ServerInv, ServerInv', EncodedInv', NEW c \in Clients,
         Client(c) \/ PingFlush(c) \/ IncomingEnds(c)
  PROVE  Feed!Next \/ UNCHANGED Feed!vars
<1> USE DEF displayVars, serialiserVars
<1>0. client \in [Clients -> {"new", "refused", "gone"} \cup TaskStates] /\ UNCHANGED display
  BY DEF ServerInv, Kinds, Client, HandshakeEnds, WriteEnds, Notified, PingFlush, FlushEnds,
     IncomingEnds, SnapshotChangedFor, CloseEnds, BeginWrite, Leave
<1>1. ASSUME BeginWrite(c), client[c] # "writing" PROVE Feed!Offer(c)
  <2>1. /\ sent[c] \in Nat /\ serialised \in Nat /\ display \in Nat
        /\ sent[c] < serialised /\ serialised <= display /\ Sendable(serialised)
    <3>1. client'[c] = "writing" /\ payload'[c] = serialised /\ UNCHANGED <<sent, serialised>>
      BY <1>0, <1>1 DEF BeginWrite, ServerInv, Kinds
    <3>2. sent'[c] < payload'[c] /\ Sendable(payload'[c])
      BY <3>1 DEF ServerInv, ClientInv, EncodedInv, Sendable
    <3> QED BY <3>1, <3>2 DEF ServerInv, Kinds, OrderInv
  <2>2. serialised \in Feed!Newer(c)
    BY <2>1 DEF Feed!Newer
  <2>3. Writing[c] = 0 /\ Writing' = [Writing EXCEPT ![c] = serialised]
    BY <1>0, <1>1 DEF BeginWrite, Writing, ServerInv, Kinds
  <2>4. UNCHANGED <<display, sent>>
    BY <1>1 DEF BeginWrite
  <2> QED BY <2>2, <2>3, <2>4 DEF Feed!Offer
<1>2. ASSUME client[c] = "writing", client' = [client EXCEPT ![c] = "loop"],
             sent' = [sent EXCEPT ![c] = payload[c]], UNCHANGED payload
      PROVE  Feed!Take(c)
  <2>1. Writing[c] = payload[c] /\ payload[c] # 0
    BY <1>2 DEF Writing, ServerInv, Kinds, ClientInv
  <2>2. Writing' = [Writing EXCEPT ![c] = 0]
    BY <1>0, <1>2 DEF Writing
  <2> QED BY <1>0, <1>2, <2>1, <2>2 DEF Feed!Take
<1>3. ASSUME client[c] = "writing", Leave(c) PROVE Feed!Withdraw({c})
  <2>1. Writing' = [r \in Clients |-> IF r \in {c} THEN 0 ELSE Writing[r]]
    BY <1>0, <1>3 DEF Leave, Writing
  <2> QED BY <1>3, <2>1 DEF Feed!Withdraw, Leave
<1>4. ASSUME NEW to, to # "writing", client[c] # "writing",
             client' = [client EXCEPT ![c] = to], UNCHANGED <<payload, sent>>
      PROVE  UNCHANGED Feed!vars
  <2>1. Writing' = Writing
    BY <1>0, <1>4 DEF Writing
  <2> QED BY <1>0, <1>4, <2>1 DEF Feed!vars
<1>5. ASSUME Leave(c) PROVE Feed!Next \/ UNCHANGED Feed!vars
  <2>1. CASE client[c] = "writing"
    BY <1>3, <1>5, <2>1 DEF Feed!Next
  <2>2. CASE client[c] # "writing"
    BY <1>4, <1>5, <2>2 DEF Leave
  <2> QED BY <2>1, <2>2
<1>6. CASE HandshakeEnds(c) \/ SnapshotChangedFor(c)
  <2>1. CASE BeginWrite(c)
    BY <1>1, <1>6, <2>1 DEF HandshakeEnds, SnapshotChangedFor, Feed!Next
  <2>2. CASE ~BeginWrite(c)
    BY <1>4, <1>5, <1>6, <2>2 DEF HandshakeEnds, SnapshotChangedFor
  <2> QED BY <2>1, <2>2
<1>7. CASE WriteEnds(c)
  BY <1>2, <1>5, <1>7 DEF WriteEnds, Feed!Next
<1>8. CASE Notified(c) \/ PingFlush(c) \/ FlushEnds(c) \/ IncomingEnds(c) \/ CloseEnds(c)
  BY <1>4, <1>5, <1>8 DEF Notified, PingFlush, FlushEnds, IncomingEnds, CloseEnds
<1> QED BY <1>6, <1>7, <1>8 DEF Client

\* The other steps publish, take the values back from all that are offered one,
\* or stutter.
LEMMA RefineStep ==
  ServerInv /\ ServerInv' /\ EncodedInv' /\ [Next]_vars => [Feed!Next]_(Feed!vars)
<1> SUFFICES ASSUME ServerInv, ServerInv', EncodedInv', [Next]_vars
             PROVE  Feed!Next \/ UNCHANGED Feed!vars
  OBVIOUS
<1> USE DEF displayVars, clientVars
<1>1. CASE Publish
  BY <1>1 DEF Publish, Writing, Feed!Next, Feed!Publish
<1>2. ASSUME UNCHANGED <<display, sent, payload>>,
             \A c \in Clients : client[c] = "writing" <=> client'[c] = "writing"
      PROVE  UNCHANGED Feed!vars
  BY <1>2 DEF Writing, Feed!vars
<1>3. CASE ClearFlag \/ MapperExits \/ Serialiser \/ AwaitConnection \/ BeginShutdown
           \/ UNCHANGED vars
  BY <1>2, <1>3 DEF ClearFlag, MapperExits, vars, Serialiser, DisplayChanged, RefreshRequested,
     SerialiserExits, AwaitConnection, BeginShutdown
<1>4. CASE SpawnClient
  BY <1>2, <1>4 DEF SpawnClient, ServerInv, Kinds, AdmitInv
<1>5. CASE ServerExits
  <2>1. Writing' = [r \in Clients |-> IF r \in Clients THEN 0 ELSE Writing[r]]
    BY <1>5 DEF ServerExits, Writing, Tasks
  <2>2. Feed!Withdraw(Clients)
    BY <1>5, <2>1 DEF ServerExits, Feed!Withdraw
  <2> QED BY <2>2 DEF Feed!Next
<1>6. ASSUME NEW c \in Clients, Accept(c) PROVE UNCHANGED Feed!vars
  BY <1>2, <1>6 DEF Accept, ServerInv, Kinds
<1>7. ASSUME NEW c \in Clients, Client(c) \/ PingFlush(c) \/ IncomingEnds(c)
      PROVE  Feed!Next \/ UNCHANGED Feed!vars
  BY <1>7, ClientRefines
<1> QED BY <1>1, <1>3, <1>4, <1>5, <1>6, <1>7 DEF Next, Server

\* Whatever the clients, the serialiser and the mapper do, a task writes its
\* client payloads that can be encoded, each published and newer than the one
\* the client has.
THEOREM ClientsGetLatest == Spec => ImplementsLatestValue
<1>1. Init => Feed!Init /\ EncodedInv
  BY DEF Init, Feed!Init, EncodedInv, Sendable, Writing
<1>2. ServerInv /\ EncodedInv /\ [Next]_vars => EncodedInv'
  BY StepEncoded
<1>3. ServerInv /\ ServerInv' /\ EncodedInv' /\ [Next]_vars => [Feed!Next]_(Feed!vars)
  BY RefineStep
<1> QED BY <1>1, <1>2, <1>3, ServerInvariant, PTL DEF Spec, ImplementsLatestValue, Feed!Spec
-----------------------------------------------------------------------------
(***************************************************************************)
(* Types.                                                                  *)
(***************************************************************************)

\* The slots are never fewer than none nor more than there were.
LEMMA SlotsInRange == ServerInv => slots \in 0..max_clients
<1> SUFFICES ASSUME ServerInv PROVE slots \in 0..max_clients
  OBVIOUS
<1>1. Cardinality(Tasks) \in Nat /\ max_clients \in Nat
  BY TaskCount, ServerAssumption
<1>2. slots + Cardinality(Tasks) <= max_clients /\ slots \in Nat
  BY <1>1 DEF ServerInv, SlotsConserved, Kinds
<1> QED BY <1>1, <1>2

\* Every step keeps the types.
LEMMA StepType == ServerInv /\ TypeOK /\ ServerInv' /\ [Next]_vars => TypeOK'
<1> SUFFICES ASSUME ServerInv, TypeOK, ServerInv', [Next]_vars PROVE TypeOK'
  OBVIOUS
<1>1. slots' \in 0..max_clients /\ version' \in Nat
      /\ \A c \in Clients : {seen'[c], payload'[c], sent'[c]} \subseteq Nat
  <2>1. (slots \in 0..max_clients)'
    BY SlotsInRange, PTL
  <2> QED BY <2>1 DEF ServerInv, Kinds
<1>2. admitting' \in Clients \cup {NoClient}
  BY DEF ServerInv, AdmitInv
<1> DEFINE ClientStates ==
      {"new", "refused", "handshake", "writing", "loop", "flush", "close", "gone"}
<1>3. client' \in [Clients -> ClientStates]
  BY DEF ServerInv, Kinds, TaskStates
<1> DEFINE Rest ==
      /\ {keep_running, displayClosed} \subseteq BOOLEAN
      /\ {display, serialised, consumed} \subseteq 1..MaxFrames
      /\ serialiser \in {"alive", "done"} /\ refresh \in {"none", "queued", "done"}
      /\ server \in {"check", "accept", "refresh", "closing", "done"}
      /\ notified \subseteq Clients
<1>4. Rest'
  <2> USE ServerAssumption DEF TypeOK, displayVars, serialiserVars, acceptVars, clientVars
  <2>1. CASE Publish
    <3>1. display' \in 1..MaxFrames
      BY <2>1 DEF Publish
    <3> QED BY <2>1, <3>1 DEF Publish
  <2>7. CASE ClearFlag \/ MapperExits
    BY <2>7 DEF ClearFlag, MapperExits
  <2>2. CASE Serialiser
    BY <2>2 DEF Serialiser, DisplayChanged, RefreshRequested, SerialiserExits, Serialise, Skip,
       DropRequest
  <2>3. CASE Server
    BY <2>3 DEF Server, AwaitConnection, SpawnClient, BeginShutdown, ServerExits
  <2>4. ASSUME NEW c \in Clients, Accept(c) PROVE Rest'
    BY <2>4 DEF Accept
  <2>5. ASSUME NEW c \in Clients, Client(c) \/ PingFlush(c) \/ IncomingEnds(c) PROVE Rest'
    BY <2>5 DEF Client, HandshakeEnds, WriteEnds, Notified, PingFlush, FlushEnds, IncomingEnds,
       SnapshotChangedFor, CloseEnds, BeginWrite, Leave
  <2>6. CASE UNCHANGED vars
    BY <2>6 DEF vars
  <2> QED BY <2>1, <2>2, <2>3, <2>4, <2>5, <2>6, <2>7 DEF Next
<1> QED BY <1>1, <1>2, <1>3, <1>4 DEF TypeOK

\* The state has its types, whatever the bounds: no payload beyond the last,
\* and no more free slots than there were.
THEOREM TypeCorrect == Spec => []TypeOK
<1>1. Init => TypeOK
  <2> SUFFICES ASSUME Init PROVE TypeOK
    OBVIOUS
  <2>1. slots \in 0..max_clients /\ {display, serialised, consumed} \subseteq 1..MaxFrames
    BY ServerAssumption DEF Init
  <2>2. {keep_running, displayClosed} \subseteq BOOLEAN
    BY DEF Init
  <2> QED BY <2>1, <2>2 DEF Init, TypeOK
<1>2. ServerInv /\ TypeOK /\ ServerInv' /\ [Next]_vars => TypeOK'
  BY StepType
<1> QED BY <1>1, <1>2, ServerInvariant, PTL DEF Spec
=============================================================================
