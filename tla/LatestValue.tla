----------------------------- MODULE LatestValue -----------------------------
(***************************************************************************)
(* What the last stage of the engine promises those it serves, the         *)
(* clients of the WebSocket server and the receiver of the OSC datagrams,  *)
(* with no encoder, no snapshots, no buffers and no tasks: values numbered *)
(* in the order they are published, of which a receiver is given some,     *)
(* only such as it may be given, each later than the one before.  A client *)
(* is first offered a value and then takes it or is gone; a datagram is    *)
(* given at once.  A receiver may skip values and fall behind; it never    *)
(* goes back to an older value, is not offered the one it has, and is      *)
(* never given one that nobody has published yet.                          *)
(***************************************************************************)
EXTENDS Naturals

CONSTANTS First,        \* the number of the value there is at the beginning
          Receivers,    \* who is given the values
          Sendable(_)   \* the values that may be given to anyone

VARIABLES published,    \* the latest value
          held,         \* the last value each receiver was given, or 0
          offered       \* the value each receiver is being given, or 0

vars == <<published, held, offered>>

Init ==
  /\ published = First
  /\ held = [r \in Receivers |-> 0]
  /\ offered = [r \in Receivers |-> 0]

Publish ==
  /\ published' = published + 1
  /\ UNCHANGED <<held, offered>>

Newer(r) == {v \in (held[r] + 1)..published : Sendable(v)}

Offer(r) ==
  /\ offered[r] = 0
  /\ \E v \in Newer(r) : offered' = [offered EXCEPT ![r] = v]
  /\ UNCHANGED <<published, held>>

Take(r) ==
  /\ offered[r] # 0
  /\ held' = [held EXCEPT ![r] = offered[r]]
  /\ offered' = [offered EXCEPT ![r] = 0]
  /\ UNCHANGED published

\* Some of those that were offered a value are not there to take it.
Withdraw(gone) ==
  /\ offered' = [r \in Receivers |-> IF r \in gone THEN 0 ELSE offered[r]]
  /\ UNCHANGED <<published, held>>

Give(r) ==
  /\ \E v \in Newer(r) : held' = [held EXCEPT ![r] = v]
  /\ UNCHANGED <<published, offered>>

Next ==
  \/ Publish
  \/ \E r \in Receivers : Offer(r) \/ Take(r) \/ Give(r)
  \/ \E gone \in SUBSET Receivers : Withdraw(gone)

Spec == Init /\ [][Next]_vars
=============================================================================
