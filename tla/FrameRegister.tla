--------------------------- MODULE FrameRegister ---------------------------
(***************************************************************************)
(* What the shared frame region promises its readers, with no sequence     *)
(* lock and no memory model: a register that is written whole and read     *)
(* whole.  A reader may be behind the writer, never ahead of it, and never *)
(* goes back to an older frame.  A read that returns None leaves the       *)
(* reader with the frame it already had, so it is a stuttering step here.  *)
(***************************************************************************)
EXTENDS Naturals, Sequences

CONSTANTS Readers,      \* threads that read the region
          Frames,       \* every content a frame can have
          Finite(_)     \* the contents with no NaN or infinity in them

VARIABLES published,    \* the frames published so far, oldest first
          got           \* the frame each reader holds, with its sequence

vars == <<published, got>>

Init ==
  /\ published = << >>
  /\ got \in [Readers -> [sequence : {0}, words : Frames]]

Publish ==
  \E f \in Frames :
    /\ Finite(f)
    /\ published' = Append(published, f)
    /\ UNCHANGED got

\* The sequence is even and counts two per published frame.
Take(r) ==
  \E i \in 1..Len(published) :
    /\ 2 * i >= got[r].sequence
    /\ got' = [got EXCEPT ![r] = [sequence |-> 2 * i, words |-> published[i]]]
    /\ UNCHANGED published

Next == Publish \/ \E r \in Readers : Take(r)

Spec == Init /\ [][Next]_vars
=============================================================================
