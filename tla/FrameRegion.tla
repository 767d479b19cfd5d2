---------------------------- MODULE FrameRegion ----------------------------
(***************************************************************************)
(* The shared-memory frame region: FrameRegion::publish, called by the one *)
(* frame writer thread, against any number of threads in read_frame.       *)
(*                                                                         *)
(* The sequence lock is only correct because of the Release and Acquire    *)
(* orderings it asks for, so memory is not a sequentially consistent array *)
(* here.  Every word of the mapping keeps the history of the stores made   *)
(* to it, and every thread has a view: for each word, the oldest store it  *)
(* may still read.  A Relaxed load may return any store that is not older  *)
(* than the view; a store carries a view that an Acquire load, or a later  *)
(* Acquire fence, adds to the reader's.  This is the view semantics of the *)
(* Rust (C++20) memory model for one writer and no load buffering.         *)
(***************************************************************************)
EXTENDS Naturals, Sequences

CONSTANTS
  Readers,        \* threads that call read_frame
  Words,          \* the payload words: published_ns, MIDI words, levels
  FloatWords,     \* the payload words that hold a peak or a bin
  Values,         \* bit patterns a payload word can hold
  NonFinite,      \* the bit patterns that are NaN or an infinity
  Zero,           \* what a fresh anonymous mapping holds
  READ_ATTEMPTS,  \* attempts a reader makes
  MaxPublish      \* bound: frames the writer publishes

SequenceWord == "sequence"
Locs   == Words \cup {SequenceWord}
Frames == [Words -> Values]

ASSUME WordsAssumption ==
  /\ SequenceWord \notin Words
  /\ FloatWords \subseteq Words
ASSUME ValuesAssumption ==
  /\ Values \subseteq Nat
  /\ Zero \in Values \ NonFinite
ASSUME BoundsAssumption ==
  /\ READ_ATTEMPTS \in Nat \ {0}
  /\ MaxPublish \in Nat

VARIABLES
  mem,        \* mem[l]: the stores made to word l, oldest first
  wpc,        \* where the writer is in publish
  frame,      \* the frame being published
  left,       \* its words not stored yet
  wCur,       \* the writer's view: everything it has stored
  wRel,       \* the writer's view at its last Release fence
  rejection_logged,
  published,  \* the frames published, oldest first
  rpc,        \* where each reader is in read_frame
  attempt,    \* the pass of its retry loop
  before,     \* the sequence it read first
  from,       \* for each word copied, the store its load returned
  copied,     \* the words copied in this pass
  cur,        \* each reader's view
  acq,        \* the view an Acquire fence would give it
  got         \* the last frame read_frame gave it

writerVars == <<wpc, frame, left, wCur, wRel, rejection_logged, published>>
readerVars == <<rpc, attempt, before, from, copied, cur, acq, got>>
vars == <<mem, writerVars, readerVars>>

Views    == [Locs -> Nat]
Messages == [val : Nat, view : Views]

\* The first store of every word is the kernel's zero fill.
InitialView == [l \in Locs |-> 1]

Merge(v, u) == [l \in Locs |-> IF v[l] >= u[l] THEN v[l] ELSE u[l]]

\* The store of val to l; the view it carries always includes itself.
Store(l, val, view) ==
  mem' = [mem EXCEPT ![l] =
            Append(@, [val  |-> val,
                       view |-> [view EXCEPT ![l] = Len(mem[l]) + 1]])]

\* The writer has seen its own store.
Stored(l) == wCur' = [wCur EXCEPT ![l] = Len(mem[l]) + 1]

\* The stores a load of l by r may return.
Readable(r, l) == cur[r][l]..Len(mem[l])

Init ==
  /\ mem = [l \in Locs |->
             <<[val |-> IF l = SequenceWord THEN 0 ELSE Zero, view |-> InitialView]>>]
  /\ wpc = "idle"
  /\ frame = [w \in Words |-> Zero]
  /\ left = {}
  /\ wCur = InitialView
  /\ wRel = InitialView
  /\ rejection_logged = FALSE
  /\ published = << >>
  /\ rpc = [r \in Readers |-> "idle"]
  /\ attempt = [r \in Readers |-> 1]
  /\ before = [r \in Readers |-> 0]
  /\ from = [r \in Readers |-> [w \in Words |-> 1]]
  /\ copied = [r \in Readers |-> {}]
  /\ cur = [r \in Readers |-> InitialView]
  /\ acq = [r \in Readers |-> InitialView]
  /\ got = [r \in Readers |-> [sequence |-> 0, words |-> [w \in Words |-> Zero]]]
-----------------------------------------------------------------------------
(***************************************************************************)
(* publish.  The payload stores are Relaxed and to different words, so     *)
(* they happen in no particular order.                                     *)
(***************************************************************************)

\* Mutant: one finite level is enough for a frame to pass (any for all).
AnyFinite(f) == \E w \in FloatWords : f[w] \notin NonFinite

\* No peak and no bin of the frame is NaN or infinite.
Finite(f) == \A w \in FloatWords : f[w] \notin NonFinite

\* The sequence as the only thread that stores it loads it.
Stable == mem[SequenceWord][Len(mem[SequenceWord])].val

\* publish returns false and the frame writer logs the first rejection.
RejectFrame ==
  /\ wpc = "idle"
  /\ \E f \in Frames : ~Finite(f)
  /\ rejection_logged' = TRUE
  /\ UNCHANGED <<mem, wpc, frame, left, wCur, wRel, published, readerVars>>

StoreOdd ==
  /\ wpc = "idle"
  /\ Len(published) < MaxPublish
  /\ \E f \in Frames : Finite(f) /\ frame' = f
  /\ Store(SequenceWord, Stable + 1, wRel)
  /\ Stored(SequenceWord)
  /\ wpc' = "odd"
  /\ UNCHANGED <<left, wRel, rejection_logged, published, readerVars>>

\* Mutant: the fence after the odd store of the sequence is forgotten.
NoReleaseFence == wRel

\* fence(Release): every later Relaxed store carries what is stored so far.
FenceRelease == wCur

ReleaseFence ==
  /\ wpc = "odd"
  /\ wRel' = FenceRelease
  /\ left' = Words
  /\ wpc' = "payload"
  /\ UNCHANGED <<mem, frame, wCur, rejection_logged, published, readerVars>>

StoreWord(w) ==
  /\ wpc = "payload"
  /\ w \in left
  /\ Store(w, frame[w], wRel)
  /\ Stored(w)
  /\ left' = left \ {w}
  /\ UNCHANGED <<wpc, frame, wRel, rejection_logged, published, readerVars>>

\* Mutant: the final store of the sequence is Relaxed.
RelaxedEven == wRel

\* The view the final store of the sequence carries: it is a Release store.
EvenStoreView == wCur

StoreEven ==
  /\ wpc = "payload"
  /\ left = {}
  /\ Store(SequenceWord, Stable + 1, EvenStoreView)
  /\ Stored(SequenceWord)
  /\ published' = Append(published, frame)
  /\ wpc' = "idle"
  /\ UNCHANGED <<frame, left, wRel, rejection_logged, readerVars>>
-----------------------------------------------------------------------------
(***************************************************************************)
(* read_frame, after the header words that never change have been checked. *)
(***************************************************************************)
ReadFrame(r) ==
  /\ rpc[r] = "idle"
  /\ rpc' = [rpc EXCEPT ![r] = "before"]
  /\ attempt' = [attempt EXCEPT ![r] = 1]
  /\ UNCHANGED <<mem, writerVars, before, from, copied, cur, acq, got>>

\* The next pass of the loop, or None after the last one.
Continue(r) ==
  IF attempt[r] < READ_ATTEMPTS
    THEN /\ attempt' = [attempt EXCEPT ![r] = @ + 1]
         /\ rpc' = [rpc EXCEPT ![r] = "before"]
    ELSE /\ rpc' = [rpc EXCEPT ![r] = "idle"]
         /\ UNCHANGED attempt

\* sequence.load(Acquire), and what each value it can return leads to.
LoadBefore(r) ==
  /\ rpc[r] = "before"
  /\ \E i \in Readable(r, SequenceWord) :
       LET m == mem[SequenceWord][i]
       IN /\ cur' = [cur EXCEPT ![r] = Merge(@, m.view)]
          /\ acq' = [acq EXCEPT ![r] = Merge(@, m.view)]
          /\ before' = [before EXCEPT ![r] = m.val]
          /\ \/ /\ m.val = 0
                /\ rpc' = [rpc EXCEPT ![r] = "idle"]
                /\ UNCHANGED <<attempt, copied>>
             \/ /\ m.val % 2 = 1
                /\ Continue(r)
                /\ UNCHANGED copied
             \/ /\ m.val # 0 /\ m.val % 2 = 0
                /\ rpc' = [rpc EXCEPT ![r] = "copy"]
                /\ copied' = [copied EXCEPT ![r] = {}]
                /\ UNCHANGED attempt
  /\ UNCHANGED <<mem, writerVars, from, got>>

\* A Relaxed load of one payload word.
LoadWord(r, w) ==
  /\ rpc[r] = "copy"
  /\ w \in Words \ copied[r]
  /\ \E i \in Readable(r, w) :
       /\ from' = [from EXCEPT ![r][w] = i]
       /\ cur' = [cur EXCEPT ![r][w] = i]
       /\ acq' = [acq EXCEPT ![r] = Merge(@, mem[w][i].view)]
  /\ copied' = [copied EXCEPT ![r] = @ \cup {w}]
  /\ UNCHANGED <<mem, writerVars, rpc, attempt, before, got>>

\* Mutant: the second load of the sequence may be satisfied early.
NoAcquireFence(r) == cur[r]

\* fence(Acquire): the views carried by the words loaded so far count.
FenceAcquire(r) == acq[r]

AcquireFence(r) ==
  /\ rpc[r] = "copy"
  /\ copied[r] = Words
  /\ cur' = [cur EXCEPT ![r] = FenceAcquire(r)]
  /\ rpc' = [rpc EXCEPT ![r] = "after"]
  /\ UNCHANGED <<mem, writerVars, attempt, before, from, copied, acq, got>>

\* The frame a reader has copied.
Copy(r) == [w \in Words |-> mem[w][from[r][w]].val]

\* The second, Relaxed load of the sequence decides whether to return it.
LoadAfter(r) ==
  /\ rpc[r] = "after"
  /\ \E i \in Readable(r, SequenceWord) :
       LET m == mem[SequenceWord][i]
       IN /\ cur' = [cur EXCEPT ![r][SequenceWord] = i]
          /\ acq' = [acq EXCEPT ![r] = Merge(@, m.view)]
          /\ \/ /\ m.val = before[r]
                /\ got' = [got EXCEPT ![r] = [sequence |-> before[r], words |-> Copy(r)]]
                /\ rpc' = [rpc EXCEPT ![r] = "idle"]
                /\ UNCHANGED attempt
             \/ /\ m.val # before[r]
                /\ Continue(r)
                /\ UNCHANGED got
  /\ UNCHANGED <<mem, writerVars, before, from, copied>>
-----------------------------------------------------------------------------
Writer == RejectFrame \/ StoreOdd \/ ReleaseFence \/ (\E w \in Words : StoreWord(w)) \/ StoreEven

Reader(r) == \/ ReadFrame(r) \/ LoadBefore(r) \/ (\E w \in Words : LoadWord(r, w))
             \/ AcquireFence(r) \/ LoadAfter(r)

Next == Writer \/ \E r \in Readers : Reader(r)

Spec == Init /\ [][Next]_vars
-----------------------------------------------------------------------------
\* The variables hold values of their kind; the retry loop stays in bounds.
TypeOK ==
  /\ mem \in [Locs -> Seq(Messages)]
  /\ wpc \in {"idle", "odd", "payload"}
  /\ frame \in Frames
  /\ left \in SUBSET Words
  /\ wCur \in Views
  /\ wRel \in Views
  /\ rejection_logged \in BOOLEAN
  /\ published \in Seq(Frames)
  /\ rpc \in [Readers -> {"idle", "before", "copy", "after"}]
  /\ attempt \in [Readers -> 1..READ_ATTEMPTS]
  /\ before \in [Readers -> Nat]
  /\ from \in [Readers -> [Words -> Nat]]
  /\ copied \in [Readers -> SUBSET Words]
  /\ cur \in [Readers -> Views]
  /\ acq \in [Readers -> Views]
  /\ got \in [Readers -> [sequence : Nat, words : Frames]]

\* A frame read_frame returned is one publish was given, whole, and its
\* sequence says which: no mix of two frames is ever served, whatever the
\* interleaving and whatever stale word a Relaxed load returns.
NoTornFrame ==
  \A r \in Readers :
    got[r].sequence # 0 =>
      \E i \in 1..Len(published) :
        got[r].sequence = 2 * i /\ got[r].words = published[i]

\* No reader is ever handed a NaN or an infinity.
NoNonFiniteServed ==
  \A r \in Readers, w \in FloatWords : got[r].words[w] \notin NonFinite

(***************************************************************************)
(* The argument, as an inductive invariant: n frames are published and the *)
(* history of each word is what n calls of publish, and the stores of a    *)
(* call under way, have made of it.                                        *)
(***************************************************************************)
HistoryInv ==
  LET n == Len(published)
  IN /\ wpc = "idle" => left = {}
     /\ Len(mem[SequenceWord]) = IF wpc = "idle" THEN 2 * n + 1 ELSE 2 * n + 2
     /\ \A w \in Words :
          Len(mem[w]) = IF wpc = "payload" /\ w \notin left THEN n + 2 ELSE n + 1
     /\ \A l \in Locs : wCur[l] = Len(mem[l]) /\ wRel[l] \in 1..Len(mem[l])
     /\ wpc = "payload" => wRel[SequenceWord] = Len(mem[SequenceWord])
     /\ wpc # "idle" => Finite(frame)

\* A message carries itself, and nothing that is not in memory yet.
ViewInv ==
  \A l \in Locs : \A k \in 1..Len(mem[l]) :
    /\ mem[l][k].view[l] = k
    /\ \A j \in Locs : mem[l][k].view[j] \in 1..Len(mem[j])

\* What the messages say: the k-th store of the sequence stores k-1, a word's
\* k-th store is that of frame k-1, and it carries the odd sequence of its
\* frame; an even sequence carries every word of its frame.
MessageInv ==
  /\ \A k \in 1..Len(mem[SequenceWord]) : mem[SequenceWord][k].val = k - 1
  /\ \A w \in Words : \A k \in 2..Len(mem[w]) :
       /\ mem[w][k].view[SequenceWord] >= 2 * (k - 1)
       /\ mem[w][k].val = IF k <= Len(published) + 1 THEN published[k - 1][w] ELSE frame[w]
  /\ \A i \in 1..Len(published) : \A w \in Words :
       mem[SequenceWord][2 * i + 1].view[w] >= i + 1
  /\ \A i \in 1..Len(published) : Finite(published[i])

\* A reader past its first load sees at least the frame that load named, and
\* the words it copied pin its view of the sequence to their frame.
CopyOK(r) ==
  \E i \in 1..Len(published) :
    /\ before[r] = 2 * i
    /\ \A w \in Words : cur[r][w] >= i + 1
    /\ \A w \in copied[r] : /\ from[r][w] \in (i + 1)..Len(mem[w])
                            /\ acq[r][SequenceWord] >= 2 * (from[r][w] - 1)

HeldFrameOK(r) ==
  IF got[r].sequence = 0
    THEN got[r].words = [w \in Words |-> Zero]
    ELSE \E i \in 1..Len(published) :
           got[r].sequence = 2 * i /\ got[r].words = published[i]

ReaderOK(r) ==
  /\ \A l \in Locs : 1 <= cur[r][l] /\ cur[r][l] <= acq[r][l] /\ acq[r][l] <= Len(mem[l])
  /\ got[r].sequence < cur[r][SequenceWord]
  /\ HeldFrameOK(r)
  /\ rpc[r] \in {"copy", "after"} =>
       got[r].sequence <= before[r] /\ before[r] < cur[r][SequenceWord] /\ CopyOK(r)
  /\ rpc[r] = "after" =>
       /\ copied[r] = Words
       /\ \A w \in Words : cur[r][SequenceWord] >= 2 * (from[r][w] - 1)

ReaderInv == \A r \in Readers : ReaderOK(r)

SeqlockInv == TypeOK /\ HistoryInv /\ ViewInv /\ MessageInv /\ ReaderInv

\* The lock and its orderings implement the register: published whole, read
\* whole, and no reader ever goes back to an older frame.
Register == INSTANCE FrameRegister WITH
  Readers <- Readers, Frames <- Frames, Finite <- Finite, published <- published, got <- got
ImplementsRegister == Register!Spec
=============================================================================
