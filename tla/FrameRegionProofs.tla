------------------------- MODULE FrameRegionProofs -------------------------
(***************************************************************************)
(* Proofs about the sequence lock of the frame region, for any number of   *)
(* readers, words, bit patterns, attempts and published frames.            *)
(***************************************************************************)
EXTENDS FrameRegion, TLAPS

\* What a store does to the history of its word and of the others.
LEMMA StoreFacts ==
  ASSUME mem \in [Locs -> Seq(Messages)],
         NEW l \in Locs, NEW val \in Nat, NEW view \in Views, Store(l, val, view)
  PROVE  /\ mem' \in [Locs -> Seq(Messages)]
         /\ Len(mem'[l]) = Len(mem[l]) + 1
         /\ \A j \in Locs \ {l} : mem'[j] = mem[j]
         /\ \A k \in 1..Len(mem[l]) : mem'[l][k] = mem[l][k]
         /\ mem'[l][Len(mem[l]) + 1].val = val
         /\ mem'[l][Len(mem[l]) + 1].view[l] = Len(mem[l]) + 1
         /\ \A j \in Locs \ {l} : mem'[l][Len(mem[l]) + 1].view[j] = view[j]
         /\ \A j \in Locs : /\ Len(mem[j]) \in Nat /\ Len(mem'[j]) \in Nat
                            /\ Len(mem'[j]) >= Len(mem[j])
<1> DEFINE m == [val |-> val, view |-> [view EXCEPT ![l] = Len(mem[l]) + 1]]
<1>1. mem[l] \in Seq(Messages) /\ Len(mem[l]) \in Nat
  OBVIOUS
<1>2. m \in Messages
  BY <1>1 DEF Messages, Views
<1>3. mem' = [mem EXCEPT ![l] = Append(mem[l], m)]
  BY DEF Store
<1>4. Append(mem[l], m) \in Seq(Messages)
  BY <1>1, <1>2
<1>5. mem'[l] = Append(mem[l], m)
  BY <1>3
<1>6. /\ Len(mem'[l]) = Len(mem[l]) + 1
      /\ \A k \in 1..Len(mem[l]) : mem'[l][k] = mem[l][k]
      /\ mem'[l][Len(mem[l]) + 1] = m
  BY <1>1, <1>2, <1>5
<1>7. m.val = val /\ m.view[l] = Len(mem[l]) + 1 /\ \A j \in Locs \ {l} : m.view[j] = view[j]
  BY DEF Views
<1>8. /\ mem' \in [Locs -> Seq(Messages)]
      /\ \A j \in Locs \ {l} : mem'[j] = mem[j]
  BY <1>3, <1>4
<1>9. ASSUME NEW j \in Locs
      PROVE  Len(mem[j]) \in Nat /\ Len(mem'[j]) \in Nat /\ Len(mem'[j]) >= Len(mem[j])
  <2>1. mem[j] \in Seq(Messages) /\ Len(mem[j]) \in Nat
    OBVIOUS
  <2>2. CASE j = l
    BY <2>1, <2>2, <1>6
  <2>3. CASE j # l
    BY <2>1, <2>3, <1>8
  <2> QED
    BY <2>2, <2>3
<1> QED
  BY <1>6, <1>7, <1>8, <1>9

\* A store whose view is in range keeps every view in range.
LEMMA StoreKeepsViews ==
  ASSUME mem \in [Locs -> Seq(Messages)], ViewInv,
         NEW l \in Locs, NEW val \in Nat, NEW view \in Views, Store(l, val, view),
         \A j \in Locs : view[j] \in 1..Len(mem[j])
  PROVE  ViewInv'
<1> SUFFICES ASSUME NEW h \in Locs, NEW k \in 1..Len(mem'[h])
             PROVE  /\ mem'[h][k].view[h] = k
                    /\ \A j \in Locs : mem'[h][k].view[j] \in 1..Len(mem'[j])
  BY DEF ViewInv
<1>1. /\ Len(mem'[l]) = Len(mem[l]) + 1
      /\ \A j \in Locs \ {l} : mem'[j] = mem[j]
      /\ \A i \in 1..Len(mem[l]) : mem'[l][i] = mem[l][i]
      /\ mem'[l][Len(mem[l]) + 1].view[l] = Len(mem[l]) + 1
      /\ \A j \in Locs \ {l} : mem'[l][Len(mem[l]) + 1].view[j] = view[j]
      /\ \A j \in Locs : /\ Len(mem[j]) \in Nat /\ Len(mem'[j]) \in Nat
                         /\ Len(mem'[j]) >= Len(mem[j])
  BY StoreFacts
<1>2. CASE h = l /\ k = Len(mem[l]) + 1
  <2>1. mem'[h][k].view[h] = k
    BY <1>1, <1>2
  <2>2. ASSUME NEW j \in Locs PROVE mem'[h][k].view[j] \in 1..Len(mem'[j])
    <3>1. CASE j = l
      BY <1>1, <1>2, <2>1, <3>1
    <3>2. CASE j # l
      BY <1>1, <1>2, <3>2
    <3> QED
      BY <3>1, <3>2
  <2> QED
    BY <2>1, <2>2
<1>3. CASE ~(h = l /\ k = Len(mem[l]) + 1)
  <2>1. k \in 1..Len(mem[h]) /\ mem'[h][k] = mem[h][k]
    <3>1. CASE h = l
      BY <1>1, <1>3, <3>1
    <3>2. CASE h # l
      BY <1>1, <3>2
    <3> QED
      BY <3>1, <3>2
  <2>2. \A j \in Locs : mem[h][k].view[j] \in 1..Len(mem[j])
    BY <2>1 DEF ViewInv
  <2> QED
    BY <1>1, <2>1, <2>2 DEF ViewInv
<1> QED
  BY <1>2, <1>3

\* Merging views takes the newer bound for every word.
LEMMA MergeFacts ==
  ASSUME NEW v \in Views, NEW u \in Views
  PROVE  /\ Merge(v, u) \in Views
         /\ \A l \in Locs : /\ Merge(v, u)[l] >= v[l]
                            /\ Merge(v, u)[l] >= u[l]
                            /\ Merge(v, u)[l] \in {v[l], u[l]}
BY DEF Merge, Views

\* A fresh mapping: one zero store per word, nobody in publish or read_frame.
LEMMA InitInv == Init => SeqlockInv
<1> SUFFICES ASSUME Init PROVE SeqlockInv
  OBVIOUS
<1> USE WordsAssumption, ValuesAssumption, BoundsAssumption DEF Init
<1>1. InitialView \in Views /\ \A l \in Locs : InitialView[l] = 1
  BY DEF InitialView, Views
<1>2. ASSUME NEW l \in Locs
      PROVE  /\ mem[l] \in Seq(Messages)
             /\ Len(mem[l]) = 1
             /\ mem[l][1].view = InitialView
  <2> DEFINE m == [val |-> IF l = SequenceWord THEN 0 ELSE Zero, view |-> InitialView]
  <2>1. m \in Messages
    BY <1>1 DEF Messages
  <2>2. mem[l] = <<m>>
    OBVIOUS
  <2> QED
    BY <2>1, <2>2
<1>3. mem[SequenceWord][1].val = 0 /\ SequenceWord \in Locs
  BY DEF Locs
<1>4. TypeOK
  <2>1. mem \in [Locs -> Seq(Messages)]
    BY <1>2
  <2>2. [w \in Words |-> Zero] \in Frames
    BY DEF Frames
  <2>3. got \in [Readers -> [sequence : Nat, words : Frames]]
    BY <2>2
  <2>4. published \in Seq(Frames)
    OBVIOUS
  <2>5. attempt \in [Readers -> 1..READ_ATTEMPTS]
    OBVIOUS
  <2>6. /\ rpc \in [Readers -> {"idle", "before", "copy", "after"}]
        /\ before \in [Readers -> Nat]
        /\ from \in [Readers -> [Words -> Nat]]
        /\ copied \in [Readers -> SUBSET Words]
        /\ cur \in [Readers -> Views]
        /\ acq \in [Readers -> Views]
    BY <1>1
  <2> QED
    BY <1>1, <2>1, <2>2, <2>3, <2>4, <2>5, <2>6 DEF TypeOK
<1>5. HistoryInv
  BY <1>1, <1>2, <1>3 DEF HistoryInv, Locs
<1>8. ViewInv
  BY <1>1, <1>2 DEF ViewInv
<1>6. MessageInv
  <2>1. Len(published) = 0
    OBVIOUS
  <2>2. \A w \in Words : w \in Locs
    BY DEF Locs
  <2>3. \A l \in Locs : \A k \in 1..Len(mem[l]) : k = 1
    BY <1>2
  <2> QED
    BY <1>1, <1>2, <1>3, <2>1, <2>2, <2>3 DEF MessageInv
<1>7. ReaderInv
  <2> SUFFICES ASSUME NEW r \in Readers
               PROVE  ReaderOK(r)
    BY DEF ReaderInv
  <2>1. got[r].sequence = 0 /\ got[r].words = [w \in Words |-> Zero] /\ rpc[r] = "idle"
    OBVIOUS
  <2>2. cur[r] = InitialView /\ acq[r] = InitialView
    OBVIOUS
  <2> QED
    BY <1>1, <1>2, <1>3, <2>1, <2>2 DEF ReaderOK, HeldFrameOK
<1> QED
  BY <1>4, <1>5, <1>6, <1>7, <1>8 DEF SeqlockInv

(***************************************************************************)
(* The writer's steps.  They only add to the histories, which is all the   *)
(* readers' part of the invariant depends on.                              *)
(***************************************************************************)
\* A step that only adds to the histories keeps the readers' part.
LEMMA WriterKeepsReaders ==
  ASSUME TypeOK, ReaderInv, UNCHANGED readerVars,
         mem' \in [Locs -> Seq(Messages)], published' \in Seq(Frames),
         \A l \in Locs : Len(mem'[l]) >= Len(mem[l]),
         Len(published') >= Len(published),
         \A i \in 1..Len(published) : published'[i] = published[i]
  PROVE  ReaderInv'
<1> SUFFICES ASSUME NEW r \in Readers
             PROVE  ReaderOK(r)'
  BY DEF ReaderInv
<1> USE DEF readerVars
<1>1. Len(published) \in Nat /\ Len(published') \in Nat
  BY DEF TypeOK
<1>2. \A l \in Locs : Len(mem[l]) \in Nat /\ Len(mem'[l]) \in Nat /\ acq[r][l] \in Nat
  BY DEF TypeOK, Views
<1>3. HeldFrameOK(r)'
  BY <1>1 DEF ReaderInv, ReaderOK, HeldFrameOK
<1>4. CopyOK(r) => CopyOK(r)'
  <2> SUFFICES ASSUME CopyOK(r) PROVE CopyOK(r)'
    OBVIOUS
  <2>1. PICK i \in 1..Len(published) : CopyOK(r)!(i)
    BY DEF CopyOK
  <2>2. i \in 1..Len(published')
    BY <1>1
  <2>3. \A w \in copied[r] : from[r][w] \in (i + 1)..Len(mem'[w])
    <3> SUFFICES ASSUME NEW w \in copied[r] PROVE from[r][w] \in (i + 1)..Len(mem'[w])
      OBVIOUS
    <3>1. w \in Locs
      BY DEF TypeOK, Locs
    <3> QED
      BY <2>1, <3>1, <1>2
  <2> QED
    BY <2>1, <2>2, <2>3 DEF CopyOK
<1>5. \A l \in Locs : 1 <= cur[r][l] /\ cur[r][l] <= acq[r][l] /\ acq[r][l] <= Len(mem'[l])
  BY <1>2 DEF ReaderInv, ReaderOK
<1> QED
  BY <1>3, <1>4, <1>5 DEF ReaderInv, ReaderOK

\* A rejected frame touches neither the mapping nor the readers.
LEMMA RejectFrameInv == SeqlockInv /\ RejectFrame => SeqlockInv'
<1> SUFFICES ASSUME SeqlockInv, RejectFrame PROVE SeqlockInv'
  OBVIOUS
<1> USE DEF SeqlockInv, RejectFrame
<1>1. TypeOK'
  BY DEF TypeOK, readerVars
<1>2. HistoryInv'
  BY DEF HistoryInv, Finite
<1>3. ViewInv' /\ MessageInv'
  BY DEF ViewInv, MessageInv, Finite
<1>4. ReaderInv'
  BY DEF ReaderInv, ReaderOK, HeldFrameOK, CopyOK, readerVars
<1> QED
  BY <1>1, <1>2, <1>3, <1>4

\* The value of the sequence the writer adds one to.
LEMMA StableFact ==
  ASSUME TypeOK, HistoryInv, MessageInv
  PROVE  /\ SequenceWord \in Locs
         /\ Len(mem[SequenceWord]) \in Nat \ {0}
         /\ Stable + 1 = Len(mem[SequenceWord])
<1>1. SequenceWord \in Locs
  BY DEF Locs
<1>2. Len(published) \in Nat /\ Len(mem[SequenceWord]) \in Nat
  BY <1>1 DEF TypeOK
<1>3. Len(mem[SequenceWord]) >= 1
  BY <1>2 DEF HistoryInv
<1> QED
  BY <1>1, <1>2, <1>3 DEF MessageInv, Stable

\* The first store of publish: the sequence becomes odd.
LEMMA StoreOddInv == SeqlockInv /\ StoreOdd => SeqlockInv'
<1> SUFFICES ASSUME TypeOK, HistoryInv, ViewInv, MessageInv, ReaderInv, StoreOdd
             PROVE  SeqlockInv'
  BY DEF SeqlockInv
<1> DEFINE n == Len(published)
           s == Len(mem[SequenceWord])
<1>1. /\ wpc = "idle" /\ wpc' = "odd"
      /\ UNCHANGED <<left, wRel, rejection_logged, published, readerVars>>
      /\ Store(SequenceWord, Stable + 1, wRel) /\ Stored(SequenceWord)
      /\ frame' \in Frames /\ Finite(frame')
  BY DEF StoreOdd
<1>2. /\ SequenceWord \in Locs /\ s \in Nat \ {0} /\ Stable + 1 = s /\ Stable + 1 \in Nat
      /\ n \in Nat /\ wRel \in Views
  BY StableFact DEF TypeOK
<1>3. /\ mem' \in [Locs -> Seq(Messages)]
      /\ Len(mem'[SequenceWord]) = s + 1
      /\ \A j \in Locs \ {SequenceWord} : mem'[j] = mem[j]
      /\ \A k \in 1..s : mem'[SequenceWord][k] = mem[SequenceWord][k]
      /\ mem'[SequenceWord][s + 1].val = s
      /\ \A j \in Locs : /\ Len(mem[j]) \in Nat /\ Len(mem'[j]) \in Nat
                         /\ Len(mem'[j]) >= Len(mem[j])
  <2>1. mem \in [Locs -> Seq(Messages)]
    BY DEF TypeOK
  <2> HIDE DEF s
  <2> QED
    BY <1>1, <1>2, <2>1, StoreFacts DEF s
<1>4. /\ wCur' = [wCur EXCEPT ![SequenceWord] = s + 1]
      /\ wCur' \in Views
  BY <1>1, <1>2 DEF Stored, TypeOK, Views
<1>5. \A w \in Words : w \in Locs /\ w # SequenceWord /\ mem'[w] = mem[w] /\ Len(mem[w]) = n + 1
  BY <1>1, <1>3, WordsAssumption DEF Locs, HistoryInv
<1>6. s = 2 * n + 1
  BY <1>1 DEF HistoryInv
<1>7. TypeOK'
  BY <1>1, <1>3, <1>4 DEF TypeOK, readerVars
<1>8. HistoryInv'
  <2>1. \A l \in Locs : wCur'[l] = Len(mem'[l]) /\ wRel'[l] \in 1..Len(mem'[l])
    BY <1>1, <1>2, <1>3, <1>4 DEF HistoryInv, TypeOK, Views
  <2>2. Finite(frame)'
    BY <1>1 DEF Finite
  <2> QED
    BY <1>1, <1>3, <1>5, <1>6, <2>1, <2>2 DEF HistoryInv
<1>9. ViewInv'
  BY <1>1, <1>2, StoreKeepsViews DEF TypeOK, HistoryInv
<1>10. MessageInv'
  <2>2. ASSUME NEW k \in 1..Len(mem'[SequenceWord])
        PROVE  mem'[SequenceWord][k].val = k - 1
    <3>1. CASE k = s + 1
      BY <1>2, <1>3, <3>1
    <3>2. CASE k # s + 1
      <4>1. k \in 1..s
        BY <1>2, <1>3, <3>2
      <4> QED
        BY <1>3, <4>1 DEF MessageInv
    <3> QED
      BY <3>1, <3>2
  <2>3. \A w \in Words : \A k \in 2..Len(mem'[w]) :
          /\ mem'[w][k].view[SequenceWord] >= 2 * (k - 1)
          /\ mem'[w][k].val = IF k <= Len(published') + 1 THEN published'[k - 1][w] ELSE frame'[w]
    BY <1>1, <1>2, <1>5 DEF MessageInv
  <2>4. \A i \in 1..Len(published') : \A w \in Words :
          mem'[SequenceWord][2 * i + 1].view[w] >= i + 1
    <3> SUFFICES ASSUME NEW i \in 1..n, NEW w \in Words
                 PROVE  mem'[SequenceWord][2 * i + 1].view[w] >= i + 1
      BY <1>1
    <3>1. 2 * i + 1 \in 1..s
      BY <1>2, <1>6
    <3> QED
      BY <1>3, <3>1 DEF MessageInv
  <2>5. \A i \in 1..Len(published') : Finite(published'[i])
    BY <1>1 DEF MessageInv
  <2> QED
    BY <2>2, <2>3, <2>4, <2>5 DEF MessageInv, Finite
<1>11. ReaderInv'
  <2>1. published' = published /\ published \in Seq(Frames)
    BY <1>1 DEF TypeOK
  <2> QED
    BY <1>1, <1>2, <1>3, <2>1, WriterKeepsReaders
<1> QED
  BY <1>7, <1>8, <1>9, <1>10, <1>11 DEF SeqlockInv

\* After the fence every payload store carries the odd sequence.
LEMMA ReleaseFenceInv == SeqlockInv /\ ReleaseFence => SeqlockInv'
<1> SUFFICES ASSUME TypeOK, HistoryInv, ViewInv, MessageInv, ReaderInv, ReleaseFence
             PROVE  SeqlockInv'
  BY DEF SeqlockInv
<1>1. /\ wpc = "odd" /\ wpc' = "payload" /\ wRel' = wCur /\ left' = Words
      /\ UNCHANGED <<mem, frame, wCur, rejection_logged, published, readerVars>>
  BY DEF ReleaseFence, FenceRelease
<1>2. TypeOK'
  BY <1>1 DEF TypeOK, readerVars
<1>3. HistoryInv'
  <2>1. \A l \in Locs : Len(mem[l]) \in Nat /\ wRel[l] \in 1..Len(mem[l]) /\ wCur[l] = Len(mem[l])
    BY DEF TypeOK, HistoryInv
  <2>2. \A l \in Locs : wCur'[l] = Len(mem'[l]) /\ wRel'[l] \in 1..Len(mem'[l])
    BY <1>1, <2>1
  <2>3. SequenceWord \in Locs
    BY DEF Locs
  <2>4. Finite(frame)'
    BY <1>1 DEF HistoryInv, Finite
  <2> QED
    BY <1>1, <2>1, <2>2, <2>3, <2>4 DEF HistoryInv
<1>4. ViewInv' /\ MessageInv'
  BY <1>1 DEF ViewInv, MessageInv, Finite
<1>5. ReaderInv'
  BY <1>1 DEF ReaderInv, ReaderOK, HeldFrameOK, CopyOK, readerVars
<1> QED
  BY <1>2, <1>3, <1>4, <1>5 DEF SeqlockInv

\* One payload store: the word's history grows by its frame's value.
LEMMA StoreWordInv ==
  ASSUME SeqlockInv, NEW w \in Words, StoreWord(w)
  PROVE  SeqlockInv'
<1> DEFINE n == Len(published)
           s == Len(mem[SequenceWord])
<1>0. TypeOK /\ HistoryInv /\ ViewInv /\ MessageInv /\ ReaderInv
  BY DEF SeqlockInv
<1>1. /\ wpc = "payload" /\ wpc' = wpc /\ w \in left /\ left' = left \ {w}
      /\ UNCHANGED <<frame, wRel, rejection_logged, published, readerVars>>
      /\ Store(w, frame[w], wRel) /\ Stored(w)
  BY DEF StoreWord
<1>2. /\ w \in Locs /\ SequenceWord \in Locs /\ w # SequenceWord
      /\ frame[w] \in Nat /\ wRel \in Views /\ mem \in [Locs -> Seq(Messages)]
      /\ n \in Nat
  <2>1. w \in Locs /\ SequenceWord \in Locs /\ w # SequenceWord
    BY WordsAssumption DEF Locs
  <2>2. frame[w] \in Nat
    BY <1>0, ValuesAssumption DEF TypeOK, Frames
  <2> QED
    BY <1>0, <2>1, <2>2 DEF TypeOK
<1>3. /\ Len(mem[w]) = n + 1 /\ s = 2 * n + 2
      /\ wRel[SequenceWord] = s
  <2>1. wpc # "idle"
    BY <1>1
  <2> QED
    BY <1>0, <1>1, <2>1 DEF HistoryInv
<1>4. /\ mem' \in [Locs -> Seq(Messages)]
      /\ Len(mem'[w]) = n + 2
      /\ \A j \in Locs \ {w} : mem'[j] = mem[j]
      /\ \A k \in 1..(n + 1) : mem'[w][k] = mem[w][k]
      /\ mem'[w][n + 2].val = frame[w]
      /\ mem'[w][n + 2].view[SequenceWord] = s
      /\ \A j \in Locs : /\ Len(mem[j]) \in Nat /\ Len(mem'[j]) \in Nat
                         /\ Len(mem'[j]) >= Len(mem[j])
  <2>1. /\ mem' \in [Locs -> Seq(Messages)]
        /\ Len(mem'[w]) = Len(mem[w]) + 1
        /\ \A j \in Locs \ {w} : mem'[j] = mem[j]
        /\ \A k \in 1..Len(mem[w]) : mem'[w][k] = mem[w][k]
        /\ mem'[w][Len(mem[w]) + 1].val = frame[w]
        /\ \A j \in Locs \ {w} : mem'[w][Len(mem[w]) + 1].view[j] = wRel[j]
        /\ \A j \in Locs : /\ Len(mem[j]) \in Nat /\ Len(mem'[j]) \in Nat
                           /\ Len(mem'[j]) >= Len(mem[j])
    BY <1>1, <1>2, StoreFacts
  <2>2. Len(mem[w]) + 1 = n + 2
    BY <1>2, <1>3
  <2> QED
    BY <1>2, <1>3, <2>1, <2>2
<1>5. /\ wCur' = [wCur EXCEPT ![w] = n + 2]
      /\ wCur' \in Views
  BY <1>0, <1>1, <1>2, <1>3 DEF Stored, TypeOK, Views
<1>6. TypeOK'
  BY <1>0, <1>1, <1>4, <1>5 DEF TypeOK, readerVars
<1>7. HistoryInv'
  <2>1. \A l \in Locs : wCur'[l] = Len(mem'[l]) /\ wRel'[l] \in 1..Len(mem'[l])
    <3> SUFFICES ASSUME NEW l \in Locs
                 PROVE  wCur'[l] = Len(mem'[l]) /\ wRel'[l] \in 1..Len(mem'[l])
      OBVIOUS
    <3>1. wCur[l] = Len(mem[l]) /\ wRel[l] \in 1..Len(mem[l]) /\ wCur \in [Locs -> Nat]
      BY <1>0 DEF HistoryInv, TypeOK, Views
    <3>2. CASE l = w
      BY <1>1, <1>2, <1>4, <1>5, <3>1, <3>2
    <3>3. CASE l # w
      BY <1>1, <1>2, <1>4, <1>5, <3>1, <3>3
    <3> QED
      BY <3>2, <3>3
  <2>2. mem'[SequenceWord] = mem[SequenceWord]
    BY <1>2, <1>4
  <2>3. \A v \in Words : Len(mem'[v]) = IF v \notin left' THEN n + 2 ELSE n + 1
    <3> SUFFICES ASSUME NEW v \in Words
                 PROVE  Len(mem'[v]) = IF v \notin left' THEN n + 2 ELSE n + 1
      OBVIOUS
    <3>1. CASE v = w
      BY <1>1, <1>4, <3>1
    <3>2. CASE v # w
      BY <1>0, <1>1, <1>4, <3>2 DEF HistoryInv, Locs
    <3> QED
      BY <3>1, <3>2
  <2>4. Finite(frame)'
    BY <1>0, <1>1 DEF HistoryInv, Finite
  <2> QED
    BY <1>1, <1>3, <2>1, <2>2, <2>3, <2>4 DEF HistoryInv
<1>8. ViewInv'
  BY <1>0, <1>1, <1>2, StoreKeepsViews DEF HistoryInv
<1>9. MessageInv'
  <2>1. mem'[SequenceWord] = mem[SequenceWord]
    BY <1>2, <1>4
  <2>2. ASSUME NEW v \in Words, NEW k \in 2..Len(mem'[v])
        PROVE  /\ mem'[v][k].view[SequenceWord] >= 2 * (k - 1)
               /\ mem'[v][k].val = IF k <= n + 1 THEN published[k - 1][v] ELSE frame[v]
    <3>1. CASE v = w /\ k = n + 2
      BY <1>2, <1>3, <1>4, <3>1
    <3>2. CASE ~(v = w /\ k = n + 2)
      <4>1. k \in 2..Len(mem[v]) /\ mem'[v][k] = mem[v][k]
        <5>1. CASE v = w
          BY <1>2, <1>3, <1>4, <3>2, <5>1
        <5>2. CASE v # w
          BY <1>4, <5>2 DEF Locs
        <5> QED
          BY <5>1, <5>2
      <4> QED
        BY <1>0, <4>1 DEF MessageInv
    <3> QED
      BY <3>1, <3>2
  <2> QED
    BY <1>0, <1>1, <2>1, <2>2 DEF MessageInv, Finite
<1>10. ReaderInv'
  <2>1. published' = published /\ published \in Seq(Frames)
    BY <1>0, <1>1 DEF TypeOK
  <2> QED
    BY <1>0, <1>1, <1>2, <1>4, <2>1, WriterKeepsReaders
<1> QED
  BY <1>6, <1>7, <1>8, <1>9, <1>10 DEF SeqlockInv

\* The last store of publish: an even sequence that carries every word.
LEMMA StoreEvenInv == SeqlockInv /\ StoreEven => SeqlockInv'
<1> SUFFICES ASSUME TypeOK, HistoryInv, ViewInv, MessageInv, ReaderInv, StoreEven
             PROVE  SeqlockInv'
  BY DEF SeqlockInv
<1> DEFINE n == Len(published)
           s == Len(mem[SequenceWord])
<1>1. /\ wpc = "payload" /\ wpc' = "idle" /\ left = {}
      /\ UNCHANGED <<frame, left, wRel, rejection_logged, readerVars>>
      /\ published' = Append(published, frame)
      /\ Store(SequenceWord, Stable + 1, wCur) /\ Stored(SequenceWord)
  BY DEF StoreEven, EvenStoreView
<1>2. /\ SequenceWord \in Locs /\ s \in Nat \ {0} /\ Stable + 1 = s /\ Stable + 1 \in Nat
      /\ n \in Nat /\ wCur \in Views /\ mem \in [Locs -> Seq(Messages)]
  BY StableFact DEF TypeOK
<1>3. /\ mem' \in [Locs -> Seq(Messages)]
      /\ Len(mem'[SequenceWord]) = s + 1
      /\ \A j \in Locs \ {SequenceWord} : mem'[j] = mem[j]
      /\ \A k \in 1..s : mem'[SequenceWord][k] = mem[SequenceWord][k]
      /\ mem'[SequenceWord][s + 1].val = s
      /\ \A j \in Locs \ {SequenceWord} : mem'[SequenceWord][s + 1].view[j] = wCur[j]
      /\ \A j \in Locs : /\ Len(mem[j]) \in Nat /\ Len(mem'[j]) \in Nat
                         /\ Len(mem'[j]) >= Len(mem[j])
  <2> HIDE DEF s
  <2> QED
    BY <1>1, <1>2, StoreFacts DEF s
<1>4. /\ wCur' = [wCur EXCEPT ![SequenceWord] = s + 1]
      /\ wCur' \in Views
  BY <1>1, <1>2 DEF Stored, Views
<1>5. \A w \in Words : w \in Locs /\ w # SequenceWord /\ mem'[w] = mem[w] /\ Len(mem[w]) = n + 2
  BY <1>1, <1>3, WordsAssumption DEF Locs, HistoryInv
<1>6. s = 2 * n + 2 /\ Finite(frame)
  BY <1>1 DEF HistoryInv
<1>7. /\ published' \in Seq(Frames) /\ Len(published') = n + 1 /\ published'[n + 1] = frame
      /\ \A i \in 1..n : published'[i] = published[i]
  BY <1>1, <1>2 DEF TypeOK
<1>8. TypeOK'
  BY <1>1, <1>3, <1>4, <1>7 DEF TypeOK, readerVars
<1>9. HistoryInv'
  <2>1. \A l \in Locs : wCur'[l] = Len(mem'[l]) /\ wRel'[l] \in 1..Len(mem'[l])
    BY <1>1, <1>2, <1>3, <1>4 DEF HistoryInv, TypeOK, Views
  <2> QED
    BY <1>1, <1>2, <1>3, <1>5, <1>6, <1>7, <2>1 DEF HistoryInv
<1>10. ViewInv'
  <2>1. \A j \in Locs : wCur[j] \in 1..Len(mem[j])
    BY <1>2, <1>3 DEF HistoryInv
  <2> QED
    BY <1>1, <1>2, <2>1, StoreKeepsViews
<1>11. MessageInv'
  <2>1. ASSUME NEW k \in 1..Len(mem'[SequenceWord])
        PROVE  mem'[SequenceWord][k].val = k - 1
    <3>1. CASE k = s + 1
      BY <1>2, <1>3, <3>1
    <3>2. CASE k # s + 1
      <4>1. k \in 1..s
        BY <1>2, <1>3, <3>2
      <4> QED
        BY <1>3, <4>1 DEF MessageInv
    <3> QED
      BY <3>1, <3>2
  <2>2. ASSUME NEW w \in Words, NEW k \in 2..Len(mem'[w])
        PROVE  /\ mem'[w][k].view[SequenceWord] >= 2 * (k - 1)
               /\ mem'[w][k].val = IF k <= Len(published') + 1 THEN published'[k - 1][w] ELSE frame'[w]
    <3>1. k \in 2..(n + 2) /\ k \in 2..Len(mem[w]) /\ mem'[w][k] = mem[w][k]
      BY <1>5
    <3>2. /\ mem[w][k].view[SequenceWord] >= 2 * (k - 1)
          /\ mem[w][k].val = IF k <= n + 1 THEN published[k - 1][w] ELSE frame[w]
      BY <3>1 DEF MessageInv
    <3>3. mem[w][k].val = published'[k - 1][w]
      <4>1. CASE k = n + 2
        BY <1>2, <1>7, <3>2, <4>1
      <4>2. CASE k # n + 2
        BY <1>2, <1>7, <3>1, <3>2, <4>2
      <4> QED
        BY <4>1, <4>2
    <3> QED
      BY <1>2, <1>7, <3>1, <3>2, <3>3
  <2>3. ASSUME NEW i \in 1..Len(published'), NEW w \in Words
        PROVE  mem'[SequenceWord][2 * i + 1].view[w] >= i + 1
    <3>1. CASE i = n + 1
      <4>1. 2 * i + 1 = s + 1
        BY <1>2, <1>6, <3>1
      <4>2. wCur[w] = n + 2
        BY <1>5 DEF HistoryInv
      <4>3. mem'[SequenceWord][2 * i + 1].view[w] = n + 2
        BY <1>3, <1>5, <4>1, <4>2
      <4> QED
        BY <1>2, <3>1, <4>3
    <3>2. CASE i # n + 1
      <4>1. i \in 1..n /\ 2 * i + 1 \in 1..s
        BY <1>2, <1>6, <1>7, <3>2
      <4> QED
        BY <1>3, <4>1 DEF MessageInv
    <3> QED
      BY <3>1, <3>2
  <2>4. ASSUME NEW i \in 1..Len(published') PROVE Finite(published'[i])
    <3>1. CASE i = n + 1
      BY <1>6, <1>7, <3>1
    <3>2. CASE i # n + 1
      BY <1>2, <1>7, <3>2 DEF MessageInv
    <3> QED
      BY <3>1, <3>2
  <2> QED
    BY <2>1, <2>2, <2>3, <2>4 DEF MessageInv, Finite
<1>12. ReaderInv'
  BY <1>1, <1>2, <1>3, <1>7, WriterKeepsReaders
<1> QED
  BY <1>8, <1>9, <1>10, <1>11, <1>12 DEF SeqlockInv

(***************************************************************************)
(* The readers' steps change nothing but the reader that takes them.       *)
(***************************************************************************)
\* A step of one reader that keeps its own part keeps the invariant.
LEMMA ReaderStep ==
  ASSUME SeqlockInv, NEW r \in Readers, UNCHANGED <<mem, writerVars>>, TypeOK',
         \A q \in Readers \ {r} :
           /\ rpc'[q] = rpc[q] /\ before'[q] = before[q] /\ from'[q] = from[q]
           /\ copied'[q] = copied[q] /\ cur'[q] = cur[q] /\ acq'[q] = acq[q] /\ got'[q] = got[q],
         ReaderOK(r)'
  PROVE  SeqlockInv'
<1>1. HistoryInv' /\ ViewInv' /\ MessageInv'
  BY DEF SeqlockInv, writerVars, HistoryInv, ViewInv, MessageInv, Finite
<1>2. ASSUME NEW q \in Readers \ {r} PROVE ReaderOK(q)'
  <2>1. ReaderOK(q) /\ UNCHANGED <<mem, published>>
    BY DEF SeqlockInv, ReaderInv, writerVars
  <2>2. /\ rpc'[q] = rpc[q] /\ before'[q] = before[q] /\ from'[q] = from[q]
        /\ copied'[q] = copied[q] /\ cur'[q] = cur[q] /\ acq'[q] = acq[q] /\ got'[q] = got[q]
    OBVIOUS
  <2>3. HeldFrameOK(q)'
    BY <2>1, <2>2 DEF ReaderOK, HeldFrameOK
  <2>4. CopyOK(q) => CopyOK(q)'
    BY <2>1, <2>2 DEF CopyOK
  <2> QED
    BY <2>1, <2>2, <2>3, <2>4 DEF ReaderOK
<1>3. ReaderInv'
  BY <1>2 DEF ReaderInv
<1> QED
  BY <1>1, <1>3 DEF SeqlockInv

\* Entering read_frame resets only the reader's program counter and attempt.
LEMMA ReadFrameInv ==
  ASSUME SeqlockInv, NEW r \in Readers, ReadFrame(r)
  PROVE  SeqlockInv'
<1>1. TypeOK'
  BY BoundsAssumption DEF SeqlockInv, ReadFrame, TypeOK, writerVars
<1>2. ReaderOK(r)'
  <2>1. ReaderOK(r) /\ rpc'[r] = "before" /\ UNCHANGED <<mem, published, got, cur, acq>>
    BY DEF SeqlockInv, TypeOK, ReaderInv, ReadFrame, writerVars
  <2> QED
    BY <2>1 DEF ReaderOK, HeldFrameOK
<1> QED
  BY <1>1, <1>2, ReaderStep DEF ReadFrame, SeqlockInv, TypeOK

\* The retry loop goes round or gives up, and touches nothing else.
LEMMA ContinueFacts ==
  ASSUME TypeOK, NEW r \in Readers, Continue(r)
  PROVE  /\ attempt' \in [Readers -> 1..READ_ATTEMPTS]
         /\ rpc' \in [Readers -> {"idle", "before", "copy", "after"}]
         /\ rpc'[r] \in {"idle", "before"}
         /\ \A q \in Readers \ {r} : rpc'[q] = rpc[q]
<1>1. CASE attempt[r] < READ_ATTEMPTS
  <2>1. attempt' = [attempt EXCEPT ![r] = attempt[r] + 1] /\ rpc' = [rpc EXCEPT ![r] = "before"]
    BY <1>1 DEF Continue
  <2>2. attempt[r] + 1 \in 1..READ_ATTEMPTS
    BY <1>1, BoundsAssumption DEF TypeOK
  <2> QED
    BY <2>1, <2>2 DEF TypeOK
<1>2. CASE ~(attempt[r] < READ_ATTEMPTS)
  <2>1. attempt' = attempt /\ rpc' = [rpc EXCEPT ![r] = "idle"]
    BY <1>2 DEF Continue
  <2> QED
    BY <2>1 DEF TypeOK
<1> QED
  BY <1>1, <1>2

\* A view merged with that of a message in memory is still in range.
LEMMA MergeInRange ==
  ASSUME TypeOK, ViewInv, NEW v \in Views, NEW l \in Locs, NEW k \in 1..Len(mem[l]),
         \A j \in Locs : 1 <= v[j] /\ v[j] <= Len(mem[j])
  PROVE  /\ mem[l][k] \in Messages /\ mem[l][k].view \in Views /\ mem[l][k].val \in Nat
         /\ Merge(v, mem[l][k].view) \in Views
         /\ Merge(v, mem[l][k].view)[l] >= k
         /\ \A j \in Locs : /\ Merge(v, mem[l][k].view)[j] >= v[j]
                            /\ Merge(v, mem[l][k].view)[j] >= mem[l][k].view[j]
                            /\ 1 <= Merge(v, mem[l][k].view)[j]
                            /\ Merge(v, mem[l][k].view)[j] <= Len(mem[j])
<1> DEFINE u == mem[l][k].view
<1>1. mem[l][k] \in Messages
  BY DEF TypeOK
<1>2. u \in Views /\ mem[l][k].val \in Nat
  BY <1>1 DEF Messages
<1>3. u[l] = k /\ \A j \in Locs : u[j] \in 1..Len(mem[j])
  BY DEF ViewInv
<1>4. \A j \in Locs : Len(mem[j]) \in Nat /\ v[j] \in Nat /\ u[j] \in Nat
  BY <1>2 DEF TypeOK, Views
<1> HIDE DEF u
<1>5. /\ Merge(v, u) \in Views
      /\ \A j \in Locs : /\ Merge(v, u)[j] >= v[j]
                         /\ Merge(v, u)[j] >= u[j]
                         /\ Merge(v, u)[j] \in {v[j], u[j]}
  BY <1>2, MergeFacts
<1>6. \A j \in Locs : 1 <= Merge(v, u)[j] /\ Merge(v, u)[j] <= Len(mem[j])
  BY <1>3, <1>4, <1>5
<1> QED
  BY <1>1, <1>2, <1>3, <1>5, <1>6 DEF u

\* Merging the same view into two views keeps their order.
LEMMA MergeMonotone ==
  ASSUME NEW v \in Views, NEW u \in Views, NEW m \in Views, \A j \in Locs : v[j] <= u[j]
  PROVE  \A j \in Locs : Merge(v, m)[j] <= Merge(u, m)[j]
BY DEF Merge, Views

\* An even sequence that is not zero names a frame.
LEMMA EvenIsDouble ==
  ASSUME NEW x \in Nat, x % 2 = 0
  PROVE  \E k \in Nat : x = 2 * k
OBVIOUS

\* The Acquire load of the sequence brings every word of the frame it names.
LEMMA LoadBeforeInv ==
  ASSUME SeqlockInv, NEW r \in Readers, LoadBefore(r)
  PROVE  SeqlockInv'
<1>0. TypeOK /\ HistoryInv /\ ViewInv /\ MessageInv /\ ReaderOK(r)
  BY DEF SeqlockInv, ReaderInv
<1> DEFINE S == SequenceWord
           n == Len(published)
<1>1. PICK i \in Readable(r, S) :
        LET m == mem[S][i]
        IN /\ cur' = [cur EXCEPT ![r] = Merge(@, m.view)]
           /\ acq' = [acq EXCEPT ![r] = Merge(@, m.view)]
           /\ before' = [before EXCEPT ![r] = m.val]
           /\ \/ /\ m.val = 0
                 /\ rpc' = [rpc EXCEPT ![r] = "idle"]
                 /\ UNCHANGED <<attempt, copied>>
              \/ /\ m.val % 2 = 1
                 /\ Continue(r)
                 /\ UNCHANGED copied
              \/ /\ m.val # 0 /\ m.val % 2 = 0
                 /\ rpc' = [rpc EXCEPT ![r] = "copy"]
                 /\ copied' = [copied EXCEPT ![r] = {}]
                 /\ UNCHANGED attempt
  BY DEF LoadBefore
<1> DEFINE v == mem[S][i].view
<1>2. /\ UNCHANGED <<mem, writerVars, from, got>> /\ published' = published
  BY DEF LoadBefore, writerVars
<1>3. /\ S \in Locs /\ cur[r] \in Views /\ acq[r] \in Views /\ n \in Nat
      /\ \A l \in Locs : Len(mem[l]) \in Nat
  BY <1>0 DEF TypeOK, Locs
<1>4. /\ \A l \in Locs : 1 <= cur[r][l] /\ cur[r][l] <= acq[r][l] /\ acq[r][l] <= Len(mem[l])
      /\ \A l \in Locs : cur[r][l] \in Nat /\ acq[r][l] \in Nat
  BY <1>0, <1>3 DEF ReaderOK, Views
<1>5. i \in 1..Len(mem[S]) /\ i >= cur[r][S]
  BY <1>3, <1>4 DEF Readable
<1>6. /\ v \in Views /\ mem[S][i].val = i - 1 /\ mem[S][i].val \in Nat
      /\ Merge(cur[r], v) \in Views /\ Merge(cur[r], v)[S] >= i
      /\ \A j \in Locs : /\ Merge(cur[r], v)[j] >= cur[r][j] /\ Merge(cur[r], v)[j] >= v[j]
                         /\ 1 <= Merge(cur[r], v)[j]
  <2>1. \A j \in Locs : 1 <= cur[r][j] /\ cur[r][j] <= Len(mem[j])
    BY <1>3, <1>4
  <2>2. mem[S][i].val = i - 1
    BY <1>0, <1>5 DEF MessageInv
  <2> QED
    BY <1>0, <1>3, <1>5, <2>1, <2>2, MergeInRange
<1>7. /\ Merge(acq[r], v) \in Views
      /\ \A j \in Locs : Merge(acq[r], v)[j] <= Len(mem[j])
  <2>1. \A j \in Locs : 1 <= acq[r][j] /\ acq[r][j] <= Len(mem[j])
    BY <1>3, <1>4
  <2> QED
    BY <1>0, <1>3, <1>5, <2>1, MergeInRange
<1>8. \A j \in Locs : Merge(cur[r], v)[j] <= Merge(acq[r], v)[j]
  BY <1>3, <1>4, <1>6, MergeMonotone
<1>9. /\ cur' = [cur EXCEPT ![r] = Merge(cur[r], v)]
      /\ acq' = [acq EXCEPT ![r] = Merge(acq[r], v)]
      /\ before' = [before EXCEPT ![r] = i - 1]
  BY <1>1, <1>6
<1> HIDE DEF v
<1>10. /\ cur'[r] = Merge(cur[r], v) /\ acq'[r] = Merge(acq[r], v) /\ before'[r] = i - 1
       /\ cur' \in [Readers -> Views] /\ acq' \in [Readers -> Views]
       /\ before' \in [Readers -> Nat]
       /\ \A q \in Readers \ {r} : cur'[q] = cur[q] /\ acq'[q] = acq[q] /\ before'[q] = before[q]
  BY <1>0, <1>5, <1>6, <1>7, <1>9 DEF TypeOK
<1>11. \/ /\ rpc'[r] \in {"idle", "before"} /\ copied' = copied
       \/ /\ (i - 1) % 2 = 0 /\ i # 1 /\ rpc'[r] = "copy" /\ copied'[r] = {}
  <2>1. CASE mem[S][i].val = 0 /\ rpc' = [rpc EXCEPT ![r] = "idle"] /\ UNCHANGED copied
    BY <1>0, <2>1 DEF TypeOK
  <2>2. CASE Continue(r) /\ UNCHANGED copied
    BY <1>0, <2>2, ContinueFacts
  <2>3. CASE /\ mem[S][i].val # 0 /\ mem[S][i].val % 2 = 0
             /\ rpc' = [rpc EXCEPT ![r] = "copy"] /\ copied' = [copied EXCEPT ![r] = {}]
    <3>1. i # 1 /\ (i - 1) % 2 = 0
      BY <1>5, <1>6, <2>3
    <3> QED
      BY <1>0, <2>3, <3>1 DEF TypeOK
  <2> QED
    BY <1>1, <2>1, <2>2, <2>3
<1>12. /\ attempt' \in [Readers -> 1..READ_ATTEMPTS]
       /\ rpc' \in [Readers -> {"idle", "before", "copy", "after"}]
       /\ copied' \in [Readers -> SUBSET Words]
       /\ \A q \in Readers \ {r} : rpc'[q] = rpc[q] /\ copied'[q] = copied[q]
  <2>1. CASE rpc' = [rpc EXCEPT ![r] = "idle"] /\ UNCHANGED <<attempt, copied>>
    BY <1>0, <2>1 DEF TypeOK
  <2>2. CASE Continue(r) /\ UNCHANGED copied
    BY <1>0, <2>2, ContinueFacts DEF TypeOK
  <2>3. CASE /\ rpc' = [rpc EXCEPT ![r] = "copy"] /\ copied' = [copied EXCEPT ![r] = {}]
             /\ UNCHANGED attempt
    BY <1>0, <2>3 DEF TypeOK
  <2> QED
    BY <1>1, <2>1, <2>2, <2>3
<1>13. TypeOK'
  BY <1>0, <1>2, <1>10, <1>12 DEF TypeOK, writerVars
<1>14. ReaderOK(r)'
  <2>1. /\ \A l \in Locs : 1 <= cur'[r][l] /\ cur'[r][l] <= acq'[r][l] /\ acq'[r][l] <= Len(mem'[l])
        /\ got'[r].sequence < cur'[r][S]
    <3>1. got[r].sequence < cur[r][S] /\ got[r].sequence \in Nat
      BY <1>0 DEF ReaderOK, TypeOK
    <3>2. Merge(cur[r], v)[S] \in Nat /\ Merge(cur[r], v)[S] >= cur[r][S]
      BY <1>3, <1>6 DEF Views
    <3>3. got'[r].sequence < cur'[r][S]
      BY <1>2, <1>3, <1>4, <1>10, <3>1, <3>2
    <3>4. mem' = mem
      BY <1>2
    <3> QED
      BY <1>6, <1>7, <1>8, <1>10, <3>3, <3>4
  <2>2. HeldFrameOK(r)'
    BY <1>0, <1>2 DEF ReaderOK, HeldFrameOK
  <2>3. ASSUME rpc'[r] \in {"copy", "after"}
        PROVE  /\ got'[r].sequence <= before'[r] /\ before'[r] < cur'[r][S]
               /\ CopyOK(r)'
    <3>1. (i - 1) % 2 = 0 /\ i # 1 /\ copied'[r] = {}
      BY <1>11, <2>3
    <3>2. PICK k \in Nat : i - 1 = 2 * k
      BY <1>5, <1>6, <3>1, EvenIsDouble
    <3>3. k \in 1..n /\ i = 2 * k + 1
      <4>1. Len(mem[S]) <= 2 * n + 2
        BY <1>0, <1>3 DEF HistoryInv
      <4> QED
        BY <1>3, <1>5, <3>1, <3>2, <4>1
    <3>4. ASSUME NEW w \in Words PROVE cur'[r][w] >= k + 1
      <4>1. v[w] >= k + 1 /\ w \in Locs
        BY <1>0, <3>3 DEF MessageInv, v, Locs
      <4>2. Merge(cur[r], v)[w] \in Nat /\ v[w] \in Nat
        BY <1>6, <4>1 DEF Views
      <4> QED
        BY <1>6, <1>10, <3>3, <4>1, <4>2
    <3>5. CopyOK(r)'
      BY <1>2, <1>10, <3>1, <3>2, <3>3, <3>4 DEF CopyOK
    <3>6. before'[r] < cur'[r][S]
      BY <1>3, <1>5, <1>6, <1>10 DEF Views
    <3>7. got'[r].sequence <= before'[r]
      <4>1. got[r].sequence < cur[r][S] /\ got[r].sequence \in Nat
        BY <1>0 DEF ReaderOK, TypeOK
      <4> QED
        BY <1>2, <1>3, <1>4, <1>5, <1>10, <4>1
    <3> QED
      BY <3>5, <3>6, <3>7
  <2>4. rpc'[r] # "after"
    BY <1>11
  <2> QED
    BY <2>1, <2>2, <2>3, <2>4 DEF ReaderOK
<1> QED
  BY <1>2, <1>10, <1>12, <1>13, <1>14, ReaderStep

\* A Relaxed load pins the reader's view of the sequence to the word's frame.
LEMMA LoadWordInv ==
  ASSUME SeqlockInv, NEW r \in Readers, NEW w \in Words, LoadWord(r, w)
  PROVE  SeqlockInv'
<1>0. TypeOK /\ HistoryInv /\ ViewInv /\ MessageInv /\ ReaderOK(r)
  BY DEF SeqlockInv, ReaderInv
<1> DEFINE S == SequenceWord
           n == Len(published)
<1>1. PICK i \in Readable(r, w) :
        /\ from' = [from EXCEPT ![r][w] = i]
        /\ cur' = [cur EXCEPT ![r][w] = i]
        /\ acq' = [acq EXCEPT ![r] = Merge(@, mem[w][i].view)]
  BY DEF LoadWord
<1> DEFINE v == mem[w][i].view
<1>2. /\ UNCHANGED <<mem, writerVars, rpc, attempt, before, got>> /\ published' = published
      /\ rpc[r] = "copy" /\ w \in Words \ copied[r]
      /\ copied' = [copied EXCEPT ![r] = @ \cup {w}]
  BY DEF LoadWord, writerVars
<1>3. /\ S \in Locs /\ w \in Locs /\ w # S
      /\ cur[r] \in Views /\ acq[r] \in Views /\ n \in Nat
      /\ \A l \in Locs : Len(mem[l]) \in Nat
  <2>1. S \in Locs /\ w \in Locs /\ w # S
    BY WordsAssumption DEF Locs
  <2> QED
    BY <1>0, <2>1 DEF TypeOK
<1>4. /\ \A l \in Locs : 1 <= cur[r][l] /\ cur[r][l] <= acq[r][l] /\ acq[r][l] <= Len(mem[l])
      /\ \A l \in Locs : cur[r][l] \in Nat /\ acq[r][l] \in Nat
  BY <1>0, <1>3 DEF ReaderOK, Views
<1>5. i \in 1..Len(mem[w]) /\ i >= cur[r][w]
  BY <1>3, <1>4 DEF Readable
<1>6. /\ v \in Views /\ Merge(acq[r], v) \in Views /\ Merge(acq[r], v)[w] >= i
      /\ \A j \in Locs : /\ Merge(acq[r], v)[j] >= acq[r][j] /\ Merge(acq[r], v)[j] >= v[j]
                         /\ Merge(acq[r], v)[j] <= Len(mem[j])
      /\ \A j \in Locs : Merge(acq[r], v)[j] \in Nat /\ v[j] \in Nat
  <2>1. \A j \in Locs : 1 <= acq[r][j] /\ acq[r][j] <= Len(mem[j])
    BY <1>3, <1>4
  <2>2. /\ v \in Views /\ Merge(acq[r], v) \in Views /\ Merge(acq[r], v)[w] >= i
        /\ \A j \in Locs : /\ Merge(acq[r], v)[j] >= acq[r][j] /\ Merge(acq[r], v)[j] >= v[j]
                           /\ Merge(acq[r], v)[j] <= Len(mem[j])
    BY <1>0, <1>3, <1>5, <2>1, MergeInRange
  <2> QED
    BY <2>2 DEF Views
<1>7. i >= 2 => v[S] >= 2 * (i - 1)
  BY <1>0, <1>5 DEF MessageInv
<1> HIDE DEF v
<1>8. /\ acq' = [acq EXCEPT ![r] = Merge(acq[r], v)]
      /\ acq'[r] = Merge(acq[r], v) /\ acq' \in [Readers -> Views]
  BY <1>0, <1>1, <1>6 DEF TypeOK, v
<1>9. /\ cur' \in [Readers -> Views] /\ cur'[r][w] = i
      /\ \A j \in Locs \ {w} : cur'[r][j] = cur[r][j]
      /\ from' \in [Readers -> [Words -> Nat]] /\ from'[r][w] = i
      /\ \A u \in Words \ {w} : from'[r][u] = from[r][u]
  BY <1>0, <1>1, <1>3, <1>5 DEF TypeOK, Views
<1>10. copied' \in [Readers -> SUBSET Words] /\ copied'[r] = copied[r] \cup {w}
  BY <1>0, <1>2 DEF TypeOK
<1>11. \A q \in Readers \ {r} :
         /\ rpc'[q] = rpc[q] /\ before'[q] = before[q] /\ from'[q] = from[q]
         /\ copied'[q] = copied[q] /\ cur'[q] = cur[q] /\ acq'[q] = acq[q] /\ got'[q] = got[q]
  BY <1>0, <1>1, <1>2 DEF TypeOK
<1>12. TypeOK'
  BY <1>0, <1>2, <1>8, <1>9, <1>10 DEF TypeOK, writerVars
<1>13. ReaderOK(r)'
  <2>1. PICK k \in 1..n : CopyOK(r)!(k)
    BY <1>0, <1>2 DEF ReaderOK, CopyOK
  <2>2. \A l \in Locs : 1 <= cur'[r][l] /\ cur'[r][l] <= acq'[r][l] /\ acq'[r][l] <= Len(mem'[l])
    <3> SUFFICES ASSUME NEW l \in Locs
                 PROVE  1 <= cur'[r][l] /\ cur'[r][l] <= acq'[r][l] /\ acq'[r][l] <= Len(mem'[l])
      OBVIOUS
    <3>1. CASE l = w
      BY <1>2, <1>3, <1>5, <1>6, <1>8, <1>9, <3>1
    <3>2. CASE l # w
      <4>1. cur'[r][l] = cur[r][l] /\ mem' = mem
        BY <1>2, <1>9, <3>2
      <4>2. Merge(acq[r], v)[l] \in Nat /\ Merge(acq[r], v)[l] >= acq[r][l]
        BY <1>6
      <4> QED
        BY <1>4, <1>6, <1>8, <4>1, <4>2
    <3> QED
      BY <3>1, <3>2
  <2>3. HeldFrameOK(r)'
    BY <1>0, <1>2 DEF ReaderOK, HeldFrameOK
  <2>4. CopyOK(r)'
    <3>1. \A u \in Words : cur'[r][u] >= k + 1
      <4> SUFFICES ASSUME NEW u \in Words PROVE cur'[r][u] >= k + 1
        OBVIOUS
      <4>1. u \in Locs /\ cur[r][u] >= k + 1 /\ cur[r][u] \in Nat
        BY <1>4, <2>1 DEF Locs
      <4>2. CASE u = w
        BY <1>3, <1>5, <1>9, <2>1, <4>1, <4>2
      <4>3. CASE u # w
        BY <1>9, <4>1, <4>3
      <4> QED
        BY <4>2, <4>3
    <3>2. ASSUME NEW u \in copied'[r]
          PROVE  /\ from'[r][u] \in (k + 1)..Len(mem'[u])
                 /\ acq'[r][S] >= 2 * (from'[r][u] - 1)
      <4>1. CASE u = w
        <5>1. i \in (k + 1)..Len(mem[w])
          BY <1>3, <1>4, <1>5, <2>1
        <5>2. v[S] >= 2 * (i - 1) /\ i \in Nat
          BY <1>3, <1>7, <2>1, <5>1
        <5> QED
          BY <1>2, <1>3, <1>6, <1>8, <1>9, <4>1, <5>1, <5>2
      <4>2. CASE u # w
        <5>1. u \in copied[r] /\ u \in Words
          BY <1>0, <1>10, <4>2 DEF TypeOK
        <5>2. from'[r][u] = from[r][u] /\ mem'[u] = mem[u]
          BY <1>2, <1>9, <4>2, <5>1
        <5>3. from[r][u] \in Nat
          BY <1>0, <5>1 DEF TypeOK
        <5>4. from[r][u] \in (k + 1)..Len(mem[u]) /\ acq[r][S] >= 2 * (from[r][u] - 1)
          BY <2>1, <5>1
        <5>5. acq'[r][S] \in Nat /\ acq'[r][S] >= acq[r][S] /\ acq[r][S] \in Nat
          BY <1>3, <1>4, <1>6, <1>8
        <5> QED
          BY <5>2, <5>3, <5>4, <5>5
      <4> QED
        BY <4>1, <4>2
    <3>3. k \in 1..Len(published') /\ before'[r] = 2 * k
      BY <1>2, <2>1
    <3> QED
      BY <3>1, <3>2, <3>3 DEF CopyOK
  <2>5. rpc'[r] = "copy" /\ before' = before /\ got' = got /\ cur'[r][S] = cur[r][S]
    BY <1>2, <1>3, <1>9
  <2>6. /\ got[r].sequence < cur[r][S]
        /\ got[r].sequence <= before[r] /\ before[r] < cur[r][S]
    BY <1>0, <1>2 DEF ReaderOK
  <2> QED
    BY <2>2, <2>3, <2>4, <2>5, <2>6 DEF ReaderOK
<1> QED
  BY <1>2, <1>11, <1>12, <1>13, ReaderStep

\* The fence makes what the copied words carried visible to the next load.
LEMMA AcquireFenceInv ==
  ASSUME SeqlockInv, NEW r \in Readers, AcquireFence(r)
  PROVE  SeqlockInv'
<1>0. TypeOK /\ ReaderOK(r)
  BY DEF SeqlockInv, ReaderInv
<1> DEFINE S == SequenceWord
<1>1. /\ UNCHANGED <<mem, writerVars, attempt, before, from, copied, acq, got>>
      /\ published' = published /\ rpc[r] = "copy" /\ copied[r] = Words
      /\ cur' = [cur EXCEPT ![r] = acq[r]] /\ rpc' = [rpc EXCEPT ![r] = "after"]
  BY DEF AcquireFence, FenceAcquire, writerVars
<1>2. TypeOK'
  BY <1>0, <1>1 DEF TypeOK, writerVars
<1>3. cur'[r] = acq[r] /\ rpc'[r] = "after"
  BY <1>0, <1>1 DEF TypeOK
<1>4. \A l \in Locs : /\ cur[r][l] \in Nat /\ acq[r][l] \in Nat /\ Len(mem[l]) \in Nat
                      /\ 1 <= cur[r][l] /\ cur[r][l] <= acq[r][l] /\ acq[r][l] <= Len(mem[l])
  BY <1>0 DEF TypeOK, Views, ReaderOK
<1>5. ReaderOK(r)'
  <2>1. PICK k \in 1..Len(published) : CopyOK(r)!(k)
    BY <1>0, <1>1 DEF ReaderOK, CopyOK
  <2>2. S \in Locs /\ \A w \in Words : w \in Locs
    BY DEF Locs
  <2>3. CopyOK(r)'
    <3>1. \A w \in Words : cur'[r][w] >= k + 1
      BY <1>3, <1>4, <2>1, <2>2
    <3> QED
      BY <1>1, <2>1, <3>1 DEF CopyOK
  <2>4. HeldFrameOK(r)'
    BY <1>0, <1>1 DEF ReaderOK, HeldFrameOK
  <2>5. \A w \in Words : cur'[r][S] >= 2 * (from'[r][w] - 1)
    BY <1>1, <1>3, <2>1
  <2>6. \A l \in Locs : 1 <= cur'[r][l] /\ cur'[r][l] <= acq'[r][l] /\ acq'[r][l] <= Len(mem'[l])
    BY <1>1, <1>3, <1>4
  <2>7. /\ got'[r].sequence < cur'[r][S]
        /\ got'[r].sequence <= before'[r] /\ before'[r] < cur'[r][S]
    <3>1. /\ got[r].sequence < cur[r][S] /\ got[r].sequence \in Nat /\ before[r] \in Nat
          /\ got[r].sequence <= before[r] /\ before[r] < cur[r][S]
      BY <1>0, <1>1 DEF ReaderOK, TypeOK
    <3> QED
      BY <1>1, <1>3, <1>4, <2>2, <3>1
  <2> QED
    BY <1>1, <2>3, <2>4, <2>5, <2>6, <2>7 DEF ReaderOK
<1>6. \A q \in Readers \ {r} : rpc'[q] = rpc[q] /\ cur'[q] = cur[q]
  BY <1>0, <1>1 DEF TypeOK
<1> QED
  BY <1>1, <1>2, <1>5, <1>6, ReaderStep

(***************************************************************************)
(* The copy a reader accepts: the second load of the sequence returned the *)
(* first one's value, so no word it copied is from a later frame.          *)
(***************************************************************************)
\* If the two loads of the sequence agree, the copy is exactly one frame.
LEMMA AcceptedCopy ==
  ASSUME SeqlockInv, NEW r \in Readers, rpc[r] = "after",
         NEW i \in Readable(r, SequenceWord), mem[SequenceWord][i].val = before[r]
  PROVE  \E k \in 1..Len(published) : before[r] = 2 * k /\ Copy(r) = published[k]
<1>0. TypeOK /\ HistoryInv /\ MessageInv /\ ReaderOK(r)
  BY DEF SeqlockInv, ReaderInv
<1> DEFINE S == SequenceWord
<1>1. /\ S \in Locs /\ Len(mem[S]) \in Nat /\ cur[r][S] \in Nat /\ cur[r][S] >= 1
      /\ Len(published) \in Nat
  <2>1. S \in Locs
    BY DEF Locs
  <2> QED
    BY <1>0, <2>1 DEF TypeOK, Views, ReaderOK
<1>2. i \in 1..Len(mem[S]) /\ cur[r][S] <= i
  BY <1>1 DEF Readable
<1>3. PICK k \in 1..Len(published) : CopyOK(r)!(k)
  BY <1>0 DEF ReaderOK, CopyOK
<1>4. i = 2 * k + 1
  <2>1. mem[S][i].val = i - 1
    BY <1>0, <1>2 DEF MessageInv
  <2> QED
    BY <1>2, <1>3, <2>1
<1>5. ASSUME NEW w \in Words PROVE mem[w][from[r][w]].val = published[k][w]
  <2>1. /\ from[r][w] \in (k + 1)..Len(mem[w])
        /\ cur[r][S] >= 2 * (from[r][w] - 1)
    BY <1>0, <1>3 DEF ReaderOK
  <2>2. from[r][w] \in Nat
    BY <1>0 DEF TypeOK
  <2>3. from[r][w] = k + 1
    BY <1>1, <1>2, <1>4, <2>1, <2>2
  <2>4. k + 1 \in 2..Len(mem[w]) /\ k + 1 <= Len(published) + 1 /\ (k + 1) - 1 = k
    BY <1>1, <2>1, <2>3
  <2> QED
    BY <1>0, <2>3, <2>4 DEF MessageInv
<1>6. Copy(r) = published[k]
  <2>1. published[k] \in Frames
    BY <1>0, <1>3 DEF TypeOK
  <2> QED
    BY <1>5, <2>1 DEF Copy, Frames
<1> QED
  BY <1>3, <1>6

\* The second load: a copy is handed out only if it is one frame.
LEMMA LoadAfterInv ==
  ASSUME SeqlockInv, NEW r \in Readers, LoadAfter(r)
  PROVE  SeqlockInv'
<1>0. TypeOK /\ HistoryInv /\ ViewInv /\ MessageInv /\ ReaderOK(r)
  BY DEF SeqlockInv, ReaderInv
<1> DEFINE S == SequenceWord
<1>1. PICK i \in Readable(r, S) :
        LET m == mem[S][i]
        IN /\ cur' = [cur EXCEPT ![r][S] = i]
           /\ acq' = [acq EXCEPT ![r] = Merge(@, m.view)]
           /\ \/ /\ m.val = before[r]
                 /\ got' = [got EXCEPT ![r] = [sequence |-> before[r], words |-> Copy(r)]]
                 /\ rpc' = [rpc EXCEPT ![r] = "idle"]
                 /\ UNCHANGED attempt
              \/ /\ m.val # before[r]
                 /\ Continue(r)
                 /\ UNCHANGED got
  BY DEF LoadAfter
<1> DEFINE v == mem[S][i].view
<1>2. /\ UNCHANGED <<mem, writerVars, before, from, copied>> /\ published' = published
      /\ rpc[r] = "after"
  BY DEF LoadAfter, writerVars
<1>3. /\ S \in Locs /\ cur[r] \in Views /\ acq[r] \in Views
      /\ \A l \in Locs : Len(mem[l]) \in Nat
  BY <1>0 DEF TypeOK, Locs
<1>4. /\ \A l \in Locs : 1 <= cur[r][l] /\ cur[r][l] <= acq[r][l] /\ acq[r][l] <= Len(mem[l])
      /\ \A l \in Locs : cur[r][l] \in Nat /\ acq[r][l] \in Nat
  BY <1>0, <1>3 DEF ReaderOK, Views
<1>5. i \in 1..Len(mem[S]) /\ i >= cur[r][S]
  BY <1>3, <1>4 DEF Readable
<1>6. /\ Merge(acq[r], v) \in Views /\ Merge(acq[r], v)[S] >= i
      /\ \A j \in Locs : Merge(acq[r], v)[j] >= acq[r][j] /\ Merge(acq[r], v)[j] <= Len(mem[j])
  <2>1. \A j \in Locs : 1 <= acq[r][j] /\ acq[r][j] <= Len(mem[j])
    BY <1>3, <1>4
  <2> QED
    BY <1>0, <1>3, <1>5, <2>1, MergeInRange
<1>7. \A j \in Locs : Merge(acq[r], v)[j] \in Nat
  BY <1>6 DEF Views
<1> HIDE DEF v
<1>8. /\ acq' \in [Readers -> Views] /\ acq'[r] = Merge(acq[r], v)
      /\ cur' \in [Readers -> Views] /\ cur'[r][S] = i
      /\ \A j \in Locs \ {S} : cur'[r][j] = cur[r][j]
      /\ \A q \in Readers \ {r} : acq'[q] = acq[q] /\ cur'[q] = cur[q]
  BY <1>0, <1>1, <1>3, <1>5, <1>6 DEF TypeOK, Views, v
<1>9. \A l \in Locs : 1 <= cur'[r][l] /\ cur'[r][l] <= acq'[r][l] /\ acq'[r][l] <= Len(mem'[l])
  <2> SUFFICES ASSUME NEW l \in Locs
               PROVE  1 <= cur'[r][l] /\ cur'[r][l] <= acq'[r][l] /\ acq'[r][l] <= Len(mem'[l])
    OBVIOUS
  <2>1. CASE l = S
    BY <1>2, <1>5, <1>6, <1>8, <2>1
  <2>2. CASE l # S
    BY <1>2, <1>3, <1>4, <1>6, <1>7, <1>8, <2>2
  <2> QED
    BY <2>1, <2>2
<1>10. /\ got[r].sequence \in Nat /\ before[r] \in Nat
       /\ got[r].sequence <= before[r] /\ before[r] < cur[r][S]
       /\ HeldFrameOK(r)
  BY <1>0, <1>2 DEF ReaderOK, TypeOK
<1>11. CASE /\ mem[S][i].val = before[r]
            /\ got' = [got EXCEPT ![r] = [sequence |-> before[r], words |-> Copy(r)]]
            /\ rpc' = [rpc EXCEPT ![r] = "idle"]
            /\ UNCHANGED attempt
  <2>1. PICK k \in 1..Len(published) : before[r] = 2 * k /\ Copy(r) = published[k]
    BY <1>2, <1>11, AcceptedCopy
  <2>2. Copy(r) \in Frames
    BY <1>0, <2>1 DEF TypeOK
  <2>3. /\ got' \in [Readers -> [sequence : Nat, words : Frames]]
        /\ got'[r].sequence = before[r] /\ got'[r].words = published[k]
        /\ rpc' \in [Readers -> {"idle", "before", "copy", "after"}] /\ rpc'[r] = "idle"
        /\ \A q \in Readers \ {r} : got'[q] = got[q] /\ rpc'[q] = rpc[q]
    BY <1>0, <1>10, <1>11, <2>1, <2>2 DEF TypeOK
  <2>4. TypeOK'
    BY <1>0, <1>2, <1>8, <1>11, <2>3 DEF TypeOK, writerVars
  <2>5. HeldFrameOK(r)'
    <3>1. k \in 1..Len(published') /\ got'[r].sequence = 2 * k /\ got'[r].words = published'[k]
      BY <1>2, <2>1, <2>3
    <3>2. got'[r].sequence # 0
      BY <3>1
    <3> QED
      BY <3>1, <3>2 DEF HeldFrameOK
  <2>6. got'[r].sequence < cur'[r][S]
    BY <1>3, <1>4, <1>5, <1>8, <1>10, <2>3
  <2>7. ReaderOK(r)'
    BY <1>9, <2>3, <2>5, <2>6 DEF ReaderOK
  <2> QED
    BY <1>2, <1>8, <2>3, <2>4, <2>7, ReaderStep
<1>12. CASE mem[S][i].val # before[r] /\ Continue(r) /\ UNCHANGED got
  <2>1. /\ attempt' \in [Readers -> 1..READ_ATTEMPTS]
        /\ rpc' \in [Readers -> {"idle", "before", "copy", "after"}]
        /\ rpc'[r] \in {"idle", "before"}
        /\ \A q \in Readers \ {r} : rpc'[q] = rpc[q]
    BY <1>0, <1>12, ContinueFacts
  <2>2. TypeOK'
    BY <1>0, <1>2, <1>8, <1>12, <2>1 DEF TypeOK, writerVars
  <2>3. HeldFrameOK(r)'
    BY <1>2, <1>10, <1>12 DEF HeldFrameOK
  <2>4. got'[r].sequence < cur'[r][S]
    BY <1>3, <1>4, <1>5, <1>8, <1>10, <1>12
  <2>5. ReaderOK(r)'
    BY <1>9, <2>1, <2>3, <2>4 DEF ReaderOK
  <2> QED
    BY <1>2, <1>8, <1>12, <2>1, <2>2, <2>5, ReaderStep
<1> QED
  BY <1>1, <1>11, <1>12

\* Every step of the region keeps the invariant.
LEMMA NextInv == SeqlockInv /\ [Next]_vars => SeqlockInv'
<1> SUFFICES ASSUME SeqlockInv, [Next]_vars PROVE SeqlockInv'
  OBVIOUS
<1>1. CASE RejectFrame
  BY <1>1, RejectFrameInv
<1>2. CASE StoreOdd
  BY <1>2, StoreOddInv
<1>3. CASE ReleaseFence
  BY <1>3, ReleaseFenceInv
<1>4. CASE \E w \in Words : StoreWord(w)
  BY <1>4, StoreWordInv
<1>5. CASE StoreEven
  BY <1>5, StoreEvenInv
<1>6. CASE \E r \in Readers : Reader(r)
  <2>1. PICK r \in Readers : Reader(r)
    BY <1>6
  <2>2. CASE ReadFrame(r)
    BY <2>2, ReadFrameInv
  <2>3. CASE LoadBefore(r)
    BY <2>3, LoadBeforeInv
  <2>4. CASE \E w \in Words : LoadWord(r, w)
    BY <2>4, LoadWordInv
  <2>5. CASE AcquireFence(r)
    BY <2>5, AcquireFenceInv
  <2>6. CASE LoadAfter(r)
    BY <2>6, LoadAfterInv
  <2> QED
    BY <2>1, <2>2, <2>3, <2>4, <2>5, <2>6 DEF Reader
<1>7. CASE UNCHANGED vars
  <2>1. TypeOK'
    BY <1>7 DEF SeqlockInv, TypeOK, vars, writerVars, readerVars
  <2>2. HistoryInv' /\ ViewInv' /\ MessageInv'
    BY <1>7 DEF SeqlockInv, HistoryInv, ViewInv, MessageInv, Finite, vars, writerVars
  <2>3. ReaderInv'
    BY <1>7 DEF SeqlockInv, ReaderInv, ReaderOK, HeldFrameOK, CopyOK, vars, writerVars, readerVars
  <2> QED
    BY <2>1, <2>2, <2>3 DEF SeqlockInv
<1> QED
  BY <1>1, <1>2, <1>3, <1>4, <1>5, <1>6, <1>7 DEF Next, Writer

\* The whole argument holds in every reachable state of publish against
\* read_frame, under every interleaving and every stale load the memory model
\* allows.
THEOREM SeqlockInvariant == Spec => []SeqlockInv
<1>1. Init => SeqlockInv
  BY InitInv
<1>2. SeqlockInv /\ [Next]_vars => SeqlockInv'
  BY NextInv
<1> QED
  BY <1>1, <1>2, PTL DEF Spec

\* read_frame never hands out a mix of two frames.
THEOREM NeverTorn == Spec => []NoTornFrame
<1>1. SeqlockInv => NoTornFrame
  BY DEF SeqlockInv, ReaderInv, ReaderOK, HeldFrameOK, NoTornFrame
<1> QED
  BY <1>1, SeqlockInvariant, PTL

\* No reader is handed a NaN or an infinity: publish refuses such a frame and
\* what a reader holds was published, or is the zero fill.
THEOREM NeverNonFinite == Spec => []NoNonFiniteServed
<1>1. SeqlockInv => NoNonFiniteServed
  <2> SUFFICES ASSUME SeqlockInv, NEW r \in Readers, NEW w \in FloatWords
               PROVE  got[r].words[w] \notin NonFinite
    BY DEF NoNonFiniteServed
  <2>1. HeldFrameOK(r) /\ MessageInv
    BY DEF SeqlockInv, ReaderInv, ReaderOK
  <2>2. CASE got[r].sequence = 0
    BY <2>1, <2>2, WordsAssumption, ValuesAssumption DEF HeldFrameOK
  <2>3. CASE got[r].sequence # 0
    BY <2>1, <2>3 DEF HeldFrameOK, MessageInv, Finite
  <2> QED
    BY <2>2, <2>3
<1> QED
  BY <1>1, SeqlockInvariant, PTL

(***************************************************************************)
(* Refinement.  A step of the region is a Publish (StoreEven), a Take      *)
(* (LoadAfter that accepts) or leaves the register alone.                  *)
(***************************************************************************)
\* The second load takes a published frame from the register, or nothing.
LEMMA RefineTake ==
  ASSUME SeqlockInv, NEW r \in Readers, LoadAfter(r)
  PROVE  Register!Take(r) \/ UNCHANGED Register!vars
<1>1. PICK i \in Readable(r, SequenceWord) :
        LET m == mem[SequenceWord][i]
        IN \/ /\ m.val = before[r]
              /\ got' = [got EXCEPT ![r] = [sequence |-> before[r], words |-> Copy(r)]]
           \/ UNCHANGED got
  BY DEF LoadAfter
<1>2. published' = published /\ rpc[r] = "after"
  BY DEF LoadAfter, writerVars
<1>3. CASE UNCHANGED got
  BY <1>2, <1>3 DEF Register!vars
<1>4. CASE /\ mem[SequenceWord][i].val = before[r]
           /\ got' = [got EXCEPT ![r] = [sequence |-> before[r], words |-> Copy(r)]]
  <2>1. PICK k \in 1..Len(published) : before[r] = 2 * k /\ Copy(r) = published[k]
    BY <1>2, <1>4, AcceptedCopy
  <2>2. got[r].sequence <= before[r] /\ got[r].sequence \in Nat
    BY <1>2 DEF SeqlockInv, ReaderInv, ReaderOK, TypeOK
  <2>3. got' = [got EXCEPT ![r] = [sequence |-> 2 * k, words |-> published[k]]]
    BY <1>4, <2>1
  <2> QED
    BY <1>2, <2>1, <2>2, <2>3 DEF Register!Take
<1> QED
  BY <1>1, <1>3, <1>4

\* Every step of the region is a step of the register, or a stutter.
LEMMA RefineStep == SeqlockInv /\ [Next]_vars => [Register!Next]_(Register!vars)
<1> SUFFICES ASSUME SeqlockInv, [Next]_vars
             PROVE  Register!Next \/ UNCHANGED Register!vars
  OBVIOUS
<1>1. CASE RejectFrame \/ StoreOdd \/ ReleaseFence \/ \E w \in Words : StoreWord(w)
  BY <1>1 DEF RejectFrame, StoreOdd, ReleaseFence, StoreWord, readerVars, Register!vars
<1>2. CASE StoreEven
  <2>1. frame \in Frames /\ Finite(frame)
    BY <1>2 DEF SeqlockInv, TypeOK, HistoryInv, StoreEven
  <2>2. published' = Append(published, frame) /\ UNCHANGED got
    BY <1>2 DEF StoreEven, readerVars
  <2> QED
    BY <2>1, <2>2 DEF Register!Next, Register!Publish
<1>3. CASE \E r \in Readers : Reader(r)
  <2>1. PICK r \in Readers : Reader(r)
    BY <1>3
  <2>2. CASE LoadAfter(r)
    BY <2>2, RefineTake DEF Register!Next
  <2>3. CASE ReadFrame(r) \/ LoadBefore(r) \/ (\E w \in Words : LoadWord(r, w)) \/ AcquireFence(r)
    BY <2>3 DEF ReadFrame, LoadBefore, LoadWord, AcquireFence, writerVars, Register!vars
  <2> QED
    BY <2>1, <2>2, <2>3 DEF Reader
<1>4. CASE UNCHANGED vars
  BY <1>4 DEF vars, writerVars, readerVars, Register!vars
<1> QED
  BY <1>1, <1>2, <1>3, <1>4 DEF Next, Writer

\* The sequence lock implements the atomic register: frames are published
\* whole, read whole, finite, and never read in the wrong order.
THEOREM Refinement == Spec => ImplementsRegister
<1>1. Init => Register!Init
  <2> SUFFICES ASSUME Init PROVE Register!Init
    OBVIOUS
  <2>1. [w \in Words |-> Zero] \in Frames
    BY ValuesAssumption DEF Frames
  <2> QED
    BY <2>1 DEF Init, Register!Init
<1>2. SeqlockInv /\ [Next]_vars => [Register!Next]_(Register!vars)
  BY RefineStep
<1> QED
  BY <1>1, <1>2, SeqlockInvariant, PTL DEF Spec, ImplementsRegister, Register!Spec
=============================================================================
