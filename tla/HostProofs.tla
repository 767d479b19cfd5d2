------------------------------ MODULE HostProofs ------------------------------
(***************************************************************************)
(* From the settings of a host to the last event it reads: Startup and     *)
(* Headless.                                                               *)
(*                                                                         *)
(* Startup.  Whatever the launches, the messages and the devices: a        *)
(* configuration that was resolved is never refused by App::new, every     *)
(* setting of a run comes from the layer it should, what a list called     *)
(* supported opens, and a run that is up fits its hardware.  The first     *)
(* part proves what the resolution returns, check by check; an invariant   *)
(* of one clause per stage (StartupInv) carries it to the end of the       *)
(* start.                                                                  *)
(*                                                                         *)
(* Headless.  Whatever the host, the signals and the stream do: the engine *)
(* is drained before the last event and the exit code, and a run that the  *)
(* engine ended is reported with its cause.  RunInv ties the result and    *)
(* the engine to the place of the main thread, and CauseInv the cleared    *)
(* flag to the recorded error, which the poll loads after it; LinesInv     *)
(* counts the lines of standard output, of which there are at most two.    *)
(***************************************************************************)
EXTENDS Startup, Headless, FiniteSetTheorems, SequenceTheorems, TLAPS
-----------------------------------------------------------------------------
(***************************************************************************)
(* Sets and sequences                                                      *)
(***************************************************************************)

\* A set of numbers that is not empty has a least one.
LEMMA MinFacts ==
  ASSUME NEW S, S \subseteq Nat, S # {}
  PROVE  Min(S) \in S /\ \A y \in S : Min(S) <= y
<1> DEFINE R == OpToRel(<, Nat)
<1>1. IsWellFoundedOn(R, Nat)
  BY NatLessThanWellFounded
<1>2. \A x, y \in Nat : <<y, x>> \in R <=> y < x
  BY DEF OpToRel
<1> HIDE DEF R
<1>3. PICK x \in S : \A y \in S : ~ (<<y, x>> \in R)
  BY <1>1, WFMin
<1>4. ASSUME NEW y \in S PROVE x <= y
  <2>1. x \in Nat /\ y \in Nat
    OBVIOUS
  <2>2. ~ (<<y, x>> \in R)
    BY <1>3
  <2>3. ~ (y < x)
    BY <1>2, <2>1, <2>2, Zenon
  <2> QED BY <2>1, <2>3
<1> QED BY <1>4 DEF Min

\* The elements of a sequence are finitely many.
LEMMA ElementsFinite ==
  ASSUME NEW s \in Seq(Nat)
  PROVE  /\ IsFiniteSet(ToSet(s)) /\ ToSet(s) \subseteq Nat
         /\ s # <<>> => ToSet(s) # {}
<1>1. ToSet(s) = {s[i] : i \in 1..Len(s)}
  BY DEF ToSet
<1>2. s \in Surjection(1..Len(s), ToSet(s))
  BY <1>1 DEF Surjection
<1>3. IsFiniteSet(1..Len(s))
  BY FS_Interval
<1>4. IsFiniteSet(ToSet(s))
  BY <1>2, <1>3, FS_Surjection
<1>5. s # <<>> => Len(s) > 0
  BY EmptySeq
<1> QED BY <1>1, <1>4, <1>5

Below(S, x) == {y \in S : y < x}
Rank(S) == [x \in S |-> Cardinality(Below(S, x))]

\* The ranks of the elements are all the numbers below the size of the set: a
\* larger element has more below it, so no two have the same rank.
LEMMA RankFacts ==
  ASSUME NEW S, S \subseteq Nat, IsFiniteSet(S)
  PROVE  /\ Rank(S) \in [S -> 0..(Cardinality(S) - 1)]
         /\ \A x, y \in S : x < y <=> Rank(S)[x] < Rank(S)[y]
         /\ \A k \in 0..(Cardinality(S) - 1) : \E x \in S : Rank(S)[x] = k
<1> DEFINE n == Cardinality(S)
<1>1. n \in Nat
  BY FS_CardinalityType
<1>2. ASSUME NEW x \in S PROVE IsFiniteSet(Below(S, x)) /\ Cardinality(Below(S, x)) \in Nat
  <2>1. Below(S, x) \in SUBSET S
    BY DEF Below
  <2> QED BY <2>1, FS_Subset, FS_CardinalityType
<1>3. ASSUME NEW x \in S PROVE Cardinality(Below(S, x)) < n
  <2>1. Below(S, x) \in SUBSET S /\ x \notin Below(S, x)
    BY DEF Below
  <2> QED BY <2>1, <1>1, <1>2, FS_Subset
<1>4. ASSUME NEW x \in S, NEW y \in S, x < y
      PROVE  Cardinality(Below(S, x)) < Cardinality(Below(S, y))
  <2>0. x \in Nat /\ y \in Nat /\ \A z \in S : z \in Nat
    OBVIOUS
  <2>1. \A z \in S : z < x => z < y
    BY <1>4, <2>0
  <2>2. Below(S, x) \in SUBSET Below(S, y)
    BY <2>1 DEF Below
  <2>3. x \in Below(S, y) /\ x \notin Below(S, x)
    BY <1>4, <2>0 DEF Below
  <2> QED BY <2>2, <2>3, <1>2, FS_Subset
<1> HIDE DEF n
<1>5. Rank(S) \in [S -> 0..(n - 1)]
  BY <1>1, <1>2, <1>3 DEF Rank
<1>6. \A x, y \in S : x < y => Rank(S)[x] < Rank(S)[y]
  BY <1>4 DEF Rank
<1>7. \A x, y \in S : x < y <=> Rank(S)[x] < Rank(S)[y]
  BY <1>5, <1>6
<1>8. Rank(S) \in Injection(S, 0..(n - 1))
  BY <1>5, <1>7 DEF Injection, IsInjective
<1>9. IsFiniteSet(0..(n - 1)) /\ Cardinality(0..(n - 1)) = n
  BY <1>1, FS_Interval
<1>10. Rank(S) \in Surjection(S, 0..(n - 1))
  BY <1>8, <1>9, FS_Injection DEF n
<1> QED BY <1>5, <1>7, <1>10 DEF Surjection, n

\* In order, the elements of a set are each there once and ascend.
LEMMA AscendingFacts ==
  ASSUME NEW S, S \subseteq Nat, IsFiniteSet(S)
  PROVE  /\ Ascending(S) \in Seq(S) /\ Len(Ascending(S)) = Cardinality(S)
         /\ ToSet(Ascending(S)) = S
         /\ \A i, j \in 1..Cardinality(S) : i < j => Ascending(S)[i] < Ascending(S)[j]
         /\ S # {} => Ascending(S) # <<>>
<1> DEFINE n == Cardinality(S)
           A == Ascending(S)
           R == Rank(S)
<1>1. n \in Nat /\ (S # {} => n # 0)
  BY FS_CardinalityType, FS_EmptySet
<1>2. A = [k \in 1..n |-> CHOOSE z \in S : Cardinality({y \in S : y < z}) = k - 1]
  BY DEF Ascending
<1>3. \A x \in S : R[x] = Cardinality({y \in S : y < x})
  BY DEF Rank, Below
<1> HIDE DEF A, n, R
<1>4. /\ R \in [S -> 0..(n - 1)]
      /\ \A x, y \in S : x < y <=> R[x] < R[y]
      /\ \A k \in 0..(n - 1) : \E x \in S : R[x] = k
  BY RankFacts DEF R, n
<1>5. ASSUME NEW k \in 1..n PROVE A[k] \in S /\ R[A[k]] = k - 1
  <2>1. k - 1 \in 0..(n - 1)
    BY <1>1
  <2>2. PICK x \in S : R[x] = k - 1
    BY <1>4, <2>1
  <2>3. A[k] = CHOOSE z \in S : Cardinality({y \in S : y < z}) = k - 1
    BY <1>2
  <2>4. A[k] \in S /\ Cardinality({y \in S : y < A[k]}) = k - 1
    BY <2>2, <2>3, <1>3
  <2> QED BY <2>4, <1>3
<1>6. A \in [1..n -> S]
  BY <1>2, <1>5
<1>7. A \in Seq(S) /\ Len(A) = n /\ DOMAIN A = 1..n
  BY <1>1, <1>6
<1>8. ASSUME NEW i \in 1..n, NEW j \in 1..n, i < j PROVE A[i] < A[j]
  <2>1. R[A[i]] < R[A[j]]
    BY <1>1, <1>5, <1>8
  <2> QED BY <2>1, <1>4, <1>5
<1>9. ASSUME NEW x \in S PROVE \E k \in 1..n : A[k] = x
  <2>1. R[x] \in 0..(n - 1)
    BY <1>4
  <2>2. PICK k \in 1..n : R[x] = k - 1
    <3>1. R[x] + 1 \in 1..n /\ R[x] = (R[x] + 1) - 1
      BY <2>1, <1>1
    <3> QED BY <3>1
  <2>3. A[k] \in S /\ R[A[k]] = R[x]
    BY <2>2, <1>5
  <2>4. ~(A[k] < x) /\ ~(x < A[k])
    <3>1. ~(R[A[k]] < R[x]) /\ ~(R[x] < R[A[k]])
      BY <2>1, <2>3, <1>1
    <3> QED BY <3>1, <2>3, <1>4, Zenon
  <2>5. A[k] \in Nat /\ x \in Nat
    BY <2>3
  <2>6. A[k] = x
    BY <2>4, <2>5
  <2> QED BY <2>6
<1>10. ToSet(A) = S
  <2>1. ToSet(A) = {A[k] : k \in 1..n}
    BY <1>7 DEF ToSet
  <2> QED BY <2>1, <1>5, <1>9
<1>11. S # {} => A # <<>>
  BY <1>1, <1>7
<1> QED BY <1>7, <1>8, <1>10, <1>11 DEF A, n
-----------------------------------------------------------------------------
(***************************************************************************)
(* The checks of a configuration                                           *)
(***************************************************************************)
\* What the checks of a configuration may raise.
Codes ==
  {"InvalidAttackTime", "InvalidReleaseTime", "InvalidFreqLow", "InvalidFreqHigh",
   "InvalidFreqRange", "InvalidFilterQ", "NonLoopbackBindAddress", "InvalidMaxClients",
   "NoOutputConfigured", "DuplicateOutputTransport", "MissingDevice",
   "EmptyChannelSelection", "InvalidTestFrequency", "InvalidTestSweepRate",
   "InvalidMidiTempo", "InvalidMidiDeviceName", "InvalidFreqAboveNyquist",
   "InvalidFreqAboveSafetyCeiling", "ChannelIndexOutOfRange",
   "InvalidVocoderBandCoefficients"}

\* One error or none.
LEMMA Raised == <<>> \in Seq(Codes) /\ \A code \in Codes : <<code>> \in Seq(Codes)
OBVIOUS

\* Checks in a row raise nothing if none of them does.
LEMMA CatFacts ==
  ASSUME NEW A, NEW a \in Seq(A), NEW b \in Seq(A)
  PROVE  a \o b \in Seq(A) /\ (a \o b = <<>> <=> a = <<>> /\ b = <<>>)
<1>1. a \o b \in Seq(A) /\ Len(a \o b) = Len(a) + Len(b)
  BY ConcatProperties
<1>2. /\ a = <<>> <=> Len(a) = 0
      /\ b = <<>> <=> Len(b) = 0
      /\ a \o b = <<>> <=> Len(a \o b) = 0
  BY <1>1, EmptySeq
<1>3. Len(a) \in Nat /\ Len(b) \in Nat
  OBVIOUS
<1> QED BY <1>1, <1>2, <1>3

\* The same for three and more.
LEMMA Cat5Facts ==
  ASSUME NEW A, NEW a \in Seq(A), NEW b \in Seq(A), NEW c \in Seq(A), NEW d \in Seq(A),
         NEW e \in Seq(A)
  PROVE  /\ a \o b \o c \o d \o e \in Seq(A)
         /\ a \o b \o c \o d \o e = <<>> <=>
              a = <<>> /\ b = <<>> /\ c = <<>> /\ d = <<>> /\ e = <<>>
<1> DEFINE ab == a \o b
           abc == ab \o c
           abcd == abc \o d
<1>1. ab \in Seq(A) /\ (ab = <<>> <=> a = <<>> /\ b = <<>>)
  BY CatFacts
<1> HIDE DEF ab
<1>2. abc \in Seq(A) /\ (abc = <<>> <=> ab = <<>> /\ c = <<>>)
  BY <1>1, CatFacts
<1> HIDE DEF abc
<1>3. abcd \in Seq(A) /\ (abcd = <<>> <=> abc = <<>> /\ d = <<>>)
  BY <1>2, CatFacts
<1> HIDE DEF abcd
<1>4. abcd \o e \in Seq(A) /\ (abcd \o e = <<>> <=> abcd = <<>> /\ e = <<>>)
  BY <1>3, CatFacts
<1>5. abcd \o e = a \o b \o c \o d \o e
  BY DEF ab, abc, abcd
<1> QED BY <1>1, <1>2, <1>3, <1>4, <1>5

\* The bands of a configuration that is not refused are in order.
LEMMA VocoderFacts ==
  ASSUME NEW v
  PROVE  /\ validate_vocoder_fields(v) \in Seq(Codes)
         /\ validate_vocoder_fields(v) = <<>> =>
              is_strictly_positive(v.freq_low) /\ v.freq_low < v.freq_high
<1> DEFINE a == Check(is_strictly_positive(v.attack_ms), "InvalidAttackTime")
           b == Check(is_strictly_positive(v.release_ms), "InvalidReleaseTime")
           c == Check(is_strictly_positive(v.freq_low), "InvalidFreqLow")
           d == Check(is_strictly_positive(v.freq_high), "InvalidFreqHigh")
           e == Check(v.freq_low < v.freq_high, "InvalidFreqRange")
           f == Check(is_strictly_positive(v.filter_q) /\ v.filter_q > Tiny, "InvalidFilterQ")
           abcde == a \o b \o c \o d \o e
<1>1. validate_vocoder_fields(v) = abcde \o f
  BY DEF validate_vocoder_fields
<1>2. a \in Seq(Codes) /\ b \in Seq(Codes) /\ c \in Seq(Codes) /\ d \in Seq(Codes)
      /\ e \in Seq(Codes) /\ f \in Seq(Codes)
  BY Raised DEF Check, Codes
<1>3. /\ c = <<>> => is_strictly_positive(v.freq_low)
      /\ e = <<>> => v.freq_low < v.freq_high
  BY DEF Check
<1> HIDE DEF a, b, c, d, e, f
<1>4. abcde \in Seq(Codes) /\ (abcde = <<>> => c = <<>> /\ e = <<>>)
  BY <1>2, Cat5Facts
<1> HIDE DEF abcde
<1> QED BY <1>1, <1>2, <1>3, <1>4, CatFacts

\* The outputs raise nothing if no output does.
LEMMA OutputFacts ==
  ASSUME NEW X, NEW outputs \in Seq(X)
  PROVE  /\ validate_outputs(outputs) \in Seq(Codes)
         /\ validate_outputs(outputs) = <<>> <=>
              \A i \in 1..Len(outputs) : validate_output(outputs[i]) = <<>>
<1>1. ASSUME NEW o PROVE validate_output(o) \in Seq(Codes)
  <2>1. validate_bind_addr(o.addr) \in Seq(Codes)
    BY Raised DEF validate_bind_addr, Check, Codes
  <2>2. validate_max_clients(o.max_clients) \in Seq(Codes)
    BY Raised DEF validate_max_clients, Check, Codes
  <2>3. validate_bind_addr(o.addr) \o validate_max_clients(o.max_clients) \in Seq(Codes)
    BY <2>1, <2>2, CatFacts
  <2> QED BY <2>3, Raised DEF validate_output
<1> DEFINE failing == {i \in DOMAIN outputs : validate_output(outputs[i]) # <<>>}
<1>2. validate_outputs(outputs) =
        IF failing = {} THEN <<>> ELSE validate_output(outputs[Min(failing)])
  BY DEF validate_outputs
<1>3. DOMAIN outputs = 1..Len(outputs)
  OBVIOUS
<1>4. CASE failing = {}
  <2>1. \A i \in 1..Len(outputs) : validate_output(outputs[i]) = <<>>
    BY <1>3, <1>4
  <2> QED BY <1>2, <1>4, <2>1
<1>5. CASE failing # {}
  <2>1. failing \subseteq Nat
    BY <1>3
  <2>2. Min(failing) \in failing
    BY <1>5, <2>1, MinFacts
  <2>3. Min(failing) \in 1..Len(outputs) /\ validate_output(outputs[Min(failing)]) # <<>>
    BY <2>2, <1>3
  <2>4. validate_outputs(outputs) = validate_output(outputs[Min(failing)])
    BY <1>2, <1>5
  <2> HIDE DEF failing
  <2> QED BY <1>1, <2>3, <2>4
<1> QED BY <1>4, <1>5

\* A sequence of elements of a set is one of elements of a larger set.
LEMMA Widen ==
  ASSUME NEW S, NEW T, S \subseteq T, NEW s \in Seq(S)
  PROVE  s \in Seq(T)
OBVIOUS

\* A selection that is not empty is sorted, without repetition, and not empty.
LEMMA NormaliseFacts ==
  ASSUME NEW raw, IsOption(raw), raw # None => raw[1] \in Seq(Nat), raw # Some(<<>>)
  PROVE  /\ raw = None => normalise_channel_selection(raw) = None
         /\ raw # None =>
              LET s == normalise_channel_selection(raw)[1]
              IN /\ normalise_channel_selection(raw) = Some(s)
                 /\ s \in Seq(Nat) /\ s # <<>> /\ ToSet(s) = ToSet(raw[1])
                 /\ \A i, j \in 1..Len(s) : i < j => s[i] < s[j]
<1>1. CASE raw = None
  BY <1>1 DEF normalise_channel_selection
<1>2. CASE raw # None
  <2> DEFINE S == ToSet(raw[1])
             A == Ascending(S)
  <2>1. raw = Some(raw[1]) /\ raw[1] \in Seq(Nat) /\ raw[1] # <<>>
    BY <1>2 DEF IsOption, Some
  <2>2. IsFiniteSet(S) /\ S \subseteq Nat /\ S # {}
    BY <2>1, ElementsFinite
  <2>3. normalise_channel_selection(raw) = Some(A)
    BY <1>2 DEF normalise_channel_selection
  <2>4. normalise_channel_selection(raw)[1] = A
    BY <2>3 DEF Some
  <2> HIDE DEF S
  <2>5. /\ A \in Seq(S) /\ Len(A) = Cardinality(S) /\ ToSet(A) = S /\ A # <<>>
        /\ \A i, j \in 1..Cardinality(S) : i < j => A[i] < A[j]
    BY <2>2, AscendingFacts
  <2> HIDE DEF A
  <2>6. A \in Seq(Nat)
    BY <2>2, <2>5, Widen
  <2> QED BY <1>2, <2>3, <2>4, <2>5, <2>6 DEF S
<1> QED BY <1>1, <1>2

\* An input that the resolution lets through is one that App::new accepts: a
\* test signal if one is asked for, and otherwise the device, by a name that is
\* not blank.
LEMMA InputFacts ==
  ASSUME NEW args, NEW device, NEW channels,
         device # None => device[1] \notin BlankNames,
         IsOption(channels), channels # None => channels[1] \in Seq(Nat),
         resolve_input(args, device, channels).ok
  PROVE  LET chosen == resolve_input(args, device, channels).value
         IN /\ validate_input(chosen) = <<>>
            /\ args.test_sweep # None => chosen.kind = "sweep"
            /\ args.test_sweep = None /\ args.test_hz # None => chosen.kind = "tone"
            /\ args.test_sweep = None /\ args.test_hz = None =>
                 /\ device # None /\ channels # Some(<<>>)
                 /\ chosen = [kind |-> "device", name |-> device[1],
                             channels |-> normalise_channel_selection(channels)]
<1> DEFINE chosen == resolve_input(args, device, channels).value
           signal == IF args.test_sweep # None
                       THEN [kind |-> "sweep", hz |-> args.test_sweep[1]]
                       ELSE [kind |-> "tone", hz |-> args.test_hz[1]]
           selection == Check(channels # Some(<<>>), "EmptyChannelSelection")
           named == [kind |-> "device", name |-> device[1],
                     channels |-> normalise_channel_selection(channels)]
<1>1. selection \in Seq(Codes) /\ (selection = <<>> => channels # Some(<<>>))
  BY Raised DEF Check, Codes
<1>2. CASE args.test_sweep # None \/ args.test_hz # None
  <2>1. resolve_input(args, device, channels) =
          Result(selection \o validate_test_signal(signal), signal)
    BY <1>2 DEF resolve_input
  <2>2. validate_test_signal(signal) \in Seq(Codes)
    BY Raised DEF validate_test_signal, Check, Codes
  <2>3. selection \o validate_test_signal(signal) = <<>> /\ chosen = signal
    BY <2>1 DEF Result, Ok, Err
  <2>4. signal.kind = IF args.test_sweep # None THEN "sweep" ELSE "tone"
    OBVIOUS
  <2> HIDE DEF selection, signal
  <2>5. validate_test_signal(signal) = <<>>
    BY <1>1, <2>2, <2>3, CatFacts
  <2>6. validate_input(signal) = <<>>
    BY <2>4, <2>5 DEF validate_input
  <2> QED BY <1>2, <2>3, <2>4, <2>6
<1>3. CASE args.test_sweep = None /\ args.test_hz = None /\ device = None
  <2>1. resolve_input(args, device, channels) = Result(selection \o <<"MissingDevice">>, None)
    BY <1>3 DEF resolve_input
  <2>2. <<"MissingDevice">> \in Seq(Codes) /\ <<"MissingDevice">> # <<>>
    BY Raised DEF Codes
  <2>3. selection \o <<"MissingDevice">> # <<>>
    <3> HIDE DEF selection
    <3> QED BY <1>1, <2>2, CatFacts
  <2> QED BY <2>1, <2>3 DEF Result, Ok, Err
<1>4. CASE args.test_sweep = None /\ args.test_hz = None /\ device # None
  <2>1. resolve_input(args, device, channels) = Result(selection, named)
    BY <1>4 DEF resolve_input
  <2>2. selection = <<>> /\ chosen = named
    BY <2>1 DEF Result, Ok, Err
  <2>3. named.kind = "device" /\ named.name = device[1]
        /\ named.channels = normalise_channel_selection(channels)
    OBVIOUS
  <2>4. normalise_channel_selection(channels) # Some(<<>>)
    <3>1. channels # Some(<<>>)
      BY <1>1, <2>2
    <3>2. CASE channels = None
      BY <3>1, <3>2, NormaliseFacts DEF None, Some
    <3>3. CASE channels # None
      BY <3>1, <3>3, NormaliseFacts DEF Some
    <3> QED BY <3>2, <3>3
  <2>5. validate_input(named) = Check(device[1] \notin BlankNames, "MissingDevice")
                                \o Check(named.channels # Some(<<>>), "EmptyChannelSelection")
    BY <2>3 DEF validate_input
  <2>6. Check(device[1] \notin BlankNames, "MissingDevice") = <<>>
    BY <1>4 DEF Check
  <2>7. Check(named.channels # Some(<<>>), "EmptyChannelSelection") = <<>>
    BY <2>3, <2>4 DEF Check
  <2>8. validate_input(named) = <<>>
    BY <2>5, <2>6, <2>7
  <2> QED BY <1>1, <1>4, <2>2, <2>8
<1> QED BY <1>2, <1>3, <1>4

\* That it is accepted, by itself.
LEMMA InputValid ==
  ASSUME NEW args, NEW device, NEW channels,
         device # None => device[1] \notin BlankNames,
         IsOption(channels), channels # None => channels[1] \in Seq(Nat),
         resolve_input(args, device, channels).ok
  PROVE  validate_input(resolve_input(args, device, channels).value) = <<>>
<1> DEFINE chosen == resolve_input(args, device, channels).value
<1>1. /\ validate_input(chosen) = <<>>
      /\ args.test_sweep # None => chosen.kind = "sweep"
      /\ args.test_sweep = None /\ args.test_hz # None => chosen.kind = "tone"
      /\ args.test_sweep = None /\ args.test_hz = None =>
           /\ device # None /\ channels # Some(<<>>)
           /\ chosen = [kind |-> "device", name |-> device[1],
                        channels |-> normalise_channel_selection(channels)]
  BY InputFacts
<1> QED BY <1>1

\* The same of the MIDI input.
LEMMA MidiFacts ==
  ASSUME NEW args, NEW device,
         device # None => device[1] \notin BlankNames,
         resolve_midi_input(args, device).ok
  PROVE  LET midi == resolve_midi_input(args, device).value
         IN /\ validate_midi_input(midi) = <<>>
            /\ args.test_midi_clock # None =>
                 midi = Some([kind |-> "clock", bpm |-> args.test_midi_clock[1]])
            /\ args.test_midi_clock = None =>
                 midi = IF device = None THEN None
                        ELSE Some([kind |-> "device", name |-> device[1]])
<1> DEFINE midi == resolve_midi_input(args, device).value
           clock == [kind |-> "clock", bpm |-> args.test_midi_clock[1]]
           named == [kind |-> "device", name |-> device[1]]
<1>1. CASE args.test_midi_clock # None
  <2>1. resolve_midi_input(args, device) =
          Result(midi_tick_interval(args.test_midi_clock[1]), Some(clock))
    BY <1>1 DEF resolve_midi_input
  <2>2. midi_tick_interval(args.test_midi_clock[1]) = <<>> /\ midi = Some(clock)
    BY <2>1 DEF Result, Ok, Err
  <2>3. midi # None /\ midi[1].kind = "clock" /\ midi[1].bpm = args.test_midi_clock[1]
    BY <2>2 DEF Some, None
  <2> HIDE DEF midi
  <2>4. validate_midi_input(midi) = midi_tick_interval(midi[1].bpm)
    BY <2>3 DEF validate_midi_input
  <2> QED BY <1>1, <2>2, <2>3, <2>4 DEF midi
<1>2. CASE args.test_midi_clock = None /\ device # None
  <2>1. resolve_midi_input(args, device) = Ok(Some(named))
    BY <1>2 DEF resolve_midi_input
  <2>2. midi = Some(named)
    BY <2>1 DEF Ok
  <2>3. midi # None /\ midi[1].kind = "device" /\ midi[1].name = device[1]
    BY <2>2 DEF Some, None
  <2> HIDE DEF midi
  <2>4. validate_midi_input(midi) =
          Check(midi[1].name \notin BlankNames, "InvalidMidiDeviceName")
    BY <2>3 DEF validate_midi_input
  <2>5. validate_midi_input(midi) = <<>>
    BY <1>2, <2>3, <2>4 DEF Check
  <2> QED BY <1>2, <2>2, <2>5 DEF midi
<1>3. CASE args.test_midi_clock = None /\ device = None
  <2>1. resolve_midi_input(args, device) = Ok(None)
    BY <1>3 DEF resolve_midi_input
  <2>2. midi = None
    BY <2>1 DEF Ok
  <2>3. validate_midi_input(None) = <<>>
    BY DEF validate_midi_input
  <2> QED BY <1>3, <2>2, <2>3
<1> QED BY <1>1, <1>2, <1>3
-----------------------------------------------------------------------------
(***************************************************************************)
(* The resolution                                                          *)
(***************************************************************************)
\* What resolve_with_outputs makes of its layers, part by part.
ResolvedInput(args, file) ==
  resolve_input(args, NonBlank(layered(args, file, "device")), layered(args, file, "channels"))
ResolvedMidi(args, file) ==
  resolve_midi_input(args, NonBlank(layered(args, file, "midi_device")))
ResolvedVocoder(args, file) ==
  [f \in VocoderFields |-> Or(layered(args, file, f), Some(VocoderDefaults[f]))[1]]
WebSocketOf(args, file) ==
  [a \in DOMAIN layered(args, file, "ws_addr") |->
     [transport |-> "websocket", addr |-> layered(args, file, "ws_addr")[1],
      max_clients |-> Or(layered(args, file, "max_clients"), Some(DEFAULT_MAX_CLIENTS))[1],
      no_browser_origin |-> args.no_browser_origin]]
OscOf(args, file) ==
  [a \in DOMAIN layered(args, file, "osc_addr") |->
     [transport |-> "osc", addr |-> layered(args, file, "osc_addr")[1]]]
OutputsOf(args, file, extra) == WebSocketOf(args, file) \o OscOf(args, file) \o extra

\* The outputs of a caller of its own: none, or the frame region.
Extras == {<<>>, <<FrameRegionOutput>>}

\* A setting of two layers is a setting.
LEMMA LayeredFacts ==
  ASSUME NEW args, NEW file, IsLayer(args.layer), IsLayer(file)
  PROVE  /\ \A s \in Settings :
              /\ IsOption(layered(args, file, s))
              /\ layered(args, file, s) =
                   IF args.layer[s] # None THEN args.layer[s] ELSE file[s]
         /\ \A f \in VocoderFields :
              layered(args, file, f) # None => layered(args, file, f)[1] \in Int
         /\ layered(args, file, "channels") # None =>
              layered(args, file, "channels")[1] \in Seq(Nat)
<1>1. VocoderFields \subseteq Settings /\ "channels" \in Settings
  BY DEF Settings
<1> QED BY <1>1 DEF IsLayer, layered, Or

\* A blank name is no name.
LEMMA NonBlankFacts ==
  ASSUME NEW a
  PROVE  /\ NonBlank(a) # None => NonBlank(a) = a /\ a[1] \notin BlankNames
         /\ NonBlank(a) = None => a = None \/ a[1] \in BlankNames
BY DEF NonBlank

\* An option of outputs is a sequence of them.
LEMMA OptionSeq ==
  ASSUME NEW a, IsOption(a), NEW v
  PROVE  /\ a = None => [i \in DOMAIN a |-> v] = <<>>
         /\ a # None => [i \in DOMAIN a |-> v] = <<v>>
<1>1. CASE a = None
  BY <1>1 DEF None
<1>2. CASE a # None
  <2>1. DOMAIN a = 1..1
    BY <1>2 DEF IsOption, Some
  <2> QED BY <1>2, <2>1
<1> QED BY <1>1, <1>2

\* The outputs of a resolution are a WebSocket or none, then an OSC sender or
\* none, then the caller's.
LEMMA OutputsFacts ==
  ASSUME NEW args, NEW file, IsLayer(args.layer), IsLayer(file), NEW extra \in Extras
  PROVE  LET ws == WebSocketOf(args, file)
             osc == OscOf(args, file)
             raw(s) == layered(args, file, s)
         IN /\ raw("ws_addr") = None => ws = <<>>
            /\ raw("ws_addr") # None =>
                 \E w : ws = <<w>> /\ w.transport = "websocket" /\ w.addr = raw("ws_addr")[1]
            /\ raw("osc_addr") = None => osc = <<>>
            /\ raw("osc_addr") # None =>
                 \E o : osc = <<o>> /\ o.transport = "osc" /\ o.addr = raw("osc_addr")[1]
<1> DEFINE a == layered(args, file, "ws_addr")
           b == layered(args, file, "osc_addr")
           w == [transport |-> "websocket", addr |-> a[1],
                 max_clients |-> Or(layered(args, file, "max_clients"),
                                    Some(DEFAULT_MAX_CLIENTS))[1],
                 no_browser_origin |-> args.no_browser_origin]
           o == [transport |-> "osc", addr |-> b[1]]
<1>1. "ws_addr" \in Settings /\ "osc_addr" \in Settings
  BY DEF Settings
<1>2. IsOption(a) /\ IsOption(b)
  BY <1>1, LayeredFacts
<1>3. w.transport = "websocket" /\ w.addr = a[1] /\ o.transport = "osc" /\ o.addr = b[1]
  OBVIOUS
<1>4. WebSocketOf(args, file) = [i \in DOMAIN a |-> w] /\ OscOf(args, file) = [i \in DOMAIN b |-> o]
  BY DEF WebSocketOf, OscOf
<1> HIDE DEF a, b, w, o
<1>5. /\ a = None => [i \in DOMAIN a |-> w] = <<>>
      /\ a # None => [i \in DOMAIN a |-> w] = <<w>>
  BY <1>2, OptionSeq
<1>6. /\ b = None => [i \in DOMAIN b |-> o] = <<>>
      /\ b # None => [i \in DOMAIN b |-> o] = <<o>>
  BY <1>2, OptionSeq
<1>7. a # None => \E x : WebSocketOf(args, file) = <<x>> /\ x.transport = "websocket" /\ x.addr = a[1]
  BY <1>3, <1>4, <1>5
<1>8. b # None => \E x : OscOf(args, file) = <<x>> /\ x.transport = "osc" /\ x.addr = b[1]
  BY <1>3, <1>4, <1>6
<1> QED BY <1>4, <1>5, <1>6, <1>7, <1>8 DEF a, b

\* A result has an error unless it is ok.
LEMMA ErrorsFacts ==
  ASSUME NEW r, NEW X, r.error \in X
  PROVE  ErrorsOf(r) \in Seq(X) /\ (ErrorsOf(r) = <<>> => r.ok)
<1>1. CASE r.ok
  BY <1>1 DEF ErrorsOf
<1>2. CASE ~r.ok
  <2>1. ErrorsOf(r) = <<r.error>>
    BY <1>2 DEF ErrorsOf
  <2> QED BY <2>1
<1> QED BY <1>1, <1>2

\* What a resolution that raises nothing has made and checked.
LEMMA ResolveFacts ==
  ASSUME NEW args, NEW file, IsLayer(args.layer), IsLayer(file), NEW extra \in Extras,
         resolve_with_outputs(args, file, extra).ok
  PROVE  LET outputs == OutputsOf(args, file, extra)
         IN /\ resolve_with_outputs(args, file, extra).value =
                 [outputs |-> outputs, input |-> ResolvedInput(args, file).value,
                  midi_input |-> ResolvedMidi(args, file).value,
                  vocoder_config |-> ResolvedVocoder(args, file)]
            /\ ResolvedInput(args, file).ok /\ ResolvedMidi(args, file).ok
            /\ validate_vocoder_fields(ResolvedVocoder(args, file)) = <<>>
            /\ validate_outputs(WebSocketOf(args, file)) = <<>>
            /\ outputs # <<>>
            /\ \A i, j \in DOMAIN outputs :
                 outputs[i].transport = outputs[j].transport => i = j
<1> DEFINE outputs == OutputsOf(args, file, extra)
           i1 == ErrorsOf(ResolvedInput(args, file))
           m1 == ErrorsOf(ResolvedMidi(args, file))
           v1 == validate_vocoder_fields(ResolvedVocoder(args, file))
           w1 == validate_outputs(WebSocketOf(args, file))
           o1 == ConfigOutputs_new(outputs)
           errors == i1 \o m1 \o v1 \o w1 \o o1
           made == [outputs |-> outputs, input |-> ResolvedInput(args, file).value,
                    midi_input |-> ResolvedMidi(args, file).value,
                    vocoder_config |-> ResolvedVocoder(args, file)]
           X == Codes \cup {ResolvedInput(args, file).error, ResolvedMidi(args, file).error}
<1>1. resolve_with_outputs(args, file, extra) =
        IF errors # <<>> THEN Err(errors[1]) ELSE Ok(made)
  BY DEF resolve_with_outputs, ResolvedInput, ResolvedMidi, ResolvedVocoder, WebSocketOf,
         OscOf, OutputsOf
<1>2. i1 \in Seq(X) /\ (i1 = <<>> => ResolvedInput(args, file).ok)
  BY ErrorsFacts
<1>3. m1 \in Seq(X) /\ (m1 = <<>> => ResolvedMidi(args, file).ok)
  BY ErrorsFacts
<1>4. v1 \in Seq(X)
  BY VocoderFacts, Widen
<1>5. w1 \in Seq(X)
  <2>1. \E S : WebSocketOf(args, file) \in Seq(S)
    <3>1. CASE layered(args, file, "ws_addr") = None
      <4>1. WebSocketOf(args, file) = <<>> /\ <<>> \in Seq({})
        BY <3>1, OutputsFacts
      <4> QED BY <4>1
    <3>2. CASE layered(args, file, "ws_addr") # None
      <4>1. PICK w : WebSocketOf(args, file) = <<w>>
        BY <3>2, OutputsFacts
      <4>2. <<w>> \in Seq({w})
        OBVIOUS
      <4> QED BY <4>1, <4>2
    <3> QED BY <3>1, <3>2
  <2>2. validate_outputs(WebSocketOf(args, file)) \in Seq(Codes)
    BY <2>1, OutputFacts
  <2> QED BY <2>2, Widen
<1>6. /\ o1 \in Seq(X)
      /\ o1 = <<>> => /\ outputs # <<>>
                      /\ \A i, j \in DOMAIN outputs :
                           outputs[i].transport = outputs[j].transport => i = j
  <2> DEFINE p == outputs # <<>>
             q == \A i, j \in DOMAIN outputs : outputs[i].transport = outputs[j].transport => i = j
             e == Check(p, "NoOutputConfigured")
             d == Check(q, "DuplicateOutputTransport")
  <2>1. o1 = e \o d
    BY DEF ConfigOutputs_new
  <2>2. e \in Seq(Codes) /\ (e = <<>> => p)
    BY Raised DEF Check, Codes
  <2>3. d \in Seq(Codes) /\ (d = <<>> => q)
    BY Raised, Zenon DEF Check, Codes
  <2> HIDE DEF p, q, e, d, o1, outputs
  <2>4. o1 \in Seq(Codes) /\ (o1 = <<>> => p /\ q)
    BY <2>1, <2>2, <2>3, CatFacts
  <2> QED BY <2>4, Widen DEF p, q
<1> HIDE DEF i1, m1, v1, w1, o1, X, made, outputs
<1>7. errors = <<>> /\ resolve_with_outputs(args, file, extra).value = made
  BY <1>1 DEF Ok, Err
<1>8. i1 = <<>> /\ m1 = <<>> /\ v1 = <<>> /\ w1 = <<>> /\ o1 = <<>>
  BY <1>2, <1>3, <1>4, <1>5, <1>6, <1>7, Cat5Facts
<1> QED BY <1>2, <1>3, <1>6, <1>7, <1>8 DEF v1, w1, made, outputs

\* The outputs that the resolution has let through raise nothing in App::new.
LEMMA OutputsValid ==
  ASSUME NEW args, NEW file, IsLayer(args.layer), IsLayer(file), NEW extra \in Extras,
         validate_outputs(WebSocketOf(args, file)) = <<>>
  PROVE  validate_outputs(OutputsOf(args, file, extra)) = <<>>
<1> DEFINE ws == WebSocketOf(args, file)
           osc == OscOf(args, file)
<1>1. PICK w : ws = <<>> \/ ws = <<w>>
  BY OutputsFacts
<1>2. PICK o : osc = <<>> \/ (osc = <<o>> /\ o.transport = "osc")
  BY OutputsFacts
<1> HIDE DEF ws, osc
<1> DEFINE good == {x \in {w, o, FrameRegionOutput} : validate_output(x) = <<>>}
<1>3. ws \in Seq(good)
  <2>1. CASE ws = <<>>
    BY <2>1
  <2>2. CASE ws = <<w>>
    <3>1. <<w>> \in Seq({w}) /\ Len(<<w>>) = 1 /\ <<w>>[1] = w
      OBVIOUS
    <3>2. validate_outputs(<<w>>) = <<>>
      BY <2>2 DEF ws
    <3>3. \A i \in 1..Len(<<w>>) : validate_output(<<w>>[i]) = <<>>
      BY <3>1, <3>2, OutputFacts
    <3>4. validate_output(w) = <<>>
      BY <3>1, <3>3
    <3>5. w \in good
      BY <3>4
    <3> HIDE DEF good
    <3> QED BY <2>2, <3>5
  <2> QED BY <1>1, <2>1, <2>2
<1>4. osc \in Seq(good)
  <2>1. CASE osc = <<>>
    BY <2>1
  <2>2. CASE osc = <<o>> /\ o.transport = "osc"
    <3>1. validate_output(o) = <<>>
      BY <2>2 DEF validate_output
    <3>2. o \in good
      BY <3>1
    <3> HIDE DEF good
    <3> QED BY <2>2, <3>2
  <2> QED BY <1>2, <2>1, <2>2
<1>5. extra \in Seq(good)
  <2>1. FrameRegionOutput \in good
    BY DEF FrameRegionOutput, validate_output
  <2> HIDE DEF good
  <2>2. <<>> \in Seq(good) /\ <<FrameRegionOutput>> \in Seq(good)
    BY <2>1
  <2> QED BY <2>2 DEF Extras
<1> DEFINE outputs == ws \o osc \o extra
<1>6. outputs \in Seq(good)
  <2> HIDE DEF good
  <2> QED BY <1>3, <1>4, <1>5, ConcatProperties
<1>7. \A i \in 1..Len(outputs) : validate_output(outputs[i]) = <<>>
  <2>1. \A i \in 1..Len(outputs) : outputs[i] \in good
    <3> HIDE DEF good, outputs
    <3> QED BY <1>6
  <2> HIDE DEF outputs
  <2> QED BY <2>1
<1>8. validate_outputs(outputs) = <<>>
  <2> HIDE DEF good, outputs
  <2> QED BY <1>6, <1>7, OutputFacts
<1> QED BY <1>8 DEF OutputsOf, ws, osc

\* App::new accepts what the resolution accepts.
LEMMA ResolvedValid ==
  ASSUME NEW args, NEW file, IsLayer(args.layer), IsLayer(file), NEW extra \in Extras,
         resolve_with_outputs(args, file, extra).ok
  PROVE  validate_app_config(resolve_with_outputs(args, file, extra).value) = <<>>
<1> DEFINE c == resolve_with_outputs(args, file, extra).value
           device == NonBlank(layered(args, file, "device"))
           channels == layered(args, file, "channels")
           midi == NonBlank(layered(args, file, "midi_device"))
<1>1. /\ c = [outputs |-> OutputsOf(args, file, extra), input |-> ResolvedInput(args, file).value,
              midi_input |-> ResolvedMidi(args, file).value,
              vocoder_config |-> ResolvedVocoder(args, file)]
      /\ ResolvedInput(args, file).ok /\ ResolvedMidi(args, file).ok
      /\ validate_vocoder_fields(ResolvedVocoder(args, file)) = <<>>
      /\ validate_outputs(WebSocketOf(args, file)) = <<>>
  BY ResolveFacts
<1>2. validate_input(c.input) = <<>>
  <2>1. device # None => device[1] \notin BlankNames
    BY NonBlankFacts
  <2>2. IsOption(channels) /\ (channels # None => channels[1] \in Seq(Nat))
    BY LayeredFacts DEF Settings
  <2>3. resolve_input(args, device, channels).ok /\ c.input = resolve_input(args, device, channels).value
    BY <1>1 DEF ResolvedInput
  <2> HIDE DEF device, channels
  <2>4. validate_input(resolve_input(args, device, channels).value) = <<>>
    BY <2>1, <2>2, <2>3, InputValid
  <2> HIDE DEF c
  <2> QED BY <2>3, <2>4
<1>3. validate_midi_input(c.midi_input) = <<>>
  <2>1. midi # None => midi[1] \notin BlankNames
    BY NonBlankFacts
  <2>2. resolve_midi_input(args, midi).ok /\ c.midi_input = resolve_midi_input(args, midi).value
    BY <1>1 DEF ResolvedMidi
  <2> HIDE DEF midi, c
  <2> QED BY <2>1, <2>2, MidiFacts
<1>4. validate_outputs(c.outputs) = <<>>
  BY <1>1, OutputsValid
<1>5. validate_vocoder_fields(c.vocoder_config) = <<>>
  BY <1>1
<1> HIDE DEF c
<1>6. validate_app_config(c) = <<>> \o <<>> \o <<>> \o <<>>
  BY <1>2, <1>3, <1>4, <1>5 DEF validate_app_config
<1> QED BY <1>6 DEF c

\* The elements of sequences put together.
LEMMA ElementFacts ==
  /\ ToSet(<<>>) = {}
  /\ \A x : ToSet(<<x>>) = {x}
  /\ \A A : \A a, b \in Seq(A) : a \o b \in Seq(A) /\ ToSet(a \o b) = ToSet(a) \cup ToSet(b)
<1>1. ToSet(<<>>) = {}
  BY DEF ToSet
<1>2. ASSUME NEW x PROVE ToSet(<<x>>) = {x}
  <2>1. DOMAIN <<x>> = 1..1 /\ <<x>>[1] = x
    OBVIOUS
  <2> QED BY <2>1 DEF ToSet
<1>3. ASSUME NEW A, NEW a \in Seq(A), NEW b \in Seq(A)
      PROVE  a \o b \in Seq(A) /\ ToSet(a \o b) = ToSet(a) \cup ToSet(b)
  <2> DEFINE s == a \o b
             m == Len(a)
             n == Len(b)
  <2>1. /\ s \in Seq(A) /\ Len(s) = m + n
        /\ \A i \in 1..(m + n) : s[i] = IF i <= m THEN a[i] ELSE b[i - m]
    BY ConcatProperties
  <2>2. m \in Nat /\ n \in Nat /\ DOMAIN a = 1..m /\ DOMAIN b = 1..n /\ DOMAIN s = 1..(m + n)
    BY <2>1
  <2> HIDE DEF s, m, n
  <2>3. ASSUME NEW x \in ToSet(s) PROVE x \in ToSet(a) \cup ToSet(b)
    <3>1. PICK i \in 1..(m + n) : x = s[i]
      BY <2>2 DEF ToSet
    <3>2. CASE i <= m
      <4>1. i \in 1..m /\ x = a[i]
        BY <2>1, <2>2, <3>1, <3>2
      <4> QED BY <4>1, <2>2 DEF ToSet
    <3>3. CASE i > m
      <4>1. i - m \in 1..n /\ x = b[i - m]
        BY <2>1, <2>2, <3>1, <3>3
      <4> QED BY <4>1, <2>2 DEF ToSet
    <3> QED BY <2>2, <3>2, <3>3
  <2>4. ASSUME NEW x \in ToSet(a) PROVE x \in ToSet(s)
    <3>1. PICK i \in 1..m : x = a[i]
      BY <2>2 DEF ToSet
    <3>2. i \in 1..(m + n) /\ s[i] = x
      BY <2>1, <2>2, <3>1
    <3> QED BY <2>2, <3>2 DEF ToSet
  <2>5. ASSUME NEW x \in ToSet(b) PROVE x \in ToSet(s)
    <3>1. PICK i \in 1..n : x = b[i]
      BY <2>2 DEF ToSet
    <3>2. i + m \in 1..(m + n) /\ s[i + m] = x
      <4>1. i + m \in 1..(m + n) /\ ~(i + m <= m) /\ (i + m) - m = i
        BY <2>2
      <4> QED BY <4>1, <2>1, <3>1
    <3> QED BY <2>2, <3>2 DEF ToSet
  <2> QED BY <2>1, <2>3, <2>4, <2>5 DEF s
<1> QED BY <1>1, <1>2, <1>3

\* Each setting of two layers, as one function.
LEMMA GivenFacts ==
  ASSUME NEW args, NEW file, IsLayer(args.layer), IsLayer(file)
  PROVE  \A s \in Settings :
           /\ Over(args.layer, file)[s] = layered(args, file, s)
           /\ IsOption(Over(args.layer, file)[s])
<1>1. \A s \in Settings :
        Over(args.layer, file)[s] = IF args.layer[s] # None THEN args.layer[s] ELSE file[s]
  BY DEF Over
<1> QED BY <1>1, LayeredFacts

\* The outputs are those that were given an address and the caller's own;
\* without an address only the caller's are there.
LEMMA OutputsLayered ==
  ASSUME NEW args, NEW file, IsLayer(args.layer), IsLayer(file), NEW extra \in Extras
  PROVE  LET outputs == OutputsOf(args, file, extra)
             given == Over(args.layer, file)
         IN /\ given["ws_addr"] = None /\ given["osc_addr"] = None => outputs = extra
            /\ ToSet(outputs) = OutputsFrom(given, args.no_browser_origin) \cup ToSet(extra)
<1> DEFINE ws == WebSocketOf(args, file)
           osc == OscOf(args, file)
           a == layered(args, file, "ws_addr")
           b == layered(args, file, "osc_addr")
           n == layered(args, file, "max_clients")
           clients == IF n = None THEN DEFAULT_MAX_CLIENTS ELSE n[1]
           w(addr) == [transport |-> "websocket", addr |-> addr, max_clients |-> clients,
                       no_browser_origin |-> args.no_browser_origin]
           o(addr) == [transport |-> "osc", addr |-> addr]
           outputs == ws \o osc \o extra
<1>1. /\ Over(args.layer, file)["ws_addr"] = a /\ IsOption(a)
      /\ Over(args.layer, file)["osc_addr"] = b /\ IsOption(b)
      /\ Over(args.layer, file)["max_clients"] = n
  <2>1. {"ws_addr", "osc_addr", "max_clients"} \subseteq Settings
    BY DEF Settings
  <2> QED BY <2>1, GivenFacts
<1>2. ws = [i \in DOMAIN a |-> w(a[1])] /\ osc = [i \in DOMAIN b |-> o(b[1])]
  <2>1. Or(n, Some(DEFAULT_MAX_CLIENTS))[1] = clients
    BY DEF Or, Some
  <2> HIDE DEF clients
  <2> QED BY <2>1 DEF WebSocketOf, OscOf
<1>3. OutputsFrom(Over(args.layer, file), args.no_browser_origin) =
        {w(addr) : addr \in ToSet(a)} \cup {o(addr) : addr \in ToSet(b)}
  BY <1>1 DEF OutputsFrom
<1> HIDE DEF ws, osc, a, b, w, o
<1>4. /\ a = None => ws = <<>> /\ ToSet(a) = {}
      /\ a # None => ws = <<w(a[1])>> /\ ToSet(a) = {a[1]}
  <2> DEFINE v == w(a[1])
  <2>1. ws = [i \in DOMAIN a |-> v]
    BY <1>2
  <2> HIDE DEF v
  <2>2. /\ a = None => [i \in DOMAIN a |-> v] = <<>>
        /\ a # None => [i \in DOMAIN a |-> v] = <<v>>
    <3>1. IsOption(a)
      BY <1>1
    <3> QED BY <3>1, OptionSeq
  <2>3. a = None => ToSet(a) = {}
    BY ElementFacts DEF None
  <2>4. a # None => ToSet(a) = {a[1]}
    BY <1>1, ElementFacts DEF IsOption, Some
  <2> QED BY <2>1, <2>2, <2>3, <2>4 DEF v
<1>5. /\ b = None => osc = <<>> /\ ToSet(b) = {}
      /\ b # None => osc = <<o(b[1])>> /\ ToSet(b) = {b[1]}
  <2> DEFINE v == o(b[1])
  <2>1. osc = [i \in DOMAIN b |-> v]
    BY <1>2
  <2> HIDE DEF v
  <2>2. /\ b = None => [i \in DOMAIN b |-> v] = <<>>
        /\ b # None => [i \in DOMAIN b |-> v] = <<v>>
    <3>1. IsOption(b)
      BY <1>1
    <3> QED BY <3>1, OptionSeq
  <2>3. b = None => ToSet(b) = {}
    BY ElementFacts DEF None
  <2>4. b # None => ToSet(b) = {b[1]}
    BY <1>1, ElementFacts DEF IsOption, Some
  <2> QED BY <2>1, <2>2, <2>3, <2>4 DEF v
<1>6. ToSet(ws) = {w(addr) : addr \in ToSet(a)} /\ ToSet(osc) = {o(addr) : addr \in ToSet(b)}
  <2>1. ToSet(ws) = {w(addr) : addr \in ToSet(a)}
    BY <1>4, ElementFacts
  <2>2. ToSet(osc) = {o(addr) : addr \in ToSet(b)}
    BY <1>5, ElementFacts
  <2> QED BY <2>1, <2>2
<1>7. (\E W : ws \in Seq(W)) /\ (\E O : osc \in Seq(O))
  <2>1. <<>> \in Seq({}) /\ \A x : <<x>> \in Seq({x})
    OBVIOUS
  <2>2. \E W : ws \in Seq(W)
    BY <1>4, <2>1
  <2>3. \E O : osc \in Seq(O)
    BY <1>5, <2>1
  <2> QED BY <2>2, <2>3
<1>8. extra \in Seq({FrameRegionOutput})
  <2>1. <<>> \in Seq({FrameRegionOutput}) /\ \A x : <<x>> \in Seq({x})
    OBVIOUS
  <2> QED BY <2>1 DEF Extras
<1>9. ToSet(outputs) = ToSet(ws) \cup ToSet(osc) \cup ToSet(extra)
  <2> DEFINE U == UNION {ToSet(ws), ToSet(osc), ToSet(extra)}
             wo == ws \o osc
  <2>1. ws \in Seq(U) /\ osc \in Seq(U)
    BY <1>7 DEF ToSet
  <2>2. extra \in Seq(U)
    BY <1>8 DEF ToSet
  <2> HIDE DEF U
  <2>3. wo \in Seq(U) /\ ToSet(wo) = ToSet(ws) \cup ToSet(osc)
    BY <2>1, ElementFacts
  <2> HIDE DEF wo
  <2>4. ToSet(wo \o extra) = ToSet(wo) \cup ToSet(extra)
    BY <2>2, <2>3, ElementFacts
  <2> QED BY <2>3, <2>4 DEF wo
<1>10. a = None /\ b = None => outputs = extra
  BY <1>4, <1>5, <1>8, ConcatEmptySeq
<1> HIDE DEF outputs
<1>11. OutputsOf(args, file, extra) = outputs
  BY DEF outputs, OutputsOf, ws, osc
<1> QED BY <1>1, <1>3, <1>6, <1>9, <1>10, <1>11

\* The same, part by part.
LEMMA ResolvedParts ==
  ASSUME NEW args, NEW file, IsLayer(args.layer), IsLayer(file), NEW extra \in Extras,
         resolve_with_outputs(args, file, extra).ok
  PROVE  LET c == resolve_with_outputs(args, file, extra).value
         IN /\ c.outputs = OutputsOf(args, file, extra)
            /\ c.input = ResolvedInput(args, file).value /\ ResolvedInput(args, file).ok
            /\ c.midi_input = ResolvedMidi(args, file).value /\ ResolvedMidi(args, file).ok
            /\ c.vocoder_config = ResolvedVocoder(args, file)
            /\ validate_vocoder_fields(ResolvedVocoder(args, file)) = <<>>
            /\ c.outputs # <<>>
            /\ \A i, j \in DOMAIN c.outputs :
                 c.outputs[i].transport = c.outputs[j].transport => i = j
<1> DEFINE c == resolve_with_outputs(args, file, extra).value
           outputs == OutputsOf(args, file, extra)
<1>1. c = [outputs |-> outputs, input |-> ResolvedInput(args, file).value,
           midi_input |-> ResolvedMidi(args, file).value,
           vocoder_config |-> ResolvedVocoder(args, file)]
  BY ResolveFacts
<1> HIDE DEF c
<1>2. /\ ResolvedInput(args, file).ok /\ ResolvedMidi(args, file).ok
      /\ validate_vocoder_fields(ResolvedVocoder(args, file)) = <<>>
      /\ outputs # <<>>
      /\ \A i, j \in DOMAIN outputs : outputs[i].transport = outputs[j].transport => i = j
  BY ResolveFacts
<1> HIDE DEF outputs
<1> QED BY <1>1, <1>2 DEF c, outputs

\* The bands of a resolution: the settings of the layers or else the defaults,
\* in order and above zero.
LEMMA VocoderLayered ==
  ASSUME NEW args, NEW file, IsLayer(args.layer), IsLayer(file), NEW extra \in Extras,
         resolve_with_outputs(args, file, extra).ok
  PROVE  LET v == resolve_with_outputs(args, file, extra).value.vocoder_config
         IN /\ \A f \in VocoderFields :
                 /\ v[f] \in Int
                 /\ v[f] = IF layered(args, file, f) = None THEN VocoderDefaults[f]
                           ELSE layered(args, file, f)[1]
            /\ 0 < v.freq_low /\ v.freq_low < v.freq_high
<1> DEFINE v == resolve_with_outputs(args, file, extra).value.vocoder_config
<1>1. v = ResolvedVocoder(args, file) /\ validate_vocoder_fields(v) = <<>>
  BY ResolvedParts
<1> HIDE DEF v
<1>2. ASSUME NEW f \in VocoderFields
      PROVE  /\ v[f] \in Int
             /\ v[f] = IF layered(args, file, f) = None THEN VocoderDefaults[f]
                       ELSE layered(args, file, f)[1]
  <2>1. v[f] = Or(layered(args, file, f), Some(VocoderDefaults[f]))[1]
    BY <1>1 DEF ResolvedVocoder
  <2>2. v[f] = IF layered(args, file, f) = None THEN VocoderDefaults[f]
               ELSE layered(args, file, f)[1]
    BY <2>1 DEF Or, Some
  <2>3. VocoderDefaults[f] \in Int
    BY DEF VocoderDefaults, VocoderFields
  <2>4. layered(args, file, f) # None => layered(args, file, f)[1] \in Int
    BY LayeredFacts
  <2> QED BY <2>2, <2>3, <2>4
<1>3. is_strictly_positive(v.freq_low) /\ v.freq_low < v.freq_high
  BY <1>1, VocoderFacts
<1>4. 0 < v.freq_low
  <2>1. v.freq_low \in Int
    BY <1>2 DEF VocoderFields
  <2> QED BY <1>3, <2>1 DEF is_strictly_positive
<1> QED BY <1>2, <1>3, <1>4 DEF v

\* The input of a resolution: a test signal if one is asked for, or else the
\* device of the layers by a name that is not blank.
LEMMA InputLayered ==
  ASSUME NEW args, NEW file, IsLayer(args.layer), IsLayer(file), NEW extra \in Extras,
         resolve_with_outputs(args, file, extra).ok
  PROVE  LET chosen == resolve_with_outputs(args, file, extra).value.input
             device == layered(args, file, "device")
             channels == layered(args, file, "channels")
         IN /\ args.test_sweep # None => chosen.kind = "sweep"
            /\ args.test_sweep = None /\ args.test_hz # None => chosen.kind = "tone"
            /\ args.test_sweep = None /\ args.test_hz = None =>
                 /\ device # None /\ device[1] \notin BlankNames /\ channels # Some(<<>>)
                 /\ chosen.kind = "device" /\ chosen.name = device[1]
                 /\ chosen.channels = normalise_channel_selection(channels)
<1> DEFINE chosen == resolve_with_outputs(args, file, extra).value.input
           device == layered(args, file, "device")
           named == NonBlank(device)
           channels == layered(args, file, "channels")
           made == [kind |-> "device", name |-> named[1],
                    channels |-> normalise_channel_selection(channels)]
<1>1. chosen = resolve_input(args, named, channels).value /\ resolve_input(args, named, channels).ok
  BY ResolvedParts DEF ResolvedInput
<1>2. named # None => named = device /\ named[1] \notin BlankNames
  BY NonBlankFacts
<1>3. IsOption(channels) /\ (channels # None => channels[1] \in Seq(Nat))
  BY LayeredFacts DEF Settings
<1>4. /\ made.kind = "device" /\ made.name = named[1]
      /\ made.channels = normalise_channel_selection(channels)
  OBVIOUS
<1> HIDE DEF named, channels
<1>5. LET found == resolve_input(args, named, channels).value
      IN /\ validate_input(found) = <<>>
         /\ args.test_sweep # None => found.kind = "sweep"
         /\ args.test_sweep = None /\ args.test_hz # None => found.kind = "tone"
         /\ args.test_sweep = None /\ args.test_hz = None =>
              named # None /\ channels # Some(<<>>) /\ found = made
  BY <1>1, <1>2, <1>3, InputFacts
<1> HIDE DEF chosen, made, device
<1> QED BY <1>1, <1>2, <1>4, <1>5 DEF chosen, device, channels

\* The MIDI input of a resolution: a clock if one is asked for, or else the
\* device of the layers unless its name is blank.
LEMMA MidiLayered ==
  ASSUME NEW args, NEW file, IsLayer(args.layer), IsLayer(file), NEW extra \in Extras,
         resolve_with_outputs(args, file, extra).ok
  PROVE  LET midi == resolve_with_outputs(args, file, extra).value.midi_input
             device == layered(args, file, "midi_device")
         IN /\ args.test_midi_clock # None =>
                 midi = Some([kind |-> "clock", bpm |-> args.test_midi_clock[1]])
            /\ args.test_midi_clock = None =>
                 midi = IF NonBlank(device) = None THEN None
                        ELSE Some([kind |-> "device", name |-> device[1]])
<1> DEFINE midi == resolve_with_outputs(args, file, extra).value.midi_input
           device == layered(args, file, "midi_device")
           named == NonBlank(device)
<1>1. midi = resolve_midi_input(args, named).value /\ resolve_midi_input(args, named).ok
  BY ResolvedParts DEF ResolvedMidi
<1>2. named # None => named = device /\ named[1] \notin BlankNames
  BY NonBlankFacts
<1> HIDE DEF named
<1>3. /\ args.test_midi_clock # None =>
           resolve_midi_input(args, named).value = Some([kind |-> "clock", bpm |-> args.test_midi_clock[1]])
      /\ args.test_midi_clock = None =>
           resolve_midi_input(args, named).value =
             IF named = None THEN None ELSE Some([kind |-> "device", name |-> named[1]])
  BY <1>1, <1>2, MidiFacts
<1> QED BY <1>1, <1>2, <1>3 DEF named
-----------------------------------------------------------------------------
(***************************************************************************)
(* What a launch and a request resolve                                     *)
(***************************************************************************)
\* The settings of a launch's file.
\* No settings are the settings of a layer.
LEMMA NoSettingsLayer == IsLayer(NoSettings) /\ \A s \in Settings : NoSettings[s] = None
<1>1. \A s \in Settings : NoSettings[s] = None
  BY DEF NoSettings
<1>2. VocoderFields \subseteq Settings /\ "channels" \in Settings
  BY DEF Settings
<1> QED BY <1>1, <1>2 DEF IsLayer, IsOption

\* A launch that resolves has its arguments over its file.
LEMMA LaunchResolves ==
  ASSUME NEW l \in Launches, AppConfig_try_from(l.args, l.explicit, l.file).ok
  PROVE  /\ IsLayer(l.args.layer) /\ IsLayer(SettingsOf(l.file))
         /\ AppConfig_try_from(l.args, l.explicit, l.file) =
              resolve_with_outputs(l.args, SettingsOf(l.file), <<>>)
<1> DEFINE loaded == load_file_config(l.explicit, l.file)
<1>1. IsLayer(l.args.layer) /\ (l.file.state # "missing" => IsText(l.file))
  BY LaunchesAssumption
<1>2. AppConfig_try_from(l.args, l.explicit, l.file) =
        IF ~loaded.ok THEN loaded ELSE resolve_with_outputs(l.args, loaded.value, <<>>)
  BY DEF AppConfig_try_from
<1>3. loaded.ok => loaded.value = SettingsOf(l.file) /\ IsLayer(SettingsOf(l.file))
  <2>1. CASE l.file.state = "missing" /\ l.explicit
    BY <2>1 DEF load_file_config, Err
  <2>2. CASE l.file.state = "missing" /\ ~l.explicit
    BY <2>2, NoSettingsLayer DEF load_file_config, Ok, SettingsOf
  <2>3. CASE l.file.state = "malformed"
    BY <2>3 DEF load_file_config, parse_file_config, Err
  <2>4. CASE l.file.state = "read"
    BY <1>1, <2>4 DEF load_file_config, parse_file_config, Ok, SettingsOf, IsText
  <2> QED BY <1>1, <2>1, <2>2, <2>3, <2>4 DEF IsText
<1> HIDE DEF loaded
<1> QED BY <1>1, <1>2, <1>3

\* What a start request holds.
IsRequest(request) ==
  /\ request.source.kind \in {"device", "test_tone", "test_sweep"}
  /\ request.source.kind = "device" =>
       /\ IsOption(request.source.channels)
       /\ request.source.channels # None => request.source.channels[1] \in Seq(Nat)
  /\ request.config_yaml # None => IsText(request.config_yaml[1])
  /\ request.midi # None => request.midi[1].kind \in {"device", "test_clock"}

\* A value that is there is an element.
LEMMA OnlyElement ==
  ASSUME NEW a, NEW x, a = <<x>>
  PROVE  x \in ToSet(a)
BY ElementFacts

\* The parts of a dictionary that are read.
LEMMA ReadFacts ==
  ASSUME NEW d, NEW key
  PROVE  /\ IsOption(get_string(d, key)) /\ IsOption(get_dictionary(d, key))
         /\ IsOption(get_array(d, key))
<1>1. ASSUME NEW type, NEW v PROVE IsOption([i \in DOMAIN Typed(d, key, type) |-> v])
  <2>1. CASE Typed(d, key, type) = None
    BY <2>1 DEF IsOption, None
  <2>2. CASE Typed(d, key, type) = Some(d[key])
    <3>1. DOMAIN Some(d[key]) = 1..1
      BY DEF Some
    <3>2. [i \in 1..1 |-> v] = <<v>> /\ <<v>>[1] = v
      OBVIOUS
    <3> QED BY <2>2, <3>1, <3>2 DEF IsOption, Some
  <2> QED BY <2>1, <2>2 DEF Typed
<1>2. IsOption(get_string(d, key))
  BY DEF get_string, IsOption, Some, None
<1> QED BY <1>1, <1>2 DEF get_dictionary, get_array

\* An array of numbers that fit.
LEMMA NumbersParsed ==
  ASSUME NEW a, Len(a) \in Nat, DOMAIN a = 1..Len(a),
         \A i \in DOMAIN a : a[i].type = "int64" /\ a[i].v \in 0..U16_MAX
  PROVE  [i \in DOMAIN a |-> a[i].v] \in Seq(Nat)
<1> DEFINE n == Len(a)
<1>1. n \in Nat /\ DOMAIN a = 1..n
  OBVIOUS
<1>2. \A x \in 0..U16_MAX : x \in Nat
  OBVIOUS
<1>3. \A i \in 1..n : a[i].v \in Nat
  BY <1>1, <1>2
<1> HIDE DEF n
<1>4. [i \in 1..n |-> a[i].v] \in Seq(Nat)
  BY <1>1, <1>3
<1> QED BY <1>1, <1>4

\* Channels that are let through are numbers.
LEMMA ChannelsParsed ==
  ASSUME NEW source, parse_channels(source).ok,
         \A a \in ToSet(get_array(source, "channels")) : Len(a) \in Nat /\ DOMAIN a = 1..Len(a)
  PROVE  LET channels == parse_channels(source).value
         IN IsOption(channels) /\ (channels # None => channels[1] \in Seq(Nat))
<1> DEFINE array == get_array(source, "channels")
           a == array[1]
           fits == \A i \in DOMAIN a : a[i].type = "int64" /\ a[i].v \in 0..U16_MAX
<1>1. ~contains(source, "channels") => array = None
  <2> SUFFICES ASSUME ~contains(source, "channels") PROVE array = None
    OBVIOUS
  <2>1. Typed(source, "channels", "array") = <<>>
    BY DEF Typed, None
  <2> QED BY <2>1 DEF get_array, None
<1>2. parse_channels(source) \in
        {Ok(None), Ok(Some([i \in DOMAIN a |-> a[i].v])), InvalidRequest}
  BY Zenon DEF parse_channels
<1>3. \/ /\ parse_channels(source) = Ok(Some([i \in DOMAIN a |-> a[i].v]))
         /\ array # None /\ fits
      \/ parse_channels(source) \in {Ok(None), InvalidRequest}
  <2>1. CASE ~contains(source, "channels")
    BY <1>1, <2>1 DEF parse_channels
  <2>2. CASE contains(source, "channels") /\ array # None /\ fits
    BY <1>2, <2>2
  <2>3. CASE contains(source, "channels") /\ ~(array # None /\ fits)
    BY <2>3 DEF parse_channels
  <2> QED BY <2>1, <2>2, <2>3
<1> HIDE DEF array
<1>4. CASE parse_channels(source) \in {Ok(None), InvalidRequest}
  BY <1>4 DEF Ok, InvalidRequest, Err, IsOption
<1>5. CASE parse_channels(source) = Ok(Some([i \in DOMAIN a |-> a[i].v])) /\ array # None /\ fits
  <2>1. array = <<a>>
    BY <1>5, ReadFacts DEF IsOption, Some, array
  <2>2. Len(a) \in Nat /\ DOMAIN a = 1..Len(a)
    BY <2>1, OnlyElement DEF array
  <2> HIDE DEF a
  <2>3. PICK numbers : numbers = [i \in DOMAIN a |-> a[i].v]
    OBVIOUS
  <2>4. numbers \in Seq(Nat)
    BY <1>5, <2>2, <2>3, NumbersParsed
  <2>5. parse_channels(source).value = Some(numbers)
    BY <1>5, <2>3 DEF Ok
  <2>6. Some(numbers) = Some(Some(numbers)[1]) /\ Some(numbers)[1] = numbers
    BY DEF Some
  <2> QED BY <2>4, <2>5, <2>6 DEF IsOption
<1> QED BY <1>3, <1>4, <1>5

\* A source that is let through is a device or a test signal.
LEMMA SourceParsed ==
  ASSUME NEW source, parse_source(source).ok,
         \A a \in ToSet(get_array(source, "channels")) : Len(a) \in Nat /\ DOMAIN a = 1..Len(a)
  PROVE  LET s == parse_source(source).value
         IN /\ s.kind \in {"device", "test_tone", "test_sweep"}
            /\ s.kind = "device" =>
                 IsOption(s.channels) /\ (s.channels # None => s.channels[1] \in Seq(Nat))
<1> DEFINE s == parse_source(source).value
           kind == get_string(source, "kind")
           named == [kind |-> "device", name |-> get_string(source, "device_name")[1],
                     channels |-> parse_channels(source).value]
           tone == [kind |-> "test_tone", hz |-> as_f32(get_f64(source, "hz")[1])]
           sweep == [kind |-> "test_sweep", hz |-> as_f32(get_f64(source, "rate_hz")[1])]
<1>0. Some("device") # Some("test_tone") /\ Some("device") # Some("test_sweep")
      /\ Some("test_tone") # Some("test_sweep")
  BY DEF Some
<1>1. CASE kind = Some("device")
  <2>1. CASE get_string(source, "device_name") # None /\ parse_channels(source).ok
    <3>1. parse_source(source) = Ok(named)
      BY <1>0, <1>1, <2>1 DEF parse_source
    <3>2. named.kind = "device" /\ named.channels = parse_channels(source).value
      OBVIOUS
    <3>3. s = named
      BY <3>1 DEF Ok
    <3>4. /\ IsOption(parse_channels(source).value)
          /\ parse_channels(source).value # None => parse_channels(source).value[1] \in Seq(Nat)
      BY <2>1, ChannelsParsed
    <3> HIDE DEF s, named
    <3> QED BY <3>2, <3>3, <3>4 DEF s
  <2>2. CASE ~(get_string(source, "device_name") # None /\ parse_channels(source).ok)
    BY <1>0, <1>1, <2>2 DEF parse_source, InvalidRequest, Err
  <2> QED BY <2>1, <2>2
<1>2. CASE kind = Some("test_tone")
  <2>1. parse_source(source) = Ok(tone) \/ parse_source(source) = InvalidRequest
    BY <1>0, <1>2 DEF parse_source
  <2>2. s = tone
    BY <2>1 DEF Ok, InvalidRequest, Err
  <2> QED BY <2>2
<1>3. CASE kind = Some("test_sweep")
  <2>1. parse_source(source) = Ok(sweep) \/ parse_source(source) = InvalidRequest
    BY <1>0, <1>3 DEF parse_source
  <2>2. s = sweep
    BY <2>1 DEF Ok, InvalidRequest, Err
  <2> QED BY <2>2
<1>4. CASE kind \notin {Some("device"), Some("test_tone"), Some("test_sweep")}
  <2>1. parse_source(source) = InvalidRequest
    BY <1>4 DEF parse_source
  <2> QED BY <2>1 DEF InvalidRequest, Err
<1> QED BY <1>1, <1>2, <1>3, <1>4

\* A MIDI part that is let through is a device or a clock.
LEMMA MidiParsed ==
  ASSUME NEW midi, parse_midi(midi).ok
  PROVE  parse_midi(midi).value.kind \in {"device", "test_clock"}
<1> DEFINE kind == get_string(midi, "kind")
           named == [kind |-> "device", name |-> get_string(midi, "device_name")[1]]
           clock == [kind |-> "test_clock", bpm |-> as_f32(get_f64(midi, "bpm")[1])]
<1>1. Some("device") # Some("test_clock")
  BY DEF Some
<1>2. CASE kind = Some("device")
  <2>1. parse_midi(midi) \in {Ok(named), InvalidRequest}
    BY <1>1, <1>2 DEF parse_midi
  <2> QED BY <2>1 DEF Ok, InvalidRequest, Err
<1>3. CASE kind = Some("test_clock")
  <2>1. parse_midi(midi) \in {Ok(clock), InvalidRequest}
    BY <1>1, <1>3 DEF parse_midi
  <2> QED BY <2>1 DEF Ok, InvalidRequest, Err
<1>4. CASE kind \notin {Some("device"), Some("test_clock")}
  <2>1. parse_midi(midi) = InvalidRequest
    BY <1>4 DEF parse_midi
  <2> QED BY <2>1 DEF InvalidRequest, Err
<1> QED BY <1>2, <1>3, <1>4

\* An optional part is absent, or is what was parsed.
LEMMA OptionalFacts ==
  ASSUME NEW message, NEW key, NEW value, NEW parsed,
         Optional(message, key, value, parsed).ok
  PROVE  \/ Optional(message, key, value, parsed).value = None
         \/ /\ value # None /\ parsed.ok
            /\ Optional(message, key, value, parsed).value = Some(parsed.value)
<1> DEFINE o == Optional(message, key, value, parsed)
<1>1. CASE ~contains(message, key)
  <2>1. o = Ok(None)
    BY <1>1 DEF Optional
  <2> QED BY <2>1 DEF Ok
<1>2. CASE contains(message, key) /\ value # None /\ parsed.ok
  <2>1. o = Ok(Some(parsed.value))
    BY <1>2 DEF Optional
  <2> QED BY <1>2, <2>1 DEF Ok
<1>3. CASE contains(message, key) /\ ~(value # None /\ parsed.ok)
  <2>1. o = InvalidRequest
    BY <1>3 DEF Optional
  <2> QED BY <2>1 DEF InvalidRequest, Err
<1> QED BY <1>1, <1>2, <1>3

\* A start request has a source, and a MIDI part and a text if it says so.
LEMMA RequestParsed ==
  ASSUME NEW m \in Messages, IsStart(m)
  PROVE  IsRequest(parse_request(m).value)
<1> DEFINE dictionary == get_dictionary(m, "source")
           source == IF dictionary = None THEN InvalidRequest ELSE parse_source(dictionary[1])
           part == get_dictionary(m, "midi")
           midiOf == IF part = None THEN InvalidRequest ELSE parse_midi(part[1])
           midi == Optional(m, "midi", part, midiOf)
           text == get_string(m, "config_yaml")
           textOf == IF text = None THEN InvalidRequest ELSE Ok(text[1])
           yaml == Optional(m, "config_yaml", text, textOf)
           start_ == [type |-> "start", source |-> source.value, midi |-> midi.value,
                      config_yaml |-> yaml.value]
           s == parse_request(m).value
<1>1. parse_request(m) = parse_start(m)
  <2> DEFINE version == get_i64(m, "v")
             type == get_string(m, "type")
             other == {"hello", "list_audio_devices", "list_midi_devices", "stop"}
  <2>1. \/ parse_request(m) = InvalidRequest
        \/ parse_request(m) = Err("ContractMismatch")
        \/ parse_request(m) = parse_start(m)
        \/ (parse_request(m) = Ok([type |-> type[1]]) /\ type[1] \in other)
    <3>1. CASE version = None
      BY <3>1 DEF parse_request
    <3>2. CASE version # None /\ version # Some(CONTRACT_VERSION)
      BY <3>2 DEF parse_request
    <3>3. CASE version = Some(CONTRACT_VERSION) /\ version # None /\ type = Some("start")
      <4>1. type[1] \notin other
        BY <3>3 DEF Some
      <4> HIDE DEF version, type, other
      <4> QED BY <3>3, <4>1 DEF parse_request, version, type, other
    <3>4. CASE version = Some(CONTRACT_VERSION) /\ version # None /\ type # Some("start")
               /\ type # None /\ type[1] \in other
      BY <3>4 DEF parse_request
    <3>5. CASE version = Some(CONTRACT_VERSION) /\ version # None /\ type # Some("start")
               /\ ~(type # None /\ type[1] \in other)
      BY <3>5 DEF parse_request
    <3> QED BY <3>1, <3>2, <3>3, <3>4, <3>5
  <2> HIDE DEF type
  <2> QED BY <2>1 DEF IsStart, InvalidRequest, Err, Ok
<1>2. parse_start(m) = IF source.ok /\ midi.ok /\ yaml.ok THEN Ok(start_) ELSE InvalidRequest
  BY DEF parse_start
<1>3. source.ok /\ midi.ok /\ yaml.ok /\ s = start_
  <2> HIDE DEF source, midi, yaml, start_
  <2> QED BY <1>1, <1>2 DEF IsStart, InvalidRequest, Err, Ok
<1>4. s.source = source.value /\ s.midi = midi.value /\ s.config_yaml = yaml.value
  <2> HIDE DEF s
  <2> QED BY <1>3
<1> HIDE DEF s, start_
<1>5. /\ source.value.kind \in {"device", "test_tone", "test_sweep"}
      /\ source.value.kind = "device" =>
           /\ IsOption(source.value.channels)
           /\ source.value.channels # None => source.value.channels[1] \in Seq(Nat)
  <2>1. dictionary # None /\ source = parse_source(dictionary[1])
    BY <1>3 DEF InvalidRequest, Err
  <2>2. dictionary = <<dictionary[1]>>
    BY <2>1, ReadFacts DEF IsOption, Some
  <2> DEFINE d == dictionary[1]
  <2> HIDE DEF d
  <2>3. d \in ToSet(dictionary)
    BY <2>2, OnlyElement DEF d
  <2>4. \A a \in ToSet(get_array(d, "channels")) : Len(a) \in Nat /\ DOMAIN a = 1..Len(a)
    BY <2>3, MessagesAssumption
  <2>5. source = parse_source(d)
    BY <2>1 DEF d
  <2> HIDE DEF source, dictionary
  <2> QED BY <1>3, <2>4, <2>5, SourceParsed
<1>6. midi.value # None => midi.value[1].kind \in {"device", "test_clock"}
  <2> HIDE DEF part
  <2>1. midi.value = None \/ (midiOf.ok /\ midi.value = Some(midiOf.value))
    <3> HIDE DEF midiOf
    <3> QED BY <1>3, OptionalFacts
  <2>2. midiOf.ok => midiOf.value.kind \in {"device", "test_clock"}
    BY MidiParsed DEF InvalidRequest, Err
  <2> HIDE DEF midi, midiOf
  <2> QED BY <2>1, <2>2 DEF Some
<1>7. yaml.value # None => IsText(yaml.value[1])
  <2> HIDE DEF text
  <2>1. yaml.value = None \/ (text # None /\ textOf.ok /\ yaml.value = Some(textOf.value))
    <3> HIDE DEF textOf
    <3> QED BY <1>3, OptionalFacts
  <2>2. text # None => textOf.value = text[1]
    BY DEF Ok
  <2>3. text # None => text[1] \in ToSet(text)
    <3> SUFFICES ASSUME text # None PROVE text[1] \in ToSet(text)
      OBVIOUS
    <3>1. text = <<text[1]>>
      BY ReadFacts DEF IsOption, Some, text
    <3> QED BY <3>1, OnlyElement
  <2>4. text # None => IsText(text[1])
    BY <2>3, MessagesAssumption DEF text
  <2> HIDE DEF yaml, textOf
  <2> QED BY <2>1, <2>2, <2>4 DEF Some
<1> HIDE DEF source, midi, yaml
<1> QED BY <1>4, <1>5, <1>6, <1>7 DEF IsRequest, s

\* The text of a request without what it says of the network.
TextOf(request) ==
  WithoutNetwork(IF request.config_yaml = None THEN NoSettings
                 ELSE request.config_yaml[1].settings)

\* A request as a command line.
LEMMA ArgsFacts ==
  ASSUME NEW q, IsRequest(q)
  PROVE  LET args == ArgsOf(q)
         IN /\ IsLayer(args.layer)
            /\ \A s \in Settings \ {"device", "channels", "midi_device"} : args.layer[s] = None
            /\ args.layer["device"] = IF q.source.kind = "device" THEN Some(q.source.name) ELSE None
            /\ args.layer["channels"] = IF q.source.kind = "device" THEN q.source.channels ELSE None
            /\ args.layer["midi_device"] =
                 IF q.midi # None /\ q.midi[1].kind = "device" THEN Some(q.midi[1].name) ELSE None
            /\ args.test_hz = IF q.source.kind = "test_tone" THEN Some(q.source.hz) ELSE None
            /\ args.test_sweep = IF q.source.kind = "test_sweep" THEN Some(q.source.hz) ELSE None
            /\ args.test_midi_clock =
                 IF q.midi # None /\ q.midi[1].kind = "test_clock" THEN Some(q.midi[1].bpm) ELSE None
<1> DEFINE args == ArgsOf(q)
           layer == [s \in Settings |->
             CASE s = "device" /\ q.source.kind = "device" -> Some(q.source.name)
               [] s = "channels" /\ q.source.kind = "device" -> q.source.channels
               [] s = "midi_device" /\ q.midi # None /\ q.midi[1].kind = "device" ->
                    Some(q.midi[1].name)
               [] OTHER -> None]
<1>1. /\ args.layer = layer
      /\ args.test_hz = IF q.source.kind = "test_tone" THEN Some(q.source.hz) ELSE None
      /\ args.test_sweep = IF q.source.kind = "test_sweep" THEN Some(q.source.hz) ELSE None
      /\ args.test_midi_clock =
           IF q.midi # None /\ q.midi[1].kind = "test_clock" THEN Some(q.midi[1].bpm) ELSE None
  BY DEF ArgsOf, NoArgs
<1> HIDE DEF args
<1>2. /\ layer["device"] = IF q.source.kind = "device" THEN Some(q.source.name) ELSE None
      /\ layer["channels"] = IF q.source.kind = "device" THEN q.source.channels ELSE None
      /\ layer["midi_device"] =
           IF q.midi # None /\ q.midi[1].kind = "device" THEN Some(q.midi[1].name) ELSE None
      /\ \A s \in Settings \ {"device", "channels", "midi_device"} : layer[s] = None
  <2>1. {"device", "channels", "midi_device"} \subseteq Settings
    BY DEF Settings
  <2> QED BY <2>1
<1> HIDE DEF layer
<1>3. VocoderFields \subseteq Settings \ {"device", "channels", "midi_device"}
  BY DEF Settings, VocoderFields
<1>4. IsLayer(layer)
  <2>1. IsOption(None) /\ \A x : IsOption(Some(x))
    BY DEF IsOption, Some
  <2>2. \A s \in Settings : IsOption(layer[s])
    BY <1>2, <2>1 DEF IsRequest
  <2>3. layer["channels"] # None => layer["channels"][1] \in Seq(Nat)
    BY <1>2 DEF IsRequest
  <2>4. \A f \in VocoderFields : layer[f] = None
    BY <1>2, <1>3
  <2> QED BY <2>2, <2>3, <2>4 DEF IsLayer
<1> QED BY <1>1, <1>2, <1>3, <1>4 DEF args

\* A request that resolves has its own settings over its text.
LEMMA RequestResolves ==
  ASSUME NEW q, IsRequest(q), to_app_config(q).ok
  PROVE  /\ IsLayer(ArgsOf(q).layer) /\ IsLayer(TextOf(q))
         /\ TextOf(q)["ws_addr"] = None /\ TextOf(q)["osc_addr"] = None
         /\ \A s \in Settings \ NetworkSettings :
              TextOf(q)[s] = IF q.config_yaml = None THEN NoSettings[s]
                             ELSE SettingsOf(q.config_yaml[1])[s]
         /\ to_app_config(q) =
              resolve_with_outputs(ArgsOf(q), TextOf(q), <<FrameRegionOutput>>)
<1> DEFINE file == IF q.config_yaml = None THEN Ok(NoSettings)
                   ELSE parse_file_config(q.config_yaml[1])
           settings == IF q.config_yaml = None THEN NoSettings ELSE q.config_yaml[1].settings
<1>1. to_app_config(q) =
        IF ~file.ok THEN file
        ELSE resolve_with_outputs(ArgsOf(q), WithoutNetwork(file.value), <<FrameRegionOutput>>)
  BY DEF to_app_config
<1>2. file.ok =>
        /\ file.value = settings /\ IsLayer(settings)
        /\ settings = IF q.config_yaml = None THEN NoSettings ELSE SettingsOf(q.config_yaml[1])
  <2>1. CASE q.config_yaml = None
    BY <2>1, NoSettingsLayer DEF Ok
  <2>2. CASE q.config_yaml # None /\ q.config_yaml[1].state = "malformed"
    BY <2>2 DEF parse_file_config, Err
  <2>3. CASE q.config_yaml # None /\ q.config_yaml[1].state = "read"
    BY <2>3 DEF parse_file_config, Ok, IsRequest, IsText, SettingsOf
  <2> QED BY <2>1, <2>2, <2>3 DEF IsRequest, IsText
<1> HIDE DEF file
<1>3. /\ file.ok /\ file.value = settings /\ IsLayer(settings)
      /\ settings = IF q.config_yaml = None THEN NoSettings ELSE SettingsOf(q.config_yaml[1])
  BY <1>1, <1>2
<1>4. TextOf(q) = WithoutNetwork(settings)
  BY DEF TextOf
<1> HIDE DEF settings
<1>5. /\ IsLayer(WithoutNetwork(settings))
      /\ WithoutNetwork(settings)["ws_addr"] = None /\ WithoutNetwork(settings)["osc_addr"] = None
      /\ \A s \in Settings \ NetworkSettings : WithoutNetwork(settings)[s] = settings[s]
  <2>1. \A s \in Settings : WithoutNetwork(settings)[s] =
          IF s \in NetworkSettings THEN None ELSE settings[s]
    BY DEF WithoutNetwork
  <2>2. /\ {"ws_addr", "osc_addr", "channels"} \subseteq Settings
        /\ {"ws_addr", "osc_addr"} \subseteq NetworkSettings
        /\ "channels" \notin NetworkSettings
        /\ VocoderFields \subseteq Settings \ NetworkSettings
    BY DEF Settings, NetworkSettings, VocoderFields
  <2>3. IsOption(None)
    BY DEF IsOption
  <2> QED BY <1>3, <2>1, <2>2, <2>3 DEF IsLayer
<1>6. \A s \in Settings \ NetworkSettings :
        TextOf(q)[s] = IF q.config_yaml = None THEN NoSettings[s]
                       ELSE SettingsOf(q.config_yaml[1])[s]
  BY <1>3, <1>4, <1>5
<1> QED BY <1>1, <1>3, <1>4, <1>5, <1>6, ArgsFacts

\* The selection of a resolution, with the numbers it was given.
LEMMA SelectionFacts ==
  ASSUME NEW args, NEW file, IsLayer(args.layer), IsLayer(file), NEW extra \in Extras,
         resolve_with_outputs(args, file, extra).ok,
         resolve_with_outputs(args, file, extra).value.input.kind = "device"
  PROVE  LET selection == resolve_with_outputs(args, file, extra).value.input.channels
             channels == layered(args, file, "channels")
         IN /\ channels = None => selection = None
            /\ channels # None =>
                 LET s == selection[1]
                 IN /\ selection = Some(s)
                    /\ s \in Seq(Nat) /\ s # <<>> /\ ToSet(s) = ToSet(channels[1])
                    /\ \A i, j \in 1..Len(s) : i < j => s[i] < s[j]
<1> DEFINE selection == resolve_with_outputs(args, file, extra).value.input.channels
           channels == layered(args, file, "channels")
<1>1. args.test_sweep = None /\ args.test_hz = None
  BY InputLayered
<1>2. channels # Some(<<>>) /\ selection = normalise_channel_selection(channels)
  BY <1>1, InputLayered
<1>3. IsOption(channels) /\ (channels # None => channels[1] \in Seq(Nat))
  BY LayeredFacts DEF Settings
<1> HIDE DEF selection, channels
<1> QED BY <1>2, <1>3, NormaliseFacts DEF selection, channels
-----------------------------------------------------------------------------
(***************************************************************************)
(* The inductive invariant                                                 *)
(***************************************************************************)
\* A start has its configuration, then its input, then its checks behind it.
Configured == {"validate", "audio", "midi", "checks", "stream", "outputs", "running"}
Found == {"midi", "checks", "stream", "outputs", "running"}
Checked == {"stream", "outputs", "running"}

AskedInv ==
  /\ hardware \in Hardware
  /\ asked # None => IF host = "service" THEN IsRequest(asked[1]) ELSE asked[1] \in Launches

\* The configuration is the resolution of what was asked for.
ConfigInv ==
  /\ stage = "load" => asked # None
  /\ stage \in {"idle", "load"} => config = None /\ input = None
  /\ stage \in Configured => config # None
  /\ config # None => asked # None /\ Resolved.ok /\ config = Some(Resolved.value)

\* The input has the format of a device, or of the calibration signal, and the
\* selection of the configuration.
InputInv ==
  /\ stage \in Found => input # None
  /\ input # None =>
       /\ config # None
       /\ Fits(input[1].rate, input[1].channels)
       /\ input[1].selection = IF config[1].input.kind = "device" THEN config[1].input.channels
                               ELSE None

\* What has been checked against the hardware.
CheckedInv ==
  /\ stage \in Checked =>
       /\ 20 * config[1].vocoder_config.freq_high <= 9 * input[1].rate
       /\ input[1].selection # None => Max(ToSet(input[1].selection[1])) < input[1].channels
  /\ stage = "running" =>
       /\ ready[1].audio.channels = ReadyAudio.channels
       /\ (\E i \in DOMAIN config[1].outputs : config[1].outputs[i].transport = "osc") =>
            BundleBytes(display_channels) <= OSC_UDP_PAYLOAD_LIMIT_BYTES

Sought == get_device(hardware.audio, config[1].input.name)

\* A list that still holds is of what is plugged in, and so is what has been
\* found, or not found, since.
DevicesInv ==
  /\ listed # None => listed[1] = audio_enumerate_devices(hardware.audio)
  /\ known # None =>
       /\ known[1] = audio_enumerate_devices(hardware.audio)
       /\ input # None /\ config[1].input.kind = "device" =>
            /\ Sought.ok /\ input[1].device[1].id = Sought.value.id
            /\ input[1].f32 = Sought.value.config[1].f32
       /\ error.at = "audio" /\ ~error.os =>
            config # None /\ config[1].input.kind = "device" /\ ~Sought.ok

ErrorInv ==
  /\ stage # "failed" => error.at = "none"
  /\ error.at # "validate"
  /\ error.at = "stream" /\ ~error.os => input # None /\ ~input[1].f32

StartupInv == AskedInv /\ ConfigInv /\ InputInv /\ CheckedInv /\ DevicesInv /\ ErrorInv
-----------------------------------------------------------------------------
\* The configuration of a run is a resolution of layers.
LEMMA ConfigResolved ==
  ASSUME AskedInv, asked # None, Resolved.ok
  PROVE  \E args, file : \E extra \in Extras :
           IsLayer(args.layer) /\ IsLayer(file) /\ Resolved = resolve_with_outputs(args, file, extra)
<1>1. CASE host = "service"
  <2>1. Resolved = to_app_config(asked[1]) /\ IsRequest(asked[1])
    BY <1>1 DEF Resolved, AskedInv
  <2>2. /\ IsLayer(ArgsOf(asked[1]).layer) /\ IsLayer(TextOf(asked[1]))
        /\ Resolved = resolve_with_outputs(ArgsOf(asked[1]), TextOf(asked[1]), <<FrameRegionOutput>>)
    BY <2>1, RequestResolves
  <2>3. <<FrameRegionOutput>> \in Extras
    BY DEF Extras
  <2> QED BY <2>2, <2>3
<1>2. CASE host # "service"
  <2>1. /\ Resolved = AppConfig_try_from(asked[1].args, asked[1].explicit, asked[1].file)
        /\ asked[1] \in Launches
    BY <1>2 DEF Resolved, AskedInv
  <2>2. /\ IsLayer(asked[1].args.layer) /\ IsLayer(SettingsOf(asked[1].file))
        /\ Resolved = resolve_with_outputs(asked[1].args, SettingsOf(asked[1].file), <<>>)
    BY <2>1, LaunchResolves
  <2>3. <<>> \in Extras
    BY DEF Extras
  <2> QED BY <2>2, <2>3
<1> QED BY <1>1, <1>2

\* So it is valid, its bands are in order, its outputs are of different kinds
\* and its selection is sorted.
LEMMA ConfigFacts ==
  ASSUME AskedInv, ConfigInv, config # None
  PROVE  LET c == config[1]
             v == c.vocoder_config
             s == c.input.channels[1]
         IN /\ validate_app_config(c) = <<>>
            /\ v.freq_low \in Int /\ v.freq_high \in Int
            /\ 0 < v.freq_low /\ v.freq_low < v.freq_high
            /\ c.outputs # <<>>
            /\ \A i, j \in DOMAIN c.outputs :
                 c.outputs[i].transport = c.outputs[j].transport => i = j
            /\ c.input.kind = "device" /\ c.input.channels # None =>
                 /\ s \in Seq(Nat) /\ s # <<>>
                 /\ \A i, j \in 1..Len(s) : i < j => s[i] < s[j]
<1> DEFINE c == config[1]
<1>1. asked # None /\ Resolved.ok /\ c = Resolved.value
  BY DEF ConfigInv, Some
<1>2. PICK args, file : \E extra \in Extras :
        IsLayer(args.layer) /\ IsLayer(file) /\ Resolved = resolve_with_outputs(args, file, extra)
  BY <1>1, ConfigResolved
<1>3. PICK extra \in Extras :
        IsLayer(args.layer) /\ IsLayer(file) /\ Resolved = resolve_with_outputs(args, file, extra)
  BY <1>2
<1>4. c = resolve_with_outputs(args, file, extra).value /\ resolve_with_outputs(args, file, extra).ok
  BY <1>1, <1>3
<1> HIDE DEF c
<1>5. validate_app_config(c) = <<>>
  BY <1>3, <1>4, ResolvedValid
<1>6. LET v == c.vocoder_config
      IN /\ \A f \in VocoderFields : v[f] \in Int
         /\ 0 < v.freq_low /\ v.freq_low < v.freq_high
  BY <1>3, <1>4, VocoderLayered
<1>7. /\ c.outputs # <<>>
      /\ \A i, j \in DOMAIN c.outputs : c.outputs[i].transport = c.outputs[j].transport => i = j
  BY <1>3, <1>4, ResolvedParts
<1>8. ASSUME c.input.kind = "device", c.input.channels # None
      PROVE  LET s == c.input.channels[1]
             IN /\ s \in Seq(Nat) /\ s # <<>>
                /\ \A i, j \in 1..Len(s) : i < j => s[i] < s[j]
  <2>1. LET selection == c.input.channels
            channels == layered(args, file, "channels")
        IN /\ channels = None => selection = None
           /\ channels # None =>
                LET s == selection[1]
                IN /\ selection = Some(s)
                   /\ s \in Seq(Nat) /\ s # <<>> /\ ToSet(s) = ToSet(channels[1])
                   /\ \A i, j \in 1..Len(s) : i < j => s[i] < s[j]
    BY <1>3, <1>4, <1>8, SelectionFacts
  <2> QED BY <2>1, <1>8
<1>9. c.vocoder_config.freq_low \in Int /\ c.vocoder_config.freq_high \in Int
  BY <1>6 DEF VocoderFields
<1> QED BY <1>5, <1>6, <1>7, <1>8, <1>9 DEF c
-----------------------------------------------------------------------------
(***************************************************************************)
(* The steps                                                               *)
(***************************************************************************)
\* Nothing has been asked for.
LEMMA InitStartup == StartInit => StartupInv
<1> SUFFICES ASSUME StartInit PROVE StartupInv
  OBVIOUS
<1>1. /\ hardware \in Hardware /\ stage = "idle" /\ asked = None /\ config = None /\ input = None
      /\ ready = None /\ error = NoError /\ listed = None /\ known = None
  BY DEF StartInit
<1>2. error.at = "none"
  BY <1>1 DEF NoError
<1> USE <1>1, <1>2
<1>3. AskedInv
  BY DEF AskedInv
<1>4. ConfigInv
  BY DEF ConfigInv, Configured
<1>5. InputInv
  BY DEF InputInv, Found
<1>6. CheckedInv
  BY DEF CheckedInv, Checked
<1>7. DevicesInv
  BY DEF DevicesInv
<1>8. ErrorInv
  BY DEF ErrorInv
<1> QED BY <1>3, <1>4, <1>5, <1>6, <1>7, <1>8 DEF StartupInv

\* A step that leaves the run and the devices alone, and at most lists them.
LEMMA QuietKeeps ==
  ASSUME StartupInv, UNCHANGED <<hardware, host, stage, run>>,
         listed' = listed \/ listed' = Some(audio_enumerate_devices(hardware.audio))
  PROVE  StartupInv'
<1>1. UNCHANGED <<hardware, host, stage, asked, config, input, ready, error, known>>
  BY DEF run
<1>2. AskedInv'
  BY <1>1 DEF StartupInv, AskedInv
<1>3. ConfigInv'
  BY <1>1 DEF StartupInv, ConfigInv, Resolved
<1>4. InputInv'
  BY <1>1 DEF StartupInv, InputInv
<1>5. CheckedInv'
  BY <1>1 DEF StartupInv, CheckedInv, ReadyAudio, display_channels
<1>6. DevicesInv'
  BY <1>1 DEF StartupInv, DevicesInv, Sought, Some
<1>7. ErrorInv'
  BY <1>1 DEF StartupInv, ErrorInv
<1> QED BY <1>2, <1>3, <1>4, <1>5, <1>6, <1>7 DEF StartupInv

\* Other devices: the lists no longer count.
LEMMA ReplugKeeps ==
  ASSUME StartupInv, Replug
  PROVE  StartupInv'
<1>1. /\ UNCHANGED <<host, stage, asked, config, input, ready, error>>
      /\ hardware' \in Hardware /\ listed' = None /\ known' = None
  BY DEF Replug
<1>2. AskedInv'
  BY <1>1 DEF StartupInv, AskedInv
<1>3. ConfigInv'
  BY <1>1 DEF StartupInv, ConfigInv, Resolved
<1>4. InputInv'
  BY <1>1 DEF StartupInv, InputInv
<1>5. CheckedInv'
  BY <1>1 DEF StartupInv, CheckedInv, ReadyAudio, display_channels
<1>6. DevicesInv'
  BY <1>1 DEF DevicesInv
<1>7. ErrorInv'
  BY <1>1 DEF StartupInv, ErrorInv
<1> QED BY <1>2, <1>3, <1>4, <1>5, <1>6, <1>7 DEF StartupInv

\* Nothing is left of a run that is forgotten.
LEMMA ForgetKeeps ==
  ASSUME StartupInv, UNCHANGED <<hardware, host, listed>>, stage' = "idle", Forget,
         error' = NoError
  PROVE  StartupInv'
<1>1. asked' = None /\ known' = None /\ config' = None /\ input' = None
  BY DEF Forget
<1>2. error'.at = "none"
  BY DEF NoError
<1>3. AskedInv'
  BY <1>1 DEF StartupInv, AskedInv
<1>4. ConfigInv'
  BY <1>1 DEF ConfigInv, Configured
<1>5. InputInv'
  BY <1>1 DEF InputInv, Found
<1>6. CheckedInv'
  BY DEF CheckedInv, Checked
<1>7. DevicesInv'
  BY <1>1 DEF StartupInv, DevicesInv
<1>8. ErrorInv'
  BY <1>2 DEF ErrorInv
<1> QED BY <1>3, <1>4, <1>5, <1>6, <1>7, <1>8 DEF StartupInv

\* A launch is asked for with nothing left of the one before.
LEMMA LaunchKeeps ==
  ASSUME StartupInv, Launch
  PROVE  StartupInv'
<1>1. /\ UNCHANGED <<hardware, host, config, input, ready, listed>>
      /\ stage = "idle" /\ host # "service" /\ known' = listed
  BY DEF Launch, Process
<1>2. asked'[1] \in Launches /\ asked' # None
  BY DEF Launch, Some, None
<1>3. stage' \in {"failed", "load"} /\ (stage' = "load" => error' = error)
      /\ (error' = error \/ error' = [at |-> "launch", code |-> "Unknown", os |-> FALSE])
  BY DEF Launch
<1>4. config = None /\ input = None /\ error.at = "none"
  BY <1>1 DEF StartupInv, ConfigInv, ErrorInv
<1>5. error'.at \in {"none", "launch"} /\ (stage' = "load" => error'.at = "none")
  BY <1>3, <1>4
<1>6. AskedInv'
  BY <1>1, <1>2 DEF StartupInv, AskedInv
<1>7. ConfigInv'
  BY <1>1, <1>2, <1>3, <1>4 DEF ConfigInv, Configured
<1>8. InputInv'
  BY <1>1, <1>3, <1>4 DEF InputInv, Found
<1>9. CheckedInv'
  BY <1>3 DEF CheckedInv, Checked
<1>10. DevicesInv'
  BY <1>1, <1>4, <1>5 DEF StartupInv, DevicesInv
<1>11. ErrorInv'
  BY <1>3, <1>5 DEF ErrorInv
<1> QED BY <1>6, <1>7, <1>8, <1>9, <1>10, <1>11 DEF StartupInv

\* A start request takes the place of what failed before.
LEMMA StartKeeps ==
  ASSUME StartupInv, NEW m \in Messages, start(m)
  PROVE  StartupInv'
<1>1. /\ UNCHANGED <<hardware, host, listed>>
      /\ host = "service" /\ IsStart(m) /\ asked' = Some(parse_request(m).value)
      /\ stage' = "load" /\ known' = listed
      /\ config' = None /\ input' = None /\ error' = NoError
  BY DEF start, Answers
<1>2. error'.at = "none"
  BY <1>1 DEF NoError
<1>3. asked' # None /\ IsRequest(asked'[1])
  BY <1>1, RequestParsed DEF Some, None
<1>4. AskedInv'
  BY <1>1, <1>3 DEF StartupInv, AskedInv
<1>5. ConfigInv'
  BY <1>1, <1>3 DEF ConfigInv, Configured
<1>6. InputInv'
  BY <1>1 DEF InputInv, Found
<1>7. CheckedInv'
  BY <1>1 DEF CheckedInv, Checked
<1>8. DevicesInv'
  BY <1>1, <1>2 DEF StartupInv, DevicesInv
<1>9. ErrorInv'
  BY <1>2 DEF ErrorInv
<1> QED BY <1>4, <1>5, <1>6, <1>7, <1>8, <1>9 DEF StartupInv

\* The operating system refuses: the run stops where it is.
LEMMA OsRefusesKeeps ==
  ASSUME StartupInv, OsRefuses
  PROVE  StartupInv'
<1>1. /\ UNCHANGED <<hardware, host, asked, config, input, ready, listed, known>>
      /\ stage' = "failed" /\ error'.os /\ error'.at = stage
      /\ stage \in {"audio", "midi", "stream", "outputs"}
  BY DEF OsRefuses, Fail
<1>2. AskedInv'
  BY <1>1 DEF StartupInv, AskedInv
<1>3. ConfigInv'
  BY <1>1 DEF StartupInv, ConfigInv, Resolved, Configured
<1>4. InputInv'
  BY <1>1 DEF StartupInv, InputInv, Found
<1>5. CheckedInv'
  BY <1>1 DEF CheckedInv, Checked
<1>6. DevicesInv'
  BY <1>1 DEF StartupInv, DevicesInv, Sought
<1>7. ErrorInv'
  BY <1>1 DEF ErrorInv
<1> QED BY <1>2, <1>3, <1>4, <1>5, <1>6, <1>7 DEF StartupInv

\* A lookup that succeeds finds a device of the list that has a format.
LEMMA MatchFacts ==
  ASSUME NEW devices, Len(devices) \in Nat, DOMAIN devices = 1..Len(devices), NEW query
  PROVE  LET equal == {i \in DOMAIN devices : ShownName(devices[i]) = query}
         IN /\ MatchAudio(devices, query) # None =>
                 \E i \in DOMAIN devices : MatchAudio(devices, query) = Some(devices[i])
            /\ \A i \in DOMAIN devices :
                 equal = {i} => MatchAudio(devices, query) = Some(devices[i])
<1> DEFINE equal == {i \in DOMAIN devices : ShownName(devices[i]) = query}
           alike == Alike(devices, query)
<1>1. MatchAudio(devices, query) = FirstMatch(devices, equal, alike)
  BY DEF MatchAudio
<1>2. equal \subseteq DOMAIN devices /\ alike \subseteq DOMAIN devices
  BY DEF Alike
<1>3. DOMAIN devices \subseteq Nat
  OBVIOUS
<1> HIDE DEF equal, alike
<1>4. CASE equal # {}
  <2>1. Min(equal) \in equal
    BY <1>2, <1>3, <1>4, MinFacts
  <2>2. FirstMatch(devices, equal, alike) = Some(devices[Min(equal)])
    BY <1>4 DEF FirstMatch
  <2> QED BY <1>1, <1>2, <2>1, <2>2 DEF equal
<1>5. CASE equal = {} /\ alike # {}
  <2>1. Min(alike) \in alike
    BY <1>2, <1>3, <1>5, MinFacts
  <2>2. FirstMatch(devices, equal, alike) = Some(devices[Min(alike)])
    BY <1>5 DEF FirstMatch
  <2> QED BY <1>1, <1>2, <1>5, <2>1, <2>2 DEF equal
<1>6. CASE equal = {} /\ alike = {}
  <2>1. FirstMatch(devices, equal, alike) = None
    BY <1>6 DEF FirstMatch
  <2> QED BY <1>1, <1>6, <2>1 DEF equal
<1> QED BY <1>4, <1>5, <1>6

\* What get_device returns, and what it finds under a name of one device.
LEMMA DeviceFacts ==
  ASSUME NEW h \in Hardware, NEW query
  PROVE  LET found == get_device(h.audio, query)
         IN /\ found.ok => /\ found.value.config # None
                           /\ Fits(found.value.config[1].rate, found.value.config[1].channels)
            /\ \A i \in DOMAIN h.audio :
                 /\ query \notin BlankNames /\ h.audio[i].config # None
                 /\ {j \in DOMAIN h.audio : ShownName(h.audio[j]) = query} = {i}
                 => found = Ok(h.audio[i])
<1> DEFINE devices == h.audio
           found == get_device(devices, query)
           match == MatchAudio(devices, query)
           Only(i) == {j \in DOMAIN devices : ShownName(devices[j]) = query} = {i}
<1>1. /\ Len(devices) \in Nat /\ DOMAIN devices = 1..Len(devices)
      /\ \A i \in DOMAIN devices : devices[i].config # None =>
           Fits(devices[i].config[1].rate, devices[i].config[1].channels)
  BY HardwareAssumption
<1>2. found = CASE query \in BlankNames -> Err("EmptyQuery")
                [] query \notin BlankNames /\ match = None -> Err("NoMatch")
                [] query \notin BlankNames /\ match # None /\ match[1].config = None -> Err("Unknown")
                [] OTHER -> Ok(match[1])
  BY DEF get_device
<1> HIDE DEF devices
<1>3. /\ match # None => \E i \in DOMAIN devices : match = Some(devices[i])
      /\ \A i \in DOMAIN devices : Only(i) => match = Some(devices[i])
  BY <1>1, MatchFacts
<1> HIDE DEF found, match, Only
<1>4. CASE query \in BlankNames
  <2>1. found.ok = FALSE
    BY <1>2, <1>4 DEF Err
  <2> QED BY <1>4, <2>1 DEF devices, found
<1>5. CASE query \notin BlankNames /\ match = None
  <2>1. found.ok = FALSE
    BY <1>2, <1>5 DEF Err
  <2>2. \A i \in DOMAIN devices : ~Only(i)
    BY <1>3, <1>5 DEF Some, None
  <2> QED BY <2>1, <2>2 DEF devices, found, Only
<1>6. CASE query \notin BlankNames /\ match # None /\ match[1].config = None
  <2>1. found.ok = FALSE
    BY <1>2, <1>6 DEF Err
  <2>2. \A i \in DOMAIN devices : Only(i) => devices[i].config = None
    BY <1>3, <1>6 DEF Some
  <2> QED BY <2>1, <2>2 DEF devices, found, Only
<1>7. CASE query \notin BlankNames /\ match # None /\ match[1].config # None
  <2>1. found = Ok(match[1])
    BY <1>2, <1>7
  <2>2. PICK i \in DOMAIN devices : match = Some(devices[i])
    BY <1>3, <1>7
  <2>3. match[1] = devices[i]
    BY <2>2 DEF Some
  <2>4. Fits(devices[i].config[1].rate, devices[i].config[1].channels)
    BY <1>1, <1>7, <2>3
  <2>5. found.ok = TRUE /\ found.value = devices[i]
    BY <2>1, <2>3 DEF Ok
  <2>6. \A j \in DOMAIN devices : Only(j) => found = Ok(devices[j])
    BY <1>3, <2>1 DEF Some
  <2>7. devices[i].config # None
    BY <1>7, <2>3
  <2> QED BY <2>4, <2>5, <2>6, <2>7 DEF devices, found, Only
<1> QED BY <1>4, <1>5, <1>6, <1>7

\* A stage goes on, or its error is the one of the run.
LEMMA StageFacts ==
  ASSUME NEW here, NEW next, NEW errors, Stage(here, next, errors)
  PROVE  /\ stage = here /\ UNCHANGED <<hardware, host, asked, ready, listed, known>>
         /\ errors = <<>> => stage' = next /\ error' = error
         /\ errors # <<>> => stage' = "failed" /\ error'.at = here /\ ~error'.os
BY DEF Stage, Fail

\* The configuration is what is resolved.
LEMMA LoadConfigKeeps ==
  ASSUME StartupInv, LoadConfig
  PROVE  StartupInv'
<1> DEFINE errors == ErrorsOf(Resolved)
<1>1. /\ stage = "load" /\ Stage("load", "validate", errors)
      /\ config' = IF Resolved.ok THEN Some(Resolved.value) ELSE None
      /\ input' = input
  BY DEF LoadConfig
<1>2. /\ UNCHANGED <<hardware, host, asked, ready, listed, known>>
      /\ errors = <<>> => stage' = "validate" /\ error' = error
      /\ errors # <<>> => stage' = "failed" /\ error'.at = "load" /\ ~error'.os
  BY <1>1, StageFacts
<1>3. errors = <<>> => Resolved.ok
  BY DEF ErrorsOf
<1> HIDE DEF errors
<1>4. asked # None /\ input = None /\ error.at = "none"
  BY <1>1 DEF StartupInv, ConfigInv, ErrorInv
<1>5. stage' \in {"validate", "failed"}
  BY <1>2
<1>6. AskedInv'
  BY <1>2 DEF StartupInv, AskedInv
<1>7. ConfigInv'
  <2>1. Resolved' = Resolved
    BY <1>2 DEF Resolved
  <2>2. config' # None => Resolved.ok /\ config' = Some(Resolved.value)
    BY <1>1
  <2>3. Resolved.ok => config' # None
    BY <1>1 DEF Some, None
  <2> QED BY <1>2, <1>3, <1>4, <1>5, <2>1, <2>2, <2>3 DEF ConfigInv, Configured
<1>8. InputInv'
  BY <1>1, <1>4, <1>5 DEF InputInv, Found
<1>9. CheckedInv'
  BY <1>5 DEF CheckedInv, Checked
<1>10. DevicesInv'
  BY <1>1, <1>2, <1>4 DEF StartupInv, DevicesInv
<1>11. ErrorInv'
  BY <1>2, <1>4 DEF ErrorInv
<1> QED BY <1>6, <1>7, <1>8, <1>9, <1>10, <1>11 DEF StartupInv

\* What was resolved is not refused when it is validated.
LEMMA ValidateConfigKeeps ==
  ASSUME StartupInv, ValidateConfig
  PROVE  StartupInv'
<1> DEFINE errors == validate_app_config(config[1])
<1>1. /\ stage = "validate" /\ Stage("validate", "audio", errors)
      /\ UNCHANGED <<config, input>>
  BY DEF ValidateConfig
<1>2. config # None
  BY <1>1 DEF StartupInv, ConfigInv, Configured
<1>3. errors = <<>>
  BY <1>2, ConfigFacts DEF StartupInv
<1> HIDE DEF errors
<1>4. /\ UNCHANGED <<hardware, host, asked, config, input, ready, error, listed, known>>
      /\ stage' = "audio"
  BY <1>1, <1>3, StageFacts
<1>5. AskedInv'
  BY <1>4 DEF StartupInv, AskedInv
<1>6. ConfigInv'
  BY <1>2, <1>4 DEF StartupInv, ConfigInv, Resolved
<1>7. InputInv'
  BY <1>4 DEF StartupInv, InputInv, Found
<1>8. CheckedInv'
  BY <1>4 DEF CheckedInv, Checked
<1>9. DevicesInv'
  BY <1>4 DEF StartupInv, DevicesInv, Sought
<1>10. ErrorInv'
  BY <1>1, <1>4 DEF StartupInv, ErrorInv
<1> QED BY <1>5, <1>6, <1>7, <1>8, <1>9, <1>10 DEF StartupInv

\* What resolve_audio_hardware finds has a format.
LEMMA AudioFacts ==
  ASSUME hardware \in Hardware, NEW source
  PROVE  LET r == resolve_audio_hardware(source)
             found == get_device(hardware.audio, source.name)
         IN /\ r.ok =>
                 /\ Fits(r.value.rate, r.value.channels)
                 /\ r.value.selection = IF source.kind = "device" THEN source.channels ELSE None
                 /\ source.kind = "device" =>
                      /\ found.ok /\ r.value.device[1].id = found.value.id
                      /\ r.value.f32 = found.value.config[1].f32
            /\ ~r.ok => source.kind = "device" /\ ~found.ok
<1> DEFINE r == resolve_audio_hardware(source)
           found == get_device(hardware.audio, source.name)
<1>1. CASE source.kind # "device"
  <2>1. r = Ok([device |-> None, rate |-> CALIBRATION_SAMPLE_RATE_HZ, channels |-> 2,
                selection |-> None, f32 |-> TRUE])
    BY <1>1 DEF resolve_audio_hardware
  <2> HIDE DEF r
  <2>2. r.ok = TRUE /\ r.value.rate = CALIBRATION_SAMPLE_RATE_HZ /\ r.value.channels = 2
        /\ r.value.selection = None
    BY <2>1 DEF Ok
  <2>3. Fits(r.value.rate, r.value.channels)
    BY <2>2, HardwareAssumption
  <2> QED BY <1>1, <2>2, <2>3 DEF r
<1>2. CASE source.kind = "device" /\ ~found.ok
  <2>1. r = found
    BY <1>2 DEF resolve_audio_hardware
  <2> HIDE DEF found, r
  <2> QED BY <1>2, <2>1 DEF found, r
<1>3. CASE source.kind = "device" /\ found.ok
  <2>1. r = Ok([device |-> Some([id |-> found.value.id, name |-> found.value.name]),
                rate |-> found.value.config[1].rate,
                channels |-> found.value.config[1].channels,
                selection |-> source.channels,
                f32 |-> found.value.config[1].f32])
    BY <1>3 DEF resolve_audio_hardware
  <2>2. Fits(found.value.config[1].rate, found.value.config[1].channels)
    BY <1>3, DeviceFacts
  <2> HIDE DEF found, r
  <2>3. /\ r.ok = TRUE /\ r.value.device = Some([id |-> found.value.id, name |-> found.value.name])
        /\ r.value.rate = found.value.config[1].rate
        /\ r.value.channels = found.value.config[1].channels
        /\ r.value.selection = source.channels /\ r.value.f32 = found.value.config[1].f32
    BY <2>1 DEF Ok
  <2>4. r.value.device[1].id = found.value.id
    BY <2>3 DEF Some
  <2> QED BY <1>3, <2>2, <2>3, <2>4 DEF found, r
<1> QED BY <1>1, <1>2, <1>3

\* The input is what is found.
LEMMA ResolveAudioKeeps ==
  ASSUME StartupInv, ResolveAudio
  PROVE  StartupInv'
<1> DEFINE source == config[1].input
           r == resolve_audio_hardware(source)
           errors == ErrorsOf(r)
<1>1. /\ stage = "audio" /\ Stage("audio", "midi", errors)
      /\ input' = IF r.ok THEN Some(r.value) ELSE None
      /\ config' = config
  BY DEF ResolveAudio
<1>2. /\ UNCHANGED <<hardware, host, asked, ready, listed, known>>
      /\ errors = <<>> => stage' = "midi" /\ error' = error
      /\ errors # <<>> => stage' = "failed" /\ error'.at = "audio" /\ ~error'.os
  BY <1>1, StageFacts
<1>3. errors = <<>> <=> r.ok
  BY DEF ErrorsOf
<1>4. /\ r.ok =>
           /\ Fits(r.value.rate, r.value.channels)
           /\ r.value.selection = IF source.kind = "device" THEN source.channels ELSE None
           /\ source.kind = "device" =>
                /\ Sought.ok /\ r.value.device[1].id = Sought.value.id
                /\ r.value.f32 = Sought.value.config[1].f32
      /\ ~r.ok => source.kind = "device" /\ ~Sought.ok
  BY AudioFacts DEF StartupInv, AskedInv, Sought
<1> HIDE DEF errors, r
<1>5. config # None /\ error.at = "none"
  BY <1>1 DEF StartupInv, ConfigInv, ErrorInv, Configured
<1>6. stage' \in {"midi", "failed"} /\ (stage' = "midi" => r.ok)
  BY <1>2, <1>3
<1>7. /\ input' # None => r.ok /\ input'[1] = r.value
      /\ r.ok => input' # None
  BY <1>1 DEF Some, None
<1>8. AskedInv'
  BY <1>2 DEF StartupInv, AskedInv
<1>9. ConfigInv'
  BY <1>1, <1>2, <1>5, <1>6 DEF StartupInv, ConfigInv, Resolved
<1>10. InputInv'
  BY <1>1, <1>4, <1>5, <1>6, <1>7 DEF InputInv, Found
<1>11. CheckedInv'
  BY <1>6 DEF CheckedInv, Checked
<1>12. DevicesInv'
  <2>1. Sought' = Sought
    BY <1>1, <1>2 DEF Sought
  <2>2. error'.at = "audio" => ~r.ok
    BY <1>2, <1>3, <1>5
  <2> QED BY <1>1, <1>2, <1>4, <1>5, <1>7, <2>1, <2>2 DEF StartupInv, DevicesInv
<1>13. ErrorInv'
  BY <1>2, <1>5 DEF ErrorInv
<1> QED BY <1>8, <1>9, <1>10, <1>11, <1>12, <1>13 DEF StartupInv

\* A stage that only checks: what it has checked is asked of the next stage.
LEMMA CheckKeeps ==
  ASSUME StartupInv, NEW here \in {"midi", "checks", "stream"},
         NEW next \in {"checks", "stream", "outputs"}, NEW errors,
         Stage(here, next, errors), UNCHANGED <<config, input>>,
         errors = <<>> /\ next \in Checked =>
           /\ 20 * config[1].vocoder_config.freq_high <= 9 * input[1].rate
           /\ input[1].selection # None => Max(ToSet(input[1].selection[1])) < input[1].channels,
         errors # <<>> /\ here = "stream" => ~input[1].f32
  PROVE  StartupInv'
<1>1. /\ stage = here
      /\ UNCHANGED <<hardware, host, asked, config, input, ready, listed, known>>
      /\ errors = <<>> => stage' = next /\ error' = error
      /\ errors # <<>> => stage' = "failed" /\ error'.at = here /\ ~error'.os
  BY StageFacts
<1>2. config # None /\ input # None /\ error.at = "none"
  BY <1>1 DEF StartupInv, ConfigInv, InputInv, ErrorInv, Configured, Found
<1>3. stage' \in {"failed", "checks", "stream", "outputs"}
  BY <1>1
<1>4. AskedInv'
  BY <1>1 DEF StartupInv, AskedInv
<1>5. ConfigInv'
  BY <1>1, <1>2, <1>3 DEF StartupInv, ConfigInv, Resolved
<1>6. InputInv'
  BY <1>1, <1>2 DEF StartupInv, InputInv
<1>7. CheckedInv'
  BY <1>1, <1>3 DEF CheckedInv, Checked
<1>8. DevicesInv'
  <2>1. error'.at # "audio"
    BY <1>1, <1>2
  <2> QED BY <1>1, <2>1 DEF StartupInv, DevicesInv, Sought
<1>9. ErrorInv'
  BY <1>1, <1>2 DEF ErrorInv
<1> QED BY <1>4, <1>5, <1>6, <1>7, <1>8, <1>9 DEF StartupInv

LEMMA ResolveMidiKeeps ==
  ASSUME StartupInv, ResolveMidi
  PROVE  StartupInv'
<1>1. UNCHANGED <<config, input>>
      /\ Stage("midi", "checks", resolve_midi_hardware(config[1].midi_input))
  BY DEF ResolveMidi
<1>2. "checks" \notin Checked
  BY DEF Checked
<1> QED BY <1>1, <1>2, CheckKeeps

\* A stream of samples that are not floats is refused.
LEMMA OpenStreamKeeps ==
  ASSUME StartupInv, OpenStream
  PROVE  StartupInv'
<1> DEFINE errors == Check(input[1].f32, "UnsupportedFormat")
<1>1. stage = "stream" /\ UNCHANGED <<config, input>> /\ Stage("stream", "outputs", errors)
  BY DEF OpenStream
<1>2. /\ 20 * config[1].vocoder_config.freq_high <= 9 * input[1].rate
      /\ input[1].selection # None => Max(ToSet(input[1].selection[1])) < input[1].channels
  BY <1>1 DEF StartupInv, CheckedInv, Checked
<1>3. errors # <<>> => ~input[1].f32
  BY DEF Check
<1> HIDE DEF errors
<1> QED BY <1>1, <1>2, <1>3, CheckKeeps

\* The bands are below the ceiling and the selection is in range.
LEMMA CheckAgainstHardwareKeeps ==
  ASSUME StartupInv, CheckAgainstHardware
  PROVE  StartupInv'
<1>1. PICK coefficients \in {<<>>, <<"InvalidVocoderBandCoefficients">>} :
        Stage("checks", "stream",
              validate_vocoder_sample_rate(config[1].vocoder_config.freq_high, input[1].rate)
              \o coefficients
              \o validate_channel_selection(input[1].selection, input[1].channels))
  BY DEF CheckAgainstHardware
<1> DEFINE errors ==
      validate_vocoder_sample_rate(config[1].vocoder_config.freq_high, input[1].rate)
      \o coefficients
      \o validate_channel_selection(input[1].selection, input[1].channels)
<1>2. UNCHANGED <<config, input>> /\ Stage("checks", "stream", errors)
  BY <1>1 DEF CheckAgainstHardware
<1>3. coefficients \in Seq(Codes)
  BY Raised DEF Codes
<1>4. errors = <<>> =>
        /\ 20 * config[1].vocoder_config.freq_high <= 9 * input[1].rate
        /\ input[1].selection # None => Max(ToSet(input[1].selection[1])) < input[1].channels
  <2> DEFINE a == Check(2 * config[1].vocoder_config.freq_high < input[1].rate,
                        "InvalidFreqAboveNyquist")
             b == Check(20 * config[1].vocoder_config.freq_high <= 9 * input[1].rate,
                        "InvalidFreqAboveSafetyCeiling")
             c == validate_channel_selection(input[1].selection, input[1].channels)
  <2>1. a \in Seq(Codes) /\ b \in Seq(Codes) /\ c \in Seq(Codes) /\ <<>> \in Seq(Codes)
    BY Raised DEF Check, Codes, validate_channel_selection
  <2>2. errors = a \o b \o coefficients \o c
    BY DEF validate_vocoder_sample_rate
  <2>3. /\ b = <<>> => 20 * config[1].vocoder_config.freq_high <= 9 * input[1].rate
        /\ c = <<>> => input[1].selection = None
                       \/ Max(ToSet(input[1].selection[1])) < input[1].channels
    BY DEF Check, validate_channel_selection
  <2> HIDE DEF a, b, c, errors
  <2>4. a \o b \o coefficients \o c \o <<>> = <<>> => b = <<>> /\ c = <<>>
    BY <1>3, <2>1, Cat5Facts
  <2>5. a \o b \o coefficients \o c \o <<>> = errors
    BY <1>3, <2>1, <2>2
  <2> QED BY <2>3, <2>4, <2>5
<1> HIDE DEF errors
<1> QED BY <1>2, <1>4, CheckKeeps

\* A run that comes up reports its input, and its bundle fits.
LEMMA StartOutputsKeeps ==
  ASSUME StartupInv, StartOutputs
  PROVE  StartupInv'
<1> DEFINE errors == spawn_outputs
           Osc == \E i \in DOMAIN config[1].outputs : config[1].outputs[i].transport = "osc"
<1>1. /\ stage = "outputs"
      /\ UNCHANGED <<hardware, host, asked, config, input, listed, known>>
      /\ errors # <<>> => stage' = "failed" /\ error'.at = "outputs" /\ ~error'.os
      /\ errors = <<>> => stage' = "running" /\ error' = error
  BY DEF StartOutputs, Fail
<1>2. errors = <<>> => ready'[1].audio = ReadyAudio
  <2>1. errors = <<>> => \E midi : ready' = Some([audio |-> ReadyAudio, midi_device |-> midi])
    BY DEF StartOutputs
  <2> QED BY <2>1 DEF Some
<1>3. errors = <<>> /\ Osc => BundleBytes(display_channels) <= OSC_UDP_PAYLOAD_LIMIT_BYTES
  <2> DEFINE bytes == BundleBytes(display_channels)
             fits == bytes <= OSC_UDP_PAYLOAD_LIMIT_BYTES
  <2>1. errors = <<>> /\ Osc => ErrorsOf(Result(Check(fits, "Unknown"), bytes)) = <<>>
    BY DEF spawn_outputs, prepare_bin_bundle
  <2> HIDE DEF bytes, fits, errors
  <2>2. ErrorsOf(Result(Check(fits, "Unknown"), bytes)) = <<>> => fits
    BY DEF ErrorsOf, Result, Check, Ok, Err
  <2> QED BY <2>1, <2>2 DEF fits, bytes
<1> HIDE DEF errors, Osc
<1>4. config # None /\ input # None /\ error.at = "none"
      /\ 20 * config[1].vocoder_config.freq_high <= 9 * input[1].rate
      /\ (input[1].selection # None => Max(ToSet(input[1].selection[1])) < input[1].channels)
  BY <1>1 DEF StartupInv, ConfigInv, InputInv, CheckedInv, ErrorInv, Configured, Found, Checked
<1>5. stage' \in {"running", "failed"} /\ (stage' = "running" => errors = <<>>)
  BY <1>1
<1>6. AskedInv'
  BY <1>1 DEF StartupInv, AskedInv
<1>7. ConfigInv'
  BY <1>1, <1>4, <1>5 DEF StartupInv, ConfigInv, Resolved
<1>8. InputInv'
  BY <1>1, <1>4 DEF StartupInv, InputInv
<1>9. CheckedInv'
  <2>1. ReadyAudio' = ReadyAudio /\ display_channels' = display_channels /\ Osc' = Osc
    BY <1>1 DEF ReadyAudio, display_channels, Osc
  <2>2. stage' = "running" =>
          /\ ready'[1].audio.channels = ReadyAudio.channels
          /\ Osc => BundleBytes(display_channels) <= OSC_UDP_PAYLOAD_LIMIT_BYTES
    BY <1>2, <1>3, <1>5
  <2>3. BundleBytes(display_channels)' = BundleBytes(display_channels)
    BY <2>1
  <2>4. stage' = "running" =>
          /\ (ready[1].audio.channels)' = ReadyAudio'.channels
          /\ Osc' => BundleBytes(display_channels)' <= OSC_UDP_PAYLOAD_LIMIT_BYTES
    BY <2>1, <2>2, <2>3
  <2> QED BY <1>1, <1>4, <2>4 DEF CheckedInv, Osc
<1>10. DevicesInv'
  <2>1. error'.at # "audio"
    BY <1>1, <1>4
  <2> QED BY <1>1, <2>1 DEF StartupInv, DevicesInv, Sought
<1>11. ErrorInv'
  BY <1>1, <1>4 DEF ErrorInv
<1> QED BY <1>6, <1>7, <1>8, <1>9, <1>10, <1>11 DEF StartupInv

\* Every step keeps the invariant.
LEMMA StepStartup == StartupInv /\ [StartNext]_startVars => StartupInv'
<1> SUFFICES ASSUME StartupInv, [StartNext]_startVars PROVE StartupInv'
  OBVIOUS
<1>1. CASE UNCHANGED startVars
  BY <1>1, QuietKeeps DEF startVars, run
<1>2. CASE Replug \/ OsRefuses \/ Launch
  BY <1>2, ReplugKeeps, OsRefusesKeeps, LaunchKeeps
<1>3. CASE PrintDevices
  BY <1>3, QuietKeeps DEF PrintDevices
<1>4. CASE ProcessEnds
  BY <1>4, ForgetKeeps DEF ProcessEnds
<1>5. CASE Request
  <2>1. CASE IgnoreMessage
    BY <2>1, QuietKeeps DEF IgnoreMessage
  <2>2. ASSUME NEW m \in Messages,
               RefuseMessage(m) \/ Hello(m) \/ list_midi_devices(m) \/ start_refused(m)
        PROVE  StartupInv'
    BY <2>2, QuietKeeps DEF RefuseMessage, Hello, list_midi_devices, start_refused
  <2>3. ASSUME NEW m \in Messages, list_audio_devices(m)
        PROVE  StartupInv'
    BY <2>3, QuietKeeps DEF list_audio_devices
  <2>4. ASSUME NEW m \in Messages, start(m)
        PROVE  StartupInv'
    BY <2>4, StartKeeps
  <2>5. ASSUME NEW m \in Messages, stop(m)
        PROVE  StartupInv'
    BY <2>5, ForgetKeeps DEF stop
  <2> QED BY <1>5, <2>1, <2>2, <2>3, <2>4, <2>5 DEF Request
<1>6. CASE bootstrap
  BY <1>6, LoadConfigKeeps, ValidateConfigKeeps, ResolveAudioKeeps, ResolveMidiKeeps,
     CheckAgainstHardwareKeeps, OpenStreamKeeps, StartOutputsKeeps DEF bootstrap
<1> QED BY <1>1, <1>2, <1>3, <1>4, <1>5, <1>6 DEF StartNext

\* What the checks of the stages have made sure of by each stage.
THEOREM StartupInvariant == StartSpec => []StartupInv
<1>1. StartInit => StartupInv
  BY InitStartup
<1>2. StartupInv /\ [StartNext]_startVars => StartupInv'
  BY StepStartup
<1> QED BY <1>1, <1>2, PTL DEF StartSpec

\* A configuration that was resolved is never refused again.
THEOREM ResolvedAccepted == StartSpec => []ResolvedIsValid
<1>1. StartupInv => ResolvedIsValid
  BY DEF StartupInv, ErrorInv, ResolvedIsValid
<1> QED BY <1>1, StartupInvariant, PTL
-----------------------------------------------------------------------------
(***************************************************************************)
(* Where the settings of a run come from                                   *)
(***************************************************************************)
\* A test signal is the input, whatever device is named.
LEMMA SignalFacts ==
  ASSUME NEW args, NEW file, IsLayer(args.layer), IsLayer(file), NEW extra \in Extras,
         resolve_with_outputs(args, file, extra).ok
  PROVE  LET chosen == resolve_with_outputs(args, file, extra).value.input
         IN /\ args.test_sweep # None => chosen = [kind |-> "sweep", hz |-> args.test_sweep[1]]
            /\ args.test_sweep = None /\ args.test_hz # None =>
                 chosen = [kind |-> "tone", hz |-> args.test_hz[1]]
<1> DEFINE device == NonBlank(layered(args, file, "device"))
           channels == layered(args, file, "channels")
           signal == IF args.test_sweep # None
                       THEN [kind |-> "sweep", hz |-> args.test_sweep[1]]
                       ELSE [kind |-> "tone", hz |-> args.test_hz[1]]
           errors == Check(channels # Some(<<>>), "EmptyChannelSelection")
                     \o validate_test_signal(signal)
           found == resolve_input(args, device, channels)
<1>1. resolve_with_outputs(args, file, extra).value.input = found.value /\ found.ok
  BY ResolvedParts DEF ResolvedInput
<1>2. args.test_sweep # None \/ args.test_hz # None => found = Result(errors, signal)
  BY DEF resolve_input
<1> HIDE DEF found, errors, signal
<1>3. args.test_sweep # None \/ args.test_hz # None => found.value = signal
  BY <1>1, <1>2 DEF Result, Ok, Err
<1> QED BY <1>1, <1>3 DEF signal

\* A resolution puts every setting where the layers say, whoever the caller is.
LEMMA ResolutionLayered ==
  ASSUME NEW args, NEW file, IsLayer(args.layer), IsLayer(file), NEW extra \in Extras,
         resolve_with_outputs(args, file, extra).ok
  PROVE  LET c == resolve_with_outputs(args, file, extra).value
             given == Over(args.layer, file)
         IN /\ VocoderFrom(given, c.vocoder_config)
            /\ c.outputs = OutputsOf(args, file, extra)
            /\ args.test_sweep # None => c.input = [kind |-> "sweep", hz |-> args.test_sweep[1]]
            /\ args.test_sweep = None /\ args.test_hz # None =>
                 c.input = [kind |-> "tone", hz |-> args.test_hz[1]]
            /\ args.test_sweep = None /\ args.test_hz = None =>
                 /\ c.input.kind = "device" /\ c.input.name = given["device"][1]
                 /\ SelectionFrom(given["channels"], c.input.channels)
            /\ c.midi_input =
                 IF args.test_midi_clock # None
                   THEN Some([kind |-> "clock", bpm |-> args.test_midi_clock[1]])
                   ELSE MidiFrom(given["midi_device"])
<1> DEFINE c == resolve_with_outputs(args, file, extra).value
           given == Over(args.layer, file)
           channels == layered(args, file, "channels")
           device == layered(args, file, "midi_device")
<1>1. \A s \in Settings : given[s] = layered(args, file, s)
  BY GivenFacts
<1>2. /\ VocoderFields \subseteq Settings
      /\ {"device", "channels", "midi_device"} \subseteq Settings
  BY DEF Settings
<1> HIDE DEF given
<1>3. VocoderFrom(given, c.vocoder_config)
  <2>1. \A f \in VocoderFields :
          c.vocoder_config[f] = IF layered(args, file, f) = None THEN VocoderDefaults[f]
                                ELSE layered(args, file, f)[1]
    BY VocoderLayered
  <2> HIDE DEF c
  <2> QED BY <1>1, <1>2, <2>1 DEF VocoderFrom
<1>4. ASSUME args.test_sweep = None, args.test_hz = None
      PROVE  /\ c.input.kind = "device" /\ c.input.name = given["device"][1]
             /\ SelectionFrom(given["channels"], c.input.channels)
  <2>1. c.input.kind = "device" /\ c.input.name = layered(args, file, "device")[1]
    BY <1>4, InputLayered
  <2>2. LET selection == c.input.channels
        IN /\ channels = None => selection = None
           /\ channels # None =>
                LET s == selection[1]
                IN selection = Some(s) /\ ToSet(s) = ToSet(channels[1])
    BY <2>1, SelectionFacts
  <2> HIDE DEF c, channels
  <2>3. SelectionFrom(channels, c.input.channels)
    BY <2>2 DEF SelectionFrom, Some, None
  <2> QED BY <1>1, <1>2, <2>1, <2>3 DEF channels
<1>5. c.midi_input = IF args.test_midi_clock # None
                       THEN Some([kind |-> "clock", bpm |-> args.test_midi_clock[1]])
                       ELSE MidiFrom(given["midi_device"])
  <2>1. /\ args.test_midi_clock # None =>
             c.midi_input = Some([kind |-> "clock", bpm |-> args.test_midi_clock[1]])
        /\ args.test_midi_clock = None =>
             c.midi_input = IF NonBlank(device) = None THEN None
                            ELSE Some([kind |-> "device", name |-> device[1]])
    BY MidiLayered
  <2>2. NonBlank(device) = None <=> device = None \/ device[1] \in BlankNames
    BY DEF NonBlank
  <2>3. given["midi_device"] = device
    BY <1>1, <1>2
  <2> HIDE DEF c, device
  <2> QED BY <2>1, <2>2, <2>3 DEF MidiFrom
<1>6. c.outputs = OutputsOf(args, file, extra)
  BY ResolvedParts
<1>7. /\ args.test_sweep # None => c.input = [kind |-> "sweep", hz |-> args.test_sweep[1]]
      /\ args.test_sweep = None /\ args.test_hz # None =>
           c.input = [kind |-> "tone", hz |-> args.test_hz[1]]
  BY SignalFacts
<1> HIDE DEF c
<1> QED BY <1>3, <1>4, <1>5, <1>6, <1>7 DEF c, given

\* The settings of a launch: the command line's over the file's.
LEMMA LaunchLayered ==
  ASSUME NEW l \in Launches, AppConfig_try_from(l.args, l.explicit, l.file).ok
  PROVE  LaunchHonoured(l, AppConfig_try_from(l.args, l.explicit, l.file).value)
<1> DEFINE args == l.args
           file == SettingsOf(l.file)
           given == Over(args.layer, file)
           r == resolve_with_outputs(args, file, <<>>)
           c == r.value
<1>1. IsLayer(args.layer) /\ IsLayer(file) /\ r.ok
      /\ AppConfig_try_from(l.args, l.explicit, l.file) = r
  BY LaunchResolves
<1>2. <<>> \in Extras
  BY DEF Extras
<1> HIDE DEF args, file
<1>3. /\ VocoderFrom(given, c.vocoder_config)
      /\ c.outputs = OutputsOf(args, file, <<>>)
      /\ args.test_sweep # None => c.input = [kind |-> "sweep", hz |-> args.test_sweep[1]]
      /\ args.test_sweep = None /\ args.test_hz # None =>
           c.input = [kind |-> "tone", hz |-> args.test_hz[1]]
      /\ args.test_sweep = None /\ args.test_hz = None =>
           /\ c.input.kind = "device" /\ c.input.name = given["device"][1]
           /\ SelectionFrom(given["channels"], c.input.channels)
      /\ c.midi_input =
           IF args.test_midi_clock # None
             THEN Some([kind |-> "clock", bpm |-> args.test_midi_clock[1]])
             ELSE MidiFrom(given["midi_device"])
  BY <1>1, <1>2, ResolutionLayered
<1>4. ToSet(OutputsOf(args, file, <<>>)) = OutputsFrom(given, args.no_browser_origin)
  <2> DEFINE found == ToSet(OutputsOf(args, file, <<>>))
             wanted == OutputsFrom(given, args.no_browser_origin)
  <2>1. found = wanted \cup ToSet(<<>>)
    BY <1>1, <1>2, OutputsLayered
  <2>2. ToSet(<<>>) = {}
    BY ElementFacts
  <2> HIDE DEF found, wanted
  <2> QED BY <2>1, <2>2 DEF found, wanted
<1> HIDE DEF r
<1>5. LaunchHonoured(l, c)
  <2> HIDE DEF c
  <2> QED BY <1>3, <1>4 DEF LaunchHonoured, args, file
<1> QED BY <1>1, <1>5 DEF c, args, file

\* The settings of a request: its own over those of its text, without ports.
LEMMA RequestLayered ==
  ASSUME NEW q, IsRequest(q), to_app_config(q).ok
  PROVE  RequestHonoured(q, to_app_config(q).value)
<1> DEFINE args == ArgsOf(q)
           text == TextOf(q)
           own == IF q.config_yaml = None THEN NoSettings ELSE SettingsOf(q.config_yaml[1])
           given == Over(args.layer, text)
           extra == <<FrameRegionOutput>>
           r == resolve_with_outputs(args, text, extra)
           c == r.value
<1>1. /\ IsLayer(args.layer) /\ IsLayer(text) /\ to_app_config(q) = r /\ r.ok
      /\ text["ws_addr"] = None /\ text["osc_addr"] = None
      /\ \A s \in Settings \ NetworkSettings : text[s] = own[s]
  BY RequestResolves
<1>2. /\ \A s \in Settings \ {"device", "channels", "midi_device"} : args.layer[s] = None
      /\ args.layer["device"] = IF q.source.kind = "device" THEN Some(q.source.name) ELSE None
      /\ args.layer["channels"] = IF q.source.kind = "device" THEN q.source.channels ELSE None
      /\ args.layer["midi_device"] =
           IF q.midi # None /\ q.midi[1].kind = "device" THEN Some(q.midi[1].name) ELSE None
      /\ args.test_hz = IF q.source.kind = "test_tone" THEN Some(q.source.hz) ELSE None
      /\ args.test_sweep = IF q.source.kind = "test_sweep" THEN Some(q.source.hz) ELSE None
      /\ args.test_midi_clock =
           IF q.midi # None /\ q.midi[1].kind = "test_clock" THEN Some(q.midi[1].bpm) ELSE None
  BY ArgsFacts
<1>3. extra \in Extras
  BY DEF Extras
<1> HIDE DEF args, text, extra
<1>4. \A s \in Settings : given[s] = IF args.layer[s] # None THEN args.layer[s] ELSE text[s]
  BY DEF Over
<1>5. /\ VocoderFrom(given, c.vocoder_config)
      /\ c.outputs = OutputsOf(args, text, extra)
      /\ args.test_sweep # None => c.input = [kind |-> "sweep", hz |-> args.test_sweep[1]]
      /\ args.test_sweep = None /\ args.test_hz # None =>
           c.input = [kind |-> "tone", hz |-> args.test_hz[1]]
      /\ args.test_sweep = None /\ args.test_hz = None =>
           /\ c.input.kind = "device" /\ c.input.name = given["device"][1]
           /\ SelectionFrom(given["channels"], c.input.channels)
      /\ c.midi_input =
           IF args.test_midi_clock # None
             THEN Some([kind |-> "clock", bpm |-> args.test_midi_clock[1]])
             ELSE MidiFrom(given["midi_device"])
  BY <1>1, <1>3, ResolutionLayered
<1>6. given["ws_addr"] = None /\ given["osc_addr"] = None =>
        OutputsOf(args, text, extra) = extra
  BY <1>1, <1>3, OutputsLayered
<1> HIDE DEF r, c, given, own
<1>7. /\ {"ws_addr", "osc_addr"} \subseteq Settings \ {"device", "channels", "midi_device"}
      /\ VocoderFields \subseteq Settings \ {"device", "channels", "midi_device"}
      /\ VocoderFields \subseteq Settings \ NetworkSettings
      /\ {"device", "channels", "midi_device"} \subseteq Settings \ NetworkSettings
  BY DEF Settings, VocoderFields, NetworkSettings
<1>8. VocoderFrom(own, c.vocoder_config)
  <2>1. \A f \in VocoderFields : given[f] = own[f]
    BY <1>1, <1>2, <1>4, <1>7
  <2> QED BY <1>5, <2>1 DEF VocoderFrom
<1>9. c.outputs = extra
  BY <1>1, <1>2, <1>4, <1>5, <1>6, <1>7
<1>10. ASSUME q.source.kind = "device"
       PROVE  /\ c.input.kind = "device" /\ c.input.name = q.source.name
              /\ SelectionFrom(Or(q.source.channels, own["channels"]), c.input.channels)
  <2>1. args.test_sweep = None /\ args.test_hz = None
    BY <1>2, <1>10
  <2>2. given["device"] = Some(q.source.name)
    <3>1. args.layer["device"] = Some(q.source.name) /\ Some(q.source.name) # None
      BY <1>2, <1>10 DEF Some, None
    <3> QED BY <1>4, <1>7, <3>1
  <2>3. given["channels"] = Or(q.source.channels, own["channels"])
    BY <1>1, <1>2, <1>4, <1>7, <1>10 DEF Or
  <2>4. Some(q.source.name)[1] = q.source.name
    BY DEF Some
  <2> QED BY <1>5, <2>1, <2>2, <2>3, <2>4
<1>11. q.source.kind = "test_tone" => c.input = [kind |-> "tone", hz |-> q.source.hz]
  BY <1>2, <1>5 DEF Some, None
<1>12. q.source.kind = "test_sweep" => c.input = [kind |-> "sweep", hz |-> q.source.hz]
  BY <1>2, <1>5 DEF Some, None
<1>13. ASSUME q.midi # None
       PROVE  c.midi_input = RequestedMidi(q.midi[1])
  <2>1. CASE q.midi[1].kind = "test_clock"
    <3>1. args.test_midi_clock = Some(q.midi[1].bpm)
      BY <1>2, <1>13, <2>1
    <3>2. c.midi_input = Some([kind |-> "clock", bpm |-> q.midi[1].bpm])
      BY <1>5, <3>1 DEF Some, None
    <3> QED BY <2>1, <3>2 DEF RequestedMidi
  <2>2. CASE q.midi[1].kind = "device"
    <3>1. args.test_midi_clock = None /\ args.layer["midi_device"] = Some(q.midi[1].name)
      BY <1>2, <1>13, <2>2
    <3>2. given["midi_device"] = Some(q.midi[1].name)
      <4>1. Some(q.midi[1].name) # None
        BY DEF Some, None
      <4> QED BY <1>4, <1>7, <3>1, <4>1
    <3>3. c.midi_input = MidiFrom(Some(q.midi[1].name))
      BY <1>5, <3>1, <3>2
    <3> QED BY <2>2, <3>3 DEF RequestedMidi
  <2>3. q.midi[1].kind \in {"device", "test_clock"}
    BY <1>13 DEF IsRequest
  <2> QED BY <2>1, <2>2, <2>3
<1>14. ASSUME q.midi = None
       PROVE  c.midi_input = MidiFrom(own["midi_device"])
  <2>1. args.test_midi_clock = None /\ given["midi_device"] = own["midi_device"]
    BY <1>1, <1>2, <1>4, <1>7, <1>14
  <2> QED BY <1>5, <2>1
<1>15. q.source.kind \in {"device", "test_tone", "test_sweep"}
  BY DEF IsRequest
<1>16. RequestHonoured(q, c)
  BY <1>8, <1>9, <1>10, <1>11, <1>12, <1>13, <1>14, <1>15 DEF RequestHonoured, own, extra
<1> QED BY <1>1, <1>16 DEF c

\* Where each setting of a run comes from.
THEOREM SettingsTraced == StartSpec => []SettingsLayered
<1>1. StartupInv => SettingsLayered
  <2> SUFFICES ASSUME StartupInv, config # None PROVE SettingsLayered
    BY DEF SettingsLayered
  <2>1. Resolved.ok /\ config[1] = Resolved.value
    BY DEF StartupInv, ConfigInv, Some
  <2>2. IF host = "service" THEN IsRequest(asked[1]) ELSE asked[1] \in Launches
    BY DEF StartupInv, AskedInv, ConfigInv
  <2>3. CASE host = "service"
    <3>1. /\ IsRequest(asked[1]) /\ to_app_config(asked[1]).ok
          /\ config[1] = to_app_config(asked[1]).value
      BY <2>1, <2>2, <2>3 DEF Resolved
    <3>2. RequestHonoured(asked[1], config[1])
      BY <3>1, RequestLayered
    <3> QED BY <2>3, <3>2 DEF SettingsLayered
  <2>4. CASE host # "service"
    <3> DEFINE l == asked[1]
    <3>1. /\ l \in Launches /\ AppConfig_try_from(l.args, l.explicit, l.file).ok
          /\ config[1] = AppConfig_try_from(l.args, l.explicit, l.file).value
      BY <2>1, <2>2, <2>4 DEF Resolved
    <3>2. LaunchHonoured(l, config[1])
      BY <3>1, LaunchLayered
    <3> QED BY <2>4, <3>2 DEF SettingsLayered
  <2> QED BY <2>3, <2>4
<1> QED BY <1>1, StartupInvariant, PTL

\* A device is asked for under a name that is not blank.
LEMMA NameFacts ==
  ASSUME AskedInv, ConfigInv, config # None, config[1].input.kind = "device"
  PROVE  config[1].input.name \notin BlankNames
<1>1. asked # None /\ Resolved.ok /\ config[1] = Resolved.value
  BY DEF ConfigInv, Some
<1>2. PICK args, file : \E extra \in Extras :
        IsLayer(args.layer) /\ IsLayer(file) /\ Resolved = resolve_with_outputs(args, file, extra)
  BY <1>1, ConfigResolved
<1>3. PICK extra \in Extras :
        IsLayer(args.layer) /\ IsLayer(file) /\ Resolved = resolve_with_outputs(args, file, extra)
  BY <1>2
<1> DEFINE r == resolve_with_outputs(args, file, extra)
           chosen == r.value.input
<1>4. r.ok /\ config[1].input = chosen
  BY <1>1, <1>3
<1>5. LET device == layered(args, file, "device")
          channels == layered(args, file, "channels")
      IN /\ args.test_sweep # None => chosen.kind = "sweep"
         /\ args.test_sweep = None /\ args.test_hz # None => chosen.kind = "tone"
         /\ args.test_sweep = None /\ args.test_hz = None =>
              /\ device # None /\ device[1] \notin BlankNames /\ channels # Some(<<>>)
              /\ chosen.kind = "device" /\ chosen.name = device[1]
              /\ chosen.channels = normalise_channel_selection(channels)
  BY <1>3, <1>4, InputLayered
<1> HIDE DEF r
<1> QED BY <1>4, <1>5

\* A name that was listed once, as supported, opens that device.
THEOREM ListedOpens == StartSpec => []AcceptsWhatItLists
<1>1. StartupInv => AcceptsWhatItLists
  <2> DEFINE name == config[1].input.name
             devices == hardware.audio
  <2> SUFFICES ASSUME StartupInv, known # None, config # None, config[1].input.kind = "device",
                      NEW i \in DOMAIN known[1], known[1][i].supported,
                      known[1][i].name = name,
                      \A j \in DOMAIN known[1] : known[1][j].name = known[1][i].name => j = i
               PROVE  /\ error.at \in {"audio", "stream"} => error.os
                      /\ input # None => input[1].device[1].id = devices[i].id
    BY DEF AcceptsWhatItLists
  <2>1. hardware \in Hardware /\ name \notin BlankNames
    BY NameFacts DEF StartupInv, AskedInv
  <2>2. known[1] = audio_enumerate_devices(devices)
    BY DEF StartupInv, DevicesInv
  <2>3. /\ DOMAIN known[1] = DOMAIN devices
        /\ \A j \in DOMAIN devices :
             /\ known[1][j].name = ShownName(devices[j])
             /\ known[1][j].supported = (devices[j].config # None /\ devices[j].config[1].f32)
    <3> DEFINE entry(d) ==
          [name |-> ShownName(d),
           sample_rate |-> [c \in DOMAIN d.config |-> d.config[c].rate],
           channels |-> [c \in DOMAIN d.config |-> d.config[c].channels],
           supported |-> d.config # None /\ d.config[1].f32]
    <3>1. known[1] = [j \in DOMAIN devices |-> entry(devices[j])]
      BY <2>2 DEF audio_enumerate_devices
    <3>2. \A d : entry(d).name = ShownName(d)
                /\ entry(d).supported = (d.config # None /\ d.config[1].f32)
      OBVIOUS
    <3> HIDE DEF entry
    <3> QED BY <3>1, <3>2
  <2>4. i \in DOMAIN devices /\ devices[i].config # None /\ devices[i].config[1].f32
    BY <2>3
  <2>5. {j \in DOMAIN devices : ShownName(devices[j]) = name} = {i}
    BY <2>3
  <2>6. Sought = Ok(devices[i])
    BY <2>1, <2>4, <2>5, DeviceFacts DEF Sought
  <2>7. Sought.ok = TRUE /\ Sought.value = devices[i]
    BY <2>6 DEF Ok
  <2>8. error.at = "audio" => error.os
    BY <2>7 DEF StartupInv, DevicesInv
  <2>9. input # None =>
          input[1].device[1].id = devices[i].id /\ input[1].f32 = devices[i].config[1].f32
    BY <2>7 DEF StartupInv, DevicesInv
  <2>10. error.at = "stream" => error.os
    BY <2>4, <2>9 DEF StartupInv, ErrorInv
  <2> QED BY <2>8, <2>9, <2>10
<1> QED BY <1>1, StartupInvariant, PTL
-----------------------------------------------------------------------------
(***************************************************************************)
(* What a run that is up can rely on                                       *)
(***************************************************************************)
\* A selection that is in order has its largest channel at its end, and no more
\* channels than there are below a bound on it.
LEMMA SortedFacts ==
  ASSUME NEW s \in Seq(Nat), s # <<>>,
         \A i, j \in 1..Len(s) : i < j => s[i] < s[j],
         NEW n \in Nat, Max(ToSet(s)) < n
  PROVE  /\ \A i \in DOMAIN s : s[i] < n /\ (i > 1 => s[i - 1] < s[i])
         /\ Len(s) \in 1..n
<1> DEFINE L == Len(s)
<1>1. L \in Nat \ {0} /\ DOMAIN s = 1..L
  BY EmptySeq
<1>2. /\ \A i \in 1..L : s[i] \in Nat
      /\ \A i, j \in 1..L : i < j => s[i] < s[j]
      /\ ToSet(s) = {s[i] : i \in 1..L}
  BY <1>1 DEF ToSet
<1> HIDE DEF L
<1>3. L \in 1..L /\ \A i \in 1..L : i = L \/ i < L
  BY <1>1
<1>4. \A i \in 1..L : s[i] <= s[L]
  BY <1>2, <1>3
<1>5. s[L] \in ToSet(s) /\ \A x \in ToSet(s) : s[L] >= x
  BY <1>2, <1>3, <1>4
<1>6. Max(ToSet(s)) \in ToSet(s) /\ \A x \in ToSet(s) : Max(ToSet(s)) >= x
  BY <1>5 DEF Max
<1>7. \A x \in ToSet(s) : x \in Nat
  BY <1>2
<1>8. \A x \in ToSet(s) : x < n
  BY <1>6, <1>7
<1>9. \A i \in 1..L : s[i] < n
  BY <1>2, <1>8
<1>10. ASSUME NEW i \in 1..L, i > 1
       PROVE  s[i - 1] < s[i]
  <2>1. i - 1 \in 1..L /\ i - 1 < i
    BY <1>1, <1>10
  <2> QED BY <1>2, <2>1
<1>11. \A i, j \in 1..L : s[i] = s[j] => i = j
  <2> SUFFICES ASSUME NEW i \in 1..L, NEW j \in 1..L, s[i] = s[j], i # j PROVE FALSE
    OBVIOUS
  <2>1. i < j \/ j < i
    BY <1>1
  <2>2. s[i] < s[j] \/ s[j] < s[i]
    BY <1>2, <2>1
  <2> QED BY <1>2, <2>2
<1>12. s \in [1..L -> 0..(n - 1)]
  <2>1. \A i \in 1..L : s[i] \in 0..(n - 1)
    BY <1>2, <1>9
  <2>2. s = [i \in 1..L |-> s[i]]
    BY <1>1
  <2> QED BY <2>1, <2>2
<1>13. s \in Injection(1..L, 0..(n - 1))
  BY <1>1, <1>11, <1>12 DEF Injection, IsInjective
<1>14. Cardinality(1..L) = L
  <2>1. Cardinality(1..L) = IF 1 > L THEN 0 ELSE L - 1 + 1
    BY <1>1, FS_Interval
  <2> QED BY <1>1, <2>1
<1>15. IsFiniteSet(0..(n - 1)) /\ Cardinality(0..(n - 1)) = n
  <2>1. /\ IsFiniteSet(0..(n - 1))
        /\ Cardinality(0..(n - 1)) = IF 0 > n - 1 THEN 0 ELSE n - 1 - 0 + 1
    BY FS_Interval
  <2> QED BY <2>1
<1>16. L <= n
  BY <1>13, <1>14, <1>15, FS_Injection
<1> QED BY <1>1, <1>9, <1>10, <1>16 DEF L

\* Fewer channels have fewer samples.
LEMMA FewerSamples ==
  ASSUME NEW rate \in Nat, NEW n \in Nat, NEW d \in 0..n
  PROVE  /\ samples_for_ms(rate, d, ANALYSE_BUFFER_MS) \in Nat
         /\ samples_for_ms(rate, d, ANALYSE_BUFFER_MS) <= samples_for_ms(rate, n, ANALYSE_BUFFER_MS)
<1> DEFINE a == rate * d
           b == rate * n
<1>1. a \in Nat /\ b \in Nat /\ a <= b
  <2>1. rate * (n - d) >= 0 /\ rate * n = rate * d + rate * (n - d)
    OBVIOUS
  <2> QED BY <2>1
<1> HIDE DEF a, b
<1>2. (a * 500) \div 1000 \in Nat /\ (a * 500) \div 1000 <= (b * 500) \div 1000
  BY <1>1
<1> QED BY <1>2 DEF samples_for_ms, ANALYSE_BUFFER_MS, a, b

\* A transfer buffer, in whole frames, has no more samples than half a second,
\* if a channel has five samples a second.
LEMMA ChunkFacts ==
  ASSUME NEW rate \in Nat, rate >= 5, NEW d \in Nat \ {0}
  PROVE  /\ frame_aligned_samples_for_ms(rate, d, CHUNK_SIZE_MS) \in Int
         /\ frame_aligned_samples_for_ms(rate, d, CHUNK_SIZE_MS)
              <= samples_for_ms(rate, d, ANALYSE_BUFFER_MS)
<1> DEFINE p == rate * d
           n == (p * 10) \div 1000
           m == (p * 500) \div 1000
           q == (n + d - 1) \div d
<1>1. p \in Nat /\ p >= 5 * d
  <2>1. (rate - 5) * d >= 0 /\ rate * d = (rate - 5) * d + 5 * d
    OBVIOUS
  <2> QED BY <2>1
<1>2. /\ samples_for_ms(rate, d, CHUNK_SIZE_MS) = n
      /\ samples_for_ms(rate, d, ANALYSE_BUFFER_MS) = m
  BY DEF samples_for_ms, CHUNK_SIZE_MS, ANALYSE_BUFFER_MS
<1> HIDE DEF p
<1>3. n \in Nat /\ m \in Nat /\ 1000 * n <= 10 * p /\ 1000 * m > 500 * p - 1000
  BY <1>1
<1> HIDE DEF n, m
<1>4. n + d - 1 <= m
  BY <1>1, <1>3
<1>5. frame_aligned_samples_for_ms(rate, d, CHUNK_SIZE_MS) = q * d
  BY <1>2 DEF frame_aligned_samples_for_ms
<1>6. q * d <= n + d - 1
  <2> DEFINE k == n + d - 1
  <2>1. k \in Nat
    BY <1>3
  <2> HIDE DEF k
  <2>2. \A i \in Nat, j \in Nat \ {0} : i = (i \div j) * j + (i % j) /\ i % j \in 0..(j - 1)
    BY Z3
  <2>3. k = (k \div d) * d + (k % d) /\ k % d \in 0..(d - 1)
    BY <2>1, <2>2
  <2>4. (k \div d) * d \in Int
    BY <2>1
  <2>5. (k \div d) * d <= k
    BY <2>1, <2>3, <2>4
  <2> QED BY <2>5 DEF k
<1>7. q * d \in Int
  BY <1>3
<1> QED BY <1>2, <1>3, <1>4, <1>5, <1>6, <1>7

\* A ring takes half a second of samples.
LEMMA RingFacts ==
  ASSUME NEW rate \in Nat, NEW d \in Nat,
         samples_for_ms(rate, d, ANALYSE_BUFFER_MS) <= 2^RingBits
  PROVE  /\ RingCapacity(rate, d) \in Int
         /\ samples_for_ms(rate, d, ANALYSE_BUFFER_MS) <= RingCapacity(rate, d)
<1> DEFINE m == samples_for_ms(rate, d, ANALYSE_BUFFER_MS)
           S == {k \in 0..RingBits : 2^k >= m}
<1>1. RingBits \in Nat
  BY HardwareAssumption
<1>2. m \in Nat
  BY FewerSamples
<1>3. RingCapacity(rate, d) = 2^Min(S)
  BY DEF RingCapacity
<1> HIDE DEF m
<1>4. \A k \in Nat : 2^k \in Int
  OBVIOUS
<1>5. RingBits \in S
  BY <1>1, <1>2, <1>4 DEF m
<1>6. S \subseteq Nat
  BY <1>1
<1>7. Min(S) \in S
  BY <1>5, <1>6, MinFacts
<1>8. 2^Min(S) >= m
  BY <1>7
<1> HIDE DEF S
<1>9. Min(S) \in Nat
  BY <1>6, <1>7
<1> QED BY <1>2, <1>3, <1>4, <1>8, <1>9 DEF m

\* A run that is up can carry its settings on the hardware it found.
THEOREM RunsAreSound == StartSpec => []RunningIsSound
<1>1. StartupInv => RunningIsSound
  <2> SUFFICES ASSUME StartupInv, stage = "running" PROVE RunningIsSound
    BY DEF RunningIsSound
  <2> DEFINE c == config[1]
             high == c.vocoder_config.freq_high
             low == c.vocoder_config.freq_low
             rate == input[1].rate
             n == input[1].channels
             selection == input[1].selection
             s == selection[1]
             channels == ready[1].audio.channels
             d == display_channels
  <2>1. config # None /\ input # None /\ AskedInv /\ ConfigInv
    BY DEF StartupInv, ConfigInv, InputInv, Configured, Found
  <2>2. /\ high \in Int /\ low \in Int /\ 0 < low /\ low < high
        /\ c.outputs # <<>>
        /\ \A i, j \in DOMAIN c.outputs :
             c.outputs[i].transport = c.outputs[j].transport => i = j
        /\ c.input.kind = "device" /\ c.input.channels # None =>
             /\ c.input.channels[1] \in Seq(Nat) /\ c.input.channels[1] # <<>>
             /\ \A i, j \in 1..Len(c.input.channels[1]) :
                  i < j => c.input.channels[1][i] < c.input.channels[1][j]
    BY <2>1, ConfigFacts
  <2>3. /\ Fits(rate, n)
        /\ selection = IF c.input.kind = "device" THEN c.input.channels ELSE None
    BY <2>1 DEF StartupInv, InputInv
  <2>4. /\ 20 * high <= 9 * rate
        /\ selection # None => Max(ToSet(s)) < n
        /\ channels = ReadyAudio.channels
        /\ (\E i \in DOMAIN c.outputs : c.outputs[i].transport = "osc") =>
             BundleBytes(d) <= OSC_UDP_PAYLOAD_LIMIT_BYTES
    BY DEF StartupInv, CheckedInv, Checked
  <2>5. /\ channels = Or(selection, Some(AllChannels(n)))[1]
        /\ d = IF selection = None THEN n ELSE Len(s)
    BY <2>4 DEF ReadyAudio, display_channels
  <2>6. selection # None =>
          s \in Seq(Nat) /\ s # <<>> /\ \A i, j \in 1..Len(s) : i < j => s[i] < s[j]
    BY <2>2, <2>3
  <2>7. /\ rate \in Nat /\ n \in Nat \ {0}
        /\ samples_for_ms(rate, n, ANALYSE_BUFFER_MS) <= 2^RingBits
    BY <2>3 DEF Fits
  <2>8. rate >= 5
    BY <2>2, <2>4, <2>7
  <2> HIDE DEF c, high, low, rate, n, selection, s, channels, d
  <2>9. /\ channels # <<>> /\ Len(channels) = d /\ d \in 1..n
        /\ \A i \in DOMAIN channels : channels[i] < n /\ (i > 1 => channels[i - 1] < channels[i])
    <3>1. CASE selection = None
      <4>1. channels = AllChannels(n) /\ d = n
        BY <2>5, <3>1 DEF Or, Some
      <4>2. channels = [i \in 1..n |-> i - 1]
        BY <4>1 DEF AllChannels
      <4>3. channels \in Seq(Int) /\ Len(channels) = n /\ DOMAIN channels = 1..n
        BY <2>7, <4>2
      <4> QED BY <2>7, <4>1, <4>2, <4>3
    <3>2. CASE selection # None
      <4>1. channels = s /\ d = Len(s)
        BY <2>5, <3>2 DEF Or, s
      <4>2. /\ \A i \in DOMAIN s : s[i] < n /\ (i > 1 => s[i - 1] < s[i])
            /\ Len(s) \in 1..n
        BY <2>4, <2>6, <2>7, <3>2, SortedFacts
      <4> QED BY <2>6, <3>2, <4>1, <4>2
    <3> QED BY <3>1, <3>2
  <2>10. frame_aligned_samples_for_ms(rate, d, CHUNK_SIZE_MS) <= RingCapacity(rate, d)
    <3> DEFINE half == samples_for_ms(rate, d, ANALYSE_BUFFER_MS)
               chunk == frame_aligned_samples_for_ms(rate, d, CHUNK_SIZE_MS)
    <3>1. chunk \in Int /\ chunk <= half
      BY <2>7, <2>8, <2>9, ChunkFacts
    <3>2. half \in Nat /\ half <= samples_for_ms(rate, n, ANALYSE_BUFFER_MS)
          /\ samples_for_ms(rate, n, ANALYSE_BUFFER_MS) \in Nat
      BY <2>7, <2>9, FewerSamples
    <3>3. half <= 2^RingBits
      BY <2>7, <3>2, HardwareAssumption
    <3>4. RingCapacity(rate, d) \in Int /\ half <= RingCapacity(rate, d)
      BY <2>7, <2>9, <3>3, RingFacts
    <3> HIDE DEF half, chunk
    <3>5. chunk <= RingCapacity(rate, d)
      BY <3>1, <3>2, <3>4
    <3> QED BY <3>5 DEF chunk
  <2> QED BY <2>2, <2>4, <2>9, <2>10
       DEF RunningIsSound, c, high, low, rate, n, channels, d
<1> QED BY <1>1, StartupInvariant, PTL
-----------------------------------------------------------------------------
(***************************************************************************)
(* The host process: Headless                                              *)
(***************************************************************************)
Ending == {"shutdown", "report"}
Lines ==
  [kind : {"none", "ready", "shutdown", "error"},
   what : {"none", "signal", "stdin_closed", "Startup", "Unknown", "HardwareStreamError"}]
Polling == {"signal", "eof", "decide"}

RunInv ==
  /\ pc \in {"start", "ready", "register", "watch"} \cup Polling \cup Ending
  /\ pc = "start" => engine = "none" /\ events = << >>
  /\ pc = "report" => engine # "up"
  /\ exit \in {"success", "failure"} => pc = "report"
  /\ pc \notin Ending => result = Nothing
  /\ watcher # "none" => pc \in Polling \cup Ending

\* The host has read the ready line last, or the engine is down.
EventsInv ==
  /\ result \in Lines /\ events \in Seq(Lines)
  /\ events # << >> /\ events[Len(events)] # Ready => engine # "up"

\* Until the run ends, only the stream's callback clears the flag, after it has
\* recorded the error.
CauseInv ==
  /\ keep_running \in BOOLEAN /\ hardware_stream_error \in BOOLEAN
  /\ pc \notin Ending =>
       /\ ~keep_running => callback = "done"
       /\ callback \in {"first", "done"} => hardware_stream_error
  /\ watcher # "none" => result # Failed("Unknown")

HeadlessInv == RunInv /\ EventsInv /\ CauseInv
-----------------------------------------------------------------------------
\* What the process has to say.
LEMMA LineFacts ==
  /\ Nothing \in Lines /\ Ready \in Lines
  /\ Stopped("signal") \in Lines /\ Stopped("stdin_closed") \in Lines
  /\ Failed("Startup") \in Lines /\ Failed("Unknown") \in Lines
  /\ Failed("HardwareStreamError") \in Lines
BY DEF Nothing, Ready, Stopped, Failed, Lines

\* No stop and no explained failure is the unexplained one.
LEMMA Distinct ==
  /\ Nothing # Failed("Unknown") /\ Failed("HardwareStreamError") # Failed("Unknown")
  /\ \A reason : Stopped(reason) # Failed("Unknown")
BY DEF Nothing, Stopped, Failed

\* A line written is the last one the host reads, or nothing reaches it.
LEMMA WriteFacts ==
  ASSUME NEW event \in Lines, Write(event),
         events \in Seq(Lines)
  PROVE  /\ events' \in Seq(Lines)
         /\ events' = events \/ (events' # << >> /\ events'[Len(events')] = event)
BY DEF Write

\* The process has not started its engine.
LEMMA InitHeadless == Init => HeadlessInv
<1> SUFFICES ASSUME Init PROVE HeadlessInv
  OBVIOUS
<1> USE LineFacts, Distinct DEF Init, Polling, Ending
<1>1. RunInv
  BY DEF RunInv
<1>2. EventsInv
  BY DEF EventsInv
<1>3. CauseInv
  BY DEF CauseInv
<1> QED BY <1>1, <1>2, <1>3 DEF HeadlessInv

\* The engine comes up, or its failure is reported.
LEMMA StartEngineKeeps ==
  ASSUME HeadlessInv, StartEngine
  PROVE  HeadlessInv'
<1> USE LineFacts, Distinct DEF HeadlessInv, StartEngine, Alive, Polling, Ending,
         mainVars, engineVars, hostVars
<1>1. RunInv'
  BY DEF RunInv
<1>2. EventsInv'
  BY DEF EventsInv, RunInv
<1>3. CauseInv'
  BY DEF CauseInv, RunInv
<1> QED BY <1>1, <1>2, <1>3

\* The signal handlers are registered, or the run ends.
LEMMA RegisterHandlersKeeps ==
  ASSUME HeadlessInv, RegisterHandlers
  PROVE  HeadlessInv'
<1> USE LineFacts, Distinct DEF HeadlessInv, RegisterHandlers, Alive, Polling, Ending,
         mainVars, engineVars, hostVars
<1>1. RunInv'
  BY DEF RunInv
<1>2. EventsInv'
  BY DEF EventsInv, RunInv
<1>3. CauseInv'
  BY DEF CauseInv, RunInv
<1> QED BY <1>1, <1>2, <1>3

\* The watcher starts, or the run ends.
LEMMA WatchStdinKeeps ==
  ASSUME HeadlessInv, WatchStdin
  PROVE  HeadlessInv'
<1> USE LineFacts, Distinct DEF HeadlessInv, WatchStdin, Alive, Polling, Ending,
         mainVars, engineVars, hostVars
<1>1. RunInv'
  BY DEF RunInv
<1>2. EventsInv'
  BY DEF EventsInv, RunInv
<1>3. CauseInv'
  BY DEF CauseInv, RunInv
<1> QED BY <1>1, <1>2, <1>3

\* A poll loads the requests.
LEMMA LoadRequestsKeeps ==
  ASSUME HeadlessInv, LoadRequests
  PROVE  HeadlessInv'
<1> USE LineFacts, Distinct DEF HeadlessInv, LoadRequests, Alive, Polling, Ending,
         mainVars, engineVars, hostVars
<1>1. RunInv'
  BY DEF RunInv
<1>2. EventsInv'
  BY DEF EventsInv, RunInv
<1>3. CauseInv'
  BY DEF CauseInv, RunInv
<1> QED BY <1>1, <1>2, <1>3

\* The poll decides: a cleared flag without a request has its error.
LEMMA DecideKeeps ==
  ASSUME HeadlessInv, Decide
  PROVE  HeadlessInv'
<1> USE LineFacts, Distinct DEF HeadlessInv, Decide, Alive, Polling, Ending,
         mainVars, engineVars, hostVars,
    EngineFailure, EngineStopped, Requested
<1>1. RunInv'
  BY DEF RunInv
<1>2. EventsInv'
  BY DEF EventsInv, RunInv
<1>3. CauseInv'
  BY DEF CauseInv, RunInv
<1> QED BY <1>1, <1>2, <1>3

\* The engine drains.
LEMMA ShutdownKeeps ==
  ASSUME HeadlessInv, Shutdown
  PROVE  HeadlessInv'
<1> USE LineFacts, Distinct DEF HeadlessInv, Shutdown, Alive, Polling, Ending,
         mainVars, engineVars, hostVars, Drained
<1>1. RunInv'
  BY DEF RunInv
<1>2. EventsInv'
  BY DEF EventsInv, RunInv
<1>3. CauseInv'
  BY DEF CauseInv, RunInv
<1> QED BY <1>1, <1>2, <1>3

\* The stream records its error, then clears the flag.
LEMMA StreamFailsKeeps ==
  ASSUME HeadlessInv, StreamFails
  PROVE  HeadlessInv'
<1> USE LineFacts, Distinct DEF HeadlessInv, StreamFails, Alive, Polling, Ending,
         mainVars, engineVars, hostVars, RecordThenClear
<1>1. RunInv'
  BY DEF RunInv
<1>2. EventsInv'
  BY DEF EventsInv, RunInv
<1>3. CauseInv'
  BY DEF CauseInv, RunInv
<1> QED BY <1>1, <1>2, <1>3

\* The watcher sees the end of stdin.
LEMMA WatcherClosesKeeps ==
  ASSUME HeadlessInv, WatcherCloses
  PROVE  HeadlessInv'
<1> USE LineFacts, Distinct DEF HeadlessInv, WatcherCloses, Alive, Polling, Ending,
         mainVars, engineVars, hostVars
<1>1. RunInv'
  BY DEF RunInv
<1>2. EventsInv'
  BY DEF EventsInv, RunInv
<1>3. CauseInv'
  BY DEF CauseInv, RunInv
<1> QED BY <1>1, <1>2, <1>3

\* A signal sets its flag or kills the process.
LEMMA SignalKeeps ==
  ASSUME HeadlessInv, Signal
  PROVE  HeadlessInv'
<1> USE LineFacts, Distinct DEF HeadlessInv, Signal, Alive, Polling, Ending,
         mainVars, engineVars, hostVars
<1>1. RunInv'
  BY DEF RunInv
<1>2. EventsInv'
  BY DEF EventsInv, RunInv
<1>3. CauseInv'
  BY DEF CauseInv, RunInv
<1> QED BY <1>1, <1>2, <1>3

\* The host closes stdin.
LEMMA HostClosesStdinKeeps ==
  ASSUME HeadlessInv, HostClosesStdin
  PROVE  HeadlessInv'
<1> USE LineFacts, Distinct DEF HeadlessInv, HostClosesStdin, Alive, Polling, Ending,
         mainVars, engineVars, hostVars
<1>1. RunInv'
  BY DEF RunInv
<1>2. EventsInv'
  BY DEF EventsInv, RunInv
<1>3. CauseInv'
  BY DEF CauseInv, RunInv
<1> QED BY <1>1, <1>2, <1>3

\* The host is gone.
LEMMA HostExitsKeeps ==
  ASSUME HeadlessInv, HostExits
  PROVE  HeadlessInv'
<1> USE LineFacts, Distinct DEF HeadlessInv, HostExits, Alive, Polling, Ending,
         mainVars, engineVars, hostVars
<1>1. RunInv'
  BY DEF RunInv
<1>2. EventsInv'
  BY DEF EventsInv, RunInv
<1>3. CauseInv'
  BY DEF CauseInv, RunInv
<1> QED BY <1>1, <1>2, <1>3

\* The ready line, or the end of a run that cannot write it.
LEMMA WriteReadyKeeps ==
  ASSUME HeadlessInv, WriteReady
  PROVE  HeadlessInv'
<1> USE LineFacts, Distinct DEF HeadlessInv, WriteReady, Alive, Polling, Ending,
         mainVars, engineVars, hostVars
<1>1. RunInv'
  BY DEF RunInv
<1>2. EventsInv'
  <2>1. Ready \in Lines /\ Write(Ready)
    OBVIOUS
  <2> QED BY <2>1, WriteFacts DEF EventsInv, RunInv
<1>3. CauseInv'
  BY DEF CauseInv, RunInv
<1> QED BY <1>1, <1>2, <1>3

\* The last event, with the engine down.
LEMMA ReportKeeps ==
  ASSUME HeadlessInv, Report
  PROVE  HeadlessInv'
<1> USE LineFacts, Distinct DEF HeadlessInv, Report, Alive, Polling, Ending,
         mainVars, engineVars, hostVars
<1>1. RunInv'
  BY DEF RunInv
<1>2. EventsInv'
  <2>1. engine' # "up"
    BY DEF RunInv
  <2>2. PICK event \in Lines : event = result
    BY DEF EventsInv
  <2>3. Write(event)
    BY <2>2 DEF Write
  <2>4. events' \in Seq(Lines)
    BY <2>3, WriteFacts DEF EventsInv
  <2> QED BY <2>1, <2>4 DEF EventsInv
<1>3. CauseInv'
  BY DEF CauseInv, RunInv
<1> QED BY <1>1, <1>2, <1>3

\* The invariant is inductive.
LEMMA StepHeadless == HeadlessInv /\ [Next]_vars => HeadlessInv'
<1> SUFFICES ASSUME HeadlessInv, [Next]_vars PROVE HeadlessInv'
  OBVIOUS
<1>1. CASE Next
  <2>1. CASE Main
    BY <2>1, StartEngineKeeps, WriteReadyKeeps, RegisterHandlersKeeps, WatchStdinKeeps,
       LoadRequestsKeeps, DecideKeeps, ShutdownKeeps, ReportKeeps DEF Main
  <2> QED BY <1>1, <2>1, StreamFailsKeeps, WatcherClosesKeeps, SignalKeeps,
             HostClosesStdinKeeps, HostExitsKeeps DEF Next
<1>2. CASE UNCHANGED vars
  BY <1>2
     DEF vars, mainVars, engineVars, hostVars, HeadlessInv, RunInv, EventsInv, CauseInv
<1> QED BY <1>1, <1>2

\* HeadlessInv holds throughout.
LEMMA HeadlessInvariant == Spec => []HeadlessInv
BY InitHeadless, StepHeadless, PTL DEF Spec

\* The process never reports and never exits by itself with the engine up.
THEOREM DrainsFirst == Spec => []DrainedBeforeReport
<1>1. HeadlessInv => DrainedBeforeReport
  BY DEF HeadlessInv, RunInv, EventsInv, DrainedBeforeReport
<1> QED BY <1>1, HeadlessInvariant, PTL

\* A run that the engine ended is never reported without its cause.
THEOREM CauseReported == Spec => []FailureHasItsCause
<1>1. HeadlessInv => FailureHasItsCause
  BY DEF HeadlessInv, CauseInv, FailureHasItsCause
<1> QED BY <1>1, HeadlessInvariant, PTL
-----------------------------------------------------------------------------
\* A line is written once at each place that writes one: none before the ready
\* line, none between it and the last.
LinesInv ==
  /\ pc \in {"start", "ready"} => events = << >>
  /\ exit = "none" => Len(events) <= 1
  /\ Len(events) <= 2

\* A line is one more, or the host is gone.
LEMMA WriteCounts ==
  ASSUME NEW event, Write(event), events \in Seq(Lines), event \in Lines
  PROVE  Len(events') \in Nat /\ Len(events') <= Len(events) + 1
BY DEF Write

\* The two places that write a line are passed once.
LEMMA StepLines == HeadlessInv /\ LinesInv /\ [Next]_vars => LinesInv'
<1> SUFFICES ASSUME HeadlessInv, LinesInv, [Next]_vars PROVE LinesInv'
  OBVIOUS
<1>1. events \in Seq(Lines) /\ result \in Lines /\ Len(events) \in Nat
  BY DEF HeadlessInv, EventsInv
<1>2. CASE WriteReady
  <2>1. Len(events) = 0 /\ Write(Ready) /\ pc' \notin {"start", "ready"}
    BY <1>2 DEF WriteReady, LinesInv
  <2>2. Len(events') \in Nat /\ Len(events') <= Len(events) + 1
    BY <1>1, <2>1, WriteCounts, LineFacts, Zenon
  <2> QED BY <2>1, <2>2 DEF LinesInv
<1>3. CASE Report
  <2>1. Len(events) <= 1 /\ Write(result) /\ exit' # "none" /\ pc' = "report"
    BY <1>3 DEF Report, LinesInv, Alive
  <2>2. Len(events') \in Nat /\ Len(events') <= Len(events) + 1
    BY <1>1, <2>1, WriteCounts, Zenon
  <2> QED BY <1>1, <2>1, <2>2 DEF LinesInv
<1>4. ASSUME events' = events, exit' # "none" \/ exit' = exit,
             pc' \in {"start", "ready"} => pc \in {"start", "ready"}
      PROVE  LinesInv'
  BY <1>4 DEF LinesInv
<1>5. CASE \/ StartEngine \/ RegisterHandlers \/ WatchStdin \/ LoadRequests \/ Decide
          \/ Shutdown
  BY <1>4, <1>5 DEF StartEngine, RegisterHandlers, WatchStdin, LoadRequests, Decide, Shutdown
<1>6. CASE StreamFails \/ WatcherCloses \/ Signal \/ HostClosesStdin \/ HostExits
  BY <1>4, <1>6 DEF StreamFails, WatcherCloses, Signal, HostClosesStdin, HostExits, mainVars
<1>7. CASE UNCHANGED vars
  BY <1>4, <1>7 DEF vars, mainVars
<1> QED BY <1>2, <1>3, <1>5, <1>6, <1>7 DEF Next, Main

\* The other types.
LEMMA StepType ==
  HeadlessInv /\ TypeOK /\ HeadlessInv' /\ LinesInv' /\ [Next]_vars => TypeOK'
<1> SUFFICES ASSUME HeadlessInv, TypeOK, HeadlessInv', LinesInv', [Next]_vars PROVE TypeOK'
  OBVIOUS
<1>1. /\ pc' \in {"start", "ready", "register", "watch", "signal", "eof", "decide",
                  "shutdown", "report"}
      /\ Len(events') <= 2
      /\ keep_running' \in BOOLEAN /\ hardware_stream_error' \in BOOLEAN
  BY DEF HeadlessInv, RunInv, CauseInv, LinesInv, Polling, Ending
<1> USE DEF mainVars, engineVars, hostVars
<1>2. /\ engine' \in {"none", "up", "drained"}
      /\ callback' \in {"idle", "first", "done"}
      /\ stdin' \in {"open", "eof"} /\ stdout' \in {"open", "broken"}
      /\ watcher' \in {"none", "reading", "done"}
      /\ exit' \in {"none", "success", "failure", "killed"}
  BY DEF TypeOK, Next, Main, StartEngine, WriteReady, RegisterHandlers, WatchStdin, LoadRequests,
     Decide, Shutdown, Drained, Report, StreamFails, WatcherCloses, Signal, HostClosesStdin,
     HostExits, vars
<1>3. handlers' \in BOOLEAN /\ shutdown_requested' \in BOOLEAN /\ stdin_closed' \in BOOLEAN
  BY DEF TypeOK, Next, Main, StartEngine, WriteReady, RegisterHandlers, WatchStdin, LoadRequests,
     Decide, Shutdown, Report, StreamFails, WatcherCloses, Signal, HostClosesStdin,
     HostExits, vars
<1>4. seen' \in [signal : BOOLEAN, eof : BOOLEAN]
  <2>1. seen \in [signal : BOOLEAN, eof : BOOLEAN]
        /\ shutdown_requested \in BOOLEAN /\ stdin_closed \in BOOLEAN
    BY DEF TypeOK
  <2>2. CASE LoadRequests
    BY <2>1, <2>2 DEF LoadRequests
  <2>3. CASE Decide
    BY <2>3 DEF Decide, NoFlags
  <2>4. CASE seen' = seen
    BY <2>1, <2>4
  <2> QED
    BY <2>2, <2>3, <2>4 DEF Next, Main, StartEngine, WriteReady, RegisterHandlers, WatchStdin,
       Shutdown, Report, StreamFails, WatcherCloses, Signal, HostClosesStdin, HostExits, vars
<1> QED BY <1>1, <1>2, <1>3, <1>4 DEF TypeOK

\* The state has its types, and the host reads at most two lines: ready, and
\* one that tells why the run ended.
THEOREM AtMostTwoLines == Spec => []TypeOK
<1>1. Init => LinesInv /\ TypeOK
  <2> SUFFICES ASSUME Init PROVE LinesInv /\ TypeOK
    OBVIOUS
  <2>1. Len(events) = 0 /\ seen \in [signal : BOOLEAN, eof : BOOLEAN]
    BY DEF Init, NoFlags
  <2>2. /\ {keep_running, hardware_stream_error, handlers, shutdown_requested,
            stdin_closed} \subseteq BOOLEAN
    BY DEF Init
  <2>3. Len(events) <= 1 /\ Len(events) <= 2
    BY <2>1
  <2> QED BY <2>1, <2>2, <2>3, Zenon DEF Init, LinesInv, TypeOK
<1>2. HeadlessInv /\ LinesInv /\ [Next]_vars => LinesInv'
  BY StepLines
<1>3. HeadlessInv /\ TypeOK /\ HeadlessInv' /\ LinesInv' /\ [Next]_vars => TypeOK'
  BY StepType
<1> QED BY <1>1, <1>2, <1>3, HeadlessInvariant, PTL DEF Spec
=============================================================================
