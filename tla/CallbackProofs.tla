----------------------------- MODULE CallbackProofs -----------------------------
(***************************************************************************)
(* What the output callbacks keep, for every number of samples, every      *)
(* timing and every number of callbacks at the same time.                  *)
(*                                                                         *)
(* One part of the invariant per shared object: the tracker's lock, the    *)
(* wire behind the send lock, and the count that has no lock; a last part  *)
(* says how far all of it is serial as long as no two callbacks overlap.   *)
(***************************************************************************)
EXTENDS EncCallbacks, FiniteSetTheorems, SequenceTheorems, TLAPS

Emitted(s) == step[s] \in {"stamped", "counting", "counted", "sent"}
PastLock == {s \in Samples : step[s] \notin {"held", "begun"}}
Counted == {s \in Samples : step[s] \in {"counted", "sent"}}
Sent == {s \in Samples : step[s] = "sent"}

\* The tracker's lock: each callback passes it once, and the PTS the tracker
\* remembers, as that of every sample skipped, belongs to a sample let through.
LockInv ==
    /\ Len(processed) = Cardinality(PastLock)
    /\ \A i \in DOMAIN emitted : emitted[i] \in PastLock
    /\ lastPts # MinTicks => \E r \in Samples : Emitted(r) /\ timing[r].pts = lastPts
    /\ \A s \in Samples : At(s, "skipped") =>
          \E r \in Samples : Emitted(r) /\ timing[r].pts = timing[s].pts

\* The wire: each sample once, and nothing after DONE.
WireInv ==
    /\ ToSet(wire) = Sent
    /\ Len(wire) = Cardinality(Sent)
    /\ doneSent => AllReturned

\* The count: updates may be lost, never invented.
CountInv ==
    /\ packetsOut <= Cardinality(Counted)
    /\ \A s \in Samples : At(s, "counting") => loaded[s] <= Cardinality(Counted)

\* Callbacks begin in output order; as long as none overlap, there is one at a
\* time, later than all that was sent, and no update of the count is lost.
SerialInv ==
    /\ \A r, s \in Samples : r < s /\ At(r, "held") => At(s, "held")
    /\ ~overlapped =>
          /\ \A r, s \in Running : r = s
          /\ \A i, j \in DOMAIN wire : i < j => wire[i] < wire[j]
          /\ \A s \in Running : \A i \in DOMAIN wire : wire[i] < s
          /\ packetsOut = Cardinality(Counted)
          /\ \A s \in Samples : At(s, "counting") => loaded[s] = packetsOut

CallbackInv == TypeOK /\ LockInv /\ WireInv /\ CountInv /\ SerialInv

-------------------------------------------------------------------------------
(***************************************************************************)
(* Steps of a callback.                                                    *)
(***************************************************************************)
LEMMA StepMoves ==
    ASSUME TypeOK, NEW s \in Samples, NEW there \in Steps, GoTo(s, there)
    PROVE  /\ step'[s] = there
           /\ \A r \in Samples : r # s => step'[r] = step[r]
           /\ step' \in [Samples -> Steps]
<1>1. step \in [Samples -> Steps] /\ step' = [step EXCEPT ![s] = there]
  BY DEF TypeOK, GoTo
<1> QED
  BY <1>1

\* Sets of samples are finite.
LEMMA SampleSets ==
    ASSUME NEW S \in SUBSET Samples
    PROVE  /\ IsFiniteSet(S) /\ Cardinality(S) \in Nat /\ Cardinality(S) <= NumSamples
           /\ \A s \in Samples \ S : /\ Cardinality(S \cup {s}) = Cardinality(S) + 1
                                     /\ Cardinality(S) < NumSamples
<1>1. NumSamples \in Nat
  BY CallbacksAssumption
<1>2. IsFiniteSet(Samples) /\ Cardinality(Samples) = NumSamples
  BY <1>1, FS_Interval DEF Samples
<1>3. ASSUME NEW T \in SUBSET Samples
      PROVE  IsFiniteSet(T) /\ Cardinality(T) \in Nat /\ Cardinality(T) <= NumSamples
  BY <1>2, FS_Subset, FS_CardinalityType
<1>4. ASSUME NEW s \in Samples \ S
      PROVE  Cardinality(S \cup {s}) = Cardinality(S) + 1 /\ Cardinality(S) < NumSamples
  <2>1. Cardinality(S \cup {s}) = Cardinality(S) + 1
    BY <1>3, FS_AddElement
  <2>2. Cardinality(S \cup {s}) <= NumSamples /\ Cardinality(S) \in Nat
    BY <1>3
  <2> QED
    BY <1>1, <2>1, <2>2
<1> QED
  BY <1>3, <1>4

\* The sets after a step.
LEMMA SetsMove ==
    ASSUME TypeOK, NEW s \in Samples, NEW there \in Steps, GoTo(s, there)
    PROVE  /\ PastLock' = IF there \in {"held", "begun"} THEN PastLock \ {s} ELSE PastLock \cup {s}
           /\ Counted' = IF there \in {"counted", "sent"} THEN Counted \cup {s} ELSE Counted \ {s}
           /\ Sent' = IF there = "sent" THEN Sent \cup {s} ELSE Sent \ {s}
           /\ Running' = IF there \in Ended \cup {"held"} THEN Running \ {s} ELSE Running \cup {s}
           /\ \A r \in Samples : r # s => (Emitted(r)' <=> Emitted(r))
           /\ Emitted(s)' <=> there \in {"stamped", "counting", "counted", "sent"}
<1>1. step'[s] = there /\ \A r \in Samples : r # s => step'[r] = step[r]
  BY StepMoves
<1>2. PastLock' = IF there \in {"held", "begun"} THEN PastLock \ {s} ELSE PastLock \cup {s}
  BY <1>1 DEF PastLock
<1>3. Counted' = IF there \in {"counted", "sent"} THEN Counted \cup {s} ELSE Counted \ {s}
  BY <1>1 DEF Counted
<1>4. Sent' = IF there = "sent" THEN Sent \cup {s} ELSE Sent \ {s}
  BY <1>1 DEF Sent
<1>5. Running' = IF there \in Ended \cup {"held"} THEN Running \ {s} ELSE Running \cup {s}
  BY <1>1 DEF Running
<1>6. \A r \in Samples : r # s => (Emitted(r)' <=> Emitted(r))
  BY <1>1 DEF Emitted
<1>7. Emitted(s)' <=> there \in {"stamped", "counting", "counted", "sent"}
  BY <1>1 DEF Emitted
<1> QED
  BY <1>2, <1>3, <1>4, <1>5, <1>6, <1>7

\* Where a callback is before and after each of its steps.
LEMMA CallbackSteps ==
    ASSUME NEW s \in Samples
    PROVE  /\ Begin(s) => At(s, "held") /\ GoTo(s, "begun")
           /\ Skip(s) => At(s, "begun") /\ GoTo(s, "skipped")
           /\ Stamp(s) => At(s, "begun") /\ GoTo(s, "stamped")
           /\ LoadCount(s) => At(s, "stamped") /\ GoTo(s, "counting")
           /\ StoreCount(s) => At(s, "counting") /\ GoTo(s, "counted")
           /\ Send(s) => At(s, "counted") /\ GoTo(s, "sent")
           /\ {"begun", "skipped", "stamped", "counting", "counted", "sent"} \subseteq Steps
<1>1. Begin(s) => At(s, "held") /\ GoTo(s, "begun")
  BY DEF Begin
<1>2. Skip(s) => At(s, "begun") /\ GoTo(s, "skipped")
  BY DEF Skip
<1>3. Stamp(s) => At(s, "begun") /\ GoTo(s, "stamped")
  BY DEF Stamp
<1>4. LoadCount(s) => At(s, "stamped") /\ GoTo(s, "counting")
  BY DEF LoadCount
<1>5. StoreCount(s) => At(s, "counting") /\ GoTo(s, "counted")
  BY DEF StoreCount
<1>6. Send(s) => At(s, "counted") /\ GoTo(s, "sent")
  BY DEF Send
<1> QED
  BY <1>1, <1>2, <1>3, <1>4, <1>5, <1>6 DEF Steps

CallbackStep(s) == Begin(s) \/ Skip(s) \/ Stamp(s) \/ LoadCount(s) \/ StoreCount(s) \/ Send(s)

-------------------------------------------------------------------------------
(***************************************************************************)
(* Types.                                                                  *)
(***************************************************************************)
LEMMA TimingTypes ==
    ASSUME TypeOK, NEW s \in Samples
    PROVE  timing[s].pts \in Int /\ timing[s].dts \in Int
  BY CallbacksAssumption DEF TypeOK

LEMMA CorrectedType ==
    ASSUME TrackerTypeOK, NEW pts \in Int, NEW dts \in Int
    PROVE  CorrectedDts(pts, dts) \in Int
<1>1. lastDts \in Int /\ MinTicks \in Int
  BY MinTicksAssumption DEF TrackerTypeOK
<1>2. AtMost(dts, pts) \in Int
  BY DEF AtMost
<1>3. Pushed(AtMost(dts, pts)) \in Int
  BY <1>1, <1>2 DEF Pushed
<1> QED
  BY <1>3 DEF CorrectedDts, AtMost

LEMMA CountedBound ==
    ASSUME TypeOK, CountInv, NEW s \in Samples, At(s, "counting")
    PROVE  loaded[s] + 1 \in 0 .. NumSamples
<1>1. s \notin Counted /\ Counted \subseteq Samples
  BY DEF At, Counted
<1>2. Cardinality(Counted) < NumSamples /\ Cardinality(Counted) \in Nat
  BY <1>1, SampleSets
<1>3. loaded[s] \in Nat /\ NumSamples \in Nat
  BY CallbacksAssumption DEF TypeOK
<1> QED
  BY <1>2, <1>3 DEF CountInv

LEMMA CallbackTypes ==
    ASSUME TypeOK, CountInv, NEW s \in Samples, CallbackStep(s)
    PROVE  TypeOK'
<1>1. step' \in [Samples -> Steps]
  <2>1. PICK there \in Steps : GoTo(s, there)
    BY CallbackSteps DEF CallbackStep
  <2> QED
    BY <2>1, StepMoves
<1>2. timing' \in Timings /\ doneSent' \in BOOLEAN
  BY DEF TypeOK, CallbackStep, Begin, Skip, Stamp, LoadCount, StoreCount, Send
<1>3. overlapped' \in BOOLEAN
  <2>1. overlapped \in BOOLEAN
    BY DEF TypeOK
  <2>2. CASE Begin(s)
    <3>1. overlapped' = (overlapped \/ Running # {})
      BY <2>2 DEF Begin
    <3> QED
      BY ONLY <3>1, Zenon
  <2>3. CASE ~Begin(s)
    BY <2>1, <2>3 DEF CallbackStep, Skip, Stamp, LoadCount, StoreCount, Send
  <2> QED
    BY <2>2, <2>3
<1>4. TrackerTypeOK'
  <2>0. TrackerTypeOK
    BY DEF TypeOK
  <2>1. CASE Stamp(s)
    <3>1. EmitSample(timing[s].pts, timing[s].dts)
      BY <2>1 DEF Stamp
    <3> QED
      BY <2>0, <3>1, TimingTypes, CorrectedType DEF EmitSample, TrackerTypeOK
  <2>2. CASE ~Stamp(s)
    BY <2>0, <2>2 DEF CallbackStep, Begin, Skip, SkipSample, LoadCount, StoreCount, Send,
                      trackerVars, TrackerTypeOK
  <2> QED
    BY <2>1, <2>2
<1>5. dtsOf' \in [Samples -> Int]
  <2>0. dtsOf \in [Samples -> Int] /\ TrackerTypeOK
    BY DEF TypeOK
  <2>1. CASE Stamp(s)
    <3>1. dtsOf' = [dtsOf EXCEPT ![s] = CorrectedDts(timing[s].pts, timing[s].dts)]
      BY <2>1 DEF Stamp
    <3>2. CorrectedDts(timing[s].pts, timing[s].dts) \in Int
      BY <2>0, TimingTypes, CorrectedType
    <3> QED
      BY <2>0, <3>1, <3>2
  <2>2. CASE ~Stamp(s)
    BY <2>0, <2>2 DEF CallbackStep, Begin, Skip, LoadCount, StoreCount, Send
  <2> QED
    BY <2>1, <2>2
<1>6. loaded' \in [Samples -> 0 .. NumSamples]
  BY DEF TypeOK, CallbackStep, Begin, Skip, Stamp, LoadCount, StoreCount, Send
<1>7. packetsOut' \in 0 .. NumSamples
  <2>1. CASE StoreCount(s)
    BY <2>1, CountedBound DEF StoreCount
  <2>2. CASE ~StoreCount(s)
    BY <2>2 DEF TypeOK, CallbackStep, Begin, Skip, Stamp, LoadCount, Send
  <2> QED
    BY <2>1, <2>2
<1>8. wire' \in Seq(Samples) /\ processed' \in Seq(Samples) /\ emitted' \in Seq(Samples)
  <2>1. /\ wire' = wire \/ wire' = Append(wire, s)
        /\ processed' = processed \/ processed' = Append(processed, s)
        /\ emitted' = emitted \/ emitted' = Append(emitted, s)
    BY DEF CallbackStep, Begin, Skip, Stamp, LoadCount, StoreCount, Send
  <2>2. wire \in Seq(Samples) /\ processed \in Seq(Samples) /\ emitted \in Seq(Samples)
    BY DEF TypeOK
  <2>3. \A q \in Seq(Samples) : Append(q, s) \in Seq(Samples)
    OBVIOUS
  <2>4. wire' \in Seq(Samples)
    BY <2>1, <2>2, <2>3
  <2>5. processed' \in Seq(Samples)
    BY <2>1, <2>2, <2>3
  <2>6. emitted' \in Seq(Samples)
    BY <2>1, <2>2, <2>3
  <2> QED
    BY <2>4, <2>5, <2>6
<1> QED
  BY <1>1, <1>2, <1>3, <1>4, <1>5, <1>6, <1>7, <1>8 DEF TypeOK

LEMMA EndTypes ==
    ASSUME TypeOK, SendDone \/ UNCHANGED callbackVars
    PROVE  TypeOK'
<1>1. /\ UNCHANGED <<timing, trackerVars, step, dtsOf, loaded, packetsOut, wire, processed,
                     emitted, overlapped>>
      /\ doneSent' \in BOOLEAN
  BY DEF SendDone, callbackVars, TypeOK, trackerVars
<1> QED
  BY <1>1 DEF TypeOK, TrackerTypeOK, trackerVars

-------------------------------------------------------------------------------
(***************************************************************************)
(* The tracker's lock.                                                     *)
(***************************************************************************)
LEMMA LockSame ==
    ASSUME LockInv, UNCHANGED <<timing, lastPts, processed, emitted>>, PastLock' = PastLock,
           \A r \in Samples : (Emitted(r) => Emitted(r)') /\ (At(r, "skipped")' => At(r, "skipped"))
    PROVE  LockInv'
  BY DEF LockInv

LEMMA SkipKeepsLock ==
    ASSUME TypeOK, LockInv, NEW s \in Samples, Skip(s)
    PROVE  LockInv'
<1>1. /\ At(s, "begun") /\ GoTo(s, "skipped") /\ SkipSample(timing[s].pts)
      /\ processed' = Append(processed, s) /\ UNCHANGED <<timing, emitted>>
  BY DEF Skip
<1>2. /\ step'[s] = "skipped" /\ \A r \in Samples : r # s => step'[r] = step[r]
      /\ PastLock' = PastLock \cup {s}
      /\ \A r \in Samples : Emitted(r) => Emitted(r)'
  <2>1. "skipped" \in Steps
    BY DEF Steps
  <2>2. ~Emitted(s)
    BY <1>1 DEF At, Emitted
  <2> QED
    BY <1>1, <2>1, <2>2, StepMoves, SetsMove
<1>3. Len(processed') = Cardinality(PastLock')
  <2>1. s \in Samples \ PastLock /\ PastLock \in SUBSET Samples
    BY <1>1 DEF At, PastLock
  <2>2. Cardinality(PastLock \cup {s}) = Cardinality(PastLock) + 1
    BY <2>1, SampleSets
  <2>3. processed \in Seq(Samples)
    BY DEF TypeOK
  <2> QED
    BY <1>1, <1>2, <2>2, <2>3 DEF LockInv
<1>4. \A i \in DOMAIN emitted' : emitted'[i] \in PastLock'
  BY <1>1, <1>2 DEF LockInv
<1>5. lastPts' = lastPts /\ timing[s].pts = lastPts /\ lastPts # MinTicks
  BY <1>1 DEF SkipSample, IsDuplicate, trackerVars
<1>6. \E r \in Samples : Emitted(r)' /\ timing'[r].pts = lastPts'
  BY <1>1, <1>2, <1>5 DEF LockInv
<1>7. ASSUME NEW q \in Samples, At(q, "skipped")'
      PROVE  \E r \in Samples : Emitted(r)' /\ timing'[r].pts = timing'[q].pts
  <2>1. CASE q = s
    BY <1>1, <1>5, <1>6, <2>1
  <2>2. CASE q # s
    <3>1. At(q, "skipped")
      BY <1>2, <1>7, <2>2 DEF At
    <3> QED
      BY <1>1, <1>2, <3>1 DEF LockInv
  <2> QED
    BY <2>1, <2>2
<1> QED
  BY <1>3, <1>4, <1>6, <1>7 DEF LockInv

LEMMA StampKeepsLock ==
    ASSUME TypeOK, LockInv, NEW s \in Samples, Stamp(s)
    PROVE  LockInv'
<1>1. /\ At(s, "begun") /\ GoTo(s, "stamped") /\ EmitSample(timing[s].pts, timing[s].dts)
      /\ processed' = Append(processed, s) /\ emitted' = Append(emitted, s) /\ UNCHANGED timing
  BY DEF Stamp
<1>2. /\ step'[s] = "stamped" /\ \A r \in Samples : r # s => step'[r] = step[r]
      /\ PastLock' = PastLock \cup {s}
      /\ Emitted(s)' /\ \A r \in Samples : Emitted(r) => Emitted(r)'
  <2>1. "stamped" \in Steps
    BY DEF Steps
  <2> QED
    BY <1>1, <2>1, StepMoves, SetsMove
<1>3. Len(processed') = Cardinality(PastLock')
  <2>1. s \in Samples \ PastLock /\ PastLock \in SUBSET Samples
    BY <1>1 DEF At, PastLock
  <2>2. Cardinality(PastLock \cup {s}) = Cardinality(PastLock) + 1
    BY <2>1, SampleSets
  <2>3. processed \in Seq(Samples)
    BY DEF TypeOK
  <2> QED
    BY <1>1, <1>2, <2>2, <2>3 DEF LockInv
<1>4. ASSUME NEW i \in DOMAIN emitted'
      PROVE  emitted'[i] \in PastLock'
  <2>1. emitted \in Seq(Samples)
    BY DEF TypeOK
  <2>2. (i \in DOMAIN emitted /\ emitted'[i] = emitted[i]) \/ emitted'[i] = s
    BY <1>1, <2>1
  <2> QED
    BY <1>2, <2>2 DEF LockInv
<1>5. lastPts' = timing[s].pts
  BY <1>1 DEF EmitSample
<1>6. \E r \in Samples : Emitted(r)' /\ timing'[r].pts = lastPts'
  BY <1>1, <1>2, <1>5
<1>7. ASSUME NEW q \in Samples, At(q, "skipped")'
      PROVE  \E r \in Samples : Emitted(r)' /\ timing'[r].pts = timing'[q].pts
  <2>1. At(q, "skipped")
    BY <1>2, <1>7 DEF At
  <2> QED
    BY <1>1, <1>2, <2>1 DEF LockInv
<1> QED
  BY <1>3, <1>4, <1>6, <1>7 DEF LockInv

LEMMA OthersKeepLock ==
    ASSUME TypeOK, LockInv, NEW s \in Samples,
           Begin(s) \/ LoadCount(s) \/ StoreCount(s) \/ Send(s)
    PROVE  LockInv'
<1>1. UNCHANGED <<timing, lastPts, processed, emitted>>
  BY DEF Begin, LoadCount, StoreCount, Send, trackerVars
<1>2. PICK from \in Steps, there \in Steps :
         /\ step[s] = from /\ GoTo(s, there)
         /\ <<from, there>> \in { <<"held", "begun">>, <<"stamped", "counting">>,
                                  <<"counting", "counted">>, <<"counted", "sent">> }
  BY CallbackSteps DEF At, Steps
<1>3. PastLock' = PastLock
  <2>1. PastLock' = IF there \in {"held", "begun"} THEN PastLock \ {s} ELSE PastLock \cup {s}
    BY <1>2, SetsMove
  <2>2. s \in PastLock <=> from \notin {"held", "begun"}
    BY <1>2 DEF PastLock
  <2> QED
    BY <1>2, <2>1, <2>2
<1>4. ASSUME NEW r \in Samples
      PROVE  (Emitted(r) => Emitted(r)') /\ (At(r, "skipped")' => At(r, "skipped"))
  BY <1>2, StepMoves DEF Emitted, At
<1> QED
  BY <1>1, <1>3, <1>4, LockSame

-------------------------------------------------------------------------------
(***************************************************************************)
(* The wire and the count.                                                 *)
(***************************************************************************)

\* One element more at the end.
LEMMA AppendSet ==
    ASSUME NEW S, NEW q \in Seq(S), NEW x \in S
    PROVE  ToSet(Append(q, x)) = ToSet(q) \cup {x} /\ Len(Append(q, x)) = Len(q) + 1
<1>1. /\ DOMAIN Append(q, x) = 1 .. Len(q) + 1 /\ DOMAIN q = 1 .. Len(q) /\ Len(q) \in Nat
      /\ \A i \in 1 .. Len(q) : Append(q, x)[i] = q[i]
      /\ Append(q, x)[Len(q) + 1] = x
  OBVIOUS
<1>2. PICK r : r = Append(q, x)
  OBVIOUS
<1>3. ToSet(r) = ToSet(q) \cup {x}
  <2>1. ASSUME NEW i \in DOMAIN r
        PROVE  r[i] \in ToSet(q) \cup {x}
    <3>1. i \in 1 .. Len(q) \/ i = Len(q) + 1
      BY <1>1, <1>2
    <3> QED
      BY <1>1, <1>2, <3>1 DEF ToSet
  <2>2. ASSUME NEW i \in DOMAIN q
        PROVE  q[i] \in ToSet(r)
    <3>1. i \in DOMAIN r /\ r[i] = q[i]
      BY <1>1, <1>2
    <3> QED
      BY <3>1 DEF ToSet
  <2>3. x \in ToSet(r)
    <3>1. Len(q) + 1 \in DOMAIN r /\ r[Len(q) + 1] = x
      BY <1>1, <1>2
    <3> QED
      BY <3>1 DEF ToSet
  <2> QED
    BY <2>1, <2>2, <2>3 DEF ToSet
<1> QED
  BY <1>1, <1>2, <1>3

\* A callback that has a step to take has not returned.
LEMMA NotAllReturned ==
    ASSUME NEW s \in Samples, CallbackStep(s)
    PROVE  ~AllReturned
<1>1. step[s] \in {"held", "begun", "stamped", "counting", "counted"}
  BY CallbackSteps DEF CallbackStep, At
<1> QED
  BY <1>1 DEF AllReturned, Ended

LEMMA CallbackKeepsWire ==
    ASSUME TypeOK, WireInv, NEW s \in Samples, CallbackStep(s)
    PROVE  WireInv'
<1>1. doneSent' = FALSE
  <2>1. ~doneSent
    BY NotAllReturned DEF WireInv
  <2>2. doneSent' = doneSent /\ doneSent \in BOOLEAN
    BY DEF CallbackStep, Begin, Skip, Stamp, LoadCount, StoreCount, Send, TypeOK
  <2> QED
    BY ONLY <2>1, <2>2, Zenon
<1>2. CASE Send(s)
  <2>1. At(s, "counted") /\ GoTo(s, "sent") /\ wire' = Append(wire, s) /\ wire \in Seq(Samples)
    BY <1>2 DEF Send, TypeOK
  <2>2. Sent' = Sent \cup {s}
    <3>1. "sent" \in Steps
      BY DEF Steps
    <3> QED
      BY <2>1, <3>1, SetsMove
  <2>3. ToSet(wire') = ToSet(wire) \cup {s} /\ Len(wire') = Len(wire) + 1
    BY <2>1, AppendSet
  <2>4. Cardinality(Sent \cup {s}) = Cardinality(Sent) + 1
    <3>1. Sent \in SUBSET Samples /\ s \in Samples \ Sent
      BY <2>1 DEF Sent, At
    <3> QED
      BY <3>1, SampleSets
  <2> QED
    BY <1>1, <2>2, <2>3, <2>4 DEF WireInv
<1>3. CASE ~Send(s)
  <2>1. wire' = wire
    BY <1>3 DEF CallbackStep, Begin, Skip, Stamp, LoadCount, StoreCount
  <2>2. PICK there \in Steps : GoTo(s, there) /\ there # "sent" /\ step[s] # "sent"
    BY <1>3, CallbackSteps DEF CallbackStep, At
  <2>3. Sent' = Sent
    <3>1. Sent' = Sent \ {s} /\ s \notin Sent
      BY <2>2, SetsMove DEF Sent
    <3> QED
      BY <3>1
  <2> QED
    BY <1>1, <2>1, <2>3 DEF WireInv
<1> QED
  BY <1>2, <1>3

LEMMA CallbackKeepsCount ==
    ASSUME TypeOK, CountInv, NEW s \in Samples, CallbackStep(s)
    PROVE  CountInv'
<1>0. Cardinality(Counted) \in Nat /\ Counted \in SUBSET Samples
  <2>1. Counted \in SUBSET Samples
    BY DEF Counted
  <2> QED
    BY <2>1, SampleSets
<1>1. CASE StoreCount(s)
  <2>1. At(s, "counting") /\ GoTo(s, "counted") /\ packetsOut' = loaded[s] + 1 /\ loaded' = loaded
    BY <1>1 DEF StoreCount
  <2>2. "counted" \in Steps
    BY DEF Steps
  <2>3. Counted' = Counted \cup {s} /\ Cardinality(Counted') = Cardinality(Counted) + 1
    <3>1. s \in Samples \ Counted
      BY <2>1 DEF At, Counted
    <3>2. Counted' = Counted \cup {s}
      BY <2>1, <2>2, SetsMove
    <3>3. Cardinality(Counted \cup {s}) = Cardinality(Counted) + 1
      BY <1>0, <3>1, SampleSets
    <3> QED
      BY <3>2, <3>3
  <2>4. \A r \in Samples : loaded[r] \in Nat
    BY CallbacksAssumption DEF TypeOK
  <2>5. packetsOut' <= Cardinality(Counted')
    <3>1. loaded[s] <= Cardinality(Counted)
      BY <2>1 DEF CountInv
    <3>2. loaded[s] \in Nat
      BY <2>4
    <3> QED
      BY <1>0, <2>1, <2>3, <3>1, <3>2
  <2>6. ASSUME NEW r \in Samples, At(r, "counting")'
        PROVE  loaded'[r] <= Cardinality(Counted')
    <3>1. At(r, "counting")
      BY <2>1, <2>2, <2>6, StepMoves DEF At
    <3>2. loaded[r] <= Cardinality(Counted) /\ loaded[r] \in Nat
      BY <2>4, <3>1 DEF CountInv
    <3> QED
      BY <1>0, <2>1, <2>3, <3>2
  <2> QED
    BY <2>5, <2>6 DEF CountInv
<1>2. CASE ~StoreCount(s)
  <2>1. packetsOut' = packetsOut
    BY <1>2 DEF CallbackStep, Begin, Skip, Stamp, LoadCount, Send
  <2>2. PICK there \in Steps :
           GoTo(s, there) /\ (there \in {"counted", "sent"} <=> step[s] \in {"counted", "sent"})
    BY <1>2, CallbackSteps DEF CallbackStep, At
  <2>3. Counted' = Counted
    <3>1. Counted' = IF there \in {"counted", "sent"} THEN Counted \cup {s} ELSE Counted \ {s}
      BY <2>2, SetsMove
    <3>2. s \in Counted <=> step[s] \in {"counted", "sent"}
      BY DEF Counted
    <3> QED
      BY <2>2, <3>1, <3>2
  <2>4. ASSUME NEW r \in Samples, At(r, "counting")'
        PROVE  loaded'[r] <= Cardinality(Counted)
    <3>1. CASE LoadCount(s) /\ r = s
      <4>1. loaded' = [loaded EXCEPT ![s] = packetsOut] /\ loaded \in [Samples -> 0 .. NumSamples]
        BY <3>1 DEF LoadCount, TypeOK
      <4>2. loaded'[s] = packetsOut
        BY <4>1
      <4> QED
        BY <3>1, <4>2 DEF CountInv
    <3>2. CASE ~(LoadCount(s) /\ r = s)
      <4>1. At(r, "counting")
        <5>1. CASE r = s
          <6>1. step'[s] # "counting"
            BY <1>2, <3>2, <5>1, CallbackSteps, StepMoves DEF CallbackStep
          <6> QED
            BY <2>4, <5>1, <6>1 DEF At
        <5>2. CASE r # s
          BY <2>2, <2>4, <5>2, StepMoves DEF At
        <5> QED
          BY <5>1, <5>2
      <4>2. loaded'[r] = loaded[r]
        <5>1. CASE LoadCount(s)
          BY <3>2, <5>1 DEF LoadCount, TypeOK
        <5>2. CASE ~LoadCount(s)
          BY <1>2, <5>2 DEF CallbackStep, Begin, Skip, Stamp, Send
        <5> QED
          BY <5>1, <5>2
      <4> QED
        BY <4>1, <4>2 DEF CountInv
    <3> QED
      BY <3>1, <3>2
  <2> QED
    BY <2>1, <2>3, <2>4 DEF CountInv
<1> QED
  BY <1>1, <1>2

-------------------------------------------------------------------------------
(***************************************************************************)
(* One callback at a time.                                                 *)
(***************************************************************************)
LEMMA HeldInOrder ==
    ASSUME TypeOK, SerialInv, NEW s \in Samples, CallbackStep(s),
           NEW r \in Samples, NEW q \in Samples, r < q, At(r, "held")'
    PROVE  At(q, "held")'
<1>1. PICK there \in Steps : GoTo(s, there) /\ there # "held"
  BY CallbackSteps DEF CallbackStep
<1>2. r # s /\ At(r, "held")
  BY <1>1, StepMoves DEF At
<1>3. At(q, "held")
  BY <1>2 DEF SerialInv
<1>4. q # s
  <2>1. CASE Begin(s)
    <3>1. \A p \in 1 .. s - 1 : ~At(p, "held")
      BY <2>1 DEF Begin
    <3>2. r < s => r \in 1 .. s - 1
      BY DEF Samples
    <3> QED
      BY <1>2, <3>1, <3>2
  <2>2. CASE ~Begin(s)
    <3>1. ~At(s, "held")
      BY <2>2, CallbackSteps DEF CallbackStep, At
    <3> QED
      BY <1>3, <3>1
  <2> QED
    BY <2>1, <2>2
<1> QED
  BY <1>1, <1>3, <1>4, StepMoves DEF At

\* Serial, in parts.
OneRuns == \A r, s \in Running : r = s
WireGrows == \A i, j \in DOMAIN wire : i < j => wire[i] < wire[j]
RunsLater == \A s \in Running : \A i \in DOMAIN wire : wire[i] < s
CountExact == /\ packetsOut = Cardinality(Counted)
              /\ \A s \in Samples : At(s, "counting") => loaded[s] = packetsOut

LEMMA SerialParts ==
    SerialInv <=> /\ \A r, s \in Samples : r < s /\ At(r, "held") => At(s, "held")
                  /\ ~overlapped => OneRuns /\ WireGrows /\ RunsLater /\ CountExact
  BY DEF SerialInv, OneRuns, WireGrows, RunsLater, CountExact

LEMMA BeginIsSerial ==
    ASSUME TypeOK, WireInv, SerialInv, NEW s \in Samples, Begin(s), ~overlapped'
    PROVE  (OneRuns /\ WireGrows /\ RunsLater /\ CountExact)'
<1>1. /\ At(s, "held") /\ GoTo(s, "begun") /\ "begun" \in Steps
      /\ UNCHANGED <<wire, loaded, packetsOut>>
  BY DEF Begin, Steps
<1>2. overlapped' = (overlapped \/ Running # {})
  BY DEF Begin
<1>3. ~overlapped /\ Running = {}
  BY <1>2
<1>4. Running' = {s}
  <2>1. Running' = Running \cup {s}
    <3>1. "begun" \notin Ended \cup {"held"}
      BY DEF Ended
    <3> QED
      BY <1>1, <3>1, SetsMove
  <2> QED
    BY <1>3, <2>1
<1>5. Counted' = Counted
  <2>1. Counted' = Counted \ {s} /\ s \notin Counted
    BY <1>1, SetsMove DEF Counted, At
  <2> QED
    BY <2>1
<1>6. OneRuns'
  BY <1>4 DEF OneRuns
<1>7. WireGrows'
  BY <1>1, <1>3, SerialParts DEF WireGrows
<1>8. ASSUME NEW i \in DOMAIN wire
      PROVE  wire[i] < s
  <2>1. wire[i] \in Sent
    BY DEF WireInv, ToSet
  <2>2. wire[i] \in Samples /\ ~At(wire[i], "held")
    BY <2>1 DEF Sent, At
  <2>3. ~(s < wire[i]) /\ wire[i] # s
    BY <1>1, <2>2 DEF SerialInv
  <2> QED
    BY <2>2, <2>3 DEF Samples
<1>9. RunsLater'
  BY <1>1, <1>4, <1>8 DEF RunsLater
<1>10. CountExact'
  <2>1. CountExact
    BY <1>3, SerialParts
  <2>2. \A r \in Samples : At(r, "counting")' => At(r, "counting")
    BY <1>1, StepMoves DEF At
  <2> QED
    BY <1>1, <1>5, <2>1, <2>2 DEF CountExact
<1> QED
  BY <1>6, <1>7, <1>9, <1>10

LEMMA SendIsSerial ==
    ASSUME TypeOK, WireInv, SerialInv, NEW s \in Samples, Send(s), ~overlapped'
    PROVE  (OneRuns /\ WireGrows /\ RunsLater /\ CountExact)'
<1>1. /\ At(s, "counted") /\ GoTo(s, "sent") /\ "sent" \in Steps
      /\ wire' = Append(wire, s) /\ UNCHANGED <<loaded, packetsOut, overlapped>>
      /\ wire \in Seq(Samples)
  BY DEF Send, Steps, TypeOK
<1>2. OneRuns /\ WireGrows /\ RunsLater /\ CountExact
  BY <1>1, SerialParts
<1>3. s \in Running
  BY <1>1 DEF At, Running, Ended
<1>4. Running' = {}
  <2>1. Running' = Running \ {s}
    <3>1. "sent" \in Ended \cup {"held"}
      BY DEF Ended
    <3> QED
      BY <1>1, <3>1, SetsMove
  <2> QED
    BY <1>2, <1>3, <2>1 DEF OneRuns
<1>5. Counted' = Counted
  <2>1. Counted' = Counted \cup {s} /\ s \in Counted
    BY <1>1, SetsMove DEF Counted, At
  <2> QED
    BY <2>1
<1>6. OneRuns' /\ RunsLater'
  BY <1>4 DEF OneRuns, RunsLater
<1>7. WireGrows'
  <2>1. \A i \in DOMAIN wire : wire[i] < s
    BY <1>2, <1>3 DEF RunsLater
  <2>2. ASSUME NEW i \in DOMAIN wire', NEW j \in DOMAIN wire', i < j
        PROVE  wire'[i] < wire'[j]
    <3>1. /\ i \in DOMAIN wire /\ wire'[i] = wire[i]
          /\ (j \in DOMAIN wire /\ wire'[j] = wire[j]) \/ wire'[j] = s
      BY <1>1, <2>2
    <3> QED
      BY <1>2, <2>1, <2>2, <3>1 DEF WireGrows
  <2> QED
    BY <2>2 DEF WireGrows
<1>8. CountExact'
  <2>1. \A r \in Samples : At(r, "counting")' => At(r, "counting")
    BY <1>1, StepMoves DEF At
  <2> QED
    BY <1>1, <1>2, <1>5, <2>1 DEF CountExact
<1> QED
  BY <1>6, <1>7, <1>8

\* Steps between the tracker and the wire.
LEMMA InsideIsSerial ==
    ASSUME TypeOK, WireInv, SerialInv, NEW s \in Samples, CallbackStep(s), ~Begin(s), ~Send(s),
           ~overlapped'
    PROVE  (OneRuns /\ WireGrows /\ RunsLater /\ CountExact)'
<1>1. UNCHANGED <<wire, overlapped>>
  BY DEF CallbackStep, Skip, Stamp, LoadCount, StoreCount
<1>2. OneRuns /\ WireGrows /\ RunsLater /\ CountExact
  BY <1>1, SerialParts
<1>3. s \in Running
  <2>1. step[s] \in {"begun", "stamped", "counting"}
    BY CallbackSteps DEF CallbackStep, At
  <2> QED
    BY <2>1 DEF Running, Ended
<1>4. Running' \subseteq Running
  <2>1. PICK there \in Steps : GoTo(s, there)
    BY CallbackSteps DEF CallbackStep
  <2>2. Running' \subseteq Running \cup {s}
    BY <2>1, SetsMove
  <2> QED
    BY <1>3, <2>2
<1>5. OneRuns' /\ WireGrows' /\ RunsLater'
  BY <1>1, <1>2, <1>4 DEF OneRuns, WireGrows, RunsLater
<1>6. ASSUME NEW r \in Samples, At(r, "counting")
      PROVE  r = s
  <2>1. r \in Running
    BY <1>6 DEF At, Running, Ended
  <2> QED
    BY <1>2, <1>3, <2>1 DEF OneRuns
<1>7. CASE LoadCount(s)
  <2>1. /\ At(s, "stamped") /\ GoTo(s, "counting") /\ "counting" \in Steps
        /\ loaded' = [loaded EXCEPT ![s] = packetsOut] /\ packetsOut' = packetsOut
        /\ loaded \in [Samples -> 0 .. NumSamples]
    BY <1>7 DEF LoadCount, Steps, TypeOK
  <2>2. Counted' = Counted
    <3>1. Counted' = Counted \ {s} /\ s \notin Counted
      BY <2>1, SetsMove DEF Counted, At
    <3> QED
      BY <3>1
  <2>3. loaded'[s] = packetsOut
    BY <2>1
  <2>4. \A r \in Samples : At(r, "counting")' => r = s
    BY <1>6, <2>1, StepMoves DEF At
  <2> QED
    BY <1>2, <1>5, <2>1, <2>2, <2>3, <2>4 DEF CountExact
<1>8. CASE StoreCount(s)
  <2>1. /\ At(s, "counting") /\ GoTo(s, "counted") /\ "counted" \in Steps
        /\ packetsOut' = loaded[s] + 1 /\ loaded' = loaded
    BY <1>8 DEF StoreCount, Steps
  <2>2. Cardinality(Counted') = Cardinality(Counted) + 1
    <3>1. Counted \in SUBSET Samples /\ s \in Samples \ Counted
      BY <2>1 DEF At, Counted
    <3>2. Counted' = Counted \cup {s}
      BY <2>1, SetsMove
    <3>3. Cardinality(Counted \cup {s}) = Cardinality(Counted) + 1
      BY <3>1, SampleSets
    <3> QED
      BY <3>2, <3>3
  <2>3. \A r \in Samples : ~At(r, "counting")'
    BY <1>6, <2>1, StepMoves DEF At
  <2> QED
    BY <1>2, <1>5, <2>1, <2>2, <2>3 DEF CountExact
<1>9. CASE Skip(s) \/ Stamp(s)
  <2>1. PICK there \in Steps : GoTo(s, there) /\ there \in {"skipped", "stamped"} /\ step[s] = "begun"
    BY <1>9, CallbackSteps DEF At
  <2>2. UNCHANGED <<packetsOut, loaded>>
    BY <1>9 DEF Skip, Stamp
  <2>3. Counted' = Counted
    <3>1. Counted' = Counted \ {s} /\ s \notin Counted
      BY <2>1, SetsMove DEF Counted
    <3> QED
      BY <3>1
  <2>4. \A r \in Samples : At(r, "counting")' => At(r, "counting")
    BY <2>1, StepMoves DEF At
  <2> QED
    BY <1>2, <1>5, <2>2, <2>3, <2>4 DEF CountExact
<1> QED
  BY <1>7, <1>8, <1>9 DEF CallbackStep

LEMMA CallbackKeepsSerial ==
    ASSUME TypeOK, WireInv, SerialInv, NEW s \in Samples, CallbackStep(s)
    PROVE  SerialInv'
<1>1. \A r, q \in Samples : (r < q /\ At(r, "held") => At(q, "held"))'
  BY HeldInOrder
<1>2. ~overlapped' => (OneRuns /\ WireGrows /\ RunsLater /\ CountExact)'
  BY BeginIsSerial, SendIsSerial, InsideIsSerial
<1> QED
  BY <1>1, <1>2 DEF SerialInv, OneRuns, WireGrows, RunsLater, CountExact

-------------------------------------------------------------------------------
(***************************************************************************)
(* The theorems.                                                           *)
(***************************************************************************)
LEMMA CallbackStart ==
    ASSUME Init
    PROVE  CallbackInv
<1>1. TypeOK
  <2>1. NumSamples \in Nat /\ MinTicks \in Int
    BY CallbacksAssumption, MinTicksAssumption
  <2>2. <<>> \in Seq(Samples) /\ 0 \in 0 .. NumSamples /\ "held" \in Steps
    BY <2>1 DEF Steps
  <2>3. TrackerTypeOK
    BY <2>1 DEF Init, TrackerInit, TrackerTypeOK
  <2>4. /\ step \in [Samples -> Steps] /\ dtsOf \in [Samples -> Int]
        /\ loaded \in [Samples -> 0 .. NumSamples]
    BY <2>2 DEF Init
  <2>5. wire \in Seq(Samples) /\ processed \in Seq(Samples) /\ emitted \in Seq(Samples)
    BY <2>2 DEF Init
  <2>6. packetsOut \in 0 .. NumSamples /\ timing \in Timings
    BY <2>2 DEF Init
  <2>7. doneSent \in BOOLEAN /\ overlapped \in BOOLEAN
    BY DEF Init
  <2> QED
    BY <2>3, <2>4, <2>5, <2>6, <2>7 DEF TypeOK
<1>2. PastLock = {} /\ Counted = {} /\ Sent = {} /\ Running = {}
  BY DEF Init, PastLock, Counted, Sent, Running
<1>3. Cardinality({}) = 0
  BY FS_EmptySet
<1>4. \A s \in Samples : At(s, "held")
  BY DEF Init, At
<1>5. LockInv
  BY <1>2, <1>3, <1>4 DEF Init, LockInv, TrackerInit, At
<1>6. WireInv
  <2>1. ToSet(wire) = {} /\ Len(wire) = 0 /\ ~doneSent
    BY DEF Init, ToSet
  <2> QED
    BY <1>2, <1>3, <2>1 DEF WireInv
<1>7. CountInv
  BY <1>2, <1>3, <1>4 DEF Init, CountInv, At
<1>8. SerialInv
  BY <1>2, <1>3, <1>4 DEF Init, SerialInv, At
<1> QED
  BY <1>1, <1>5, <1>6, <1>7, <1>8 DEF CallbackInv

LEMMA CallbackNext ==
    ASSUME CallbackInv, [Next]_callbackVars
    PROVE  CallbackInv'
<1>0. TypeOK /\ LockInv /\ WireInv /\ CountInv /\ SerialInv
  BY DEF CallbackInv
<1>1. CASE \E s \in Samples : CallbackStep(s)
  <2>1. PICK s \in Samples : CallbackStep(s)
    BY <1>1
  <2>2. TypeOK' /\ WireInv' /\ CountInv' /\ SerialInv'
    BY <1>0, <2>1, CallbackTypes, CallbackKeepsWire, CallbackKeepsCount, CallbackKeepsSerial
  <2>3. LockInv'
    BY <1>0, <2>1, SkipKeepsLock, StampKeepsLock, OthersKeepLock DEF CallbackStep
  <2> QED
    BY <2>2, <2>3 DEF CallbackInv
<1>2. CASE SendDone \/ UNCHANGED callbackVars
  <2>1. TypeOK'
    BY <1>0, <1>2, EndTypes
  <2>2. UNCHANGED <<timing, lastPts, step, loaded, packetsOut, wire, processed, emitted, overlapped>>
    BY <1>2 DEF SendDone, callbackVars, trackerVars
  <2>3. PastLock' = PastLock /\ Sent' = Sent /\ Counted' = Counted /\ Running' = Running
    BY <2>2 DEF PastLock, Sent, Counted, Running
  <2>4. LockInv'
    BY <1>0, <2>2, <2>3, LockSame DEF Emitted, At
  <2>5. (doneSent => AllReturned)'
    BY <1>0, <1>2, <2>2 DEF SendDone, callbackVars, WireInv, AllReturned
  <2>6. WireInv'
    BY <1>0, <2>2, <2>3, <2>5 DEF WireInv
  <2>7. CountInv'
    BY <1>0, <2>2, <2>3 DEF CountInv, At
  <2>8. SerialInv'
    BY <1>0, <2>2, <2>3 DEF SerialInv, At
  <2> QED
    BY <2>1, <2>4, <2>6, <2>7, <2>8 DEF CallbackInv
<1> QED
  BY <1>1, <1>2 DEF Next, Terminated, CallbackStep

\* What the tracker's lock, the send lock and the unlocked count keep, and how
\* far the callbacks are serial.
THEOREM CallbackInvariant == Spec => []CallbackInv
<1>1. Init => CallbackInv
  BY CallbackStart
<1>2. CallbackInv /\ [Next]_callbackVars => CallbackInv'
  BY CallbackNext
<1> QED
  BY <1>1, <1>2, PTL DEF Spec

\* Every variable keeps its type: packetsOut never counts a packet twice, in
\* whatever order its loads and stores come.
THEOREM CallbackTypesHold == Spec => []TypeOK
<1>1. CallbackInv => TypeOK
  BY DEF CallbackInv
<1> QED
  BY <1>1, CallbackInvariant, PTL

\* DONE follows every packet, each sent once, and a sample without one repeats
\* the PTS of one that was sent.
THEOREM DoneComesLast == Spec => []DoneIsLast
<1>1. ASSUME CallbackInv, doneSent
      PROVE  /\ ToSet(wire) = {s \in Samples : At(s, "sent")}
             /\ Len(wire) = Cardinality(ToSet(wire))
             /\ \A s \in Samples : \E r \in ToSet(wire) : timing[r].pts = timing[s].pts
  <2>0. LockInv /\ WireInv
    BY <1>1 DEF CallbackInv
  <2>1. ToSet(wire) = Sent /\ Len(wire) = Cardinality(ToSet(wire)) /\ AllReturned
    BY <1>1, <2>0 DEF WireInv
  <2>2. ASSUME NEW s \in Samples
        PROVE  \E r \in ToSet(wire) : timing[r].pts = timing[s].pts
    <3>1. CASE At(s, "sent")
      BY <2>1, <3>1 DEF Sent, At
    <3>2. CASE At(s, "skipped")
      <4>1. PICK r \in Samples : Emitted(r) /\ timing[r].pts = timing[s].pts
        BY <2>0, <3>2 DEF LockInv
      <4>2. r \in Sent
        BY <2>1, <4>1 DEF AllReturned, Ended, Emitted, Sent
      <4> QED
        BY <2>1, <4>1, <4>2
    <3> QED
      BY <2>1, <3>1, <3>2 DEF AllReturned, Ended, At
  <2> QED
    BY <2>1, <2>2 DEF Sent, At
<1>2. CallbackInv => DoneIsLast
  BY <1>1 DEF DoneIsLast
<1> QED
  BY <1>2, CallbackInvariant, PTL

\* As long as no two callbacks have overlapped, packets go out in the encoder's
\* order and packetsOut is exact: what module EncServer takes the callback for.
THEOREM SerialCallbacksKeepOrder == Spec => []WireInOutputOrder
<1>1. ASSUME CallbackInv, doneSent, ~overlapped
      PROVE  packetsOut = Len(wire)
  <2>1. packetsOut = Cardinality(Counted) /\ Len(wire) = Cardinality(Sent) /\ AllReturned
    BY <1>1 DEF CallbackInv, SerialInv, WireInv
  <2>2. Counted = Sent
    BY <2>1 DEF AllReturned, Ended, Counted, Sent
  <2> QED
    BY <2>1, <2>2
<1>2. CallbackInv => WireInOutputOrder
  BY <1>1 DEF WireInOutputOrder, CallbackInv, SerialInv
<1> QED
  BY <1>2, CallbackInvariant, PTL

-------------------------------------------------------------------------------
(***************************************************************************)
(* The tracker is driven serially.                                         *)
(***************************************************************************)

\* The pairs that go into it.
TrackerTicks == UNION {{t[s].pts, t[s].dts} : t \in Timings, s \in Samples}

LEMMA TimingTicks ==
    ASSUME TypeOK, NEW s \in Samples
    PROVE  /\ timing[s].pts \in TrackerTicks /\ timing[s].dts \in TrackerTicks
           /\ timing[s] = [pts |-> timing[s].pts, dts |-> timing[s].dts]
<1>1. timing \in Timings /\ timing[s] \in [pts : Int, dts : Int]
  BY CallbacksAssumption DEF TypeOK
<1> DEFINE pairs == {{t[r].pts, t[r].dts} : t \in Timings, r \in Samples}
<1>3. {timing[s].pts, timing[s].dts} \in pairs
  BY <1>1
<1> HIDE DEF pairs
<1>4. timing[s].pts \in UNION pairs /\ timing[s].dts \in UNION pairs
  BY <1>3
<1>5. timing[s] = [pts |-> timing[s].pts, dts |-> timing[s].dts]
  BY <1>1
<1> QED
  BY <1>4, <1>5 DEF pairs, TrackerTicks

\* A call of process() comes before the last, and joins the histories.
LEMMA GivenOne ==
    ASSUME TypeOK, LockInv, NEW s \in Samples, At(s, "begun"),
           processed' = Append(processed, s), timing' = timing
    PROVE  /\ Len(Given) < NumSamples
           /\ Given' = Append(Given, [pts |-> timing[s].pts, dts |-> timing[s].dts])
<1>1. processed \in Seq(Samples) /\ DOMAIN processed = 1 .. Len(processed) /\ Len(processed) \in Nat
  BY DEF TypeOK
<1>2. Len(processed) < NumSamples
  <2>1. PastLock \in SUBSET Samples /\ s \in Samples \ PastLock
    BY DEF At, PastLock
  <2> QED
    BY <2>1, SampleSets DEF LockInv
<1>3. Given = [i \in 1 .. Len(processed) |-> timing[processed[i]]]
  BY <1>1 DEF Given
<1>4. Given' = [i \in 1 .. Len(processed) + 1 |-> timing[Append(processed, s)[i]]]
  <2>1. DOMAIN processed' = 1 .. Len(processed) + 1
    BY <1>1
  <2> QED
    BY <2>1 DEF Given
<1>5. PICK rec : rec = timing[s] /\ rec = [pts |-> timing[s].pts, dts |-> timing[s].dts]
  <2>1. timing[s] = [pts |-> timing[s].pts, dts |-> timing[s].dts]
    BY TimingTicks
  <2> QED
    BY <2>1
<1>6. Given \in Seq({timing[r] : r \in Samples}) /\ Len(Given) = Len(processed)
  <2>1. \A i \in 1 .. Len(processed) : timing[processed[i]] \in {timing[r] : r \in Samples}
    BY <1>1
  <2> QED
    BY <1>1, <1>3, <2>1
<1>7. Append(Given, rec) = [i \in 1 .. Len(processed) + 1 |->
                               IF i = Len(processed) + 1 THEN rec ELSE timing[processed[i]]]
  BY <1>1, <1>3, <1>6
<1>8. \A i \in 1 .. Len(processed) + 1 :
         timing[Append(processed, s)[i]] =
            IF i = Len(processed) + 1 THEN rec ELSE timing[processed[i]]
  <2>1. Append(processed, s)[Len(processed) + 1] = s
    BY <1>1
  <2>2. ASSUME NEW i \in 1 .. Len(processed) + 1, i # Len(processed) + 1
        PROVE  Append(processed, s)[i] = processed[i]
    BY <1>1, <2>2
  <2> QED
    BY <1>5, <2>1, <2>2
<1>9. Given' = Append(Given, rec)
  BY <1>4, <1>7, <1>8
<1> QED
  BY <1>2, <1>5, <1>6, <1>9

\* And what it gave.
LEMMA GaveOne ==
    ASSUME TypeOK, LockInv, NEW s \in Samples, At(s, "begun"), NEW d \in Int,
           emitted' = Append(emitted, s), timing' = timing, dtsOf' = [dtsOf EXCEPT ![s] = d]
    PROVE  Gave' = Append(Gave, [pts |-> timing[s].pts, dts |-> d])
<1> DEFINE Entry(r) == [pts |-> timing[r].pts, dts |-> dtsOf[r]]
           New(r) == [pts |-> timing[r].pts, dts |-> dtsOf'[r]]
           rec == [pts |-> timing[s].pts, dts |-> d]
<1>1. /\ emitted \in Seq(Samples) /\ DOMAIN emitted = 1 .. Len(emitted) /\ Len(emitted) \in Nat
      /\ dtsOf \in [Samples -> Int]
  BY DEF TypeOK
<1>2. New(s) = rec
  BY <1>1
<1>3. ASSUME NEW i \in 1 .. Len(emitted)
      PROVE  emitted[i] \in Samples /\ New(emitted[i]) = Entry(emitted[i])
  <2>1. emitted[i] \in PastLock /\ s \notin PastLock
    BY <1>1 DEF LockInv, At, PastLock
  <2>2. emitted[i] \in Samples /\ emitted[i] # s
    BY <2>1 DEF PastLock
  <2> QED
    BY <1>1, <2>2
<1>4. Gave = [i \in 1 .. Len(emitted) |-> Entry(emitted[i])]
  BY <1>1 DEF Gave
<1>5. Gave' = [i \in 1 .. Len(emitted) + 1 |-> New(Append(emitted, s)[i])]
  <2>1. DOMAIN emitted' = 1 .. Len(emitted) + 1
    BY <1>1
  <2> QED
    BY <2>1 DEF Gave
<1> HIDE DEF Entry, New, rec
<1>6. Gave \in Seq({Entry(r) : r \in Samples}) /\ Len(Gave) = Len(emitted)
  <2>1. \A i \in 1 .. Len(emitted) : Entry(emitted[i]) \in {Entry(r) : r \in Samples}
    BY <1>3
  <2> QED
    BY <1>1, <1>4, <2>1
<1>7. Append(Gave, rec) = [i \in 1 .. Len(emitted) + 1 |->
                              IF i = Len(emitted) + 1 THEN rec ELSE Entry(emitted[i])]
  BY <1>1, <1>4, <1>6
<1>8. \A i \in 1 .. Len(emitted) + 1 :
         New(Append(emitted, s)[i]) = IF i = Len(emitted) + 1 THEN rec ELSE Entry(emitted[i])
  <2>1. Append(emitted, s)[Len(emitted) + 1] = s
    BY <1>1
  <2>2. ASSUME NEW i \in 1 .. Len(emitted) + 1, i # Len(emitted) + 1
        PROVE  i \in 1 .. Len(emitted) /\ Append(emitted, s)[i] = emitted[i]
    BY <1>1, <2>2
  <2> QED
    BY <1>2, <1>3, <2>1, <2>2
<1>9. Gave' = Append(Gave, rec)
  BY <1>5, <1>7, <1>8
<1> QED
  BY <1>9 DEF rec

LEMMA TrackerTakes ==
    ASSUME NEW p \in TrackerTicks, NEW q \in TrackerTicks,
           Tracker!Skip(p, q) \/ Tracker!Emit(p, q)
    PROVE  Tracker!Next
<1>1. Tracker!Next <=> \E pts, dts \in TrackerTicks : Tracker!Skip(pts, dts) \/ Tracker!Emit(pts, dts)
  BY DEF Tracker!Next, TrackerTicks
<1> QED
  BY <1>1

LEMMA TrackerStep ==
    ASSUME TypeOK, LockInv, [Next]_callbackVars
    PROVE  [Tracker!Next]_(Tracker!vars)
<1>1. ASSUME NEW s \in Samples, Skip(s) \/ Stamp(s)
      PROVE  Tracker!Next
  <2>1. PICK p, q : p = timing[s].pts /\ q = timing[s].dts
    OBVIOUS
  <2>2. p \in Int /\ q \in Int
    BY <2>1, TimingTypes
  <2>3. At(s, "begun") /\ processed' = Append(processed, s) /\ timing' = timing
    BY <1>1 DEF Skip, Stamp
  <2>4. Len(Given) < NumSamples /\ Given' = Append(Given, [pts |-> p, dts |-> q])
    BY <2>1, <2>3, GivenOne
  <2>5. ASSUME Skip(s)
        PROVE  Tracker!Skip(p, q)
    <3>1. IsDuplicate(p) /\ UNCHANGED <<lastPts, lastDts>> /\ Gave' = Gave
      BY <2>1, <2>5 DEF Skip, SkipSample, IsDuplicate, trackerVars, Gave
    <3>2. Tracker!SkipSample(p)
      BY <3>1 DEF IsDuplicate, Tracker!SkipSample, Tracker!IsDuplicate, Tracker!trackerVars
    <3> QED
      BY <2>4, <3>1, <3>2 DEF Tracker!Skip, Tracker!Admissible
  <2>6. ASSUME Stamp(s)
        PROVE  Tracker!Emit(p, q)
    <3>1. PICK d \in Int : d = CorrectedDts(p, q)
      BY <2>2, CorrectedType DEF TypeOK
    <3>2. /\ ~IsDuplicate(p) /\ lastPts' = p /\ lastDts' = d
          /\ emitted' = Append(emitted, s) /\ dtsOf' = [dtsOf EXCEPT ![s] = d]
      BY <2>1, <2>6, <3>1 DEF Stamp, EmitSample, IsDuplicate, CorrectedDts, Pushed, AtMost
    <3>3. Gave' = Append(Gave, [pts |-> p, dts |-> d])
      BY <2>1, <2>3, <3>2, GaveOne
    <3>4. d = Tracker!CorrectedDts(p, q)
      BY <3>1 DEF CorrectedDts, Pushed, AtMost, Tracker!CorrectedDts, Tracker!Pushed, Tracker!AtMost
    <3>5. Tracker!EmitSample(p, q)
      BY <3>2, <3>4 DEF IsDuplicate, Tracker!EmitSample, Tracker!IsDuplicate
    <3> QED
      BY <2>4, <3>3, <3>4, <3>5 DEF Tracker!Emit, Tracker!Admissible
  <2>7. Tracker!Skip(p, q) \/ Tracker!Emit(p, q)
    BY <1>1, <2>5, <2>6
  <2>8. p \in TrackerTicks /\ q \in TrackerTicks
    BY <2>1, TimingTicks
  <2> QED
    BY <2>7, <2>8, TrackerTakes
<1>2. CASE ~ \E s \in Samples : Skip(s) \/ Stamp(s)
  <2>1. UNCHANGED <<lastPts, lastDts, timing, dtsOf, processed, emitted>>
    BY <1>2 DEF Next, Begin, LoadCount, StoreCount, Send, SendDone, Terminated, callbackVars,
                trackerVars
  <2>2. Given' = Given /\ Gave' = Gave
    BY <2>1 DEF Given, Gave
  <2> QED
    BY <2>1, <2>2 DEF Tracker!vars
<1> QED
  BY <1>1, <1>2

\* Whatever else the callbacks do at the same time, the samples pass the lock of
\* the tracker one after another: every behaviour is one of TrackerSession, so
\* its theorems hold of the timestamps in the order of the lock.
THEOREM CallbacksSerialize == Spec => SerialTracker
<1>1. Init => Tracker!Init
  <2>1. ASSUME Init
        PROVE  Given = <<>> /\ Gave = <<>>
    BY <2>1 DEF Init, Given, Gave
  <2> QED
    BY <2>1 DEF Init, Tracker!Init, TrackerInit, Tracker!TrackerInit
<1>2. CallbackInv /\ [Next]_callbackVars => [Tracker!Next]_(Tracker!vars)
  BY TrackerStep DEF CallbackInv
<1> QED
  BY <1>1, <1>2, CallbackInvariant, PTL DEF Spec, SerialTracker, Tracker!Spec
===============================================================================
