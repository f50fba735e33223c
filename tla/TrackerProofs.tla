----------------------------- MODULE TrackerProofs -----------------------------
(***************************************************************************)
(* What TimestampTracker guarantees, for every set of timestamps and every *)
(* session length; and why the ticks it compares are those of the client:  *)
(* what a round trip through CMTime preserves, for every timebase and      *)
(* every width of the integers.                                            *)
(***************************************************************************)
EXTENDS TrackerSession, Timebase, TLAPS

\* The emitted DTS is an integer and never past the PTS: the last operation of
\* process() is the clamp.
LEMMA CorrectedDtsBound ==
    ASSUME lastDts \in Int, NEW pts \in Int, NEW dts \in Int
    PROVE  CorrectedDts(pts, dts) \in Int /\ CorrectedDts(pts, dts) <= pts
BY DEF CorrectedDts, Pushed, AtMost

\* When the PTS is ahead of the last DTS, so is the emitted DTS: the push is
\* never undone by the final clamp.
LEMMA CorrectedDtsGrows ==
    ASSUME lastDts \in Int, NEW pts \in Int, NEW dts \in Int,
           lastDts # MinTicks, lastDts < pts
    PROVE  lastDts < CorrectedDts(pts, dts)
BY DEF CorrectedDts, Pushed, AtMost

\* A valid pair is emitted as it came.
LEMMA CorrectedDtsIdentity ==
    ASSUME lastDts \in Int, NEW pts \in Int, NEW dts \in Int,
           dts <= pts, lastDts = MinTicks \/ lastDts < dts
    PROVE  CorrectedDts(pts, dts) = dts
BY DEF CorrectedDts, Pushed, AtMost

-------------------------------------------------------------------------------
\* The variables stay in their types, and the tracker's fields always are those
\* of the last sample it let through.
THEOREM TypeCorrect == Spec => []TypeOK
<1> USE MinTicksAssumption, TicksAssumption
<1>1. Init => TypeOK
  BY DEF Init, TypeOK, TrackerInit, TrackerTypeOK, Sample
<1>2. TypeOK /\ [Next]_vars => TypeOK'
  <2> SUFFICES ASSUME TypeOK, [Next]_vars
               PROVE  TypeOK'
    OBVIOUS
  <2>1. ASSUME NEW pts \in Ticks, NEW dts \in Ticks, Skip(pts, dts)
        PROVE  TypeOK'
    BY <2>1 DEF TypeOK, TrackerTypeOK, Skip, SkipSample, trackerVars, Sample
  <2>2. ASSUME NEW pts \in Ticks, NEW dts \in Ticks, Emit(pts, dts)
        PROVE  TypeOK'
    <3>1. CorrectedDts(pts, dts) \in Int
      BY CorrectedDtsBound DEF TypeOK, TrackerTypeOK
    <3>2. [pts |-> pts, dts |-> CorrectedDts(pts, dts)] \in Sample
      BY <3>1 DEF Sample
    <3>3. [pts |-> pts, dts |-> dts] \in Sample
      BY DEF Sample
    <3>4. /\ input' \in Seq(Sample) /\ output' \in Seq(Sample)
          /\ output'[Len(output')] = [pts |-> pts, dts |-> CorrectedDts(pts, dts)]
      BY <2>2, <3>2, <3>3 DEF TypeOK, Emit
    <3>5. lastPts' = pts /\ lastDts' = CorrectedDts(pts, dts) /\ workload' = workload
      BY <2>2 DEF Emit, EmitSample
    <3> QED
      BY <3>1, <3>4, <3>5 DEF TypeOK, TrackerTypeOK
  <2>3. CASE UNCHANGED vars
    BY <2>3 DEF vars, TypeOK, TrackerTypeOK
  <2> QED
    BY <2>1, <2>2, <2>3 DEF Next
<1> QED
  BY <1>1, <1>2, PTL DEF Spec

-------------------------------------------------------------------------------
\* No packet has a DTS past its PTS, whatever VideoToolbox delivers.
THEOREM DtsNeverPastPts == Spec => []DtsAtMostPts
<1> USE MinTicksAssumption, TicksAssumption
<1>1. Init => DtsAtMostPts
  BY DEF Init, DtsAtMostPts
<1>2. TypeOK /\ DtsAtMostPts /\ [Next]_vars => DtsAtMostPts'
  <2> SUFFICES ASSUME TypeOK, DtsAtMostPts, [Next]_vars
               PROVE  DtsAtMostPts'
    OBVIOUS
  <2>1. ASSUME NEW pts \in Ticks, NEW dts \in Ticks, Emit(pts, dts)
        PROVE  DtsAtMostPts'
    <3>1. CorrectedDts(pts, dts) \in Int /\ CorrectedDts(pts, dts) <= pts
      BY CorrectedDtsBound DEF TypeOK, TrackerTypeOK
    <3> QED
      BY <2>1, <3>1 DEF TypeOK, DtsAtMostPts, Emit
  <2>2. ASSUME NEW pts \in Ticks, NEW dts \in Ticks, Skip(pts, dts)
        PROVE  DtsAtMostPts'
    BY <2>2 DEF DtsAtMostPts, Skip
  <2>3. CASE UNCHANGED vars
    BY <2>3 DEF vars, DtsAtMostPts
  <2> QED
    BY <2>1, <2>2, <2>3 DEF Next
<1> QED
  BY <1>1, <1>2, TypeCorrect, PTL DEF Spec

-------------------------------------------------------------------------------
(***************************************************************************)
(* In display order the DTS strictly increases.  Inductive: the last DTS   *)
(* bounds all emitted ones, the last PTS is one that was handed over, the  *)
(* PTS handed over never go back, and the last DTS is at most the last PTS.*)
(***************************************************************************)
DisplayInv ==
    workload = "display" =>
        /\ DtsStrictlyIncreasing
        /\ \A i \in DOMAIN output : output[i].dts <= lastDts
        /\ output = <<>> => lastDts = MinTicks /\ lastPts = MinTicks
        /\ output # <<>> =>
              /\ lastDts > MinTicks
              /\ lastDts <= lastPts
              /\ \E i \in DOMAIN input : input[i].pts = lastPts

\* The inductive step for a sample that is let through.
LEMMA DisplayEmit ==
    ASSUME TypeOK, DisplayInv, NEW pts \in Ticks, NEW dts \in Ticks, Emit(pts, dts)
    PROVE  DisplayInv'
<1> USE MinTicksAssumption, TicksAssumption
<1> SUFFICES ASSUME workload = "display"
             PROVE  DisplayInv'
  <2>1. workload' = workload
    BY DEF Emit
  <2> QED
    BY <2>1 DEF DisplayInv
<1> DEFINE d == CorrectedDts(pts, dts)
<1>1. MinTicks < dts /\ dts <= pts /\ \A i \in DOMAIN input : input[i].pts <= pts
  BY DEF Emit, Admissible
<1>2. d \in Int /\ d <= pts
  BY CorrectedDtsBound DEF TypeOK, TrackerTypeOK
<1>3. lastPts' = pts /\ lastDts' = d
  BY DEF Emit, EmitSample
<1>4. /\ output' = Append(output, [pts |-> pts, dts |-> d])
      /\ input' = Append(input, [pts |-> pts, dts |-> dts])
      /\ output \in Seq(Sample) /\ input \in Seq(Sample)
  BY DEF Emit, TypeOK
<1>5. d > MinTicks /\ \A i \in DOMAIN output : output[i].dts < d
  <2>1. CASE output = <<>>
    <3>1. lastDts = MinTicks
      BY <2>1 DEF DisplayInv
    <3>2. d = dts
      BY <1>1, <3>1, CorrectedDtsIdentity DEF TypeOK, TrackerTypeOK
    <3> QED
      BY <1>1, <2>1, <3>2
  <2>2. CASE output # <<>>
    <3>1. /\ lastDts > MinTicks /\ lastDts <= lastPts
          /\ \E i \in DOMAIN input : input[i].pts = lastPts
      BY <2>2 DEF DisplayInv
    <3>2. lastPts <= pts
      BY <1>1, <3>1
    <3>3. pts # lastPts
      BY <2>2, <3>1 DEF Emit, EmitSample, IsDuplicate, TypeOK, TrackerTypeOK
    <3>4. lastDts < pts
      BY <3>1, <3>2, <3>3 DEF TypeOK, TrackerTypeOK
    <3>5. lastDts < d
      BY <3>1, <3>4, CorrectedDtsGrows DEF TypeOK, TrackerTypeOK
    <3>6. \A i \in DOMAIN output : output[i].dts \in Int /\ output[i].dts <= lastDts
      <4>1. \A i \in DOMAIN output : output[i] \in Sample
        BY <1>4
      <4>2. \A i \in DOMAIN output : output[i].dts <= lastDts
        BY DEF DisplayInv
      <4> QED
        BY <4>1, <4>2 DEF Sample
    <3> QED
      BY <1>2, <3>1, <3>5, <3>6 DEF TypeOK, TrackerTypeOK
  <2> QED
    BY <2>1, <2>2
<1>6. DtsStrictlyIncreasing'
  <2> SUFFICES ASSUME NEW i \in DOMAIN output', NEW j \in DOMAIN output', i < j
               PROVE  output'[i].dts < output'[j].dts
    BY DEF DtsStrictlyIncreasing
  <2>1. CASE j = Len(output) + 1
    BY <1>4, <1>5, <2>1
  <2>2. CASE j # Len(output) + 1
    BY <1>4, <2>2 DEF DisplayInv, DtsStrictlyIncreasing
  <2> QED
    BY <2>1, <2>2
<1>7. (\A i \in DOMAIN output : output[i].dts <= lastDts)'
  <2> SUFFICES ASSUME NEW i \in DOMAIN output'
               PROVE  output'[i].dts <= d
    BY <1>3
  <2>1. CASE i = Len(output) + 1
    BY <1>2, <1>4, <2>1
  <2>2. CASE i # Len(output) + 1
    <3>1. i \in DOMAIN output /\ output'[i] = output[i] /\ output[i] \in Sample
      BY <1>4, <2>2
    <3> QED
      BY <1>2, <1>5, <3>1 DEF Sample
  <2> QED
    BY <2>1, <2>2
<1>8. output' # <<>> /\ \E i \in DOMAIN input' : input'[i].pts = lastPts'
  <2>1. Len(input) + 1 \in DOMAIN input' /\ input'[Len(input) + 1].pts = pts
    BY <1>4
  <2>2. output' # <<>>
    <3>1. /\ output \in Seq(Sample)
          /\ output' = Append(output, [pts |-> pts, dts |-> CorrectedDts(pts, dts)])
      BY DEF Emit, TypeOK
    <3> QED
      BY <3>1
  <2>3. \E i \in DOMAIN input' : input'[i].pts = lastPts'
    BY <1>3, <2>1
  <2> QED
    BY <2>2, <2>3
<1>9. lastDts' > MinTicks /\ lastDts' <= lastPts'
  BY <1>2, <1>3, <1>5
<1> QED
  BY <1>6, <1>7, <1>8, <1>9 DEF DisplayInv

\* Without B-frames the promise of the comment on TimestampTracker is kept:
\* DTS strictly increases over the whole session, repeated PTS included.
THEOREM DisplayOrderDts == Spec => []DisplayOrderKeepsDts
<1>1. Init => DisplayInv
  BY DEF Init, TrackerInit, DisplayInv, DtsStrictlyIncreasing
<1>2. TypeOK /\ DisplayInv /\ [Next]_vars => DisplayInv'
  <2> SUFFICES ASSUME TypeOK, DisplayInv, [Next]_vars
               PROVE  DisplayInv'
    OBVIOUS
  <2>1. ASSUME NEW pts \in Ticks, NEW dts \in Ticks, Emit(pts, dts)
        PROVE  DisplayInv'
    BY <2>1, DisplayEmit
  <2>2. ASSUME NEW pts \in Ticks, NEW dts \in Ticks, Skip(pts, dts)
        PROVE  DisplayInv'
    <3>1. /\ UNCHANGED <<lastPts, lastDts, workload, output>>
          /\ input' = Append(input, [pts |-> pts, dts |-> dts])
          /\ input \in Seq(Sample)
      BY <2>2 DEF Skip, SkipSample, trackerVars, TypeOK
    <3>2. ASSUME NEW i \in DOMAIN input, input[i].pts = lastPts
          PROVE  \E k \in DOMAIN input' : input'[k].pts = lastPts
      BY <3>1, <3>2
    <3> QED
      BY <3>1, <3>2 DEF DisplayInv, DtsStrictlyIncreasing
  <2>3. CASE UNCHANGED vars
    BY <2>3 DEF vars, DisplayInv, DtsStrictlyIncreasing
  <2> QED
    BY <2>1, <2>2, <2>3 DEF Next
<1>3. DisplayInv => DisplayOrderKeepsDts
  BY DEF DisplayInv, DisplayOrderKeepsDts
<1> QED
  BY <1>1, <1>2, <1>3, TypeCorrect, PTL DEF Spec

-------------------------------------------------------------------------------
(***************************************************************************)
(* No timestamp is lost.  Inductive: besides the property, a tracker that  *)
(* has emitted nothing has the mark in lastPts, so it cannot skip.         *)
(***************************************************************************)
EmittedInv ==
    /\ EveryPtsEmitted
    /\ output = <<>> => lastPts = MinTicks

\* A sample is skipped only when one with its PTS has been emitted.
THEOREM NoPtsLost == Spec => []EveryPtsEmitted
<1>1. Init => EmittedInv
  BY DEF Init, TrackerInit, EmittedInv, EveryPtsEmitted
<1>2. TypeOK /\ EmittedInv /\ [Next]_vars => EmittedInv'
  <2> SUFFICES ASSUME TypeOK, EmittedInv, [Next]_vars
               PROVE  EmittedInv'
    OBVIOUS
  <2>1. ASSUME NEW pts \in Ticks, NEW dts \in Ticks, Emit(pts, dts)
        PROVE  EmittedInv'
    <3>1. /\ input' = Append(input, [pts |-> pts, dts |-> dts])
          /\ output' = Append(output, [pts |-> pts, dts |-> CorrectedDts(pts, dts)])
          /\ output \in Seq(Sample) /\ input \in Seq(Sample)
      BY <2>1 DEF Emit, TypeOK
    <3>2. output' # <<>>
      BY <3>1
    <3>3. ASSUME NEW i \in DOMAIN input'
          PROVE  \E j \in DOMAIN output' : output'[j].pts = input'[i].pts
      <4>1. CASE i = Len(input) + 1
        <5>1. Len(output) + 1 \in DOMAIN output' /\ output'[Len(output) + 1].pts = pts
          BY <3>1
        <5> QED
          BY <3>1, <4>1, <5>1
      <4>2. CASE i # Len(input) + 1
        <5>1. i \in DOMAIN input /\ input'[i] = input[i]
          BY <3>1, <4>2
        <5>2. PICK j \in DOMAIN output : output[j].pts = input[i].pts
          BY <5>1 DEF EmittedInv, EveryPtsEmitted
        <5>3. j \in DOMAIN output' /\ output'[j] = output[j]
          BY <3>1, <5>2
        <5> QED
          BY <5>1, <5>2, <5>3
      <4> QED
        BY <4>1, <4>2
    <3> QED
      BY <3>2, <3>3 DEF EmittedInv, EveryPtsEmitted
  <2>2. ASSUME NEW pts \in Ticks, NEW dts \in Ticks, Skip(pts, dts)
        PROVE  EmittedInv'
    <3>1. /\ UNCHANGED <<lastPts, output>>
          /\ input' = Append(input, [pts |-> pts, dts |-> dts])
          /\ input \in Seq(Sample)
          /\ pts = lastPts /\ lastPts # MinTicks
      BY <2>2 DEF Skip, SkipSample, IsDuplicate, trackerVars, TypeOK
    <3>2. output # <<>> /\ output[Len(output)].pts = pts /\ Len(output) \in DOMAIN output
      BY <3>1 DEF EmittedInv, TypeOK
    <3>3. ASSUME NEW i \in DOMAIN input'
          PROVE  \E j \in DOMAIN output : output[j].pts = input'[i].pts
      <4>1. CASE i = Len(input) + 1
        BY <3>1, <3>2, <4>1
      <4>2. CASE i # Len(input) + 1
        BY <3>1, <4>2 DEF EmittedInv, EveryPtsEmitted
      <4> QED
        BY <4>1, <4>2
    <3> QED
      BY <3>1, <3>2, <3>3 DEF EmittedInv, EveryPtsEmitted
  <2>3. CASE UNCHANGED vars
    BY <2>3 DEF vars, EmittedInv, EveryPtsEmitted
  <2> QED
    BY <2>1, <2>2, <2>3 DEF Next
<1>3. EmittedInv => EveryPtsEmitted
  BY DEF EmittedInv
<1> QED
  BY <1>1, <1>2, <1>3, TypeCorrect, PTL DEF Spec

-------------------------------------------------------------------------------
(***************************************************************************)
(* A valid decode order passes untouched.  Inductive: the tracker's fields *)
(* are those of the last sample handed over, or the mark before the first. *)
(***************************************************************************)
DecodeInv ==
    workload = "decode" =>
        /\ output = input
        /\ input = <<>> => lastDts = MinTicks /\ lastPts = MinTicks

\* Timestamps that are a decode order already are emitted as they came.
THEOREM DecodeOrderUntouched == Spec => []ValidDecodeOrderUntouched
<1> USE MinTicksAssumption, TicksAssumption
<1>1. Init => DecodeInv
  BY DEF Init, TrackerInit, DecodeInv
<1>2. TypeOK /\ DecodeInv /\ [Next]_vars => DecodeInv'
  <2> SUFFICES ASSUME TypeOK, DecodeInv, [Next]_vars, workload' = "decode"
               PROVE  DecodeInv'
    BY DEF DecodeInv
  <2>1. workload = "decode"
    BY DEF Next, Skip, Emit, vars
  <2>2. ASSUME NEW pts \in Ticks, NEW dts \in Ticks, Admissible(pts, dts)
        PROVE  /\ ~IsDuplicate(pts)
               /\ CorrectedDts(pts, dts) = dts
    <3>1. /\ dts <= pts
          /\ \A i \in DOMAIN input : input[i].dts < dts /\ input[i].pts # pts
      BY <2>1, <2>2 DEF Admissible
    <3>2. CASE input = <<>>
      <4>1. lastDts = MinTicks /\ lastPts = MinTicks
        BY <2>1, <3>2 DEF DecodeInv
      <4>2. ~IsDuplicate(pts)
        BY <4>1 DEF IsDuplicate
      <4> QED
        BY <3>1, <4>1, <4>2, CorrectedDtsIdentity DEF TypeOK, TrackerTypeOK
    <3>3. CASE input # <<>>
      <4>1. /\ Len(input) \in DOMAIN input
            /\ lastPts = input[Len(input)].pts /\ lastDts = input[Len(input)].dts
        BY <2>1, <3>3 DEF DecodeInv, TypeOK
      <4>2. lastDts < dts /\ lastPts # pts
        BY <3>1, <4>1
      <4>3. ~IsDuplicate(pts)
        BY <4>2 DEF IsDuplicate
      <4> QED
        BY <3>1, <4>2, <4>3, CorrectedDtsIdentity DEF TypeOK, TrackerTypeOK
    <3> QED
      BY <3>2, <3>3
  <2>3. ASSUME NEW pts \in Ticks, NEW dts \in Ticks, Skip(pts, dts)
        PROVE  DecodeInv'
    BY <2>2, <2>3 DEF Skip, SkipSample
  <2>4. ASSUME NEW pts \in Ticks, NEW dts \in Ticks, Emit(pts, dts)
        PROVE  DecodeInv'
    <3>1. output' = input' /\ input' = Append(input, [pts |-> pts, dts |-> dts])
      BY <2>1, <2>2, <2>4 DEF Emit, DecodeInv
    <3>2. input' # <<>>
      BY <3>1 DEF TypeOK
    <3> QED
      BY <3>1, <3>2 DEF DecodeInv
  <2>5. CASE UNCHANGED vars
    BY <2>5 DEF vars, DecodeInv
  <2> QED
    BY <2>3, <2>4, <2>5 DEF Next
<1>3. DecodeInv => ValidDecodeOrderUntouched
  BY DEF DecodeInv, ValidDecodeOrderUntouched
<1> QED
  BY <1>1, <1>2, <1>3, TypeCorrect, PTL DEF Spec

-------------------------------------------------------------------------------
(***************************************************************************)
(* The round trip through CMTime.                                          *)
(***************************************************************************)

\* Division by a positive number undoes a product and keeps the order.
LEMMA DivProduct ==
  ASSUME NEW a \in Int, NEW b \in Nat \ {0}
  PROVE  (a * b) \div b = a
OBVIOUS

LEMMA DivMonotone ==
  ASSUME NEW a \in Int, NEW c \in Int, NEW b \in Nat \ {0}, a <= c
  PROVE  a \div b <= c \div b
OBVIOUS

LEMMA DivNat ==
  ASSUME NEW a \in Nat, NEW b \in Nat \ {0}
  PROVE  a \div b \in Nat
OBVIOUS

\* So does Swift's, which rounds towards zero.
LEMMA QuotientProduct ==
  ASSUME NEW a \in Int, NEW b \in Nat \ {0}
  PROVE  Quotient(a * b, b) = a
<1>1. CASE a >= 0
  <2>1. a * b >= 0
    BY <1>1
  <2> QED
    BY <2>1, DivProduct DEF Quotient
<1>2. CASE a < 0
  <2>1. a * b < 0
    BY <1>2
  <2>2. -(a * b) = (-a) * b
    OBVIOUS
  <2>3. ((-a) * b) \div b = -a
    BY DivProduct
  <2> QED
    BY <2>1, <2>2, <2>3 DEF Quotient
<1> QED
  BY <1>1, <1>2

LEMMA QuotientMonotone ==
  ASSUME NEW a \in Int, NEW c \in Int, NEW b \in Nat \ {0}, a <= c
  PROVE  /\ Quotient(a, b) \in Int
         /\ Quotient(a, b) <= Quotient(c, b)
<1>1. CASE a >= 0
  BY <1>1, DivMonotone, DivNat DEF Quotient
<1>2. CASE a < 0 /\ c >= 0
  <2>1. (-a) \div b \in Nat /\ c \div b \in Nat
    BY <1>2, DivNat
  <2> QED
    BY <1>2, <2>1 DEF Quotient
<1>3. CASE c < 0
  <2>1. (-c) \div b <= (-a) \div b
    BY DivMonotone
  <2>2. (-a) \div b \in Nat /\ (-c) \div b \in Nat
    BY <1>3, DivNat
  <2> QED
    BY <1>3, <2>1, <2>2 DEF Quotient
<1> QED
  BY <1>1, <1>2, <1>3

\* A saturated product keeps the order, too.
LEMMA ProductMonotone ==
  ASSUME MaxInt \in Nat, NEW a \in Int, NEW c \in Int, NEW b \in Nat \ {0}, a <= c
  PROVE  /\ Product(a, b) \in Int64
         /\ Product(a, b) <= Product(c, b)
<1>1. a * b <= c * b
  OBVIOUS
<1>2. a >= 0 => a * b >= 0
  OBVIOUS
<1>3. a < 0 => a * b < 0
  OBVIOUS
<1>4. c >= 0 => c * b >= 0
  OBVIOUS
<1>5. c < 0 => c * b < 0
  OBVIOUS
<1> DEFINE p == a * b
           q == c * b
<1>6. p \in Int /\ q \in Int
  OBVIOUS
<1> HIDE DEF p, q
<1>7. /\ (IF p \in Int64 THEN p ELSE IF a >= 0 THEN MaxInt ELSE MinInt) \in Int64
      /\ (IF p \in Int64 THEN p ELSE IF a >= 0 THEN MaxInt ELSE MinInt)
           <= (IF q \in Int64 THEN q ELSE IF c >= 0 THEN MaxInt ELSE MinInt)
  <2>1. p <= q /\ (a >= 0 => p >= 0) /\ (a < 0 => p < 0) /\ (c >= 0 => q >= 0) /\ (c < 0 => q < 0)
    BY <1>1, <1>2, <1>3, <1>4, <1>5 DEF p, q
  <2> QED
    BY <1>6, <2>1 DEF Int64, MinInt
<1> QED
  BY <1>7 DEF p, q, Product

\* Timestamps whose products do not overflow come back as they were: the PTS of
\* a packet is the PTS of its frame, and what the tracker takes for a duplicate
\* is one.
THEOREM RoundTripExact ==
  ASSUME MaxInt \in Nat,
         NEW t \in Int, NEW num \in Nat \ {0}, NEW den \in Nat \ {0},
         t * num * den \in Int64
  PROVE  RoundTrip(t, num, den) = t
<1> DEFINE v == t * num
<1>1. v \in Int
  OBVIOUS
<1>2. v \in Int64
  <2> HIDE DEF v
  <2>1. v * den \in Int64
    BY DEF v
  <2>2. v >= 0 => v <= v * den
    BY <1>1
  <2>3. v < 0 => v * den <= v
    BY <1>1
  <2> QED
    BY <1>1, <2>1, <2>2, <2>3 DEF Int64, MinInt
<1>3. Time(t, num) = v
  BY <1>2 DEF Time, Product
<1>4. Product(v, den) = v * den
  BY DEF Product
<1>5. Quotient(v * den, den) = v
  <2> HIDE DEF v
  <2> QED
    BY <1>1, QuotientProduct
<1>6. Quotient(v, num) = t
  BY QuotientProduct
<1> HIDE DEF v
<1> QED
  BY <1>3, <1>4, <1>5, <1>6 DEF RoundTrip, TicksOf

\* Timestamps never change order on the way, not even when products saturate:
\* too large ones can only fall together, and are then skipped as duplicates.
THEOREM RoundTripMonotone ==
  ASSUME MaxInt \in Nat,
         NEW t \in Int, NEW u \in Int, t <= u,
         NEW num \in Nat \ {0}, NEW den \in Nat \ {0}
  PROVE  RoundTrip(t, num, den) <= RoundTrip(u, num, den)
<1> DEFINE tv == Time(t, num)
           uv == Time(u, num)
           tp == Product(tv, den)
           up == Product(uv, den)
           tq == Quotient(tp, den)
           uq == Quotient(up, den)
<1>1. tv \in Int /\ uv \in Int /\ tv <= uv
  BY ProductMonotone DEF Time, Int64, MinInt
<1> HIDE DEF tv, uv
<1>2. tp \in Int /\ up \in Int /\ tp <= up
  BY <1>1, ProductMonotone DEF Int64, MinInt
<1> HIDE DEF tp, up
<1>3. tq \in Int /\ uq \in Int /\ tq <= uq
  BY <1>2, QuotientMonotone
<1> HIDE DEF tq, uq
<1>4. Quotient(tq, num) <= Quotient(uq, num)
  BY <1>3, QuotientMonotone
<1> QED
  BY <1>4 DEF tq, uq, tp, up, tv, uv, RoundTrip, TicksOf
===============================================================================
