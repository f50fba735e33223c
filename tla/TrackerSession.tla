----------------------------- MODULE TrackerSession -----------------------------
(***************************************************************************)
(* One encode session seen by its TimestampTracker: the encoder's output   *)
(* callback hands over (pts, dts) pairs one after another, and the emitted *)
(* pairs are what reaches the wire.                                        *)
(*                                                                         *)
(* Which pairs can come depends on how VideoToolbox was configured, and    *)
(* stays the same throughout a session:                                    *)
(*   "any"      any pairs in any order.                                    *)
(*   "display"  no B-frames: samples come in display order, so a PTS never *)
(*              goes back (it may repeat); the DTS is the PTS or anything  *)
(*              below it that VideoToolbox reports; both are set.          *)
(*   "decode"   B-frames, VideoToolbox reports decode timestamps: DTS      *)
(*              strictly increases, DTS <= PTS, every PTS occurs once.     *)
(***************************************************************************)
EXTENDS TimestampTracker, Sequences

CONSTANTS
    Ticks,          \* the timestamps that occur
    Workloads,      \* the workloads a session can have
    MaxSamples      \* bound: samples handed over in a session

ASSUME TicksAssumption == Ticks \subseteq Int
ASSUME WorkloadsAssumption == Workloads \subseteq {"any", "display", "decode"}
ASSUME MaxSamplesAssumption == MaxSamples \in Nat

VARIABLES
    workload,       \* which pairs can come
    input,          \* history: the pairs handed to process(), in order
    output          \* history: the pairs it let through, in order

vars == <<lastPts, lastDts, workload, input, output>>

Sample == [pts : Int, dts : Int]

\* The histories are samples, and the tracker's fields are those of the last
\* sample it let through.
TypeOK ==
    /\ TrackerTypeOK
    /\ workload \in Workloads
    /\ input \in Seq(Sample)
    /\ output \in Seq(Sample)
    /\ output # <<>> =>
          /\ lastPts = output[Len(output)].pts
          /\ lastDts = output[Len(output)].dts

Init ==
    /\ TrackerInit
    /\ workload \in Workloads
    /\ input = <<>>
    /\ output = <<>>

\* What the workload lets VideoToolbox deliver after the samples so far.
Admissible(pts, dts) ==
    /\ workload = "display" =>
          /\ MinTicks < dts /\ dts <= pts
          /\ \A i \in DOMAIN input : input[i].pts <= pts
    /\ workload = "decode" =>
          /\ dts <= pts
          /\ \A i \in DOMAIN input : input[i].dts < dts /\ input[i].pts # pts

Skip(pts, dts) ==
    /\ Len(input) < MaxSamples
    /\ Admissible(pts, dts)
    /\ SkipSample(pts)
    /\ input' = Append(input, [pts |-> pts, dts |-> dts])
    /\ UNCHANGED <<workload, output>>

Emit(pts, dts) ==
    /\ Len(input) < MaxSamples
    /\ Admissible(pts, dts)
    /\ EmitSample(pts, dts)
    /\ input' = Append(input, [pts |-> pts, dts |-> dts])
    /\ output' = Append(output, [pts |-> pts, dts |-> CorrectedDts(pts, dts)])
    /\ UNCHANGED workload

Next == \E pts, dts \in Ticks : Skip(pts, dts) \/ Emit(pts, dts)

Spec == Init /\ [][Next]_vars

-------------------------------------------------------------------------------
(***************************************************************************)
(* Properties.                                                             *)
(***************************************************************************)

\* Whatever VideoToolbox delivers, no sample leaves with a DTS past its PTS:
\* the second clamp of process() has the last word over the push that keeps
\* the DTS growing.
DtsAtMostPts == \A i \in DOMAIN output : output[i].dts <= output[i].pts

\* Any two emitted samples are in strictly increasing DTS order, at whatever
\* distance: what the comment on TimestampTracker promises a muxer.
DtsStrictlyIncreasing ==
    \A i, j \in DOMAIN output : i < j => output[i].dts < output[j].dts

\* In display order the push can never carry the DTS past the PTS, so the
\* promise of the comment is kept, repeated PTS values included.
DisplayOrderKeepsDts == workload = "display" => DtsStrictlyIncreasing

\* Timestamps that are already valid pass through untouched: neither clamp
\* nor push nor skip alters a well-formed decode order.
ValidDecodeOrderUntouched == workload = "decode" => output = input

\* The filter never loses a timestamp: every PTS handed over has been emitted
\* with some DTS, because a skipped sample repeats one that was emitted.
EveryPtsEmitted ==
    \A i \in DOMAIN input : \E j \in DOMAIN output : output[j].pts = input[i].pts
===============================================================================
