--------------------------- MODULE TimestampTracker ---------------------------
(***************************************************************************)
(* The per-session timestamp filter of the server's encoder                *)
(* (vtremoted/Sources/VTRemotedCore/TimestampTracker.swift).  Every        *)
(* encoded sample passes through process() once, under the tracker's lock: *)
(* the call either asks the caller to skip the sample or hands back the    *)
(* DTS to put on the wire.                                                 *)
(*                                                                         *)
(* The module has the tracker's two fields as variables and process() as   *)
(* the two actions SkipSample and EmitSample, so that a module that        *)
(* contains a tracker EXTENDS it and conjoins the action with its own.     *)
(***************************************************************************)
EXTENDS Integers

CONSTANT
    MinTicks        \* Int64.min, the "nothing yet" mark of both fields

ASSUME MinTicksAssumption == MinTicks \in Int

VARIABLES
    lastPts,        \* lastPtsTicks
    lastDts         \* lastDtsTicks

trackerVars == <<lastPts, lastDts>>

TrackerTypeOK ==
    /\ lastPts \in Int
    /\ lastDts \in Int

\* The stored initial values, and what reset() restores.
TrackerInit ==
    /\ lastPts = MinTicks
    /\ lastDts = MinTicks

AtMost(ticks, bound) == IF ticks > bound THEN bound ELSE ticks

\* Mutated forms: no PTS counts as a duplicate; every PTS that is not ahead
\* counts as one.
MutNeverDuplicate(pts) == FALSE
MutOlderIsDuplicate(pts) == pts <= lastPts /\ lastPts # MinTicks

\* Only the PTS of the previous emitted sample is remembered.
IsDuplicate(pts) == pts = lastPts /\ lastPts # MinTicks

(***************************************************************************)
(* The DTS that process() emits: clamp to the PTS, push past the last DTS, *)
(* clamp to the PTS again.                                                 *)
(***************************************************************************)
\* Mutated form: an equal DTS is not pushed.
MutPushedOnlyBehind(dts) ==
    IF lastDts # MinTicks /\ dts < lastDts THEN lastDts + 1 ELSE dts

Pushed(dts) == IF lastDts # MinTicks /\ dts <= lastDts THEN lastDts + 1 ELSE dts

\* Mutated form: the final clamp is missing.
MutNoFinalClamp(pts, dts) == Pushed(AtMost(dts, pts))

CorrectedDts(pts, dts) == AtMost(Pushed(AtMost(dts, pts)), pts)

SkipSample(pts) ==
    /\ IsDuplicate(pts)
    /\ UNCHANGED trackerVars

\* Mutated form: the DTS of the emitted sample is not remembered.
MutForgetDts(pts, dts) ==
    /\ ~IsDuplicate(pts)
    /\ lastPts' = pts
    /\ UNCHANGED lastDts

EmitSample(pts, dts) ==
    /\ ~IsDuplicate(pts)
    /\ lastPts' = pts
    /\ lastDts' = CorrectedDts(pts, dts)
===============================================================================
