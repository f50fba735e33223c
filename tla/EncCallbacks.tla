----------------------------- MODULE EncCallbacks -----------------------------
(***************************************************************************)
(* The output callback of the server's encoder at the grain at which       *)
(* threads interleave.  handleEncodedSampleBuffer takes the lock of the    *)
(* TimestampTracker, releases it, then calls the sender that               *)
(* VTRClientHandler.configure made, which updates the statistics without a *)
(* lock and finally takes the connection's send lock.  Module EncServer    *)
(* has the whole of it as one step; this module shows when that is right.  *)
(*                                                                         *)
(* VideoToolbox is external.  It begins the callbacks in output order and  *)
(* runs up to MaxRunning of them at once: 1 when it serialises them, more  *)
(* when, as the comment on TimestampTracker says, they fire concurrently.  *)
(***************************************************************************)
EXTENDS TimestampTracker, FiniteSets, SequencesExt

CONSTANTS
    NumSamples,     \* samples the encoder outputs in a session
    Timings,        \* the sequences of (pts, dts) pairs they can carry
    MaxRunning      \* callbacks that run at the same time

Samples == 1 .. NumSamples

ASSUME CallbacksAssumption ==
    /\ NumSamples \in Nat
    /\ Timings \subseteq [Samples -> [pts : Int, dts : Int]]
    /\ MaxRunning \in Nat \ {0}

VARIABLES
    timing,         \* timing[s]: the pair of sample s, in output order
    step,           \* step[s]: where the callback of sample s is
    dtsOf,          \* dtsOf[s]: the DTS the tracker gave it
    loaded,         \* loaded[s]: the packet count its thread has read
    packetsOut,     \* stats.packetsOut
    wire,           \* the samples sent, in order
    doneSent,       \* flush() has returned and DONE is on the wire
    processed,      \* history: the samples in the order of the tracker's lock
    emitted,        \* history: those of them the tracker let through
    overlapped      \* history: two callbacks have run at the same time

callbackVars == <<lastPts, lastDts, timing, step, dtsOf, loaded, packetsOut, wire, doneSent,
                  processed, emitted, overlapped>>

Steps == { "held",      \* the encoder has not handed the sample over
           "begun",     \* the callback is before the tracker's lock
           "stamped",   \* past it, with a DTS
           "counting",  \* between the load and the store of packetsOut += 1
           "counted",   \* before the send lock
           "sent", "skipped" }

Ended == {"sent", "skipped"}
Running == {s \in Samples : step[s] \notin Ended \cup {"held"}}

TypeOK ==
    /\ TrackerTypeOK
    /\ timing \in Timings
    /\ step \in [Samples -> Steps]
    /\ dtsOf \in [Samples -> Int]
    /\ loaded \in [Samples -> 0 .. NumSamples]
    /\ packetsOut \in 0 .. NumSamples
    /\ wire \in Seq(Samples)
    /\ doneSent \in BOOLEAN
    /\ processed \in Seq(Samples)
    /\ emitted \in Seq(Samples)
    /\ overlapped \in BOOLEAN

Init ==
    /\ TrackerInit
    /\ timing \in Timings
    /\ step = [s \in Samples |-> "held"]
    /\ dtsOf = [s \in Samples |-> 0]
    /\ loaded = [s \in Samples |-> 0]
    /\ packetsOut = 0
    /\ wire = <<>>
    /\ doneSent = FALSE
    /\ processed = <<>>
    /\ emitted = <<>>
    /\ overlapped = FALSE

At(s, here) == step[s] = here
GoTo(s, there) == step' = [step EXCEPT ![s] = there]

\* VideoToolbox calls the output callback for sample s.
Begin(s) ==
    /\ At(s, "held")
    /\ \A r \in 1 .. s - 1 : ~At(r, "held")
    /\ Cardinality(Running) < MaxRunning
    /\ GoTo(s, "begun")
    /\ overlapped' = (overlapped \/ Running # {})
    /\ UNCHANGED <<timing, trackerVars, dtsOf, loaded, packetsOut, wire, doneSent,
                   processed, emitted>>

\* process() returns .skip: the callback returns.
Skip(s) ==
    /\ At(s, "begun")
    /\ SkipSample(timing[s].pts)
    /\ processed' = Append(processed, s)
    /\ GoTo(s, "skipped")
    /\ UNCHANGED <<timing, dtsOf, loaded, packetsOut, wire, doneSent, emitted, overlapped>>

\* Mutated form: the tracker's fields are not updated under the lock.
MutStamp(s) ==
    /\ At(s, "begun")
    /\ ~IsDuplicate(timing[s].pts)
    /\ dtsOf' = [dtsOf EXCEPT ![s] = CorrectedDts(timing[s].pts, timing[s].dts)]
    /\ processed' = Append(processed, s)
    /\ emitted' = Append(emitted, s)
    /\ GoTo(s, "stamped")
    /\ UNCHANGED <<timing, trackerVars, loaded, packetsOut, wire, doneSent,
                   overlapped>>

\* process() returns .emit(dts); the lock is free again.
Stamp(s) ==
    /\ At(s, "begun")
    /\ EmitSample(timing[s].pts, timing[s].dts)
    /\ dtsOf' = [dtsOf EXCEPT ![s] = CorrectedDts(timing[s].pts, timing[s].dts)]
    /\ processed' = Append(processed, s)
    /\ emitted' = Append(emitted, s)
    /\ GoTo(s, "stamped")
    /\ UNCHANGED <<timing, loaded, packetsOut, wire, doneSent, overlapped>>

\* stats.packetsOut += 1 is a load and a store, under no lock.
LoadCount(s) ==
    /\ At(s, "stamped")
    /\ loaded' = [loaded EXCEPT ![s] = packetsOut]
    /\ GoTo(s, "counting")
    /\ UNCHANGED <<timing, trackerVars, dtsOf, packetsOut, wire, doneSent,
                   processed, emitted, overlapped>>

\* Mutated form: a packet counts twice.
MutStoreCount(s) ==
    /\ At(s, "counting")
    /\ packetsOut' = loaded[s] + 2
    /\ GoTo(s, "counted")
    /\ UNCHANGED <<timing, trackerVars, dtsOf, loaded, wire, doneSent, processed,
                   emitted, overlapped>>

StoreCount(s) ==
    /\ At(s, "counting")
    /\ packetsOut' = loaded[s] + 1
    /\ GoTo(s, "counted")
    /\ UNCHANGED <<timing, trackerVars, dtsOf, loaded, wire, doneSent, processed,
                   emitted, overlapped>>

\* sendMessage, under the send lock.
Send(s) ==
    /\ At(s, "counted")
    /\ wire' = Append(wire, s)
    /\ GoTo(s, "sent")
    /\ UNCHANGED <<timing, trackerVars, dtsOf, loaded, packetsOut, doneSent,
                   processed, emitted, overlapped>>

\* Mutated form: the flush does not wait for callbacks that are running.
MutAllReturned == \A s \in Samples : ~At(s, "held")

\* VTCompressionSessionCompleteFrames returns when all callbacks have.
AllReturned == \A s \in Samples : step[s] \in Ended

SendDone ==
    /\ ~doneSent
    /\ AllReturned
    /\ doneSent' = TRUE
    /\ UNCHANGED <<timing, trackerVars, step, dtsOf, loaded, packetsOut, wire,
                   processed, emitted, overlapped>>

\* The session is over.
Terminated == doneSent /\ AllReturned /\ UNCHANGED callbackVars

Next ==
    \/ \E s \in Samples :
          Begin(s) \/ Skip(s) \/ Stamp(s) \/ LoadCount(s) \/ StoreCount(s) \/ Send(s)
    \/ SendDone
    \/ Terminated

Spec == Init /\ [][Next]_callbackVars

-------------------------------------------------------------------------------
(***************************************************************************)
(* Properties that hold however the callbacks interleave.                  *)
(***************************************************************************)

\* DONE is the last message: every sample that got a DTS is on the wire before
\* it, exactly once, and those that are not repeat the PTS of one that is.
DoneIsLast ==
    doneSent =>
        /\ ToSet(wire) = {s \in Samples : At(s, "sent")}
        /\ Len(wire) = Cardinality(ToSet(wire))
        /\ \A s \in Samples : \E r \in ToSet(wire) : timing[r].pts = timing[s].pts

\* Only callbacks that overlap can disturb the wire: as long as none have, it
\* carries the samples in the encoder's output order, and packetsOut is exact.
\* Module EncServer, which has the callback as one step, stands on this.
WireInOutputOrder ==
    ~overlapped =>
        /\ \A i, j \in DOMAIN wire : i < j => wire[i] < wire[j]
        /\ doneSent => packetsOut = Len(wire)

-------------------------------------------------------------------------------
(***************************************************************************)
(* The tracker's lock: whatever else the callbacks do at the same time,    *)
(* they drive the tracker through a run of TrackerSession.                 *)
(***************************************************************************)

\* What the tracker was given and what it gave, in the order of its lock.
Given == [i \in DOMAIN processed |-> timing[processed[i]]]

Gave == [i \in DOMAIN emitted |-> [pts |-> timing[emitted[i]].pts, dts |-> dtsOf[emitted[i]]]]

Tracker == INSTANCE TrackerSession WITH
               Ticks <- UNION {{t[s].pts, t[s].dts} : t \in Timings, s \in Samples},
               Workloads <- {"any"},
               MaxSamples <- NumSamples,
               workload <- "any",
               input <- Given,
               output <- Gave

\* Every interleaving of the callbacks implements a session of the tracker, so
\* what is proved of its output holds of the samples in the order of its lock.
SerialTracker == Tracker!Spec

===============================================================================
