------------------------------- MODULE EncWarmup -------------------------------
(***************************************************************************)
(* How an encode session of vtremoted begins: VideoToolboxCodecSession     *)
(* encodes a blank frame before CONFIGURE_ACK, throws its sample away, and *)
(* makes the next frame a key frame instead.                               *)
(*                                                                         *)
(* Its threads share warmupPending and forceKeyframeNext without a lock:   *)
(* the client's handler (configure, warmup, handleFrameMessage) and the    *)
(* output callbacks, which "can fire concurrently" (TimestampTracker).     *)
(* The handler waits for the blank frame's callback on a semaphore, for a  *)
(* second at most; after that the callbacks of the blank frame and of the  *)
(* client's frames race on warmupPending.                                  *)
(*                                                                         *)
(* VideoToolbox is external: it takes frames in order, blocks EncodeFrame  *)
(* while EncoderCap are pending, and begins their callbacks in the same    *)
(* order (no B-frames), up to MaxCallbacks running at a time.  What it     *)
(* outputs first is a key frame; later ones are when they are forced,      *)
(* others at its own choice not modelled here.                             *)
(***************************************************************************)
EXTENDS Integers, Sequences, FiniteSets

CONSTANTS
    NumFrames,      \* frames the client sends
    KeyAsked,       \* those whose FRAME message asks for a key frame
    EncoderCap,     \* frames VideoToolbox accepts before EncodeFrame blocks
    MaxCallbacks,   \* callbacks it runs at a time
    Faults          \* see FaultNames

FaultNames ==
    { "nobuffer",   \* no pixel buffer for the blank frame
      "slow",       \* the blank frame takes longer than a second
      "blank",      \* the blank frame ends with an error status
      "error" }     \* a frame of the client does

Frames == 1 .. NumFrames
Blank == 0          \* the warm-up frame
Inputs == 0 .. NumFrames

ASSUME WarmupAssumption ==
    /\ NumFrames \in Nat
    /\ KeyAsked \subseteq Frames
    /\ EncoderCap \in Nat \ {0}
    /\ MaxCallbacks \in Nat \ {0}
    /\ Faults \subseteq FaultNames

VARIABLES
    hpc,                \* the handler's thread
    nextFrame,          \* the frame whose message comes next
    force,              \* forceKey, as handleFrameMessage has read it
    warmupPending,
    forceKeyframeNext,
    signals,            \* the count of warmupSemaphore
    extradata,          \* encoderExtradata is set
    acked,              \* what CONFIGURE_ACK carried, once it is sent
    at,                 \* where each frame is: see Places
    key,                \* those forced to be key frames; once output, those that are
    begun,              \* VideoToolbox has output a frame
    wire,               \* the frames whose packets are sent, in order
    mishaps             \* history: the faults that have occurred, and "race"

vars == <<hpc, nextFrame, force, warmupPending, forceKeyframeNext, signals, extradata,
          acked, at, key, begun, wire, mishaps>>

\* In a callback a frame is at the test of warmupPending, at one of the three
\* statements of the discard, or at the send.
InCallback == {"sample", "clear", "force", "signal", "send"}
Places == {"absent", "held", "over"} \cup InCallback

TypeOK ==
    /\ hpc \in {"configure", "waiting", "configured", "loop", "clear", "submit",
                "completing", "done"}
    /\ nextFrame \in 1 .. NumFrames + 1
    /\ force \in BOOLEAN
    /\ warmupPending \in BOOLEAN
    /\ forceKeyframeNext \in BOOLEAN
    /\ signals \in Nat
    /\ extradata \in BOOLEAN
    /\ acked \in {"none", "empty", "extradata"}
    /\ at \in [Inputs -> Places]
    /\ key \in [Inputs -> BOOLEAN]
    /\ begun \in BOOLEAN
    /\ wire \in Seq(Inputs)
    /\ mishaps \subseteq Faults \cup {"race"}

Init ==
    /\ hpc = "configure"
    /\ nextFrame = 1
    /\ force = FALSE
    /\ warmupPending = FALSE
    /\ forceKeyframeNext = FALSE
    /\ signals = 0
    /\ extradata = FALSE
    /\ acked = "none"
    /\ at = [f \in Inputs |-> "absent"]
    /\ key = [f \in Inputs |-> FALSE]
    /\ begun = FALSE
    /\ wire = <<>>
    /\ mishaps = {}

\* The frames at one of the places.
Now(places) == {f \in Inputs : at[f] \in places}

Move(f, place) == at' = [at EXCEPT ![f] = place]

Encode(f, forced) ==
    /\ Cardinality(Now({"held"})) < EncoderCap
    /\ Move(f, "held")
    /\ key' = [key EXCEPT ![f] = forced]

-------------------------------------------------------------------------------
(***************************************************************************)
(* The handler's thread.                                                   *)
(***************************************************************************)

\* Mutated form: the callback is not told of the blank frame.
MutWarmup ==
    /\ hpc = "configure"
    /\ Encode(Blank, FALSE)
    /\ hpc' = "waiting"
    /\ UNCHANGED <<mishaps, nextFrame, force, warmupPending, forceKeyframeNext,
                   signals, extradata, acked, begun, wire>>

Warmup ==
    /\ hpc = "configure"
    /\ warmupPending' = TRUE
    /\ Encode(Blank, FALSE)
    /\ hpc' = "waiting"
    /\ UNCHANGED <<mishaps, nextFrame, force, forceKeyframeNext, signals, extradata,
                   acked, begun, wire>>

\* CVPixelBufferCreate fails: there is no warm-up.
WarmupSkipped ==
    /\ hpc = "configure"
    /\ "nobuffer" \in Faults
    /\ mishaps' = mishaps \cup {"nobuffer"}
    /\ warmupPending' = FALSE
    /\ hpc' = "configured"
    /\ UNCHANGED <<nextFrame, force, forceKeyframeNext, signals, extradata, acked,
                   at, key, begun, wire>>

\* The wait ends with the signal, or after a second: because the blank frame is
\* slow, or because it has failed and nobody will signal.  Which it was is
\* ignored.
WarmupWaited ==
    /\ hpc = "waiting"
    /\ \/ /\ signals > 0
          /\ signals' = signals - 1
          /\ UNCHANGED mishaps
       \/ /\ signals = 0
          /\ "slow" \in Faults
          /\ mishaps' = mishaps \cup {"slow"}
          /\ UNCHANGED signals
       \/ /\ "blank" \in mishaps
          /\ UNCHANGED <<signals, mishaps>>
    /\ hpc' = "configured"
    /\ UNCHANGED <<nextFrame, force, warmupPending, forceKeyframeNext, extradata,
                   acked, at, key, begun, wire>>

\* configure() returns the extradata known by now; CONFIGURE_ACK carries it.
Acknowledge ==
    /\ hpc = "configured"
    /\ acked' = IF extradata THEN "extradata" ELSE "empty"
    /\ hpc' = "loop"
    /\ UNCHANGED <<mishaps, nextFrame, force, warmupPending, forceKeyframeNext,
                   signals, extradata, at, key, begun, wire>>

\* handleFrameMessage reads the flag, clears it and encodes the frame, with
\* the callback free to run in between.
ReadForce ==
    /\ hpc = "loop"
    /\ nextFrame <= NumFrames
    /\ force' = (nextFrame \in KeyAsked \/ forceKeyframeNext)
    /\ hpc' = "clear"
    /\ UNCHANGED <<mishaps, nextFrame, warmupPending, forceKeyframeNext, signals,
                   extradata, acked, at, key, begun, wire>>

\* Mutated form: the flag stays set.
MutClearForce ==
    /\ hpc = "clear"
    /\ hpc' = "submit"
    /\ UNCHANGED <<mishaps, nextFrame, force, warmupPending, forceKeyframeNext,
                   signals, extradata, acked, at, key, begun, wire>>

ClearForce ==
    /\ hpc = "clear"
    /\ forceKeyframeNext' = FALSE
    /\ hpc' = "submit"
    /\ UNCHANGED <<mishaps, nextFrame, force, warmupPending, signals, extradata,
                   acked, at, key, begun, wire>>

SubmitFrame ==
    /\ hpc = "submit"
    /\ Encode(nextFrame, force)
    /\ nextFrame' = nextFrame + 1
    /\ hpc' = "loop"
    /\ UNCHANGED <<mishaps, force, warmupPending, forceKeyframeNext, signals,
                   extradata, acked, begun, wire>>

\* FLUSH: CompleteFrames returns when every callback has, and DONE is sent.
Flush ==
    /\ hpc = "loop"
    /\ hpc' = "completing"
    /\ UNCHANGED <<mishaps, nextFrame, force, warmupPending, forceKeyframeNext,
                   signals, extradata, acked, at, key, begun, wire>>

SendDone ==
    /\ hpc = "completing"
    /\ \A f \in Inputs : at[f] \in {"absent", "over"}
    /\ hpc' = "done"
    /\ UNCHANGED <<mishaps, nextFrame, force, warmupPending, forceKeyframeNext,
                   signals, extradata, acked, at, key, begun, wire>>

-------------------------------------------------------------------------------
(***************************************************************************)
(* VideoToolbox and its output callbacks.                                  *)
(***************************************************************************)

\* The frame is the oldest that VideoToolbox has.
Oldest(f) == at[f] = "held" /\ \A g \in Now({"held"}) : f <= g

\* It is encoded and its callback begins.
Output(f) ==
    /\ Oldest(f)
    /\ Cardinality(Now(InCallback)) < MaxCallbacks
    /\ Move(f, "sample")
    /\ key' = [key EXCEPT ![f] = key[f] \/ ~begun]
    /\ begun' = TRUE
    /\ UNCHANGED <<mishaps, hpc, nextFrame, force, warmupPending, forceKeyframeNext,
                   signals, extradata, acked, wire>>

\* The callback gets an error status and returns at once.
OutputFails(f) ==
    /\ Oldest(f)
    /\ \E fault \in Faults \cap (IF f = Blank THEN {"blank"} ELSE {"error"}) :
          mishaps' = mishaps \cup {fault}
    /\ Move(f, "over")
    /\ UNCHANGED <<hpc, nextFrame, force, warmupPending, forceKeyframeNext, signals,
                   extradata, acked, key, begun, wire>>

\* The callback overtakes that of an older frame at the test of warmupPending, or
\* finds it set although another has taken it for itself.
Races(f) ==
    warmupPending /\ \E g \in Inputs : at[g] = "clear" \/ (g < f /\ at[g] = "sample")

\* handleEncodedSampleBuffer sets the extradata, and takes a sample that comes
\* while the warm-up is pending for the blank frame's.
TestPending(f) ==
    /\ at[f] = "sample"
    /\ extradata' = TRUE
    /\ Move(f, IF warmupPending THEN "clear" ELSE "send")
    /\ mishaps' = mishaps \cup (IF Races(f) THEN {"race"} ELSE {})
    /\ UNCHANGED <<hpc, nextFrame, force, warmupPending, forceKeyframeNext, signals,
                   acked, key, begun, wire>>

\* Mutated form: the warm-up never ends.
MutClearPending(f) ==
    /\ at[f] = "clear"
    /\ Move(f, "force")
    /\ UNCHANGED <<mishaps, hpc, nextFrame, force, warmupPending, forceKeyframeNext,
                   signals, extradata, acked, key, begun, wire>>

ClearPending(f) ==
    /\ at[f] = "clear"
    /\ warmupPending' = FALSE
    /\ Move(f, "force")
    /\ UNCHANGED <<mishaps, hpc, nextFrame, force, forceKeyframeNext, signals,
                   extradata, acked, key, begun, wire>>

\* Mutated form: the next frame need not be a key frame.
MutForceNext(f) ==
    /\ at[f] = "force"
    /\ Move(f, "signal")
    /\ UNCHANGED <<mishaps, hpc, nextFrame, force, warmupPending, forceKeyframeNext,
                   signals, extradata, acked, key, begun, wire>>

ForceNext(f) ==
    /\ at[f] = "force"
    /\ forceKeyframeNext' = TRUE
    /\ Move(f, "signal")
    /\ UNCHANGED <<mishaps, hpc, nextFrame, force, warmupPending, signals, extradata,
                   acked, key, begun, wire>>

Signal(f) ==
    /\ at[f] = "signal"
    /\ signals' = signals + 1
    /\ Move(f, "over")
    /\ UNCHANGED <<mishaps, hpc, nextFrame, force, warmupPending, forceKeyframeNext,
                   extradata, acked, key, begun, wire>>

SendPacket(f) ==
    /\ at[f] = "send"
    /\ wire' = Append(wire, f)
    /\ Move(f, "over")
    /\ UNCHANGED <<mishaps, hpc, nextFrame, force, warmupPending, forceKeyframeNext,
                   signals, extradata, acked, key, begun>>

-------------------------------------------------------------------------------
Handler == \/ Warmup \/ WarmupSkipped \/ WarmupWaited \/ Acknowledge
           \/ ReadForce \/ ClearForce \/ SubmitFrame \/ Flush \/ SendDone

Callback(f) == \/ Output(f) \/ OutputFails(f) \/ TestPending(f) \/ ClearPending(f)
               \/ ForceNext(f) \/ Signal(f) \/ SendPacket(f)

\* The session is over.
Terminated == hpc = "done" /\ UNCHANGED vars

Next == Handler \/ (\E f \in Inputs : Callback(f)) \/ Terminated

Spec == Init /\ [][Next]_vars

-------------------------------------------------------------------------------
(***************************************************************************)
(* Properties.  What may have failed, and whether callbacks have raced, is *)
(* said in each.                                                           *)
(***************************************************************************)

\* The blank frame never reaches the client, even when it is late and frames of
\* the client are in the encoder behind it, unless the callback of one of these has
\* overtaken its own at the test of warmupPending.
BlankNeverSent ==
    "race" \notin mishaps => \A i \in DOMAIN wire : wire[i] # Blank

\* The key frames are those the client asked for, whatever the threads do to
\* the flag that is or-ed to its wish; and those that the warm-up costs, at most
\* one unless callbacks have raced on warmupPending.
KeysAskedPlusOne ==
    /\ \A i \in DOMAIN wire : wire[i] \in KeyAsked => key[wire[i]]
    /\ "race" \notin mishaps =>
          Cardinality({i \in DOMAIN wire : key[wire[i]] /\ wire[i] \notin KeyAsked}) <= 1

\* A client can decode from its first frame on.  It is a key frame, unless the
\* wait gave up or a frame failed, though the encoder's own first key frame has
\* been thrown away: the flag is set before the semaphore is signalled, so the
\* handler cannot submit a frame earlier.  No race can occur then.  And after an
\* undisturbed warm-up CONFIGURE_ACK has brought the parameter sets.
DecodableFromStart ==
    /\ mishaps \subseteq {"nobuffer", "race"} =>
          /\ \A i \in DOMAIN wire : wire[i] = 1 => key[1]
          /\ "race" \notin mishaps
    /\ mishaps = {} => acked # "empty"

\* Every frame of the client has just one packet by DONE, also when the blank frame
\* is late: unless callbacks have raced the warm-up discards the blank frame and
\* nothing else.
EveryFrameHasPacket ==
    hpc = "done" /\ mishaps \subseteq {"nobuffer", "slow"} =>
        /\ {wire[i] : i \in DOMAIN wire} = 1 .. nextFrame - 1
        /\ \A i, j \in DOMAIN wire : wire[i] = wire[j] => i = j
===============================================================================
