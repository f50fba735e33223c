------------------------------ MODULE WarmupProofs ------------------------------
(***************************************************************************)
(* What the warm-up of an encode session costs, for every number of        *)
(* frames, every choice of key frames, every depth of the encoder and      *)
(* every number of callbacks at a time, with all faults at once.           *)
(*                                                                         *)
(* The handler and the output callbacks share two flags without a lock.    *)
(* As long as callbacks have not raced, every value the one finds was      *)
(* prepared by the other: the blank frame leaves the encoder before any    *)
(* frame of the client, warmupPending is set until its sample or the first *)
(* that comes in its place has been thrown away, and the key frame that    *)
(* costs is owed at one place at a time.                                   *)
(***************************************************************************)
EXTENDS EncWarmup, FiniteSetTheorems, TLAPS

-------------------------------------------------------------------------------
(***************************************************************************)
(* Where the threads can be.                                               *)
(***************************************************************************)
Sent(w, f) == \E i \in DOMAIN w : w[i] = f

\* What the handler and the callbacks know of each other.
ThreadsInv ==
    /\ hpc = "configure" => /\ \A f \in Inputs : at[f] = "absent"
                            /\ ~warmupPending /\ ~begun /\ ~forceKeyframeNext
    /\ hpc \in {"configure", "waiting"} => nextFrame = 1 /\ "race" \notin mishaps
    /\ hpc \in {"clear", "submit"} => nextFrame <= NumFrames
    /\ hpc = "done" => \A f \in Inputs : at[f] \in {"absent", "over"}
    /\ \A f \in Inputs : at[f] \in InCallback \/ Sent(wire, f) => begun
    /\ \A f \in Frames : at[f] = "absent" <=> f >= nextFrame
    /\ \A f, g \in Inputs : at[f] = "held" /\ f < g => at[g] \in {"absent", "held"}
    /\ \A f \in Inputs : Sent(wire, f) => at[f] = "over"
    /\ \A i, j \in DOMAIN wire : wire[i] = wire[j] => i = j

\* Unless callbacks have raced, one is discarding at most, and what it finds is set
\* and what it leaves is clear.
PendingInv ==
    "race" \notin mishaps =>
        /\ \A f \in Inputs : at[f] = "clear" =>
              /\ warmupPending
              /\ \A g \in Inputs : at[g] = "clear" => g = f
              /\ \A g \in Inputs : g < f => at[g] \notin {"held", "sample"}
        /\ \A f \in Inputs : at[f] \in {"force", "signal", "send"} \/ Sent(wire, f) => ~warmupPending
        /\ \A f, g \in Inputs : at[f] = "force" /\ at[g] = "force" => f = g

-------------------------------------------------------------------------------
(***************************************************************************)
(* The blank frame.                                                        *)
(***************************************************************************)

\* Until its sample is discarded the callbacks know of it.
BlankInv ==
    "race" \notin mishaps =>
        /\ at[Blank] \in {"held", "sample"} => warmupPending
        /\ at[Blank] # "send" /\ ~Sent(wire, Blank)

-------------------------------------------------------------------------------
(***************************************************************************)
(* Key frames.                                                             *)
(***************************************************************************)

\* A frame that is asked to be a key frame stays one.
AskedInv ==
    /\ hpc \in {"clear", "submit"} /\ nextFrame \in KeyAsked => force
    /\ \A f \in KeyAsked : at[f] # "absent" => key[f]

\* A key frame nobody asked for.
Unasked(f) == key[f] /\ f \notin KeyAsked

\* Frames that have a packet, or will have one if nothing fails.
Kept(f) ==
    \/ at[f] \in {"held", "send"} \/ Sent(wire, f)
    \/ at[f] = "sample" /\ ~warmupPending

\* Where the one that the warm-up costs can be: still to be made; owed by the
\* flag, which means nothing while the handler is about to clear it; owed to the
\* frame the handler has; or made.
ToBeMade == hpc = "configure" \/ warmupPending \/ ~begun \/ \E f \in Inputs : at[f] = "force"
InFlag == forceKeyframeNext /\ hpc # "clear"
InHand == hpc \in {"clear", "submit"} /\ force /\ nextFrame \notin KeyAsked
Made == \E f \in Inputs : Kept(f) /\ Unasked(f)

\* While it is to be made, only the first frame that was output can be a key frame
\* already, at the test where it is thrown away.
CostInv ==
    "race" \notin mishaps =>
        /\ \A f, g \in Inputs : Kept(f) /\ Unasked(f) /\ Kept(g) /\ Unasked(g) => f = g
        /\ ToBeMade => ~InFlag /\ ~InHand /\ ~Made
        /\ InFlag => ~InHand /\ ~Made
        /\ InHand => ~Made
        /\ \A f, g \in Inputs :
              at[f] = "sample" /\ warmupPending /\ Unasked(f) /\ g < f =>
                 at[g] \notin InCallback \cup {"held"}

-------------------------------------------------------------------------------
(***************************************************************************)
(* The first frame.                                                        *)
(***************************************************************************)

\* The wait ends well when the blank frame's callback is over.
WaitInv ==
    /\ hpc = "configure" => signals = 0
    /\ hpc = "waiting" =>
        /\ at[Blank] \in {"held", "sample", "clear"} => warmupPending /\ signals = 0
        /\ at[Blank] \in {"force", "signal"} => ~warmupPending /\ signals = 0
        /\ at[Blank] \notin {"absent", "send"} /\ ~Sent(wire, Blank)
        /\ signals > 0 => at[Blank] = "over" /\ ~warmupPending
        /\ signals > 0 \/ at[Blank] = "signal" => forceKeyframeNext /\ extradata
        /\ at[Blank] \in {"clear", "force"} => extradata

\* Until something fails the first frame is a key frame, from the flag on.
FirstInv ==
    mishaps \subseteq {"nobuffer", "race"} /\ hpc \notin {"configure", "waiting"} =>
        /\ ~warmupPending /\ "race" \notin mishaps
        /\ at[Blank] \in {"absent", "over"}
        /\ \A f \in Inputs : at[f] \notin {"clear", "force", "signal"}
        /\ 1 \in Inputs =>
             /\ at[1] \in {"sample", "send", "over"} => key[1]
             /\ at[1] = "held" => key[1] \/ ~begun
             /\ at[1] = "absent" /\ hpc \in {"configured", "loop"} => forceKeyframeNext \/ ~begun
             /\ at[1] = "absent" /\ hpc \in {"clear", "submit"} => force \/ ~begun

\* CONFIGURE_ACK comes after an undisturbed warm-up.
AckInv ==
    /\ mishaps = {} /\ hpc \notin {"configure", "waiting"} => extradata
    /\ mishaps = {} => acked # "empty"

-------------------------------------------------------------------------------
(***************************************************************************)
(* Every frame.                                                            *)
(***************************************************************************)

\* Unless a frame fails, the blank one is all that is discarded.
RowInv ==
    mishaps \subseteq {"nobuffer", "slow"} =>
        /\ warmupPending => at[Blank] \in {"held", "sample", "clear"}
        /\ \A f \in Frames : /\ at[f] \notin {"clear", "force", "signal"}
                             /\ at[f] = "over" => Sent(wire, f)

-------------------------------------------------------------------------------
(***************************************************************************)
(* The steps.                                                              *)
(***************************************************************************)

\* What the model's numbers are.
LEMMA FrameNumbers ==
    /\ NumFrames \in Nat /\ Blank \in Inputs /\ Blank \notin Frames /\ Blank \notin KeyAsked
    /\ Inputs = {Blank} \cup Frames /\ Inputs \subseteq Nat /\ KeyAsked \subseteq Frames
    /\ \A f \in Frames : f > Blank /\ ~(f < Blank)
    /\ \A f \in Inputs : ~(f < Blank)
BY WarmupAssumption DEF Blank, Frames, Inputs

\* A frame moves, and no other.
LEMMA MoveTo ==
    ASSUME TypeOK, NEW f \in Inputs, NEW p \in Places, Move(f, p)
    PROVE  /\ at' \in [Inputs -> Places]
           /\ at'[f] = p
           /\ \A g \in Inputs : g # f => at'[g] = at[g]
BY DEF TypeOK, Move

\* A packet is added to the wire.
LEMMA SentAppend ==
    ASSUME NEW w \in Seq(Inputs), NEW f \in Inputs
    PROVE  /\ Append(w, f) \in Seq(Inputs)
           /\ \A g \in Inputs : Sent(Append(w, f), g) <=> Sent(w, g) \/ g = f
           /\ ~Sent(w, f) /\ (\A i, j \in DOMAIN w : w[i] = w[j] => i = j) =>
                 \A i, j \in DOMAIN Append(w, f) : Append(w, f)[i] = Append(w, f)[j] => i = j
<1>1. /\ Append(w, f) \in Seq(Inputs)
      /\ \A i \in DOMAIN Append(w, f) : \/ i \in DOMAIN w /\ Append(w, f)[i] = w[i]
                                        \/ i = Len(w) + 1 /\ Append(w, f)[i] = f
      /\ \A i \in DOMAIN w : i \in DOMAIN Append(w, f) /\ Append(w, f)[i] = w[i]
      /\ Len(w) + 1 \in DOMAIN Append(w, f) /\ Append(w, f)[Len(w) + 1] = f
  <2>1. Append(w, f) \in Seq(Inputs) /\ Len(Append(w, f)) = Len(w) + 1 /\ Len(w) \in Nat
    OBVIOUS
  <2>2. DOMAIN Append(w, f) = 1 .. Len(w) + 1 /\ DOMAIN w = 1 .. Len(w)
    OBVIOUS
  <2>3. Append(w, f)[Len(w) + 1] = f /\ \A i \in 1 .. Len(w) : Append(w, f)[i] = w[i]
    OBVIOUS
  <2> QED
    BY ONLY <2>1, <2>2, <2>3
<1>2. \A g \in Inputs : Sent(Append(w, f), g) <=> Sent(w, g) \/ g = f
  BY ONLY <1>1 DEF Sent
<1>3. ASSUME ~Sent(w, f), \A i, j \in DOMAIN w : w[i] = w[j] => i = j
      PROVE  \A i, j \in DOMAIN Append(w, f) : Append(w, f)[i] = Append(w, f)[j] => i = j
  BY ONLY <1>1, <1>3 DEF Sent
<1> QED
  BY <1>1, <1>2, <1>3

\* A frame enters the encoder.
LEMMA Entering ==
    ASSUME TypeOK, ThreadsInv, Warmup \/ SubmitFrame
    PROVE  \E f \in Inputs, b \in BOOLEAN :
              /\ at[f] = "absent" /\ at' \in [Inputs -> Places] /\ at'[f] = "held"
              /\ \A g \in Inputs : g # f => at'[g] = at[g]
              /\ key' \in [Inputs -> BOOLEAN] /\ key'[f] = b
              /\ \A g \in Inputs : g # f => key'[g] = key[g]
              /\ \/ /\ f = Blank /\ b = FALSE /\ hpc = "configure" /\ hpc' = "waiting"
                    /\ warmupPending' = TRUE /\ nextFrame' = nextFrame
                 \/ /\ f = nextFrame /\ b = force /\ hpc = "submit" /\ hpc' = "loop"
                    /\ f \in Frames
                    /\ warmupPending' = warmupPending /\ nextFrame' = nextFrame + 1
              /\ UNCHANGED <<mishaps, force, forceKeyframeNext, signals, extradata, acked,
                             begun, wire>>
<1>1. ASSUME NEW f \in Inputs, NEW b \in BOOLEAN, Encode(f, b)
      PROVE  /\ at' \in [Inputs -> Places] /\ at'[f] = "held"
             /\ \A g \in Inputs : g # f => at'[g] = at[g]
             /\ key' \in [Inputs -> BOOLEAN] /\ key'[f] = b
             /\ \A g \in Inputs : g # f => key'[g] = key[g]
  <2>1. key' = [key EXCEPT ![f] = b] /\ key \in [Inputs -> BOOLEAN]
    BY <1>1 DEF Encode, TypeOK
  <2>2. "held" \in Places
    BY DEF Places
  <2>3. Move(f, "held")
    BY <1>1 DEF Encode
  <2>4. /\ key' \in [Inputs -> BOOLEAN] /\ key'[f] = b
        /\ \A g \in Inputs : g # f => key'[g] = key[g]
    BY ONLY <2>1, f \in Inputs, b \in BOOLEAN
  <2> QED
    BY <2>2, <2>3, <2>4, MoveTo
<1>2. CASE Warmup
  <2>1. Encode(Blank, FALSE) /\ at[Blank] = "absent" /\ Blank \in Inputs
    BY <1>2, FrameNumbers DEF Warmup, ThreadsInv
  <2> QED
    BY <1>1, <1>2, <2>1 DEF Warmup
<1>3. CASE SubmitFrame
  <2>1. nextFrame \in Frames /\ nextFrame \in Inputs /\ force \in BOOLEAN
    BY <1>3, FrameNumbers DEF SubmitFrame, ThreadsInv, TypeOK, Frames
  <2>2. Encode(nextFrame, force) /\ at[nextFrame] = "absent"
    BY <1>3, <2>1 DEF SubmitFrame, ThreadsInv, TypeOK
  <2> QED
    BY <1>1, <1>3, <2>1, <2>2 DEF SubmitFrame
<1> QED
  BY <1>2, <1>3

\* A frame leaves it for its callback.
LEMMA Leaving ==
    ASSUME TypeOK, NEW f \in Inputs, Output(f)
    PROVE  /\ at[f] = "held" /\ \A g \in Inputs : at[g] = "held" => ~(g < f)
           /\ at' \in [Inputs -> Places] /\ at'[f] = "sample"
           /\ \A g \in Inputs : g # f => at'[g] = at[g]
           /\ key' \in [Inputs -> BOOLEAN] /\ (key'[f] <=> (key[f] \/ ~begun))
           /\ \A g \in Inputs : g # f => key'[g] = key[g]
           /\ begun'
           /\ UNCHANGED <<mishaps, hpc, nextFrame, force, warmupPending, forceKeyframeNext,
                          signals, extradata, acked, wire>>
<1>1. at[f] = "held" /\ \A g \in Inputs : at[g] = "held" => ~(g < f)
  BY FrameNumbers DEF Output, Oldest, Now
<1>2. PICK b \in BOOLEAN : b = (key[f] \/ ~begun)
  OBVIOUS
<1>3. key' = [key EXCEPT ![f] = b] /\ key \in [Inputs -> BOOLEAN]
  BY <1>2 DEF Output, TypeOK
<1>4. /\ key' \in [Inputs -> BOOLEAN] /\ key'[f] = b
      /\ \A g \in Inputs : g # f => key'[g] = key[g]
  BY ONLY <1>3, f \in Inputs, b \in BOOLEAN
<1>5. "sample" \in Places /\ Move(f, "sample")
  BY DEF Places, InCallback, Output
<1> QED
  BY <1>1, <1>2, <1>4, <1>5, MoveTo DEF Output

\* A frame fails.
LEMMA Failing ==
    ASSUME TypeOK, NEW f \in Inputs, OutputFails(f)
    PROVE  /\ at[f] = "held"
           /\ at' \in [Inputs -> Places] /\ at'[f] = "over"
           /\ \A g \in Inputs : g # f => at'[g] = at[g]
           /\ mishaps' \subseteq Faults \cup {"race"} /\ mishaps \subseteq mishaps'
           /\ "race" \in mishaps' => "race" \in mishaps
           /\ ~(mishaps' \subseteq {"nobuffer", "race", "slow"})
           /\ UNCHANGED <<hpc, nextFrame, force, warmupPending, forceKeyframeNext, signals,
                          extradata, acked, key, begun, wire>>
<1>1. "over" \in Places /\ Move(f, "over")
  BY DEF Places, OutputFails
<1>2. PICK fault \in Faults : mishaps' = mishaps \cup {fault} /\ fault \in {"blank", "error"}
  BY DEF OutputFails
<1> QED
  BY <1>1, <1>2, MoveTo DEF OutputFails, Oldest, TypeOK

\* A callback tests warmupPending.
LEMMA Testing ==
    ASSUME TypeOK, NEW f \in Inputs, TestPending(f)
    PROVE  /\ at[f] = "sample"
           /\ at' \in [Inputs -> Places]
           /\ at'[f] = IF warmupPending THEN "clear" ELSE "send"
           /\ \A g \in Inputs : g # f => at'[g] = at[g]
           /\ \/ Races(f) /\ "race" \in mishaps' /\ mishaps' = mishaps \cup {"race"}
              \/ ~Races(f) /\ mishaps' = mishaps
           /\ extradata'
           /\ UNCHANGED <<hpc, nextFrame, force, warmupPending, forceKeyframeNext, signals,
                          acked, key, begun, wire>>
<1>1. PICK p \in Places : p = IF warmupPending THEN "clear" ELSE "send"
  BY DEF Places, InCallback
<1>2. Move(f, p)
  BY <1>1 DEF TestPending
<1>3. /\ at' \in [Inputs -> Places] /\ at'[f] = p
      /\ \A g \in Inputs : g # f => at'[g] = at[g]
  BY <1>2, MoveTo
<1>4. \/ Races(f) /\ "race" \in mishaps' /\ mishaps' = mishaps \cup {"race"}
      \/ ~Races(f) /\ mishaps' = mishaps
  BY DEF TestPending
<1> QED
  BY <1>1, <1>3, <1>4 DEF TestPending

\* A callback goes on with the discard, or ends.
LEMMA Moving ==
    ASSUME TypeOK, NEW f \in Inputs, ClearPending(f) \/ ForceNext(f) \/ Signal(f) \/ SendPacket(f)
    PROVE  /\ at' \in [Inputs -> Places]
           /\ \A g \in Inputs : g # f => at'[g] = at[g]
           /\ \/ /\ ClearPending(f) /\ at[f] = "clear" /\ at'[f] = "force"
                 /\ warmupPending' = FALSE
                 /\ UNCHANGED <<forceKeyframeNext, signals, wire>>
              \/ /\ ForceNext(f) /\ at[f] = "force" /\ at'[f] = "signal"
                 /\ forceKeyframeNext' = TRUE
                 /\ UNCHANGED <<warmupPending, signals, wire>>
              \/ /\ Signal(f) /\ at[f] = "signal" /\ at'[f] = "over"
                 /\ signals' = signals + 1
                 /\ UNCHANGED <<warmupPending, forceKeyframeNext, wire>>
              \/ /\ SendPacket(f) /\ at[f] = "send" /\ at'[f] = "over"
                 /\ wire' = Append(wire, f)
                 /\ UNCHANGED <<warmupPending, forceKeyframeNext, signals>>
           /\ UNCHANGED <<mishaps, hpc, nextFrame, force, extradata, acked, key, begun>>
<1>1. {"force", "signal", "over"} \subseteq Places
  BY DEF Places, InCallback
<1>2. CASE ClearPending(f)
  BY <1>1, <1>2, MoveTo DEF ClearPending
<1>3. CASE ForceNext(f)
  BY <1>1, <1>3, MoveTo DEF ForceNext
<1>4. CASE Signal(f)
  BY <1>1, <1>4, MoveTo DEF Signal
<1>5. CASE SendPacket(f)
  BY <1>1, <1>5, MoveTo DEF SendPacket
<1> QED
  BY <1>2, <1>3, <1>4, <1>5

\* The handler's other steps leave the frames alone.
Waiting == WarmupSkipped \/ WarmupWaited \/ Acknowledge
Reading == ReadForce \/ ClearForce \/ Flush \/ SendDone
Moves(f) == ClearPending(f) \/ ForceNext(f) \/ Signal(f) \/ SendPacket(f)

LEMMA Cases ==
    ASSUME [Next]_vars
    PROVE  \/ Warmup \/ SubmitFrame
           \/ Waiting
           \/ Reading
           \/ \E f \in Inputs : Output(f)
           \/ \E f \in Inputs : OutputFails(f)
           \/ \E f \in Inputs : TestPending(f)
           \/ \E f \in Inputs : Moves(f)
           \/ UNCHANGED vars
BY DEF Next, Handler, Callback, Terminated, Waiting, Reading, Moves

\* What they do.
LEMMA Handling ==
    ASSUME TypeOK, Waiting \/ Reading
    PROVE  /\ UNCHANGED <<at, key, begun, wire, extradata, nextFrame>>
           /\ mishaps \subseteq mishaps' /\ mishaps' \subseteq Faults \cup {"race"}
           /\ "race" \in mishaps' => "race" \in mishaps
           /\ warmupPending' => warmupPending
           /\ hpc' \notin {"configure", "waiting"} /\ hpc # "submit"
BY DEF TypeOK, Waiting, Reading, WarmupSkipped, WarmupWaited, Acknowledge, ReadForce,
       ClearForce, Flush, SendDone, FaultNames

-------------------------------------------------------------------------------
\* Every variable keeps its type.
LEMMA TypeStep ==
    ASSUME TypeOK, ThreadsInv, [Next]_vars
    PROVE  TypeOK'
<1>0. NumFrames \in Nat
  BY FrameNumbers
<1>1. CASE Warmup \/ SubmitFrame
  <2>1. nextFrame' \in 1 .. NumFrames + 1
    <3>1. /\ nextFrame' = nextFrame \/ (nextFrame \in Frames /\ nextFrame' = nextFrame + 1)
          /\ nextFrame \in 1 .. NumFrames + 1
      BY <1>1, Entering DEF TypeOK
    <3> QED
      BY ONLY <1>0, <3>1 DEF Frames
  <2>2. hpc' \in {"waiting", "loop"} /\ warmupPending' \in BOOLEAN
    BY <1>1, Entering DEF TypeOK
  <2> QED
    BY <1>1, <2>1, <2>2, Entering DEF TypeOK
<1>2. CASE Waiting
  <2>1. signals' \in Nat
    BY <1>2 DEF Waiting, WarmupSkipped, WarmupWaited, Acknowledge, TypeOK
  <2> QED
    BY <1>2, <2>1, Handling DEF Waiting, WarmupSkipped, WarmupWaited, Acknowledge, TypeOK
<1>3. CASE Reading
  <2>1. force' \in BOOLEAN
    <3>1. CASE ReadForce
      BY <3>1, Zenon DEF ReadForce
    <3> QED
      BY <1>3, <3>1 DEF Reading, ClearForce, Flush, SendDone, TypeOK
  <2>2. hpc' \in {"clear", "submit", "completing", "done"}
    BY <1>3 DEF Reading, ReadForce, ClearForce, Flush, SendDone
  <2>3. forceKeyframeNext' \in BOOLEAN /\ UNCHANGED <<warmupPending, signals, acked>>
    BY <1>3 DEF Reading, ReadForce, ClearForce, Flush, SendDone, TypeOK
  <2> QED
    BY <1>3, <2>1, <2>2, <2>3, Handling DEF TypeOK
<1>4. CASE \E f \in Inputs : Output(f)
  BY <1>4, Leaving DEF TypeOK
<1>5. CASE \E f \in Inputs : OutputFails(f)
  BY <1>5, Failing DEF TypeOK
<1>6. CASE \E f \in Inputs : TestPending(f)
  BY <1>6, Testing DEF TypeOK
<1>7. CASE \E f \in Inputs : Moves(f)
  <2>1. PICK f \in Inputs : Moves(f)
    BY <1>7
  <2>2. wire' \in Seq(Inputs) /\ signals' \in Nat
    <3>1. /\ wire' = wire \/ wire' = Append(wire, f)
          /\ signals' = signals \/ signals' = signals + 1
          /\ wire \in Seq(Inputs) /\ signals \in Nat
      BY <2>1, Moving DEF Moves, TypeOK
    <3> QED
      BY <3>1, SentAppend
  <2> QED
    BY <2>1, <2>2, Moving DEF Moves, TypeOK
<1>8. CASE UNCHANGED vars
  BY <1>8 DEF vars, TypeOK
<1> QED
  BY <1>1, <1>2, <1>3, <1>4, <1>5, <1>6, <1>7, <1>8, Cases

\* ThreadsInv is preserved by every step.
LEMMA ThreadsStep ==
    ASSUME TypeOK, ThreadsInv, [Next]_vars
    PROVE  ThreadsInv'
<1>0. NumFrames \in Nat /\ Inputs \subseteq Nat /\ Inputs = {Blank} \cup Frames /\ Blank \notin Frames
  BY FrameNumbers
<1>1. CASE Warmup \/ SubmitFrame
  <2>1. PICK f \in Inputs :
              /\ at[f] = "absent" /\ at'[f] = "held"
              /\ \A g \in Inputs : g # f => at'[g] = at[g]
              /\ \/ f = Blank /\ hpc = "configure" /\ hpc' = "waiting" /\ nextFrame' = nextFrame
                 \/ f = nextFrame /\ hpc = "submit" /\ hpc' = "loop" /\ nextFrame' = nextFrame + 1
                    /\ f \in Frames
              /\ UNCHANGED <<mishaps, forceKeyframeNext, begun, wire>>
    BY <1>1, Entering
  <2>2. \A g \in Frames : at'[g] = "absent" <=> g >= nextFrame'
    <3>1. nextFrame \in Nat /\ \A g \in Frames : g \in Nat
      BY <1>0 DEF TypeOK
    <3>2. \A g \in Frames : at[g] = "absent" <=> g >= nextFrame
      BY DEF ThreadsInv
    <3> QED
      BY <1>0, <2>1, <3>1, <3>2
  <2>3. \A g, h \in Inputs : at'[g] = "held" /\ g < h => at'[h] \in {"absent", "held"}
    <3>1. CASE f = Blank
      <4>1. \A g \in Inputs : at[g] = "absent"
        BY <1>0, <2>1, <3>1 DEF ThreadsInv
      <4>2. \A g \in Inputs : at'[g] = "held" => g = f
        BY <2>1, <4>1
      <4>3. \A h \in Inputs : f < h => at'[h] = "absent"
        BY <1>0, <2>1, <4>1
      <4> QED
        BY <4>2, <4>3
    <3>2. CASE f = nextFrame /\ f \in Frames
      <4>1. \A h \in Inputs : f < h => h \in Frames /\ h >= nextFrame
        BY <1>0, <3>2, FrameNumbers DEF TypeOK
      <4>2. \A h \in Inputs : f < h => at[h] = "absent"
        BY <4>1 DEF ThreadsInv
      <4> QED
        BY <2>1, <4>2 DEF ThreadsInv
    <3> QED
      BY <2>1, <3>1, <3>2
  <2>4. \A g \in Inputs : Sent(wire', g) => at'[g] = "over"
    BY <2>1 DEF ThreadsInv
  <2>5. \A g \in Inputs : at'[g] \in InCallback \/ Sent(wire', g) => begun'
    BY <2>1 DEF ThreadsInv, InCallback
  <2>6. \A i, j \in DOMAIN wire' : wire'[i] = wire'[j] => i = j
    BY <2>1 DEF ThreadsInv
  <2>7. hpc' \in {"configure", "waiting"} => nextFrame' = 1 /\ "race" \notin mishaps'
    BY <2>1 DEF ThreadsInv
  <2>8. hpc' \notin {"configure", "clear", "submit", "done"}
    BY <2>1
  <2> QED
    BY <2>2, <2>3, <2>4, <2>5, <2>6, <2>7, <2>8 DEF ThreadsInv
<1>2. CASE Waiting \/ Reading
  <2>1. /\ UNCHANGED <<at, key, begun, wire, nextFrame>>
        /\ hpc' \notin {"configure", "waiting"}
    BY <1>2, Handling
  <2>2. hpc' \in {"clear", "submit"} => nextFrame <= NumFrames
    BY <1>2 DEF Waiting, WarmupSkipped, WarmupWaited, Acknowledge,
                Reading, ReadForce, ClearForce, Flush, SendDone, ThreadsInv
  <2>3. hpc' = "done" => \A f \in Inputs : at[f] \in {"absent", "over"}
    BY <1>2 DEF Waiting, WarmupSkipped, WarmupWaited, Acknowledge,
                Reading, ReadForce, ClearForce, Flush, SendDone, ThreadsInv
  <2> QED
    BY <2>1, <2>2, <2>3 DEF ThreadsInv
<1>4. CASE \E f \in Inputs : Output(f)
  <2>1. PICK f \in Inputs :
           /\ at[f] = "held" /\ \A g \in Inputs : at[g] = "held" => ~(g < f)
           /\ at'[f] = "sample"
           /\ \A g \in Inputs : g # f => at'[g] = at[g]
           /\ begun'
           /\ UNCHANGED <<mishaps, hpc, nextFrame, warmupPending, forceKeyframeNext, wire>>
    BY <1>4, Leaving
  <2> QED
    BY <1>0, <2>1 DEF ThreadsInv
<1>5. CASE \E f \in Inputs : OutputFails(f)
  <2>1. PICK f \in Inputs :
           /\ at[f] = "held" /\ \A g \in Inputs : at[g] = "held" => ~(g < f)
           /\ at'[f] = "over"
           /\ \A g \in Inputs : g # f => at'[g] = at[g]
           /\ "race" \in mishaps' => "race" \in mishaps
           /\ UNCHANGED <<hpc, nextFrame, warmupPending, forceKeyframeNext, begun, wire>>
    BY <1>5, Failing, <1>0 DEF OutputFails, Oldest, Now
  <2> QED
    BY <1>0, <2>1 DEF ThreadsInv, InCallback
<1>6. CASE \E f \in Inputs : TestPending(f)
  <2>1. PICK f \in Inputs :
           /\ at[f] = "sample" /\ at'[f] \in {"clear", "send"}
           /\ \A g \in Inputs : g # f => at'[g] = at[g]
           /\ Races(f) \/ mishaps' = mishaps
           /\ UNCHANGED <<hpc, nextFrame, warmupPending, forceKeyframeNext, begun, wire>>
    BY <1>6, Testing
  <2>2. hpc \in {"configure", "waiting"} => "race" \notin mishaps'
    <3>1. ASSUME hpc \in {"configure", "waiting"}
          PROVE  \A g \in Inputs : g # Blank => at[g] = "absent"
      BY <1>0, <3>1 DEF ThreadsInv, Frames
    <3>2. ASSUME hpc \in {"configure", "waiting"}
          PROVE  ~Races(f)
      BY <2>1, <3>1, <3>2, FrameNumbers DEF Races
    <3> QED
      BY <2>1, <3>2 DEF ThreadsInv
  <2> QED
    BY <1>0, <2>1, <2>2 DEF ThreadsInv, InCallback
<1>7. CASE \E f \in Inputs : Moves(f)
  <2>1. PICK f \in Inputs : Moves(f)
    BY <1>7
  <2>2. /\ at[f] \in {"clear", "force", "signal", "send"} /\ at'[f] \in {"force", "signal", "over"}
        /\ \A g \in Inputs : g # f => at'[g] = at[g]
        /\ wire' = wire \/ (wire' = Append(wire, f) /\ at[f] = "send" /\ at'[f] = "over")
        /\ UNCHANGED <<mishaps, hpc, nextFrame, begun>>
    BY <2>1, Moving DEF Moves
  <2>3. \A g \in Inputs : Sent(wire', g) =>
           Sent(wire, g) \/ (g = f /\ at[f] = "send" /\ at'[f] = "over")
    <3>1. wire \in Seq(Inputs)
      BY DEF TypeOK
    <3>2. \A g \in Inputs : Sent(Append(wire, f), g) <=> Sent(wire, g) \/ g = f
      BY <3>1, SentAppend
    <3> QED
      BY <2>2, <3>2
  <2>4. \A i, j \in DOMAIN wire' : wire'[i] = wire'[j] => i = j
    BY <2>2, SentAppend DEF TypeOK, ThreadsInv
  <2>5. hpc # "configure" /\ begun
    BY <2>2 DEF ThreadsInv, InCallback
  <2>6. \A g \in Inputs : Sent(wire', g) => at'[g] = "over"
    BY <2>2, <2>3 DEF ThreadsInv
  <2>7. \A g, h \in Inputs : at'[g] = "held" /\ g < h => at'[h] \in {"absent", "held"}
    BY <2>2 DEF ThreadsInv
  <2>8. \A g \in Frames : at'[g] = "absent" <=> g >= nextFrame'
    BY <1>0, <2>2 DEF ThreadsInv
  <2> QED
    BY <2>2, <2>4, <2>5, <2>6, <2>7, <2>8 DEF ThreadsInv
<1>8. CASE UNCHANGED vars
  BY <1>8 DEF vars, ThreadsInv
<1> QED
  BY <1>1, <1>2, <1>4, <1>5, <1>6, <1>7, <1>8, Cases

\* PendingInv is preserved by every step.
LEMMA PendingStep ==
    ASSUME TypeOK, ThreadsInv, PendingInv, [Next]_vars
    PROVE  PendingInv'
<1>0. Inputs \subseteq Nat /\ ThreadsInv'
  BY FrameNumbers, ThreadsStep
<1>1. CASE Warmup \/ SubmitFrame
  <2>1. PICK f \in Inputs :
              /\ at[f] = "absent" /\ at'[f] = "held"
              /\ \A g \in Inputs : g # f => at'[g] = at[g]
              /\ hpc = "configure" \/ warmupPending' = warmupPending
              /\ UNCHANGED <<mishaps, wire>>
    BY <1>1, Entering
  <2>2. hpc = "configure" => \A g \in Inputs : at[g] = "absent" /\ ~Sent(wire, g)
    BY DEF ThreadsInv
  <2>3. \A g, h \in Inputs : at'[g] = "clear" /\ h < g => at'[h] # "held"
    BY <1>0 DEF ThreadsInv
  <2>4. \A g \in Inputs : at'[g] \in {"clear", "sample", "force", "signal", "send"} => at'[g] = at[g]
    BY <2>1
  <2> QED
    BY <2>1, <2>2, <2>3, <2>4 DEF PendingInv
<1>2. CASE Waiting \/ Reading
  <2>1. /\ UNCHANGED <<at, wire>> /\ ("race" \in mishaps' => "race" \in mishaps) /\ mishaps \subseteq mishaps'
        /\ warmupPending' => warmupPending
    BY <1>2, Handling
  <2>2. warmupPending' = warmupPending \/ \A g \in Inputs : at[g] = "absent"
    BY <1>2 DEF Waiting, WarmupSkipped, WarmupWaited, Acknowledge,
                Reading, ReadForce, ClearForce, Flush, SendDone, ThreadsInv
  <2> QED
    BY <2>1, <2>2 DEF PendingInv
<1>4. CASE \E f \in Inputs : Output(f)
  <2>1. PICK f \in Inputs :
           /\ at[f] = "held" /\ at'[f] = "sample"
           /\ \A g \in Inputs : g # f => at'[g] = at[g]
           /\ UNCHANGED <<mishaps, warmupPending, wire>>
    BY <1>4, Leaving
  <2> QED
    BY <2>1 DEF PendingInv
<1>5. CASE \E f \in Inputs : OutputFails(f)
  <2>1. PICK f \in Inputs :
           /\ at[f] = "held" /\ at'[f] = "over"
           /\ \A g \in Inputs : g # f => at'[g] = at[g]
           /\ mishaps \subseteq mishaps' /\ UNCHANGED <<warmupPending, wire>>
    BY <1>5, Failing
  <2> QED
    BY <2>1 DEF PendingInv
<1>6. CASE \E f \in Inputs : TestPending(f)
  <2>1. PICK f \in Inputs :
           /\ at[f] = "sample" /\ at'[f] = IF warmupPending THEN "clear" ELSE "send"
           /\ \A g \in Inputs : g # f => at'[g] = at[g]
           /\ ("race" \in mishaps' \/ ~Races(f)) /\ mishaps \subseteq mishaps'
           /\ UNCHANGED <<warmupPending, wire>>
    BY <1>6, Testing
  <2>2. ~Races(f) /\ warmupPending =>
           \A g \in Inputs : at[g] # "clear" /\ (g < f => at[g] # "sample")
    BY DEF Races
  <2>3. \A g \in Inputs : g < f => at[g] # "held"
    BY <2>1 DEF ThreadsInv
  <2>4. CASE warmupPending
    BY <2>1, <2>2, <2>3, <2>4, <1>0 DEF PendingInv
  <2>5. CASE ~warmupPending
    BY <2>1, <2>5 DEF PendingInv
  <2> QED
    BY <2>4, <2>5
<1>7. CASE \E f \in Inputs : Moves(f)
  <2>1. PICK f \in Inputs : Moves(f)
    BY <1>7
  <2>2. /\ \A g \in Inputs : g # f => at'[g] = at[g]
        /\ \/ at[f] = "clear" /\ at'[f] = "force" /\ warmupPending' = FALSE /\ wire' = wire
           \/ at[f] = "force" /\ at'[f] = "signal" /\ UNCHANGED <<warmupPending, wire>>
           \/ at[f] = "signal" /\ at'[f] = "over" /\ UNCHANGED <<warmupPending, wire>>
           \/ at[f] = "send" /\ at'[f] = "over" /\ wire' = Append(wire, f)
              /\ warmupPending' = warmupPending
        /\ mishaps' = mishaps
    BY <2>1, Moving DEF Moves
  <2>3. \A g \in Inputs : Sent(Append(wire, f), g) <=> Sent(wire, g) \/ g = f
    BY SentAppend DEF TypeOK
  <2>4. CASE at[f] = "clear" /\ at'[f] = "force" /\ warmupPending' = FALSE /\ wire' = wire
    BY <2>2, <2>4 DEF PendingInv
  <2>5. CASE at[f] \in {"force", "signal"} /\ at'[f] \in {"signal", "over"}
             /\ UNCHANGED <<warmupPending, wire>>
    BY <2>2, <2>5 DEF PendingInv
  <2>6. CASE at[f] = "send" /\ at'[f] = "over" /\ wire' = Append(wire, f)
             /\ warmupPending' = warmupPending
    BY <2>2, <2>3, <2>6 DEF PendingInv
  <2> QED
    BY <2>2, <2>4, <2>5, <2>6
<1>8. CASE UNCHANGED vars
  BY <1>8 DEF vars, PendingInv
<1> QED
  BY <1>1, <1>2, <1>4, <1>5, <1>6, <1>7, <1>8, Cases

\* BlankInv is preserved by every step.
LEMMA BlankStep ==
    ASSUME TypeOK, ThreadsInv, PendingInv, BlankInv, [Next]_vars
    PROVE  BlankInv'
<1>0. Inputs \subseteq Nat /\ Blank \in Inputs /\ Blank \notin Frames
  BY FrameNumbers
<1>1. CASE Warmup \/ SubmitFrame
  <2>1. PICK f \in Inputs :
              /\ at'[f] = "held"
              /\ \A g \in Inputs : g # f => at'[g] = at[g]
              /\ \/ f = Blank /\ warmupPending' = TRUE /\ at[f] = "absent"
                 \/ f \in Frames /\ warmupPending' = warmupPending
              /\ UNCHANGED <<mishaps, wire>>
    BY <1>1, Entering
  <2>2. at[Blank] = "absent" => ~Sent(wire, Blank)
    BY <1>0 DEF ThreadsInv
  <2> QED
    BY <1>0, <2>1, <2>2 DEF BlankInv
<1>2. CASE Waiting \/ Reading
  <2>1. /\ UNCHANGED <<at, wire>> /\ mishaps \subseteq mishaps'
    BY <1>2, Handling
  <2>2. warmupPending' = warmupPending \/ \A g \in Inputs : at[g] = "absent"
    BY <1>2 DEF Waiting, WarmupSkipped, WarmupWaited, Acknowledge,
                Reading, ReadForce, ClearForce, Flush, SendDone, ThreadsInv
  <2> QED
    BY <1>0, <2>1, <2>2 DEF BlankInv
<1>4. CASE \E f \in Inputs : Output(f)
  <2>1. PICK f \in Inputs :
           /\ at[f] = "held" /\ at'[f] = "sample"
           /\ \A g \in Inputs : g # f => at'[g] = at[g]
           /\ UNCHANGED <<mishaps, warmupPending, wire>>
    BY <1>4, Leaving
  <2> QED
    BY <1>0, <2>1 DEF BlankInv
<1>5. CASE \E f \in Inputs : OutputFails(f)
  <2>1. PICK f \in Inputs :
           /\ at[f] = "held" /\ at'[f] = "over"
           /\ \A g \in Inputs : g # f => at'[g] = at[g]
           /\ mishaps \subseteq mishaps' /\ UNCHANGED <<warmupPending, wire>>
    BY <1>5, Failing
  <2> QED
    BY <1>0, <2>1 DEF BlankInv
<1>6. CASE \E f \in Inputs : TestPending(f)
  <2>1. PICK f \in Inputs :
           /\ at[f] = "sample" /\ at'[f] = IF warmupPending THEN "clear" ELSE "send"
           /\ \A g \in Inputs : g # f => at'[g] = at[g]
           /\ mishaps \subseteq mishaps' /\ UNCHANGED <<warmupPending, wire>>
    BY <1>6, Testing
  <2> QED
    BY <1>0, <2>1 DEF BlankInv
<1>7. CASE \E f \in Inputs : Moves(f)
  <2>1. PICK f \in Inputs : Moves(f)
    BY <1>7
  <2>2. /\ \A g \in Inputs : g # f => at'[g] = at[g]
        /\ \/ at[f] = "clear" /\ at'[f] = "force" /\ wire' = wire
           \/ at[f] \in {"force", "signal"} /\ at'[f] \in {"signal", "over"}
              /\ UNCHANGED <<warmupPending, wire>>
           \/ at[f] = "send" /\ at'[f] = "over" /\ wire' = Append(wire, f)
              /\ warmupPending' = warmupPending
        /\ mishaps' = mishaps
    BY <2>1, Moving DEF Moves
  <2>3. \A g \in Inputs : Sent(Append(wire, f), g) <=> Sent(wire, g) \/ g = f
    BY SentAppend DEF TypeOK
  <2>4. CASE at[f] = "clear" /\ at'[f] = "force" /\ wire' = wire
    <3>1. "race" \notin mishaps => f = Blank \/ at[Blank] \notin {"held", "sample"}
      BY <1>0, <2>4, FrameNumbers DEF PendingInv
    <3> QED
      BY <1>0, <2>2, <2>4, <3>1 DEF BlankInv
  <2>5. CASE at[f] \in {"force", "signal"} /\ at'[f] \in {"signal", "over"}
             /\ UNCHANGED <<warmupPending, wire>>
    BY <1>0, <2>2, <2>5 DEF BlankInv
  <2>6. CASE at[f] = "send" /\ at'[f] = "over" /\ wire' = Append(wire, f)
             /\ warmupPending' = warmupPending
    BY <1>0, <2>2, <2>3, <2>6 DEF BlankInv
  <2> QED
    BY <2>2, <2>4, <2>5, <2>6
<1>8. CASE UNCHANGED vars
  BY <1>8 DEF vars, BlankInv
<1> QED
  BY <1>1, <1>2, <1>4, <1>5, <1>6, <1>7, <1>8, Cases

\* AskedInv is preserved by every step.
LEMMA AskedStep ==
    ASSUME TypeOK, ThreadsInv, AskedInv, [Next]_vars
    PROVE  AskedInv'
<1>0. KeyAsked \subseteq Inputs /\ Blank \notin KeyAsked
  BY FrameNumbers
<1>1. CASE Warmup \/ SubmitFrame
  <2>1. PICK f \in Inputs, b \in BOOLEAN :
              /\ \A g \in Inputs : g # f => at'[g] = at[g]
              /\ key'[f] = b /\ \A g \in Inputs : g # f => key'[g] = key[g]
              /\ hpc' \in {"waiting", "loop"}
              /\ f = Blank \/ (f = nextFrame /\ b = force /\ hpc = "submit")
    BY <1>1, Entering
  <2> QED
    BY <1>0, <2>1 DEF AskedInv
<1>2. CASE Waiting \/ Reading
  <2>1. UNCHANGED <<at, key, nextFrame>>
    BY <1>2, Handling
  <2>2. hpc' \in {"clear", "submit"} /\ nextFrame \in KeyAsked => force'
    BY <1>2 DEF Waiting, WarmupSkipped, WarmupWaited, Acknowledge,
                Reading, ReadForce, ClearForce, Flush, SendDone, AskedInv
  <2> QED
    BY <1>0, <2>1, <2>2 DEF AskedInv
<1>4. CASE \E f \in Inputs : Output(f)
  <2>1. PICK f \in Inputs :
           /\ at[f] = "held"
           /\ \A g \in Inputs : g # f => at'[g] = at[g]
           /\ (key'[f] <=> (key[f] \/ ~begun)) /\ \A g \in Inputs : g # f => key'[g] = key[g]
           /\ UNCHANGED <<hpc, nextFrame, force>>
    BY <1>4, Leaving
  <2> QED
    BY <1>0, <2>1 DEF AskedInv
<1>5. CASE \E f \in Inputs : OutputFails(f)
  <2>1. PICK f \in Inputs :
           /\ at[f] = "held" /\ \A g \in Inputs : g # f => at'[g] = at[g]
           /\ UNCHANGED <<hpc, nextFrame, force, key>>
    BY <1>5, Failing
  <2> QED
    BY <1>0, <2>1 DEF AskedInv
<1>6. CASE \E f \in Inputs : TestPending(f)
  <2>1. PICK f \in Inputs :
           /\ at[f] = "sample" /\ \A g \in Inputs : g # f => at'[g] = at[g]
           /\ UNCHANGED <<hpc, nextFrame, force, key>>
    BY <1>6, Testing
  <2> QED
    BY <1>0, <2>1 DEF AskedInv
<1>7. CASE \E f \in Inputs : Moves(f)
  <2>1. PICK f \in Inputs :
           /\ at[f] # "absent" /\ \A g \in Inputs : g # f => at'[g] = at[g]
           /\ UNCHANGED <<hpc, nextFrame, force, key>>
    BY <1>7, Moving DEF Moves
  <2> QED
    BY <1>0, <2>1 DEF AskedInv
<1>8. CASE UNCHANGED vars
  BY <1>8 DEF vars, AskedInv
<1> QED
  BY <1>1, <1>2, <1>4, <1>5, <1>6, <1>7, <1>8, Cases

\* CostInv is preserved by every step.
LEMMA CostStep ==
    ASSUME TypeOK, ThreadsInv, PendingInv, CostInv, [Next]_vars
    PROVE  CostInv'
<1>0. Inputs \subseteq Nat /\ Blank \in Inputs /\ Blank \notin Frames /\ Blank \notin KeyAsked
  BY FrameNumbers
<1> SUFFICES ASSUME "race" \notin mishaps'
             PROVE  CostInv'
  BY DEF CostInv
<1> USE DEF Kept, Unasked, Made, InFlag, InHand, ToBeMade
<1>1. CASE Warmup \/ SubmitFrame
  <2>1. PICK f \in Inputs, b \in BOOLEAN :
              /\ at[f] = "absent" /\ at'[f] = "held"
              /\ \A g \in Inputs : g # f => at'[g] = at[g]
              /\ key'[f] = b /\ \A g \in Inputs : g # f => key'[g] = key[g]
              /\ \/ /\ f = Blank /\ b = FALSE /\ hpc = "configure" /\ hpc' = "waiting"
                    /\ warmupPending' = TRUE
                 \/ /\ f = nextFrame /\ b = force /\ hpc = "submit" /\ hpc' = "loop"
                    /\ warmupPending' = warmupPending
              /\ UNCHANGED <<mishaps, force, forceKeyframeNext, begun, wire>>
    BY <1>1, Entering
  <2>2. ~Sent(wire, f)
    BY <2>1 DEF ThreadsInv
  <2>3. CASE hpc = "configure" /\ hpc' = "waiting"
    <3>1. \A g \in Inputs : at[g] = "absent" /\ ~Sent(wire, g)
      BY <2>3 DEF ThreadsInv
    <3>2. ~forceKeyframeNext
      BY <2>3 DEF ThreadsInv
    <3> QED
      BY <2>1, <2>3, <3>1, <3>2 DEF CostInv
  <2>4. CASE hpc = "submit" /\ hpc' = "loop"
    <3>1. f = nextFrame /\ key'[f] = force /\ warmupPending' = warmupPending
      BY <2>1, <2>4
    <3>2. CASE force /\ f \notin KeyAsked
      <4>1. ~ToBeMade /\ ~InFlag /\ ~Made
        BY <2>1, <2>4, <3>1, <3>2 DEF CostInv
      <4>2. \A g \in Inputs : ~(at'[g] = "sample" /\ warmupPending')
        BY <3>1, <4>1
      <4>3. ~ToBeMade' /\ ~InFlag' /\ ~InHand'
        BY <2>1, <2>4, <3>1, <4>1
      <4>4. \A g \in Inputs : Kept(g)' /\ Unasked(g)' => g = f
        BY <2>1, <3>1, <4>1
      <4> QED
        BY <4>2, <4>3, <4>4 DEF CostInv
    <3>3. CASE ~(force /\ f \notin KeyAsked)
      <4>1. ~(key'[f] /\ f \notin KeyAsked)
        BY <3>1, <3>3
      <4>2. \A g \in Inputs : Kept(g)' /\ Unasked(g)' => Kept(g) /\ Unasked(g) /\ g # f
        BY <2>1, <3>1, <4>1
      <4>3. (ToBeMade' => ToBeMade) /\ (InFlag' => InFlag) /\ ~InHand' /\ (Made' => Made)
        BY <2>1, <2>4, <3>1, <4>2
      <4>4. \A g, h \in Inputs :
               at'[g] = "sample" /\ warmupPending' /\ Unasked(g)' /\ h < g =>
                  at'[h] \notin InCallback \cup {"held"}
        <5>1. ThreadsInv'
          BY ThreadsStep
        <5>2. \A g \in Inputs : at'[g] = "sample" => ~(f < g)
          BY <2>1, <5>1 DEF ThreadsInv
        <5> QED
          BY <2>1, <3>1, <5>2 DEF CostInv
      <4> QED
        BY <2>1, <4>2, <4>3, <4>4 DEF CostInv
    <3> QED
      BY <3>2, <3>3
  <2> QED
    BY <2>1, <2>3, <2>4
<1>2. CASE Waiting
  <2>1. /\ UNCHANGED <<at, key, wire, begun, forceKeyframeNext>>
        /\ hpc' \in {"configured", "loop"} /\ hpc \in {"configure", "waiting", "configured"}
        /\ warmupPending' = warmupPending \/ \A g \in Inputs : at[g] = "absent"
        /\ warmupPending' => warmupPending
        /\ mishaps \subseteq mishaps'
    BY <1>2, Handling DEF Waiting, WarmupSkipped, WarmupWaited, Acknowledge, ThreadsInv
  <2>2. (\A g \in Inputs : at[g] = "absent") => \A g \in Inputs : ~Sent(wire, g)
    BY DEF ThreadsInv
  <2> QED
    BY <2>1, <2>2 DEF CostInv
<1>3. CASE Reading
  <2>1. /\ UNCHANGED <<at, key, wire, begun, warmupPending, nextFrame>> /\ mishaps' = mishaps
    BY <1>3 DEF Reading, ReadForce, ClearForce, Flush, SendDone
  <2>2. CASE ReadForce
    <3>1. /\ hpc = "loop" /\ hpc' = "clear" /\ (force' <=> nextFrame \in KeyAsked \/ forceKeyframeNext)
          /\ forceKeyframeNext' = forceKeyframeNext
      BY <2>2 DEF ReadForce
    <3> QED
      BY <2>1, <3>1 DEF CostInv
  <2>3. CASE ClearForce
    <3>1. /\ hpc = "clear" /\ hpc' = "submit" /\ force' = force /\ forceKeyframeNext' = FALSE
      BY <2>3 DEF ClearForce
    <3> QED
      BY <2>1, <3>1 DEF CostInv
  <2>4. CASE Flush \/ SendDone
    <3>1. /\ hpc \in {"loop", "completing"} /\ hpc' \in {"completing", "done"}
          /\ forceKeyframeNext' = forceKeyframeNext
      BY <2>4 DEF Flush, SendDone
    <3> QED
      BY <2>1, <3>1 DEF CostInv
  <2> QED
    BY <1>3, <2>2, <2>3, <2>4 DEF Reading
<1>4. CASE \E f \in Inputs : Output(f)
  <2>1. PICK f \in Inputs :
           /\ at[f] = "held" /\ at'[f] = "sample" /\ \A g \in Inputs : at[g] = "held" => ~(g < f)
           /\ \A g \in Inputs : g # f => at'[g] = at[g]
           /\ (key'[f] <=> (key[f] \/ ~begun)) /\ \A g \in Inputs : g # f => key'[g] = key[g]
           /\ begun'
           /\ UNCHANGED <<mishaps, hpc, nextFrame, force, warmupPending, forceKeyframeNext, wire>>
    BY <1>4, Leaving
  <2>2. \A g \in Inputs : f < g => at[g] \in {"absent", "held"}
    BY <2>1 DEF ThreadsInv
  <2>3. ~Sent(wire, f) /\ hpc # "configure"
    BY <2>1 DEF ThreadsInv
  <2>4. CASE begun
    <3>1. key'[f] <=> key[f]
      BY <2>1, <2>4
    <3>2. \A g \in Inputs : Kept(g)' /\ Unasked(g)' => Kept(g) /\ Unasked(g)
      BY <2>1, <3>1
    <3>3. (ToBeMade' <=> ToBeMade) /\ (InFlag' <=> InFlag) /\ (InHand' <=> InHand) /\ (Made' => Made)
      BY <2>1, <2>4, <3>2
    <3>4. warmupPending => ~(Unasked(f)')
      BY <2>1, <3>1 DEF CostInv
    <3>5. \A g, h \in Inputs :
             at'[g] = "sample" /\ warmupPending' /\ Unasked(g)' /\ h < g =>
                at'[h] \notin InCallback \cup {"held"}
      BY <2>1, <2>2, <3>4 DEF CostInv
    <3> QED
      BY <2>1, <3>2, <3>3, <3>5 DEF CostInv
  <2>5. CASE ~begun
    <3>1. \A g \in Inputs : at[g] \notin InCallback /\ ~Sent(wire, g)
      BY <2>5 DEF ThreadsInv
    <3>2. ~InFlag /\ ~InHand /\ ~Made
      BY <2>1, <2>5 DEF CostInv
    <3>3. ~InFlag' /\ ~InHand'
      BY <2>1, <3>2
    <3>4. \A g \in Inputs : Kept(g)' /\ Unasked(g)' => g = f /\ ~warmupPending
      BY <2>1, <3>1, <3>2
    <3>5. ToBeMade' => warmupPending
      BY <2>1, <2>3, <3>1 DEF InCallback
    <3>6. \A g, h \in Inputs :
             at'[g] = "sample" /\ warmupPending' /\ Unasked(g)' /\ h < g =>
                at'[h] \notin InCallback \cup {"held"}
      BY <1>0, <2>1, <3>1 DEF InCallback
    <3> QED
      BY <3>3, <3>4, <3>5, <3>6 DEF CostInv
  <2> QED
    BY <2>4, <2>5
<1>5. CASE \E f \in Inputs : OutputFails(f)
  <2>1. PICK f \in Inputs :
           /\ at[f] = "held" /\ at'[f] = "over"
           /\ \A g \in Inputs : g # f => at'[g] = at[g]
           /\ mishaps \subseteq mishaps'
           /\ UNCHANGED <<hpc, nextFrame, force, warmupPending, forceKeyframeNext, begun, key, wire>>
    BY <1>5, Failing
  <2>2. \A g \in Inputs : Kept(g)' /\ Unasked(g)' => Kept(g) /\ Unasked(g)
    BY <2>1
  <2>3. (ToBeMade' <=> ToBeMade) /\ (InFlag' <=> InFlag) /\ (InHand' <=> InHand) /\ (Made' => Made)
    BY <2>1, <2>2
  <2>4. \A g, h \in Inputs :
           at'[g] = "sample" /\ warmupPending' /\ Unasked(g)' /\ h < g =>
              at'[h] \notin InCallback \cup {"held"}
    BY <2>1 DEF CostInv, InCallback
  <2> QED
    BY <2>1, <2>2, <2>3, <2>4 DEF CostInv
<1>6. CASE \E f \in Inputs : TestPending(f)
  <2>1. PICK f \in Inputs :
           /\ at[f] = "sample" /\ at'[f] = IF warmupPending THEN "clear" ELSE "send"
           /\ \A g \in Inputs : g # f => at'[g] = at[g]
           /\ mishaps \subseteq mishaps'
           /\ UNCHANGED <<hpc, nextFrame, force, warmupPending, forceKeyframeNext, begun, key, wire>>
    BY <1>6, Testing
  <2>2. \A g \in Inputs : Kept(g)' /\ Unasked(g)' => Kept(g) /\ Unasked(g)
    BY <2>1
  <2>3. (ToBeMade' <=> ToBeMade) /\ (InFlag' <=> InFlag) /\ (InHand' <=> InHand) /\ (Made' => Made)
    BY <2>1, <2>2
  <2>4. \A g, h \in Inputs :
           at'[g] = "sample" /\ warmupPending' /\ Unasked(g)' /\ h < g =>
              at'[h] \notin InCallback \cup {"held"}
    BY <2>1 DEF CostInv, InCallback
  <2> QED
    BY <2>1, <2>2, <2>3, <2>4 DEF CostInv
<1>7. CASE \E f \in Inputs : Moves(f)
  <2>1. PICK f \in Inputs : Moves(f)
    BY <1>7
  <2>2. /\ \A g \in Inputs : g # f => at'[g] = at[g]
        /\ \/ /\ at[f] = "clear" /\ at'[f] = "force" /\ warmupPending' = FALSE
              /\ UNCHANGED <<forceKeyframeNext, wire>>
           \/ /\ at[f] = "force" /\ at'[f] = "signal" /\ forceKeyframeNext' = TRUE
              /\ UNCHANGED <<warmupPending, wire>>
           \/ /\ at[f] = "signal" /\ at'[f] = "over"
              /\ UNCHANGED <<warmupPending, forceKeyframeNext, wire>>
           \/ /\ at[f] = "send" /\ at'[f] = "over" /\ wire' = Append(wire, f)
              /\ UNCHANGED <<warmupPending, forceKeyframeNext>>
        /\ UNCHANGED <<mishaps, hpc, nextFrame, force, begun, key>>
    BY <2>1, Moving DEF Moves
  <2>3. \A g \in Inputs : Sent(Append(wire, f), g) <=> Sent(wire, g) \/ g = f
    BY SentAppend DEF TypeOK
  <2>4. hpc # "configure" /\ begun /\ (at[f] # "over" => ~Sent(wire, f))
    BY <2>2 DEF ThreadsInv, InCallback
  <2>5. CASE at[f] = "clear" /\ at'[f] = "force" /\ warmupPending' = FALSE
             /\ UNCHANGED <<forceKeyframeNext, wire>>
    <3>1. warmupPending /\ ~InFlag /\ ~InHand /\ ~Made
      BY <2>2, <2>5 DEF PendingInv, CostInv
    <3>2. \A g \in Inputs : at[g] = "sample" => ~Unasked(g)
      <4>1. \A g \in Inputs : at[g] = "sample" => ~(g < f)
        BY <2>2, <2>5 DEF PendingInv
      <4>2. \A g \in Inputs : at[g] = "sample" /\ Unasked(g) => ~(f < g)
        BY <2>2, <2>5, <3>1 DEF CostInv, InCallback
      <4> QED
        BY <1>0, <2>5, <4>1, <4>2
    <3>3. \A g \in Inputs : ~(Kept(g)' /\ Unasked(g)')
      BY <2>2, <2>5, <3>1, <3>2
    <3>4. ~InFlag' /\ ~InHand'
      BY <2>2, <2>5, <3>1
    <3> QED
      BY <2>5, <3>3, <3>4 DEF CostInv
  <2>6. CASE at[f] = "force" /\ at'[f] = "signal" /\ forceKeyframeNext' = TRUE
             /\ UNCHANGED <<warmupPending, wire>>
    <3>1. ~InFlag /\ ~InHand /\ ~Made
      BY <2>2, <2>6 DEF CostInv
    <3>2. ~warmupPending /\ \A g \in Inputs : at[g] = "force" => g = f
      BY <2>2, <2>6 DEF PendingInv
    <3>3. \A g \in Inputs : ~(Kept(g)' /\ Unasked(g)')
      BY <2>2, <2>6, <3>1
    <3>4. ~InHand' /\ ~ToBeMade'
      BY <2>2, <2>4, <2>6, <3>1, <3>2
    <3> QED
      BY <2>6, <3>2, <3>3, <3>4 DEF CostInv
  <2>7. CASE \/ at[f] = "signal" /\ wire' = wire
             \/ at[f] = "send" /\ wire' = Append(wire, f)
    <3>1. at'[f] = "over" /\ UNCHANGED <<warmupPending, forceKeyframeNext>>
      BY <2>2, <2>7
    <3>2. \A g \in Inputs : Kept(g)' /\ Unasked(g)' => Kept(g) /\ Unasked(g)
      BY <2>2, <2>3, <2>4, <2>7, <3>1
    <3>3. (ToBeMade' <=> ToBeMade) /\ (InFlag' <=> InFlag) /\ (InHand' <=> InHand) /\ (Made' => Made)
      BY <2>2, <2>7, <3>1, <3>2
    <3>4. \A g, h \in Inputs :
             at'[g] = "sample" /\ warmupPending' /\ Unasked(g)' /\ h < g =>
                at'[h] \notin InCallback \cup {"held"}
      BY <2>2, <3>1 DEF CostInv, InCallback
    <3> QED
      BY <2>2, <3>2, <3>3, <3>4 DEF CostInv
  <2> QED
    BY <2>2, <2>5, <2>6, <2>7
<1>8. CASE UNCHANGED vars
  BY <1>8 DEF vars, CostInv
<1> QED
  BY <1>1, <1>2, <1>3, <1>4, <1>5, <1>6, <1>7, <1>8, Cases

\* WaitInv is preserved by every step.
LEMMA WaitStep ==
    ASSUME TypeOK, ThreadsInv, WaitInv, [Next]_vars
    PROVE  WaitInv'
<1>0. Blank \in Inputs /\ Inputs = {Blank} \cup Frames
  BY FrameNumbers
<1>1. hpc \in {"configure", "waiting"} =>
         \A f \in Inputs : f # Blank => at[f] = "absent"
  BY <1>0 DEF ThreadsInv, Frames
<1>2. hpc = "configure" => \A f \in Inputs : at[f] = "absent" /\ ~Sent(wire, f)
  BY DEF ThreadsInv
<1>3. CASE Warmup \/ SubmitFrame
  <2>1. PICK f \in Inputs :
              /\ at'[f] = "held"
              /\ \/ f = Blank /\ hpc = "configure" /\ hpc' = "waiting" /\ warmupPending' = TRUE
                 \/ hpc' = "loop"
              /\ UNCHANGED <<signals, wire>>
    BY <1>3, Entering
  <2> QED
    BY <1>0, <1>2, <2>1 DEF WaitInv
<1>4. CASE Waiting \/ Reading
  BY <1>4, Handling DEF WaitInv
<1>5. CASE \E f \in Inputs : Output(f)
  <2>1. PICK f \in Inputs :
           /\ at[f] = "held" /\ at'[f] = "sample"
           /\ UNCHANGED <<hpc, warmupPending, forceKeyframeNext, signals, extradata, wire>>
    BY <1>5, Leaving
  <2>2. hpc \in {"configure", "waiting"} => f = Blank /\ hpc = "waiting"
    BY <1>1, <1>2, <2>1
  <2> QED
    BY <2>1, <2>2 DEF WaitInv
<1>6. CASE \E f \in Inputs : OutputFails(f)
  <2>1. PICK f \in Inputs :
           /\ at[f] = "held" /\ at'[f] = "over"
           /\ UNCHANGED <<hpc, warmupPending, forceKeyframeNext, signals, extradata, wire>>
    BY <1>6, Failing
  <2>2. hpc \in {"configure", "waiting"} => f = Blank /\ hpc = "waiting"
    BY <1>1, <1>2, <2>1
  <2> QED
    BY <2>1, <2>2 DEF WaitInv
<1>7. CASE \E f \in Inputs : TestPending(f)
  <2>1. PICK f \in Inputs :
           /\ at[f] = "sample" /\ at'[f] = IF warmupPending THEN "clear" ELSE "send"
           /\ extradata'
           /\ UNCHANGED <<hpc, warmupPending, forceKeyframeNext, signals, wire>>
    BY <1>7, Testing
  <2>2. hpc \in {"configure", "waiting"} => f = Blank /\ hpc = "waiting"
    BY <1>1, <1>2, <2>1
  <2> QED
    BY <2>1, <2>2 DEF WaitInv
<1>8. CASE \E f \in Inputs : Moves(f)
  <2>1. PICK f \in Inputs :
        /\ \/ /\ at[f] = "clear" /\ at'[f] = "force" /\ warmupPending' = FALSE
              /\ UNCHANGED <<forceKeyframeNext, signals, wire>>
           \/ /\ at[f] = "force" /\ at'[f] = "signal" /\ forceKeyframeNext' = TRUE
              /\ UNCHANGED <<warmupPending, signals, wire>>
           \/ /\ at[f] = "signal" /\ at'[f] = "over" /\ signals' = signals + 1
              /\ UNCHANGED <<warmupPending, forceKeyframeNext, wire>>
           \/ at[f] = "send"
        /\ UNCHANGED <<hpc, extradata>>
    BY <1>8, Moving DEF Moves
  <2>2. hpc \in {"configure", "waiting"} => f = Blank /\ hpc = "waiting"
    BY <1>1, <1>2, <2>1
  <2>3. signals \in Nat
    BY DEF TypeOK
  <2> QED
    BY <2>1, <2>2, <2>3 DEF WaitInv
<1>9. CASE UNCHANGED vars
  BY <1>9 DEF vars, WaitInv
<1> QED
  BY <1>3, <1>4, <1>5, <1>6, <1>7, <1>8, <1>9, Cases

\* FirstInv is preserved by every step.
LEMMA FirstStep ==
    ASSUME TypeOK, ThreadsInv, WaitInv, FirstInv, [Next]_vars
    PROVE  FirstInv'
<1>0. Blank \in Inputs /\ Blank \notin Frames /\ Inputs = {Blank} \cup Frames /\ Inputs \subseteq Nat
      /\ Blank # 1 /\ NumFrames \in Nat
  BY FrameNumbers DEF Blank
<1> SUFFICES ASSUME mishaps' \subseteq {"nobuffer", "race"}, hpc' \notin {"configure", "waiting"}
             PROVE  FirstInv'
  BY DEF FirstInv
<1>1. CASE Warmup \/ SubmitFrame
  <2>1. /\ hpc = "submit" /\ hpc' = "loop" /\ nextFrame \in Frames
        /\ at'[nextFrame] = "held" /\ \A g \in Inputs : g # nextFrame => at'[g] = at[g]
        /\ key'[nextFrame] = force /\ \A g \in Inputs : g # nextFrame => key'[g] = key[g]
        /\ UNCHANGED <<mishaps, warmupPending, forceKeyframeNext, begun>>
    BY <1>1, Entering
  <2>2. 1 \in Inputs /\ at[1] = "absent" => nextFrame = 1
    BY <1>0 DEF ThreadsInv, Frames, TypeOK
  <2>3. nextFrame = 1 => at[1] = "absent"
    BY <2>1 DEF ThreadsInv, Frames
  <2>4. CASE nextFrame = 1
    BY <1>0, <2>1, <2>3, <2>4 DEF FirstInv
  <2>5. CASE nextFrame # 1
    BY <1>0, <2>1, <2>2, <2>5 DEF FirstInv
  <2> QED
    BY <2>4, <2>5
<1>2. CASE Waiting
  <2>1. UNCHANGED <<at, key, begun>>
    BY <1>2, Handling
  <2>2. CASE WarmupSkipped
    <3>1. /\ hpc = "configure" /\ hpc' = "configured" /\ ~warmupPending'
          /\ mishaps' = mishaps \cup {"nobuffer"}
      BY <2>2 DEF WarmupSkipped
    <3> QED
      BY <1>0, <2>1, <3>1 DEF ThreadsInv, FirstInv
  <2>3. CASE WarmupWaited
    <3>1. /\ hpc = "waiting" /\ hpc' = "configured" /\ signals > 0
          /\ UNCHANGED <<mishaps, warmupPending, forceKeyframeNext>>
      BY <2>3 DEF WarmupWaited
    <3>2. \A f \in Inputs : f # Blank => at[f] = "absent"
      BY <1>0, <3>1 DEF ThreadsInv, Frames
    <3> QED
      BY <1>0, <2>1, <3>1, <3>2 DEF ThreadsInv, WaitInv, FirstInv
  <2>4. CASE Acknowledge
    <3>1. /\ hpc = "configured" /\ hpc' = "loop"
          /\ UNCHANGED <<mishaps, warmupPending, forceKeyframeNext>>
      BY <2>4 DEF Acknowledge
    <3> QED
      BY <2>1, <3>1 DEF FirstInv
  <2> QED
    BY <1>2, <2>2, <2>3, <2>4 DEF Waiting
<1>3. CASE Reading
  <2>1. /\ UNCHANGED <<at, key, begun, warmupPending, mishaps>>
        /\ \/ hpc = "loop" /\ hpc' = "clear" /\ (forceKeyframeNext => force')
           \/ hpc = "clear" /\ hpc' = "submit" /\ force' = force
           \/ hpc \in {"loop", "completing"} /\ hpc' \in {"completing", "done"}
    BY <1>3 DEF Reading, ReadForce, ClearForce, Flush, SendDone
  <2> QED
    BY <2>1 DEF FirstInv
<1>4. CASE \E f \in Inputs : Output(f)
  <2>1. PICK f \in Inputs :
           /\ at[f] = "held" /\ at'[f] = "sample" /\ \A g \in Inputs : at[g] = "held" => ~(g < f)
           /\ \A g \in Inputs : g # f => at'[g] = at[g]
           /\ (key'[f] <=> (key[f] \/ ~begun)) /\ \A g \in Inputs : g # f => key'[g] = key[g]
           /\ UNCHANGED <<mishaps, hpc, force, warmupPending, forceKeyframeNext>>
    BY <1>4, Leaving
  <2>2. f # Blank
    BY <2>1 DEF FirstInv
  <2>3. ASSUME f # 1
        PROVE  1 \in Inputs /\ at[1] # "absent" /\ at[1] # "held"
    <3>1. f \in Nat /\ f > 1 /\ f \in Frames
      BY <1>0, <2>2, <2>3 DEF Frames
    <3>2. f < nextFrame /\ nextFrame \in Nat /\ nextFrame <= NumFrames + 1
      BY <2>1, <3>1 DEF ThreadsInv, TypeOK
    <3>3. 1 \in Frames /\ ~(1 >= nextFrame)
      BY <1>0, <3>1, <3>2 DEF Frames
    <3> QED
      BY <1>0, <2>1, <3>1, <3>3 DEF ThreadsInv
  <2>4. CASE f = 1
    BY <1>0, <2>1, <2>4 DEF FirstInv
  <2>5. CASE f # 1
    BY <1>0, <2>1, <2>2, <2>3, <2>5 DEF FirstInv
  <2> QED
    BY <2>4, <2>5
<1>5. CASE \E f \in Inputs : OutputFails(f)
  BY <1>5, Failing
<1>6. CASE \E f \in Inputs : TestPending(f)
  <2>1. PICK f \in Inputs :
           /\ at[f] = "sample" /\ at'[f] = IF warmupPending THEN "clear" ELSE "send"
           /\ \A g \in Inputs : g # f => at'[g] = at[g]
           /\ Races(f) \/ mishaps' = mishaps
           /\ mishaps \subseteq mishaps'
           /\ UNCHANGED <<hpc, force, warmupPending, forceKeyframeNext, key, begun>>
    BY <1>6, Testing
  <2>2. ~warmupPending /\ mishaps' = mishaps
    BY <2>1 DEF FirstInv, Races
  <2> QED
    BY <1>0, <2>1, <2>2 DEF FirstInv
<1>7. CASE \E f \in Inputs : Moves(f)
  <2>1. PICK f \in Inputs :
        /\ \A g \in Inputs : g # f => at'[g] = at[g]
        /\ \/ at[f] \in {"clear", "force", "signal"}
           \/ at[f] = "send" /\ at'[f] = "over" /\ UNCHANGED <<warmupPending, forceKeyframeNext>>
        /\ UNCHANGED <<mishaps, hpc, force, key, begun>>
    BY <1>7, Moving DEF Moves
  <2> QED
    BY <1>0, <2>1 DEF FirstInv
<1>8. CASE UNCHANGED vars
  BY <1>8 DEF vars, FirstInv
<1> QED
  BY <1>1, <1>2, <1>3, <1>4, <1>5, <1>6, <1>7, <1>8, Cases

\* AckInv is preserved by every step.
LEMMA AckStep ==
    ASSUME TypeOK, WaitInv, AckInv, [Next]_vars, ThreadsInv
    PROVE  AckInv'
<1>1. CASE Warmup \/ SubmitFrame
  <2>1. /\ hpc' = "waiting" \/ hpc = "submit"
        /\ UNCHANGED <<mishaps, extradata, acked>>
    BY <1>1, Entering
  <2> QED
    BY <2>1 DEF AckInv
<1>2. CASE Waiting
  BY <1>2 DEF Waiting, WarmupSkipped, WarmupWaited, Acknowledge, AckInv, WaitInv
<1>3. CASE Reading
  BY <1>3 DEF Reading, ReadForce, ClearForce, Flush, SendDone, AckInv
<1>4. CASE \E f \in Inputs : Output(f)
  BY <1>4, Leaving DEF AckInv
<1>5. CASE \E f \in Inputs : OutputFails(f)
  BY <1>5, Failing DEF AckInv
<1>6. CASE \E f \in Inputs : TestPending(f)
  BY <1>6, Testing DEF AckInv
<1>7. CASE \E f \in Inputs : Moves(f)
  BY <1>7, Moving DEF AckInv, Moves
<1>8. CASE UNCHANGED vars
  BY <1>8 DEF vars, AckInv
<1> QED
  BY <1>1, <1>2, <1>3, <1>4, <1>5, <1>6, <1>7, <1>8, Cases

\* RowInv is preserved by every step.
LEMMA RowStep ==
    ASSUME TypeOK, ThreadsInv, RowInv, [Next]_vars
    PROVE  RowInv'
<1>0. Blank \in Inputs /\ Blank \notin Frames /\ Inputs = {Blank} \cup Frames
      /\ \A f \in Frames : Blank < f
  BY FrameNumbers DEF Frames, Blank
<1> SUFFICES ASSUME mishaps' \subseteq {"nobuffer", "slow"}
             PROVE  RowInv'
  BY DEF RowInv
<1>1. CASE Warmup \/ SubmitFrame
  <2>1. PICK f \in Inputs :
              /\ at[f] = "absent" /\ at'[f] = "held"
              /\ \A g \in Inputs : g # f => at'[g] = at[g]
              /\ \/ f = Blank
                 \/ f \in Frames /\ warmupPending' = warmupPending
              /\ UNCHANGED <<mishaps, wire>>
    BY <1>1, Entering
  <2> QED
    BY <1>0, <2>1 DEF RowInv
<1>2. CASE Waiting \/ Reading
  <2>1. UNCHANGED <<at, wire>> /\ mishaps \subseteq mishaps' /\ (warmupPending' => warmupPending)
    BY <1>2, Handling
  <2> QED
    BY <2>1 DEF RowInv
<1>4. CASE \E f \in Inputs : Output(f)
  <2>1. PICK f \in Inputs :
           /\ at[f] = "held" /\ at'[f] = "sample"
           /\ \A g \in Inputs : g # f => at'[g] = at[g]
           /\ UNCHANGED <<mishaps, warmupPending, wire>>
    BY <1>4, Leaving
  <2> QED
    BY <1>0, <2>1 DEF RowInv
<1>5. CASE \E f \in Inputs : OutputFails(f)
  BY <1>5, Failing
<1>6. CASE \E f \in Inputs : TestPending(f)
  <2>1. PICK f \in Inputs :
           /\ at[f] = "sample" /\ at'[f] = IF warmupPending THEN "clear" ELSE "send"
           /\ \A g \in Inputs : g # f => at'[g] = at[g]
           /\ "race" \in mishaps' \/ (~Races(f) /\ mishaps' = mishaps)
           /\ UNCHANGED <<warmupPending, wire>>
    BY <1>6, Testing
  <2>2. ~Races(f) /\ mishaps' = mishaps
    BY <2>1
  <2>3. warmupPending => f = Blank
    <3>1. SUFFICES ASSUME warmupPending, f \in Frames
                   PROVE  FALSE
      BY <1>0
    <3>2. at[Blank] \in {"held", "sample", "clear"} /\ Blank < f
      BY <1>0, <2>2, <3>1 DEF RowInv
    <3>3. at[Blank] = "held" => at[f] \in {"absent", "held"}
      BY <1>0, <3>2 DEF ThreadsInv
    <3>4. at[Blank] \notin {"sample", "clear"}
      BY <1>0, <2>2, <3>1, <3>2 DEF Races
    <3> QED
      BY <2>1, <3>2, <3>3, <3>4
  <2> QED
    BY <1>0, <2>1, <2>2, <2>3 DEF RowInv
<1>7. CASE \E f \in Inputs : Moves(f)
  <2>1. PICK f \in Inputs : Moves(f)
    BY <1>7
  <2>2. /\ \A g \in Inputs : g # f => at'[g] = at[g]
        /\ \/ at[f] = "clear" /\ at'[f] = "force" /\ warmupPending' = FALSE /\ wire' = wire
           \/ at[f] \in {"force", "signal"} /\ UNCHANGED <<warmupPending, wire>>
           \/ at[f] = "send" /\ at'[f] = "over" /\ wire' = Append(wire, f)
              /\ warmupPending' = warmupPending
        /\ mishaps' = mishaps
    BY <2>1, Moving DEF Moves
  <2>3. \A g \in Inputs : Sent(Append(wire, f), g) <=> Sent(wire, g) \/ g = f
    BY SentAppend DEF TypeOK
  <2>4. f \in Frames => at[f] = "send"
    BY <2>2 DEF RowInv
  <2> QED
    BY <1>0, <2>2, <2>3, <2>4 DEF RowInv
<1>8. CASE UNCHANGED vars
  BY <1>8 DEF vars, RowInv
<1> QED
  BY <1>1, <1>2, <1>4, <1>5, <1>6, <1>7, <1>8, Cases

-------------------------------------------------------------------------------
(***************************************************************************)
(* The theorems.                                                           *)
(***************************************************************************)

\* What the threads know of each other, and where the blank frame, the key frame
\* it costs and the client's frames are.
WarmupInv ==
    /\ TypeOK /\ ThreadsInv /\ PendingInv /\ BlankInv /\ AskedInv /\ CostInv
    /\ WaitInv /\ FirstInv /\ AckInv /\ RowInv

\* Nothing is encoded before CONFIGURE.
LEMMA WarmupInit == Init => WarmupInv
<1> SUFFICES ASSUME Init
             PROVE  WarmupInv
  OBVIOUS
<1>1. /\ \A f \in Inputs : at[f] = "absent" /\ ~Sent(wire, f)
      /\ at \in [Inputs -> Places] /\ key \in [Inputs -> BOOLEAN] /\ wire = <<>>
  BY DEF Init, Sent, Places
<1>2. /\ hpc = "configure" /\ nextFrame = 1 /\ ~warmupPending /\ ~forceKeyframeNext /\ signals = 0
      /\ ~begun /\ mishaps = {} /\ acked = "none"
  BY DEF Init
<1>3. {force, warmupPending, forceKeyframeNext, extradata, begun} \subseteq BOOLEAN
  BY Zenon DEF Init
<1>4. 1 \in 1 .. NumFrames + 1 /\ NumFrames \in Nat /\ Blank \in Inputs
  BY FrameNumbers
<1>5. wire \in Seq(Inputs)
  BY <1>1
<1>6. TypeOK
  BY <1>1, <1>2, <1>3, <1>4, <1>5 DEF TypeOK
<1>7. ThreadsInv
  <2>1. \A f \in Frames : at[f] = "absent" <=> f >= nextFrame
    BY <1>1, <1>2, FrameNumbers DEF Frames
  <2> QED
    BY <1>1, <1>2, <2>1 DEF ThreadsInv, InCallback
<1>8. PendingInv /\ BlankInv /\ AskedInv
  BY <1>1, <1>2, <1>4, FrameNumbers DEF PendingInv, BlankInv, AskedInv
<1>9. CostInv
  BY <1>1, <1>2 DEF CostInv, ToBeMade, InFlag, InHand, Made, Kept
<1>10. WaitInv /\ FirstInv /\ AckInv /\ RowInv
  BY <1>1, <1>2, FrameNumbers DEF WaitInv, FirstInv, AckInv, RowInv
<1> QED
  BY <1>6, <1>7, <1>8, <1>9, <1>10 DEF WarmupInv

\* The invariant of the warm-up, whatever fails and however callbacks overlap.
THEOREM WarmupInvariant == Spec => []WarmupInv
<1>1. ASSUME WarmupInv, [Next]_vars
      PROVE  WarmupInv'
  BY <1>1, TypeStep, ThreadsStep, PendingStep, BlankStep, AskedStep, CostStep, WaitStep, FirstStep,
     AckStep, RowStep DEF WarmupInv
<1> QED
  BY <1>1, WarmupInit, PTL DEF Spec

\* The blank frame's sample never becomes a packet, even when it comes after the
\* handler has given up waiting and has submitted frames, unless the callback of one
\* of these has overtaken its own at the test of warmupPending.
THEOREM BlankIsNeverSent == Spec => []BlankNeverSent
<1>1. WarmupInv => BlankNeverSent
  BY FrameNumbers DEF WarmupInv, BlankInv, BlankNeverSent, Sent
<1> QED
  BY <1>1, WarmupInvariant, PTL

\* The flag that callbacks set and the handler reads and clears, without a lock,
\* never takes away a key frame that the client asked for; and unless callbacks have
\* raced on warmupPending it is not spent twice: one more key frame at most.
THEOREM OneKeyFrameExtra == Spec => []KeysAskedPlusOne
<1>1. ASSUME WarmupInv
      PROVE  KeysAskedPlusOne
  <2> DEFINE extra == {i \in DOMAIN wire : key[wire[i]] /\ wire[i] \notin KeyAsked}
  <2>1. \A i \in DOMAIN wire : wire[i] \in Inputs /\ Sent(wire, wire[i])
    BY <1>1 DEF WarmupInv, TypeOK, Sent
  <2>2. \A i \in DOMAIN wire : wire[i] \in KeyAsked => key[wire[i]]
    BY <1>1, <2>1 DEF WarmupInv, ThreadsInv, AskedInv
  <2>3. "race" \notin mishaps => Cardinality(extra) <= 1
    <3>1. SUFFICES ASSUME "race" \notin mishaps
                   PROVE  Cardinality(extra) <= 1
      OBVIOUS
    <3>2. \A i, j \in extra : i = j
      BY <1>1, <2>1, <3>1 DEF WarmupInv, ThreadsInv, CostInv, Unasked, Kept
    <3> HIDE DEF extra
    <3>3. CASE extra = {}
      BY <3>3, FS_EmptySet
    <3>4. CASE extra # {}
      <4>1. PICK i : i \in extra
        BY <3>4
      <4>2. extra = {i}
        BY <3>2, <4>1
      <4> QED
        BY <4>2, FS_Singleton
    <3> QED
      BY <3>3, <3>4
  <2> QED
    BY <2>2, <2>3 DEF KeysAskedPlusOne
<1> QED
  BY <1>1, WarmupInvariant, PTL

\* The first frame is a key frame although the encoder's own first key frame has
\* been thrown away, unless the wait gave up or a frame failed; and without that no
\* callbacks race on warmupPending.
THEOREM FirstPacketDecodes == Spec => []DecodableFromStart
<1>1. ASSUME WarmupInv
      PROVE  DecodableFromStart
  <2>1. ASSUME mishaps \subseteq {"nobuffer", "race"}
        PROVE  (\A i \in DOMAIN wire : wire[i] = 1 => key[1]) /\ "race" \notin mishaps
    <3>1. CASE hpc \in {"configure", "waiting"}
      <4>1. \A i \in DOMAIN wire : wire[i] # 1
        <5>1. \A i \in DOMAIN wire : wire[i] \in Inputs /\ Sent(wire, wire[i])
          BY <1>1 DEF WarmupInv, TypeOK, Sent
        <5>2. 1 \in Inputs => at[1] = "absent"
          BY <1>1, <3>1 DEF WarmupInv, ThreadsInv, Inputs, Frames
        <5> QED
          BY <1>1, <5>1, <5>2 DEF WarmupInv, ThreadsInv
      <4> QED
        BY <1>1, <3>1, <4>1 DEF WarmupInv, ThreadsInv
    <3>2. CASE hpc \notin {"configure", "waiting"}
      <4>1. ASSUME NEW i \in DOMAIN wire, wire[i] = 1
            PROVE  key[1]
        <5>1. 1 \in Inputs /\ Sent(wire, 1)
          BY <1>1, <4>1 DEF WarmupInv, TypeOK, Sent
        <5>2. at[1] = "over"
          BY <1>1, <5>1 DEF WarmupInv, ThreadsInv
        <5> QED
          BY <1>1, <2>1, <3>2, <5>1, <5>2 DEF WarmupInv, FirstInv
      <4> QED
        BY <1>1, <2>1, <3>2, <4>1 DEF WarmupInv, FirstInv
    <3> QED
      BY <3>1, <3>2
  <2> QED
    BY <1>1, <2>1 DEF WarmupInv, AckInv, DecodableFromStart
<1> QED
  BY <1>1, WarmupInvariant, PTL

\* By DONE every frame has one packet, unless a frame failed or callbacks raced on
\* warmupPending: what the warm-up throws away is the blank frame, however late it is.
THEOREM EveryFrameIsSent == Spec => []EveryFrameHasPacket
<1>1. ASSUME WarmupInv
      PROVE  EveryFrameHasPacket
  <2>1. SUFFICES ASSUME hpc = "done", mishaps \subseteq {"nobuffer", "slow"}
                 PROVE  /\ {wire[i] : i \in DOMAIN wire} = 1 .. nextFrame - 1
                        /\ \A i, j \in DOMAIN wire : wire[i] = wire[j] => i = j
    BY DEF EveryFrameHasPacket
  <2>2. \A f \in Frames : f < nextFrame => Sent(wire, f)
    <3>1. \A f \in Inputs : at[f] \in {"absent", "over"}
      BY <1>1, <2>1 DEF WarmupInv, ThreadsInv
    <3>2. \A f \in Frames : at[f] = "absent" <=> f >= nextFrame
      BY <1>1 DEF WarmupInv, ThreadsInv
    <3>3. \A f \in Frames : at[f] = "over" => Sent(wire, f)
      BY <1>1, <2>1 DEF WarmupInv, RowInv
    <3>4. Frames \subseteq Inputs /\ Inputs \subseteq Nat /\ nextFrame \in Nat
      BY <1>1, FrameNumbers DEF WarmupInv, TypeOK
    <3> QED
      BY <3>1, <3>2, <3>3, <3>4
  <2>3. \A i \in DOMAIN wire : wire[i] \in Frames /\ wire[i] < nextFrame
    <3>1. \A i \in DOMAIN wire : wire[i] \in Inputs /\ Sent(wire, wire[i])
      BY <1>1 DEF WarmupInv, TypeOK, Sent
    <3>2. \A f \in Inputs : Sent(wire, f) => at[f] = "over" /\ f # Blank
      BY <1>1, <2>1 DEF WarmupInv, ThreadsInv, BlankInv
    <3>3. \A f \in Frames : at[f] = "over" => ~(f >= nextFrame)
      BY <1>1 DEF WarmupInv, ThreadsInv
    <3>4. Inputs = {Blank} \cup Frames /\ Inputs \subseteq Nat /\ nextFrame \in Nat
      BY <1>1, FrameNumbers DEF WarmupInv, TypeOK
    <3> QED
      BY <3>1, <3>2, <3>3, <3>4
  <2>4. \A f : f \in 1 .. nextFrame - 1 <=> f \in Frames /\ f < nextFrame
    <3>1. nextFrame \in 1 .. NumFrames + 1 /\ NumFrames \in Nat
      BY <1>1, FrameNumbers DEF WarmupInv, TypeOK
    <3> QED
      BY ONLY <3>1 DEF Frames
  <2>5. {wire[i] : i \in DOMAIN wire} = 1 .. nextFrame - 1
    BY ONLY <2>2, <2>3, <2>4 DEF Sent
  <2> QED
    BY <1>1, <2>5 DEF WarmupInv, ThreadsInv
<1> QED
  BY <1>1, WarmupInvariant, PTL
===============================================================================
