----------------------------- MODULE LatencyProofs -----------------------------
(***************************************************************************)
(* What the ring of latencies keeps without its lock, for every capacity,  *)
(* every number of frames and of callbacks at the same time.               *)
(*                                                                         *)
(* The three results stand on what each kind of race would have to be: the *)
(* ring is a queue while operations come one at a time; its entries are no *)
(* later than their places even when growing has scrambled it; and the     *)
(* count stays non-negative until two callbacks overlap.                   *)
(***************************************************************************)
EXTENDS LatencyTracker, SequenceTheorems, TLAPS

-------------------------------------------------------------------------------
(***************************************************************************)
(* The invariant.                                                          *)
(***************************************************************************)
Steps ==
    {Idle} \cup [step : {"read"}, size : Nat]
           \cup [step : {"load"}, start : Nat]
           \cup [step : {"head"}, start : Nat, head : Nat]
           \cup [step : {"count"}, start : Nat, count : Int]

TypeInv ==
    /\ times \in Seq(Nat) /\ Len(times) > 0
    /\ head \in Nat /\ head < Len(times)
    /\ count \in Int
    /\ submitted \in 0 .. NumFrames
    /\ reader \in {"idle", "write", "count"}
    /\ loaded \in Int
    /\ held \subseteq Frames
    /\ output \in [Frames -> Steps]
    /\ crash \in {"none", "index", "freed"}
    /\ fifo \in Seq(Nat)
    /\ starts \in [Frames -> Nat]
    /\ flaws \subseteq Flaws
    /\ reader # "idle" => submitted < NumFrames

AtStep(f, step) == output[f].step = step

\* The head has moved on, and the count not yet.
Taken == \E f \in Frames : AtStep(f, "count")

Alone == /\ \A f, g \in Busy : f = g
         /\ reader # "idle" => Busy = {}

\* One operation at a time: what it has loaded is what is there.
SoloInv ==
    "raced" \notin flaws =>
        /\ Alone
        /\ 0 <= count /\ count <= Len(times) /\ count <= submitted
        /\ reader # "idle" => count < Len(times)
        /\ reader = "count" => loaded = count
        /\ \A f \in Frames :
              /\ ~AtStep(f, "idle") => count > 0
              /\ AtStep(f, "head") => output[f].head = head
              /\ AtStep(f, "count") => output[f].count = count

\* Place k after place h, both counted from zero, in a ring of n entries.
Slot(h, k, n) == (h + k) % n

\* Entry i of the ring, from its head.
At(t, h, i) == t[Slot(h, i - 1, Len(t)) + 1]
Entry(i) == At(times, head, i)

\* Then the ring is the queue, and what is being written its next entry.
QueueInv ==
    Without({"raced", "scrambled"}) =>
        /\ Len(fifo) = count
        /\ ~Taken => \A i \in 1 .. count : Entry(i) = fifo[i]
        /\ Taken => \A i \in 1 .. count - 1 : Entry(i) = fifo[i + 1]
        /\ reader = "count" => Entry(count + 1) = submitted + 1

\* Frames before the one at the head have left the ring.
Left == submitted - count

\* Scrambled or not, no entry is later than its place, and no callback to come
\* is that of a frame before the head's.
AgeInv ==
    Without({"raced", "disorder"}) =>
        /\ ~Taken => \A i \in 1 .. count : Entry(i) <= Left + i
        /\ Taken => \A i \in 1 .. count - 1 : Entry(i) <= Left + i + 1
        /\ reader = "count" => Entry(count + 1) <= submitted + 1
        /\ \A f \in held : Left < f /\ (Taken => Left + 1 < f)
        /\ \A f \in Frames :
              /\ AtStep(f, "read") => Left < f
              /\ AtStep(f, "load") \/ AtStep(f, "head") => Left < f
              /\ AtStep(f, "read") \/ AtStep(f, "load") \/ AtStep(f, "head") =>
                    \A g \in held : f < g
              /\ AtStep(f, "load") \/ AtStep(f, "head") \/ AtStep(f, "count") =>
                    output[f].start <= f
              /\ starts[f] <= f

\* A load from a ring that has grown meanwhile, and a count that two callbacks
\* have decremented for one entry.
CrashInv ==
    /\ CrashExplained
    /\ \A f \in Frames : AtStep(f, "read") /\ output[f].size # Len(times) => "grown" \in flaws
    /\ "overlapped" \notin flaws =>
          /\ \A f, g \in Busy : f = g
          /\ count >= 0
          /\ reader = "count" => loaded >= 0
          /\ \A f \in Frames :
                /\ AtStep(f, "read") \/ AtStep(f, "load") \/ AtStep(f, "head") => count > 0
                /\ AtStep(f, "count") => output[f].count > 0

LatencyInv == TypeInv /\ SoloInv /\ QueueInv /\ AgeInv /\ CrashInv

-------------------------------------------------------------------------------
(***************************************************************************)
(* Places of the ring.                                                     *)
(***************************************************************************)

\* A walk once round the ring visits every place once, and a step of the head
\* is a step of the walk.
LEMMA SlotRules ==
    ASSUME NEW n \in Nat, n > 0, NEW h \in Nat, h < n
    PROVE  /\ \A k \in 0 .. n : Slot(h, k, n) \in 0 .. n - 1
           /\ \A k \in 0 .. n - 1 : h + k < n => Slot(h, k, n) = h + k
           /\ \A j, k \in 0 .. n - 1 : j # k => Slot(h, j, n) # Slot(h, k, n)
           /\ \A k \in 0 .. n - 1 : Slot(Slot(h, 1, n), k, n) = Slot(h, k + 1, n)
<1>1. ASSUME NEW a \in Nat, a < n
      PROVE  a % n = a
  BY <1>1, SMT
<1>2. ASSUME NEW a \in Nat, n <= a, a < 2 * n
      PROVE  a % n = a - n
  BY <1>2, SMT
<1>3. ASSUME NEW k \in 0 .. n
      PROVE  Slot(h, k, n) = IF h + k < n THEN h + k ELSE h + k - n
  BY <1>1, <1>2, <1>3 DEF Slot
<1>4. ASSUME NEW k \in 0 .. n - 1
      PROVE  Slot(Slot(h, 1, n), k, n) = Slot(h, k + 1, n)
  <2>1. Slot(h, 1, n) = IF h + 1 < n THEN h + 1 ELSE 0
    BY <1>3
  <2>2. CASE h + 1 < n
    BY <2>1, <2>2 DEF Slot
  <2>3. CASE h + 1 = n
    <3>1. Slot(0, k, n) = k
      BY <1>1 DEF Slot
    <3>2. Slot(h, k + 1, n) = k
      BY <1>3, <2>3
    <3> QED BY <2>1, <2>3, <3>1, <3>2
  <2> QED BY <2>2, <2>3
<1>5. \A k \in 0 .. n : Slot(h, k, n) \in 0 .. n - 1
  BY <1>3
<1>6. \A k \in 0 .. n - 1 : h + k < n => Slot(h, k, n) = h + k
  BY <1>3
<1>7. \A j, k \in 0 .. n - 1 : j # k => Slot(h, j, n) # Slot(h, k, n)
  BY <1>3
<1> QED BY <1>4, <1>5, <1>6, <1>7

-------------------------------------------------------------------------------
(***************************************************************************)
(* Types.                                                                  *)
(***************************************************************************)

\* What each step of an output has loaded.
LEMMA StepTypes ==
    ASSUME NEW s \in Steps
    PROVE  /\ s.step \in {"idle", "read", "load", "head", "count"}
           /\ s = Idle <=> s.step = "idle"
           /\ s.step = "read" => s.size \in Nat
           /\ s.step = "load" => s.start \in Nat
           /\ s.step = "head" => s.start \in Nat /\ s.head \in Nat
           /\ s.step = "count" => s.start \in Nat /\ s.count \in Int
BY DEF Steps, Idle

LEMMA OutputTypes ==
    ASSUME TypeInv, NEW f \in Frames
    PROVE  /\ output[f].step \in {"idle", "read", "load", "head", "count"}
           /\ f \in Busy <=> ~AtStep(f, "idle")
           /\ AtStep(f, "read") => output[f].size \in Nat
           /\ AtStep(f, "load") => output[f].start \in Nat
           /\ AtStep(f, "head") => output[f].start \in Nat /\ output[f].head \in Nat
           /\ AtStep(f, "count") => output[f].start \in Nat /\ output[f].count \in Int
<1>1. output[f] \in Steps
  BY DEF TypeInv
<1> QED BY <1>1, StepTypes DEF Busy, AtStep

\* A ring that has grown is its old entries and as many zeros.
LEMMA Growing ==
    ASSUME NEW t \in Seq(Nat)
    PROVE  LET g == t \o [i \in 1 .. Len(t) |-> 0] IN
           /\ g \in Seq(Nat)
           /\ Len(g) = 2 * Len(t)
           /\ \A i \in 1 .. Len(t) : g[i] = t[i]
           /\ \A i \in Len(t) + 1 .. 2 * Len(t) : g[i] = 0
<1> DEFINE z == [i \in 1 .. Len(t) |-> 0]
<1>1. Len(t) \in Nat
  OBVIOUS
<1>2. z \in Seq(Nat) /\ Len(z) = Len(t)
  BY <1>1
<1>3. \A i \in 1 .. Len(t) : z[i] = 0
  OBVIOUS
<1> HIDE DEF z
<1>4. t \o z \in Seq(Nat) /\ Len(t \o z) = Len(t) + Len(z)
  BY <1>2
<1>5. \A i \in 1 .. Len(t) : (t \o z)[i] = t[i]
  BY <1>2
<1>6. \A i \in Len(t) + 1 .. Len(t) + Len(z) : (t \o z)[i] = z[i - Len(t)]
  BY <1>2
<1>7. \A i \in Len(t) + 1 .. 2 * Len(t) : (t \o z)[i] = 0
  <2> SUFFICES ASSUME NEW i \in Len(t) + 1 .. 2 * Len(t)
               PROVE  (t \o z)[i] = 0
    OBVIOUS
  <2>1. i \in Len(t) + 1 .. Len(t) + Len(z) /\ i - Len(t) \in 1 .. Len(t)
    BY <1>1, <1>2
  <2> QED BY <1>3, <1>6, <2>1
<1>8. Len(t \o z) = 2 * Len(t)
  BY <1>1, <1>2, <1>4
<1>9. t \o z = t \o [i \in 1 .. Len(t) |-> 0]
  BY DEF z
<1> QED BY <1>4, <1>5, <1>7, <1>8, <1>9

\* A step of the callback of frame f leaves the outputs of the others alone.
LEMMA OutputEffect ==
    ASSUME TypeInv, NEW f \in Frames, NEW r,
           output' = [output EXCEPT ![f] = r]
    PROVE  /\ output'[f] = r
           /\ \A g \in Frames : g # f => output'[g] = output[g]
BY DEF TypeInv

LEMMA TypeInit == Init => TypeInv
<1> SUFFICES ASSUME Init PROVE TypeInv
  OBVIOUS
<1> USE LatencyAssumption
<1>1. times \in Seq(Nat) /\ Len(times) = InitialCapacity
  BY DEF Init
<1>2. output \in [Frames -> Steps] /\ starts \in [Frames -> Nat]
  BY DEF Init, Steps
<1> QED BY <1>1, <1>2 DEF Init, TypeInv

\* The places that operations write to are in the ring.
LEMMA TypeStep == TypeInv /\ [Next]_vars => TypeInv'
<1> SUFFICES ASSUME TypeInv, [Next]_vars
             PROVE  TypeInv'
  OBVIOUS
<1> USE LatencyAssumption
<1>0. /\ Len(times) \in Nat
      /\ head \in Nat
      /\ submitted \in Nat
  BY DEF TypeInv
<1>1. CASE Submit
  <2>1. CASE Full
    <3>1. times' = times \o [i \in 1 .. Len(times) |-> 0]
      BY <1>1, <2>1 DEF Submit, Capacity
    <3>2. times' \in Seq(Nat) /\ Len(times') = 2 * Len(times)
      BY <3>1, Growing DEF TypeInv
    <3>3. Len(times') > 0 /\ head' < Len(times')
      <4>1. head' = head /\ head < Len(times)
        BY <1>1 DEF Submit, TypeInv
      <4> QED BY <1>0, <3>2, <4>1
    <3>4. flaws' \subseteq Flaws
      BY <1>1 DEF Submit, TypeInv, Flaws, Seen
    <3> QED BY <1>1, <3>2, <3>3, <3>4 DEF Submit, TypeInv
  <2>2. CASE ~Full
    BY <1>1, <2>2 DEF Submit, TypeInv, Flaws, Seen
  <2> QED BY <2>1, <2>2
<1>2. CASE Write
  <2>1. PICK k : k = ((head + count) % Len(times)) + 1
    OBVIOUS
  <2>2. head + count \in Nat
    BY <1>2 DEF Write, TypeInv
  <2>3. (head + count) % Len(times) \in 0 .. Len(times) - 1
    BY <1>0, <2>2, SMT DEF TypeInv
  <2>4. k \in 1 .. Len(times)
    BY <1>0, <2>1, <2>3
  <2>5. times' = [times EXCEPT ![k] = submitted + 1]
    BY <1>2, <2>1 DEF Write, Capacity
  <2>6. times' \in Seq(Nat) /\ Len(times') = Len(times)
    BY <1>0, <2>4, <2>5 DEF TypeInv
  <2> QED BY <1>2, <2>6 DEF Write, TypeInv
<1>3. CASE WriteTraps
  BY <1>3 DEF WriteTraps, TypeInv
<1>4. CASE Count
  <2>1. submitted' \in 1 .. NumFrames /\ submitted' \in Nat
    BY <1>0, <1>4 DEF Count, TypeInv
  <2>2. fifo' \in Seq(Nat) /\ held' \subseteq Frames
    BY <1>4, <2>1 DEF Count, TypeInv, Frames
  <2> QED BY <1>4, <2>1, <2>2 DEF Count, TypeInv
<1>5. ASSUME NEW f \in Frames, Begin(f)
      PROVE  TypeInv'
  <2>1. output' \in [Frames -> Steps]
    <3>1. [step |-> "read", size |-> Len(times)] \in Steps
      BY <1>0 DEF Steps
    <3> QED BY <1>5, <3>1 DEF Begin, Capacity, TypeInv
  <2>2. flaws' \subseteq Flaws
    BY <1>5 DEF Begin, TypeInv, Flaws, Seen
  <2>3. held' \subseteq Frames
    BY <1>5 DEF Begin, TypeInv
  <2> QED BY <1>5, <2>1, <2>2, <2>3 DEF Begin, TypeInv
<1>6. ASSUME NEW f \in Frames, Read(f)
      PROVE  TypeInv'
  <2>1. head + 1 \in 1 .. Len(times)
    BY <1>0 DEF TypeInv
  <2>2. times[head + 1] \in Nat
    BY <2>1 DEF TypeInv
  <2>3. [step |-> "load", start |-> times[head + 1]] \in Steps
    BY <1>0, <2>2 DEF Steps
  <2>4. output' \in [Frames -> Steps]
    BY <1>6, <2>3 DEF Read, TypeInv
  <2>5. crash' \in {"none", "index", "freed"}
    BY <1>6 DEF Read, Seen
  <2> QED BY <1>6, <2>4, <2>5 DEF Read, TypeInv
<1>11. ASSUME NEW f \in Frames, Load(f)
      PROVE  TypeInv'
  <2>1. output[f].start \in Nat
    BY <1>11, OutputTypes DEF Load, AtStep
  <2>2. [step |-> "head", start |-> output[f].start, head |-> head] \in Steps
    BY <1>0, <2>1 DEF Steps, TypeInv
  <2>3. output' \in [Frames -> Steps]
    BY <1>11, <2>2 DEF Load, TypeInv
  <2> QED BY <1>11, <2>3 DEF Load, TypeInv
<1>7. ASSUME NEW f \in Frames, Advance(f)
      PROVE  TypeInv'
  <2>1. output[f].start \in Nat /\ output[f].head \in Nat
    BY <1>7, OutputTypes DEF Advance, AtStep
  <2>2. [step |-> "count", start |-> output[f].start, count |-> count] \in Steps
    BY <2>1 DEF Steps, TypeInv
  <2>3. output' \in [Frames -> Steps]
    BY <1>7, <2>2 DEF Advance, TypeInv
  <2>4. head' = (output[f].head + 1) % Len(times)
    BY <1>7 DEF Advance, Advanced, Capacity
  <2>5. head' \in Nat /\ head' < Len(times)
    <3>1. \A a, n \in Nat : n > 0 => (a + 1) % n \in 0 .. n - 1
      BY SMT
    <3> QED BY <1>0, <2>1, <2>4, <3>1 DEF TypeInv
  <2> QED BY <1>7, <2>3, <2>5 DEF Advance, TypeInv
<1>8. ASSUME NEW f \in Frames, Finish(f)
      PROVE  TypeInv'
  <2>1. output[f].start \in Nat /\ output[f].count \in Int
    BY <1>8, OutputTypes DEF Finish, AtStep
  <2>2. output' \in [Frames -> Steps] /\ starts' \in [Frames -> Nat]
    BY <1>8, <2>1 DEF Finish, TypeInv, Steps
  <2>3. fifo' \in Seq(Nat)
    <3>1. fifo # <<>> => Tail(fifo) \in Seq(Nat)
      BY DEF TypeInv
    <3> QED BY <1>8, <3>1 DEF Finish, TypeInv
  <2>4. count' \in Int
    BY <1>8, <2>1 DEF Finish
  <2> QED BY <1>8, <2>2, <2>3, <2>4 DEF Finish, TypeInv
<1>9. ASSUME NEW f \in Frames, NoPacket(f)
      PROVE  TypeInv'
  BY <1>9 DEF NoPacket, TypeInv
<1>10. CASE UNCHANGED vars
  BY <1>10 DEF vars, TypeInv
<1> QED BY <1>1, <1>2, <1>3, <1>4, <1>5, <1>6, <1>7, <1>8, <1>9, <1>10, <1>11
        DEF Next, Step, Terminated

\* Every variable keeps its type, however the operations interleave; the head
\* stays inside the ring, even when two callbacks have moved it.
THEOREM LatencyTypes == Spec => []TypeInv
<1>1. TypeInv /\ [Next]_vars => TypeInv'
  BY TypeStep
<1> QED BY <1>1, TypeInit, PTL DEF Spec

-------------------------------------------------------------------------------
(***************************************************************************)
(* Crashes.                                                                *)
(***************************************************************************)
LEMMA CrashInit == Init => CrashInv
<1> SUFFICES ASSUME Init PROVE CrashInv
  OBVIOUS
<1>1. Busy = {}
  BY DEF Init, Busy
<1>2. \A f \in Frames : output[f].step = "idle"
  BY DEF Init, Idle
<1> QED BY <1>1, <1>2 DEF Init, CrashInv, CrashExplained, AtStep

\* An index is negative only with a count below zero, and a count is decremented
\* for no entry only by the second of two callbacks.
LEMMA CrashStep == TypeInv /\ TypeInv' /\ CrashInv /\ [Next]_vars => CrashInv'
<1> SUFFICES ASSUME TypeInv, TypeInv', CrashInv, [Next]_vars
             PROVE  CrashInv'
  OBVIOUS
<1>0. \A g \in Frames : /\ output[g].step \in {"idle", "read", "load", "head", "count"}
                        /\ g \in Busy <=> ~AtStep(g, "idle")
                        /\ AtStep(g, "count") => output[g].count \in Int
  BY OutputTypes
<1>b. Busy \subseteq Frames /\ Busy' \subseteq Frames
  BY DEF Busy
<1>p. \A g \in Frames : g \in Busy' <=> output'[g].step # "idle"
  <2>1. \A g \in Frames : output'[g] \in Steps
    BY DEF TypeInv
  <2> QED BY <2>1, StepTypes DEF Busy
<1>t. head \in Nat /\ count \in Int /\ loaded \in Int
  BY DEF TypeInv
<1>1. CASE Submit
  <2>1. \A g \in Frames : AtStep(g, "read") /\ output[g].size # Len(times')
                            => "grown" \in flaws'
    <3> SUFFICES ASSUME NEW g \in Frames, AtStep(g, "read"), output[g].size # Len(times')
                 PROVE  "grown" \in flaws'
      OBVIOUS
    <3>1. CASE Full
      <4>1. g \in Busy
        BY <1>0 DEF AtStep
      <4> QED BY <1>1, <3>1, <4>1 DEF Submit, Seen
    <3>2. CASE ~Full
      BY <1>1, <3>2 DEF Submit, CrashInv
    <3> QED BY <3>1, <3>2
  <2>2. flaws \subseteq flaws' /\ ("overlapped" \in flaws' => "overlapped" \in flaws)
    BY <1>1 DEF Submit, Seen
  <2>3. reader' # "count" /\ UNCHANGED <<count, loaded, output, crash, Busy>>
    BY <1>1 DEF Submit, Busy
  <2> QED BY <2>1, <2>2, <2>3 DEF CrashInv, CrashExplained, AtStep
<1>2. CASE Write
  <2>1. Len(times') = Len(times)
    BY <1>2 DEF Write, TypeInv
  <2>2. UNCHANGED <<count, output, crash, Busy, flaws>> /\ loaded' = count
    BY <1>2 DEF Write, Busy
  <2> QED BY <2>1, <2>2 DEF CrashInv, CrashExplained, AtStep
<1>3. CASE WriteTraps
  <2>1. count < 0
    BY <1>3, <1>t DEF WriteTraps
  <2>2. "overlapped" \in flaws
    BY <1>t, <2>1 DEF CrashInv
  <2>3. UNCHANGED <<times, count, output, Busy, flaws, reader, loaded>> /\ crash' = "index"
    BY <1>3 DEF WriteTraps, Busy
  <2> QED BY <2>2, <2>3 DEF CrashInv, CrashExplained, AtStep
<1>4. CASE Count
  <2>1. "overlapped" \notin flaws => count' > 0
    BY <1>4, <1>t DEF Count, CrashInv
  <2>2. UNCHANGED <<times, output, Busy, flaws, crash>> /\ reader' # "count"
    BY <1>4 DEF Count, Busy
  <2>3. count' \in Int
    BY DEF TypeInv
  <2> QED BY <2>1, <2>2, <2>3 DEF CrashInv, CrashExplained, AtStep
<1>5. ASSUME NEW f \in Frames, Begin(f)
      PROVE  CrashInv'
  <2>1. UNCHANGED <<times, count, reader, loaded, crash>> /\ flaws \subseteq flaws'
    BY <1>5 DEF Begin
  <2>2. CASE IsEmpty
    <3>1. UNCHANGED <<output, Busy>>
      BY <1>5, <2>2 DEF Begin, Busy
    <3> QED BY <2>1, <3>1 DEF CrashInv, CrashExplained, AtStep
  <2>3. CASE ~IsEmpty
    <3>1. /\ output'[f] = [step |-> "read", size |-> Len(times)]
          /\ \A g \in Frames : g # f => output'[g] = output[g]
      <4>1. output' = [output EXCEPT ![f] = [step |-> "read", size |-> Len(times)]]
        BY <1>5, <2>3 DEF Begin, Capacity
      <4> QED BY <4>1, OutputEffect
    <3>2. \A g \in Frames : output'[g].step = "read" /\ output'[g].size # Len(times')
                              => "grown" \in flaws'
      BY <2>1, <3>1 DEF CrashInv, AtStep
    <3>3. ASSUME "overlapped" \notin flaws'
          PROVE  /\ \A g \in Frames : g # f => output'[g].step = "idle"
                 /\ count > 0
                 /\ "overlapped" \notin flaws
      <4>1. Busy = {} /\ "overlapped" \notin flaws
        BY <1>5, <3>3 DEF Begin, Seen
      <4>2. count # 0 /\ count >= 0
        BY <2>3, <4>1 DEF IsEmpty, CrashInv
      <4>3. \A g \in Frames : output[g].step = "idle"
        BY <1>0, <4>1 DEF AtStep
      <4> QED BY <1>t, <3>1, <4>1, <4>2, <4>3
    <3>4. output'[f].step = "read"
      BY <3>1
    <3>5. "overlapped" \notin flaws' => \A g, k \in Busy' : g = k
      BY <1>b, <1>p, <3>3
    <3>6. CrashExplained'
      BY <2>1 DEF CrashInv, CrashExplained
    <3>7. "overlapped" \notin flaws' =>
            /\ count' >= 0
            /\ reader' = "count" => loaded' >= 0
            /\ \A g \in Frames :
                 /\ output'[g].step \in {"read", "load", "head"} => count' > 0
                 /\ output'[g].step = "count" => output'[g].count > 0
      BY <1>t, <2>1, <3>3, <3>4 DEF CrashInv
    <3> QED BY <2>1, <3>2, <3>5, <3>6, <3>7 DEF CrashInv, AtStep
  <2> QED BY <2>2, <2>3
<1>6. ASSUME NEW f \in Frames, Read(f)
      PROVE  CrashInv'
  <2>1. /\ UNCHANGED <<times, count, reader, loaded, flaws>>
        /\ output[f].step = "read"
        /\ crash' = "none" \/ (crash' = "freed" /\ output[f].size # Len(times))
    BY <1>6 DEF Read, Seen, Capacity
  <2>2. /\ output'[f] = [step |-> "load", start |-> times[head + 1]]
        /\ \A g \in Frames : g # f => output'[g] = output[g]
    BY <1>6, OutputEffect DEF Read
  <2>3. Busy' = Busy
    <3>1. \A g \in Frames : g \in Busy' <=> g \in Busy
      BY <1>0, <1>p, <2>1, <2>2 DEF AtStep
    <3> QED BY <1>b, <3>1
  <2>4. output'[f].step = "load"
    BY <2>2
  <2>5. CrashExplained'
    BY <2>1 DEF CrashInv, CrashExplained, AtStep
  <2> QED BY <2>1, <2>2, <2>3, <2>4, <2>5 DEF CrashInv, AtStep
<1>11. ASSUME NEW f \in Frames, Load(f)
      PROVE  CrashInv'
  <2>1. /\ UNCHANGED <<times, count, reader, loaded, flaws, crash>>
        /\ output[f].step = "load"
    BY <1>11 DEF Load
  <2>2. /\ output'[f] = [step |-> "head", start |-> output[f].start, head |-> head]
        /\ \A g \in Frames : g # f => output'[g] = output[g]
    BY <1>11, OutputEffect DEF Load
  <2>3. Busy' = Busy
    <3>1. \A g \in Frames : g \in Busy' <=> g \in Busy
      BY <1>0, <1>p, <2>1, <2>2 DEF AtStep
    <3> QED BY <1>b, <3>1
  <2>4. output'[f].step = "head"
    BY <2>2
  <2> QED BY <2>1, <2>2, <2>3, <2>4 DEF CrashInv, CrashExplained, AtStep
<1>7. ASSUME NEW f \in Frames, Advance(f)
      PROVE  CrashInv'
  <2>1. /\ UNCHANGED <<times, count, reader, loaded, flaws, crash>>
        /\ output[f].step = "head"
    BY <1>7 DEF Advance
  <2>2. /\ output'[f] = [step |-> "count", start |-> output[f].start, count |-> count]
        /\ \A g \in Frames : g # f => output'[g] = output[g]
    BY <1>7, OutputEffect DEF Advance
  <2>3. Busy' = Busy
    <3>1. \A g \in Frames : g \in Busy' <=> g \in Busy
      BY <1>0, <1>p, <2>1, <2>2 DEF AtStep
    <3> QED BY <1>b, <3>1
  <2>4. output'[f].step = "count" /\ output'[f].count = count
    BY <2>2
  <2> QED BY <2>1, <2>2, <2>3, <2>4 DEF CrashInv, CrashExplained, AtStep
<1>8. ASSUME NEW f \in Frames, Finish(f)
      PROVE  CrashInv'
  <2>1. /\ UNCHANGED <<times, reader, loaded, flaws, crash>>
        /\ output[f].step = "count"
        /\ count' = output[f].count - 1
    BY <1>8 DEF Finish
  <2>2. /\ output'[f] = Idle
        /\ \A g \in Frames : g # f => output'[g] = output[g]
    BY <1>8, OutputEffect DEF Finish
  <2>3. output'[f].step = "idle"
    BY <2>2 DEF Idle
  <2>4. f \in Busy /\ output[f].count \in Int
    BY <1>0, <2>1 DEF AtStep
  <2>5. "overlapped" \notin flaws => \A g \in Frames : output'[g].step = "idle"
    <3> SUFFICES ASSUME "overlapped" \notin flaws, NEW g \in Frames
                 PROVE  output'[g].step = "idle"
      OBVIOUS
    <3>1. g # f => g \notin Busy
      BY <2>4 DEF CrashInv
    <3> QED BY <1>0, <2>2, <2>3, <3>1 DEF AtStep
  <2>6. "overlapped" \notin flaws => count' >= 0
    BY <2>1, <2>4 DEF CrashInv, AtStep
  <2>7. "overlapped" \notin flaws => Busy' = {}
    BY <1>b, <1>p, <2>5
  <2>8. \A g \in Frames : output'[g].step = "read" /\ output'[g].size # Len(times')
                            => "grown" \in flaws'
    BY <2>1, <2>2, <2>3 DEF CrashInv, AtStep
  <2> QED BY <2>1, <2>5, <2>6, <2>7, <2>8 DEF CrashInv, CrashExplained, AtStep
<1>9. ASSUME NEW f \in Frames, NoPacket(f)
      PROVE  CrashInv'
  BY <1>9 DEF NoPacket, CrashInv, CrashExplained, AtStep, Busy
<1>10. CASE UNCHANGED vars
  BY <1>10 DEF vars, CrashInv, CrashExplained, AtStep, Busy
<1> QED BY <1>1, <1>2, <1>3, <1>4, <1>5, <1>6, <1>7, <1>8, <1>9, <1>10, <1>11
        DEF Next, Step, Terminated

\* The missing lock costs at most what CrashExplained says: an index trap takes
\* two callbacks at once, a load from a freed array one during a growing.
THEOREM CrashesAreRaces == Spec => []CrashExplained
<1>1. Init => TypeInv /\ CrashInv
  BY TypeInit, CrashInit
<1>2. (TypeInv /\ CrashInv) /\ [Next]_vars => (TypeInv /\ CrashInv)'
  BY TypeStep, CrashStep
<1>3. TypeInv /\ CrashInv => CrashExplained
  BY DEF CrashInv
<1> QED BY <1>1, <1>2, <1>3, PTL DEF Spec

-------------------------------------------------------------------------------
(***************************************************************************)
(* One operation at a time.                                                *)
(***************************************************************************)

\* Without a race nothing else is under way during a step of a callback.
LEMMA AloneInCallback ==
    ASSUME TypeInv, SoloInv, "raced" \notin flaws,
           NEW f \in Frames, ~AtStep(f, "idle")
    PROVE  /\ \A g \in Frames : g # f => output[g].step = "idle"
           /\ reader = "idle"
           /\ count \in Nat /\ count > 0
<1>1. f \in Busy
  BY OutputTypes
<1>2. reader = "idle"
  BY <1>1 DEF SoloInv, Alone
<1>3. ASSUME NEW g \in Frames, g # f
      PROVE  output[g].step = "idle"
  <2>1. g \notin Busy
    BY <1>1, <1>3 DEF SoloInv, Alone
  <2> QED BY <2>1, OutputTypes DEF AtStep
<1>4. count \in Nat /\ count > 0
  BY DEF TypeInv, SoloInv
<1> QED BY <1>2, <1>3, <1>4

\* Nor is a callback under way during a step of submit.
LEMMA AloneInSubmit ==
    ASSUME TypeInv, SoloInv, "raced" \notin flaws, reader # "idle" \/ Busy = {}
    PROVE  /\ Busy = {}
           /\ \A g \in Frames : output[g].step = "idle"
           /\ count \in Nat
<1>1. Busy = {}
  BY DEF SoloInv, Alone
<1>2. \A g \in Frames : output[g].step = "idle"
  BY <1>1, OutputTypes DEF AtStep
<1>3. count \in Nat
  BY DEF TypeInv, SoloInv
<1> QED BY <1>1, <1>2, <1>3

LEMMA SoloInit == Init => SoloInv
<1> SUFFICES ASSUME Init PROVE SoloInv
  OBVIOUS
<1>1. Busy = {}
  BY DEF Init, Busy
<1>2. \A f \in Frames : output[f].step = "idle"
  BY DEF Init, Idle
<1>3. count = 0 /\ submitted = 0 /\ reader = "idle"
  BY DEF Init
<1>4. Len(times) \in Nat
  BY LatencyAssumption DEF Init
<1> QED BY <1>1, <1>2, <1>3, <1>4 DEF SoloInv, Alone, AtStep

LEMMA SoloStep == TypeInv /\ TypeInv' /\ SoloInv /\ [Next]_vars => SoloInv'
<1> SUFFICES ASSUME TypeInv, TypeInv', SoloInv, [Next]_vars, "raced" \notin flaws'
             PROVE  /\ Alone'
                    /\ 0 <= count' /\ count' <= Len(times') /\ count' <= submitted'
                    /\ reader' # "idle" => count' < Len(times')
                    /\ reader' = "count" => loaded' = count'
                    /\ \A g \in Frames :
                         /\ output'[g].step # "idle" => count' > 0
                         /\ output'[g].step = "head" => output'[g].head = head'
                         /\ output'[g].step = "count" => output'[g].count = count'
  BY DEF SoloInv, AtStep
<1>b. Busy \subseteq Frames /\ Busy' \subseteq Frames
  BY DEF Busy
<1>p. \A g \in Frames : g \in Busy' <=> output'[g].step # "idle"
  <2>1. \A g \in Frames : output'[g] \in Steps
    BY DEF TypeInv
  <2> QED BY <2>1, StepTypes DEF Busy
<1>t. /\ Len(times) \in Nat /\ Len(times) > 0 /\ Len(times') \in Nat
      /\ head \in Nat /\ count \in Int /\ submitted \in Nat
  BY DEF TypeInv
<1>s. "raced" \notin flaws /\ count >= 0 /\ count <= Len(times) /\ count <= submitted
  <2>1. flaws \subseteq flaws'
    BY DEF Next, Step, Terminated, vars, Submit, Write, WriteTraps, Count, Begin, Read, Load,
           Advance, Finish, NoPacket
  <2> QED BY <2>1 DEF SoloInv
<1>a. \A g \in Frames : output[g].step # "idle" <=> g \in Busy
  BY OutputTypes DEF AtStep
<1>1. CASE Submit
  <2>1. Busy = {}
    BY <1>1 DEF Submit, Seen
  <2>2. \A g \in Frames : output'[g].step = "idle"
    BY <1>1, <1>a, <2>1 DEF Submit
  <2>3. Busy' = {}
    BY <1>b, <1>p, <2>2
  <2>4. count < Len(times') /\ count' = count /\ submitted' = submitted
    <3>1. CASE Full
      <4>1. Len(times') = 2 * Len(times)
        BY <1>1, <3>1, Growing DEF Submit, Capacity, TypeInv
      <4>2. UNCHANGED <<count, submitted>>
        BY <1>1 DEF Submit
      <4> QED BY <1>t, <1>s, <4>1, <4>2
    <3>2. CASE ~Full
      BY <1>1, <1>t, <1>s, <3>2 DEF Submit, Full, Capacity
    <3> QED BY <3>1, <3>2
  <2>5. reader' = "write"
    BY <1>1 DEF Submit
  <2> QED BY <1>t, <1>s, <2>2, <2>3, <2>4, <2>5 DEF Alone
<1>2. CASE Write
  <2>1. Busy = {} /\ \A g \in Frames : output[g].step = "idle"
    BY <1>2, <1>s, AloneInSubmit DEF Write
  <2>2. Len(times') = Len(times)
    BY <1>2 DEF Write, TypeInv
  <2>3. Busy' = {}
    BY <1>2, <2>1 DEF Write, Busy
  <2>4. count < Len(times)
    BY <1>2, <1>s DEF Write, SoloInv
  <2> QED BY <1>2, <1>t, <1>s, <2>1, <2>2, <2>3, <2>4 DEF Write, Alone
<1>3. CASE Count
  <2>1. Busy = {} /\ \A g \in Frames : output[g].step = "idle"
    BY <1>3, <1>s, AloneInSubmit DEF Count
  <2>2. Busy' = {}
    BY <1>3, <2>1 DEF Count, Busy
  <2>3. count < Len(times) /\ loaded = count
    BY <1>3, <1>s DEF Count, SoloInv
  <2> QED BY <1>3, <1>t, <1>s, <2>1, <2>2, <2>3 DEF Count, Alone
<1>4. CASE WriteTraps \/ UNCHANGED vars
  BY <1>4 DEF WriteTraps, vars, SoloInv, Alone, AtStep, Busy
<1>5. ASSUME NEW f \in Frames, Begin(f)
      PROVE  SoloInv'
  <2>1. Busy = {} /\ reader = "idle"
    BY <1>5 DEF Begin, Seen
  <2>2. \A g \in Frames : output[g].step = "idle"
    BY <1>a, <2>1
  <2>3. UNCHANGED <<times, head, count, submitted, reader, loaded>>
    BY <1>5 DEF Begin
  <2>4. CASE IsEmpty
    <3>1. output' = output /\ Busy' = {}
      BY <1>5, <2>1, <2>4 DEF Begin, Busy
    <3> QED BY <1>t, <1>s, <2>1, <2>2, <2>3, <3>1 DEF SoloInv, Alone, AtStep
  <2>5. CASE ~IsEmpty
    <3>1. /\ output'[f] = [step |-> "read", size |-> Len(times)]
          /\ \A g \in Frames : g # f => output'[g] = output[g]
      <4>1. output' = [output EXCEPT ![f] = [step |-> "read", size |-> Len(times)]]
        BY <1>5, <2>5 DEF Begin, Capacity
      <4> QED BY <4>1, OutputEffect
    <3>2. count > 0
      BY <1>t, <1>s, <2>5 DEF IsEmpty
    <3>3. output'[f].step = "read"
      BY <3>1
    <3>4. \A g, k \in Busy' : g = k
      BY <1>b, <1>p, <2>2, <3>1
    <3> QED BY <1>t, <1>s, <2>1, <2>2, <2>3, <3>1, <3>2, <3>3, <3>4 DEF SoloInv, Alone, AtStep
  <2> QED BY <2>4, <2>5
<1>6. ASSUME NEW f \in Frames, Read(f)
      PROVE  SoloInv'
  <2>1. /\ UNCHANGED <<times, head, count, submitted, reader, loaded>>
        /\ output[f].step = "read"
    BY <1>6 DEF Read
  <2>2. /\ output'[f] = [step |-> "load", start |-> times[head + 1]]
        /\ \A g \in Frames : g # f => output'[g] = output[g]
    BY <1>6, OutputEffect DEF Read
  <2>3. /\ \A g \in Frames : g # f => output[g].step = "idle"
        /\ reader = "idle" /\ count > 0
    BY <1>s, <2>1, AloneInCallback DEF AtStep
  <2>4. output'[f].step = "load"
    BY <2>2
  <2>5. \A g, k \in Busy' : g = k
    BY <1>b, <1>p, <2>2, <2>3
  <2> QED BY <1>t, <1>s, <2>1, <2>2, <2>3, <2>4, <2>5 DEF SoloInv, Alone, AtStep
<1>11. ASSUME NEW f \in Frames, Load(f)
      PROVE  SoloInv'
  <2>1. /\ UNCHANGED <<times, head, count, submitted, reader, loaded>>
        /\ output[f].step = "load"
    BY <1>11 DEF Load
  <2>2. /\ output'[f] = [step |-> "head", start |-> output[f].start, head |-> head]
        /\ \A g \in Frames : g # f => output'[g] = output[g]
    BY <1>11, OutputEffect DEF Load
  <2>3. /\ \A g \in Frames : g # f => output[g].step = "idle"
        /\ reader = "idle" /\ count > 0
    BY <1>s, <2>1, AloneInCallback DEF AtStep
  <2>4. output'[f].step = "head" /\ output'[f].head = head
    BY <2>2
  <2>5. \A g, k \in Busy' : g = k
    BY <1>b, <1>p, <2>2, <2>3
  <2> QED BY <1>t, <1>s, <2>1, <2>2, <2>3, <2>4, <2>5 DEF SoloInv, Alone, AtStep
<1>7. ASSUME NEW f \in Frames, Advance(f)
      PROVE  SoloInv'
  <2>1. /\ UNCHANGED <<times, count, submitted, reader, loaded>>
        /\ output[f].step = "head"
    BY <1>7 DEF Advance
  <2>2. /\ output'[f] = [step |-> "count", start |-> output[f].start, count |-> count]
        /\ \A g \in Frames : g # f => output'[g] = output[g]
    BY <1>7, OutputEffect DEF Advance
  <2>3. /\ \A g \in Frames : g # f => output[g].step = "idle"
        /\ reader = "idle" /\ count > 0
    BY <1>s, <2>1, AloneInCallback DEF AtStep
  <2>4. output'[f].step = "count" /\ output'[f].count = count
    BY <2>2
  <2>5. \A g, k \in Busy' : g = k
    BY <1>b, <1>p, <2>2, <2>3
  <2> QED BY <1>t, <1>s, <2>1, <2>2, <2>3, <2>4, <2>5 DEF SoloInv, Alone, AtStep
<1>8. ASSUME NEW f \in Frames, Finish(f)
      PROVE  SoloInv'
  <2>1. /\ UNCHANGED <<times, submitted, reader, loaded>>
        /\ output[f].step = "count"
        /\ count' = output[f].count - 1
    BY <1>8 DEF Finish
  <2>2. /\ output'[f] = Idle
        /\ \A g \in Frames : g # f => output'[g] = output[g]
    BY <1>8, OutputEffect DEF Finish
  <2>3. /\ \A g \in Frames : g # f => output[g].step = "idle"
        /\ reader = "idle" /\ count > 0
    BY <1>s, <2>1, AloneInCallback DEF AtStep
  <2>4. \A g \in Frames : output'[g].step = "idle"
    BY <2>2, <2>3 DEF Idle
  <2>5. Busy' = {}
    BY <1>b, <1>p, <2>4
  <2>6. output[f].count = count
    BY <1>s, <2>1 DEF SoloInv, AtStep
  <2> QED BY <1>t, <1>s, <2>1, <2>3, <2>4, <2>5, <2>6 DEF SoloInv, Alone, AtStep
<1>9. ASSUME NEW f \in Frames, NoPacket(f)
      PROVE  SoloInv'
  BY <1>9 DEF NoPacket, SoloInv, Alone, AtStep, Busy
<1>10. CASE SoloInv'
  BY <1>10 DEF SoloInv, AtStep
<1> QED BY <1>1, <1>2, <1>3, <1>4, <1>5, <1>6, <1>7, <1>8, <1>9, <1>10, <1>11
        DEF Next, Step, Terminated

-------------------------------------------------------------------------------
(***************************************************************************)
(* What the operations do to the entries.                                  *)
(***************************************************************************)
LEMMA FirstEntry ==
    ASSUME NEW t \in Seq(Nat), Len(t) > 0, NEW h \in Nat, h < Len(t)
    PROVE  At(t, h, 1) = t[h + 1]
<1>1. Slot(h, 0, Len(t)) = h
  BY SlotRules
<1> QED BY <1>1 DEF At

LEMMA EntriesAreTimes ==
    ASSUME NEW t \in Seq(Nat), Len(t) > 0, NEW h \in Nat, h < Len(t)
    PROVE  \A i \in 1 .. Len(t) + 1 : At(t, h, i) \in Nat
<1> SUFFICES ASSUME NEW i \in 1 .. Len(t) + 1
             PROVE  At(t, h, i) \in Nat
  OBVIOUS
<1>0. Len(t) \in Nat
  OBVIOUS
<1>1. i - 1 \in 0 .. Len(t)
  BY <1>0
<1>2. Slot(h, i - 1, Len(t)) \in 0 .. Len(t) - 1
  BY <1>0, <1>1, SlotRules
<1>3. Slot(h, i - 1, Len(t)) + 1 \in 1 .. Len(t)
  BY <1>0, <1>2
<1> QED BY <1>3 DEF At

\* The ring with x behind the last of c entries.
Written(t, h, c, x) == [t EXCEPT ![((h + c) % Len(t)) + 1] = x]

\* Writing behind the last of c entries leaves them alone.
LEMMA WriteEntry ==
    ASSUME NEW t \in Seq(Nat), Len(t) > 0, NEW h \in Nat, h < Len(t),
           NEW c \in Nat, c < Len(t), NEW x \in Nat
    PROVE  /\ \A i \in 1 .. c : At(Written(t, h, c, x), h, i) = At(t, h, i)
           /\ At(Written(t, h, c, x), h, c + 1) = x
<1> DEFINE n == Len(t)
           u == Written(t, h, c, x)
           k == Slot(h, c, n) + 1
<1>0. n \in Nat /\ c \in 0 .. n - 1 /\ c \in 0 .. n
  OBVIOUS
<1>1. Slot(h, c, n) \in 0 .. n - 1
  BY <1>0, SlotRules
<1>2. k \in 1 .. n
  BY <1>0, <1>1
<1>3. u = [t EXCEPT ![k] = x]
  BY DEF Slot, Written
<1> HIDE DEF k, u
<1>4. Len(u) = n /\ u[k] = x /\ \A j \in 1 .. n : j # k => u[j] = t[j]
  BY <1>2, <1>3
<1>5. At(u, h, c + 1) = x
  <2>1. c + 1 - 1 = c
    OBVIOUS
  <2> QED BY <1>4, <2>1 DEF At, k
<1>6. ASSUME NEW i \in 1 .. c
      PROVE  At(u, h, i) = At(t, h, i)
  <2>1. i - 1 \in 0 .. n - 1 /\ i - 1 \in 0 .. n /\ i - 1 # c
    BY <1>0
  <2>2. Slot(h, i - 1, n) # Slot(h, c, n)
    BY <1>0, <2>1, SlotRules
  <2>3. Slot(h, i - 1, n) \in 0 .. n - 1
    BY <1>0, <2>1, SlotRules
  <2>4. Slot(h, i - 1, n) + 1 \in 1 .. n /\ Slot(h, i - 1, n) + 1 # k
    BY <1>0, <1>1, <2>2, <2>3 DEF k
  <2> QED BY <1>4, <2>4 DEF At
<1> QED BY <1>5, <1>6 DEF u

\* Growing keeps the entries of a ring whose head is at its front; of any other
\* it replaces some by zeros.
LEMMA GrownEntries ==
    ASSUME NEW t \in Seq(Nat), Len(t) > 0, NEW h \in Nat, h < Len(t),
           NEW u, u = t \o [i \in 1 .. Len(t) |-> 0]
    PROVE  \A i \in 1 .. Len(t) :
              /\ At(u, h, i) = At(t, h, i) \/ At(u, h, i) = 0
              /\ h = 0 => At(u, h, i) = At(t, h, i)
<1> DEFINE n == Len(t)
<1>0. n \in Nat /\ n > 0 /\ 2 * n \in Nat /\ h < 2 * n
  OBVIOUS
<1>1. /\ Len(u) = 2 * n
      /\ \A i \in 1 .. n : u[i] = t[i]
      /\ \A i \in n + 1 .. 2 * n : u[i] = 0
  BY Growing
<1> SUFFICES ASSUME NEW i \in 1 .. n
             PROVE  /\ At(u, h, i) = At(t, h, i) \/ At(u, h, i) = 0
                    /\ h = 0 => At(u, h, i) = At(t, h, i)
  OBVIOUS
<1>2. i - 1 \in 0 .. n - 1 /\ i - 1 \in 0 .. 2 * n - 1 /\ h + (i - 1) < 2 * n
  BY <1>0
<1>3. Slot(h, i - 1, 2 * n) = h + (i - 1)
  BY <1>0, <1>2, SlotRules
<1>4. At(u, h, i) = u[h + (i - 1) + 1]
  BY <1>1, <1>3 DEF At
<1>5. CASE h + (i - 1) < n
  <2>1. Slot(h, i - 1, n) = h + (i - 1)
    BY <1>0, <1>2, <1>5, SlotRules
  <2>2. h + (i - 1) + 1 \in 1 .. n
    BY <1>0, <1>5
  <2> QED BY <1>1, <1>4, <2>1, <2>2 DEF At
<1>6. CASE h + (i - 1) >= n
  <2>1. h + (i - 1) + 1 \in n + 1 .. 2 * n /\ h # 0
    BY <1>0, <1>2, <1>6
  <2> QED BY <1>1, <1>4, <2>1
<1> QED BY <1>0, <1>5, <1>6

\* Moving the head on makes the second entry the first.
LEMMA AdvancedEntries ==
    ASSUME NEW t \in Seq(Nat), Len(t) > 0, NEW h \in Nat, h < Len(t),
           NEW k, k = (h + 1) % Len(t)
    PROVE  \A i \in 1 .. Len(t) : At(t, k, i) = At(t, h, i + 1)
<1> SUFFICES ASSUME NEW i \in 1 .. Len(t)
             PROVE  At(t, k, i) = At(t, h, i + 1)
  OBVIOUS
<1>1. i - 1 \in 0 .. Len(t) - 1
  OBVIOUS
<1>2. k = Slot(h, 1, Len(t))
  BY DEF Slot
<1>3. Slot(k, i - 1, Len(t)) = Slot(h, i - 1 + 1, Len(t))
  BY <1>1, <1>2, SlotRules
<1>4. i - 1 + 1 = i + 1 - 1
  OBVIOUS
<1> QED BY <1>3, <1>4 DEF At

LEMMA SubmitEntries ==
    ASSUME TypeInv, Submit, count \in Nat, count <= Len(times)
    PROVE  \A i \in 1 .. count :
              /\ At(times', head', i) = Entry(i) \/ At(times', head', i) = 0
              /\ ~(Full /\ head # 0) => At(times', head', i) = Entry(i)
<1>1. head' = head /\ head \in Nat /\ head < Len(times) /\ times \in Seq(Nat) /\ Len(times) > 0
  BY DEF Submit, TypeInv
<1>2. CASE Full
  <2>1. times' = times \o [i \in 1 .. Len(times) |-> 0] /\ count = Len(times)
    BY <1>2 DEF Submit, Full, Capacity
  <2>2. \A i \in 1 .. Len(times) :
          /\ At(times', head, i) = At(times, head, i) \/ At(times', head, i) = 0
          /\ head = 0 => At(times', head, i) = At(times, head, i)
    BY <1>1, <2>1, GrownEntries
  <2> QED BY <1>1, <1>2, <2>1, <2>2 DEF Entry
<1>3. CASE ~Full
  <2>1. times' = times
    BY <1>3 DEF Submit
  <2> QED BY <1>1, <2>1 DEF Entry
<1> QED BY <1>2, <1>3

LEMMA WriteEntries ==
    ASSUME TypeInv, Write, count \in Nat, count < Len(times)
    PROVE  /\ \A i \in 1 .. count : At(times', head', i) = Entry(i)
           /\ At(times', head', count + 1) = submitted + 1
<1>1. head' = head /\ head \in Nat /\ head < Len(times) /\ times \in Seq(Nat) /\ Len(times) > 0
  BY DEF Write, TypeInv
<1> PICK x \in Nat : x = submitted + 1
  BY DEF TypeInv
<1>2. times' = Written(times, head, count, x)
  BY DEF Write, Capacity, Written
<1>4. /\ \A i \in 1 .. count : At(times', head, i) = At(times, head, i)
      /\ At(times', head, count + 1) = x
  BY <1>1, <1>2, WriteEntry
<1> QED BY <1>1, <1>4 DEF Entry

LEMMA AdvanceEntries ==
    ASSUME TypeInv, NEW f \in Frames, Advance(f), output[f].head = head
    PROVE  \A i \in 1 .. Len(times) : At(times', head', i) = Entry(i + 1)
<1>1. head \in Nat /\ head < Len(times) /\ times \in Seq(Nat) /\ Len(times) > 0
  BY DEF TypeInv
<1>2. times' = times /\ head' = (head + 1) % Len(times)
  BY DEF Advance, Advanced, Capacity
<1>3. \A i \in 1 .. Len(times) : At(times, head', i) = At(times, head, i + 1)
  BY <1>1, <1>2, AdvancedEntries
<1> QED BY <1>2, <1>3 DEF Entry

\* What has gone wrong stays so.
LEMMA FlawsStay == [Next]_vars => flaws \subseteq flaws'
BY DEF Next, Step, Terminated, vars, Submit, Write, WriteTraps, Count, Begin, Read, Load,
       Advance, Finish, NoPacket

-------------------------------------------------------------------------------
(***************************************************************************)
(* The ring is a queue.                                                    *)
(***************************************************************************)
LEMMA QueueInit == Init => QueueInv
<1> SUFFICES ASSUME Init PROVE QueueInv
  OBVIOUS
<1>1. \A f \in Frames : ~AtStep(f, "count")
  BY DEF Init, Idle, AtStep
<1>2. count = 0 /\ fifo = <<>> /\ reader = "idle" /\ Len(fifo) = 0
  BY DEF Init
<1> QED BY <1>1, <1>2 DEF QueueInv, Taken

LEMMA QueueStep ==
    TypeInv /\ TypeInv' /\ SoloInv /\ SoloInv' /\ QueueInv /\ [Next]_vars => QueueInv'
<1> SUFFICES ASSUME TypeInv, TypeInv', SoloInv, SoloInv', QueueInv, [Next]_vars,
                    Without({"raced", "scrambled"})'
             PROVE  /\ Len(fifo') = count'
                    /\ ~Taken' => \A i \in 1 .. count' : At(times', head', i) = fifo'[i]
                    /\ Taken' => \A i \in 1 .. count' - 1 : At(times', head', i) = fifo'[i + 1]
                    /\ reader' = "count" => At(times', head', count' + 1) = submitted' + 1
  BY DEF QueueInv, Entry
<1>w. /\ "raced" \notin flaws' /\ "scrambled" \notin flaws'
      /\ "raced" \notin flaws /\ Without({"raced", "scrambled"})
  BY FlawsStay DEF Without
<1>q. /\ Len(fifo) = count
      /\ ~Taken => \A i \in 1 .. count : Entry(i) = fifo[i]
      /\ Taken => \A i \in 1 .. count - 1 : Entry(i) = fifo[i + 1]
      /\ reader = "count" => Entry(count + 1) = submitted + 1
  BY <1>w DEF QueueInv
<1>t. /\ fifo \in Seq(Nat) /\ Len(times) \in Nat /\ Len(times) > 0
      /\ count \in Nat /\ count <= Len(times) /\ submitted \in Nat
  BY <1>w DEF TypeInv, SoloInv
<1>1. CASE Submit
  <2>1. Busy = {} /\ ~(Full /\ head # 0)
    BY <1>1, <1>w DEF Submit, Seen
  <2>2. ~Taken /\ ~Taken'
    BY <1>1, <1>w, <2>1, AloneInSubmit DEF Submit, Taken, AtStep
  <2>3. \A i \in 1 .. count : At(times', head', i) = Entry(i)
    BY <1>1, <1>t, <2>1, SubmitEntries
  <2>4. UNCHANGED <<fifo, count>> /\ reader' = "write"
    BY <1>1 DEF Submit
  <2> QED BY <1>q, <2>2, <2>3, <2>4
<1>2. CASE Write
  <2>1. count < Len(times)
    BY <1>2, <1>w DEF Write, SoloInv
  <2>2. ~Taken /\ ~Taken'
    BY <1>2, <1>w, AloneInSubmit DEF Write, Taken, AtStep
  <2>3. /\ \A i \in 1 .. count : At(times', head', i) = Entry(i)
        /\ At(times', head', count + 1) = submitted + 1
    BY <1>2, <1>t, <2>1, WriteEntries
  <2>4. UNCHANGED <<fifo, count, submitted>>
    BY <1>2 DEF Write
  <2> QED BY <1>q, <2>2, <2>3, <2>4
<1>3. CASE Count
  <2>1. count' = count + 1 /\ reader = "count"
    BY <1>3, <1>w DEF Count, SoloInv
  <2>2. ~Taken /\ ~Taken'
    BY <1>3, <1>w, AloneInSubmit DEF Count, Taken, AtStep
  <2>3. UNCHANGED <<times, head>> /\ fifo' = Append(fifo, submitted + 1) /\ reader' = "idle"
    BY <1>3 DEF Count
  <2>4. /\ Len(fifo') = count + 1
        /\ \A i \in 1 .. count : fifo'[i] = fifo[i]
        /\ fifo'[count + 1] = submitted + 1
    BY <1>q, <1>t, <2>3
  <2>5. \A i \in 1 .. count + 1 : Entry(i) = fifo'[i]
    <3> SUFFICES ASSUME NEW i \in 1 .. count + 1
                 PROVE  Entry(i) = fifo'[i]
      OBVIOUS
    <3>1. i \in 1 .. count \/ i = count + 1
      BY <1>t
    <3> QED BY <1>q, <2>1, <2>2, <2>4, <3>1
  <2> QED BY <2>1, <2>2, <2>3, <2>4, <2>5 DEF Entry
<1>4. CASE WriteTraps \/ UNCHANGED vars
  <2>1. UNCHANGED <<times, head, count, submitted, output, fifo>>
        /\ (reader' = "count" => reader = "count")
    BY <1>4 DEF WriteTraps, vars
  <2>2. Taken' = Taken
    BY <2>1 DEF Taken, AtStep
  <2> QED BY <1>q, <2>1, <2>2 DEF Entry
<1>5. ASSUME NEW f \in Frames, Begin(f) \/ NoPacket(f)
      PROVE  QueueInv'
  <2>1. UNCHANGED <<times, head, count, submitted, reader, fifo>>
    BY <1>5 DEF Begin, NoPacket
  <2>2. Taken' <=> Taken
    <3>1. CASE NoPacket(f) \/ IsEmpty
      <4>1. output' = output
        BY <1>5, <3>1 DEF Begin, NoPacket
      <4> QED BY <4>1 DEF Taken, AtStep
    <3>2. CASE Begin(f) /\ ~IsEmpty
      <4>1. Busy = {}
        BY <1>w, <3>2 DEF Begin, Seen
      <4>2. \A g \in Frames : output[g].step = "idle"
        BY <1>w, <4>1, AloneInSubmit
      <4>3. output' = [output EXCEPT ![f] = [step |-> "read", size |-> Capacity]]
        BY <3>2 DEF Begin
      <4>4. \A g \in Frames : output'[g].step # "count"
        BY <4>2, <4>3, OutputEffect
      <4> QED BY <4>2, <4>4 DEF Taken, AtStep
    <3> QED BY <1>5, <3>1, <3>2
  <2> QED BY <1>q, <2>1, <2>2 DEF QueueInv, Entry
<1>6. ASSUME NEW f \in Frames, Read(f)
      PROVE  QueueInv'
  <2>1. UNCHANGED <<times, head, count, submitted, reader, fifo>> /\ output[f].step = "read"
    BY <1>6 DEF Read
  <2>2. \A g \in Frames : g # f => output[g].step = "idle"
    BY <1>w, <2>1, AloneInCallback DEF AtStep
  <2>e. /\ output'[f] = [step |-> "load", start |-> times[head + 1]]
        /\ \A g \in Frames : g # f => output'[g] = output[g]
    BY <1>6, OutputEffect DEF Read
  <2>3. output'[f].step = "load"
    BY <2>e
  <2>4. ~Taken /\ ~Taken'
    BY <2>1, <2>2, <2>e, <2>3 DEF Taken, AtStep
  <2> QED BY <1>q, <2>1, <2>4 DEF QueueInv, Entry
<1>11. ASSUME NEW f \in Frames, Load(f)
      PROVE  QueueInv'
  <2>1. UNCHANGED <<times, head, count, submitted, reader, fifo>> /\ output[f].step = "load"
    BY <1>11 DEF Load
  <2>2. \A g \in Frames : g # f => output[g].step = "idle"
    BY <1>w, <2>1, AloneInCallback DEF AtStep
  <2>e. /\ output'[f] = [step |-> "head", start |-> output[f].start, head |-> head]
        /\ \A g \in Frames : g # f => output'[g] = output[g]
    BY <1>11, OutputEffect DEF Load
  <2>3. output'[f].step = "head"
    BY <2>e
  <2>4. ~Taken /\ ~Taken'
    BY <2>1, <2>2, <2>e, <2>3 DEF Taken, AtStep
  <2> QED BY <1>q, <2>1, <2>4 DEF QueueInv, Entry
<1>7. ASSUME NEW f \in Frames, Advance(f)
      PROVE  QueueInv'
  <2>1. UNCHANGED <<times, count, submitted, reader, fifo>> /\ output[f].step = "head"
    BY <1>7 DEF Advance
  <2>2. /\ \A g \in Frames : g # f => output[g].step = "idle"
        /\ reader = "idle"
    BY <1>w, <2>1, AloneInCallback DEF AtStep
  <2>e. output'[f] = [step |-> "count", start |-> output[f].start, count |-> count]
    BY <1>7, OutputEffect DEF Advance
  <2>3. output'[f].step = "count"
    BY <2>e
  <2>4. ~Taken /\ Taken'
    BY <2>1, <2>2, <2>3 DEF Taken, AtStep
  <2>5. output[f].head = head
    BY <1>w, <2>1 DEF SoloInv, AtStep
  <2>6. \A i \in 1 .. Len(times) : At(times', head', i) = Entry(i + 1)
    BY <1>7, <2>5, AdvanceEntries
  <2>7. \A i \in 1 .. count - 1 : At(times', head', i) = fifo[i + 1]
    <3> SUFFICES ASSUME NEW i \in 1 .. count - 1
                 PROVE  At(times', head', i) = fifo[i + 1]
      OBVIOUS
    <3>1. i \in 1 .. Len(times) /\ i + 1 \in 1 .. count
      BY <1>t
    <3> QED BY <1>q, <2>4, <2>6, <3>1
  <2> QED BY <1>q, <2>1, <2>2, <2>4, <2>7 DEF QueueInv, Entry
<1>8. ASSUME NEW f \in Frames, Finish(f)
      PROVE  QueueInv'
  <2>1. UNCHANGED <<times, head, submitted, reader>> /\ output[f].step = "count"
    BY <1>8 DEF Finish
  <2>2. /\ \A g \in Frames : g # f => output[g].step = "idle"
        /\ reader = "idle" /\ count > 0
    BY <1>w, <2>1, AloneInCallback DEF AtStep
  <2>3. output'[f] = Idle /\ \A g \in Frames : g # f => output'[g] = output[g]
    BY <1>8, OutputEffect DEF Finish
  <2>4. Taken /\ ~Taken'
    BY <2>1, <2>2, <2>3 DEF Taken, AtStep, Idle
  <2>5. count' = count - 1
    BY <1>8, <1>w, <2>1 DEF Finish, SoloInv, AtStep
  <2>6. fifo # <<>>
    BY <1>q, <2>2
  <2>7. fifo' = Tail(fifo)
    BY <1>8, <2>6 DEF Finish
  <2>8. Len(fifo') = count - 1 /\ \A i \in 1 .. count - 1 : fifo'[i] = fifo[i + 1]
    BY <1>q, <1>t, <2>6, <2>7
  <2> QED BY <1>q, <2>1, <2>2, <2>4, <2>5, <2>8 DEF QueueInv, Entry
<1>9. CASE QueueInv'
  BY <1>9 DEF QueueInv, Entry
<1> QED BY <1>1, <1>2, <1>3, <1>4, <1>5, <1>6, <1>7, <1>8, <1>9, <1>11
        DEF Next, Step, Terminated

\* One operation at a time, and unless the ring has grown with its head not at
\* the front, the ring is the queue that the calls would have made.
THEOREM RingIsAQueue == Spec => []RingIsQueue
<1> DEFINE Inv == TypeInv /\ SoloInv /\ QueueInv
<1>1. Init => Inv
  BY TypeInit, SoloInit, QueueInit
<1>2. Inv /\ [Next]_vars => Inv'
  BY TypeStep, SoloStep, QueueStep
<1>3. Inv => RingIsQueue
  <2> SUFFICES ASSUME TypeInv, SoloInv, QueueInv,
                      Without({"raced", "scrambled"}), reader = "idle", Busy = {}
               PROVE  fifo = [i \in 1 .. count |-> times[((head + i - 1) % Capacity) + 1]]
    BY DEF RingIsQueue
  <2>1. "raced" \notin flaws
    BY DEF Without
  <2>2. ~Taken
    BY <2>1, AloneInSubmit DEF Taken, AtStep
  <2>3. Len(fifo) = count /\ \A i \in 1 .. count : Entry(i) = fifo[i]
    BY <2>2 DEF QueueInv
  <2>4. ASSUME NEW i \in 1 .. count
        PROVE  Entry(i) = times[((head + i - 1) % Capacity) + 1]
    <3>1. head + (i - 1) = head + i - 1
      BY <2>4 DEF TypeInv
    <3> QED BY <3>1 DEF Entry, At, Slot, Capacity
  <2>5. fifo = [i \in 1 .. Len(fifo) |-> fifo[i]]
    BY DEF TypeInv
  <2> QED BY <2>3, <2>4, <2>5
<1> HIDE DEF Inv
<1> QED BY <1>1, <1>2, <1>3, PTL DEF Spec

-------------------------------------------------------------------------------
(***************************************************************************)
(* A latency is never too short.                                           *)
(***************************************************************************)
LEMMA AgeInit == Init => AgeInv
<1> SUFFICES ASSUME Init PROVE AgeInv
  OBVIOUS
<1>1. \A f \in Frames : output[f].step = "idle" /\ starts[f] = 0
  BY DEF Init, Idle
<1>2. count = 0 /\ held = {} /\ reader = "idle"
  BY DEF Init
<1>3. \A f \in Frames : f \in Nat /\ f > 0
  BY DEF Frames
<1> QED BY <1>1, <1>2, <1>3 DEF AgeInv, Taken, AtStep

LEMMA AgeStep ==
    TypeInv /\ TypeInv' /\ SoloInv /\ AgeInv /\ [Next]_vars => AgeInv'
<1> SUFFICES ASSUME TypeInv, TypeInv', SoloInv, AgeInv, [Next]_vars,
                    Without({"raced", "disorder"})'
             PROVE  /\ ~Taken' => \A i \in 1 .. count' : At(times', head', i) <= Left' + i
                    /\ Taken' => \A i \in 1 .. count' - 1 : At(times', head', i) <= Left' + i + 1
                    /\ reader' = "count" => At(times', head', count' + 1) <= submitted' + 1
                    /\ \A g \in held' : Left' < g /\ (Taken' => Left' + 1 < g)
                    /\ \A g \in Frames :
                         /\ output'[g].step = "read" => Left' < g
                         /\ output'[g].step \in {"load", "head"} => Left' < g
                         /\ output'[g].step \in {"read", "load", "head"} => \A k \in held' : g < k
                         /\ output'[g].step \in {"load", "head", "count"} => output'[g].start <= g
                         /\ starts'[g] <= g
  BY DEF AgeInv, Entry, AtStep
<1>w. /\ "raced" \notin flaws' /\ "disorder" \notin flaws'
      /\ "raced" \notin flaws /\ Without({"raced", "disorder"})
  BY FlawsStay DEF Without
<1>q. /\ ~Taken => \A i \in 1 .. count : Entry(i) <= Left + i
      /\ Taken => \A i \in 1 .. count - 1 : Entry(i) <= Left + i + 1
      /\ reader = "count" => Entry(count + 1) <= submitted + 1
      /\ \A g \in held : Left < g /\ (Taken => Left + 1 < g)
      /\ \A g \in Frames :
           /\ output[g].step = "read" => Left < g
           /\ output[g].step \in {"load", "head"} => Left < g
           /\ output[g].step \in {"read", "load", "head"} => \A k \in held : g < k
           /\ output[g].step \in {"load", "head", "count"} => output[g].start <= g
           /\ starts[g] <= g
  BY <1>w DEF AgeInv, AtStep
<1>t. /\ Len(times) \in Nat /\ Len(times) > 0 /\ count \in Nat /\ count <= Len(times)
      /\ submitted \in Nat /\ count <= submitted /\ Left \in Nat /\ Left = submitted - count
      /\ held \subseteq Frames /\ \A g \in Frames : g \in Nat
  BY <1>w DEF TypeInv, SoloInv, Left, Frames
<1>l. Left' = submitted' - count'
  BY DEF Left
<1>1. CASE Submit
  <2>1. Busy = {}
    BY <1>1, <1>w DEF Submit, Seen
  <2>2. ~Taken /\ ~Taken' /\ \A g \in Frames : output[g].step = "idle"
    BY <1>1, <1>w, <2>1, AloneInSubmit DEF Submit, Taken, AtStep
  <2>3. \A i \in 1 .. count : At(times', head', i) = Entry(i) \/ At(times', head', i) = 0
    BY <1>1, <1>t, SubmitEntries
  <2>4. UNCHANGED <<count, submitted, held, output, starts>> /\ reader' = "write"
    BY <1>1 DEF Submit
  <2>5. Left' = Left
    BY <1>l, <1>t, <2>4
  <2>6. \A i \in 1 .. count : At(times', head', i) <= Left + i
    <3> SUFFICES ASSUME NEW i \in 1 .. count
                 PROVE  At(times', head', i) <= Left + i
      OBVIOUS
    <3>1. Entry(i) <= Left + i /\ 0 <= Left + i
      BY <1>q, <1>t, <2>2
    <3> QED BY <2>3, <3>1
  <2> QED BY <1>q, <2>2, <2>4, <2>5, <2>6
<1>2. CASE Write
  <2>1. count < Len(times)
    BY <1>2, <1>w DEF Write, SoloInv
  <2>2. ~Taken /\ ~Taken' /\ \A g \in Frames : output[g].step = "idle"
    BY <1>2, <1>w, AloneInSubmit DEF Write, Taken, AtStep
  <2>3. /\ \A i \in 1 .. count : At(times', head', i) = Entry(i)
        /\ At(times', head', count + 1) = submitted + 1
    BY <1>2, <1>t, <2>1, WriteEntries
  <2>4. UNCHANGED <<count, submitted, held, output, starts>>
    BY <1>2 DEF Write
  <2>5. Left' = Left
    BY <1>l, <1>t, <2>4
  <2> QED BY <1>q, <1>t, <2>2, <2>3, <2>4, <2>5
<1>3. CASE Count
  <2>1. count' = count + 1 /\ submitted' = submitted + 1 /\ reader = "count"
    BY <1>3, <1>w DEF Count, SoloInv
  <2>2. ~Taken /\ ~Taken' /\ \A g \in Frames : output[g].step = "idle"
    BY <1>3, <1>w, AloneInSubmit DEF Count, Taken, AtStep
  <2>3. UNCHANGED <<times, head, output, starts>> /\ reader' = "idle"
        /\ held' = held \cup {submitted + 1}
    BY <1>3 DEF Count
  <2>4. Left' = Left
    BY <1>l, <1>t, <2>1
  <2>5. \A i \in 1 .. count + 1 : Entry(i) <= Left + i
    <3> SUFFICES ASSUME NEW i \in 1 .. count + 1
                 PROVE  Entry(i) <= Left + i
      OBVIOUS
    <3>1. CASE i \in 1 .. count
      BY <1>q, <2>2, <3>1
    <3>2. CASE i = count + 1
      <4>1. Left + i = submitted + 1
        BY <1>t, <3>2
      <4> QED BY <1>q, <2>1, <3>2, <4>1
    <3> QED BY <1>t, <3>1, <3>2
  <2>6. \A g \in held' : Left < g
    BY <1>q, <1>t, <2>3
  <2> QED BY <1>q, <2>1, <2>2, <2>3, <2>4, <2>5, <2>6 DEF Entry
<1>4. CASE WriteTraps \/ UNCHANGED vars
  <2>1. UNCHANGED <<times, head, count, submitted, output, held, starts>>
        /\ (reader' = "count" => reader = "count")
    BY <1>4 DEF WriteTraps, vars
  <2>2. Taken' = Taken /\ Left' = Left
    BY <2>1 DEF Taken, AtStep, Left
  <2> QED BY <1>q, <2>1, <2>2 DEF Entry
<1>5. ASSUME NEW f \in Frames, NoPacket(f)
      PROVE  AgeInv'
  <2>1. UNCHANGED <<times, head, count, submitted, output, reader, starts>> /\ held' \subseteq held
    BY <1>5 DEF NoPacket
  <2>2. Taken' = Taken /\ Left' = Left
    BY <2>1 DEF Taken, AtStep, Left
  <2> QED BY <1>q, <2>1, <2>2 DEF AgeInv, Entry, AtStep
<1>6. ASSUME NEW f \in Frames, Begin(f)
      PROVE  AgeInv'
  <2>1. UNCHANGED <<times, head, count, submitted, reader, starts>>
        /\ f \in held /\ held' = held \ {f}
    BY <1>6 DEF Begin
  <2>2. Busy = {}
    BY <1>6, <1>w DEF Begin, Seen
  <2>3. ~Taken /\ \A g \in Frames : output[g].step = "idle"
    BY <1>w, <2>2, AloneInSubmit DEF Taken, AtStep
  <2>4. \A k \in held' : f < k
    <3>1. \A k \in held : ~(k < f)
      BY <1>6, <1>w DEF Begin, Seen
    <3> QED BY <1>t, <2>1, <3>1
  <2>5. \A g \in Frames : output'[g].step = "idle" \/ (g = f /\ output'[g].step = "read")
    <3>1. CASE IsEmpty
      BY <1>6, <2>3, <3>1 DEF Begin
    <3>2. CASE ~IsEmpty
      <4>1. output' = [output EXCEPT ![f] = [step |-> "read", size |-> Capacity]]
        BY <1>6, <3>2 DEF Begin
      <4>2. /\ output'[f] = [step |-> "read", size |-> Capacity]
            /\ \A g \in Frames : g # f => output'[g] = output[g]
        BY <4>1, OutputEffect
      <4> QED BY <2>3, <4>2
    <3> QED BY <3>1, <3>2
  <2>6. ~Taken' /\ Left' = Left
    BY <2>1, <2>5 DEF Taken, AtStep, Left
  <2>7. Left < f
    BY <1>q, <2>1
  <2> QED BY <1>q, <2>1, <2>3, <2>4, <2>5, <2>6, <2>7 DEF AgeInv, Entry, AtStep
<1>7. ASSUME NEW f \in Frames, Read(f)
      PROVE  AgeInv'
  <2>1. UNCHANGED <<times, head, count, submitted, reader, held, starts>>
        /\ output[f].step = "read"
    BY <1>7 DEF Read
  <2>2. (\A g \in Frames : g # f => output[g].step = "idle") /\ count > 0
    BY <1>w, <2>1, AloneInCallback DEF AtStep
  <2>3. /\ output'[f] = [step |-> "load", start |-> times[head + 1]]
        /\ \A g \in Frames : g # f => output'[g] = output[g]
    BY <1>7, OutputEffect DEF Read
  <2>4. output'[f].step = "load" /\ output'[f].start = times[head + 1]
    BY <2>3
  <2>5. ~Taken /\ ~Taken' /\ Left' = Left
    BY <2>1, <2>2, <2>3, <2>4 DEF Taken, AtStep, Left
  <2>6. output'[f].start <= f
    <3>1. Entry(1) = times[head + 1]
      BY FirstEntry DEF TypeInv, Entry
    <3>2. times[head + 1] \in Nat
      <4>1. head + 1 \in 1 .. Len(times)
        BY <1>t DEF TypeInv
      <4> QED BY <4>1 DEF TypeInv
    <3>3. Entry(1) <= Left + 1
      BY <1>q, <1>t, <2>2, <2>5
    <3>4. Left + 1 <= f
      BY <1>q, <1>t, <2>1
    <3> QED BY <1>t, <2>4, <3>1, <3>2, <3>3, <3>4
  <2> QED BY <1>q, <2>1, <2>2, <2>3, <2>4, <2>5, <2>6 DEF AgeInv, Entry, AtStep
<1>11. ASSUME NEW f \in Frames, Load(f)
      PROVE  AgeInv'
  <2>1. UNCHANGED <<times, head, count, submitted, reader, held, starts>>
        /\ output[f].step = "load"
    BY <1>11 DEF Load
  <2>2. (\A g \in Frames : g # f => output[g].step = "idle") /\ count > 0
    BY <1>w, <2>1, AloneInCallback DEF AtStep
  <2>3. /\ output'[f] = [step |-> "head", start |-> output[f].start, head |-> head]
        /\ \A g \in Frames : g # f => output'[g] = output[g]
    BY <1>11, OutputEffect DEF Load
  <2>4. output'[f].step = "head" /\ output'[f].start = output[f].start
    BY <2>3
  <2>5. ~Taken /\ ~Taken' /\ Left' = Left
    BY <2>1, <2>2, <2>3, <2>4 DEF Taken, AtStep, Left
  <2> QED BY <1>q, <2>1, <2>2, <2>3, <2>4, <2>5 DEF AgeInv, Entry, AtStep
<1>8. ASSUME NEW f \in Frames, Advance(f)
      PROVE  AgeInv'
  <2>1. UNCHANGED <<times, count, submitted, reader, held, starts>>
        /\ output[f].step = "head"
    BY <1>8 DEF Advance
  <2>2. /\ \A g \in Frames : g # f => output[g].step = "idle"
        /\ reader = "idle" /\ count > 0
    BY <1>w, <2>1, AloneInCallback DEF AtStep
  <2>3. /\ output'[f] = [step |-> "count", start |-> output[f].start, count |-> count]
        /\ \A g \in Frames : g # f => output'[g] = output[g]
    BY <1>8, OutputEffect DEF Advance
  <2>4. output'[f].step = "count" /\ output'[f].start = output[f].start
    BY <2>3
  <2>5. ~Taken /\ Taken' /\ Left' = Left
    BY <2>1, <2>2, <2>4 DEF Taken, AtStep, Left
  <2>6. output[f].head = head
    BY <1>w, <2>1 DEF SoloInv, AtStep
  <2>7. \A i \in 1 .. Len(times) : At(times', head', i) = Entry(i + 1)
    BY <1>8, <2>6, AdvanceEntries
  <2>8. \A i \in 1 .. count - 1 : At(times', head', i) <= Left + i + 1
    <3> SUFFICES ASSUME NEW i \in 1 .. count - 1
                 PROVE  At(times', head', i) <= Left + i + 1
      OBVIOUS
    <3>1. i \in 1 .. Len(times) /\ i + 1 \in 1 .. count /\ Left + (i + 1) = Left + i + 1
      BY <1>t
    <3> QED BY <1>q, <2>5, <2>7, <3>1
  <2>9. \A g \in held : Left < g /\ Left + 1 < g
    <3>1. \A g \in held : f < g /\ Left < f
      BY <1>q, <2>1
    <3> QED BY <1>t, <3>1
  <2> QED BY <1>q, <2>1, <2>2, <2>3, <2>4, <2>5, <2>8, <2>9 DEF AgeInv, Entry, AtStep
<1>9. ASSUME NEW f \in Frames, Finish(f)
      PROVE  AgeInv'
  <2>1. UNCHANGED <<times, head, submitted, reader, held>> /\ output[f].step = "count"
        /\ starts' = [starts EXCEPT ![f] = output[f].start]
    BY <1>9 DEF Finish
  <2>2. /\ \A g \in Frames : g # f => output[g].step = "idle"
        /\ reader = "idle" /\ count > 0
    BY <1>w, <2>1, AloneInCallback DEF AtStep
  <2>3. output'[f] = Idle /\ \A g \in Frames : g # f => output'[g] = output[g]
    BY <1>9, OutputEffect DEF Finish
  <2>4. \A g \in Frames : output'[g].step = "idle"
    BY <2>2, <2>3 DEF Idle
  <2>5. Taken /\ ~Taken'
    BY <2>1, <2>4 DEF Taken, AtStep
  <2>6. count' = count - 1
    BY <1>9, <1>w, <2>1 DEF Finish, SoloInv, AtStep
  <2>7. Left' = Left + 1
    BY <1>l, <1>t, <2>1, <2>6
  <2>8. \A g \in Frames : starts'[g] <= g
    <3>1. \A g \in Frames : starts'[g] = IF g = f THEN output[f].start ELSE starts[g]
      BY <2>1 DEF TypeInv
    <3> QED BY <1>q, <2>1, <3>1
  <2>9. \A i \in 1 .. count' : At(times', head', i) <= Left' + i
    <3> SUFFICES ASSUME NEW i \in 1 .. count'
                 PROVE  At(times', head', i) <= Left' + i
      OBVIOUS
    <3>1. i \in 1 .. count - 1 /\ Left' + i = Left + i + 1
      BY <1>t, <2>6, <2>7
    <3>2. At(times', head', i) = Entry(i)
      BY <2>1 DEF Entry
    <3> QED BY <1>q, <2>5, <3>1, <3>2
  <2>10. \A g \in held' : Left' < g
    BY <1>q, <2>1, <2>5, <2>7
  <2> QED BY <2>1, <2>2, <2>4, <2>5, <2>8, <2>9, <2>10 DEF AgeInv, Entry, AtStep
<1>10. CASE AgeInv'
  BY <1>10 DEF AgeInv, Entry, AtStep
<1> QED BY <1>1, <1>2, <1>3, <1>4, <1>5, <1>6, <1>7, <1>8, <1>9, <1>10, <1>11
        DEF Next, Step, Terminated

\* One operation at a time and callbacks in order, no frame is measured from a
\* time later than its own, whatever growing has done to the ring.
THEOREM NeverTooShort == Spec => []NeverUnderestimates
<1> DEFINE Inv == TypeInv /\ SoloInv /\ AgeInv
<1>1. Init => Inv
  BY TypeInit, SoloInit, AgeInit
<1>2. Inv /\ [Next]_vars => Inv'
  BY TypeStep, SoloStep, AgeStep
<1>3. Inv => NeverUnderestimates
  BY DEF AgeInv, NeverUnderestimates
<1> HIDE DEF Inv
<1> QED BY <1>1, <1>2, <1>3, PTL DEF Spec

\* All of it at once.
THEOREM LatencyInvariant == Spec => []LatencyInv
<1> USE DEF LatencyInv
<1>1. Init => LatencyInv
  BY TypeInit, SoloInit, QueueInit, AgeInit, CrashInit
<1>2. LatencyInv /\ [Next]_vars => LatencyInv'
  BY TypeStep, SoloStep, QueueStep, AgeStep, CrashStep
<1> QED BY <1>1, <1>2, PTL DEF Spec
===============================================================================
