----------------------------- MODULE LatencyTracker -----------------------------
(***************************************************************************)
(* The ring in which LatencyTracker keeps the times of submitted frames,   *)
(* and its use through ClientStats: recordSubmit on the thread that reads  *)
(* messages, recordOutput on the threads of the output callbacks, without  *)
(* a lock.  An operation is split where another thread can come between    *)
(* its loads and its stores.                                               *)
(*                                                                         *)
(* The time of a frame is its number; 0 is what the ring is filled with.   *)
(* discardOne has no caller, so it is not here.                            *)
(***************************************************************************)
EXTENDS Integers, Sequences, FiniteSets

CONSTANTS
    InitialCapacity,    \* of the ring
    NumFrames,          \* frames submitted
    MaxRunning          \* output callbacks at the same time

ASSUME LatencyAssumption ==
    /\ InitialCapacity \in Nat \ {0}
    /\ NumFrames \in Nat
    /\ MaxRunning \in Nat \ {0}

VARIABLES
    times, head, count,     \* the ring
    submitted,              \* frames submitted
    reader,                 \* step of submit: "idle", "write", "count"
    loaded,                 \* the count submit has loaded
    held,                   \* frames whose callback has not begun
    output,                 \* output[f]: the step of f's output, what it loaded
    crash,                  \* "none", "index" (a negative subscript traps) or
                            \* "freed" (the array was replaced under a load)
    fifo,                   \* history: a queue put through the same calls
    starts,                 \* history: starts[f]: the time f is measured from
    flaws                   \* history: what has happened, of Flaws

vars == <<times, head, count, submitted, reader, loaded, held, output, crash,
          fifo, starts, flaws>>

Flaws ==
    { "raced",          \* two operations at the same time
      "overlapped",     \* both of them callbacks
      "grown",          \* the ring grew during a callback
      "scrambled",      \* the ring grew with its head not at the front
      "disorder" }      \* a callback before that of an earlier frame

Frames == 1 .. NumFrames
Idle == [step |-> "idle"]
Busy == {f \in Frames : output[f] # Idle}
Capacity == Len(times)
Seen(flaw, condition) == IF condition THEN {flaw} ELSE {}

Init ==
    /\ times = [i \in 1 .. InitialCapacity |-> 0]
    /\ head = 0 /\ count = 0
    /\ submitted = 0
    /\ reader = "idle" /\ loaded = 0
    /\ held = {}
    /\ output = [f \in Frames |-> Idle]
    /\ crash = "none"
    /\ fifo = <<>>
    /\ starts = [f \in Frames |-> 0]
    /\ flaws = {}

-------------------------------------------------------------------------------
(***************************************************************************)
(* submit, of the frame after the last.                                    *)
(***************************************************************************)

\* Mutated form: the ring is found full one entry too late.
MutFull == count > Capacity

Full == count = Capacity

\* The ring doubles by appending: entries that had wrapped stay at the front.
Submit ==
    /\ reader = "idle"
    /\ submitted < NumFrames
    /\ reader' = "write"
    /\ times' = IF Full THEN times \o [i \in 1 .. Capacity |-> 0] ELSE times
    /\ flaws' = flaws \cup Seen("raced", Busy # {})
                      \cup Seen("grown", Full /\ Busy # {})
                      \cup Seen("scrambled", Full /\ head # 0)
    /\ UNCHANGED <<head, count, submitted, loaded, held, output, crash, fifo, starts>>

Write ==
    /\ reader = "write"
    /\ head + count >= 0
    /\ times' = [times EXCEPT ![((head + count) % Capacity) + 1] = submitted + 1]
    /\ loaded' = count
    /\ reader' = "count"
    /\ UNCHANGED <<head, count, submitted, held, output, crash, fifo, starts, flaws>>

WriteTraps ==
    /\ reader = "write"
    /\ head + count < 0
    /\ crash' = "index"
    /\ UNCHANGED <<times, head, count, submitted, reader, loaded, held, output,
                   fifo, starts, flaws>>

\* The frame is counted, and the reader gives it to the codec session.
Count ==
    /\ reader = "count"
    /\ count' = loaded + 1
    /\ submitted' = submitted + 1
    /\ fifo' = Append(fifo, submitted')
    /\ held' = held \cup {submitted'}
    /\ reader' = "idle"
    /\ UNCHANGED <<times, head, loaded, output, crash, starts, flaws>>

-------------------------------------------------------------------------------
(***************************************************************************)
(* output, in the callback of frame f.                                     *)
(***************************************************************************)

\* Mutated form: the guard is left out.
MutIsEmpty == FALSE

IsEmpty == count = 0

Begin(f) ==
    /\ f \in held
    /\ Cardinality(Busy) < MaxRunning
    /\ held' = held \ {f}
    /\ output' = IF IsEmpty THEN output
                 ELSE [output EXCEPT ![f] = [step |-> "read", size |-> Capacity]]
    /\ flaws' = flaws \cup Seen("raced", Busy # {} \/ reader # "idle")
                      \cup Seen("overlapped", Busy # {})
                      \cup Seen("disorder", \E g \in held \cup Busy : g < f)
    /\ UNCHANGED <<times, head, count, submitted, reader, loaded, crash, fifo, starts>>

\* An array that submit has replaced in the meantime may be freed memory.
Read(f) ==
    /\ output[f].step = "read"
    /\ crash' \in {"none"} \cup Seen("freed", Capacity # output[f].size)
    /\ output' = [output EXCEPT ![f] = [step |-> "load", start |-> times[head + 1]]]
    /\ UNCHANGED <<times, head, count, submitted, reader, loaded, held, fifo, starts, flaws>>

\* The head is loaded again, to be advanced.
Load(f) ==
    /\ output[f].step = "load"
    /\ output' = [output EXCEPT ![f] = [step |-> "head", start |-> @.start, head |-> head]]
    /\ UNCHANGED <<times, head, count, submitted, reader, loaded, held, crash,
                   fifo, starts, flaws>>

\* Mutated form: one entry too far.
MutAdvanced(h) == (h + 2) % Capacity

Advanced(h) == (h + 1) % Capacity

Advance(f) ==
    /\ output[f].step = "head"
    /\ head' = Advanced(output[f].head)
    /\ output' = [output EXCEPT ![f] =
                     [step |-> "count", start |-> @.start, count |-> count]]
    /\ UNCHANGED <<times, count, submitted, reader, loaded, held, crash, fifo, starts, flaws>>

Finish(f) ==
    /\ output[f].step = "count"
    /\ count' = output[f].count - 1
    /\ starts' = [starts EXCEPT ![f] = output[f].start]
    /\ output' = [output EXCEPT ![f] = Idle]
    /\ fifo' = IF fifo = <<>> THEN fifo ELSE Tail(fifo)
    /\ UNCHANGED <<times, head, submitted, reader, loaded, held, crash, flaws>>

\* A frame whose callback sends no packet: dropped, or skipped as a duplicate.
NoPacket(f) ==
    /\ f \in held
    /\ held' = held \ {f}
    /\ UNCHANGED <<times, head, count, submitted, reader, loaded, output, crash,
                   fifo, starts, flaws>>

-------------------------------------------------------------------------------
Step ==
    \/ Submit \/ Write \/ WriteTraps \/ Count
    \/ \E f \in Frames :
          Begin(f) \/ Read(f) \/ Load(f) \/ Advance(f) \/ Finish(f) \/ NoPacket(f)

Terminated ==
    /\ crash # "none" \/ (submitted = NumFrames /\ held \cup Busy = {})
    /\ UNCHANGED vars

Next ==
    \/ crash = "none" /\ Step
    \/ Terminated

Spec == Init /\ [][Next]_vars

-------------------------------------------------------------------------------
(***************************************************************************)
(* Properties.                                                             *)
(***************************************************************************)
Without(some) == flaws \cap some = {}

\* One operation at a time, the ring is the queue it stands for, across wrapping
\* and growing - except that growing with the head not at the front loses what
\* had wrapped.
RingIsQueue ==
    Without({"raced", "scrambled"}) /\ reader = "idle" /\ Busy = {} =>
        fifo = [i \in 1 .. count |-> times[((head + i - 1) % Capacity) + 1]]

\* What the missing lock can cost: with one callback at a time only an array
\* freed under it; the negative count, on which the reader's next subscript
\* traps and takes the daemon with it, needs two callbacks.
CrashExplained ==
    /\ crash = "index" => "overlapped" \in flaws
    /\ crash = "freed" => "grown" \in flaws

\* One operation at a time and callbacks in order, no frame is measured from a
\* later time than its own, although frames without a packet leave their times
\* in the ring and growing can scramble it: a latency reported can be too long,
\* by any amount, and never too short.
NeverUnderestimates ==
    Without({"raced", "disorder"}) => \A f \in Frames : starts[f] <= f
===============================================================================
