---------------------------- MODULE DecSessionProofs ----------------------------
(***************************************************************************)
(* A decode session implements the decode service, and loses no frame when *)
(* it ends without an error, for every number of packets, every buffer     *)
(* size and all faults at once.                                            *)
(*                                                                         *)
(* The argument follows packets through the four places where they can be: *)
(* on the way to the server, in the decoder, on the way back, and with the *)
(* application.  Within a place they are in order, and each place is ahead *)
(* of the next.  The frames made are followed in the same way: those the   *)
(* application has not got are on their way without a gap, so what is read *)
(* next is the next one, and DONE or the end of the server's stream, which *)
(* come after all of them, find none missing.                              *)
(***************************************************************************)
EXTENDS DecSession, TLAPS

-------------------------------------------------------------------------------
(***************************************************************************)
(* Sequences.                                                              *)
(***************************************************************************)

\* Reading the head of a sequence.
LEMMA HeadAndTail ==
    ASSUME NEW M, NEW s \in Seq(M), s # <<>>
    PROVE  /\ Head(s) \in M /\ Head(s) = s[1] /\ 1 \in DOMAIN s
           /\ Tail(s) \in Seq(M) /\ Len(Tail(s)) = Len(s) - 1
           /\ \A i \in DOMAIN Tail(s) : i \in Int /\ i + 1 \in DOMAIN s /\ Tail(s)[i] = s[i + 1]
OBVIOUS

\* The elements of a sequence with one more at the end.
LEMMA AppendElements ==
    ASSUME NEW M, NEW s \in Seq(M), NEW m \in M
    PROVE  /\ Append(s, m) \in Seq(M)
           /\ ToSet(Append(s, m)) = ToSet(s) \cup {m}
           /\ s \o <<m>> = Append(s, m)
<1>1. \A i \in DOMAIN Append(s, m) :
         \/ i \in DOMAIN s /\ Append(s, m)[i] = s[i]
         \/ i = Len(s) + 1 /\ Append(s, m)[i] = m
  OBVIOUS
<1>2. /\ \A i \in DOMAIN s : i \in DOMAIN Append(s, m) /\ Append(s, m)[i] = s[i]
      /\ Len(s) + 1 \in DOMAIN Append(s, m) /\ Append(s, m)[Len(s) + 1] = m
  OBVIOUS
<1>3. ToSet(Append(s, m)) = ToSet(s) \cup {m}
  BY <1>1, <1>2 DEF ToSet
<1> QED
  BY <1>3

\* Taking an element out of a sequence leaves a sequence, one shorter.
LEMMA RemoveAtShortens ==
    ASSUME NEW M, NEW s \in Seq(M), NEW i \in DOMAIN s
    PROVE  RemoveAt(s, i) \in Seq(M) /\ Len(RemoveAt(s, i)) = Len(s) - 1
BY DEF RemoveAt

\* Taking the element out of a sequence of at most one leaves none.
LEMMA RemoveOnly ==
    ASSUME NEW M, NEW s \in Seq(M), Len(s) <= 1, NEW i \in DOMAIN s
    PROVE  RemoveAt(s, i) \in Seq(M) /\ Len(RemoveAt(s, i)) = 0 /\ ToSet(RemoveAt(s, i)) = {}
<1> DEFINE r == RemoveAt(s, i)
<1>0. r \in Seq(M) /\ Len(r) = Len(s) - 1
  BY RemoveAtShortens
<1> HIDE DEF r
<1>1. Len(r) = 0
  BY <1>0
<1>2. DOMAIN r = {}
  BY <1>0, <1>1
<1>3. ToSet(r) = {}
  BY <1>2 DEF ToSet
<1> QED
  BY <1>0, <1>1, <1>3 DEF r

-------------------------------------------------------------------------------
(***************************************************************************)
(* The packets named by the messages of type t of a direction s, and their *)
(* order in it.                                                            *)
(***************************************************************************)
Coming(s, t) == {s[i].packet : i \in {k \in DOMAIN s : s[k].type = t}}

InOrder(s, t) ==
    \A i, j \in DOMAIN s :
        i < j /\ s[i].type = t /\ s[j].type = t => s[i].packet < s[j].packet

\* An empty direction.
LEMMA ComingEmpty ==
    ASSUME NEW t
    PROVE  Coming(<<>>, t) = {} /\ InOrder(<<>>, t)
BY DEF Coming, InOrder

\* A message of another type is written.
LEMMA ComingAppendOther ==
    ASSUME NEW M, NEW s \in Seq(M), NEW m \in M, NEW t, m.type # t, InOrder(s, t)
    PROVE  Coming(Append(s, m), t) = Coming(s, t) /\ InOrder(Append(s, m), t)
<1>1. \A i \in DOMAIN Append(s, m) :
         \/ i \in DOMAIN s /\ Append(s, m)[i] = s[i]
         \/ i = Len(s) + 1 /\ Append(s, m)[i] = m
  OBVIOUS
<1>2. \A i \in DOMAIN s : i \in DOMAIN Append(s, m) /\ Append(s, m)[i] = s[i]
  OBVIOUS
<1>3. Coming(Append(s, m), t) = Coming(s, t)
  BY <1>1, <1>2 DEF Coming
<1> QED
  BY <1>1, <1>3 DEF InOrder

\* A message of the type is written, beyond all that are there.
LEMMA ComingAppendNext ==
    ASSUME NEW M, NEW s \in Seq(M), NEW m \in M, NEW t, m.type = t, InOrder(s, t),
           \A p \in Coming(s, t) : p < m.packet
    PROVE  Coming(Append(s, m), t) = Coming(s, t) \cup {m.packet} /\ InOrder(Append(s, m), t)
<1>1. \A i \in DOMAIN Append(s, m) :
         \/ i \in DOMAIN s /\ Append(s, m)[i] = s[i]
         \/ i = Len(s) + 1 /\ Append(s, m)[i] = m
  OBVIOUS
<1>2. /\ \A i \in DOMAIN s : i \in DOMAIN Append(s, m) /\ Append(s, m)[i] = s[i]
      /\ Len(s) + 1 \in DOMAIN Append(s, m) /\ Append(s, m)[Len(s) + 1] = m
  OBVIOUS
<1>3. Coming(Append(s, m), t) = Coming(s, t) \cup {m.packet}
  BY <1>1, <1>2 DEF Coming
<1>4. ASSUME NEW i \in DOMAIN Append(s, m), NEW j \in DOMAIN Append(s, m), i < j,
             Append(s, m)[i].type = t, Append(s, m)[j].type = t
      PROVE  Append(s, m)[i].packet < Append(s, m)[j].packet
  <2>1. DOMAIN s = 1 .. Len(s) /\ DOMAIN Append(s, m) = 1 .. Len(s) + 1 /\ Len(s) \in Nat
    OBVIOUS
  <2>2. i \in DOMAIN s /\ Append(s, m)[i] = s[i]
    BY <1>2, <1>4, <2>1
  <2>3. CASE j \in DOMAIN s
    BY <1>2, <1>4, <2>2, <2>3 DEF InOrder
  <2>4. CASE j = Len(s) + 1
    BY <1>2, <1>4, <2>2, <2>4 DEF Coming
  <2> QED
    BY <1>1, <2>3, <2>4
<1> QED
  BY <1>3, <1>4 DEF InOrder

\* A message is read; one of the type came before all others of it.
LEMMA ComingTail ==
    ASSUME NEW M, NEW s \in Seq(M), s # <<>>, NEW t, InOrder(s, t)
    PROVE  /\ Coming(Tail(s), t) \subseteq Coming(s, t)
           /\ InOrder(Tail(s), t)
           /\ Head(s).type = t => /\ Head(s).packet \in Coming(s, t)
                                  /\ \A p \in Coming(Tail(s), t) : Head(s).packet < p
<1>1. /\ Head(s) = s[1] /\ 1 \in DOMAIN s
      /\ \A i \in DOMAIN Tail(s) : i \in Int /\ i + 1 \in DOMAIN s /\ Tail(s)[i] = s[i + 1]
                                   /\ 1 < i + 1
  BY HeadAndTail
<1>2. \A i, j \in DOMAIN Tail(s) : i < j => i + 1 < j + 1
  BY <1>1
<1>3. Coming(Tail(s), t) \subseteq Coming(s, t)
  BY <1>1 DEF Coming
<1>4. InOrder(Tail(s), t)
  BY <1>1, <1>2 DEF InOrder
<1>5. ASSUME Head(s).type = t
      PROVE  /\ Head(s).packet \in Coming(s, t)
             /\ \A p \in Coming(Tail(s), t) : Head(s).packet < p
  BY <1>1, <1>5 DEF Coming, InOrder
<1> QED
  BY <1>3, <1>4, <1>5

\* A suffix is lost.
LEMMA ComingPrefix ==
    ASSUME NEW M, NEW s \in Seq(M), NEW n \in 0 .. Len(s), NEW t, InOrder(s, t)
    PROVE  /\ SubSeq(s, 1, n) \in Seq(M)
           /\ Coming(SubSeq(s, 1, n), t) \subseteq Coming(s, t)
           /\ InOrder(SubSeq(s, 1, n), t)
<1>1. /\ SubSeq(s, 1, n) \in Seq(M)
      /\ \A i \in DOMAIN SubSeq(s, 1, n) : i \in DOMAIN s /\ SubSeq(s, 1, n)[i] = s[i]
  OBVIOUS
<1> QED
  BY <1>1 DEF Coming, InOrder

\* Direction r is a suffix of s, perhaps behind a part of what was before it.
Behind(s, r) ==
    \E k \in Nat : \A i \in DOMAIN r :
        /\ i \in Nat
        /\ r[i].type = "PART" \/ (i + k \in DOMAIN s /\ r[i] = s[i + k])

\* Nothing is put in order that was not.
LEMMA ComingBehind ==
    ASSUME NEW s, NEW r, Behind(s, r), NEW t, t # "PART", InOrder(s, t)
    PROVE  Coming(r, t) \subseteq Coming(s, t) /\ InOrder(r, t)
<1>1. PICK k \in Nat : \A i \in DOMAIN r :
         i \in Nat /\ (r[i].type = "PART" \/ (i + k \in DOMAIN s /\ r[i] = s[i + k]))
  BY DEF Behind
<1>2. \A i \in DOMAIN r : r[i].type = t => i \in Nat /\ i + k \in DOMAIN s /\ r[i] = s[i + k]
  BY <1>1
<1>3. Coming(r, t) \subseteq Coming(s, t)
  BY <1>2 DEF Coming
<1>4. ASSUME NEW i \in DOMAIN r, NEW j \in DOMAIN r, i < j, r[i].type = t, r[j].type = t
      PROVE  r[i].packet < r[j].packet
  <2>1. i + k < j + k
    BY <1>2, <1>4
  <2> QED
    BY <1>2, <1>4, <2>1 DEF InOrder
<1> QED
  BY <1>3, <1>4 DEF InOrder

\* What is behind the n-th element, with and without a part in front.
LEMMA SuffixBehind ==
    ASSUME NEW M, NEW s \in Seq(M), NEW n \in 2 .. Len(s), NEW m \in M, m.type = "PART"
    PROVE  LET rest == SubSeq(s, n + 1, Len(s))
           IN  /\ rest \in Seq(M) /\ Behind(s, rest)
               /\ <<m>> \o rest \in Seq(M) /\ Behind(s, <<m>> \o rest)
<1> DEFINE rest == SubSeq(s, n + 1, Len(s))
           r == <<m>> \o rest
<1>1. rest \in Seq(M)
  OBVIOUS
<1>2. \A i \in DOMAIN rest : i \in Nat /\ i + n \in DOMAIN s /\ rest[i] = s[i + n]
  OBVIOUS
<1>3. n \in Nat /\ n - 1 \in Nat
  OBVIOUS
<1> HIDE DEF rest
<1>4. <<m>> \in Seq(M) /\ Len(<<m>>) = 1 /\ <<m>>[1] = m
  OBVIOUS
<1>5. r \in Seq(M)
  BY <1>1, <1>4
<1>6. \A i \in DOMAIN r : i \in Nat /\ (r[i] = m \/ (i - 1 \in DOMAIN rest /\ r[i] = rest[i - 1]))
  BY <1>1, <1>4
<1> HIDE DEF r
<1>7. Behind(s, rest)
  BY <1>2, <1>3 DEF Behind
<1>8. \A i \in DOMAIN r : i \in Nat /\ (r[i].type = "PART" \/ (i + (n - 1) \in DOMAIN s /\ r[i] = s[i + (n - 1)]))
  <2> SUFFICES ASSUME NEW i \in DOMAIN r, r[i] # m
               PROVE  i + (n - 1) \in DOMAIN s /\ r[i] = s[i + (n - 1)]
    BY <1>6
  <2>1. i \in Nat /\ i - 1 \in DOMAIN rest /\ r[i] = rest[i - 1]
    BY <1>6
  <2>2. i - 1 + n \in DOMAIN s /\ rest[i - 1] = s[i - 1 + n]
    BY <1>2, <2>1
  <2>3. i - 1 + n = i + (n - 1)
    BY <1>3, <2>1
  <2> QED
    BY <2>1, <2>2, <2>3
<1>9. Behind(s, r)
  BY <1>3, <1>8 DEF Behind
<1> QED
  BY <1>1, <1>5, <1>7, <1>9 DEF r, rest

-------------------------------------------------------------------------------
(***************************************************************************)
(* Type correctness.                                                       *)
(***************************************************************************)

\* Client sends keep the stream well typed.
LEMMA ClientSendType ==
    ASSUME StreamTypeOK, NEW m \in DecClientMsg, ClientSend(m)
    PROVE  c2s' \in Seq(DecClientMsg) /\ tx' \in {"ok", "refused", "dead"} /\ torn' \in BOOLEAN
BY DEF StreamTypeOK, ClientSend

\* A send that fails writes nothing, or a part.
LEMMA FailedSend ==
    ASSUME ClientSendFails(NoFrame)
    PROVE  /\ UNCHANGED tx
           /\ \/ UNCHANGED c2s
              \/ \E m \in DecClientMsg : m.type = "PART" /\ c2s' = Append(c2s, m)
           /\ ~torn' => UNCHANGED <<c2s, torn>>
<1>1. CASE NothingWritten
  BY <1>1 DEF NothingWritten
<1>2. CASE PartWritten(NoFrame)
  <2>1. PICK m \in DecClientMsg : m = [type |-> "PART", frame |-> NoFrame]
    BY DEF DecClientMsg, PartMsg
  <2>2. c2s' = Append(c2s, m) /\ UNCHANGED tx /\ torn' = TRUE /\ m.type = "PART"
    BY <1>2, <2>1 DEF PartWritten
  <2> QED
    BY <2>2
<1> QED
  BY <1>1, <1>2 DEF ClientSendFails

\* Such sends keep it well typed too.
LEMMA FailedSendType ==
    ASSUME StreamTypeOK, ClientSendFails(NoFrame)
    PROVE  c2s' \in Seq(DecClientMsg) /\ tx' \in {"ok", "refused", "dead"} /\ torn' \in BOOLEAN
<1>1. torn' \in BOOLEAN
  BY DEF ClientSendFails, NothingWritten, PartWritten, StreamTypeOK
<1>2. c2s \in Seq(DecClientMsg) /\ tx \in {"ok", "refused", "dead"}
  BY DEF StreamTypeOK
<1>3. ASSUME NEW m \in DecClientMsg, c2s' = Append(c2s, m)
      PROVE  c2s' \in Seq(DecClientMsg)
  BY <1>2, <1>3
<1> QED
  BY <1>1, <1>2, <1>3, FailedSend

\* A call that cannot send and is not told to try again finds the connection dead.
LEMMA SubmitFailsDead ==
    ASSUME SubmitFails, SendError # "EAGAIN"
    PROVE  SendError = "EPIPE" /\ Return(SendError, <<>>) /\ UNCHANGED wireVars
<1>1. tx = "dead" /\ SendError = "EPIPE"
  BY DEF SendError
<1>2. ~PartWritten(NoFrame)
  BY <1>1 DEF PartWritten
<1> QED
  BY <1>1, <1>2 DEF SubmitFails, ClientSendFails, NothingWritten, wireVars

\* What is left behind a message put together from others.
LEMMA SplicedBehind ==
    ASSUME StreamTypeOK, ReadSpliced
    PROVE  c2s' \in Seq(DecClientMsg) /\ Behind(c2s, c2s')
<1>1. PICK m \in DecClientMsg : m = [type |-> "PART", frame |-> NoFrame]
  BY DEF DecClientMsg, PartMsg
<1>2. PICK n \in 2 .. Len(c2s) :
         c2s' = SubSeq(c2s, n + 1, Len(c2s)) \/ c2s' = <<m>> \o SubSeq(c2s, n + 1, Len(c2s))
  BY <1>1 DEF ReadSpliced
<1>3. c2s \in Seq(DecClientMsg) /\ m.type = "PART"
  BY <1>1 DEF StreamTypeOK
<1> DEFINE rest == SubSeq(c2s, n + 1, Len(c2s))
<1>4. /\ rest \in Seq(DecClientMsg) /\ Behind(c2s, rest)
      /\ <<m>> \o rest \in Seq(DecClientMsg) /\ Behind(c2s, <<m>> \o rest)
  BY <1>3, SuffixBehind
<1>5. c2s' = rest \/ c2s' = <<m>> \o rest
  BY <1>2
<1> HIDE DEF rest
<1> QED
  BY <1>4, <1>5

\* So do server sends.
LEMMA ServerSendType ==
    ASSUME StreamTypeOK, NEW m \in DecServerMsg, ServerSend(m)
    PROVE  s2c' \in Seq(DecServerMsg)
BY DEF StreamTypeOK, ServerSend

\* A FRAME at the head of the server's stream names a packet.
LEMMA FrameAtHead ==
    ASSUME StreamTypeOK, ClientSees("FRAME")
    PROVE  s2c # <<>> /\ Head(s2c).packet \in Frames
BY HeadAndTail DEF StreamTypeOK, ClientSees, DecServerMsg

\* A PACKET at the head of the client's stream does.
LEMMA PacketAtHead ==
    ASSUME StreamTypeOK, ServerSees("PACKET")
    PROVE  c2s # <<>> /\ Head(c2s).packet \in Frames
BY HeadAndTail DEF StreamTypeOK, ServerSees, DecClientMsg, PartMsg

\* What a return without a frame does, whatever its code.
Returned ==
    /\ pc' = "app"
    /\ arg' = NoPacket
    /\ ret' \in {"OK", "EOF"} \cup Fatal
    /\ delivered' = delivered
    /\ drained' \in BOOLEAN
    /\ drainErrors' \in 0 .. MaxDrainErrors + 1
    /\ nextPacket' = nextPacket
    /\ draining' = draining

\* Errors are counted as far as the limit.
LEMMA ErrorsCounted ==
    ASSUME ClientTypeOK, NEW code, NEW frames, Return(code, frames)
    PROVE  drainErrors' \in 0 .. MaxDrainErrors + 1
<1>1. \/ drainErrors' = drainErrors + 1 /\ drainErrors <= MaxDrainErrors
      \/ drainErrors' = drainErrors
  BY DEF Return
<1> QED
  BY <1>1, DecAssumption DEF ClientTypeOK

\* Whether a call ends the stream is a Boolean.
LEMMA EndsBoolean ==
    ASSUME NEW code, NEW frames, Return(code, frames)
    PROVE  drained' \in BOOLEAN
<1>1. Ends(code, frames) \in BOOLEAN
  BY Zenon DEF Ends
<1> QED
  BY <1>1 DEF Return

\* Every return without a frame is one of these.
LEMMA ReturnNothing ==
    ASSUME ClientTypeOK, NEW code \in {"OK", "EOF", "EIO", "EPIPE"}, Return(code, <<>>)
    PROVE  Returned
<1>1. delivered \in Seq(Frames)
  BY DEF ClientTypeOK
<1>2. delivered \o <<>> = delivered
  BY <1>1
<1>3. delivered' = delivered
  BY <1>2 DEF Return
<1>4. ret' \in {"OK", "EOF"} \cup Fatal
  BY DEF Return, Fatal
<1> QED
  BY <1>3, <1>4, ErrorsCounted, EndsBoolean DEF Return, Returned

\* A return with a frame does not end the stream.
LEMMA ReturnFrame ==
    ASSUME ClientTypeOK, NEW p \in Frames, Return("OK", <<p>>)
    PROVE  /\ pc' = "app" /\ arg' = NoPacket /\ ret' = "OK"
           /\ delivered' = Append(delivered, p) /\ drained' = FALSE
           /\ drainErrors' \in 0 .. MaxDrainErrors + 1
           /\ nextPacket' = nextPacket /\ draining' = draining
<1>1. delivered \in Seq(Frames)
  BY DEF ClientTypeOK
<1>2. delivered \o <<p>> = Append(delivered, p)
  BY <1>1, AppendElements
<1>3. <<p>> # <<>> /\ "OK" \notin Fatal
  BY DEF Fatal
<1>4. Ends("OK", <<p>>) = FALSE
  BY <1>3, Zenon DEF Ends
<1>5. drained' = FALSE
  BY <1>4, Zenon DEF Return
<1>6. drainErrors' \in 0 .. MaxDrainErrors + 1
  BY ErrorsCounted
<1>7. /\ pc' = "app" /\ arg' = NoPacket /\ ret' = "OK"
      /\ delivered' = delivered \o <<p>>
      /\ nextPacket' = nextPacket /\ draining' = draining
  BY DEF Return
<1> QED
  BY <1>2, <1>5, <1>6, <1>7

\* The step of the client that writes or reads the connection keeps the types.
LEMMA CallType ==
    ASSUME ClientTypeOK, StreamTypeOK, Call
    PROVE  ClientTypeOK' /\ StreamTypeOK'
<1> USE DecAssumption
<1>1. CASE SubmitPacket
  <2>1. arg \in Frames
    BY <1>1 DEF SubmitPacket, ClientTypeOK, NoPacket
  <2>2. [type |-> "PACKET", packet |-> arg] \in DecClientMsg
    BY <2>1 DEF DecClientMsg
  <2>3. c2s' \in Seq(DecClientMsg) /\ tx' \in {"ok", "refused", "dead"} /\ torn' \in BOOLEAN
    BY <1>1, <2>2, ClientSendType DEF SubmitPacket
  <2>4. sentPackets' \in Seq(Frames)
    BY <1>1, <2>1 DEF SubmitPacket, ClientTypeOK
  <2>5. ClientTypeOK'
    BY <1>1, <2>4 DEF SubmitPacket, Reading, ClientTypeOK
  <2> QED
    BY <1>1, <2>3, <2>5 DEF SubmitPacket, StreamTypeOK
<1>2. CASE SubmitFlush
  <2>1. [type |-> "FLUSH"] \in DecClientMsg
    BY DEF DecClientMsg
  <2>2. c2s' \in Seq(DecClientMsg) /\ tx' \in {"ok", "refused", "dead"} /\ torn' \in BOOLEAN
    BY <1>2, <2>1, ClientSendType DEF SubmitFlush
  <2> QED
    BY <1>2, <2>2 DEF SubmitFlush, Reading, ClientTypeOK, StreamTypeOK
<1>3. CASE FlushSent
  BY <1>3 DEF FlushSent, Reading, ClientTypeOK, StreamTypeOK, wireVars
<1>4. CASE SubmitFails
  <2>1. flushing' \in BOOLEAN
    BY <1>4, Zenon DEF SubmitFails, ClientTypeOK
  <2>2. CASE SendError = "EAGAIN"
    <3>1. c2s' \in Seq(DecClientMsg) /\ tx' \in {"ok", "refused", "dead"} /\ torn' \in BOOLEAN
      BY <1>4, FailedSendType DEF SubmitFails
    <3>2. /\ pc' = "aborted" /\ c2sEnd' = "fin"
          /\ UNCHANGED <<arg, nextPacket, sentPackets, done, draining, drained, drainErrors, ret,
                         delivered, cutShort, s2c, s2cEnd>>
      BY <1>4, <2>2 DEF SubmitFails
    <3> QED
      BY <2>1, <3>1, <3>2 DEF ClientTypeOK, StreamTypeOK
  <2>3. CASE SendError # "EAGAIN"
    <3>1. SendError = "EPIPE" /\ Return(SendError, <<>>) /\ UNCHANGED wireVars
      BY <1>4, <2>3, SubmitFailsDead
    <3>2. Returned
      BY <3>1, ReturnNothing
    <3> QED
      BY <1>4, <2>1, <3>1, <3>2 DEF SubmitFails, Returned, ClientTypeOK, StreamTypeOK, wireVars
  <2> QED
    BY <2>2, <2>3
<1>5. CASE ReadFrame
  <2>1. s2c # <<>> /\ Head(s2c).packet \in Frames
    BY <1>5, FrameAtHead DEF ReadFrame
  <2>2. /\ pc' = "app" /\ arg' = NoPacket /\ ret' = "OK"
        /\ delivered' = Append(delivered, Head(s2c).packet) /\ drained' = FALSE
        /\ drainErrors' \in 0 .. MaxDrainErrors + 1
        /\ nextPacket' = nextPacket /\ draining' = draining
    BY <1>5, <2>1, ReturnFrame DEF ReadFrame
  <2>3. delivered' \in Seq(Frames)
    BY <2>1, <2>2 DEF ClientTypeOK
  <2>4. s2c' \in Seq(DecServerMsg)
    BY <1>5, <2>1, HeadAndTail DEF ReadFrame, StreamTypeOK
  <2> QED
    BY <1>5, <2>2, <2>3, <2>4 DEF ReadFrame, ClientTypeOK, StreamTypeOK
<1>6. CASE ReadDone
  <2>1. Returned
    BY <1>6, ReturnNothing DEF ReadDone
  <2>2. s2c' \in Seq(DecServerMsg)
    BY <1>6, HeadAndTail DEF ReadDone, ClientSees, StreamTypeOK
  <2> QED
    BY <1>6, <2>1, <2>2 DEF ReadDone, Returned, ClientTypeOK, StreamTypeOK
<1>7. CASE ReadFails
  <2>1. Returned
    BY <1>7, ReturnNothing DEF ReadFails
  <2>2. s2c' \in Seq(DecServerMsg)
    BY <1>7, HeadAndTail DEF ReadFails, ClientSees, StreamTypeOK
  <2> QED
    BY <1>7, <2>1, <2>2 DEF ReadFails, Returned, ClientTypeOK, StreamTypeOK
<1>8. CASE ReadTimeout
  <2>1. Returned
    BY <1>8, ReturnNothing DEF ReadTimeout
  <2>2. cutShort' \in BOOLEAN
    BY <1>8, Zenon DEF ReadTimeout, ClientTypeOK
  <2> QED
    BY <1>8, <2>1, <2>2 DEF ReadTimeout, Returned, ClientTypeOK, StreamTypeOK, wireVars
<1>9. CASE AnswerPing
  <2>1. [type |-> "PONG"] \in DecClientMsg
    BY DEF DecClientMsg
  <2>2. c2s' \in Seq(DecClientMsg) /\ tx' \in {"ok", "refused", "dead"} /\ torn' \in BOOLEAN
    BY <1>9, <2>1, ClientSendType, FailedSendType DEF AnswerPing
  <2>3. s2c' \in Seq(DecServerMsg)
    BY <1>9, HeadAndTail DEF AnswerPing, ClientSees, StreamTypeOK
  <2> QED
    BY <1>9, <2>2, <2>3 DEF AnswerPing, clientVars, ClientTypeOK, StreamTypeOK
<1> QED
  BY <1>1, <1>2, <1>3, <1>4, <1>5, <1>6, <1>7, <1>8, <1>9 DEF Call

\* So do the steps of libavcodec and of the application.
LEMMA ApplicationType ==
    ASSUME ClientTypeOK, StreamTypeOK, SendPacket \/ Drain \/ Close
    PROVE  ClientTypeOK' /\ StreamTypeOK'
<1>1. CASE SendPacket
  BY <1>1, WireAssumption DEF SendPacket, ClientTypeOK, StreamTypeOK, wireVars, Frames
<1>2. CASE Drain
  BY <1>2 DEF Drain, ClientTypeOK, StreamTypeOK, wireVars
<1>3. CASE Close
  BY <1>3 DEF Close, ClientCloses, ClientTypeOK, StreamTypeOK
<1> QED
  BY <1>1, <1>2, <1>3

\* A server that closes leaves an empty stream to it.
LEMMA ServerClosesType ==
    ASSUME StreamTypeOK, NEW unread, ServerCloses(unread), s2c' \in Seq(DecServerMsg)
    PROVE  StreamTypeOK'
BY DEF StreamTypeOK, ServerCloses

\* The decoder holds one packet at most, because the loop waits for it.
LEMMA LoopType ==
    ASSUME ServerTypeOK, StreamTypeOK, LoopStep \/ Crash
    PROVE  ServerTypeOK' /\ StreamTypeOK'
<1>5. CASE ReadGarbled
  <2>1. c2s' \in Seq(DecClientMsg)
    BY <1>5, SplicedBehind DEF ReadGarbled
  <2> QED
    BY <1>5, <2>1 DEF ReadGarbled, serverVars, ServerTypeOK, StreamTypeOK
<1>6. CASE ReadBroken
  <2>1. ServerCloses(Tail(c2s)) /\ s2c' = s2c
    BY <1>6 DEF ReadBroken
  <2>2. StreamTypeOK'
    BY <2>1, ServerClosesType DEF StreamTypeOK
  <2> QED
    BY <1>6, <2>2 DEF ReadBroken, ServerTypeOK
<1>1. CASE ReadPacket
  <2>1. c2s # <<>> /\ Head(c2s).packet \in Frames
    BY <1>1, PacketAtHead DEF ReadPacket
  <2>2. pending' \in Seq(Frames) /\ Len(pending') <= 1
    BY <1>1, <2>1 DEF ReadPacket, AsyncFramesDone, ServerTypeOK
  <2>3. c2s' \in Seq(DecClientMsg)
    BY <1>1, <2>1, HeadAndTail DEF ReadPacket, StreamTypeOK
  <2> QED
    BY <1>1, <2>2, <2>3 DEF ReadPacket, ServerTypeOK, StreamTypeOK
<1>2. CASE ReadOther
  <2>1. c2s' \in Seq(DecClientMsg)
    BY <1>2, HeadAndTail DEF ReadOther, ServerSees, StreamTypeOK
  <2> QED
    BY <1>2, <2>1 DEF ReadOther, ServerTypeOK, StreamTypeOK
<1>3. CASE SendDone
  <2>1. [type |-> "DONE"] \in DecServerMsg
    BY DEF DecServerMsg
  <2>2. s2c' \in Seq(DecServerMsg)
    BY <1>3, <2>1, ServerSendType DEF SendDone
  <2> QED
    BY <1>3, <2>2 DEF SendDone, ServerTypeOK, StreamTypeOK
<1>4. CASE Shutdown \/ Crash
  <2>1. srv' = "closed" /\ pending' = <<>> /\ UNCHANGED <<framesOut, lost, pings>>
    <3>1. CASE Shutdown
      BY <3>1 DEF Shutdown
    <3>2. CASE Crash
      BY <3>2 DEF Crash
    <3> QED
      BY <1>4, <3>1, <3>2
  <2>2. ServerCloses(c2s) /\ s2c' = s2c
    <3>1. CASE Shutdown
      BY <3>1 DEF Shutdown
    <3>2. CASE Crash
      BY <3>2 DEF Crash
    <3> QED
      BY <1>4, <3>1, <3>2
  <2>3. StreamTypeOK'
    BY <2>2, ServerClosesType DEF StreamTypeOK
  <2>4. ServerTypeOK'
    BY <2>1 DEF ServerTypeOK
  <2> QED
    BY <2>3, <2>4
<1> QED
  BY <1>1, <1>2, <1>3, <1>4, <1>5, <1>6 DEF LoopStep

\* The callbacks empty the decoder.
LEMMA CallbackType ==
    ASSUME ServerTypeOK, StreamTypeOK, NEW i \in DOMAIN pending, EmitFrame(i) \/ LoseFrame(i)
    PROVE  ServerTypeOK' /\ StreamTypeOK'
<1>1. pending \in Seq(Frames) /\ Len(pending) <= 1 /\ pending[i] \in Frames
  BY DEF ServerTypeOK
<1>2. RemoveAt(pending, i) \in Seq(Frames) /\ Len(RemoveAt(pending, i)) <= 1
  BY <1>1, RemoveOnly
<1>3. CASE EmitFrame(i)
  <2>1. [type |-> "FRAME", packet |-> pending[i]] \in DecServerMsg
    BY <1>1 DEF DecServerMsg
  <2>2. s2c' \in Seq(DecServerMsg)
    BY <1>3, <2>1, ServerSendType DEF EmitFrame
  <2>3. framesOut' \in Seq(Frames)
    BY <1>1, <1>3 DEF EmitFrame, ServerTypeOK
  <2> QED
    BY <1>2, <1>3, <2>2, <2>3 DEF EmitFrame, ServerTypeOK, StreamTypeOK
<1>4. CASE LoseFrame(i)
  BY <1>1, <1>2, <1>4 DEF LoseFrame, ServerTypeOK, StreamTypeOK, wireVars
<1> QED
  BY <1>3, <1>4

\* What the protocol allows a peer keeps the types.
LEMMA PeerType ==
    ASSUME ServerTypeOK, StreamTypeOK, PeerPing \/ PeerError
    PROVE  ServerTypeOK' /\ StreamTypeOK'
<1>1. CASE PeerPing
  <2>1. [type |-> "PING"] \in DecServerMsg
    BY DEF DecServerMsg
  <2>2. s2c' \in Seq(DecServerMsg)
    BY <1>1, <2>1, ServerSendType DEF PeerPing
  <2> QED
    BY <1>1, <2>2, DecAssumption DEF PeerPing, ServerTypeOK, StreamTypeOK
<1>2. CASE PeerError
  <2>1. [type |-> "ERROR"] \in DecServerMsg
    BY DEF DecServerMsg
  <2>2. s2c' \in Seq(DecServerMsg)
    BY <1>2, <2>1, ServerSendType DEF PeerError
  <2>3. StreamTypeOK'
    BY <1>2, <2>2, ServerClosesType DEF PeerError
  <2> QED
    BY <1>2, <2>3 DEF PeerError, ServerTypeOK
<1> QED
  BY <1>1, <1>2

\* A reset keeps a prefix of what was on its way.
LEMMA ResetType ==
    ASSUME StreamTypeOK, PeerReset
    PROVE  StreamTypeOK'
<1>1. PICK kept \in 0 .. Len(s2c) :
         /\ s2c' = SubSeq(s2c, 1, kept)
         /\ s2cEnd' = IF kept = Len(s2c) THEN s2cEnd ELSE "rst"
  BY DEF PeerReset, StreamTypeOK
<1>2. s2c' \in Seq(DecServerMsg)
  BY <1>1 DEF StreamTypeOK
<1> QED
  BY <1>1, <1>2 DEF PeerReset, StreamTypeOK

\* Every step keeps the types.
LEMMA TypeStep ==
    ASSUME TypeOK, [Next]_vars
    PROVE  TypeOK'
<1> USE DEF TypeOK
<1>1. CASE ClientNext /\ UNCHANGED serverVars
  <2>1. ClientTypeOK' /\ StreamTypeOK'
    BY <1>1, CallType, ApplicationType DEF ClientNext
  <2>2. ServerTypeOK'
    BY <1>1 DEF serverVars, ServerTypeOK
  <2> QED
    BY <2>1, <2>2
<1>2. CASE ServerNext /\ UNCHANGED clientVars
  <2>1. ServerTypeOK' /\ StreamTypeOK'
    BY <1>2, LoopType, CallbackType, PeerType DEF ServerNext, Callback
  <2>2. ClientTypeOK'
    BY <1>2 DEF clientVars, ClientTypeOK
  <2> QED
    BY <2>1, <2>2
<1>3. CASE PeerReset /\ UNCHANGED <<clientVars, serverVars>>
  BY <1>3, ResetType DEF clientVars, serverVars, ClientTypeOK, ServerTypeOK
<1>4. CASE UNCHANGED vars
  BY <1>4 DEF vars, clientVars, serverVars, wireVars, ClientTypeOK, ServerTypeOK, StreamTypeOK
<1> QED
  BY <1>1, <1>2, <1>3, <1>4 DEF Next, Terminated

\* Every variable keeps its type, whatever the faults: a call never holds two
\* packets, the decoder never more than one.
THEOREM TypeCorrect == Spec => []TypeOK
<1>1. ASSUME Init
      PROVE  TypeOK
  <2>1. 1 \in 1 .. NumFrames + 1 /\ 0 \in 0 .. MaxDrainErrors + 1 /\ 0 \in 0 .. MaxPings
    BY WireAssumption, DecAssumption
  <2>2. ClientTypeOK
    <3>1. /\ flushing \in BOOLEAN /\ done \in BOOLEAN /\ draining \in BOOLEAN
          /\ drained \in BOOLEAN /\ cutShort \in BOOLEAN
      BY <1>1, Zenon DEF Init
    <3>2. /\ pc \in {"app", "call", "read", "closed", "aborted"}
          /\ ret \in {"OK", "EOF"} \cup Fatal
          /\ sentPackets \in Seq(Frames) /\ delivered \in Seq(Frames)
      BY <1>1 DEF Init
    <3>3. /\ arg \in Frames \cup {NoPacket} /\ nextPacket \in 1 .. NumFrames + 1
          /\ drainErrors \in 0 .. MaxDrainErrors + 1
      BY <1>1, <2>1 DEF Init
    <3> QED
      BY <3>1, <3>2, <3>3 DEF ClientTypeOK
  <2>3. ServerTypeOK
    BY <1>1, <2>1 DEF Init, ServerTypeOK
  <2>4. StreamTypeOK
    <3>1. torn \in BOOLEAN
      BY <1>1, Zenon DEF Init, WireInit
    <3> QED
      BY <1>1, <3>1 DEF Init, WireInit, StreamTypeOK
  <2> QED
    BY <2>2, <2>3, <2>4 DEF TypeOK
<1>2. TypeOK /\ [Next]_vars => TypeOK'
  BY TypeStep
<1> QED
  BY <1>1, <1>2, PTL DEF Spec

-------------------------------------------------------------------------------
(***************************************************************************)
(* The order of packets.                                                   *)
(***************************************************************************)

\* Every member of A comes before every member of B.
Below(A, B) == \A a \in A, b \in B : a < b

\* P: on the way to the server; D: in the decoder; F: on the way back;
\* O: with the application; S: transmitted.
PlacesInOrder(P, D, F, O, S) ==
    /\ Below(D, P)
    /\ Below(F, D \cup P)
    /\ Below(O, F \cup D \cup P)
    /\ P \cup D \cup F \cup O \subseteq S

\* Packets may be lost anywhere.
LEMMA PlacesShrink ==
    ASSUME NEW P, NEW D, NEW F, NEW O, NEW S, PlacesInOrder(P, D, F, O, S),
           NEW P1 \in SUBSET P, NEW D1 \in SUBSET D, NEW F1 \in SUBSET F
    PROVE  PlacesInOrder(P1, D1, F1, O, S)
BY DEF PlacesInOrder, Below

\* A packet is transmitted after all others, and may be lost at once.
LEMMA PlacesSubmit ==
    ASSUME NEW P, NEW D, NEW F, NEW O, NEW S, PlacesInOrder(P, D, F, O, S),
           NEW p, \A q \in S : q < p, NEW P1 \in SUBSET (P \cup {p})
    PROVE  PlacesInOrder(P1, D, F, O, S \cup {p})
BY DEF PlacesInOrder, Below

\* The first packet on its way enters the empty decoder.
LEMMA PlacesDecode ==
    ASSUME NEW P, NEW F, NEW O, NEW S, PlacesInOrder(P, {}, F, O, S),
           NEW p \in P, NEW P1 \in SUBSET P, \A q \in P1 : p < q
    PROVE  PlacesInOrder(P1, {p}, F, O, S)
BY DEF PlacesInOrder, Below

\* A frame leaves the decoder, which has only that one.
LEMMA PlacesEmit ==
    ASSUME NEW P, NEW D, NEW F, NEW O, NEW S, PlacesInOrder(P, D, F, O, S),
           NEW p \in D, NEW F1 \in SUBSET (F \cup {p})
    PROVE  PlacesInOrder(P, {}, F1, O, S)
BY DEF PlacesInOrder, Below

\* The first frame on its way back reaches the application.
LEMMA PlacesOutput ==
    ASSUME NEW P, NEW D, NEW F, NEW O, NEW S, PlacesInOrder(P, D, F, O, S),
           NEW p \in F, NEW F1 \in SUBSET F, \A q \in F1 : p < q
    PROVE  PlacesInOrder(P, D, F1, O \cup {p}, S)
BY DEF PlacesInOrder, Below

StreamsInv == InOrder(c2s, "PACKET") /\ InOrder(s2c, "FRAME")

PlacesInv ==
    PlacesInOrder(Coming(c2s, "PACKET"), ToSet(pending), Coming(s2c, "FRAME"),
                  ToSet(delivered), ToSet(sentPackets))

\* The packets of the stream are taken in turn; a call's packet is new.
TurnInv ==
    /\ \A p \in ToSet(sentPackets) : p < nextPacket
    /\ pc = "call" /\ arg # NoPacket => /\ arg < nextPacket
                                        /\ \A p \in ToSet(sentPackets) : p < arg

\* A call has a packet only while it runs, and none runs after the end.
CallInv ==
    /\ pc = "app" => arg = NoPacket
    /\ pc \in {"call", "read"} => ~drained

OrderInv == StreamsInv /\ PlacesInv /\ TurnInv /\ CallInv

\* Direction r holds no packet of type t that s did not, in order.
Fewer(s, r, t) == Coming(r, t) \subseteq Coming(s, t) /\ InOrder(r, t)

\* The client's stream, when no PACKET is written.
LEMMA FewerPackets ==
    ASSUME StreamTypeOK, StreamsInv,
           \/ UNCHANGED c2s
           \/ c2s' = <<>>
           \/ c2s # <<>> /\ c2s' = Tail(c2s)
           \/ \E m \in DecClientMsg : m.type # "PACKET" /\ ClientSend(m)
           \/ ClientSendFails(NoFrame)
           \/ ReadSpliced
    PROVE  Fewer(c2s, c2s', "PACKET")
<1>1. c2s \in Seq(DecClientMsg) /\ InOrder(c2s, "PACKET")
  BY DEF StreamTypeOK, StreamsInv
<1>2. CASE c2s' = c2s
  BY <1>1, <1>2 DEF Fewer
<1>3. CASE c2s' = <<>>
  BY <1>3, ComingEmpty DEF Fewer
<1>4. CASE c2s # <<>> /\ c2s' = Tail(c2s)
  BY <1>1, <1>4, ComingTail DEF Fewer
<1>5. CASE \/ \E m \in DecClientMsg : m.type # "PACKET" /\ ClientSend(m)
           \/ ClientSendFails(NoFrame) /\ c2s' # c2s
  <2>1. PICK m \in DecClientMsg : m.type # "PACKET" /\ (c2s' = c2s \/ c2s' = Append(c2s, m))
    BY <1>5, FailedSend DEF ClientSend
  <2>2. CASE c2s' = Append(c2s, m)
    BY <1>1, <2>1, <2>2, ComingAppendOther DEF Fewer
  <2> QED
    BY <1>2, <2>1, <2>2
<1>6. CASE ReadSpliced
  BY <1>1, <1>6, SplicedBehind, ComingBehind DEF Fewer
<1> QED
  BY <1>2, <1>3, <1>4, <1>5, <1>6

\* The server's stream, when no FRAME is written.
LEMMA FewerFrames ==
    ASSUME StreamTypeOK, StreamsInv,
           \/ UNCHANGED s2c
           \/ s2c # <<>> /\ s2c' = Tail(s2c)
           \/ \E m \in DecServerMsg : m.type # "FRAME" /\ ServerSend(m)
           \/ PeerReset
    PROVE  Fewer(s2c, s2c', "FRAME")
<1>1. s2c \in Seq(DecServerMsg) /\ InOrder(s2c, "FRAME")
  BY DEF StreamTypeOK, StreamsInv
<1>2. CASE s2c' = s2c
  BY <1>1, <1>2 DEF Fewer
<1>3. CASE s2c # <<>> /\ s2c' = Tail(s2c)
  BY <1>1, <1>3, ComingTail DEF Fewer
<1>4. CASE \E m \in DecServerMsg : m.type # "FRAME" /\ ServerSend(m)
  <2>1. PICK m \in DecServerMsg : m.type # "FRAME" /\ (s2c' = s2c \/ s2c' = Append(s2c, m))
    BY <1>4 DEF ServerSend
  <2>2. CASE s2c' = Append(s2c, m)
    BY <1>1, <2>1, <2>2, ComingAppendOther DEF Fewer
  <2> QED
    BY <1>2, <2>1, <2>2
<1>5. CASE PeerReset
  <2>1. PICK kept \in 0 .. Len(s2c) : s2c' = SubSeq(s2c, 1, kept)
    BY <1>1, <1>5 DEF PeerReset
  <2> QED
    BY <1>1, <2>1, ComingPrefix DEF Fewer
<1> QED
  BY <1>2, <1>3, <1>4, <1>5

\* Packets stay where they are, or are lost on the way or in the decoder.
LEMMA PlacesKept ==
    ASSUME StreamsInv, PlacesInv,
           Fewer(c2s, c2s', "PACKET"), Fewer(s2c, s2c', "FRAME"),
           ToSet(pending') \subseteq ToSet(pending),
           UNCHANGED <<delivered, sentPackets>>
    PROVE  StreamsInv' /\ PlacesInv'
<1>1. StreamsInv'
  BY DEF StreamsInv, Fewer
<1>2. PlacesInOrder(Coming(c2s', "PACKET"), ToSet(pending'), Coming(s2c', "FRAME"),
                    ToSet(delivered), ToSet(sentPackets))
  BY PlacesShrink DEF PlacesInv, Fewer
<1> QED
  BY <1>1, <1>2 DEF PlacesInv

\* A step that ends or goes on with a call, and transmits nothing.
LEMMA TurnKept ==
    ASSUME TurnInv, UNCHANGED <<nextPacket, sentPackets>>, pc' = "call" => pc = "call" /\ arg' = arg
    PROVE  TurnInv'
BY DEF TurnInv

\* A packet is transmitted.
LEMMA SubmitPacketOrder ==
    ASSUME TypeOK, OrderInv, SubmitPacket, UNCHANGED serverVars
    PROVE  OrderInv'
<1> DEFINE m == [type |-> "PACKET", packet |-> arg]
           S == ToSet(sentPackets)
<1>1. arg \in Frames /\ sentPackets \in Seq(Frames) /\ c2s \in Seq(DecClientMsg)
  BY DEF SubmitPacket, TypeOK, ClientTypeOK, StreamTypeOK, NoPacket
<1>2. m \in DecClientMsg /\ m.type = "PACKET" /\ m.packet = arg
  BY <1>1 DEF DecClientMsg
<1>3. \A q \in S : q < arg
  BY DEF SubmitPacket, OrderInv, TurnInv
<1>4. ToSet(sentPackets') = S \cup {arg}
  BY <1>1, AppendElements DEF SubmitPacket
<1>5. c2s' = c2s \/ c2s' = Append(c2s, m)
  BY DEF SubmitPacket, ClientSend
<1> HIDE DEF m
<1>6. \A q \in Coming(c2s, "PACKET") : q < m.packet
  BY <1>2, <1>3 DEF OrderInv, PlacesInv, PlacesInOrder
<1>7. Coming(c2s', "PACKET") \subseteq Coming(c2s, "PACKET") \cup {arg} /\ InOrder(c2s', "PACKET")
  <2>1. CASE c2s' = c2s
    BY <2>1 DEF OrderInv, StreamsInv
  <2>2. CASE c2s' = Append(c2s, m)
    BY <1>1, <1>2, <1>6, <2>2, ComingAppendNext DEF OrderInv, StreamsInv
  <2> QED
    BY <1>5, <2>1, <2>2
<1>8. UNCHANGED <<s2c, pending, delivered, nextPacket, drained>> /\ pc = "call" /\ pc' = "read"
  BY DEF SubmitPacket, Reading, serverVars
<1>9. StreamsInv'
  BY <1>7, <1>8 DEF OrderInv, StreamsInv
<1>10. PlacesInv'
  BY <1>3, <1>4, <1>7, <1>8, PlacesSubmit DEF OrderInv, PlacesInv
<1>11. TurnInv'
  BY <1>4, <1>8 DEF SubmitPacket, OrderInv, TurnInv
<1>12. CallInv'
  BY <1>8 DEF OrderInv, CallInv
<1> QED
  BY <1>9, <1>10, <1>11, <1>12 DEF OrderInv

\* A frame is handed to the application.
LEMMA ReadFrameOrder ==
    ASSUME TypeOK, OrderInv, ReadFrame, UNCHANGED serverVars
    PROVE  OrderInv'
<1> DEFINE p == Head(s2c).packet
<1>1. /\ s2c \in Seq(DecServerMsg) /\ s2c # <<>> /\ Head(s2c).type = "FRAME" /\ p \in Frames
      /\ delivered \in Seq(Frames)
  BY FrameAtHead DEF ReadFrame, TypeOK, ClientTypeOK, StreamTypeOK, ClientSees
<1>2. /\ Coming(Tail(s2c), "FRAME") \subseteq Coming(s2c, "FRAME")
      /\ InOrder(Tail(s2c), "FRAME")
      /\ p \in Coming(s2c, "FRAME")
      /\ \A q \in Coming(Tail(s2c), "FRAME") : p < q
  BY <1>1, ComingTail DEF OrderInv, StreamsInv
<1>3. /\ pc' = "app" /\ arg' = NoPacket /\ delivered' = Append(delivered, p)
      /\ nextPacket' = nextPacket
  BY <1>1, ReturnFrame DEF ReadFrame, TypeOK
<1>4. UNCHANGED <<c2s, pending, sentPackets>> /\ s2c' = Tail(s2c)
  BY DEF ReadFrame, serverVars
<1> HIDE DEF p
<1>5. ToSet(delivered') = ToSet(delivered) \cup {p}
  BY <1>1, <1>3, AppendElements
<1>6. StreamsInv'
  BY <1>2, <1>4 DEF OrderInv, StreamsInv
<1>7. PlacesInv'
  BY <1>2, <1>4, <1>5, PlacesOutput DEF OrderInv, PlacesInv
<1>8. TurnInv' /\ CallInv'
  BY <1>3, <1>4, TurnKept DEF OrderInv, CallInv
<1> QED
  BY <1>6, <1>7, <1>8 DEF OrderInv

\* A call that ends without a frame.
LEMMA ReturnedOrder ==
    ASSUME OrderInv, Returned, UNCHANGED <<sentPackets, pending>>,
           Fewer(c2s, c2s', "PACKET"), Fewer(s2c, s2c', "FRAME")
    PROVE  OrderInv'
<1>1. StreamsInv' /\ PlacesInv'
  BY PlacesKept DEF OrderInv, Returned
<1>2. TurnInv' /\ CallInv'
  BY TurnKept DEF OrderInv, Returned, CallInv
<1> QED
  BY <1>1, <1>2 DEF OrderInv

\* A call that goes on, or the process that aborts in it.
LEMMA GoingOnOrder ==
    ASSUME OrderInv, pc' \in {"read", "aborted"}, pc \in {"call", "read"},
           UNCHANGED <<nextPacket, drained, delivered, sentPackets, pending>>,
           Fewer(c2s, c2s', "PACKET"), Fewer(s2c, s2c', "FRAME")
    PROVE  OrderInv'
<1>1. StreamsInv' /\ PlacesInv'
  BY PlacesKept DEF OrderInv
<1>2. TurnInv' /\ CallInv'
  BY TurnKept DEF OrderInv, CallInv
<1> QED
  BY <1>1, <1>2 DEF OrderInv

\* Every step of ff_vtremote_decode keeps the order.
LEMMA CallOrder ==
    ASSUME TypeOK, OrderInv, Call, UNCHANGED serverVars
    PROVE  OrderInv'
<1>1. ClientTypeOK /\ StreamTypeOK /\ StreamsInv /\ UNCHANGED pending
  BY DEF TypeOK, OrderInv, serverVars
<1>2. CASE SubmitFlush
  <2>1. [type |-> "FLUSH"] \in DecClientMsg
    BY DEF DecClientMsg
  <2>2. Fewer(c2s, c2s', "PACKET") /\ Fewer(s2c, s2c', "FRAME")
    BY <1>1, <1>2, <2>1, FewerPackets, FewerFrames DEF SubmitFlush
  <2> QED
    BY <1>1, <1>2, <2>2, GoingOnOrder DEF SubmitFlush, Reading
<1>3. CASE FlushSent
  <2>1. Fewer(c2s, c2s', "PACKET") /\ Fewer(s2c, s2c', "FRAME")
    BY <1>1, <1>3, FewerPackets, FewerFrames DEF FlushSent, wireVars
  <2> QED
    BY <1>1, <1>3, <2>1, GoingOnOrder DEF FlushSent, Reading
<1>4. CASE SubmitFails
  <2>1. UNCHANGED <<s2c, sentPackets>> /\ ClientSendFails(NoFrame)
    BY <1>4 DEF SubmitFails
  <2>2. Fewer(c2s, c2s', "PACKET") /\ Fewer(s2c, s2c', "FRAME")
    BY <1>1, <2>1, FewerPackets, FewerFrames
  <2>3. CASE SendError = "EAGAIN"
    BY <1>1, <1>4, <2>1, <2>2, <2>3, GoingOnOrder DEF SubmitFails
  <2>4. CASE SendError # "EAGAIN"
    <3>1. SendError = "EPIPE" /\ Return(SendError, <<>>)
      BY <1>4, <2>4, SubmitFailsDead
    <3>2. Returned
      BY <1>1, <3>1, ReturnNothing
    <3> QED
      BY <1>1, <2>1, <2>2, <3>2, ReturnedOrder
  <2> QED
    BY <2>3, <2>4
<1>5. CASE ReadDone \/ ReadFails \/ ReadTimeout
  <2>1. Returned
    BY <1>1, <1>5, ReturnNothing DEF ReadDone, ReadFails, ReadTimeout
  <2>2. /\ UNCHANGED <<c2s, sentPackets>>
        /\ UNCHANGED s2c \/ (s2c # <<>> /\ s2c' = Tail(s2c))
    <3>1. CASE ReadDone
      BY <3>1 DEF ReadDone, ClientSees
    <3>2. CASE ReadFails
      BY <3>2 DEF ReadFails, ClientSees
    <3>3. CASE ReadTimeout
      BY <3>3 DEF ReadTimeout, wireVars
    <3> QED
      BY <1>5, <3>1, <3>2, <3>3
  <2>3. Fewer(c2s, c2s', "PACKET") /\ Fewer(s2c, s2c', "FRAME")
    BY <1>1, <2>2, FewerPackets, FewerFrames
  <2> QED
    BY <1>1, <2>1, <2>2, <2>3, ReturnedOrder
<1>6. CASE AnswerPing
  <2>1. [type |-> "PONG"] \in DecClientMsg
    BY DEF DecClientMsg
  <2>2. /\ UNCHANGED clientVars /\ s2c # <<>> /\ s2c' = Tail(s2c)
        /\ ClientSend([type |-> "PONG"]) \/ ClientSendFails(NoFrame)
    BY <1>6 DEF AnswerPing, ClientSees
  <2>3. Fewer(c2s, c2s', "PACKET") /\ Fewer(s2c, s2c', "FRAME")
    BY <1>1, <2>1, <2>2, FewerPackets, FewerFrames
  <2> QED
    BY <1>1, <1>6, <2>2, <2>3, GoingOnOrder DEF AnswerPing, clientVars
<1> QED
  BY <1>2, <1>3, <1>4, <1>5, <1>6, SubmitPacketOrder, ReadFrameOrder DEF Call

\* Starting a call, draining and closing keep the order.
LEMMA ApplicationOrder ==
    ASSUME TypeOK, OrderInv, SendPacket \/ Drain \/ Close, UNCHANGED serverVars
    PROVE  OrderInv'
<1>1. /\ UNCHANGED <<c2s, s2c, delivered, sentPackets, pending>>
      /\ ClientTypeOK /\ StreamTypeOK /\ StreamsInv
  BY DEF SendPacket, Drain, Close, ClientCloses, serverVars, wireVars, TypeOK, OrderInv
<1>2. Fewer(c2s, c2s', "PACKET") /\ Fewer(s2c, s2c', "FRAME")
  BY <1>1, FewerPackets, FewerFrames
<1>3. StreamsInv' /\ PlacesInv'
  BY <1>1, <1>2, PlacesKept DEF OrderInv
<1>4. CASE SendPacket
  <2>1. nextPacket \in Int /\ \A p \in ToSet(sentPackets) : p \in Int
    <3>1. nextPacket \in Int /\ sentPackets \in Seq(Frames)
      BY <1>1, WireAssumption DEF ClientTypeOK
    <3>2. ToSet(sentPackets) \subseteq Frames
      BY <3>1 DEF ToSet
    <3> QED
      BY <3>1, <3>2 DEF Frames
  <2>2. TurnInv'
    BY <1>1, <1>4, <2>1 DEF SendPacket, OrderInv, TurnInv
  <2>3. CallInv'
    BY <1>4 DEF SendPacket, CallInv
  <2> QED
    BY <1>3, <2>2, <2>3 DEF OrderInv
<1>5. CASE Drain
  <2>1. arg = NoPacket /\ arg' = arg /\ nextPacket' = nextPacket
    BY <1>5 DEF Drain, OrderInv, CallInv
  <2>2. TurnInv'
    BY <1>1, <2>1 DEF OrderInv, TurnInv
  <2>3. CallInv'
    BY <1>5 DEF Drain, CallInv
  <2> QED
    BY <1>3, <2>2, <2>3 DEF OrderInv
<1>6. CASE Close
  BY <1>1, <1>3, <1>6, TurnKept DEF Close, OrderInv, CallInv
<1> QED
  BY <1>4, <1>5, <1>6

\* A packet enters the decoder.
LEMMA ReadPacketOrder ==
    ASSUME TypeOK, OrderInv, ReadPacket, UNCHANGED clientVars
    PROVE  OrderInv'
<1> DEFINE p == Head(c2s).packet
<1>1. /\ c2s \in Seq(DecClientMsg) /\ c2s # <<>> /\ Head(c2s).type = "PACKET" /\ p \in Frames
      /\ pending \in Seq(Frames)
  BY PacketAtHead DEF ReadPacket, AsyncFramesDone, TypeOK, ServerTypeOK, StreamTypeOK, ServerSees
<1>2. /\ Coming(Tail(c2s), "PACKET") \subseteq Coming(c2s, "PACKET")
      /\ InOrder(Tail(c2s), "PACKET")
      /\ p \in Coming(c2s, "PACKET")
      /\ \A q \in Coming(Tail(c2s), "PACKET") : p < q
  BY <1>1, ComingTail DEF OrderInv, StreamsInv
<1>3. UNCHANGED <<s2c, delivered, sentPackets>> /\ c2s' = Tail(c2s) /\ pending' = Append(pending, p)
  BY DEF ReadPacket, clientVars
<1> HIDE DEF p
<1>4. ToSet(pending) = {}
  <2>1. DOMAIN pending = {}
    BY DEF ReadPacket, AsyncFramesDone
  <2> QED
    BY <2>1 DEF ToSet
<1>5. ToSet(pending') = {p}
  <2>1. ToSet(Append(pending, p)) = ToSet(pending) \cup {p}
    BY <1>1, AppendElements
  <2> QED
    BY <1>3, <1>4, <2>1
<1>6. StreamsInv'
  BY <1>2, <1>3 DEF OrderInv, StreamsInv
<1>7. PlacesInv'
  BY <1>2, <1>3, <1>4, <1>5, PlacesDecode DEF OrderInv, PlacesInv
<1>8. TurnInv' /\ CallInv'
  BY DEF clientVars, OrderInv, TurnInv, CallInv
<1> QED
  BY <1>6, <1>7, <1>8 DEF OrderInv

\* A frame leaves the decoder.
LEMMA EmitFrameOrder ==
    ASSUME TypeOK, OrderInv, NEW i \in DOMAIN pending, EmitFrame(i), UNCHANGED clientVars
    PROVE  OrderInv'
<1> DEFINE p == pending[i]
           m == [type |-> "FRAME", packet |-> p]
<1>1. /\ s2c \in Seq(DecServerMsg) /\ pending \in Seq(Frames) /\ Len(pending) <= 1 /\ p \in Frames
  BY DEF TypeOK, ServerTypeOK, StreamTypeOK
<1>2. m \in DecServerMsg /\ m.type = "FRAME" /\ m.packet = p
  BY <1>1 DEF DecServerMsg
<1>3. p \in ToSet(pending) /\ ToSet(pending') = {}
  BY <1>1, RemoveOnly DEF EmitFrame, ToSet
<1>4. s2c' = s2c \/ s2c' = Append(s2c, m)
  BY DEF EmitFrame, ServerSend
<1>5. UNCHANGED <<c2s, delivered, sentPackets>>
  BY DEF EmitFrame, clientVars
<1> HIDE DEF p, m
<1>6. \A q \in Coming(s2c, "FRAME") : q < m.packet
  BY <1>2, <1>3 DEF OrderInv, PlacesInv, PlacesInOrder, Below
<1>7. Coming(s2c', "FRAME") \subseteq Coming(s2c, "FRAME") \cup {p} /\ InOrder(s2c', "FRAME")
  <2>1. CASE s2c' = s2c
    BY <2>1 DEF OrderInv, StreamsInv
  <2>2. CASE s2c' = Append(s2c, m)
    BY <1>1, <1>2, <1>6, <2>2, ComingAppendNext DEF OrderInv, StreamsInv
  <2> QED
    BY <1>4, <2>1, <2>2
<1>8. StreamsInv'
  BY <1>5, <1>7 DEF OrderInv, StreamsInv
<1>9. PlacesInv'
  BY <1>3, <1>5, <1>7, PlacesEmit DEF OrderInv, PlacesInv
<1>10. TurnInv' /\ CallInv'
  BY DEF clientVars, OrderInv, TurnInv, CallInv
<1> QED
  BY <1>8, <1>9, <1>10 DEF OrderInv

\* The other steps of the server, and the reset, only lose packets.
LEMMA OtherOrder ==
    ASSUME TypeOK, OrderInv, UNCHANGED clientVars,
           \/ ReadOther \/ ReadGarbled \/ ReadBroken
           \/ SendDone \/ Shutdown \/ Crash \/ PeerPing \/ PeerError
           \/ \E i \in DOMAIN pending : LoseFrame(i)
           \/ PeerReset /\ UNCHANGED serverVars
    PROVE  OrderInv'
<1>1. ClientTypeOK /\ ServerTypeOK /\ StreamTypeOK /\ StreamsInv
  BY DEF TypeOK, OrderInv
<1>2. ToSet(pending') \subseteq ToSet(pending)
  <2>1. CASE pending' = pending
    BY <2>1
  <2>2. CASE pending' = <<>>
    BY <2>2 DEF ToSet
  <2>3. CASE \E i \in DOMAIN pending : LoseFrame(i)
    BY <1>1, <2>3, RemoveOnly DEF LoseFrame, ServerTypeOK
  <2> QED
    BY <2>1, <2>2, <2>3
       DEF ReadOther, ReadGarbled, ReadBroken, SendDone, Shutdown, Crash, PeerPing, PeerError, serverVars
<1>3. \/ UNCHANGED c2s
      \/ c2s' = <<>>
      \/ c2s # <<>> /\ c2s' = Tail(c2s)
      \/ ReadSpliced
  BY DEF ReadOther, ReadGarbled, ReadBroken, SendDone, Shutdown, Crash, PeerPing, PeerError, LoseFrame,
         PeerReset, ServerCloses, ServerSees, wireVars
<1>4. \/ UNCHANGED s2c
      \/ \E m \in DecServerMsg : m.type # "FRAME" /\ ServerSend(m)
      \/ PeerReset
  BY DEF ReadOther, ReadGarbled, ReadBroken, SendDone, Shutdown, Crash, PeerPing, PeerError, LoseFrame,
         DecServerMsg, wireVars
<1>5. Fewer(c2s, c2s', "PACKET") /\ Fewer(s2c, s2c', "FRAME")
  BY <1>1, <1>3, <1>4, FewerPackets, FewerFrames
<1>6. StreamsInv' /\ PlacesInv'
  BY <1>2, <1>5, PlacesKept DEF OrderInv, clientVars
<1>7. TurnInv' /\ CallInv'
  BY DEF clientVars, OrderInv, TurnInv, CallInv
<1> QED
  BY <1>6, <1>7 DEF OrderInv

\* Every step keeps the order.
LEMMA OrderStep ==
    ASSUME TypeOK, OrderInv, [Next]_vars
    PROVE  OrderInv'
<1>1. CASE ClientNext /\ UNCHANGED serverVars
  BY <1>1, CallOrder, ApplicationOrder DEF ClientNext
<1>2. CASE ServerNext /\ UNCHANGED clientVars
  BY <1>2, ReadPacketOrder, EmitFrameOrder, OtherOrder DEF ServerNext, LoopStep, Callback
<1>3. CASE PeerReset /\ UNCHANGED <<clientVars, serverVars>>
  BY <1>3, OtherOrder
<1>4. CASE UNCHANGED vars
  BY <1>4 DEF vars, clientVars, serverVars, wireVars, OrderInv, StreamsInv, PlacesInv, TurnInv, CallInv
<1> QED
  BY <1>1, <1>2, <1>3, <1>4 DEF Next, Terminated

-------------------------------------------------------------------------------
(***************************************************************************)
(* The session implements the service.                                     *)
(***************************************************************************)

\* A packet beyond every element of a sequence comes after its last.
LEMMA BeyondLast ==
    ASSUME NEW M, NEW s \in Seq(M), NEW p, \A q \in ToSet(s) : q < p
    PROVE  s = <<>> \/ p > Last(s)
<1>1. ASSUME s # <<>>
      PROVE  Last(s) \in ToSet(s)
  <2>1. Len(s) \in DOMAIN s
    BY <1>1
  <2> QED
    BY <2>1 DEF Last, ToSet
<1> QED
  BY <1>1

\* A step without a packet or a frame is a stutter, or the end.
LEMMA NothingMoves ==
    ASSUME UNCHANGED <<sentPackets, delivered>>, Ended => Ended'
    PROVE  [Service!Next]_(Service!vars)
<1>1. CASE Ended' = Ended
  BY <1>1 DEF Service!vars
<1>2. CASE ~Ended /\ Ended'
  <2>1. Service!End
    BY <1>2, Zenon DEF Service!End
  <2> QED
    BY <2>1 DEF Service!Next
<1> QED
  BY <1>1, <1>2 DEF Ended

\* Transmitting a packet is accepting it.
LEMMA SubmitPacketAccepts ==
    ASSUME TypeOK, OrderInv, SubmitPacket
    PROVE  [Service!Next]_(Service!vars)
<1>1. arg \in Frames /\ sentPackets \in Seq(Frames)
  BY DEF SubmitPacket, TypeOK, ClientTypeOK, NoPacket
<1>2. \A q \in ToSet(sentPackets) : q < arg
  BY DEF SubmitPacket, OrderInv, TurnInv
<1>3. Service!After(arg, sentPackets)
  BY <1>1, <1>2, BeyondLast DEF Service!After, Service!Last, Last
<1>4. ~Ended /\ ~Ended'
  BY DEF SubmitPacket, Reading, OrderInv, CallInv, Ended
<1>5. Ended' = Ended
  BY <1>4, Zenon DEF Ended
<1>6. Service!Accept(arg)
  BY <1>3, <1>4, <1>5 DEF Service!Accept, SubmitPacket, Reading
<1> QED
  BY <1>1, <1>6 DEF Service!Next

\* Handing a frame to the application is the output of it.
LEMMA ReadFrameOutputs ==
    ASSUME TypeOK, OrderInv, ReadFrame
    PROVE  [Service!Next]_(Service!vars)
<1> DEFINE p == Head(s2c).packet
<1>1. /\ s2c \in Seq(DecServerMsg) /\ s2c # <<>> /\ Head(s2c).type = "FRAME" /\ p \in Frames
      /\ delivered \in Seq(Frames)
  BY FrameAtHead DEF ReadFrame, TypeOK, ClientTypeOK, StreamTypeOK, ClientSees
<1>2. p \in Coming(s2c, "FRAME")
  BY <1>1, ComingTail DEF OrderInv, StreamsInv
<1>3. /\ pc' = "app" /\ delivered' = Append(delivered, p) /\ drained' = FALSE
      /\ sentPackets' = sentPackets
  BY <1>1, ReturnFrame DEF ReadFrame, TypeOK
<1>4. ~Ended /\ ~Ended'
  BY <1>3 DEF ReadFrame, OrderInv, CallInv, Ended
<1>5. Ended' = Ended
  BY <1>4, Zenon DEF Ended
<1> HIDE DEF p
<1>6. p \in ToSet(sentPackets) /\ \A q \in ToSet(delivered) : q < p
  BY <1>2 DEF OrderInv, PlacesInv, PlacesInOrder, Below
<1>7. Service!After(p, delivered)
  BY <1>1, <1>6, BeyondLast DEF Service!After, Service!Last, Last
<1>8. Service!Output(p)
  BY <1>3, <1>4, <1>5, <1>6, <1>7 DEF Service!Output, Service!ToSet, ToSet
<1> QED
  BY <1>1, <1>8 DEF Service!Next

\* Every step of a session is one of the service, or a stutter.
LEMMA ServiceStep ==
    ASSUME TypeOK, OrderInv, [Next]_vars
    PROVE  [Service!Next]_(Service!vars)
<1>1. CASE SubmitPacket
  BY <1>1, SubmitPacketAccepts
<1>2. CASE ReadFrame
  BY <1>2, ReadFrameOutputs
<1>3. CASE SubmitFlush \/ FlushSent \/ AnswerPing
  <2>1. UNCHANGED <<sentPackets, delivered>> /\ ~Ended
    BY <1>3 DEF SubmitFlush, FlushSent, AnswerPing, Reading, clientVars, OrderInv, CallInv, Ended
  <2> QED
    BY <2>1, NothingMoves
<1>4. CASE SubmitFails
  <2>1. sentPackets' = sentPackets /\ ~Ended
    BY <1>4 DEF SubmitFails, OrderInv, CallInv, Ended
  <2>2. CASE SendError = "EAGAIN"
    BY <1>4, <2>1, <2>2, NothingMoves DEF SubmitFails
  <2>3. CASE SendError # "EAGAIN"
    <3>1. SendError = "EPIPE" /\ Return(SendError, <<>>)
      BY <1>4, <2>3, SubmitFailsDead
    <3>2. delivered' = delivered
      BY <3>1, ReturnNothing DEF Returned, TypeOK
    <3> QED
      BY <2>1, <3>2, NothingMoves
  <2> QED
    BY <2>2, <2>3
<1>5. CASE ReadDone \/ ReadFails \/ ReadTimeout
  <2>1. sentPackets' = sentPackets /\ ~Ended
    BY <1>5 DEF ReadDone, ReadFails, ReadTimeout, OrderInv, CallInv, Ended
  <2>2. Returned
    BY <1>5, ReturnNothing DEF ReadDone, ReadFails, ReadTimeout, TypeOK
  <2> QED
    BY <2>1, <2>2, NothingMoves DEF Returned
<1>6. CASE SendPacket \/ Drain \/ Close
  BY <1>6, NothingMoves DEF SendPacket, Drain, Close, Ended
<1>7. CASE UNCHANGED clientVars
  BY <1>7, NothingMoves DEF clientVars, Ended
<1> QED
  BY <1>1, <1>2, <1>3, <1>4, <1>5, <1>6, <1>7
     DEF Next, ClientNext, Call, Terminated, vars

\* Frames reach the application in the order in which their packets were
\* transmitted, each at most once and only for packets that were, and none
\* after the end, whatever fails: vtremoted waits for the decoder before it
\* reads on, so no frame can overtake another.
THEOREM SessionDecodesInOrder == Spec => DecodesInOrder
<1>1. ASSUME Init
      PROVE  OrderInv
  <2>1. Coming(<<>>, "PACKET") = {} /\ InOrder(<<>>, "PACKET")
    BY ComingEmpty
  <2>2. Coming(<<>>, "FRAME") = {} /\ InOrder(<<>>, "FRAME")
    BY ComingEmpty
  <2>3. ToSet(<<>>) = {}
    BY DEF ToSet
  <2>4. StreamsInv /\ PlacesInv
    BY <1>1, <2>1, <2>2, <2>3
       DEF Init, WireInit, StreamsInv, PlacesInv, PlacesInOrder, Below
  <2>5. TurnInv /\ CallInv
    BY <1>1, <2>3 DEF Init, TurnInv, CallInv
  <2> QED
    BY <2>4, <2>5 DEF OrderInv
<1>2. TypeOK /\ OrderInv /\ [Next]_vars => OrderInv'
  BY OrderStep
<1>3. Init => Service!Init
  BY Zenon DEF Init, Service!Init, Ended
<1>4. TypeOK /\ OrderInv /\ [Next]_vars => [Service!Next]_(Service!vars)
  BY ServiceStep
<1> QED
  BY <1>1, <1>2, <1>3, <1>4, TypeCorrect, PTL DEF Spec, DecodesInOrder, Service!Spec

-------------------------------------------------------------------------------
(***************************************************************************)
(* What the decoder has made of the packets, and where its frames are.     *)
(***************************************************************************)

\* What a connection that has lost bytes says of the server, and a server that
\* reads no more of the decoder.
EndsInv ==
    /\ tx # "ok" => s2cEnd # "open"
    /\ s2cEnd # "open" => srv = "closed"
    /\ srv # "loop" => pending = <<>>

\* Frames are made in the order of their packets.
MadeInv ==
    /\ \A i, j \in DOMAIN framesOut : i < j => framesOut[i] < framesOut[j]
    /\ PlacesInOrder(Coming(c2s, "PACKET"), ToSet(pending), ToSet(framesOut), {},
                     ToSet(sentPackets))

\* The application has the first of them.
PrefixInv ==
    /\ Len(delivered) <= Len(framesOut)
    /\ \A k \in DOMAIN delivered : delivered[k] = framesOut[k]

\* Every frame made is on its way back or with the application.
Whole == ToSet(framesOut) \subseteq Coming(s2c, "FRAME") \cup ToSet(delivered)

\* Those on their way are the next ones, without a gap, and all of them while
\* the connection is sound.
WindowInv ==
    /\ Coming(s2c, "FRAME") \subseteq ToSet(framesOut)
    /\ \A p \in Coming(s2c, "FRAME"), q \in ToSet(framesOut) :
          q < p => q \in Coming(s2c, "FRAME") \cup ToSet(delivered)
    /\ c2sEnd = "open" /\ s2cEnd # "rst" => Whole

\* While the server has not closed, no packet has vanished, unless one was taken
\* for the rest of a message that was cut.
AccountInv ==
    /\ lost \subseteq ToSet(sentPackets)
    /\ s2cEnd = "open" /\ ~torn =>
          ToSet(sentPackets) \subseteq Coming(c2s, "PACKET") \cup ToSet(pending)
                                      \cup ToSet(framesOut) \cup lost

\* A message of type t comes; none of type u comes after one of type t.
Comes(s, t) == \E i \in DOMAIN s : s[i].type = t

\* No message has been cut.
UncutInv == ~torn => ~Comes(c2s, "PART")

FramesInv == EndsInv /\ MadeInv /\ PrefixInv /\ WindowInv /\ AccountInv /\ UncutInv

Closes(s, t, u) == \A i, j \in DOMAIN s : s[i].type = t /\ s[j].type = u => j < i

\* FLUSH is the last of the client's stream of packets.
FlushInv ==
    /\ arg # NoPacket => ~draining
    /\ pc = "call" /\ arg = NoPacket => draining
    /\ Closes(c2s, "FLUSH", "PACKET")
    /\ Comes(c2s, "FLUSH") => draining
    /\ srv \in {"flushing", "done"} => draining /\ ~Comes(c2s, "PACKET")

\* DONE is the last of the server's, when every packet is settled.
DoneInv ==
    /\ done \/ Comes(s2c, "DONE") => /\ draining
                                     /\ srv \in {"done", "closed"}
                                     /\ torn \/ ToSet(sentPackets) \subseteq ToSet(framesOut) \cup lost
    /\ Closes(s2c, "DONE", "FRAME")
    /\ Comes(s2c, "DONE") => Whole
    /\ done => ToSet(framesOut) \subseteq ToSet(delivered)

\* The end of the stream without an error.
EndInv ==
    drained /\ ret \notin Fatal /\ ~cutShort /\ s2cEnd # "rst" =>
        /\ srv \in {"done", "closed"}
        /\ ToSet(framesOut) \subseteq ToSet(delivered)

\* The client's side is open as long as it has a use for it.
OpenInv == pc \in {"app", "call", "read"} => c2sEnd = "open"

DrainInv == OpenInv /\ FlushInv /\ DoneInv /\ EndInv

\* The head of a direction is among what comes.
LEMMA ComingHead ==
    ASSUME NEW M, NEW s \in Seq(M), s # <<>>, NEW t
    PROVE  /\ Head(s).type = t => Coming(s, t) = {Head(s).packet} \cup Coming(Tail(s), t)
           /\ Head(s).type # t => Coming(s, t) = Coming(Tail(s), t)
<1>1. /\ Head(s) = s[1] /\ 1 \in DOMAIN s
      /\ \A i \in DOMAIN Tail(s) : i + 1 \in DOMAIN s /\ Tail(s)[i] = s[i + 1]
  BY HeadAndTail
<1>2. \A i \in DOMAIN s : i = 1 \/ (i - 1 \in DOMAIN Tail(s) /\ Tail(s)[i - 1] = s[i])
  OBVIOUS
<1>3. Coming(Tail(s), t) \subseteq Coming(s, t)
  BY <1>1 DEF Coming
<1>4. ASSUME NEW p \in Coming(s, t)
      PROVE  (Head(s).type = t /\ p = Head(s).packet) \/ p \in Coming(Tail(s), t)
  <2>1. PICK i \in DOMAIN s : s[i].type = t /\ p = s[i].packet
    BY DEF Coming
  <2>2. CASE i = 1
    BY <1>1, <2>1, <2>2
  <2>3. CASE i # 1
    <3>1. i - 1 \in DOMAIN Tail(s) /\ Tail(s)[i - 1] = s[i]
      BY <1>2, <2>3
    <3> QED
      BY <2>1, <3>1 DEF Coming
  <2> QED
    BY <2>2, <2>3
<1>5. Head(s).type = t => Head(s).packet \in Coming(s, t)
  BY <1>1 DEF Coming
<1> QED
  BY <1>3, <1>4, <1>5

\* Dropping a suffix keeps every packet before one that is kept.
LEMMA PrefixKeepsEarlier ==
    ASSUME NEW M, NEW s \in Seq(M), NEW n \in 0 .. Len(s), NEW t, InOrder(s, t),
           \A x \in Coming(s, t) : x \in Int
    PROVE  \A p \in Coming(SubSeq(s, 1, n), t), q \in Coming(s, t) :
              q < p => q \in Coming(SubSeq(s, 1, n), t)
<1> DEFINE r == SubSeq(s, 1, n)
<1>1. /\ \A i \in DOMAIN r : i \in DOMAIN s /\ i <= n /\ r[i] = s[i]
      /\ \A i \in DOMAIN s : i <= n => i \in DOMAIN r
      /\ DOMAIN s \subseteq Int
  OBVIOUS
<1> HIDE DEF r
<1>2. ASSUME NEW p \in Coming(r, t), NEW q \in Coming(s, t), q < p
      PROVE  q \in Coming(r, t)
  <2>1. PICK i \in DOMAIN r : r[i].type = t /\ p = r[i].packet
    BY DEF Coming
  <2>2. PICK j \in DOMAIN s : s[j].type = t /\ q = s[j].packet
    BY DEF Coming
  <2>3. s[i].type = t /\ p = s[i].packet /\ i \in DOMAIN s /\ i <= n
    BY <1>1, <2>1
  <2>4. p \in Int /\ q \in Int
    BY <1>1, <2>3 DEF Coming
  <2>5. ~(i < j)
    <3>1. i < j => p < q
      BY <2>2, <2>3 DEF InOrder
    <3> QED
      BY <1>2, <2>4, <3>1
  <2>6. j <= n
    BY <1>1, <2>2, <2>3, <2>5
  <2>7. j \in DOMAIN r /\ r[j] = s[j]
    BY <1>1, <2>2, <2>6
  <2> QED
    BY <2>2, <2>7 DEF Coming
<1> QED
  BY <1>2 DEF r

\* The step of the connection that a loss is.
LEMMA EndsStep ==
    ASSUME TypeOK, EndsInv, [Next]_vars
    PROVE  EndsInv'
<1>1. ServerTypeOK /\ StreamTypeOK
  BY DEF TypeOK
<1>2. CASE ClientNext /\ UNCHANGED serverVars
  <2>1. UNCHANGED <<s2cEnd, srv, pending>>
    BY <1>2 DEF ClientNext, Call, SendPacket, Drain, Close, ClientCloses, SubmitPacket, SubmitFlush,
                FlushSent, SubmitFails, ReadFrame, ReadDone, ReadFails, ReadTimeout, AnswerPing,
                wireVars, serverVars
  <2>2. tx' = tx \/ s2cEnd # "open"
    BY <1>2, FailedSend DEF ClientNext, Call, SendPacket, Drain, Close, ClientCloses, SubmitPacket, SubmitFlush,
                FlushSent, SubmitFails, ReadFrame, ReadDone, ReadFails, ReadTimeout, AnswerPing,
                wireVars, ClientSend
  <2> QED
    BY <2>1, <2>2 DEF EndsInv
<1>3. CASE LoopStep
  BY <1>3 DEF LoopStep, ReadPacket, ReadOther, ReadGarbled, ReadBroken, serverVars, SendDone, Shutdown, ServerCloses, EndsInv, AsyncFramesDone
<1>4. CASE Callback
  <2>1. PICK i \in DOMAIN pending : EmitFrame(i) \/ LoseFrame(i)
    BY <1>4 DEF Callback
  <2>2. UNCHANGED <<srv, s2cEnd, tx>> /\ pending # <<>>
    BY <2>1 DEF EmitFrame, LoseFrame, wireVars
  <2> QED
    BY <2>2 DEF EndsInv
<1>5. CASE Crash \/ PeerPing \/ PeerError
  BY <1>5 DEF Crash, PeerPing, PeerError, ServerCloses, EndsInv
<1>6. CASE PeerReset /\ UNCHANGED <<clientVars, serverVars>>
  BY <1>1, <1>6 DEF PeerReset, EndsInv, serverVars, StreamTypeOK
<1>7. CASE UNCHANGED vars
  BY <1>7 DEF vars, clientVars, serverVars, wireVars, EndsInv
<1> QED
  BY <1>2, <1>3, <1>4, <1>5, <1>6, <1>7 DEF Next, ServerNext, Terminated

\* A torn stream stays torn.
LEMMA TornStays ==
    ASSUME [Next]_vars, torn
    PROVE  torn'
<1>1. CASE ClientNext
  BY <1>1, FailedSend DEF ClientNext, Call, SendPacket, Drain, Close, ClientCloses, SubmitPacket, SubmitFlush,
              FlushSent, SubmitFails, ReadFrame, ReadDone, ReadFails, ReadTimeout, AnswerPing,
              ClientSend, wireVars
<1>2. CASE ServerNext
  BY <1>2 DEF ServerNext, LoopStep, ReadPacket, ReadOther, ReadGarbled, ReadBroken, SendDone, Shutdown,
              Crash, Callback, EmitFrame, LoseFrame, PeerPing, PeerError, ServerCloses, wireVars
<1>3. CASE PeerReset \/ UNCHANGED vars
  BY <1>3 DEF PeerReset, vars, wireVars
<1> QED
  BY <1>1, <1>2, <1>3 DEF Next, Terminated

\* What the client's step puts on the wire.
LEMMA ClientPuts ==
    ASSUME TypeOK, ClientNext
    PROVE  \/ UNCHANGED <<sentPackets, c2s>>
           \/ UNCHANGED sentPackets /\ ClientSendFails(NoFrame)
           \/ UNCHANGED sentPackets /\ \E m \in DecClientMsg : m.type = "PONG" /\ ClientSend(m)
           \/ SubmitFlush /\ \E m \in DecClientMsg : m.type = "FLUSH" /\ ClientSend(m)
           \/ SubmitPacket /\ \E m \in DecClientMsg : /\ m.type = "PACKET" /\ m.packet = arg
                                                      /\ ClientSend(m)
<1>1. CASE SubmitPacket
  <2>1. arg \in Frames
    BY <1>1 DEF SubmitPacket, TypeOK, ClientTypeOK, NoPacket
  <2>2. PICK m \in DecClientMsg : m = [type |-> "PACKET", packet |-> arg]
    BY <2>1 DEF DecClientMsg
  <2>3. ClientSend(m)
    BY <1>1, <2>2 DEF SubmitPacket
  <2>4. m.type = "PACKET" /\ m.packet = arg
    BY <2>2
  <2> QED
    BY <1>1, <2>3, <2>4
<1>2. CASE SubmitFlush
  <2>1. PICK m \in DecClientMsg : m = [type |-> "FLUSH"]
    BY DEF DecClientMsg
  <2>2. ClientSend(m)
    BY <1>2, <2>1 DEF SubmitFlush
  <2>3. m.type = "FLUSH"
    BY <2>1
  <2> QED
    BY <1>2, <2>2, <2>3
<1>3. CASE AnswerPing
  <2>1. PICK m \in DecClientMsg : m = [type |-> "PONG"]
    BY DEF DecClientMsg
  <2>2. UNCHANGED sentPackets /\ (ClientSend(m) \/ ClientSendFails(NoFrame))
    BY <1>3, <2>1 DEF AnswerPing, clientVars
  <2>3. m.type = "PONG"
    BY <2>1
  <2> QED
    BY <2>2, <2>3
<1>4. CASE SubmitFails
  BY <1>4 DEF SubmitFails
<1>5. CASE ~SubmitPacket /\ ~SubmitFlush /\ ~AnswerPing /\ ~SubmitFails
  BY <1>5 DEF ClientNext, Call, SendPacket, Drain, Close, ClientCloses, FlushSent, ReadFrame,
              ReadDone, ReadFails, ReadTimeout, wireVars
<1> QED
  BY <1>1, <1>2, <1>3, <1>4, <1>5

\* What the server's step takes off the wire.
LEMMA ServerTakes ==
    ASSUME ServerNext
    PROVE  \/ c2s' = c2s \/ c2s' = <<>>
           \/ c2s # <<>> /\ c2s' = Tail(c2s)
           \/ ReadSpliced /\ ReadGarbled
<1>1. CASE LoopStep
  BY <1>1 DEF LoopStep, ReadPacket, ReadOther, ReadGarbled, ReadBroken, SendDone, Shutdown, ServerCloses,
              ServerSees
<1>2. CASE Callback
  BY <1>2 DEF Callback, EmitFrame, LoseFrame, wireVars
<1>3. CASE Crash \/ PeerPing \/ PeerError
  BY <1>3 DEF Crash, PeerPing, PeerError, ServerCloses
<1> QED
  BY <1>1, <1>2, <1>3 DEF ServerNext

\* Nothing is taken for the rest of a message while none has been cut.
LEMMA NothingGarbled ==
    ASSUME TypeOK, UncutInv, ReadGarbled
    PROVE  torn
<1>1. c2s # <<>> /\ Head(c2s).type = "PART" /\ c2s \in Seq(DecClientMsg)
  BY DEF ReadGarbled, ReadSpliced, ServerSees, TypeOK, StreamTypeOK
<1>2. 1 \in DOMAIN c2s /\ c2s[1].type = "PART"
  BY <1>1, HeadAndTail
<1> QED
  BY <1>2 DEF UncutInv, Comes

\* No message is cut but by a send that tears the stream.
LEMMA UncutStep ==
    ASSUME TypeOK, UncutInv, [Next]_vars
    PROVE  UncutInv'
<1> SUFFICES ASSUME ~torn'
             PROVE  \A i \in DOMAIN c2s' : c2s'[i].type # "PART"
  BY DEF UncutInv, Comes
<1>0. ~torn /\ c2s \in Seq(DecClientMsg) /\ \A i \in DOMAIN c2s : c2s[i].type # "PART"
  BY TornStays DEF TypeOK, StreamTypeOK, UncutInv, Comes
<1>1. ASSUME NEW m \in DecClientMsg, m.type # "PART", c2s' = Append(c2s, m)
      PROVE  \A i \in DOMAIN c2s' : c2s'[i].type # "PART"
  <2>1. \A i \in DOMAIN Append(c2s, m) :
            \/ i \in DOMAIN c2s /\ Append(c2s, m)[i] = c2s[i]
            \/ Append(c2s, m)[i] = m
    BY <1>0
  <2> QED
    BY <1>0, <1>1, <2>1
<1>2. ASSUME c2s # <<>>, c2s' = Tail(c2s)
      PROVE  \A i \in DOMAIN c2s' : c2s'[i].type # "PART"
  BY <1>0, <1>2, HeadAndTail
<1>3. CASE c2s' = c2s \/ c2s' = <<>>
  BY <1>0, <1>3
<1>4. CASE ClientNext
  BY <1>1, <1>3, <1>4, ClientPuts, FailedSend DEF ClientSend
<1>5. CASE ServerNext
  BY <1>0, <1>2, <1>3, <1>5, ServerTakes, NothingGarbled
<1>6. CASE PeerReset \/ UNCHANGED vars
  BY <1>3, <1>6 DEF PeerReset, vars, wireVars
<1> QED
  BY <1>4, <1>5, <1>6 DEF Next, Terminated

\* A step that neither transmits, decodes nor emits can only lose packets.
LEMMA PipelineEffect ==
    ASSUME TypeOK, OrderInv, [Next]_vars
    PROVE  \/ SubmitPacket /\ UNCHANGED serverVars
           \/ ReadPacket /\ UNCHANGED clientVars
           \/ (\E i \in DOMAIN pending : EmitFrame(i)) /\ UNCHANGED clientVars
           \/ (\E i \in DOMAIN pending : LoseFrame(i)) /\ UNCHANGED clientVars
           \/ /\ UNCHANGED <<sentPackets, framesOut, lost>>
              /\ pending' = pending \/ (pending' = <<>> /\ s2cEnd' # "open")
              /\ Fewer(c2s, c2s', "PACKET")
              /\ s2cEnd' = "open" /\ ~torn' /\ ~ReadGarbled =>
                    s2cEnd = "open" /\ Coming(c2s', "PACKET") = Coming(c2s, "PACKET")
<1> DEFINE Other == /\ UNCHANGED <<sentPackets, framesOut, lost>>
                    /\ pending' = pending \/ (pending' = <<>> /\ s2cEnd' # "open")
                    /\ Fewer(c2s, c2s', "PACKET")
                    /\ s2cEnd' = "open" /\ ~torn' /\ ~ReadGarbled =>
                          s2cEnd = "open" /\ Coming(c2s', "PACKET") = Coming(c2s, "PACKET")
<1>1. /\ ClientTypeOK /\ ServerTypeOK /\ StreamTypeOK /\ StreamsInv /\ c2s \in Seq(DecClientMsg)
      /\ InOrder(c2s, "PACKET")
  BY DEF TypeOK, OrderInv, StreamsInv, StreamTypeOK
<1>2. ASSUME UNCHANGED c2s
      PROVE  Fewer(c2s, c2s', "PACKET")
  BY <1>1, <1>2 DEF Fewer
<1>3. ASSUME NEW m \in DecClientMsg, m.type # "PACKET", ClientSend(m)
      PROVE  Fewer(c2s, c2s', "PACKET") /\ Coming(c2s', "PACKET") = Coming(c2s, "PACKET")
  <2>1. c2s' = c2s \/ c2s' = Append(c2s, m)
    BY <1>3 DEF ClientSend
  <2>2. CASE c2s' = Append(c2s, m)
    BY <1>1, <1>3, <2>2, ComingAppendOther DEF Fewer
  <2> QED
    BY <1>2, <2>1, <2>2
<1>4. CASE ClientNext /\ UNCHANGED serverVars
  <2>0. CASE SubmitFails
    <3>1. UNCHANGED <<sentPackets, s2cEnd, framesOut, lost, pending>> /\ ClientSendFails(NoFrame)
      BY <1>4, <2>0 DEF SubmitFails, serverVars
    <3>2. Fewer(c2s, c2s', "PACKET")
      BY <1>1, <3>1, FewerPackets
    <3> QED
      BY <3>1, <3>2, FailedSend
  <2>1. CASE SendPacket \/ Drain \/ Close \/ FlushSent \/ ReadFrame \/ ReadDone
             \/ ReadFails \/ ReadTimeout
    <3>1. UNCHANGED <<sentPackets, c2s, s2cEnd, framesOut, lost, pending>>
      BY <1>4, <2>1 DEF SendPacket, Drain, Close, ClientCloses, FlushSent, ReadFrame,
                        ReadDone, ReadFails, ReadTimeout, wireVars, serverVars
    <3> QED
      BY <1>2, <3>1
  <2>2. CASE SubmitFlush
    <3>1. [type |-> "FLUSH"] \in DecClientMsg
      BY DEF DecClientMsg
    <3>2. UNCHANGED <<sentPackets, s2cEnd, framesOut, lost, pending>> /\ ClientSend([type |-> "FLUSH"])
      BY <1>4, <2>2 DEF SubmitFlush, serverVars
    <3> QED
      BY <1>3, <3>1, <3>2
  <2>3. CASE AnswerPing
    <3>1. [type |-> "PONG"] \in DecClientMsg
      BY DEF DecClientMsg
    <3>2. /\ UNCHANGED <<sentPackets, s2cEnd, framesOut, lost, pending>>
          /\ ClientSend([type |-> "PONG"]) \/ ClientSendFails(NoFrame)
      BY <1>4, <2>3 DEF AnswerPing, clientVars, serverVars
    <3>3. CASE ClientSend([type |-> "PONG"])
      BY <1>3, <3>1, <3>2, <3>3
    <3>4. CASE ClientSendFails(NoFrame)
      <4>1. Fewer(c2s, c2s', "PACKET")
        BY <1>1, <3>4, FewerPackets
      <4> QED
        BY <3>2, <3>4, <4>1, FailedSend
    <3> QED
      BY <3>2, <3>3, <3>4
  <2> QED
    BY <1>4, <2>0, <2>1, <2>2, <2>3 DEF ClientNext, Call
<1>5. CASE ServerNext /\ UNCHANGED clientVars
  <2>4. CASE ReadGarbled
    <3>1. UNCHANGED <<sentPackets, s2cEnd, framesOut, lost, pending>> /\ ReadSpliced
      BY <1>5, <2>4 DEF ReadGarbled, serverVars, clientVars
    <3>2. Fewer(c2s, c2s', "PACKET")
      BY <1>1, <3>1, FewerPackets
    <3> QED
      BY <2>4, <3>1, <3>2
  <2>5. CASE ReadBroken
    <3>1. UNCHANGED <<sentPackets, framesOut, lost, pending>> /\ s2cEnd' = "fin" /\ c2s' = <<>>
      BY <1>5, <2>5 DEF ReadBroken, ServerCloses, clientVars
    <3>2. Fewer(c2s, c2s', "PACKET")
      BY <3>1, ComingEmpty DEF Fewer
    <3> QED
      BY <3>1, <3>2
  <2>1. CASE ReadOther
    <3>1. c2s # <<>> /\ c2s' = Tail(c2s) /\ Head(c2s).type # "PACKET"
      BY <2>1 DEF ReadOther, ServerSees
    <3>2. Coming(c2s', "PACKET") = Coming(c2s, "PACKET") /\ Fewer(c2s, c2s', "PACKET")
      BY <1>1, <3>1, ComingHead, ComingTail DEF Fewer
    <3>3. UNCHANGED <<sentPackets, s2cEnd, framesOut, lost, pending>>
      BY <1>5, <2>1 DEF ReadOther, clientVars
    <3> QED
      BY <3>2, <3>3
  <2>2. CASE SendDone \/ PeerPing
    <3>1. UNCHANGED <<sentPackets, c2s, s2cEnd, framesOut, lost, pending>>
      BY <1>5, <2>2 DEF SendDone, PeerPing, clientVars
    <3> QED
      BY <1>2, <3>1
  <2>3. CASE Shutdown \/ Crash \/ PeerError
    <3>1. /\ UNCHANGED <<sentPackets, framesOut, lost>> /\ pending' = <<>> /\ s2cEnd' = "fin" /\ c2s' = <<>>
      BY <1>5, <2>3 DEF Shutdown, Crash, PeerError, ServerCloses, clientVars
    <3>2. Fewer(c2s, c2s', "PACKET")
      BY <3>1, ComingEmpty DEF Fewer
    <3> QED
      BY <3>1, <3>2
  <2> QED
    BY <1>5, <2>1, <2>2, <2>3, <2>4, <2>5 DEF ServerNext, LoopStep, Callback
<1>6. CASE PeerReset /\ UNCHANGED <<clientVars, serverVars>>
  <2>1. UNCHANGED <<sentPackets, c2s, framesOut, lost, pending>> /\ (s2cEnd' = "open" => s2cEnd = "open")
    BY <1>1, <1>6 DEF PeerReset, clientVars, serverVars, StreamTypeOK
  <2> QED
    BY <1>2, <2>1
<1>7. CASE UNCHANGED vars
  BY <1>2, <1>7 DEF vars, clientVars, serverVars, wireVars
<1> QED
  BY <1>4, <1>5, <1>6, <1>7 DEF Next, Terminated

\* Numbers of packets.
LEMMA PacketsAreInts ==
    ASSUME TypeOK
    PROVE  /\ \A p \in Coming(c2s, "PACKET") : p \in Int
           /\ \A p \in Coming(s2c, "FRAME") : p \in Int
           /\ \A p \in ToSet(framesOut) \cup ToSet(pending) \cup ToSet(delivered) : p \in Int
<1>1. Frames \subseteq Int
  BY DEF Frames
<1>2. /\ ToSet(framesOut) \subseteq Frames /\ ToSet(pending) \subseteq Frames /\ ToSet(delivered) \subseteq Frames
  BY DEF TypeOK, ClientTypeOK, ServerTypeOK, ToSet
<1>3. \A p \in Coming(c2s, "PACKET") : p \in Frames
  <2>1. \A i \in DOMAIN c2s : c2s[i] \in DecClientMsg
    BY DEF TypeOK, StreamTypeOK
  <2>2. \A m \in DecClientMsg : m.type = "PACKET" => m.packet \in Frames
    BY DEF DecClientMsg, PartMsg
  <2> QED
    BY <2>1, <2>2 DEF Coming
<1>4. \A p \in Coming(s2c, "FRAME") : p \in Frames
  <2>1. \A i \in DOMAIN s2c : s2c[i] \in DecServerMsg
    BY DEF TypeOK, StreamTypeOK
  <2>2. \A m \in DecServerMsg : m.type = "FRAME" => m.packet \in Frames
    BY DEF DecServerMsg
  <2> QED
    BY <2>1, <2>2 DEF Coming
<1> QED
  BY <1>1, <1>2, <1>3, <1>4

\* A rising sequence goes on with something beyond all of it.
LEMMA RisingAppend ==
    ASSUME NEW s \in Seq(Frames), NEW p \in Frames, \A q \in ToSet(s) : q < p,
           \A i, j \in DOMAIN s : i < j => s[i] < s[j]
    PROVE  \A i, j \in DOMAIN Append(s, p) : i < j => Append(s, p)[i] < Append(s, p)[j]
<1>1. /\ \A i \in DOMAIN s : Append(s, p)[i] = s[i] /\ s[i] \in ToSet(s)
      /\ Append(s, p)[Len(s) + 1] = p
      /\ DOMAIN Append(s, p) = 1 .. Len(s) + 1 /\ DOMAIN s = 1 .. Len(s) /\ Len(s) \in Nat
  BY DEF ToSet
<1>2. ASSUME NEW i \in DOMAIN Append(s, p), NEW j \in DOMAIN Append(s, p), i < j
      PROVE  Append(s, p)[i] < Append(s, p)[j]
  <2>1. i \in DOMAIN s
    BY <1>1, <1>2
  <2>2. CASE j \in DOMAIN s
    BY <1>1, <1>2, <2>1, <2>2
  <2>3. CASE j = Len(s) + 1
    BY <1>1, <2>1, <2>3
  <2> QED
    BY <1>1, <2>2, <2>3
<1> QED
  BY <1>2

\* A frame leaves the decoder.
LEMMA Emission ==
    ASSUME TypeOK, MadeInv, NEW i \in DOMAIN pending, EmitFrame(i), UNCHANGED clientVars
    PROVE  /\ pending[i] \in Frames
           /\ \A q \in ToSet(framesOut) : q < pending[i]
           /\ framesOut' = Append(framesOut, pending[i])
           /\ ToSet(framesOut') = ToSet(framesOut) \cup {pending[i]}
           /\ pending[i] \in ToSet(pending) /\ ToSet(pending') = {}
           /\ \A q \in ToSet(pending) : q = pending[i]
<1>1. /\ pending \in Seq(Frames) /\ Len(pending) <= 1 /\ pending[i] \in Frames
      /\ framesOut \in Seq(Frames)
  BY DEF TypeOK, ServerTypeOK
<1>2. pending[i] \in ToSet(pending) /\ ToSet(pending') = {}
  BY <1>1, RemoveOnly DEF EmitFrame, ToSet
<1>3. framesOut' = Append(framesOut, pending[i])
  BY DEF EmitFrame
<1>4. ToSet(framesOut') = ToSet(framesOut) \cup {pending[i]}
  BY <1>1, <1>3, AppendElements
<1>5. \A q \in ToSet(framesOut) : q < pending[i]
  BY <1>2 DEF MadeInv, PlacesInOrder, Below
<1>6. \A j \in DOMAIN pending : j = i
  BY <1>1
<1>7. \A q \in ToSet(pending) : q = pending[i]
  BY <1>6 DEF ToSet
<1> QED
  BY <1>1, <1>2, <1>3, <1>4, <1>5, <1>7

\* Frames are made in order.
LEMMA MadeStep ==
    ASSUME TypeOK, OrderInv, MadeInv, [Next]_vars
    PROVE  MadeInv'
<1>1. CASE SubmitPacket /\ UNCHANGED serverVars
  <2> DEFINE m == [type |-> "PACKET", packet |-> arg]
  <2>1. arg \in Frames /\ sentPackets \in Seq(Frames) /\ c2s \in Seq(DecClientMsg)
    BY <1>1 DEF SubmitPacket, TypeOK, ClientTypeOK, StreamTypeOK, NoPacket
  <2>2. m \in DecClientMsg /\ m.type = "PACKET" /\ m.packet = arg
    BY <2>1 DEF DecClientMsg
  <2>3. \A q \in ToSet(sentPackets) : q < arg
    BY <1>1 DEF SubmitPacket, OrderInv, TurnInv
  <2>4. ToSet(sentPackets') = ToSet(sentPackets) \cup {arg}
    BY <1>1, <2>1, AppendElements DEF SubmitPacket
  <2>5. c2s' = c2s \/ c2s' = Append(c2s, m)
    BY <1>1 DEF SubmitPacket, ClientSend
  <2> HIDE DEF m
  <2>6. \A q \in Coming(c2s, "PACKET") : q < m.packet
    BY <2>2, <2>3 DEF OrderInv, PlacesInv, PlacesInOrder
  <2>7. Coming(c2s', "PACKET") \subseteq Coming(c2s, "PACKET") \cup {arg}
    <3>1. CASE c2s' = Append(c2s, m)
      BY <2>1, <2>2, <2>6, <3>1, ComingAppendNext DEF OrderInv, StreamsInv
    <3> QED
      BY <2>5, <3>1
  <2>8. UNCHANGED <<pending, framesOut>>
    BY <1>1 DEF serverVars
  <2>9. PlacesInOrder(Coming(c2s', "PACKET"), ToSet(pending), ToSet(framesOut), {},
                      ToSet(sentPackets) \cup {arg})
    BY <2>3, <2>7, PlacesSubmit DEF MadeInv
  <2> QED
    BY <2>4, <2>8, <2>9 DEF MadeInv
<1>2. CASE ReadPacket /\ UNCHANGED clientVars
  <2> DEFINE p == Head(c2s).packet
  <2>1. /\ c2s \in Seq(DecClientMsg) /\ c2s # <<>> /\ Head(c2s).type = "PACKET" /\ p \in Frames
        /\ pending = <<>> /\ pending \in Seq(Frames)
    BY <1>2, PacketAtHead DEF ReadPacket, AsyncFramesDone, TypeOK, ServerTypeOK, StreamTypeOK, ServerSees
  <2>2. /\ Coming(Tail(c2s), "PACKET") \subseteq Coming(c2s, "PACKET")
        /\ p \in Coming(c2s, "PACKET")
        /\ \A q \in Coming(Tail(c2s), "PACKET") : p < q
    BY <2>1, ComingTail DEF OrderInv, StreamsInv
  <2>3. UNCHANGED <<framesOut, sentPackets>> /\ c2s' = Tail(c2s) /\ pending' = Append(pending, p)
    BY <1>2 DEF ReadPacket, clientVars
  <2> HIDE DEF p
  <2>4. ToSet(pending) = {} /\ ToSet(pending') = {p}
    <3>1. DOMAIN pending = {}
      BY <2>1
    <3>2. ToSet(pending) = {}
      BY <3>1 DEF ToSet
    <3>3. pending \in Seq(Frames) /\ p \in Frames
      BY <2>1
    <3>4. ToSet(Append(pending, p)) = ToSet(pending) \cup {p}
      BY <3>3, AppendElements
    <3> QED
      BY <2>3, <3>2, <3>4
  <2>5. PlacesInOrder(Coming(c2s', "PACKET"), ToSet(pending'), ToSet(framesOut), {}, ToSet(sentPackets))
    BY <2>2, <2>3, <2>4, PlacesDecode DEF MadeInv
  <2> QED
    BY <2>3, <2>5 DEF MadeInv
<1>3. CASE (\E i \in DOMAIN pending : EmitFrame(i)) /\ UNCHANGED clientVars
  <2>1. PICK i \in DOMAIN pending : EmitFrame(i)
    BY <1>3
  <2>2. PICK p \in Frames : /\ p \in ToSet(pending) /\ ToSet(pending') = {}
                            /\ framesOut' = Append(framesOut, p)
                            /\ ToSet(framesOut') = ToSet(framesOut) \cup {p}
                            /\ \A q \in ToSet(framesOut) : q < p
    BY <1>3, <2>1, Emission
  <2>3. UNCHANGED <<c2s, sentPackets>>
    BY <1>3, <2>1 DEF EmitFrame, clientVars
  <2>4. PlacesInOrder(Coming(c2s, "PACKET"), {}, ToSet(framesOut) \cup {p}, {}, ToSet(sentPackets))
    BY <2>2, PlacesEmit DEF MadeInv
  <2>5. framesOut \in Seq(Frames)
    BY DEF TypeOK, ServerTypeOK
  <2>6. \A j, k \in DOMAIN Append(framesOut, p) : j < k => Append(framesOut, p)[j] < Append(framesOut, p)[k]
    BY <2>2, <2>5, RisingAppend DEF MadeInv
  <2> QED
    BY <2>2, <2>3, <2>4, <2>6 DEF MadeInv
<1>4. ASSUME UNCHANGED <<sentPackets, framesOut>>, ToSet(pending') \subseteq ToSet(pending),
             Fewer(c2s, c2s', "PACKET")
      PROVE  MadeInv'
  <2>1. PlacesInOrder(Coming(c2s', "PACKET"), ToSet(pending'), ToSet(framesOut), {}, ToSet(sentPackets))
    BY <1>4, PlacesShrink DEF MadeInv, Fewer
  <2> QED
    BY <1>4, <2>1 DEF MadeInv
<1>5. CASE (\E i \in DOMAIN pending : LoseFrame(i)) /\ UNCHANGED clientVars
  <2>1. PICK i \in DOMAIN pending : LoseFrame(i)
    BY <1>5
  <2>2. UNCHANGED <<sentPackets, framesOut, c2s>> /\ pending' = RemoveAt(pending, i)
    BY <1>5, <2>1 DEF LoseFrame, clientVars, wireVars
  <2>3. ToSet(pending') = {}
    BY <2>2, RemoveOnly DEF TypeOK, ServerTypeOK
  <2>4. Fewer(c2s, c2s', "PACKET")
    BY <2>2 DEF Fewer, OrderInv, StreamsInv
  <2> QED
    BY <1>4, <2>2, <2>3, <2>4
<1>6. ASSUME pending' = <<>>
      PROVE  ToSet(pending') \subseteq ToSet(pending)
  BY <1>6 DEF ToSet
<1> QED
  BY <1>1, <1>2, <1>3, <1>4, <1>5, <1>6, PipelineEffect

\* No packet vanishes while the server has not closed.
LEMMA AccountStep ==
    ASSUME TypeOK, OrderInv, MadeInv, EndsInv, AccountInv, UncutInv, [Next]_vars
    PROVE  AccountInv'
<1>0. torn => torn'
  BY TornStays
<1>1. CASE SubmitPacket /\ UNCHANGED serverVars
  <2> DEFINE m == [type |-> "PACKET", packet |-> arg]
  <2>1. arg \in Frames /\ sentPackets \in Seq(Frames) /\ c2s \in Seq(DecClientMsg)
    BY <1>1 DEF SubmitPacket, TypeOK, ClientTypeOK, StreamTypeOK, NoPacket
  <2>2. m \in DecClientMsg /\ m.type = "PACKET" /\ m.packet = arg
    BY <2>1 DEF DecClientMsg
  <2>3. \A q \in ToSet(sentPackets) : q < arg
    BY <1>1 DEF SubmitPacket, OrderInv, TurnInv
  <2>4. ToSet(sentPackets') = ToSet(sentPackets) \cup {arg}
    BY <1>1, <2>1, AppendElements DEF SubmitPacket
  <2>5. s2cEnd = "open" => c2s' = Append(c2s, m)
    BY <1>1 DEF SubmitPacket, ClientSend
  <2> HIDE DEF m
  <2>6. \A q \in Coming(c2s, "PACKET") : q < m.packet
    BY <2>2, <2>3 DEF OrderInv, PlacesInv, PlacesInOrder
  <2>7. s2cEnd = "open" => Coming(c2s', "PACKET") = Coming(c2s, "PACKET") \cup {arg}
    <3>1. InOrder(c2s, "PACKET")
      BY DEF OrderInv, StreamsInv
    <3>2. c2s \in Seq(DecClientMsg) /\ m \in DecClientMsg /\ m.type = "PACKET"
      BY <2>1, <2>2
    <3>3. Coming(Append(c2s, m), "PACKET") = Coming(c2s, "PACKET") \cup {m.packet}
          /\ InOrder(Append(c2s, m), "PACKET")
      BY ONLY <2>6, <3>1, <3>2, ComingAppendNext
    <3> QED
      BY <2>2, <2>5, <3>3
  <2>8. UNCHANGED <<pending, framesOut, lost, s2cEnd>>
    BY <1>1 DEF SubmitPacket, serverVars
  <2> QED
    BY <1>0, <2>4, <2>7, <2>8 DEF AccountInv
<1>2. CASE ReadPacket /\ UNCHANGED clientVars
  <2>1. /\ c2s \in Seq(DecClientMsg) /\ c2s # <<>> /\ Head(c2s).type = "PACKET" /\ Head(c2s).packet \in Frames
        /\ pending \in Seq(Frames)
    BY <1>2, PacketAtHead DEF ReadPacket, TypeOK, ServerTypeOK, StreamTypeOK, ServerSees
  <2>2. UNCHANGED <<framesOut, sentPackets, lost, s2cEnd>> /\ c2s' = Tail(c2s)
        /\ pending' = Append(pending, Head(c2s).packet)
    BY <1>2 DEF ReadPacket, clientVars
  <2>3. ToSet(pending') = ToSet(pending) \cup {Head(c2s).packet}
    BY <2>1, <2>2, AppendElements
  <2>4. Coming(c2s, "PACKET") = {Head(c2s).packet} \cup Coming(c2s', "PACKET")
    BY <2>1, <2>2, ComingHead
  <2> QED
    BY <1>0, <2>2, <2>3, <2>4 DEF AccountInv
<1>3. CASE (\E i \in DOMAIN pending : EmitFrame(i)) /\ UNCHANGED clientVars
  <2>1. PICK i \in DOMAIN pending : EmitFrame(i)
    BY <1>3
  <2>2. ToSet(framesOut') = ToSet(framesOut) \cup {pending[i]} /\ \A q \in ToSet(pending) : q = pending[i]
    BY <1>3, <2>1, Emission
  <2>3. UNCHANGED <<c2s, sentPackets, lost, s2cEnd>>
    BY <1>3, <2>1 DEF EmitFrame, clientVars
  <2> QED
    BY <1>0, <2>2, <2>3 DEF AccountInv
<1>4. CASE (\E i \in DOMAIN pending : LoseFrame(i)) /\ UNCHANGED clientVars
  <2>1. PICK i \in DOMAIN pending : LoseFrame(i)
    BY <1>4
  <2>2. UNCHANGED <<sentPackets, framesOut, c2s, s2cEnd>> /\ lost' = lost \cup {pending[i]}
    BY <1>4, <2>1 DEF LoseFrame, clientVars, wireVars
  <2>3. \A j \in DOMAIN pending : j = i
    BY DEF TypeOK, ServerTypeOK
  <2>4. ToSet(pending) = {pending[i]}
    BY <2>3 DEF ToSet
  <2>5. ToSet(pending) \subseteq ToSet(sentPackets)
    BY DEF MadeInv, PlacesInOrder
  <2> QED
    BY <1>0, <2>2, <2>4, <2>5 DEF AccountInv
<1>5. CASE /\ UNCHANGED <<sentPackets, framesOut, lost>>
           /\ pending' = pending \/ s2cEnd' # "open"
           /\ s2cEnd' = "open" /\ ~torn' =>
                 s2cEnd = "open" /\ Coming(c2s', "PACKET") = Coming(c2s, "PACKET")
  BY <1>0, <1>5 DEF AccountInv
<1>6. ~torn' => ~ReadGarbled
  BY <1>0, NothingGarbled
<1> QED
  BY <1>1, <1>2, <1>3, <1>4, <1>5, <1>6, PipelineEffect

\* Only four kinds of steps move frames.
LEMMA DeliveryEffect ==
    ASSUME TypeOK, OrderInv, EndsInv, [Next]_vars
    PROVE  \/ ReadFrame /\ UNCHANGED serverVars
           \/ (\E i \in DOMAIN pending : EmitFrame(i)) /\ UNCHANGED clientVars
           \/ PeerReset /\ UNCHANGED <<clientVars, serverVars>>
           \/ /\ UNCHANGED <<framesOut, delivered>>
              /\ Coming(s2c', "FRAME") = Coming(s2c, "FRAME")
              /\ c2sEnd' = "open" => c2sEnd = "open"
              /\ s2cEnd' # "rst" => s2cEnd # "rst"
<1>1. /\ ClientTypeOK /\ ServerTypeOK /\ StreamTypeOK /\ s2c \in Seq(DecServerMsg)
      /\ InOrder(s2c, "FRAME")
  BY DEF TypeOK, OrderInv, StreamsInv, StreamTypeOK
<1>2. ASSUME s2c # <<>>, Head(s2c).type # "FRAME", s2c' = Tail(s2c)
      PROVE  Coming(s2c', "FRAME") = Coming(s2c, "FRAME")
  BY <1>1, <1>2, ComingHead
<1>3. ASSUME NEW m \in DecServerMsg, m.type # "FRAME", ServerSend(m)
      PROVE  Coming(s2c', "FRAME") = Coming(s2c, "FRAME")
  <2>1. s2c' = s2c \/ s2c' = Append(s2c, m)
    BY <1>3 DEF ServerSend
  <2>2. CASE s2c' = Append(s2c, m)
    BY <1>1, <1>3, <2>2, ComingAppendOther
  <2> QED
    BY <2>1, <2>2
<1>4. CASE ClientNext /\ ~ReadFrame /\ UNCHANGED serverVars
  <2>1. CASE SendPacket \/ Drain \/ Close
    BY <1>4, <2>1 DEF SendPacket, Drain, Close, ClientCloses, wireVars, serverVars
  <2>2. CASE SubmitPacket \/ SubmitFlush \/ FlushSent
    BY <1>4, <2>2 DEF SubmitPacket, SubmitFlush, FlushSent, Reading, wireVars, serverVars
  <2>3. CASE SubmitFails
    <3>1. UNCHANGED <<s2c, s2cEnd, framesOut>> /\ (c2sEnd' = "open" => c2sEnd = "open")
      BY <1>4, <2>3 DEF SubmitFails, serverVars
    <3>2. CASE SendError = "EAGAIN"
      BY <2>3, <3>1, <3>2 DEF SubmitFails
    <3>3. CASE SendError # "EAGAIN"
      <4>1. SendError = "EPIPE" /\ Return(SendError, <<>>)
        BY <2>3, <3>3, SubmitFailsDead
      <4>2. delivered' = delivered
        BY <1>1, <4>1, ReturnNothing DEF Returned
      <4> QED
        BY <3>1, <4>2
    <3> QED
      BY <3>2, <3>3
  <2>4. CASE ReadDone \/ ReadFails \/ ReadTimeout
    <3>1. Returned
      BY <1>1, <2>4, ReturnNothing DEF ReadDone, ReadFails, ReadTimeout
    <3>2. UNCHANGED <<c2sEnd, s2cEnd, framesOut>>
      BY <1>4, <2>4 DEF ReadDone, ReadFails, ReadTimeout, wireVars, serverVars
    <3>3. \/ s2c' = s2c
          \/ s2c # <<>> /\ Head(s2c).type # "FRAME" /\ s2c' = Tail(s2c)
      <4>1. CASE ReadDone
        BY <4>1 DEF ReadDone, ClientSees
      <4>2. CASE ReadFails
        BY <4>2 DEF ReadFails, ClientSees
      <4>3. CASE ReadTimeout
        BY <4>3 DEF ReadTimeout, wireVars
      <4> QED
        BY <2>4, <4>1, <4>2, <4>3
    <3> QED
      BY <1>2, <3>1, <3>2, <3>3 DEF Returned
  <2>5. CASE AnswerPing
    BY <1>2, <1>4, <2>5 DEF AnswerPing, ClientSees, clientVars, serverVars
  <2> QED
    BY <1>4, <2>1, <2>2, <2>3, <2>4, <2>5 DEF ClientNext, Call
<1>5. CASE ServerNext /\ UNCHANGED clientVars
  <2>1. CASE ReadPacket \/ ReadOther \/ ReadGarbled
    BY <1>5, <2>1 DEF ReadPacket, ReadOther, ReadGarbled, serverVars, clientVars
  <2>2. CASE SendDone
    <3>1. [type |-> "DONE"] \in DecServerMsg
      BY DEF DecServerMsg
    <3>2. ServerSend([type |-> "DONE"]) /\ UNCHANGED <<framesOut, delivered, c2sEnd, s2cEnd>>
      BY <1>5, <2>2 DEF SendDone, clientVars
    <3> QED
      BY <1>3, <3>1, <3>2
  <2>3. CASE Shutdown \/ Crash \/ ReadBroken
    <3>1. srv # "closed" /\ UNCHANGED <<framesOut, delivered, s2c, c2sEnd>>
      BY <1>5, <2>3 DEF Shutdown, Crash, ReadBroken, ServerCloses, clientVars
    <3> QED
      BY <3>1 DEF EndsInv
  <2>4. CASE \E i \in DOMAIN pending : LoseFrame(i)
    BY <1>5, <2>4 DEF LoseFrame, clientVars, wireVars
  <2>5. CASE PeerPing
    <3>1. [type |-> "PING"] \in DecServerMsg
      BY DEF DecServerMsg
    <3>2. ServerSend([type |-> "PING"]) /\ UNCHANGED <<framesOut, delivered, c2sEnd, s2cEnd>>
      BY <1>5, <2>5 DEF PeerPing, clientVars
    <3> QED
      BY <1>3, <3>1, <3>2
  <2>6. CASE PeerError
    <3>1. [type |-> "ERROR"] \in DecServerMsg
      BY DEF DecServerMsg
    <3>2. /\ ServerSend([type |-> "ERROR"]) /\ UNCHANGED <<framesOut, delivered, c2sEnd>>
          /\ s2cEnd = "open"
      BY <1>5, <2>6 DEF PeerError, ServerCloses, EndsInv, clientVars
    <3> QED
      BY <1>3, <3>1, <3>2
  <2> QED
    BY <1>5, <2>1, <2>2, <2>3, <2>4, <2>5, <2>6 DEF ServerNext, LoopStep, Callback
<1>6. CASE UNCHANGED vars
  BY <1>6 DEF vars, clientVars, serverVars, wireVars
<1> QED
  BY <1>4, <1>5, <1>6 DEF Next, ClientNext, Call, Terminated

\* The frame that is read is the next one the application has not got.
LEMMA HeadIsNext ==
    ASSUME TypeOK, OrderInv, MadeInv, PrefixInv, WindowInv,
           s2c # <<>>, Head(s2c).type = "FRAME"
    PROVE  /\ Head(s2c).packet \in Frames
           /\ Len(delivered) < Len(framesOut)
           /\ Head(s2c).packet = framesOut[Len(delivered) + 1]
<1> DEFINE p == Head(s2c).packet
           n == Len(delivered) + 1
<1>1. /\ s2c \in Seq(DecServerMsg) /\ delivered \in Seq(Frames) /\ framesOut \in Seq(Frames) /\ p \in Frames
  BY FrameAtHead DEF TypeOK, ClientTypeOK, ServerTypeOK, StreamTypeOK, ClientSees
<1>2. /\ p \in Coming(s2c, "FRAME") /\ \A q \in Coming(Tail(s2c), "FRAME") : p < q
      /\ Coming(s2c, "FRAME") = {p} \cup Coming(Tail(s2c), "FRAME")
  BY <1>1, ComingTail, ComingHead DEF OrderInv, StreamsInv
<1>3. p \notin ToSet(delivered)
  BY <1>1, <1>2 DEF OrderInv, PlacesInv, PlacesInOrder, Below, Frames
<1>4. PICK j \in DOMAIN framesOut : p = framesOut[j]
  BY <1>2 DEF WindowInv, ToSet
<1> HIDE DEF p
<1>5. j \notin DOMAIN delivered
  BY <1>3, <1>4 DEF PrefixInv, ToSet
<1>6. n \in DOMAIN framesOut /\ n <= j /\ n \notin DOMAIN delivered
  BY <1>1, <1>4, <1>5
<1>7. \A x \in Frames : x \in Int
  BY DEF Frames
<1>8. ASSUME n # j
      PROVE  FALSE
  <2>1. n < j
    BY <1>1, <1>6, <1>8
  <2>2. framesOut[n] < p /\ framesOut[n] \in ToSet(framesOut) /\ framesOut[n] \in Frames
    BY <1>1, <1>4, <1>6, <2>1 DEF MadeInv, ToSet
  <2>3. framesOut[n] \notin ToSet(delivered)
    <3>1. ASSUME NEW k \in DOMAIN delivered, delivered[k] = framesOut[n]
          PROVE  FALSE
      <4>1. k \in DOMAIN framesOut /\ k < n /\ framesOut[k] = framesOut[n] /\ framesOut[k] \in Frames
        BY <1>1, <1>6, <3>1 DEF PrefixInv
      <4>2. framesOut[k] < framesOut[n]
        BY <1>6, <4>1 DEF MadeInv
      <4> QED
        BY <1>7, <4>1, <4>2
    <3> QED
      BY <3>1 DEF ToSet
  <2>4. framesOut[n] \in Coming(s2c, "FRAME")
    BY <1>2, <2>2, <2>3 DEF WindowInv
  <2>5. p < framesOut[n] \/ p = framesOut[n]
    BY <1>2, <2>4
  <2> QED
    BY <1>1, <1>7, <2>2, <2>5
<1> QED
  BY <1>1, <1>4, <1>6, <1>8 DEF p

\* The application reads the next frame.
LEMMA DeliveryReads ==
    ASSUME TypeOK, OrderInv, MadeInv, PrefixInv, WindowInv, ReadFrame, UNCHANGED serverVars
    PROVE  PrefixInv' /\ WindowInv' /\ (Whole => Whole')
<1> DEFINE p == Head(s2c).packet
<1>1. /\ s2c # <<>> /\ Head(s2c).type = "FRAME" /\ s2c' = Tail(s2c) /\ UNCHANGED <<framesOut, c2sEnd, s2cEnd>>
      /\ s2c \in Seq(DecServerMsg) /\ delivered \in Seq(Frames) /\ framesOut \in Seq(Frames)
  BY DEF ReadFrame, ClientSees, serverVars, TypeOK, ClientTypeOK, ServerTypeOK, StreamTypeOK
<1>2. p \in Frames /\ Len(delivered) < Len(framesOut) /\ p = framesOut[Len(delivered) + 1]
  BY <1>1, HeadIsNext
<1>3. delivered' = Append(delivered, p)
  BY <1>2, ReturnFrame DEF ReadFrame, TypeOK
<1>4. Coming(s2c, "FRAME") = {p} \cup Coming(s2c', "FRAME")
  BY <1>1, ComingHead
<1>5. ToSet(delivered') = ToSet(delivered) \cup {p}
  BY <1>1, <1>2, <1>3, AppendElements
<1> HIDE DEF p
<1>6. PrefixInv'
  <2>1. \A k \in DOMAIN Append(delivered, p) : Append(delivered, p)[k] = framesOut[k]
    BY <1>1, <1>2 DEF PrefixInv
  <2> QED
    BY <1>1, <1>2, <1>3, <2>1 DEF PrefixInv
<1> QED
  BY <1>1, <1>4, <1>5, <1>6 DEF WindowInv, Whole

\* The decoder emits the next frame.
LEMMA DeliveryEmits ==
    ASSUME TypeOK, OrderInv, EndsInv, MadeInv, PrefixInv, WindowInv,
           NEW i \in DOMAIN pending, EmitFrame(i), UNCHANGED clientVars
    PROVE  PrefixInv' /\ WindowInv'
<1>1. PICK p \in Frames : p = pending[i]
  BY DEF TypeOK, ServerTypeOK
<1>2. /\ framesOut' = Append(framesOut, p) /\ ToSet(framesOut') = ToSet(framesOut) \cup {p}
      /\ \A q \in ToSet(framesOut) : q < p
  BY <1>1, Emission
<1>3. /\ UNCHANGED <<delivered, c2sEnd, s2cEnd>> /\ ServerSend([type |-> "FRAME", packet |-> p])
      /\ pending # <<>>
  BY <1>1 DEF EmitFrame, clientVars
<1>4. PICK m \in DecServerMsg : m = [type |-> "FRAME", packet |-> p]
  BY DEF DecServerMsg
<1>5. m.type = "FRAME" /\ m.packet = p /\ ServerSend(m)
  BY <1>3, <1>4
<1>6. /\ s2c \in Seq(DecServerMsg) /\ delivered \in Seq(Frames) /\ framesOut \in Seq(Frames)
  BY DEF TypeOK, ClientTypeOK, ServerTypeOK, StreamTypeOK
<1>7. \A q \in Coming(s2c, "FRAME") : q < m.packet
  BY <1>2, <1>5 DEF WindowInv
<1>8. \/ c2sEnd = "open" /\ Coming(s2c', "FRAME") = Coming(s2c, "FRAME") \cup {p}
      \/ c2sEnd # "open" /\ Coming(s2c', "FRAME") = Coming(s2c, "FRAME")
  <2>1. CASE c2sEnd = "open"
    <3>1. s2c' = Append(s2c, m)
      BY <1>5, <2>1 DEF ServerSend
    <3>2. Coming(Append(s2c, m), "FRAME") = Coming(s2c, "FRAME") \cup {m.packet}
      BY <1>5, <1>6, <1>7, ComingAppendNext DEF OrderInv, StreamsInv
    <3> QED
      BY <1>5, <2>1, <3>1, <3>2
  <2>2. CASE c2sEnd # "open"
    BY <1>5, <2>2 DEF ServerSend
  <2> QED
    BY <2>1, <2>2
<1>9. PrefixInv'
  <2>1. Len(delivered) <= Len(framesOut) /\ \A k \in DOMAIN delivered : delivered[k] = framesOut[k]
    BY DEF PrefixInv
  <2>2. Len(Append(framesOut, p)) = Len(framesOut) + 1
        /\ \A k \in DOMAIN delivered : k \in DOMAIN framesOut /\ Append(framesOut, p)[k] = framesOut[k]
    BY <1>6, <2>1
  <2>3. Len(delivered) <= Len(framesOut) + 1
    BY <1>6, <2>1
  <2> QED
    BY <1>2, <1>3, <2>1, <2>2, <2>3 DEF PrefixInv
<1>10. WindowInv'
  <2>1. \A x \in Coming(s2c, "FRAME"), q \in ToSet(framesOut) \cup {p} :
           q < x => q \in Coming(s2c, "FRAME") \cup ToSet(delivered)
    <3>1. \A x \in Coming(s2c, "FRAME") : x < p /\ x \in Int
      BY <1>5, <1>7, PacketsAreInts
    <3>2. p \in Int
      BY DEF Frames
    <3> QED
      BY <3>1, <3>2 DEF WindowInv
  <2>2. c2sEnd = "open" => s2cEnd = "open" /\ ToSet(framesOut) \subseteq Coming(s2c, "FRAME") \cup ToSet(delivered)
    BY <1>3 DEF WindowInv, EndsInv, Whole
  <2>3. CASE c2sEnd = "open"
    BY <1>2, <1>3, <1>8, <2>1, <2>2, <2>3 DEF WindowInv, Whole
  <2>4. CASE c2sEnd # "open"
    BY <1>2, <1>3, <1>8, <2>1, <2>4 DEF WindowInv, Whole
  <2> QED
    BY <2>3, <2>4
<1> QED
  BY <1>9, <1>10

\* A reset loses the last of the frames on their way.
LEMMA DeliveryReset ==
    ASSUME TypeOK, OrderInv, WindowInv, PeerReset, UNCHANGED <<clientVars, serverVars>>
    PROVE  WindowInv'
<1>1. /\ UNCHANGED <<framesOut, delivered, c2sEnd>> /\ s2c \in Seq(DecServerMsg)
  BY DEF PeerReset, clientVars, serverVars, TypeOK, StreamTypeOK
<1>2. PICK kept \in 0 .. Len(s2c) : /\ s2c' = SubSeq(s2c, 1, kept)
                                    /\ s2cEnd' = IF kept = Len(s2c) THEN s2cEnd ELSE "rst"
  BY <1>1 DEF PeerReset
<1>3. /\ Coming(s2c', "FRAME") \subseteq Coming(s2c, "FRAME")
      /\ \A p \in Coming(s2c', "FRAME"), q \in Coming(s2c, "FRAME") : q < p => q \in Coming(s2c', "FRAME")
  BY <1>1, <1>2, ComingPrefix, PrefixKeepsEarlier, PacketsAreInts DEF OrderInv, StreamsInv
<1>4. s2cEnd' # "rst" => s2cEnd # "rst" /\ s2c' = s2c
  BY <1>1, <1>2
<1> QED
  BY <1>1, <1>3, <1>4 DEF WindowInv, Whole

\* Every step keeps the delivery sound.
LEMMA DeliveryStep ==
    ASSUME TypeOK, OrderInv, EndsInv, MadeInv, PrefixInv, WindowInv, [Next]_vars
    PROVE  PrefixInv' /\ WindowInv'
<1>1. CASE ReadFrame /\ UNCHANGED serverVars
  BY <1>1, DeliveryReads
<1>2. CASE (\E i \in DOMAIN pending : EmitFrame(i)) /\ UNCHANGED clientVars
  BY <1>2, DeliveryEmits
<1>3. CASE PeerReset /\ UNCHANGED <<clientVars, serverVars>>
  BY <1>3, DeliveryReset DEF clientVars, serverVars, PrefixInv
<1>4. CASE /\ UNCHANGED <<framesOut, delivered>>
           /\ Coming(s2c', "FRAME") = Coming(s2c, "FRAME")
           /\ c2sEnd' = "open" => c2sEnd = "open"
           /\ s2cEnd' # "rst" => s2cEnd # "rst"
  BY <1>4 DEF PrefixInv, WindowInv, Whole
<1> QED
  BY <1>1, <1>2, <1>3, <1>4, DeliveryEffect

-------------------------------------------------------------------------------
(***************************************************************************)
(* The end of the stream.                                                  *)
(***************************************************************************)

\* Appending keeps the places of what was there.
LEMMA AppendPlaces ==
    ASSUME NEW S, NEW s \in Seq(S), NEW m \in S
    PROVE  /\ \A i \in DOMAIN s : i \in DOMAIN Append(s, m) /\ Append(s, m)[i] = s[i]
           /\ Len(s) + 1 \in DOMAIN Append(s, m) /\ Append(s, m)[Len(s) + 1] = m
           /\ \A i \in DOMAIN Append(s, m) : i \in DOMAIN s \/ i = Len(s) + 1
OBVIOUS

\* A sequence that Closes stays so when it grows or loses its head.
LEMMA ClosesAppend ==
    ASSUME NEW S, NEW s \in Seq(S), NEW m \in S, NEW t, NEW u, Closes(s, t, u), t # u,
           m.type = u => ~Comes(s, t)
    PROVE  Closes(Append(s, m), t, u)
<1>1. \A i \in DOMAIN Append(s, m) :
         \/ i \in DOMAIN s /\ Append(s, m)[i] = s[i]
         \/ i = Len(s) + 1 /\ Append(s, m)[i] = m
  BY AppendPlaces
<1>2. \A i \in DOMAIN s : i \in Int /\ i < Len(s) + 1
  OBVIOUS
<1> QED
  BY <1>1, <1>2 DEF Closes, Comes

\* Reading a message keeps the order; after one of type t there is none of u.
LEMMA ClosesTail ==
    ASSUME NEW S, NEW s \in Seq(S), s # <<>>, NEW t, NEW u, Closes(s, t, u)
    PROVE  /\ Closes(Tail(s), t, u)
           /\ Comes(Tail(s), t) => Comes(s, t)
           /\ Head(s).type = t /\ t # u => ~Comes(s, u)
<1>1. /\ Head(s) = s[1] /\ 1 \in DOMAIN s
      /\ \A i \in DOMAIN Tail(s) : i \in Int /\ i + 1 \in DOMAIN s /\ Tail(s)[i] = s[i + 1]
  BY HeadAndTail
<1>2. \A i \in DOMAIN s : i \in Int /\ 1 <= i
  OBVIOUS
<1>3. Closes(Tail(s), t, u)
  <2> SUFFICES ASSUME NEW i \in DOMAIN Tail(s), NEW j \in DOMAIN Tail(s),
                      Tail(s)[i].type = t, Tail(s)[j].type = u
               PROVE  j < i
    BY DEF Closes
  <2>1. j + 1 < i + 1
    BY <1>1 DEF Closes
  <2> QED
    BY <1>1, <2>1
<1>4. Comes(Tail(s), t) => Comes(s, t)
  BY <1>1 DEF Comes
<1>5. ASSUME Head(s).type = t, t # u, NEW j \in DOMAIN s, s[j].type = u
      PROVE  FALSE
  <2>1. j < 1
    BY <1>1, <1>5 DEF Closes
  <2> QED
    BY <1>2, <2>1
<1> QED
  BY <1>3, <1>4, <1>5 DEF Comes

\* So it does when a part takes the place of what is read.
LEMMA ClosesBehind ==
    ASSUME NEW s, NEW r, Behind(s, r), Closes(s, "FLUSH", "PACKET")
    PROVE  /\ Closes(r, "FLUSH", "PACKET")
           /\ \A t \in {"FLUSH", "PACKET"} : Comes(r, t) => Comes(s, t)
<1>1. PICK k \in Nat : \A i \in DOMAIN r :
         i \in Nat /\ (r[i].type = "PART" \/ (i + k \in DOMAIN s /\ r[i] = s[i + k]))
  BY DEF Behind
<1>2. \A t \in {"FLUSH", "PACKET"} : Comes(r, t) => Comes(s, t)
  BY <1>1 DEF Comes
<1>3. ASSUME NEW i \in DOMAIN r, NEW j \in DOMAIN r, r[i].type = "FLUSH", r[j].type = "PACKET"
      PROVE  j < i
  <2>1. j + k < i + k
    BY <1>1, <1>3 DEF Closes
  <2> QED
    BY <1>1, <2>1
<1> QED
  BY <1>2, <1>3 DEF Closes

\* A message more.
LEMMA ComesAppend ==
    ASSUME NEW S, NEW s \in Seq(S), NEW m \in S, NEW t
    PROVE  Comes(Append(s, m), t) <=> Comes(s, t) \/ m.type = t
BY AppendPlaces DEF Comes

\* An empty direction.
LEMMA NothingComes ==
    ASSUME NEW t, NEW u
    PROVE  Closes(<<>>, t, u) /\ ~Comes(<<>>, t)
BY DEF Closes, Comes

\* The types the steps below need.
LEMMA SessionTypes ==
    ASSUME TypeOK
    PROVE  /\ c2s \in Seq(DecClientMsg) /\ s2c \in Seq(DecServerMsg)
           /\ delivered \in Seq(Frames) /\ framesOut \in Seq(Frames) /\ sentPackets \in Seq(Frames)
           /\ pending \in Seq(Frames) /\ draining \in BOOLEAN /\ done \in BOOLEAN
           /\ arg \in Frames \cup {NoPacket} /\ nextPacket \in 1 .. NumFrames + 1
BY DEF TypeOK, ClientTypeOK, ServerTypeOK, StreamTypeOK

\* What a step of the client does to libavcodec's state and to its call.
LEMMA ClientControl ==
    ASSUME TypeOK, OrderInv, ClientNext
    PROVE  \/ /\ SendPacket
              /\ pc' = "call" /\ arg' = nextPacket /\ ~draining /\ ~drained
              /\ UNCHANGED <<draining, drained, ret, cutShort, c2sEnd>>
           \/ /\ Drain
              /\ pc' = "call" /\ arg' = arg /\ arg = NoPacket /\ draining' /\ ~drained
              /\ UNCHANGED <<drained, ret, cutShort, c2sEnd>>
           \/ /\ Close
              /\ pc' = "closed" /\ UNCHANGED <<arg, draining, drained, ret, cutShort>>
           \/ /\ pc' \in {"read", "aborted"} /\ pc \in {"call", "read"} /\ ~drained
              /\ UNCHANGED <<arg, draining, drained, ret, cutShort>>
              /\ pc' = "read" => c2sEnd' = c2sEnd
           \/ /\ pc' = "app" /\ pc \in {"call", "read"} /\ arg' = NoPacket
              /\ UNCHANGED <<draining, c2sEnd>>
              /\ drained' /\ ret' \notin Fatal /\ ~cutShort' =>
                    \/ ReadDone
                    \/ s2c = <<>> /\ s2cEnd = "fin" /\ UNCHANGED <<s2c, s2cEnd, delivered>>
<1>1. CASE SendPacket
  BY <1>1 DEF SendPacket, wireVars
<1>2. CASE Drain
  BY <1>2 DEF Drain, wireVars, OrderInv, CallInv
<1>3. CASE Close
  BY <1>3 DEF Close
<1>4. CASE SubmitPacket \/ SubmitFlush \/ FlushSent
  BY <1>4 DEF SubmitPacket, SubmitFlush, FlushSent, Reading, wireVars, OrderInv, CallInv
<1>5. CASE SubmitFails
  <2>1. UNCHANGED cutShort /\ pc = "call" /\ ~drained
    BY <1>5 DEF SubmitFails, OrderInv, CallInv
  <2>2. CASE SendError = "EAGAIN"
    BY <1>5, <2>1, <2>2 DEF SubmitFails
  <2>3. CASE SendError # "EAGAIN"
    <3>1. SendError = "EPIPE" /\ Return(SendError, <<>>) /\ UNCHANGED wireVars
      BY <1>5, <2>3, SubmitFailsDead
    <3>2. pc' = "app" /\ arg' = NoPacket /\ UNCHANGED draining /\ ret' \in Fatal
      BY <3>1 DEF Return, Fatal
    <3> QED
      BY <2>1, <3>1, <3>2 DEF wireVars
  <2> QED
    BY <2>2, <2>3
<1>6. CASE ReadFrame
  <2>1. Head(s2c).packet \in Frames
    BY <1>6, FrameAtHead DEF ReadFrame, TypeOK
  <2> QED
    BY <1>6, <2>1, ReturnFrame DEF ReadFrame, TypeOK
<1>7. CASE ReadDone
  BY <1>7 DEF ReadDone, Return
<1>8. CASE ReadFails
  <2>1. Returned
    BY <1>8, ReturnNothing DEF ReadFails, TypeOK
  <2>2. pc = "read" /\ UNCHANGED <<cutShort, c2sEnd, s2cEnd>>
    BY <1>8 DEF ReadFails
  <2>3. ret' \in Fatal \/ (s2c = <<>> /\ s2cEnd = "fin" /\ UNCHANGED s2c)
    BY <1>8 DEF ReadFails, Return, Fatal
  <2> QED
    BY <2>1, <2>2, <2>3 DEF Returned
<1>9. CASE ReadTimeout
  <2>1. pc = "read" /\ Return("OK", <<>>) /\ UNCHANGED wireVars
    BY <1>9 DEF ReadTimeout
  <2>2. pc' = "app" /\ arg' = NoPacket /\ UNCHANGED draining
    BY <2>1 DEF Return
  <2>3. drained' => draining
    BY <2>1 DEF Return, Ends
  <2>4. draining => cutShort'
    BY <1>9 DEF ReadTimeout
  <2> QED
    BY <2>1, <2>2, <2>3, <2>4 DEF wireVars
<1>10. CASE AnswerPing
  BY <1>10 DEF AnswerPing, clientVars, OrderInv, CallInv
<1> QED
  BY <1>1, <1>2, <1>3, <1>4, <1>5, <1>6, <1>7, <1>8, <1>9, <1>10 DEF ClientNext, Call

\* The client's side is open while it can be used.
LEMMA OpenStep ==
    ASSUME TypeOK, OrderInv, OpenInv, [Next]_vars
    PROVE  OpenInv'
<1>1. CASE ClientNext
  <2>1. pc \in {"app", "call", "read"} => c2sEnd = "open"
    BY DEF OpenInv
  <2>2. SendPacket \/ Drain => pc = "app"
    BY DEF SendPacket, Drain
  <2> QED
    BY <1>1, <2>1, <2>2, ClientControl DEF OpenInv
<1>2. CASE ServerNext /\ UNCHANGED clientVars
  <2>1. UNCHANGED c2sEnd
    BY <1>2 DEF ServerNext, LoopStep, ReadPacket, ReadOther, ReadGarbled, ReadBroken, SendDone, Shutdown,
                Callback, EmitFrame, LoseFrame, Crash, PeerPing, PeerError, ServerCloses, wireVars
  <2> QED
    BY <1>2, <2>1 DEF clientVars, OpenInv
<1>3. CASE PeerReset /\ UNCHANGED <<clientVars, serverVars>>
  BY <1>3 DEF PeerReset, clientVars, OpenInv
<1>4. CASE UNCHANGED vars
  BY <1>4 DEF vars, clientVars, wireVars, OpenInv
<1> QED
  BY <1>1, <1>2, <1>3, <1>4 DEF Next, Terminated

\* What the client writes: PACKETs before it drains, FLUSH after.
LEMMA ClientWrites ==
    ASSUME TypeOK, OrderInv, FlushInv, ClientNext
    PROVE  /\ draining => draining' /\ UNCHANGED sentPackets
           /\ arg' # NoPacket => ~draining'
           /\ pc' = "call" /\ arg' = NoPacket => draining'
           /\ \/ UNCHANGED c2s
              \/ \E m \in DecClientMsg : /\ c2s' = Append(c2s, m)
                                         /\ m.type = "FLUSH" => draining
                                         /\ m.type = "PACKET" => ~draining /\ ~draining'
<1>1. /\ draining => draining'
      /\ arg' # NoPacket => ~draining'
      /\ pc' = "call" /\ arg' = NoPacket => draining'
  <2>1. nextPacket # NoPacket
    BY SessionTypes, WireAssumption DEF NoPacket
  <2>2. (arg # NoPacket => ~draining) /\ (pc = "call" /\ arg = NoPacket => draining)
    BY DEF FlushInv
  <2> QED
    BY <2>1, <2>2, ClientControl
<1>2. CASE SubmitPacket
  <2>1. ~draining /\ UNCHANGED draining /\ arg \in Frames
    BY <1>2, SessionTypes DEF SubmitPacket, Reading, FlushInv
  <2>2. PICK m \in DecClientMsg : m = [type |-> "PACKET", packet |-> arg]
    BY <2>1 DEF DecClientMsg
  <2>3. UNCHANGED c2s \/ c2s' = Append(c2s, m)
    BY <1>2, <2>2 DEF SubmitPacket, ClientSend
  <2>4. m.type = "PACKET"
    BY <2>2
  <2> QED
    BY <1>1, <2>1, <2>3, <2>4
<1>3. CASE SubmitFlush
  <2>1. draining /\ UNCHANGED sentPackets
    BY <1>3 DEF SubmitFlush, FlushInv
  <2>2. PICK m \in DecClientMsg : m = [type |-> "FLUSH"]
    BY DEF DecClientMsg
  <2>3. UNCHANGED c2s \/ c2s' = Append(c2s, m)
    BY <1>3, <2>2 DEF SubmitFlush, ClientSend
  <2>4. m.type = "FLUSH"
    BY <2>2
  <2> QED
    BY <1>1, <2>1, <2>3, <2>4
<1>4. CASE /\ UNCHANGED sentPackets
           /\ UNCHANGED c2s \/ \E m \in DecClientMsg : m.type \in {"PONG", "PART"} /\ c2s' = Append(c2s, m)
  BY <1>1, <1>4
<1> QED
  BY <1>2, <1>3, <1>4, ClientPuts, FailedSend DEF ClientSend

\* FLUSH comes after every PACKET.
LEMMA FlushStep ==
    ASSUME TypeOK, OrderInv, FlushInv, [Next]_vars
    PROVE  FlushInv'
<1> USE SessionTypes
<1>1. CASE ClientNext /\ UNCHANGED serverVars
  <2>0. srv' = srv
    BY <1>1 DEF serverVars
  <2>1. CASE UNCHANGED c2s
    BY <1>1, <2>0, <2>1, ClientWrites DEF FlushInv
  <2>2. ASSUME NEW m \in DecClientMsg, c2s' = Append(c2s, m), m.type = "FLUSH" => draining,
               m.type = "PACKET" => ~draining /\ ~draining'
        PROVE  FlushInv'
    <3>1. Closes(c2s', "FLUSH", "PACKET")
      BY <2>2, ClosesAppend DEF FlushInv
    <3>2. \A t : Comes(c2s', t) <=> Comes(c2s, t) \/ m.type = t
      BY <2>2, ComesAppend
    <3>3. /\ draining => draining'
          /\ arg' # NoPacket => ~draining'
          /\ pc' = "call" /\ arg' = NoPacket => draining'
      BY <1>1, ClientWrites
    <3> QED
      BY <2>0, <2>2, <3>1, <3>2, <3>3 DEF FlushInv
  <2> QED
    BY <1>1, <2>1, <2>2, ClientWrites
<1>2. CASE ServerNext /\ UNCHANGED clientVars
  <2>0. UNCHANGED <<draining, arg, pc>>
    BY <1>2 DEF clientVars
  <2>1. c2s' = c2s \/ c2s' = <<>> \/ (c2s # <<>> /\ c2s' = Tail(c2s)) \/ ReadSpliced
    BY <1>2, ServerTakes
  <2>2. /\ Closes(c2s', "FLUSH", "PACKET")
        /\ Comes(c2s', "FLUSH") => draining'
        /\ Comes(c2s', "PACKET") => Comes(c2s, "PACKET")
    <3>1. CASE c2s' = c2s \/ c2s' = <<>>
      BY <2>0, <3>1, NothingComes DEF FlushInv
    <3>2. CASE c2s # <<>> /\ c2s' = Tail(c2s)
      BY <2>0, <3>2, ClosesTail, HeadAndTail DEF FlushInv, Comes
    <3>3. CASE ReadSpliced
      <4>1. Behind(c2s, c2s')
        BY <3>3, SplicedBehind DEF TypeOK
      <4>2. Closes(c2s', "FLUSH", "PACKET")
        BY <4>1, ClosesBehind DEF FlushInv
      <4>3. \A t \in {"FLUSH", "PACKET"} : Comes(c2s', t) => Comes(c2s, t)
        BY <4>1, ClosesBehind DEF FlushInv
      <4> QED
        BY <2>0, <4>2, <4>3 DEF FlushInv
    <3> QED
      BY <2>1, <3>1, <3>2, <3>3
  <2>3. CASE ReadOther /\ ServerSees("FLUSH")
    <3>1. c2s # <<>> /\ Head(c2s).type = "FLUSH"
      BY <2>3 DEF ServerSees
    <3>2. ~Comes(c2s, "PACKET") /\ Comes(c2s, "FLUSH")
      BY <3>1, ClosesTail, HeadAndTail DEF FlushInv, Comes
    <3> QED
      BY <2>0, <2>2, <3>2 DEF FlushInv
  <2>4. CASE ~(ReadOther /\ ServerSees("FLUSH"))
    <3>1. srv' \in {"flushing", "done"} => srv \in {"flushing", "done"}
      BY <1>2, <2>4 DEF ServerNext, LoopStep, ReadPacket, ReadOther, ReadGarbled, ReadBroken, SendDone,
                        Shutdown, Callback, EmitFrame, LoseFrame, Crash, PeerPing, PeerError, serverVars
    <3> QED
      BY <2>0, <2>2, <3>1 DEF FlushInv
  <2> QED
    BY <2>3, <2>4
<1>3. CASE UNCHANGED <<clientVars, serverVars, c2s>>
  BY <1>3 DEF FlushInv, clientVars, serverVars
<1> QED
  BY <1>1, <1>2, <1>3 DEF Next, Terminated, PeerReset, vars, wireVars

\* What a step makes of the server's stream.
LEMMA ServerStream ==
    ASSUME TypeOK, [Next]_vars
    PROVE  \/ UNCHANGED s2c
           \/ s2c # <<>> /\ s2c' = Tail(s2c) /\ ClientNext /\ UNCHANGED serverVars
           \/ /\ pending = <<>> => srv \in {"loop", "flushing"}
              /\ c2sEnd = "open"
              /\ UNCHANGED clientVars
              /\ \E m \in DecServerMsg : /\ s2c' = Append(s2c, m)
                                         /\ m.type = "FRAME" => pending # <<>>
                                         /\ m.type = "DONE" => SendDone
           \/ PeerReset /\ UNCHANGED <<clientVars, serverVars>>
<1>1. CASE ClientNext /\ UNCHANGED serverVars
  BY <1>1 DEF ClientNext, Call, SendPacket, Drain, Close, ClientCloses, SubmitPacket, SubmitFlush,
              FlushSent, SubmitFails, ReadFrame, ReadDone, ReadFails, ReadTimeout, AnswerPing,
              ClientSees, wireVars
<1>2. ASSUME NEW m \in DecServerMsg, ServerSend(m)
      PROVE  UNCHANGED s2c \/ (c2sEnd = "open" /\ s2c' = Append(s2c, m))
  BY <1>2 DEF ServerSend
<1>3. CASE ServerNext /\ UNCHANGED clientVars
  <2>1. CASE ReadPacket \/ ReadOther \/ ReadGarbled \/ ReadBroken \/ Shutdown \/ Crash
             \/ \E i \in DOMAIN pending : LoseFrame(i)
    BY <2>1 DEF ReadPacket, ReadOther, ReadGarbled, ReadBroken, Shutdown, Crash, LoseFrame, wireVars
  <2>2. CASE SendDone
    <3>1. PICK m \in DecServerMsg : m = [type |-> "DONE"]
      BY DEF DecServerMsg
    <3>2. m.type = "DONE" /\ ServerSend(m) /\ srv = "flushing"
      BY <2>2, <3>1 DEF SendDone
    <3> QED
      BY <1>2, <1>3, <2>2, <3>2
  <2>3. ASSUME NEW i \in DOMAIN pending, EmitFrame(i)
        PROVE  UNCHANGED s2c \/ (c2sEnd = "open" /\ \E m \in DecServerMsg : m.type = "FRAME" /\ s2c' = Append(s2c, m))
    <3>0. pending[i] \in Frames
      BY SessionTypes
    <3>1. PICK m \in DecServerMsg : m = [type |-> "FRAME", packet |-> pending[i]]
      BY <3>0 DEF DecServerMsg
    <3>2. m.type = "FRAME" /\ ServerSend(m)
      BY <2>3, <3>1 DEF EmitFrame
    <3> QED
      BY <1>2, <3>2
  <2>4. CASE PeerPing
    <3>1. PICK m \in DecServerMsg : m = [type |-> "PING"]
      BY DEF DecServerMsg
    <3>2. m.type = "PING" /\ ServerSend(m) /\ srv = "loop"
      BY <2>4, <3>1 DEF PeerPing
    <3> QED
      BY <1>2, <1>3, <3>2
  <2>5. CASE PeerError
    <3>1. PICK m \in DecServerMsg : m = [type |-> "ERROR"]
      BY DEF DecServerMsg
    <3>2. m.type = "ERROR" /\ ServerSend(m) /\ srv = "loop"
      BY <2>5, <3>1 DEF PeerError
    <3> QED
      BY <1>2, <1>3, <3>2
  <2>6. ASSUME NEW i \in DOMAIN pending
        PROVE  pending # <<>>
    BY <2>6
  <2>7. CASE \E i \in DOMAIN pending : EmitFrame(i)
    BY <1>3, <2>3, <2>6, <2>7
  <2> QED
    BY <1>3, <2>1, <2>2, <2>4, <2>5, <2>7 DEF ServerNext, LoopStep, Callback
<1>4. CASE UNCHANGED vars
  BY <1>4 DEF vars, wireVars
<1> QED
  BY <1>1, <1>3, <1>4 DEF Next, Terminated

\* When DONE is sent, every packet is settled and every frame is on its way.
LEMMA DoneIsSent ==
    ASSUME TypeOK, OrderInv, FramesInv, FlushInv, SendDone
    PROVE  /\ draining /\ (torn \/ ToSet(sentPackets) \subseteq ToSet(framesOut) \cup lost)
           /\ c2sEnd = "open" => Whole
<1>1. srv = "flushing" /\ pending = <<>> /\ s2cEnd = "open"
  BY DEF SendDone, FramesInv, EndsInv
<1>2. draining /\ Coming(c2s, "PACKET") = {} /\ ToSet(pending) = {}
  <2>1. DOMAIN pending = {}
    BY <1>1
  <2>2. ToSet(pending) = {}
    BY <2>1 DEF ToSet
  <2> QED
    BY <1>1, <2>2 DEF FlushInv, Comes, Coming
<1> QED
  BY <1>1, <1>2 DEF FramesInv, AccountInv, WindowInv

\* Whether every frame is on its way or with the application does not change
\* once nothing is left in the decoder, unless a reset takes some away.
LEMMA WholeStays ==
    ASSUME TypeOK, OrderInv, FramesInv, [Next]_vars, pending = <<>>, Whole
    PROVE  /\ UNCHANGED framesOut
           /\ ToSet(delivered) \subseteq ToSet(delivered')
           /\ Whole' \/ (PeerReset /\ UNCHANGED <<clientVars, serverVars>>)
<1> USE DEF FramesInv
<1>1. CASE ReadFrame /\ UNCHANGED serverVars
  <2>1. Whole' /\ framesOut' = framesOut
    BY <1>1, DeliveryReads DEF serverVars
  <2>2. Head(s2c).packet \in Frames
    BY <1>1, FrameAtHead DEF ReadFrame, TypeOK
  <2>3. delivered' = Append(delivered, Head(s2c).packet)
    BY <1>1, <2>2, ReturnFrame DEF ReadFrame, TypeOK
  <2>4. ToSet(delivered') = ToSet(delivered) \cup {Head(s2c).packet}
    BY <2>2, <2>3, SessionTypes, AppendElements
  <2> QED
    BY <2>1, <2>4
<1>2. CASE PeerReset /\ UNCHANGED <<clientVars, serverVars>>
  BY <1>2 DEF clientVars, serverVars
<1>3. CASE UNCHANGED <<framesOut, delivered>> /\ Coming(s2c', "FRAME") = Coming(s2c, "FRAME")
  BY <1>3 DEF Whole
<1> QED
  BY <1>1, <1>2, <1>3, DeliveryEffect

\* No frame is on its way when DONE is the next message.
LEMMA NothingLeft ==
    ASSUME TypeOK, DoneInv, s2c # <<>>, Head(s2c).type = "DONE"
    PROVE  Comes(s2c, "DONE") /\ ToSet(framesOut) \subseteq ToSet(delivered)
<1> USE SessionTypes
<1>1. Comes(s2c, "DONE")
  BY HeadAndTail DEF Comes
<1>2. ~Comes(s2c, "FRAME")
  BY ClosesTail DEF DoneInv
<1>3. Coming(s2c, "FRAME") = {}
  BY <1>2 DEF Coming, Comes
<1> QED
  BY <1>1, <1>3 DEF DoneInv, Whole

\* The order of DONE and the frames in the server's stream.
LEMMA DoneOrder ==
    ASSUME TypeOK, EndsInv, DoneInv, [Next]_vars
    PROVE  /\ Closes(s2c', "DONE", "FRAME")
           /\ Comes(s2c', "DONE") => Comes(s2c, "DONE") \/ (SendDone /\ c2sEnd = "open")
<1> USE SessionTypes
<1>1. CASE UNCHANGED s2c
  BY <1>1 DEF DoneInv
<1>2. CASE s2c # <<>> /\ s2c' = Tail(s2c)
  BY <1>2, ClosesTail DEF DoneInv
<1>3. ASSUME NEW m \in DecServerMsg, s2c' = Append(s2c, m), c2sEnd = "open",
             m.type = "FRAME" => pending # <<>>, m.type = "DONE" => SendDone
      PROVE  /\ Closes(s2c', "DONE", "FRAME")
             /\ Comes(s2c', "DONE") => Comes(s2c, "DONE") \/ (SendDone /\ c2sEnd = "open")
  <2>1. m.type = "FRAME" => ~Comes(s2c, "DONE")
    BY <1>3 DEF DoneInv, EndsInv
  <2>2. Closes(Append(s2c, m), "DONE", "FRAME")
    BY <2>1, ClosesAppend DEF DoneInv
  <2> QED
    BY <1>3, <2>2, ComesAppend
<1>4. CASE PeerReset
  <2>1. PICK n \in 0 .. Len(s2c) : s2c' = SubSeq(s2c, 1, n)
    BY <1>4 DEF PeerReset
  <2>2. \A i \in DOMAIN s2c' : i \in DOMAIN s2c /\ s2c'[i] = s2c[i]
    BY <2>1
  <2> QED
    BY <2>2 DEF Closes, Comes, DoneInv
<1> QED
  BY <1>1, <1>2, <1>3, <1>4, ServerStream

\* A reset that spares DONE spares the frames before it.
LEMMA ResetSparesWhole ==
    ASSUME TypeOK, DoneInv, PeerReset, UNCHANGED <<clientVars, serverVars>>, Comes(s2c', "DONE")
    PROVE  Comes(s2c, "DONE") /\ Whole'
<1>1. PICK n \in 0 .. Len(s2c) : s2c' = SubSeq(s2c, 1, n)
  BY SessionTypes DEF PeerReset
<1>2. \A i \in DOMAIN s2c' : i \in DOMAIN s2c /\ s2c'[i] = s2c[i] /\ \A j \in DOMAIN s2c : j < i => j \in DOMAIN s2c'
  BY <1>1, SessionTypes
<1>3. PICK d \in DOMAIN s2c' : s2c'[d].type = "DONE"
  BY DEF Comes
<1>4. Comes(s2c, "DONE")
  BY <1>2, <1>3 DEF Comes
<1>5. \A j \in DOMAIN s2c : s2c[j].type = "FRAME" => j \in DOMAIN s2c' /\ s2c'[j] = s2c[j]
  BY <1>2, <1>3 DEF DoneInv, Closes
<1>6. Coming(s2c, "FRAME") \subseteq Coming(s2c', "FRAME")
  BY <1>5 DEF Coming
<1>7. UNCHANGED <<framesOut, delivered>>
  BY DEF clientVars, serverVars
<1> QED
  BY <1>4, <1>6, <1>7 DEF DoneInv, Whole

\* The decoder's state that DONE depends on.
LEMMA SettledStays ==
    ASSUME TypeOK, OrderInv, FramesInv, FlushInv, draining, srv \in {"done", "closed"}, [Next]_vars
    PROVE  draining' /\ UNCHANGED <<sentPackets, framesOut, lost>> /\ srv' \in {"done", "closed"}
<1>1. pending = <<>>
  BY DEF FramesInv, EndsInv
<1>2. CASE ClientNext /\ UNCHANGED serverVars
  BY <1>2, ClientWrites DEF serverVars
<1>3. CASE ServerNext /\ UNCHANGED clientVars
  BY <1>1, <1>3 DEF ServerNext, LoopStep, ReadPacket, ReadOther, ReadGarbled, ReadBroken, SendDone,
                    Shutdown, Callback, Crash, PeerPing, PeerError, clientVars, serverVars
<1>4. CASE UNCHANGED <<clientVars, serverVars>>
  BY <1>4 DEF clientVars, serverVars
<1> QED
  BY <1>2, <1>3, <1>4 DEF Next, Terminated, vars

\* DONE comes when the decoder is drained, and last.
LEMMA DoneStep ==
    ASSUME TypeOK, OrderInv, FramesInv, FlushInv, DoneInv, [Next]_vars
    PROVE  DoneInv'
<1>0. torn => torn'
  BY TornStays
<1>1. done' => done \/ Comes(s2c, "DONE")
  <2>1. done' = done \/ ReadDone
    BY DEF Next, Terminated, ClientNext, Call, SendPacket, Drain, Close, SubmitPacket, SubmitFlush,
           FlushSent, SubmitFails, ReadFrame, ReadFails, ReadTimeout, AnswerPing, clientVars, vars
  <2>2. ReadDone => Comes(s2c, "DONE")
    BY NothingLeft DEF ReadDone, ClientSees
  <2> QED
    BY <2>1, <2>2
<1>2. Closes(s2c', "DONE", "FRAME") /\ (Comes(s2c', "DONE") => Comes(s2c, "DONE") \/ (SendDone /\ c2sEnd = "open"))
  BY DoneOrder DEF FramesInv
<1>3. CASE ~done /\ ~Comes(s2c, "DONE")
  <2>1. ~done'
    BY <1>1, <1>3
  <2>2. ASSUME SendDone, c2sEnd = "open"
        PROVE  /\ draining' /\ srv' \in {"done", "closed"} /\ Whole'
               /\ torn' \/ ToSet(sentPackets') \subseteq ToSet(framesOut') \cup lost'
    <3>1. draining /\ (torn' \/ ToSet(sentPackets) \subseteq ToSet(framesOut) \cup lost) /\ Whole
      BY <1>0, <2>2, DoneIsSent
    <3>2. UNCHANGED clientVars
      BY <2>2 DEF SendDone, Next, ClientNext, Call, SendPacket, Drain, Close, SubmitPacket, SubmitFlush,
           FlushSent, SubmitFails, ReadFrame, ReadDone, ReadFails, ReadTimeout, AnswerPing, serverVars, vars, Terminated
    <3>3. UNCHANGED <<sentPackets, framesOut, lost, draining>> /\ srv' = "done"
      BY <2>2, <3>2 DEF SendDone, clientVars
    <3>4. pending = <<>> /\ ~PeerReset
      BY <2>2, <3>3 DEF SendDone, PeerReset, FramesInv, EndsInv
    <3>5. Whole'
      BY <3>1, <3>4, WholeStays
    <3> QED
      BY <3>1, <3>3, <3>5
  <2> QED
    BY <1>2, <1>3, <2>1, <2>2 DEF DoneInv
<1>4. CASE done \/ Comes(s2c, "DONE")
  <2>1. /\ draining /\ srv \in {"done", "closed"}
        /\ torn' \/ ToSet(sentPackets) \subseteq ToSet(framesOut) \cup lost
    BY <1>0, <1>4 DEF DoneInv
  <2>2. draining' /\ UNCHANGED <<sentPackets, framesOut, lost>> /\ srv' \in {"done", "closed"}
    BY <2>1, SettledStays
  <2>3. Comes(s2c', "DONE") => Comes(s2c, "DONE")
    BY <1>2, <2>1 DEF SendDone
  <2>4. pending = <<>>
    BY <2>1 DEF FramesInv, EndsInv
  <2>5. Comes(s2c', "DONE") => Whole'
    BY <2>3, <2>4, WholeStays, ResetSparesWhole DEF DoneInv
  <2>6. ASSUME ToSet(framesOut) \subseteq ToSet(delivered)
        PROVE  ToSet(framesOut') \subseteq ToSet(delivered')
    <3>1. Whole
      BY <2>6 DEF Whole
    <3>2. ToSet(delivered) \subseteq ToSet(delivered')
      BY <2>4, <3>1, WholeStays
    <3> QED
      BY <2>2, <2>6, <3>2
  <2>7. done' => ToSet(framesOut') \subseteq ToSet(delivered')
    <3>1. CASE done
      BY <2>6, <3>1 DEF DoneInv
    <3>2. CASE ReadDone
      BY <2>6, <3>2, NothingLeft DEF ReadDone, ClientSees
    <3>3. CASE done' = done
      BY <3>1, <3>3
    <3>4. done' = done \/ ReadDone
      BY DEF Next, Terminated, ClientNext, Call, SendPacket, Drain, Close, SubmitPacket, SubmitFlush,
           FlushSent, SubmitFails, ReadFrame, ReadFails, ReadTimeout, AnswerPing, clientVars, vars
    <3> QED
      BY <3>1, <3>2, <3>3, <3>4
  <2> QED
    BY <1>2, <2>1, <2>2, <2>5, <2>7 DEF DoneInv
<1> QED
  BY <1>3, <1>4

\* The end of the stream.
LEMMA EndStep ==
    ASSUME TypeOK, OrderInv, FramesInv, DrainInv, [Next]_vars
    PROVE  EndInv'
<1> SUFFICES ASSUME drained', ret' \notin Fatal, ~cutShort', s2cEnd' # "rst"
             PROVE  srv' \in {"done", "closed"} /\ ToSet(framesOut') \subseteq ToSet(delivered')
  BY DEF EndInv
<1>1. ASSUME srv \in {"done", "closed"}, ToSet(framesOut) \subseteq ToSet(delivered)
      PROVE  srv' \in {"done", "closed"} /\ ToSet(framesOut') \subseteq ToSet(delivered')
  <2>1. pending = <<>> /\ Whole
    BY <1>1 DEF FramesInv, EndsInv, Whole
  <2>2. UNCHANGED framesOut /\ ToSet(delivered) \subseteq ToSet(delivered')
    BY <2>1, WholeStays
  <2>3. srv' \in {"done", "closed"}
    BY <1>1 DEF Next, Terminated, ServerNext, LoopStep, ReadPacket, ReadOther, ReadGarbled, ReadBroken,
                SendDone, Shutdown, Callback,
                EmitFrame, LoseFrame, Crash, PeerPing, PeerError, serverVars, vars
  <2> QED
    BY <1>1, <2>2, <2>3
<1>2. s2cEnd # "rst"
  BY DeliveryEffect DEF FramesInv, EndsInv, PeerReset, ReadFrame, EmitFrame, TypeOK, StreamTypeOK
<1>3. ASSUME UNCHANGED <<drained, ret, cutShort>>
      PROVE  srv' \in {"done", "closed"} /\ ToSet(framesOut') \subseteq ToSet(delivered')
  BY <1>1, <1>2, <1>3 DEF DrainInv, EndInv
<1>4. CASE ClientNext /\ UNCHANGED serverVars
  <2>1. CASE pc' = "app" /\ pc \in {"call", "read"} /\ ReadDone
    <3>1. s2c # <<>> /\ Head(s2c).type = "DONE"
      BY <2>1 DEF ReadDone, ClientSees
    <3>2. Comes(s2c, "DONE") /\ ToSet(framesOut) \subseteq ToSet(delivered)
      BY <3>1, NothingLeft DEF DrainInv
    <3> QED
      BY <1>1, <3>2 DEF DrainInv, DoneInv
  <2>2. CASE pc \in {"call", "read"} /\ s2c = <<>> /\ s2cEnd = "fin"
    <3>1. c2sEnd = "open" /\ srv = "closed"
      BY <2>2 DEF DrainInv, OpenInv, FramesInv, EndsInv
    <3>2. Coming(s2c, "FRAME") = {}
      BY <2>2, ComingEmpty
    <3>3. ToSet(framesOut) \subseteq ToSet(delivered)
      BY <2>2, <3>1, <3>2 DEF FramesInv, WindowInv, Whole
    <3> QED
      BY <1>1, <3>1, <3>3
  <2> QED
    BY <1>3, <1>4, <2>1, <2>2, ClientControl
<1>5. CASE UNCHANGED clientVars
  BY <1>3, <1>5 DEF clientVars
<1> QED
  BY <1>4, <1>5 DEF Next, Terminated, vars

\* The application has all frames when it has the first of them and their set.
LEMMA AllDelivered ==
    ASSUME TypeOK, MadeInv, PrefixInv, ToSet(framesOut) \subseteq ToSet(delivered)
    PROVE  delivered = framesOut
<1>1. delivered \in Seq(Frames) /\ framesOut \in Seq(Frames)
  BY SessionTypes
<1>2. ASSUME Len(delivered) < Len(framesOut)
      PROVE  FALSE
  <2> DEFINE n == Len(delivered) + 1
  <2>1. n \in DOMAIN framesOut /\ framesOut[n] \in ToSet(delivered) /\ framesOut[n] \in Frames
    BY <1>1, <1>2 DEF ToSet
  <2>2. PICK k \in DOMAIN delivered : framesOut[n] = delivered[k]
    BY <2>1 DEF ToSet
  <2>3. k \in DOMAIN framesOut /\ k < n /\ framesOut[n] = framesOut[k]
    BY <1>1, <1>2, <2>2 DEF PrefixInv
  <2>4. framesOut[k] < framesOut[n]
    BY <2>1, <2>3 DEF MadeInv
  <2>5. framesOut[n] \in Int
    BY <2>1 DEF Frames
  <2> QED
    BY <2>3, <2>4, <2>5
<1>3. Len(delivered) = Len(framesOut)
  BY <1>1, <1>2 DEF PrefixInv
<1> QED
  BY <1>1, <1>3 DEF PrefixInv

\* The first state.
LEMMA FramesStart ==
    ASSUME Init
    PROVE  OrderInv /\ FramesInv /\ DrainInv
<1>1. ToSet(<<>>) = {} /\ DOMAIN <<>> = {}
  BY DEF ToSet
<1>2. \A t : Coming(<<>>, t) = {} /\ InOrder(<<>>, t)
  BY ComingEmpty
<1>3. \A t, u : Closes(<<>>, t, u) /\ ~Comes(<<>>, t)
  BY NothingComes
<1>4. OrderInv
  BY <1>1, <1>2 DEF Init, WireInit, OrderInv, StreamsInv, PlacesInv, PlacesInOrder, Below, TurnInv, CallInv
<1>5. FramesInv
  BY <1>1, <1>2 DEF Init, WireInit, FramesInv, EndsInv, MadeInv, PlacesInOrder, Below, PrefixInv,
                    WindowInv, AccountInv, Whole, UncutInv, Comes
<1>6. DrainInv
  BY <1>1, <1>3 DEF Init, WireInit, DrainInv, OpenInv, FlushInv, DoneInv, EndInv
<1> QED
  BY <1>4, <1>5, <1>6

\* The frames vtremoted makes are those of its packets, in order; those that
\* have not reached the application are on their way, without a gap, all of
\* them while the connection is sound; DONE and the end of the stream find
\* none missing.
THEOREM DrainInvariant == Spec => [](FramesInv /\ DrainInv)
<1>1. Init => OrderInv /\ FramesInv /\ DrainInv
  BY FramesStart
<1>2. TypeOK /\ OrderInv /\ FramesInv /\ DrainInv /\ [Next]_vars => OrderInv' /\ FramesInv' /\ DrainInv'
  <2> SUFFICES ASSUME TypeOK, OrderInv, FramesInv, DrainInv, [Next]_vars
               PROVE  OrderInv' /\ FramesInv' /\ DrainInv'
    OBVIOUS
  <2>1. OrderInv'
    BY OrderStep
  <2>2. EndsInv' /\ MadeInv' /\ PrefixInv' /\ WindowInv' /\ AccountInv' /\ UncutInv'
    BY EndsStep, MadeStep, DeliveryStep, AccountStep, UncutStep DEF FramesInv
  <2>3. OpenInv' /\ FlushInv' /\ DoneInv'
    BY OpenStep, FlushStep, DoneStep DEF DrainInv
  <2>4. EndInv'
    BY EndStep
  <2> QED
    BY <2>1, <2>2, <2>3, <2>4 DEF FramesInv, DrainInv
<1> QED
  BY <1>1, <1>2, TypeCorrect, PTL DEF Spec

\* Once DONE has been read, the application has every frame, and every packet
\* transmitted has been decoded or has failed in the decoder, unless a PONG was
\* cut: flush answers only when the decoder has nothing left, and nothing
\* overtakes DONE.
THEOREM DoneIsDrained == Spec => []DoneMeansDrained
<1>1. TypeOK /\ FramesInv /\ DrainInv => DoneMeansDrained
  <2> SUFFICES ASSUME TypeOK, FramesInv, DrainInv, done
               PROVE  delivered = framesOut /\ (torn \/ ToSet(sentPackets) = ToSet(framesOut) \cup lost)
    BY DEF DoneMeansDrained
  <2>1. /\ ToSet(framesOut) \subseteq ToSet(delivered)
        /\ torn \/ ToSet(sentPackets) \subseteq ToSet(framesOut) \cup lost
    BY DEF DrainInv, DoneInv
  <2>2. ToSet(framesOut) \subseteq ToSet(sentPackets) /\ lost \subseteq ToSet(sentPackets)
    BY DEF FramesInv, MadeInv, PlacesInOrder, AccountInv
  <2> QED
    BY <2>1, <2>2, AllDelivered DEF FramesInv
<1> QED
  BY <1>1, TypeCorrect, DrainInvariant, PTL

\* A stream that ends without an error, a reset or a timeout passing for its
\* end has handed every frame vtremoted sent to the application.
THEOREM EndIsComplete == Spec => []CompleteAtEnd
<1>1. TypeOK /\ FramesInv /\ DrainInv => CompleteAtEnd
  BY AllDelivered DEF FramesInv, DrainInv, EndInv, CompleteAtEnd
<1> QED
  BY <1>1, TypeCorrect, DrainInvariant, PTL
===============================================================================
