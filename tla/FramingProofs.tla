------------------------------ MODULE FramingProofs ------------------------------
(***************************************************************************)
(* What framing guarantees, for every number and length of messages, every *)
(* length that garbage can mean, and timeouts at any place.                *)
(*                                                                         *)
(* The argument is about the line of units from the first one the reader   *)
(* still holds to the one the writer writes next.  Reading moves the       *)
(* border between the two sides along it, a timeout of the writer's skips  *)
(* the rest of a message at its end, and whatever makes the reader start   *)
(* over drops a stretch at its front.                                      *)
(***************************************************************************)
EXTENDS Framing, SequenceTheorems, TLAPS

-------------------------------------------------------------------------------
(***************************************************************************)
(* Types.                                                                  *)
(***************************************************************************)
Positions == Nat \ {0}
Units == Messages \X Positions

TypeInv ==
    /\ dir \in {"up", "down"}
    /\ wire \in Seq(Units)
    /\ out \in (1 .. Len(Payload) + 1) \X Positions
    /\ failed \subseteq Messages
    /\ closed \in BOOLEAN
    /\ head \in Seq(Units)
    /\ need \in Nat
    /\ got \in Seq(Units)
    /\ reading \in BOOLEAN
    /\ reports \in Nat
    /\ accepted \in Seq([head : Seq(Units), body : Seq(Units)])

\* How far the reader is, and what it can have seen go wrong.
ReaderInv ==
    /\ head = <<>> => Len(got) < HeaderSize
    /\ head # <<>> => /\ Len(head) = HeaderSize /\ HeaderOK(head)
                      /\ need \in Lengths(head) /\ Len(got) < need
    /\ dir = "down" => failed = {}
    /\ dir = "up" /\ reports > 0 => ~reading

-------------------------------------------------------------------------------
(***************************************************************************)
(* The line.                                                               *)
(***************************************************************************)
Size(m) == HeaderSize + Payload[m]

\* Unit u is written before unit v.
Before(u, v) == u[1] < v[1] \/ (u[1] = v[1] /\ u[2] < v[2])

\* What stands k places after a unit u of a message whose send has not failed:
\* a unit of the same message; right behind the last of these the first of
\* another one, and if one is left out, then because its send has failed.
Follows(u, k, v, bad) ==
    /\ u[2] + k <= Size(u[1]) => v = <<u[1], u[2] + k>>
    /\ u[2] + k = Size(u[1]) + 1 =>
          /\ v[2] = 1
          /\ \A m \in Messages : u[1] < m /\ m < v[1] => m \in bad

InLine(line, bad) ==
    \A i, j \in DOMAIN line : i < j =>
        /\ Before(line[i], line[j])
        /\ line[i][1] \notin bad => Follows(line[i], j - i, line[j], bad)

Line == (head \o got) \o Append(wire, out)

LineInv == InLine(Line, failed)

-------------------------------------------------------------------------------
(***************************************************************************)
(* The messages accepted.                                                  *)
(***************************************************************************)

\* They are whole, unless their send failed, in order, and all that comes after
\* them on the line was written later.
AcceptedInv ==
    \A i \in DOMAIN accepted :
        /\ Begun(accepted[i]) \in Messages
        /\ accepted[i] = Whole(Begun(accepted[i])) \/ Begun(accepted[i]) \in failed
        /\ \A j \in 1 .. i - 1 : Begun(accepted[j]) < Begun(accepted[i])
        /\ \A k \in DOMAIN Line : Before(<<Begun(accepted[i]), 1>>, Line[k])

\* Before the first failed send.
Sound(m) == \A f \in failed : f > m

\* Until an error is reported the reader has accepted every such message it has
\* passed; vtremoted stands at the beginning of one, while FFmpeg, whose receive
\* timeout can drop a header, then finds no header before it reports an error.
SyncInv ==
    reports = 0 =>
        /\ \A m \in Messages : Sound(m) /\ m < Line[1][1] =>
              \E j \in DOMAIN accepted : Begun(accepted[j]) = m
        /\ dir = "up" /\ Sound(Line[1][1]) => Line[1][2] = 1

FramingInv == TypeInv /\ ReaderInv /\ LineInv /\ AcceptedInv /\ SyncInv

-------------------------------------------------------------------------------
(***************************************************************************)
(* The places of the line.                                                 *)
(***************************************************************************)

\* t is what is left of s without its first d elements.
Dropped(s, t, d) ==
    /\ Len(t) = Len(s) - d
    /\ \A k \in 1 .. Len(t) : t[k] = s[k + d]

\* A place in three parts one after the other.
LEMMA ThreeParts ==
    ASSUME NEW a \in Nat, NEW b \in Nat, NEW c \in Nat, NEW m \in 1 .. a + b + c
    PROVE  \/ m \in 1 .. a
           \/ \E l \in 1 .. b : m = a + l
           \/ \E l \in 1 .. c : m = a + b + l
<1>1. CASE m <= a
  BY <1>1
<1>2. CASE m > a /\ m <= a + b
  <2>1. m - a \in 1 .. b /\ m = a + (m - a)
    BY <1>2
  <2> QED
    BY <2>1
<1>3. CASE m > a + b
  <2>1. m - a - b \in 1 .. c /\ m = a + b + (m - a - b)
    BY <1>3
  <2> QED
    BY <2>1
<1> QED
  BY <1>1, <1>2, <1>3

\* The places of a line made of three parts and the writer's unit.
LEMMA Places ==
    ASSUME NEW S, NEW h \in Seq(S), NEW g \in Seq(S), NEW w \in Seq(S), NEW o \in S,
           NEW line, line = (h \o g) \o Append(w, o)
    PROVE  /\ line \in Seq(S) /\ DOMAIN line = 1 .. Len(line)
           /\ Len(h) \in Nat /\ Len(g) \in Nat /\ Len(w) \in Nat
           /\ Len(line) = Len(h) + Len(g) + Len(w) + 1
           /\ \A k \in 1 .. Len(h) : line[k] = h[k]
           /\ \A k \in 1 .. Len(g) : line[Len(h) + k] = g[k]
           /\ \A k \in 1 .. Len(w) : line[Len(h) + Len(g) + k] = w[k]
           /\ line[Len(line)] = o
<1>1. Append(w, o) \in Seq(S) /\ Len(Append(w, o)) = Len(w) + 1
  OBVIOUS
<1>2. /\ h \o g \in Seq(S) /\ Len(h \o g) = Len(h) + Len(g)
      /\ \A k \in 1 .. Len(h) : (h \o g)[k] = h[k]
      /\ \A k \in 1 .. Len(g) : (h \o g)[Len(h) + k] = g[k]
  OBVIOUS
<1>3. PICK hg \in Seq(S) : hg = h \o g
  BY <1>2
<1>4. PICK wo \in Seq(S) : wo = Append(w, o)
  BY <1>1
<1>5. /\ line = hg \o wo /\ line \in Seq(S) /\ Len(line) = Len(hg) + Len(wo)
      /\ \A k \in 1 .. Len(hg) : line[k] = hg[k]
      /\ \A k \in 1 .. Len(wo) : line[Len(hg) + k] = wo[k]
  BY <1>3, <1>4
<1>6. /\ \A k \in 1 .. Len(w) : wo[k] = w[k]
      /\ wo[Len(w) + 1] = o
  BY <1>4
<1> QED
  BY <1>1, <1>2, <1>3, <1>4, <1>5, <1>6

\* A unit is read.
LEMMA ReadPlaces ==
    ASSUME NEW S, NEW h \in Seq(S), NEW g \in Seq(S), NEW w \in Seq(S), NEW o \in S, w # <<>>,
           NEW ss, ss = (h \o g) \o Append(w, o),
           NEW tt, tt = (h \o Append(g, Head(w))) \o Append(Tail(w), o)
    PROVE  Dropped(ss, tt, 0)
<1>1. /\ Append(g, Head(w)) \in Seq(S) /\ Len(Append(g, Head(w))) = Len(g) + 1
      /\ \A k \in 1 .. Len(g) : Append(g, Head(w))[k] = g[k]
      /\ Append(g, Head(w))[Len(g) + 1] = w[1]
  OBVIOUS
<1>2. /\ Tail(w) \in Seq(S) /\ Len(Tail(w)) = Len(w) - 1 /\ Len(w) >= 1
      /\ \A k \in 1 .. Len(w) - 1 : Tail(w)[k] = w[k + 1]
  OBVIOUS
<1>3. PICK gh \in Seq(S) : gh = Append(g, Head(w))
  BY <1>1
<1>4. PICK tw \in Seq(S) : tw = Tail(w)
  BY <1>2
<1>5. Len(h) \in Nat /\ Len(g) \in Nat /\ Len(w) \in Nat \ {0}
  OBVIOUS
<1>6. /\ Len(gh) = Len(g) + 1 /\ Len(tw) = Len(w) - 1
      /\ \A k \in 1 .. Len(g) : gh[k] = g[k]
      /\ gh[Len(g) + 1] = w[1]
      /\ \A k \in 1 .. Len(w) - 1 : tw[k] = w[k + 1]
  BY <1>1, <1>2, <1>3, <1>4
<1>7. /\ Len(ss) = Len(h) + Len(g) + Len(w) + 1
      /\ \A k \in 1 .. Len(h) : ss[k] = h[k]
      /\ \A k \in 1 .. Len(g) : ss[Len(h) + k] = g[k]
      /\ \A k \in 1 .. Len(w) : ss[Len(h) + Len(g) + k] = w[k]
      /\ ss[Len(ss)] = o
  <2>1. /\ h \in Seq(S) /\ g \in Seq(S) /\ w \in Seq(S) /\ o \in S
        /\ ss = (h \o g) \o Append(w, o)
    OBVIOUS
  <2> QED
    BY ONLY <2>1, Places
<1>8. /\ Len(tt) = Len(h) + Len(gh) + Len(tw) + 1
      /\ \A k \in 1 .. Len(h) : tt[k] = h[k]
      /\ \A k \in 1 .. Len(gh) : tt[Len(h) + k] = gh[k]
      /\ \A k \in 1 .. Len(tw) : tt[Len(h) + Len(gh) + k] = tw[k]
      /\ tt[Len(tt)] = o
  <2>1. /\ h \in Seq(S) /\ gh \in Seq(S) /\ tw \in Seq(S) /\ o \in S
        /\ tt = (h \o gh) \o Append(tw, o)
    BY <1>3, <1>4
  <2> QED
    BY ONLY <2>1, Places
<1>9. Len(tt) = Len(ss)
  BY ONLY <1>5, <1>6, <1>7, <1>8
<1>10. ASSUME NEW k \in 1 .. Len(tt)
       PROVE  tt[k] = ss[k]
  <2>0. k \in Nat \ {0} /\ k <= Len(h) + Len(g) + Len(w) + 1
    BY <1>5, <1>7, <1>9
  <2>1. CASE k <= Len(h)
    <3>1. k \in 1 .. Len(h)
      BY ONLY <1>5, <2>0, <2>1
    <3> QED
      BY <1>7, <1>8, <3>1
  <2>2. CASE k > Len(h) /\ k <= Len(h) + Len(g)
    <3>1. PICK l \in 1 .. Len(g) : k = Len(h) + l
      <4>1. k - Len(h) \in 1 .. Len(g) /\ k = Len(h) + (k - Len(h))
        BY ONLY <1>5, <2>0, <2>2
      <4> QED
        BY <4>1
    <3>2. l \in 1 .. Len(gh) /\ gh[l] = g[l]
      BY <1>5, <1>6, <3>1
    <3> QED
      BY <1>7, <1>8, <3>1, <3>2
  <2>3. CASE k = Len(h) + Len(g) + 1
    <3>1. Len(g) + 1 \in 1 .. Len(gh) /\ 1 \in 1 .. Len(w) /\ k = Len(h) + (Len(g) + 1)
      BY ONLY <1>5, <1>6, <2>3
    <3>2. tt[k] = w[1]
      BY ONLY <1>6, <1>8, <3>1
    <3>3. ss[k] = w[1]
      BY ONLY <1>7, <3>1, <2>3
    <3> QED
      BY ONLY <3>2, <3>3
  <2>4. CASE k > Len(h) + Len(g) + 1 /\ k <= Len(h) + Len(g) + Len(w)
    <3>1. PICK l \in 1 .. Len(tw) : k = Len(h) + Len(gh) + l
      <4>1. k - Len(h) - Len(gh) \in 1 .. Len(tw) /\ k = Len(h) + Len(gh) + (k - Len(h) - Len(gh))
        BY ONLY <1>5, <1>6, <2>0, <2>4
      <4> QED
        BY <4>1
    <3>2. l \in Nat /\ l \in 1 .. Len(w) - 1
      BY <1>5, <1>6, <3>1
    <3>3. tt[k] = w[l + 1]
      BY <1>6, <1>8, <3>1, <3>2
    <3>4. l + 1 \in 1 .. Len(w) /\ k = Len(h) + Len(g) + (l + 1)
      BY ONLY <1>5, <1>6, <3>1, <3>2
    <3> QED
      BY <1>7, <3>3, <3>4
  <2>5. CASE k = Len(h) + Len(g) + Len(w) + 1
    BY <1>7, <1>8, <1>9, <2>5
  <2>6. \/ k <= Len(h)
        \/ k > Len(h) /\ k <= Len(h) + Len(g)
        \/ k = Len(h) + Len(g) + 1
        \/ k > Len(h) + Len(g) + 1 /\ k <= Len(h) + Len(g) + Len(w)
        \/ k = Len(h) + Len(g) + Len(w) + 1
    <3>1. ASSUME NEW a \in Nat, NEW b \in Nat, NEW c \in Nat, NEW n \in Nat, n <= a + b + c + 1
          PROVE  \/ n <= a
                 \/ n > a /\ n <= a + b
                 \/ n = a + b + 1
                 \/ n > a + b + 1 /\ n <= a + b + c
                 \/ n = a + b + c + 1
      BY ONLY <3>1
    <3>2. Len(w) \in Nat
      BY <1>5
    <3> QED
      BY ONLY <1>5, <2>0, <3>1, <3>2
  <2> QED
    BY <2>1, <2>2, <2>3, <2>4, <2>5, <2>6
<1>11. \A k \in 1 .. Len(tt) : k + 0 = k
  BY <1>5, <1>7, <1>9
<1>12. Len(tt) = Len(ss) - 0
  BY <1>5, <1>7, <1>9
<1> QED
  BY ONLY <1>10, <1>11, <1>12 DEF Dropped

\* What has been read becomes the header, or is forgotten.
LEMMA KeepPlaces ==
    ASSUME NEW S, NEW n \in Seq(S), NEW w \in Seq(S), NEW o \in S
    PROVE  Dropped((<<>> \o n) \o Append(w, o), (n \o <<>>) \o Append(w, o), 0)
<1>1. <<>> \o n = n /\ n \o <<>> = n
  BY ConcatEmptySeq
<1>2. Append(w, o) \in Seq(S)
  OBVIOUS
<1>3. PICK a \in Seq(S) : a = Append(w, o)
  BY <1>2
<1>4. n \o a \in Seq(S)
  OBVIOUS
<1>5. PICK s \in Seq(S) : s = n \o a
  BY <1>4
<1> QED
  BY <1>1, <1>3, <1>5 DEF Dropped

LEMMA DropPlaces ==
    ASSUME NEW S, NEW h \in Seq(S), NEW n \in Seq(S), NEW w \in Seq(S), NEW o \in S
    PROVE  Dropped((h \o n) \o Append(w, o), (<<>> \o <<>>) \o Append(w, o), Len(h) + Len(n))
<1>1. PICK s : s = (h \o n) \o Append(w, o)
  OBVIOUS
<1>2. PICK t : t = (<<>> \o <<>>) \o Append(w, o)
  OBVIOUS
<1>3. /\ Len(s) = Len(h) + Len(n) + Len(w) + 1
      /\ \A k \in 1 .. Len(w) : s[Len(h) + Len(n) + k] = w[k]
      /\ s[Len(s)] = o
      /\ Len(h) \in Nat /\ Len(n) \in Nat /\ Len(w) \in Nat
  BY <1>1, Places
<1>4. <<>> \in Seq(S) /\ Len(<<>>) = 0
  OBVIOUS
<1>5. /\ Len(t) = 0 + 0 + Len(w) + 1
      /\ \A k \in 1 .. Len(w) : t[0 + 0 + k] = w[k]
      /\ t[Len(t)] = o
  BY <1>2, <1>4, Places
<1>6. ASSUME NEW k \in 1 .. Len(t)
      PROVE  t[k] = s[k + (Len(h) + Len(n))]
  <2>1. CASE k \in 1 .. Len(w)
    <3>1. 0 + 0 + k = k /\ k + (Len(h) + Len(n)) = Len(h) + Len(n) + k
      BY <1>3, <2>1
    <3> QED
      BY <1>3, <1>5, <2>1, <3>1
  <2>2. CASE k = Len(t)
    <3>1. k + (Len(h) + Len(n)) = Len(s)
      BY <1>3, <1>5, <2>2
    <3> QED
      BY <1>3, <1>5, <2>2, <3>1
  <2> QED
    BY <1>3, <1>5, <2>1, <2>2
<1> QED
  BY <1>1, <1>2, <1>3, <1>5, <1>6 DEF Dropped

\* One after the other.
LEMMA DroppedTwice ==
    ASSUME NEW s, NEW t, NEW u, NEW d \in Nat, Dropped(s, t, 0), Dropped(t, u, d),
           Len(s) \in Nat, Len(u) \in Nat
    PROVE  Dropped(s, u, d)
<1>1. Len(t) = Len(s) /\ Len(u) = Len(s) - d
  BY DEF Dropped
<1>2. ASSUME NEW k \in 1 .. Len(u)
      PROVE  u[k] = s[k + d]
  <2>1. k + d \in 1 .. Len(t) /\ k + d + 0 = k + d
    BY <1>1
  <2> QED
    BY <2>1 DEF Dropped
<1> QED
  BY <1>1, <1>2 DEF Dropped

-------------------------------------------------------------------------------
(***************************************************************************)
(* What a step does to the line.                                           *)
(***************************************************************************)
LinePlace == (1 .. Len(Payload) + 1) \X Positions

\* The line is where the variables say.
LEMMA LinePlaces ==
    ASSUME NEW h \in Seq(Units), NEW g \in Seq(Units), NEW w \in Seq(Units),
           NEW o \in LinePlace, NEW line, line = (h \o g) \o Append(w, o)
    PROVE  /\ line \in Seq(LinePlace) /\ DOMAIN line = 1 .. Len(line)
           /\ Len(h) \in Nat /\ Len(g) \in Nat /\ Len(w) \in Nat
           /\ Len(line) = Len(h) + Len(g) + Len(w) + 1
           /\ \A k \in 1 .. Len(h) : line[k] = h[k]
           /\ \A k \in 1 .. Len(g) : line[Len(h) + k] = g[k]
           /\ \A k \in 1 .. Len(w) : line[Len(h) + Len(g) + k] = w[k]
           /\ line[Len(line)] = o
<1>1. Len(Payload) \in Nat
  BY FramingAssumption
<1>2. Units \subseteq LinePlace
  BY <1>1 DEF Units, LinePlace, Messages
<1>3. h \in Seq(LinePlace) /\ g \in Seq(LinePlace) /\ w \in Seq(LinePlace)
  BY <1>2, SeqMonotonic
<1>4. o \in LinePlace /\ line = (h \o g) \o Append(w, o)
  OBVIOUS
<1> QED
  BY ONLY <1>3, <1>4, Places

LEMMA LineTypes ==
    ASSUME TypeInv
    PROVE  /\ Line \in Seq(LinePlace) /\ DOMAIN Line = 1 .. Len(Line)
           /\ Len(head) \in Nat /\ Len(got) \in Nat /\ Len(wire) \in Nat
           /\ Len(Line) = Len(head) + Len(got) + Len(wire) + 1
           /\ \A k \in 1 .. Len(head) : Line[k] = head[k]
           /\ \A k \in 1 .. Len(got) : Line[Len(head) + k] = got[k]
           /\ \A k \in 1 .. Len(wire) : Line[Len(head) + Len(got) + k] = wire[k]
           /\ Line[Len(Line)] = out
<1>1. /\ head \in Seq(Units) /\ got \in Seq(Units) /\ wire \in Seq(Units)
      /\ out \in LinePlace
  BY DEF TypeInv, LinePlace
<1>2. PICK line : line = (head \o got) \o Append(wire, out)
  OBVIOUS
<1>3. Line = line
  BY <1>2 DEF Line
<1>4. line \in Seq(LinePlace) /\ DOMAIN line = 1 .. Len(line)
  <2>1. Units \subseteq LinePlace
    BY FramingAssumption DEF Units, LinePlace, Messages
  <2>2. head \in Seq(LinePlace) /\ got \in Seq(LinePlace) /\ wire \in Seq(LinePlace)
    BY <1>1, <2>1, SeqMonotonic
  <2> QED
    BY ONLY <1>1, <1>2, <2>2, Places
<1>5. Len(head) \in Nat /\ Len(got) \in Nat /\ Len(wire) \in Nat
  BY ONLY <1>1
<1>6. /\ Len(line) = Len(head) + Len(got) + Len(wire) + 1
      /\ \A k \in 1 .. Len(head) : line[k] = head[k]
      /\ \A k \in 1 .. Len(got) : line[Len(head) + k] = got[k]
      /\ \A k \in 1 .. Len(wire) : line[Len(head) + Len(got) + k] = wire[k]
      /\ line[Len(line)] = out
  BY ONLY <1>1, <1>2, LinePlaces
<1> QED
  BY ONLY <1>3, <1>4, <1>5, <1>6

\* And the reader's units are the line's first.
LEMMA LineElements ==
    ASSUME TypeInv
    PROVE  /\ Len(Line) \in Nat \ {0} /\ DOMAIN Line = 1 .. Len(Line) /\ 1 \in DOMAIN Line
           /\ \A k \in DOMAIN Line : Line[k] \in LinePlace
           /\ \A u \in LinePlace : u[1] \in Nat \ {0} /\ u[2] \in Nat \ {0} /\ u = <<u[1], u[2]>>
           /\ \A u \in Units : u[1] \in Messages /\ u[2] \in Nat \ {0} /\ u \in LinePlace
<1>1. Len(Payload) \in Nat
  BY FramingAssumption
<1>2. Len(Line) \in Nat \ {0} /\ DOMAIN Line = 1 .. Len(Line) /\ Line \in Seq(LinePlace)
  BY LineTypes
<1> QED
  BY <1>1, <1>2 DEF LinePlace, Positions, Units, Messages

LEMMA NextLine ==
    ASSUME TypeInv'
    PROVE  /\ Line' \in Seq(LinePlace) /\ DOMAIN Line' = 1 .. Len(Line')
           /\ Len(Line') \in Nat /\ Len(Line') > 0
           /\ \A k \in DOMAIN Line' : Line'[k] \in LinePlace
<1>1. /\ head' \in Seq(Units) /\ got' \in Seq(Units) /\ wire' \in Seq(Units)
      /\ out' \in LinePlace
  BY DEF TypeInv, LinePlace
<1>2. PICK line : line = (head' \o got') \o Append(wire', out')
  OBVIOUS
<1>3. Line' = line
  BY <1>2 DEF Line
<1>4. /\ line \in Seq(LinePlace) /\ DOMAIN line = 1 .. Len(line)
      /\ Len(line) = Len(head') + Len(got') + Len(wire') + 1
  <2>1. PICK h \in Seq(Units), g \in Seq(Units), w \in Seq(Units), o \in LinePlace :
           h = head' /\ g = got' /\ w = wire' /\ o = out'
    BY <1>1
  <2>2. line = (h \o g) \o Append(w, o)
    BY <1>2, <2>1
  <2>3. h \in Seq(Units) /\ g \in Seq(Units) /\ w \in Seq(Units) /\ o \in LinePlace
    OBVIOUS
  <2>4. line \in Seq(LinePlace)
    BY ONLY <2>2, <2>3, LinePlaces
  <2>5. DOMAIN line = 1 .. Len(line)
    BY ONLY <2>4
  <2>6. Len(line) = Len(h) + Len(g) + Len(w) + 1
    BY ONLY <2>2, <2>3, LinePlaces
  <2> QED
    BY <2>1, <2>4, <2>5, <2>6
<1>5. Len(head') \in Nat /\ Len(got') \in Nat /\ Len(wire') \in Nat
  BY ONLY <1>1
<1>6. Len(line) \in Nat /\ Len(line) > 0
  BY <1>4, <1>5
<1>7. \A k \in DOMAIN line : line[k] \in LinePlace
  BY <1>4, ElementOfSeq
<1> QED
  BY <1>3, <1>4, <1>6, <1>7

\* The writer's steps.
LEMMA WriteEffect ==
    ASSUME TypeInv, WriteUnit, TypeInv'
    PROVE  /\ Len(Line') = Len(Line) + 1
           /\ \A k \in DOMAIN Line : Line'[k] = Line[k]
           /\ Line'[Len(Line) + 1] = out' /\ Line[Len(Line)] = out
           /\ out[1] \in Messages
           /\ out' = IF out[2] < Size(out[1]) THEN <<out[1], out[2] + 1>> ELSE <<out[1] + 1, 1>>
           /\ UNCHANGED <<dir, failed, reports, accepted>>
<1>2. /\ UNCHANGED <<head, got>> /\ wire' = Append(wire, out)
      /\ out[1] \in Messages
      /\ out' = IF out[2] < Size(out[1]) THEN <<out[1], out[2] + 1>> ELSE <<out[1] + 1, 1>>
      /\ UNCHANGED <<dir, failed, reports, accepted>>
  BY DEF WriteUnit, Writing, readerVars, Size
<1>3. /\ wire \in Seq(Units) /\ wire' \in Seq(Units)
  BY DEF TypeInv
<1>4. Len(wire') = Len(wire) + 1 /\ \A k \in 1 .. Len(wire) : wire'[k] = wire[k]
  <2>1. out \in Units
    <3>1. out[1] \in Messages
      BY <1>2
    <3> QED
      BY <3>1 DEF TypeInv, Units
  <2> QED
    BY <1>2, <1>3, <2>1
<1>5. wire'[Len(wire) + 1] = out
  <2>1. out \in Units
    BY <1>2 DEF TypeInv, Units
  <2> QED
    BY <1>2, <1>3, <2>1
<1>6. /\ DOMAIN Line = 1 .. Len(Line)
      /\ Len(head) \in Nat /\ Len(got) \in Nat /\ Len(wire) \in Nat
      /\ Len(Line) = Len(head) + Len(got) + Len(wire) + 1
      /\ \A k \in 1 .. Len(head) : Line[k] = head[k]
      /\ \A k \in 1 .. Len(got) : Line[Len(head) + k] = got[k]
      /\ \A k \in 1 .. Len(wire) : Line[Len(head) + Len(got) + k] = wire[k]
      /\ Line[Len(Line)] = out
  BY LineTypes
<1>7. /\ Len(Line') = Len(head) + Len(got) + Len(wire') + 1
      /\ \A k \in 1 .. Len(head) : Line'[k] = head[k]
      /\ \A k \in 1 .. Len(got) : Line'[Len(head) + k] = got[k]
      /\ \A k \in 1 .. Len(wire') : Line'[Len(head) + Len(got) + k] = wire'[k]
      /\ Line'[Len(Line')] = out'
  <2>1. /\ head \in Seq(Units) /\ got \in Seq(Units) /\ wire' \in Seq(Units)
        /\ out' \in LinePlace
    BY <1>2 DEF TypeInv, LinePlace
  <2>2. Line' = (head \o got) \o Append(wire', out')
    BY <1>2 DEF Line
  <2> QED
    BY ONLY <2>1, <2>2, LinePlaces
<1>8. Len(Line') = Len(Line) + 1
  BY ONLY <1>4, <1>6, <1>7
<1>9. ASSUME NEW k \in DOMAIN Line
      PROVE  Line'[k] = Line[k]
  <2>1. k \in 1 .. Len(head) + Len(got) + Len(wire) + 1
    BY ONLY <1>6, <1>9
  <2>2. CASE k \in 1 .. Len(head)
    BY <1>6, <1>7, <2>2
  <2>3. CASE \E l \in 1 .. Len(got) : k = Len(head) + l
    BY <1>6, <1>7, <2>3
  <2>4. CASE \E l \in 1 .. Len(wire) : k = Len(head) + Len(got) + l
    <3>1. PICK l \in 1 .. Len(wire) : k = Len(head) + Len(got) + l
      BY <2>4
    <3>2. l \in 1 .. Len(wire')
      BY <1>4, <1>6
    <3> QED
      BY <1>4, <1>6, <1>7, <3>1, <3>2
  <2>5. CASE k = Len(head) + Len(got) + Len(wire) + 1
    <3>1. Len(wire) + 1 \in 1 .. Len(wire') /\ k = Len(head) + Len(got) + (Len(wire) + 1)
      BY ONLY <1>4, <1>6, <2>5
    <3> QED
      BY <1>5, <1>6, <1>7, <2>5, <3>1
  <2> QED
    <3>1. k \in 1 .. Len(head) + Len(got) + Len(wire) \/ k = Len(head) + Len(got) + Len(wire) + 1
      BY ONLY <1>6, <2>1
    <3> QED
      BY ONLY <1>6, <2>2, <2>3, <2>4, <2>5, <3>1, ThreeParts
<1> QED
  BY <1>2, <1>6, <1>7, <1>8, <1>9

LEMMA SkipEffect ==
    ASSUME TypeInv, SendTimeout, TypeInv'
    PROVE  /\ Len(Line') = Len(Line)
           /\ \A k \in 1 .. Len(Line) - 1 : Line'[k] = Line[k]
           /\ Line'[Len(Line)] = <<out[1] + 1, 1>> /\ Line[Len(Line)] = out
           /\ out[1] \in Messages /\ failed' = failed \cup {out[1]}
           /\ UNCHANGED <<dir, reports, accepted>>
<1>1. /\ UNCHANGED <<head, got, wire, dir, reports, accepted>>
      /\ out' = <<out[1] + 1, 1>> /\ out[1] \in Messages /\ failed' = failed \cup {out[1]}
  BY DEF SendTimeout, Writing, readerVars
<1>2. /\ head \in Seq(Units) /\ got \in Seq(Units) /\ wire \in Seq(Units)
      /\ out' \in LinePlace
  BY DEF TypeInv, LinePlace
<1>3. Line' = (head \o got) \o Append(wire, out')
  BY <1>1 DEF Line
<1>4. /\ Len(Line') = Len(head) + Len(got) + Len(wire) + 1
      /\ \A k \in 1 .. Len(head) : Line'[k] = head[k]
      /\ \A k \in 1 .. Len(got) : Line'[Len(head) + k] = got[k]
      /\ \A k \in 1 .. Len(wire) : Line'[Len(head) + Len(got) + k] = wire[k]
      /\ Line'[Len(Line')] = out'
  BY ONLY <1>2, <1>3, LinePlaces
<1>5. /\ Len(head) \in Nat /\ Len(got) \in Nat /\ Len(wire) \in Nat
      /\ Len(Line) = Len(head) + Len(got) + Len(wire) + 1
      /\ \A k \in 1 .. Len(head) : Line[k] = head[k]
      /\ \A k \in 1 .. Len(got) : Line[Len(head) + k] = got[k]
      /\ \A k \in 1 .. Len(wire) : Line[Len(head) + Len(got) + k] = wire[k]
      /\ Line[Len(Line)] = out
  BY LineTypes
<1>6. ASSUME NEW k \in 1 .. Len(Line) - 1
      PROVE  Line'[k] = Line[k]
  <2>1. k \in 1 .. Len(head) + Len(got) + Len(wire)
    BY ONLY <1>5, <1>6
  <2>2. CASE k \in 1 .. Len(head)
    BY <1>4, <1>5, <2>2
  <2>3. CASE \E l \in 1 .. Len(got) : k = Len(head) + l
    BY <1>4, <1>5, <2>3
  <2>4. CASE \E l \in 1 .. Len(wire) : k = Len(head) + Len(got) + l
    BY <1>4, <1>5, <2>4
  <2> QED
    BY ONLY <1>5, <2>1, <2>2, <2>3, <2>4, ThreeParts
<1> QED
  BY <1>1, <1>4, <1>5, <1>6

\* The reader's: it moves the border or starts over, with an error, with a
\* message, or - FFmpeg, after a timeout between header and payload - with neither.
AcceptsAt(h, b) ==
    /\ HeaderOK(h) /\ Len(h) = HeaderSize /\ Len(b) \in Lengths(h)
    /\ \A k \in 1 .. HeaderSize : Line[k] = h[k]
    /\ \A k \in 1 .. Len(b) : Line[HeaderSize + k] = b[k]
    /\ accepted' = Append(accepted, [head |-> h, body |-> b])

Moves == Dropped(Line, Line', 0) /\ UNCHANGED <<reports, accepted>>
Fails == /\ \E d \in Nat : Dropped(Line, Line', d)
         /\ reports' = reports + 1 /\ UNCHANGED accepted
Forgets == /\ dir = "down" /\ head # <<>> /\ Dropped(Line, Line', HeaderSize)
           /\ UNCHANGED <<reports, accepted>>
Accepts == /\ \E h, b \in Seq(Units) : AcceptsAt(h, b) /\ Dropped(Line, Line', HeaderSize + Len(b))
           /\ UNCHANGED reports

ReaderEffect == UNCHANGED <<dir, failed>> /\ (Moves \/ Fails \/ Forgets \/ Accepts)

\* With the next unit in its buffer.
LEMMA NowOnLine ==
    ASSUME TypeInv, wire # <<>>
    PROVE  \E now \in Seq(Units), rest \in Seq(Units) : \E line :
              /\ now = Append(got, Head(wire)) /\ rest = Tail(wire)
              /\ Len(now) = Len(got) + 1
              /\ line = (head \o now) \o Append(rest, out)
              /\ Dropped(Line, line, 0)
              /\ \A k \in 1 .. Len(head) : Line[k] = head[k]
              /\ \A k \in 1 .. Len(now) : Line[Len(head) + k] = now[k]
<1>1. /\ head \in Seq(Units) /\ got \in Seq(Units) /\ wire \in Seq(Units)
      /\ out \in LinePlace
  BY DEF TypeInv, LinePlace
<1>2. /\ Head(wire) \in Units /\ Tail(wire) \in Seq(Units)
      /\ Append(got, Head(wire)) \in Seq(Units) /\ Len(Append(got, Head(wire))) = Len(got) + 1
  BY <1>1
<1>3. PICK now \in Seq(Units) : now = Append(got, Head(wire))
  BY <1>2
<1>4. PICK rest \in Seq(Units) : rest = Tail(wire)
  BY <1>2
<1>5. PICK line : line = (head \o now) \o Append(rest, out)
  OBVIOUS
<1>6. Dropped(Line, line, 0)
  <2>1. Units \subseteq LinePlace
    BY FramingAssumption DEF Units, LinePlace, Messages
  <2>2. head \in Seq(LinePlace) /\ got \in Seq(LinePlace) /\ wire \in Seq(LinePlace)
    BY <1>1, <2>1, SeqMonotonic
  <2>3. PICK old : old = (head \o got) \o Append(wire, out)
    OBVIOUS
  <2>4. line = (head \o Append(got, Head(wire))) \o Append(Tail(wire), out)
    BY <1>3, <1>4, <1>5
  <2>5. out \in LinePlace /\ wire # <<>>
    BY <1>1
  <2>6. Dropped(old, line, 0)
    BY ONLY <2>2, <2>3, <2>4, <2>5, ReadPlaces
  <2> QED
    BY <2>3, <2>6 DEF Line
<1>7. /\ Len(line) = Len(head) + Len(now) + Len(rest) + 1
      /\ \A k \in 1 .. Len(head) : line[k] = head[k]
      /\ \A k \in 1 .. Len(now) : line[Len(head) + k] = now[k]
  BY ONLY <1>1, <1>3, <1>4, <1>5, LinePlaces
<1>8. Len(head) \in Nat /\ Len(now) \in Nat /\ Len(rest) \in Nat
  BY <1>1
<1>9. ASSUME NEW k \in 1 .. Len(now)
      PROVE  Line[Len(head) + k] = now[k]
  <2>1. Len(head) + k \in 1 .. Len(line) /\ Len(head) + k + 0 = Len(head) + k
    BY ONLY <1>7, <1>8, <1>9
  <2>2. line[Len(head) + k] = Line[Len(head) + k + 0]
    BY <1>6, <2>1 DEF Dropped
  <2> QED
    BY <1>7, <2>1, <2>2
<1>10. \A k \in 1 .. Len(head) : Line[k] = head[k]
  BY LineTypes
<1> QED
  BY <1>2, <1>3, <1>4, <1>5, <1>6, <1>9, <1>10

LEMMA ReadEffect ==
    ASSUME TypeInv, ReaderInv, ReadUnit
    PROVE  ReaderEffect
<1>0. wire # <<>>
  BY DEF ReadUnit
<1>a. PICK now \in Seq(Units), rest \in Seq(Units) : \E line :
              /\ now = Append(got, Head(wire)) /\ rest = Tail(wire)
              /\ Len(now) = Len(got) + 1
              /\ line = (head \o now) \o Append(rest, out)
              /\ Dropped(Line, line, 0)
              /\ \A k \in 1 .. Len(head) : Line[k] = head[k]
              /\ \A k \in 1 .. Len(now) : Line[Len(head) + k] = now[k]
  BY <1>0, NowOnLine
<1>1. PICK line :
              /\ now = Append(got, Head(wire)) /\ rest = Tail(wire)
              /\ Len(now) = Len(got) + 1
              /\ line = (head \o now) \o Append(rest, out)
              /\ Dropped(Line, line, 0)
              /\ \A k \in 1 .. Len(head) : Line[k] = head[k]
              /\ \A k \in 1 .. Len(now) : Line[Len(head) + k] = now[k]
  BY <1>a
<1>2. wire' = rest /\ UNCHANGED <<dir, failed, out>>
  BY <1>1 DEF ReadUnit, writerVars
<1>3. \/ /\ got' = now
         /\ UNCHANGED <<head, need, reading, reports, accepted>>
      \/ /\ head = <<>> /\ Len(now) = HeaderSize
         /\ Report
      \/ /\ head = <<>> /\ Len(now) = HeaderSize
         /\ HeaderOK(now)
         /\ 0 \in Lengths(now) /\ Accept(now, <<>>)
      \/ /\ head = <<>> /\ Len(now) = HeaderSize
         /\ head' = now /\ got' = <<>>
         /\ UNCHANGED <<reading, reports, accepted>>
      \/ /\ head # <<>> /\ Len(now) = need
         /\ Accept(head, now)
  BY <1>1 DEF ReadUnit
<1>4. Line' = (head' \o got') \o Append(rest, out)
  BY <1>2 DEF Line
<1>5. head \in Seq(Units) /\ Len(head) \in Nat /\ Len(now) \in Nat /\ Len(Line) \in Nat
      /\ out \in LinePlace
  BY LineTypes DEF TypeInv, LinePlace
<1>6. Units \subseteq LinePlace
  BY FramingAssumption DEF Units, LinePlace, Messages
<1>7. now \in Seq(LinePlace) /\ rest \in Seq(LinePlace) /\ head \in Seq(LinePlace)
  BY <1>5, <1>6, SeqMonotonic
<1>8. ASSUME head' = <<>>, got' = <<>>
      PROVE  Dropped(Line, Line', Len(head) + Len(now))
  <2>1. PICK new : new = (<<>> \o <<>>) \o Append(rest, out)
    OBVIOUS
  <2>2. Line' = new
    BY <1>4, <1>8, <2>1
  <2>3. Dropped(line, new, Len(head) + Len(now))
    BY ONLY <1>1, <1>5, <1>7, <2>1, DropPlaces
  <2>4. Len(new) \in Nat
    <3>1. <<>> \in Seq(Units) /\ rest \in Seq(Units) /\ out \in LinePlace
      BY <1>5
    <3>2. new \in Seq(LinePlace)
      <4>1. <<>> \in Seq(LinePlace)
        OBVIOUS
      <4> QED
        BY ONLY <4>1, <1>7, <1>5, <2>1, Places
    <3> QED
      BY <3>2
  <2>5. Len(head) + Len(now) \in Nat /\ Dropped(Line, line, 0)
    BY <1>1, <1>5
  <2>6. Dropped(Line, new, Len(head) + Len(now))
    BY ONLY <1>5, <2>3, <2>4, <2>5, DroppedTwice
  <2> QED
    BY <2>2, <2>6
<1>9. CASE got' = now /\ UNCHANGED <<head, need, reading, reports, accepted>>
  <2>1. Line' = line
    BY <1>1, <1>4, <1>9
  <2> QED
    BY <1>1, <1>2, <1>9, <2>1 DEF ReaderEffect, Moves
<1>10. CASE head = <<>> /\ Len(now) = HeaderSize /\ Report
  BY <1>2, <1>5, <1>8, <1>10 DEF ReaderEffect, Fails, Report, Restart
<1>11. CASE /\ head = <<>> /\ Len(now) = HeaderSize
            /\ HeaderOK(now)
            /\ 0 \in Lengths(now) /\ Accept(now, <<>>)
  <2>1. /\ head' = <<>> /\ got' = <<>> /\ UNCHANGED reports
        /\ accepted' = Append(accepted, [head |-> now, body |-> <<>>])
    BY <1>11 DEF Accept, Restart
  <2>2. Len(head) = 0 /\ <<>> \in Seq(Units) /\ Len(<<>>) = 0
    BY <1>11
  <2>3. \A k \in 1 .. HeaderSize : Line[k] = now[k]
    <3>1. \A k \in 1 .. HeaderSize : 0 + k = k
      BY DEF HeaderSize
    <3> QED
      BY <1>1, <1>11, <2>2, <3>1
  <2>4. Dropped(Line, Line', HeaderSize + Len(<<>>))
    <3>1. Len(head) + Len(now) = HeaderSize + Len(<<>>)
      BY <1>11, <2>2 DEF HeaderSize
    <3> QED
      BY <1>8, <2>1, <3>1
  <2>5. AcceptsAt(now, <<>>)
    BY <1>11, <2>1, <2>2, <2>3 DEF AcceptsAt
  <2> QED
    BY <1>2, <2>1, <2>2, <2>4, <2>5 DEF ReaderEffect, Accepts
<1>12. CASE /\ head = <<>> /\ Len(now) = HeaderSize
            /\ head' = now /\ got' = <<>>
            /\ UNCHANGED <<reading, reports, accepted>>
  <2>1. PICK new : new = (now \o <<>>) \o Append(rest, out)
    OBVIOUS
  <2>2. Line' = new /\ line = (<<>> \o now) \o Append(rest, out)
    BY <1>1, <1>4, <1>12, <2>1
  <2>3. Dropped(line, new, 0)
    BY ONLY <1>5, <1>7, <2>1, <2>2, KeepPlaces
  <2>4. Len(new) \in Nat
    <3>1. <<>> \in Seq(LinePlace)
      OBVIOUS
    <3>2. new \in Seq(LinePlace)
      BY ONLY <3>1, <1>7, <1>5, <2>1, Places
    <3> QED
      BY <3>2
  <2>5. Dropped(Line, new, 0)
    <3>1. Dropped(Line, line, 0) /\ 0 \in Nat
      BY <1>1
    <3> QED
      BY ONLY <1>5, <2>3, <2>4, <3>1, DroppedTwice
  <2> QED
    BY <1>2, <1>12, <2>2, <2>5 DEF ReaderEffect, Moves
<1>13. CASE head # <<>> /\ Len(now) = need /\ Accept(head, now)
  <2>1. /\ head' = <<>> /\ got' = <<>> /\ UNCHANGED reports
        /\ accepted' = Append(accepted, [head |-> head, body |-> now])
    BY <1>13 DEF Accept, Restart
  <2>2. Len(head) = HeaderSize /\ HeaderOK(head) /\ need \in Lengths(head)
    BY <1>13 DEF ReaderInv
  <2>3. AcceptsAt(head, now)
    BY <1>1, <1>13, <2>1, <2>2 DEF AcceptsAt
  <2> QED
    BY <1>2, <1>5, <1>8, <2>1, <2>2, <2>3 DEF ReaderEffect, Accepts
<1> QED
  BY <1>3, <1>9, <1>10, <1>11, <1>12, <1>13

\* Starting over, and leaving things as they are.
LEMMA OverEffect ==
    ASSUME TypeInv, head' = <<>>, got' = <<>>, UNCHANGED <<wire, out>>
    PROVE  Dropped(Line, Line', Len(head) + Len(got))
<1>1. /\ head \in Seq(Units) /\ got \in Seq(Units) /\ wire \in Seq(Units)
      /\ out \in LinePlace
  BY DEF TypeInv, LinePlace
<1>2. Units \subseteq LinePlace
  BY FramingAssumption DEF Units, LinePlace, Messages
<1>3. head \in Seq(LinePlace) /\ got \in Seq(LinePlace) /\ wire \in Seq(LinePlace)
  BY <1>1, <1>2, SeqMonotonic
<1>4. Line = (head \o got) \o Append(wire, out)
  BY DEF Line
<1>5. Line' = (<<>> \o <<>>) \o Append(wire, out)
  BY DEF Line
<1> QED
  BY ONLY <1>1, <1>3, <1>4, <1>5, DropPlaces

LEMMA KeptLine ==
    ASSUME TypeInv, UNCHANGED <<head, got, wire, out>>
    PROVE  Dropped(Line, Line', 0)
<1>1. Line' = Line
  BY DEF Line
<1>2. Len(Line) \in Nat \ {0}
  BY LineElements
<1>3. PICK l : l = Line
  OBVIOUS
<1> QED
  BY <1>1, <1>2, <1>3 DEF Dropped

LEMMA OtherEffects ==
    ASSUME TypeInv, ReaderInv,
           \/ Close \/ EndOfStream \/ PollTimeout \/ RecvTimeoutInside \/ RecvTimeoutBetween
           \/ UNCHANGED vars
    PROVE  ReaderEffect
<1>1. CASE Close \/ EndOfStream \/ UNCHANGED vars
  <2>1. UNCHANGED <<head, got, wire, out, dir, failed, reports, accepted>>
    BY <1>1 DEF Close, EndOfStream, vars, readerVars, writerVars
  <2> QED
    BY <2>1, KeptLine DEF ReaderEffect, Moves
<1>2. CASE PollTimeout \/ RecvTimeoutInside
  <2>1. /\ UNCHANGED <<wire, out, dir, failed, accepted>> /\ head' = <<>> /\ got' = <<>>
        /\ reports' = reports + 1
    BY <1>2 DEF PollTimeout, RecvTimeoutInside, Report, Restart, writerVars
  <2>2. Len(head) + Len(got) \in Nat
    BY LineTypes
  <2> QED
    BY <2>1, <2>2, OverEffect DEF ReaderEffect, Fails
<1>3. CASE RecvTimeoutBetween
  <2>1. /\ UNCHANGED <<wire, out, dir, failed, accepted, reports>> /\ head' = <<>> /\ got' = <<>>
        /\ dir = "down" /\ head # <<>> /\ got = <<>>
    BY <1>3 DEF RecvTimeoutBetween, Restart, writerVars
  <2>2. Len(head) + Len(got) = HeaderSize
    BY <2>1 DEF ReaderInv, HeaderSize
  <2> QED
    BY <2>1, <2>2, OverEffect DEF ReaderEffect, Forgets
<1> QED
  BY <1>1, <1>2, <1>3

-------------------------------------------------------------------------------
(***************************************************************************)
(* Types, and what the reader holds.                                       *)
(***************************************************************************)

\* The length a header means is one.
LEMMA LengthsTypes ==
    ASSUME NEW h \in Seq(Units), Len(h) = HeaderSize
    PROVE  Lengths(h) \subseteq Nat
<1>1. h[4] \in Units
  <2>1. Len(h) = 4
    BY DEF HeaderSize
  <2>2. 4 \in 1 .. Len(h)
    BY <2>1
  <2> QED
    BY <2>2, ElementOfSeq
<1>2. h[4][1] \in 1 .. Len(Payload)
  BY <1>1 DEF Units, Messages
<1>3. Payload[h[4][1]] \in Nat
  BY <1>2, FramingAssumption
<1> QED
  BY <1>3, FramingAssumption DEF Lengths

\* Starting over.
LEMMA RestartKeeps ==
    ASSUME Restart
    PROVE  /\ head' \in Seq(Units) /\ need' \in Nat /\ got' \in Seq(Units)
           /\ head' = <<>> /\ Len(got') < HeaderSize
  BY DEF Restart, HeaderSize

LEMMA ReportKeeps ==
    ASSUME TypeInv, ReaderInv, Report, UNCHANGED <<dir, failed>>
    PROVE  /\ reading' \in BOOLEAN /\ reports' \in Nat /\ UNCHANGED accepted
           /\ (dir = "down" => failed = {})' /\ (dir = "up" /\ reports > 0 => ~reading)'
<1>1. reports' \in Nat /\ UNCHANGED accepted /\ (dir = "down" => failed = {})'
  BY DEF Report, TypeInv, ReaderInv
<1>2. reading' = (dir = "down" /\ reports' < MaxReports)
  BY DEF Report
<1>3. reading' \in BOOLEAN
  BY ONLY <1>2, Zenon
<1>4. dir' = "up" => ~reading'
  <2>1. dir' = "up" => dir # "down"
    OBVIOUS
  <2> QED
    BY ONLY <1>2, <2>1, Zenon
<1> QED
  BY <1>1, <1>3, <1>4

LEMMA ReadKeeps ==
    ASSUME TypeInv, ReaderInv, ReadUnit
    PROVE  TypeInv' /\ ReaderInv'
<1>0. wire # <<>>
  BY DEF ReadUnit
<1>1. PICK now \in Seq(Units), rest \in Seq(Units) :
              /\ now = Append(got, Head(wire)) /\ rest = Tail(wire)
              /\ Len(now) = Len(got) + 1
  BY <1>0, NowOnLine
<1>2. wire' = rest /\ UNCHANGED <<dir, failed, out, closed>> /\ reading
  BY <1>1 DEF ReadUnit, writerVars
<1>3. \/ /\ got' = now /\ Len(now) < (IF head = <<>> THEN HeaderSize ELSE need)
         /\ UNCHANGED <<head, need, reading, reports, accepted>>
      \/ Report
      \/ /\ head = <<>> /\ Len(now) = HeaderSize
         /\ 0 \in Lengths(now) /\ Accept(now, <<>>)
      \/ /\ head = <<>> /\ Len(now) = HeaderSize /\ HeaderOK(now)
         /\ head' = now /\ got' = <<>> /\ need' \in Lengths(now) /\ need' > 0
         /\ UNCHANGED <<reading, reports, accepted>>
      \/ /\ head # <<>> /\ Len(now) = need
         /\ Accept(head, now)
  BY <1>1 DEF ReadUnit
<1>4. /\ wire' \in Seq(Units) /\ dir' \in {"up", "down"} /\ closed' \in BOOLEAN
      /\ out' \in (1 .. Len(Payload) + 1) \X Positions /\ failed' \subseteq Messages
  BY <1>2 DEF TypeInv
<1>5. (dir = "down" => failed = {})'
  BY <1>2 DEF ReaderInv
<1>6. ASSUME NEW h \in Seq(Units), NEW b \in Seq(Units), Accept(h, b)
      PROVE  TypeInv' /\ ReaderInv'
  <2>1. /\ Restart /\ UNCHANGED <<reading, reports>>
        /\ accepted' = Append(accepted, [head |-> h, body |-> b])
    BY <1>6 DEF Accept
  <2>2. accepted' \in Seq([head : Seq(Units), body : Seq(Units)])
    <3>1. accepted \in Seq([head : Seq(Units), body : Seq(Units)])
      BY DEF TypeInv
    <3>2. [head |-> h, body |-> b] \in [head : Seq(Units), body : Seq(Units)]
      OBVIOUS
    <3> QED
      BY <2>1, <3>1, <3>2
  <2>3. reading' \in BOOLEAN /\ reports' \in Nat /\ (dir = "up" /\ reports > 0 => ~reading)'
    BY <1>2, <2>1 DEF TypeInv, ReaderInv
  <2> QED
    BY <1>4, <1>5, <2>1, <2>2, <2>3, RestartKeeps DEF TypeInv, ReaderInv
<1>7. CASE /\ got' = now /\ Len(now) < (IF head = <<>> THEN HeaderSize ELSE need)
           /\ UNCHANGED <<head, need, reading, reports, accepted>>
  <2>1. TypeInv'
    BY <1>4, <1>7 DEF TypeInv
  <2>2. ReaderInv'
    BY <1>2, <1>7 DEF ReaderInv, Lengths, HeaderOK
  <2> QED
    BY <2>1, <2>2
<1>8. CASE Report
  <2>1. Restart
    BY <1>8 DEF Report
  <2>2. accepted' \in Seq([head : Seq(Units), body : Seq(Units)])
    BY <1>8 DEF Report, TypeInv
  <2> QED
    BY <1>2, <1>4, <1>8, <2>1, <2>2, RestartKeeps, ReportKeeps DEF TypeInv, ReaderInv
<1>9. CASE /\ head = <<>> /\ Len(now) = HeaderSize
           /\ 0 \in Lengths(now) /\ Accept(now, <<>>)
  <2>1. <<>> \in Seq(Units)
    OBVIOUS
  <2> QED
    BY <1>6, <1>9, <2>1
<1>10. CASE /\ head = <<>> /\ Len(now) = HeaderSize /\ HeaderOK(now)
            /\ head' = now /\ got' = <<>> /\ need' \in Lengths(now) /\ need' > 0
            /\ UNCHANGED <<reading, reports, accepted>>
  <2>1. need' \in Nat /\ got' \in Seq(Units) /\ head' \in Seq(Units) /\ Len(got') = 0
    BY <1>10, LengthsTypes
  <2>2. TypeInv'
    BY <1>4, <1>10, <2>1 DEF TypeInv
  <2>3. head' # <<>> /\ Len(got') < need'
    BY <1>10, <2>1 DEF HeaderSize
  <2>4. ReaderInv'
    BY <1>2, <1>5, <1>10, <2>1, <2>3 DEF ReaderInv, Lengths, HeaderOK
  <2> QED
    BY <2>2, <2>4
<1>11. CASE head # <<>> /\ Len(now) = need /\ Accept(head, now)
  <2>1. head \in Seq(Units)
    BY DEF TypeInv
  <2> QED
    BY <1>6, <1>11, <2>1
<1> QED
  BY <1>3, <1>7, <1>8, <1>9, <1>10, <1>11

LEMMA WriterKeeps ==
    ASSUME TypeInv, ReaderInv, WriteUnit \/ SendTimeout \/ Close
    PROVE  TypeInv' /\ ReaderInv'
<1>1. UNCHANGED <<dir, head, need, got, reading, reports, accepted>>
  BY DEF WriteUnit, SendTimeout, Close, readerVars
<1>2. out \in (1 .. Len(Payload) + 1) \X Positions /\ Len(Payload) \in Nat
  BY FramingAssumption DEF TypeInv
<1>3. wire' \in Seq(Units)
  <2>1. wire \in Seq(Units)
    BY DEF TypeInv
  <2>2. CASE WriteUnit
    <3>1. out \in Units /\ wire' = Append(wire, out)
      BY <1>2, <2>2 DEF WriteUnit, Writing, Units
    <3> QED
      BY <2>1, <3>1
  <2> QED
    BY <2>1, <2>2 DEF SendTimeout, Close
<1>4. out' \in (1 .. Len(Payload) + 1) \X Positions
  <2>1. CASE WriteUnit
    <3>1. /\ out[1] \in 1 .. Len(Payload) /\ out[2] \in Nat \ {0}
          /\ out' = IF out[2] < HeaderSize + Payload[out[1]]
                    THEN <<out[1], out[2] + 1>> ELSE <<out[1] + 1, 1>>
      BY <1>2, <2>1 DEF WriteUnit, Writing, Messages, Positions
    <3>2. out[1] + 1 \in 1 .. Len(Payload) + 1 /\ out[1] \in 1 .. Len(Payload) + 1
      BY <1>2, <3>1
    <3>3. out[2] + 1 \in Positions /\ 1 \in Positions
      BY <3>1 DEF Positions
    <3> QED
      BY <3>1, <3>2, <3>3
  <2>2. CASE SendTimeout
    BY <1>2, <2>2 DEF SendTimeout, Writing, Messages, Positions
  <2> QED
    BY <1>2, <2>1, <2>2 DEF Close
<1>5. closed' \in BOOLEAN
  BY DEF WriteUnit, SendTimeout, Close, TypeInv
<1>6. failed' \subseteq Messages /\ (dir' = "down" => failed' = {})
  BY <1>1 DEF WriteUnit, SendTimeout, Close, Writing, TypeInv, ReaderInv
<1>7. TypeInv'
  BY <1>1, <1>3, <1>4, <1>5, <1>6 DEF TypeInv
<1>8. ReaderInv'
  BY <1>1, <1>6 DEF ReaderInv, Lengths, HeaderOK
<1> QED
  BY <1>7, <1>8

LEMMA EndingsKeep ==
    ASSUME TypeInv, ReaderInv, EndOfStream \/ UNCHANGED vars
    PROVE  TypeInv' /\ ReaderInv'
<1>1. /\ UNCHANGED <<dir, wire, out, failed, closed, head, need, got, reports, accepted>>
      /\ reading' \in BOOLEAN /\ (reading' => reading)
  <2>1. UNCHANGED <<dir, wire, out, failed, closed, head, need, got, reports, accepted>>
    BY DEF EndOfStream, writerVars, vars
  <2>2. reading' = FALSE \/ reading' = reading
    BY DEF EndOfStream, vars
  <2>3. reading \in BOOLEAN
    BY DEF TypeInv
  <2>4. reading' \in BOOLEAN
    <3>1. CASE reading' = FALSE
      BY ONLY <3>1, Zenon
    <3>2. CASE reading' = reading
      BY ONLY <2>3, <3>2
    <3> QED
      BY <2>2, <3>1, <3>2
  <2>5. reading' => reading
    BY <2>2
  <2> QED
    BY <2>1, <2>4, <2>5
<1>2. TypeInv'
  BY <1>1 DEF TypeInv
<1>3. ReaderInv'
  BY <1>1 DEF ReaderInv, Lengths, HeaderOK
<1> QED
  BY <1>2, <1>3

LEMMA TimeoutsKeep ==
    ASSUME TypeInv, ReaderInv, PollTimeout \/ RecvTimeoutInside \/ RecvTimeoutBetween
    PROVE  TypeInv' /\ ReaderInv'
<1>1. Restart /\ UNCHANGED <<dir, wire, out, failed, closed, accepted>>
  BY DEF PollTimeout, RecvTimeoutInside, RecvTimeoutBetween, Report, writerVars
<1>2. reading' \in BOOLEAN /\ reports' \in Nat /\ (dir = "up" /\ reports > 0 => ~reading)'
  <2>1. CASE PollTimeout \/ RecvTimeoutInside
    <3>1. Report
      BY <2>1 DEF PollTimeout, RecvTimeoutInside
    <3> QED
      BY <1>1, <3>1, ReportKeeps
  <2>2. CASE RecvTimeoutBetween
    BY <1>1, <2>2 DEF RecvTimeoutBetween, TypeInv, ReaderInv
  <2> QED
    BY <2>1, <2>2
<1>3. /\ wire' \in Seq(Units) /\ dir' \in {"up", "down"} /\ closed' \in BOOLEAN
      /\ out' \in (1 .. Len(Payload) + 1) \X Positions /\ failed' \subseteq Messages
      /\ accepted' \in Seq([head : Seq(Units), body : Seq(Units)])
      /\ (dir = "down" => failed = {})'
  BY <1>1 DEF TypeInv, ReaderInv
<1> QED
  BY <1>1, <1>2, <1>3, RestartKeeps DEF TypeInv, ReaderInv

LEMMA StepKeepsTypes ==
    ASSUME TypeInv, ReaderInv, [Next]_vars
    PROVE  TypeInv' /\ ReaderInv'
  BY WriterKeeps, ReadKeeps, EndingsKeep, TimeoutsKeep DEF Next, Terminated

-------------------------------------------------------------------------------
(***************************************************************************)
(* The line stays in order.                                                *)
(***************************************************************************)

\* A unit at or before a message lies in one.
LEMMA UnitParts ==
    ASSUME NEW u \in LinePlace
    PROVE  /\ u[1] \in Nat \ {0} /\ u[2] \in Nat \ {0} /\ u = <<u[1], u[2]>>
           /\ \A m \in Messages : u[1] <= m => u[1] \in Messages
           /\ u[1] \in Messages => Size(u[1]) \in Nat /\ Size(u[1]) >= HeaderSize
<1>1. Len(Payload) \in Nat
  BY FramingAssumption
<1>2. u[1] \in 1 .. Len(Payload) + 1 /\ u[2] \in Nat \ {0} /\ u = <<u[1], u[2]>>
  BY DEF LinePlace, Positions
<1>3. u[1] \in Nat \ {0}
  BY <1>1, <1>2
<1>4. \A m \in Messages : u[1] <= m => u[1] \in Messages
  BY <1>1, <1>2 DEF Messages
<1>5. ASSUME u[1] \in Messages
      PROVE  Size(u[1]) \in Nat /\ Size(u[1]) >= HeaderSize
  <2>1. Payload[u[1]] \in Nat
    BY <1>5, FramingAssumption DEF Messages
  <2> QED
    BY <2>1 DEF Size, HeaderSize
<1> QED
  BY <1>2, <1>3, <1>4, <1>5

LEMMA BeforeTrans ==
    ASSUME NEW u \in LinePlace, NEW v \in LinePlace, NEW w \in LinePlace,
           Before(u, v), Before(v, w)
    PROVE  Before(u, w)
<1>1. u[1] \in Nat /\ u[2] \in Nat /\ v[1] \in Nat /\ v[2] \in Nat /\ w[1] \in Nat /\ w[2] \in Nat
  BY UnitParts
<1> QED
  BY <1>1 DEF Before

\* The reader drops its front.
LEMMA LineDrops ==
    ASSUME NEW s, NEW t, NEW bad, NEW d \in Nat, Len(s) \in Nat, Len(t) \in Nat,
           DOMAIN s = 1 .. Len(s), DOMAIN t = 1 .. Len(t), Dropped(s, t, d), InLine(s, bad)
    PROVE  InLine(t, bad)
<1>1. Len(t) = Len(s) - d /\ \A k \in 1 .. Len(t) : t[k] = s[k + d]
  BY DEF Dropped
<1>2. ASSUME NEW i \in DOMAIN t, NEW j \in DOMAIN t, i < j
      PROVE  /\ Before(t[i], t[j])
             /\ t[i][1] \notin bad => Follows(t[i], j - i, t[j], bad)
  <2>1. i + d \in DOMAIN s /\ j + d \in DOMAIN s /\ i + d < j + d /\ (j + d) - (i + d) = j - i
    BY <1>1, <1>2
  <2>2. /\ Before(s[i + d], s[j + d])
        /\ s[i + d][1] \notin bad => Follows(s[i + d], (j + d) - (i + d), s[j + d], bad)
    BY <2>1 DEF InLine
  <2>3. t[i] = s[i + d] /\ t[j] = s[j + d]
    BY <1>1, <1>2
  <2> QED
    BY <2>1, <2>2, <2>3
<1> QED
  BY <1>2 DEF InLine

\* The writer writes its unit o; n is the next one.
LEMMA NextUnit ==
    ASSUME NEW o \in LinePlace, o[1] \in Messages, NEW n, NEW bad,
           n = IF o[2] < Size(o[1]) THEN <<o[1], o[2] + 1>> ELSE <<o[1] + 1, 1>>
    PROVE  Before(o, n) /\ Follows(o, 1, n, bad)
<1>1. /\ o[1] \in Nat \ {0} /\ o[2] \in Nat \ {0} /\ o = <<o[1], o[2]>>
      /\ Size(o[1]) \in Nat
  BY UnitParts
<1>2. Before(o, n)
  BY <1>1 DEF Before
<1>3. ASSUME o[2] + 1 <= Size(o[1])
      PROVE  n = <<o[1], o[2] + 1>>
  BY <1>1, <1>3
<1>4. ASSUME o[2] + 1 = Size(o[1]) + 1
      PROVE  n[2] = 1 /\ \A m \in Messages : o[1] < m /\ m < n[1] => m \in bad
  <2>1. n = <<o[1] + 1, 1>>
    BY <1>1, <1>4
  <2> QED
    BY <1>1, <2>1 DEF Messages
<1> QED
  BY <1>2, <1>3, <1>4 DEF Follows

LEMMA FollowsNext ==
    ASSUME NEW u \in LinePlace, NEW o \in LinePlace, u[1] \in Messages, o[1] \in Messages,
           NEW n, NEW bad, NEW k \in Nat, Follows(u, k, o, bad),
           n = IF o[2] < Size(o[1]) THEN <<o[1], o[2] + 1>> ELSE <<o[1] + 1, 1>>
    PROVE  Follows(u, k + 1, n, bad)
<1>1. u[1] \in Nat /\ u[2] \in Nat /\ Size(u[1]) \in Nat
  BY UnitParts
<1>2. ASSUME u[2] + (k + 1) <= Size(u[1])
      PROVE  n = <<u[1], u[2] + (k + 1)>>
  <2>1. o = <<u[1], u[2] + k>>
    <3>1. u[2] + k <= Size(u[1])
      BY ONLY <1>1, <1>2, k \in Nat
    <3> QED
      BY <3>1 DEF Follows
  <2>2. o[2] < Size(o[1]) /\ u[2] + k + 1 = u[2] + (k + 1)
    BY <1>1, <1>2, <2>1
  <2> QED
    BY <2>1, <2>2
<1>3. ASSUME u[2] + (k + 1) = Size(u[1]) + 1
      PROVE  n[2] = 1 /\ \A m \in Messages : u[1] < m /\ m < n[1] => m \in bad
  <2>1. u[2] + k = Size(u[1])
    BY ONLY <1>1, <1>3, k \in Nat
  <2>2. o = <<u[1], u[2] + k>>
    <3>1. u[2] + k <= Size(u[1])
      BY <1>1, <2>1
    <3> QED
      BY <3>1 DEF Follows
  <2>3. n = <<u[1] + 1, 1>>
    BY <1>1, <2>1, <2>2
  <2> QED
    BY <1>1, <2>3 DEF Messages
<1> QED
  BY <1>2, <1>3 DEF Follows

LEMMA LineGrows ==
    ASSUME NEW s \in Seq(LinePlace), NEW t \in Seq(LinePlace), NEW bad, NEW o \in LinePlace,
           NEW n \in LinePlace,
           InLine(s, bad), Len(s) > 0, Len(t) = Len(s) + 1, \A k \in DOMAIN s : t[k] = s[k],
           t[Len(s) + 1] = n, s[Len(s)] = o, o[1] \in Messages,
           n = IF o[2] < Size(o[1]) THEN <<o[1], o[2] + 1>> ELSE <<o[1] + 1, 1>>
    PROVE  InLine(t, bad)
<1>0. Len(s) \in Nat \ {0} /\ DOMAIN s = 1 .. Len(s) /\ DOMAIN t = 1 .. Len(s) + 1
  OBVIOUS
<1>1. ASSUME NEW i \in DOMAIN t, NEW j \in DOMAIN t, i < j
      PROVE  /\ Before(t[i], t[j])
             /\ t[i][1] \notin bad => Follows(t[i], j - i, t[j], bad)
  <2>1. CASE j <= Len(s)
    <3>1. i \in DOMAIN s /\ j \in DOMAIN s
      BY <1>0, <1>1, <2>1
    <3> QED
      BY <1>1, <3>1 DEF InLine
  <2>2. CASE j = Len(s) + 1 /\ i = Len(s)
    <3>1. j - i = 1 /\ t[i] = o /\ t[j] = n
      BY <1>0, <2>2
    <3> QED
      BY <3>1, NextUnit
  <2>3. CASE j = Len(s) + 1 /\ i < Len(s)
    <3>1. i \in DOMAIN s /\ Len(s) \in DOMAIN s /\ i \in Nat
      BY <1>0, <1>1, <2>3
    <3>2. PICK k \in Nat : k = Len(s) - i /\ j - i = k + 1
      <4>1. Len(s) - i \in Nat /\ j - i = (Len(s) - i) + 1
        BY <1>0, <2>3, <3>1
      <4> QED
        BY <4>1
    <3>3. PICK u \in LinePlace : u = s[i]
      BY <3>1, ElementOfSeq, <1>0
    <3>4. Before(u, o) /\ (u[1] \notin bad => Follows(u, k, o, bad))
      BY <2>3, <3>1, <3>2, <3>3 DEF InLine
    <3>5. u[1] \in Messages
      <4>1. u[1] <= o[1]
        <5>1. u[1] \in Nat /\ o[1] \in Nat
          BY UnitParts
        <5> QED
          BY <3>4, <5>1 DEF Before
      <4> QED
        BY <4>1, UnitParts
    <3>6. t[i] = u /\ t[j] = n
      BY <2>3, <3>1, <3>3
    <3>7. Before(u, n)
      <4>1. Before(o, n)
        BY NextUnit
      <4> QED
        BY <3>4, <4>1, BeforeTrans
    <3>8. u[1] \notin bad => Follows(u, k + 1, n, bad)
      BY <3>4, <3>5, FollowsNext
    <3> QED
      BY <3>2, <3>6, <3>7, <3>8
  <2> QED
    BY <1>0, <1>1, <2>1, <2>2, <2>3
<1> QED
  BY <1>1 DEF InLine

\* The writer's send fails.
LEMMA LineSkips ==
    ASSUME NEW s \in Seq(LinePlace), NEW t \in Seq(LinePlace), NEW bad, NEW o \in LinePlace,
           InLine(s, bad), Len(s) > 0, Len(t) = Len(s), \A k \in 1 .. Len(s) - 1 : t[k] = s[k],
           t[Len(s)] = <<o[1] + 1, 1>>, s[Len(s)] = o, o[1] \in Messages
    PROVE  InLine(t, bad \cup {o[1]})
<1>0. Len(s) \in Nat \ {0} /\ DOMAIN s = 1 .. Len(s) /\ DOMAIN t = 1 .. Len(s)
  OBVIOUS
<1>1. ASSUME NEW i \in DOMAIN t, NEW j \in DOMAIN t, i < j
      PROVE  /\ Before(t[i], t[j])
             /\ t[i][1] \notin bad \cup {o[1]} => Follows(t[i], j - i, t[j], bad \cup {o[1]})
  <2>0. /\ i \in DOMAIN s /\ j \in DOMAIN s /\ i \in 1 .. Len(s) - 1
    BY <1>0, <1>1
  <2>1. PICK u \in LinePlace : u = s[i] /\ t[i] = u
    BY <2>0, ElementOfSeq, <1>0
  <2>2. Before(u, s[j]) /\ (u[1] \notin bad => Follows(u, j - i, s[j], bad))
    BY <1>1, <2>0, <2>1 DEF InLine
  <2>3. CASE j < Len(s)
    <3>1. t[j] = s[j]
      BY <1>0, <2>0, <2>3
    <3> QED
      BY <2>1, <2>2, <3>1 DEF Follows
  <2>4. CASE j = Len(s)
    <3>1. s[j] = o /\ t[j] = <<o[1] + 1, 1>>
      BY <2>4
    <3>2. u[1] \in Nat /\ o[1] \in Nat /\ u[1] <= o[1]
      <4>1. u[1] \in Nat /\ o[1] \in Nat
        BY UnitParts
      <4> QED
        BY <2>2, <3>1, <4>1 DEF Before
    <3>3. Before(u, t[j])
      BY <3>1, <3>2 DEF Before
    <3>4. ASSUME u[1] \notin bad \cup {o[1]}
          PROVE  Follows(u, j - i, t[j], bad \cup {o[1]})
      <4>1. Follows(u, j - i, o, bad) /\ u[1] # o[1]
        BY <2>2, <3>1, <3>4
      <4>2. ~(u[2] + (j - i) <= Size(u[1]))
        BY <4>1 DEF Follows
      <4>3. ASSUME u[2] + (j - i) = Size(u[1]) + 1
            PROVE  \A m \in Messages : u[1] < m /\ m < o[1] + 1 => m \in bad \cup {o[1]}
        <5>1. \A m \in Messages : u[1] < m /\ m < o[1] => m \in bad
          BY <4>1, <4>3 DEF Follows
        <5>2. \A m \in Messages : m < o[1] + 1 => m < o[1] \/ m = o[1]
          BY <3>2 DEF Messages
        <5> QED
          BY <5>1, <5>2
      <4> QED
        BY <3>1, <4>2, <4>3 DEF Follows
    <3> QED
      BY <2>1, <3>3, <3>4
  <2> QED
    BY <1>0, <1>1, <2>3, <2>4
<1> QED
  BY <1>1 DEF InLine

LEMMA StepKeepsLine ==
    ASSUME TypeInv, ReaderInv, LineInv, TypeInv', WriteUnit \/ SendTimeout \/ ReaderEffect
    PROVE  LineInv'
<1>1. PICK s \in Seq(LinePlace) : s = Line
  BY LineTypes
<1>2. PICK t \in Seq(LinePlace) : t = Line'
  BY NextLine
<1>3. InLine(s, failed) /\ DOMAIN s = 1 .. Len(s) /\ Len(s) \in Nat /\ Len(s) > 0
  BY <1>1, LineElements DEF LineInv
<1>4. DOMAIN t = 1 .. Len(t) /\ Len(t) \in Nat
  OBVIOUS
<1>5. CASE WriteUnit
  <2>1. /\ Len(t) = Len(s) + 1 /\ \A k \in DOMAIN s : t[k] = s[k]
        /\ t[Len(s) + 1] = out' /\ s[Len(s)] = out
        /\ out[1] \in Messages
        /\ out' = IF out[2] < Size(out[1]) THEN <<out[1], out[2] + 1>> ELSE <<out[1] + 1, 1>>
        /\ failed' = failed
    BY <1>1, <1>2, <1>5, WriteEffect
  <2>2. out \in LinePlace /\ out' \in LinePlace
    BY DEF TypeInv, LinePlace
  <2>3. InLine(t, failed)
    <3>1. s \in Seq(LinePlace) /\ t \in Seq(LinePlace)
      OBVIOUS
    <3> QED
      BY ONLY <1>3, <2>1, <2>2, <3>1, LineGrows
  <2> QED
    BY <1>2, <2>1, <2>3 DEF LineInv
<1>6. CASE SendTimeout
  <2>1. /\ Len(t) = Len(s) /\ \A k \in 1 .. Len(s) - 1 : t[k] = s[k]
        /\ t[Len(s)] = <<out[1] + 1, 1>> /\ s[Len(s)] = out
        /\ out[1] \in Messages /\ failed' = failed \cup {out[1]}
    BY <1>1, <1>2, <1>6, SkipEffect
  <2>2. out \in LinePlace
    BY DEF TypeInv, LinePlace
  <2>3. InLine(t, failed \cup {out[1]})
    BY <1>3, <2>1, <2>2, LineSkips
  <2> QED
    BY <1>2, <2>1, <2>3 DEF LineInv
<1>7. CASE ReaderEffect
  <2>1. PICK d \in Nat : Dropped(s, t, d)
    <3>1. \E d \in Nat : Dropped(Line, Line', d)
      <4>1. CASE Moves
        BY <4>1 DEF Moves
      <4>2. CASE Fails
        BY <4>2 DEF Fails
      <4>3. CASE Forgets
        BY <4>3 DEF Forgets, HeaderSize
      <4>4. CASE Accepts
        <5>1. PICK b \in Seq(Units) : Dropped(Line, Line', HeaderSize + Len(b))
          BY <4>4 DEF Accepts
        <5>2. HeaderSize + Len(b) \in Nat
          BY DEF HeaderSize
        <5> QED
          BY <5>1, <5>2
      <4> QED
        BY <1>7, <4>1, <4>2, <4>3, <4>4 DEF ReaderEffect
    <3> QED
      BY <1>1, <1>2, <3>1
  <2>2. failed' = failed
    BY <1>7 DEF ReaderEffect
  <2>3. InLine(t, failed)
    BY <1>3, <1>4, <2>1, LineDrops
  <2> QED
    BY <1>2, <2>2, <2>3 DEF LineInv
<1> QED
  BY <1>5, <1>6, <1>7

-------------------------------------------------------------------------------
(***************************************************************************)
(* What is accepted.                                                       *)
(***************************************************************************)

\* A line that begins with the first unit of a message whose send has not
\* failed goes on with all of them.
LEMMA WholeOnLine ==
    ASSUME NEW line, NEW bad, InLine(line, bad), NEW n \in Messages, n \notin bad,
           Len(line) \in Nat, DOMAIN line = 1 .. Len(line), line[1] = <<n, 1>>
    PROVE  /\ \A k \in DOMAIN line : k <= Size(n) => line[k] = <<n, k>>
           /\ Size(n) + 1 \in DOMAIN line =>
                 /\ line[Size(n) + 1][2] = 1
                 /\ \A m \in Messages : n < m /\ m < line[Size(n) + 1][1] => m \in bad
<1>1. Size(n) \in Nat /\ Size(n) >= HeaderSize
  BY FramingAssumption DEF Messages, Size, HeaderSize
<1>2. ASSUME NEW k \in DOMAIN line, k > 1
      PROVE  Follows(<<n, 1>>, k - 1, line[k], bad)
  <2>1. 1 \in DOMAIN line /\ k \in Nat
    BY <1>2
  <2> QED
    BY <1>2, <2>1 DEF InLine
<1>3. ASSUME NEW k \in DOMAIN line, k <= Size(n)
      PROVE  line[k] = <<n, k>>
  <2>1. CASE k = 1
    BY <2>1
  <2>2. CASE k > 1
    <3>1. k \in Nat /\ 1 + (k - 1) = k
      BY <1>3
    <3>2. <<n, 1>>[2] + (k - 1) <= Size(<<n, 1>>[1])
      BY <1>3, <3>1
    <3>3. line[k] = <<n, 1 + (k - 1)>>
      BY <1>2, <2>2, <3>2 DEF Follows
    <3> QED
      BY <3>1, <3>3
  <2> QED
    BY <2>1, <2>2
<1>4. ASSUME Size(n) + 1 \in DOMAIN line
      PROVE  /\ line[Size(n) + 1][2] = 1
             /\ \A m \in Messages : n < m /\ m < line[Size(n) + 1][1] => m \in bad
  <2>1. PICK k \in DOMAIN line : k = Size(n) + 1
    BY <1>4
  <2>2. k > 1 /\ 1 + (k - 1) = Size(n) + 1
    BY <1>1, <2>1 DEF HeaderSize
  <2>3. Follows(<<n, 1>>, k - 1, line[k], bad)
    BY <1>2, <2>2
  <2>4. <<n, 1>>[2] + (k - 1) = Size(<<n, 1>>[1]) + 1
    BY <2>2
  <2> QED
    BY <2>1, <2>3, <2>4 DEF Follows
<1> QED
  BY <1>3, <1>4

\* A header at its front is that message's.
LEMMA HeaderOnLine ==
    ASSUME NEW line, NEW bad, InLine(line, bad), Len(line) \in Nat, DOMAIN line = 1 .. Len(line),
           NEW h \in Seq(Units), Len(h) = HeaderSize, HeaderOK(h), Len(line) > HeaderSize,
           \A k \in 1 .. HeaderSize : line[k] = h[k]
    PROVE  /\ h[1][1] \in Messages /\ line[1] = <<h[1][1], 1>>
           /\ h[1][1] \notin bad =>
                 /\ \A k \in 1 .. HeaderSize : h[k] = <<h[1][1], k>>
                 /\ Lengths(h) = {Payload[h[1][1]]}
<1>1. DOMAIN h = 1 .. 4 /\ \A k \in 1 .. 4 : h[k] \in Units
  <2>1. Len(h) = 4
    BY DEF HeaderSize
  <2>2. DOMAIN h = 1 .. Len(h)
    OBVIOUS
  <2>3. \A k \in 1 .. Len(h) : h[k] \in Units
    BY ElementOfSeq
  <2> QED
    BY <2>1, <2>2, <2>3
<1>2. \A u \in Units : u[1] \in Messages /\ u = <<u[1], u[2]>>
  BY DEF Units
<1>3. h[1] \in Units /\ line[1] = h[1]
  BY <1>1 DEF HeaderSize
<1>4. h[1][1] \in Messages /\ line[1] = <<h[1][1], 1>>
  BY <1>2, <1>3 DEF HeaderOK
<1>5. ASSUME h[1][1] \notin bad
      PROVE  /\ \A k \in 1 .. HeaderSize : h[k] = <<h[1][1], k>>
             /\ Lengths(h) = {Payload[h[1][1]]}
  <2>1. PICK n \in Messages : n = h[1][1]
    BY <1>4
  <2>2. \A k \in DOMAIN line : k <= Size(n) => line[k] = <<n, k>>
    BY <1>4, <1>5, <2>1, WholeOnLine
  <2>3. Size(n) \in Nat /\ Size(n) >= HeaderSize
    BY FramingAssumption DEF Messages, Size, HeaderSize
  <2>4. ASSUME NEW k \in 1 .. HeaderSize
        PROVE  h[k] = <<n, k>>
    <3>1. k \in DOMAIN line /\ k <= Size(n)
      BY <2>3 DEF HeaderSize
    <3> QED
      BY <2>2, <3>1
  <2>5. h[4] = <<n, 4>>
    BY <2>4 DEF HeaderSize
  <2>6. Lengths(h) = {Payload[n]}
    BY <2>5 DEF Lengths
  <2> QED
    BY <2>1, <2>4, <2>6
<1> QED
  BY <1>4, <1>5

\* So what is accepted with it is the whole message.
LEMMA AcceptedEntry ==
    ASSUME NEW line, NEW bad, InLine(line, bad), Len(line) \in Nat, DOMAIN line = 1 .. Len(line),
           NEW h \in Seq(Units), Len(h) = HeaderSize, HeaderOK(h),
           NEW b \in Seq(Units), Len(b) \in Lengths(h), Len(line) > HeaderSize + Len(b),
           \A k \in 1 .. HeaderSize : line[k] = h[k],
           \A k \in 1 .. Len(b) : line[HeaderSize + k] = b[k],
           h[1][1] \notin bad
    PROVE  Len(b) = Payload[h[1][1]] /\ [head |-> h, body |-> b] = Whole(h[1][1])
<1>0. Len(b) \in Nat /\ Len(line) > HeaderSize
  BY DEF HeaderSize
<1>1. PICK n \in Messages : n = h[1][1] /\ line[1] = <<n, 1>>
  BY <1>0, HeaderOnLine
<1>2. (\A k \in 1 .. HeaderSize : h[k] = <<n, k>>) /\ Lengths(h) = {Payload[n]}
  BY <1>0, <1>1, HeaderOnLine
<1>3. Len(b) = Payload[n]
  BY <1>2
<1>4. ASSUME NEW k \in 1 .. Len(b)
      PROVE  b[k] = <<n, HeaderSize + k>>
  <2>1. HeaderSize + k \in DOMAIN line /\ HeaderSize + k <= Size(n)
    BY <1>0, <1>3 DEF HeaderSize, Size
  <2> QED
    BY <1>1, <2>1, WholeOnLine
<1>5. h = [p \in 1 .. HeaderSize |-> <<n, p>>]
  <2>1. h = [p \in 1 .. Len(h) |-> h[p]]
    OBVIOUS
  <2> QED
    BY <1>2, <2>1
<1>6. b = [p \in 1 .. Payload[n] |-> <<n, HeaderSize + p>>]
  <2>1. b = [p \in 1 .. Len(b) |-> b[p]]
    OBVIOUS
  <2> QED
    BY <1>3, <1>4, <2>1
<1> QED
  BY <1>1, <1>3, <1>5, <1>6 DEF Whole

\* What Accepts says of the line, with names for the parts.
LEMMA AcceptsParts ==
    ASSUME TypeInv, LineInv, TypeInv', Accepts
    PROVE  \E h, b \in Seq(Units) :
              /\ AcceptsAt(h, b) /\ Dropped(Line, Line', HeaderSize + Len(b))
              /\ Len(b) \in Nat /\ Len(Line) > HeaderSize + Len(b)
              /\ h[1][1] \in Messages /\ Line[1] = <<h[1][1], 1>>
              /\ h[1][1] \notin failed =>
                    Len(b) = Payload[h[1][1]] /\ [head |-> h, body |-> b] = Whole(h[1][1])
<1>1. PICK h \in Seq(Units), b \in Seq(Units) :
         AcceptsAt(h, b) /\ Dropped(Line, Line', HeaderSize + Len(b))
  BY DEF Accepts
<1>2. PICK line : line = Line
  OBVIOUS
<1>3. /\ Len(line) \in Nat /\ DOMAIN line = 1 .. Len(line)
      /\ InLine(line, failed)
  BY <1>2, LineElements DEF LineInv
<1>4. Len(b) \in Nat
  OBVIOUS
<1>5. Len(line) > HeaderSize + Len(b) /\ Len(line) > HeaderSize
  <2>1. Len(Line') \in Nat /\ Len(Line') > 0
    BY NextLine
  <2>2. Len(Line') = Len(line) - (HeaderSize + Len(b))
    BY <1>1, <1>2 DEF Dropped
  <2> QED
    BY <1>3, <1>4, <2>1, <2>2 DEF HeaderSize
<1>6. /\ HeaderOK(h) /\ Len(h) = HeaderSize /\ Len(b) \in Lengths(h)
      /\ \A k \in 1 .. HeaderSize : line[k] = h[k]
      /\ \A k \in 1 .. Len(b) : line[HeaderSize + k] = b[k]
  BY <1>1, <1>2 DEF AcceptsAt
<1>7. h[1][1] \in Messages /\ line[1] = <<h[1][1], 1>>
  BY <1>3, <1>5, <1>6, HeaderOnLine
<1>8. h[1][1] \notin failed =>
         Len(b) = Payload[h[1][1]] /\ [head |-> h, body |-> b] = Whole(h[1][1])
  <2>1. InLine(line, failed) /\ Len(line) \in Nat /\ DOMAIN line = 1 .. Len(line)
        /\ h \in Seq(Units) /\ b \in Seq(Units)
    BY <1>3
  <2> QED
    BY ONLY <1>5, <1>6, <2>1, AcceptedEntry
<1> QED
  BY <1>1, <1>2, <1>4, <1>5, <1>7, <1>8

\* A unit of the new line is one of the old, or written later than one.
Later == \A k \in DOMAIN Line' : \E j \in DOMAIN Line :
            Line'[k] = Line[j] \/ Before(Line[j], Line'[k])

LEMMA LaterKeepsAccepted ==
    ASSUME TypeInv, TypeInv', AcceptedInv, Later, UNCHANGED accepted, failed \subseteq failed'
    PROVE  AcceptedInv'
<1>1. ASSUME NEW i \in DOMAIN accepted
      PROVE  /\ Begun(accepted[i]) \in Messages
             /\ accepted[i] = Whole(Begun(accepted[i])) \/ Begun(accepted[i]) \in failed'
             /\ \A j \in 1 .. i - 1 : Begun(accepted[j]) < Begun(accepted[i])
  BY DEF AcceptedInv
<1>2. ASSUME NEW i \in DOMAIN accepted, NEW k \in DOMAIN Line'
      PROVE  Before(<<Begun(accepted[i]), 1>>, Line'[k])
  <2>1. PICK n \in Messages : n = Begun(accepted[i])
    BY <1>1
  <2>2. PICK j \in DOMAIN Line : Line'[k] = Line[j] \/ Before(Line[j], Line'[k])
    BY DEF Later
  <2>3. Before(<<n, 1>>, Line[j])
    BY <2>1 DEF AcceptedInv
  <2>4. <<n, 1>> \in LinePlace
    BY FramingAssumption DEF Messages, LinePlace, Positions
  <2>5. Line[j] \in LinePlace
    BY LineElements
  <2>6. Line'[k] \in LinePlace
    BY NextLine
  <2> QED
    BY <2>1, <2>2, <2>3, <2>4, <2>5, <2>6, BeforeTrans
<1>3. DOMAIN accepted' = DOMAIN accepted
  OBVIOUS
<1> QED
  BY <1>1, <1>2, <1>3 DEF AcceptedInv

LEMMA WriteIsLater ==
    ASSUME TypeInv, TypeInv', WriteUnit \/ SendTimeout
    PROVE  Later
<1>1. /\ Len(Line) \in Nat \ {0} /\ DOMAIN Line = 1 .. Len(Line)
      /\ DOMAIN Line' = 1 .. Len(Line')
  BY LineElements, NextLine
<1>2. out \in LinePlace
  BY DEF TypeInv, LinePlace
<1>3. CASE WriteUnit
  <2>1. /\ Len(Line') = Len(Line) + 1
        /\ \A k \in DOMAIN Line : Line'[k] = Line[k]
        /\ Line'[Len(Line) + 1] = out' /\ Line[Len(Line)] = out
        /\ out[1] \in Messages
        /\ out' = IF out[2] < Size(out[1]) THEN <<out[1], out[2] + 1>> ELSE <<out[1] + 1, 1>>
    BY <1>3, WriteEffect
  <2>2. Before(out, out')
    BY <1>2, <2>1, NextUnit
  <2>3. ASSUME NEW k \in DOMAIN Line'
        PROVE  \E j \in DOMAIN Line : Line'[k] = Line[j] \/ Before(Line[j], Line'[k])
    <3>1. CASE k \in DOMAIN Line
      BY <2>1, <3>1
    <3>2. CASE k = Len(Line) + 1
      <4>1. Len(Line) \in DOMAIN Line
        BY <1>1
      <4> QED
        BY <2>1, <2>2, <3>2, <4>1
    <3> QED
      BY <1>1, <2>1, <3>1, <3>2
  <2> QED
    BY <2>3 DEF Later
<1>4. CASE SendTimeout
  <2>1. /\ Len(Line') = Len(Line)
        /\ \A k \in 1 .. Len(Line) - 1 : Line'[k] = Line[k]
        /\ Line'[Len(Line)] = <<out[1] + 1, 1>> /\ Line[Len(Line)] = out
    BY <1>4, SkipEffect
  <2>2. Before(out, <<out[1] + 1, 1>>)
    <3>1. out[1] \in Nat
      BY <1>2, UnitParts
    <3> QED
      BY <3>1 DEF Before
  <2>3. ASSUME NEW k \in DOMAIN Line'
        PROVE  \E j \in DOMAIN Line : Line'[k] = Line[j] \/ Before(Line[j], Line'[k])
    <3>0. k \in DOMAIN Line
      BY <1>1, <2>1
    <3>1. CASE k \in 1 .. Len(Line) - 1
      BY <2>1, <3>0, <3>1
    <3>2. CASE k = Len(Line)
      BY <2>1, <2>2, <3>0, <3>2
    <3> QED
      BY <1>1, <3>0, <3>1, <3>2
  <2> QED
    BY <2>3 DEF Later
<1> QED
  BY <1>3, <1>4

LEMMA DropIsLater ==
    ASSUME TypeInv, TypeInv', NEW d \in Nat, Dropped(Line, Line', d)
    PROVE  Later
<1>1. /\ Len(Line) \in Nat \ {0} /\ DOMAIN Line = 1 .. Len(Line)
      /\ DOMAIN Line' = 1 .. Len(Line') /\ Len(Line') \in Nat
  BY LineElements, NextLine
<1>2. Len(Line') = Len(Line) - d /\ \A k \in 1 .. Len(Line') : Line'[k] = Line[k + d]
  BY DEF Dropped
<1>3. ASSUME NEW k \in DOMAIN Line'
      PROVE  k + d \in DOMAIN Line /\ Line'[k] = Line[k + d]
  BY <1>1, <1>2
<1> QED
  BY <1>3 DEF Later

LEMMA AcceptsKeepsAccepted ==
    ASSUME TypeInv, LineInv, AcceptedInv, TypeInv', Accepts, UNCHANGED failed
    PROVE  AcceptedInv'
<1>1. PICK h \in Seq(Units), b \in Seq(Units) :
              /\ AcceptsAt(h, b) /\ Dropped(Line, Line', HeaderSize + Len(b))
              /\ Len(b) \in Nat /\ Len(Line) > HeaderSize + Len(b)
              /\ h[1][1] \in Messages /\ Line[1] = <<h[1][1], 1>>
              /\ h[1][1] \notin failed =>
                    Len(b) = Payload[h[1][1]] /\ [head |-> h, body |-> b] = Whole(h[1][1])
  BY AcceptsParts
<1>2. PICK n \in Messages : n = h[1][1]
  BY <1>1
<1>3. PICK rec : rec = [head |-> h, body |-> b]
  OBVIOUS
<1>4. /\ rec = Whole(n) \/ n \in failed
      /\ Line[1] = <<n, 1>>
  BY <1>1, <1>2, <1>3 DEF Begun
<1>5. Begun(rec) = n
  BY <1>2, <1>3 DEF Begun
<1>6. accepted' = Append(accepted, rec)
  BY <1>1, <1>3 DEF AcceptsAt
<1>7. /\ accepted \in Seq([head : Seq(Units), body : Seq(Units)])
      /\ rec \in [head : Seq(Units), body : Seq(Units)]
  BY <1>3 DEF TypeInv
<1>8. /\ DOMAIN accepted = 1 .. Len(accepted) /\ Len(accepted) \in Nat
      /\ DOMAIN accepted' = 1 .. Len(accepted) + 1
      /\ \A i \in DOMAIN accepted : accepted'[i] = accepted[i]
      /\ accepted'[Len(accepted) + 1] = rec
  BY <1>6, <1>7
<1>9. /\ 1 \in DOMAIN Line /\ DOMAIN Line = 1 .. Len(Line) /\ Len(Line) \in Nat
      /\ DOMAIN Line' = 1 .. Len(Line') /\ Len(Line') \in Nat
  BY LineElements, NextLine
<1>10. PICK d \in Nat : d = HeaderSize + Len(b) /\ d > 0
  <2>1. HeaderSize + Len(b) \in Nat /\ HeaderSize + Len(b) > 0
    BY <1>1 DEF HeaderSize
  <2> QED
    BY <2>1
<1>11. ASSUME NEW k \in DOMAIN Line'
       PROVE  k + d \in DOMAIN Line /\ k + d > 1 /\ Line'[k] = Line[k + d]
  <2>1. Dropped(Line, Line', d)
    BY <1>1, <1>10
  <2>2. Len(Line') = Len(Line) - d /\ Line'[k] = Line[k + d]
    BY <1>9, <2>1 DEF Dropped
  <2> QED
    BY <1>9, <1>10, <2>2
<1>12. \A i \in DOMAIN accepted :
          /\ Begun(accepted[i]) \in Messages
          /\ accepted[i] = Whole(Begun(accepted[i])) \/ Begun(accepted[i]) \in failed
          /\ \A j \in 1 .. i - 1 : Begun(accepted[j]) < Begun(accepted[i])
          /\ \A k \in DOMAIN Line : Before(<<Begun(accepted[i]), 1>>, Line[k])
  BY DEF AcceptedInv
<1>13. ASSUME NEW i \in DOMAIN accepted'
       PROVE  /\ Begun(accepted'[i]) \in Messages
              /\ accepted'[i] = Whole(Begun(accepted'[i])) \/ Begun(accepted'[i]) \in failed'
              /\ \A j \in 1 .. i - 1 : Begun(accepted'[j]) < Begun(accepted'[i])
              /\ \A k \in DOMAIN Line' : Before(<<Begun(accepted'[i]), 1>>, Line'[k])
  <2>1. CASE i \in DOMAIN accepted
    <3>1. \A j \in 1 .. i - 1 : j \in DOMAIN accepted
      BY <1>8, <2>1
    <3>2. accepted'[i] = accepted[i] /\ \A j \in 1 .. i - 1 : accepted'[j] = accepted[j]
      BY <1>8, <2>1, <3>1
    <3>3. /\ Begun(accepted[i]) \in Messages
          /\ accepted[i] = Whole(Begun(accepted[i])) \/ Begun(accepted[i]) \in failed
          /\ \A j \in 1 .. i - 1 : Begun(accepted[j]) < Begun(accepted[i])
          /\ \A k \in DOMAIN Line : Before(<<Begun(accepted[i]), 1>>, Line[k])
      BY <1>12, <2>1
    <3>4. \A k \in DOMAIN Line' : Before(<<Begun(accepted[i]), 1>>, Line'[k])
      BY <1>11, <3>3
    <3> QED
      BY <3>2, <3>3, <3>4
  <2>2. CASE i = Len(accepted) + 1
    <3>1. accepted'[i] = rec
      BY <1>8, <2>2
    <3>2. ASSUME NEW j \in 1 .. i - 1
          PROVE  Begun(accepted'[j]) < n
      <4>1. j \in DOMAIN accepted
        BY <1>8, <2>2
      <4>2. PICK m \in Messages : m = Begun(accepted[j])
        BY <1>12, <4>1
      <4>3. Before(<<m, 1>>, <<n, 1>>)
        BY <1>4, <1>9, <1>12, <4>1, <4>2
      <4>4. m < n
        BY <4>3 DEF Before, Messages
      <4> QED
        BY <1>8, <4>1, <4>2, <4>4
    <3>3. ASSUME NEW k \in DOMAIN Line'
          PROVE  Before(<<n, 1>>, Line'[k])
      <4>1. k + d \in DOMAIN Line /\ 1 < k + d /\ Line'[k] = Line[k + d]
        <5>1. k + d \in Nat
          BY <1>9
        <5> QED
          BY <1>11, <5>1
      <4> QED
        BY <1>4, <1>9, <4>1 DEF LineInv, InLine
    <3> QED
      BY <1>4, <1>5, <3>1, <3>2, <3>3
  <2>3. i \in DOMAIN accepted \/ i = Len(accepted) + 1
    <3>1. i \in 1 .. Len(accepted) + 1
      BY <1>8
    <3>2. i \in 1 .. Len(accepted) \/ i = Len(accepted) + 1
      BY ONLY <1>8, <3>1
    <3> QED
      BY <1>8, <3>2
  <2> QED
    BY <2>1, <2>2, <2>3
<1> QED
  BY <1>13 DEF AcceptedInv

LEMMA StepKeepsAccepted ==
    ASSUME TypeInv, LineInv, AcceptedInv, TypeInv', WriteUnit \/ SendTimeout \/ ReaderEffect
    PROVE  AcceptedInv'
<1>1. CASE WriteUnit \/ SendTimeout
  <2>1. UNCHANGED accepted /\ failed \subseteq failed'
    BY <1>1, WriteEffect, SkipEffect
  <2> QED
    BY <1>1, <2>1, WriteIsLater, LaterKeepsAccepted
<1>2. CASE ReaderEffect /\ (Moves \/ Fails \/ Forgets)
  <2>1. UNCHANGED accepted /\ failed \subseteq failed'
    BY <1>2 DEF ReaderEffect, Moves, Fails, Forgets
  <2>2. PICK d \in Nat : Dropped(Line, Line', d)
    BY <1>2 DEF Moves, Fails, Forgets, HeaderSize
  <2> QED
    BY <2>1, <2>2, DropIsLater, LaterKeepsAccepted
<1>3. CASE ReaderEffect /\ Accepts
  BY <1>3, AcceptsKeepsAccepted DEF ReaderEffect
<1> QED
  BY <1>1, <1>2, <1>3 DEF ReaderEffect

-------------------------------------------------------------------------------
(***************************************************************************)
(* Nothing is lost without an error.                                       *)
(***************************************************************************)

\* A header the reader holds of a message whose send has not failed.
LEMMA HeldHeader ==
    ASSUME TypeInv, ReaderInv, LineInv, head # <<>>
    PROVE  /\ Line[1][1] \in Messages /\ Line[1] = <<Line[1][1], 1>>
           /\ Line[1][1] \notin failed => need = Payload[Line[1][1]] /\ Len(got) < need
<1>1. PICK line : line = Line
  OBVIOUS
<1>2. /\ Len(head) = HeaderSize /\ HeaderOK(head) /\ need \in Lengths(head) /\ Len(got) < need
      /\ head \in Seq(Units)
  BY DEF ReaderInv, TypeInv
<1>3. /\ InLine(line, failed) /\ Len(line) \in Nat /\ DOMAIN line = 1 .. Len(line)
      /\ Len(line) > HeaderSize
      /\ \A k \in 1 .. HeaderSize : line[k] = head[k]
  BY <1>1, <1>2, LineTypes DEF LineInv, HeaderSize
<1>4. /\ head[1][1] \in Messages /\ line[1] = <<head[1][1], 1>>
      /\ head[1][1] \notin failed => Lengths(head) = {Payload[head[1][1]]}
  BY <1>2, <1>3, HeaderOnLine
<1> QED
  BY <1>1, <1>2, <1>4

\* A step that leaves the first unit and the counts alone.
LEMMA SameFirst ==
    ASSUME TypeInv, SyncInv, UNCHANGED <<dir, reports, accepted>>, failed \subseteq failed',
           Line'[1] = Line[1]
    PROVE  SyncInv'
<1>1. \A m : Sound(m)' => Sound(m)
  BY DEF Sound
<1> QED
  BY <1>1 DEF SyncInv

LEMMA WritesKeepSync ==
    ASSUME TypeInv, TypeInv', SyncInv, WriteUnit \/ SendTimeout
    PROVE  SyncInv'
<1>1. Len(Line) \in Nat \ {0} /\ DOMAIN Line = 1 .. Len(Line) /\ 1 \in DOMAIN Line
  BY LineElements
<1>2. CASE WriteUnit
  <2>1. Line'[1] = Line[1] /\ UNCHANGED <<dir, reports, accepted>> /\ failed' = failed
    BY <1>1, <1>2, WriteEffect
  <2> QED
    BY <2>1, SameFirst
<1>3. CASE SendTimeout
  <2>1. /\ \A k \in 1 .. Len(Line) - 1 : Line'[k] = Line[k]
        /\ Line'[Len(Line)] = <<out[1] + 1, 1>> /\ Line[Len(Line)] = out
        /\ out[1] \in Messages /\ failed' = failed \cup {out[1]}
        /\ UNCHANGED <<dir, reports, accepted>>
    BY <1>3, SkipEffect
  <2>2. CASE Len(Line) > 1
    <3>1. Line'[1] = Line[1]
      BY <1>1, <2>1, <2>2
    <3> QED
      BY <2>1, <3>1, SameFirst
  <2>3. CASE Len(Line) = 1
    <3>1. Line[1] = out /\ Line'[1] = <<out[1] + 1, 1>>
      BY <2>1, <2>3
    <3>2. ASSUME reports' = 0, NEW m \in Messages, Sound(m)', m < Line'[1][1]
          PROVE  \E j \in DOMAIN accepted' : Begun(accepted'[j]) = m
      <4>1. Sound(m) /\ out[1] > m
        BY <2>1, <3>2 DEF Sound
      <4> QED
        BY <2>1, <3>1, <3>2, <4>1 DEF SyncInv
    <3> QED
      BY <3>1, <3>2 DEF SyncInv
  <2> QED
    BY <1>1, <2>2, <2>3
<1> QED
  BY <1>2, <1>3

\* A header forgotten is that of a message not yet passed.
LEMMA ForgetsKeepsSync ==
    ASSUME TypeInv, ReaderInv, LineInv, TypeInv', SyncInv, Forgets, UNCHANGED <<dir, failed>>
    PROVE  SyncInv'
<1>1. dir = "down" /\ failed = {} /\ head # <<>> /\ UNCHANGED <<reports, accepted>>
  BY DEF Forgets, ReaderInv
<1>2. PICK line : line = Line
  OBVIOUS
<1>3. PICK n \in Messages : n = line[1][1] /\ line[1] = <<n, 1>>
  BY <1>1, <1>2, HeldHeader
<1>4. Payload[n] > 0
  <2>1. need = Payload[n] /\ Len(got) < need
    BY <1>1, <1>2, <1>3, HeldHeader
  <2>2. Len(got) \in Nat /\ need \in Nat
    BY LineTypes DEF TypeInv
  <2> QED
    BY <2>1, <2>2
<1>5. Line'[1] = line[HeaderSize + 1] /\ HeaderSize + 1 \in DOMAIN line
  <2>1. Len(Line') \in Nat /\ Len(Line') > 0
    BY NextLine
  <2>2. Dropped(line, Line', HeaderSize)
    BY <1>2 DEF Forgets
  <2>3. Len(line) \in Nat /\ DOMAIN line = 1 .. Len(line)
    BY <1>2, LineElements
  <2>4. Len(Line') = Len(line) - HeaderSize /\ Line'[1] = line[1 + HeaderSize]
    BY <2>1, <2>2 DEF Dropped
  <2> QED
    BY <2>1, <2>3, <2>4 DEF HeaderSize
<1>6. line[HeaderSize + 1] = <<n, HeaderSize + 1>>
  <2>1. HeaderSize + 1 <= Size(n)
    <3>1. Payload[n] \in Nat
      BY FramingAssumption DEF Messages
    <3> QED
      BY <1>4, <3>1 DEF Size, HeaderSize
  <2>2. InLine(line, {}) /\ Len(line) \in Nat /\ DOMAIN line = 1 .. Len(line)
    BY <1>1, <1>2, LineElements DEF LineInv
  <2>3. \A k \in DOMAIN line : k <= Size(n) => line[k] = <<n, k>>
    <3>1. n \notin {}
      OBVIOUS
    <3> QED
      BY <1>3, <2>2, <3>1, WholeOnLine
  <2> QED
    BY <1>5, <2>1, <2>3
<1>7. Line'[1][1] = Line[1][1]
  BY <1>2, <1>3, <1>5, <1>6
<1>8. \A m : Sound(m)' => Sound(m)
  BY <1>1 DEF Sound
<1> QED
  BY <1>1, <1>7, <1>8 DEF SyncInv

LEMMA AcceptsKeepsSync ==
    ASSUME TypeInv, LineInv, TypeInv', LineInv', SyncInv, Accepts, UNCHANGED <<dir, failed>>
    PROVE  SyncInv'
<1>1. PICK h \in Seq(Units), b \in Seq(Units) :
              /\ AcceptsAt(h, b) /\ Dropped(Line, Line', HeaderSize + Len(b))
              /\ Len(b) \in Nat /\ Len(Line) > HeaderSize + Len(b)
              /\ h[1][1] \in Messages /\ Line[1] = <<h[1][1], 1>>
              /\ h[1][1] \notin failed =>
                    Len(b) = Payload[h[1][1]] /\ [head |-> h, body |-> b] = Whole(h[1][1])
  BY AcceptsParts
<1>2. PICK line : line = Line
  OBVIOUS
<1>3. PICK n \in Messages : n = h[1][1] /\ line[1] = <<n, 1>> /\ n \in Nat
  BY <1>1, <1>2 DEF Messages
<1>4. UNCHANGED reports
  BY DEF Accepts
<1>5. /\ \A i \in DOMAIN accepted : i \in DOMAIN accepted' /\ accepted'[i] = accepted[i]
      /\ \E i \in DOMAIN accepted' : Begun(accepted'[i]) = n
  <2>1. PICK rec : rec = [head |-> h, body |-> b]
    OBVIOUS
  <2>2. accepted' = Append(accepted, rec) /\ Begun(rec) = n
    BY <1>1, <1>3, <2>1 DEF AcceptsAt, Begun
  <2>3. /\ accepted \in Seq([head : Seq(Units), body : Seq(Units)])
        /\ rec \in [head : Seq(Units), body : Seq(Units)]
    BY <2>1 DEF TypeInv
  <2>4. /\ \A i \in DOMAIN accepted : i \in DOMAIN accepted' /\ accepted'[i] = accepted[i]
        /\ Len(accepted) + 1 \in DOMAIN accepted' /\ accepted'[Len(accepted) + 1] = rec
    BY <2>2, <2>3
  <2> QED
    BY <2>2, <2>4
<1>6. PICK d \in Nat : d = HeaderSize + Len(b) /\ d > 0
  <2>1. HeaderSize + Len(b) \in Nat /\ HeaderSize + Len(b) > 0
    BY <1>1 DEF HeaderSize
  <2> QED
    BY <2>1
<1>7. Len(line) \in Nat /\ DOMAIN line = 1 .. Len(line) /\ InLine(line, failed)
  BY <1>2, LineElements DEF LineInv
<1>8. d + 1 \in DOMAIN line /\ d + 1 > 1 /\ Line'[1] = line[d + 1] /\ line[d + 1] \in LinePlace
  <2>1. Len(Line') \in Nat /\ Len(Line') > 0 /\ DOMAIN Line' = 1 .. Len(Line')
    BY NextLine
  <2>2. Dropped(line, Line', d)
    BY <1>1, <1>2, <1>6
  <2>3. Len(Line') = Len(line) - d /\ Line'[1] = line[1 + d]
    BY <2>1, <2>2 DEF Dropped
  <2>4. d + 1 \in DOMAIN line /\ d + 1 > 1 /\ 1 + d = d + 1
    BY <1>6, <1>7, <2>1, <2>3
  <2>5. Line'[1] \in LinePlace
    BY <2>1, NextLine
  <2> QED
    BY <2>3, <2>4, <2>5
<1>9. PICK next \in LinePlace : next = Line'[1] /\ next[1] \in Nat
  BY <1>8, UnitParts
<1>10. \A m : Sound(m)' <=> Sound(m)
  BY DEF Sound
<1>11. CASE n \in failed
  <2>1. n <= next[1]
    <3>1. 1 \in DOMAIN line /\ 1 < d + 1
      BY <1>6, <1>7, <1>8
    <3>2. Before(line[1], line[d + 1])
      BY <1>7, <1>8, <3>1 DEF InLine
    <3> QED
      BY <1>3, <1>8, <1>9, <3>2 DEF Before
  <2>2. ~Sound(next[1])
    BY <1>3, <1>9, <1>11, <2>1 DEF Sound
  <2>3. ASSUME reports = 0, NEW m \in Messages, Sound(m)
        PROVE  \E j \in DOMAIN accepted' : Begun(accepted'[j]) = m
    <3>1. m < n /\ m < Line[1][1]
      BY <1>2, <1>3, <1>11, <2>3 DEF Sound
    <3>2. \E j \in DOMAIN accepted : Begun(accepted[j]) = m
      BY <2>3, <3>1 DEF SyncInv
    <3> QED
      BY <1>5, <3>2
  <2> QED
    BY <1>4, <1>9, <1>10, <2>2, <2>3 DEF SyncInv
<1>12. CASE n \notin failed
  <2>1. d = Size(n)
    BY <1>1, <1>3, <1>6, <1>12 DEF Size
  <2>2. /\ next[2] = 1
        /\ \A m \in Messages : n < m /\ m < next[1] => m \in failed
    BY <1>3, <1>7, <1>8, <1>9, <1>12, <2>1, WholeOnLine
  <2>3. ASSUME reports = 0, NEW m \in Messages, Sound(m), m < next[1]
        PROVE  \E j \in DOMAIN accepted' : Begun(accepted'[j]) = m
    <3>0. m \in Nat /\ m \notin failed
      BY <2>3 DEF Messages, Sound
    <3>1. CASE m < n
      <4>1. m < Line[1][1]
        BY <1>2, <1>3, <3>1
      <4>2. \E j \in DOMAIN accepted : Begun(accepted[j]) = m
        BY <2>3, <4>1 DEF SyncInv
      <4> QED
        BY <1>5, <4>2
    <3>2. CASE m = n
      BY <1>5, <3>2
    <3>3. ~(m > n)
      BY <2>2, <2>3, <3>0
    <3> QED
      BY <1>3, <3>0, <3>1, <3>2, <3>3
  <2> QED
    BY <1>4, <1>9, <1>10, <2>2, <2>3 DEF SyncInv
<1> QED
  BY <1>11, <1>12

LEMMA StepKeepsSync ==
    ASSUME TypeInv, ReaderInv, LineInv, SyncInv, TypeInv', LineInv',
           WriteUnit \/ SendTimeout \/ ReaderEffect
    PROVE  SyncInv'
<1>1. CASE ReaderEffect /\ Moves
  <2>1. Line'[1] = Line[1]
    <3>1. Len(Line') \in Nat /\ Len(Line') > 0
      BY NextLine
    <3>2. Dropped(Line, Line', 0)
      BY <1>1 DEF Moves
    <3> QED
      BY <3>1, <3>2 DEF Dropped
  <2> QED
    BY <1>1, <2>1, SameFirst DEF ReaderEffect, Moves
<1>2. CASE Fails
  <2>1. reports' # 0
    BY <1>2 DEF Fails, TypeInv
  <2> QED
    BY <2>1 DEF SyncInv
<1>3. CASE ReaderEffect /\ Forgets
  BY <1>3, ForgetsKeepsSync DEF ReaderEffect
<1>4. CASE ReaderEffect /\ Accepts
  BY <1>4, AcceptsKeepsSync DEF ReaderEffect
<1> QED
  BY <1>1, <1>2, <1>3, <1>4, WritesKeepSync DEF ReaderEffect

-------------------------------------------------------------------------------
(***************************************************************************)
(* The theorems.                                                           *)
(***************************************************************************)
LEMMA InitFraming ==
    ASSUME Init
    PROVE  FramingInv
<1>1. TypeInv
  <2>1. <<1, 1>> \in (1 .. Len(Payload) + 1) \X Positions
    BY FramingAssumption DEF Positions
  <2>2. <<>> \in Seq(Units) /\ <<>> \in Seq([head : Seq(Units), body : Seq(Units)])
    OBVIOUS
  <2> QED
    BY <2>1, <2>2 DEF Init, TypeInv
<1>2. ReaderInv
  <2>1. Len(<<>>) = 0
    OBVIOUS
  <2> QED
    BY <2>1 DEF Init, ReaderInv, HeaderSize
<1>3. PICK line : line = Line
  OBVIOUS
<1>4. Len(line) = 1 /\ DOMAIN line = {1} /\ line[1] = <<1, 1>>
  <2>1. Len(head) = 0 /\ Len(got) = 0 /\ Len(wire) = 0 /\ out = <<1, 1>>
    BY DEF Init
  <2>2. Len(line) = 1 /\ DOMAIN line = 1 .. Len(line) /\ line[Len(line)] = out
    BY <1>1, <1>3, <2>1, LineTypes
  <2> QED
    BY <2>1, <2>2
<1>5. LineInv
  BY <1>3, <1>4 DEF LineInv, InLine
<1>6. AcceptedInv
  BY DEF Init, AcceptedInv
<1>7. SyncInv
  BY <1>3, <1>4 DEF SyncInv, Messages
<1> QED
  BY <1>1, <1>2, <1>5, <1>6, <1>7 DEF FramingInv

LEMMA StepFraming ==
    ASSUME FramingInv, [Next]_vars
    PROVE  FramingInv'
<1>1. TypeInv /\ ReaderInv /\ LineInv /\ AcceptedInv /\ SyncInv
  BY DEF FramingInv
<1>2. TypeInv' /\ ReaderInv'
  BY <1>1, StepKeepsTypes
<1>3. WriteUnit \/ SendTimeout \/ ReaderEffect
  BY <1>1, ReadEffect, OtherEffects DEF Next, Terminated
<1>4. LineInv'
  BY <1>1, <1>2, <1>3, StepKeepsLine
<1>5. AcceptedInv'
  BY <1>1, <1>2, <1>3, StepKeepsAccepted
<1>6. SyncInv'
  BY <1>1, <1>2, <1>3, <1>4, StepKeepsSync
<1> QED
  BY <1>2, <1>4, <1>5, <1>6 DEF FramingInv

\* The line of units is in order, what is accepted comes from it, and reader and
\* writer agree on where a message begins until an error is reported: whatever
\* write_full, the two receive timeouts and the poll cut off.
THEOREM FramingInvariant == Spec => []FramingInv
<1>1. Init => FramingInv
  BY InitFraming
<1>2. FramingInv /\ [Next]_vars => FramingInv'
  BY StepFraming
<1> QED
  BY <1>1, <1>2, PTL DEF Spec

\* What vtremote_read_header and VTRMessageHeader.decode let through, and the
\* payload read after it, is a message that was sent, whole and in order, except
\* one whose own send failed half-way.
THEOREM AcceptedMessagesWereSent == Spec => []AcceptedAreSent
<1>1. FramingInv => AcceptedAreSent
  BY DEF FramingInv, AcceptedInv, AcceptedAreSent
<1> QED
  BY <1>1, FramingInvariant, PTL

\* No message is lost between two accepted ones without an error at one end,
\* although FFmpeg's EAGAIN between header and payload drops a header in silence.
THEOREM LossesAreReported == Spec => []LossIsReported
<1>1. ASSUME FramingInv, NEW i \in DOMAIN accepted, NEW m \in 1 .. Begun(accepted[i]) - 1,
             reports = 0, \A f \in failed : ~(f <= m)
      PROVE  \E j \in DOMAIN accepted : Begun(accepted[j]) = m
  <2>0. TypeInv /\ AcceptedInv /\ SyncInv
    BY <1>1 DEF FramingInv
  <2>1. PICK n \in Messages : n = Begun(accepted[i]) /\ n \in Nat
    <3>1. Begun(accepted[i]) \in Messages
      BY <2>0 DEF AcceptedInv
    <3>2. Begun(accepted[i]) \in Nat
      BY <3>1 DEF Messages
    <3> QED
      BY <3>1, <3>2
  <2>2. m \in Messages /\ m < n /\ m \in Nat
    BY <2>1, FramingAssumption DEF Messages
  <2>3. Sound(m)
    BY <1>1, <2>0, <2>2 DEF Sound, TypeInv, Messages
  <2>4. n <= Line[1][1] /\ Line[1][1] \in Nat
    <3>1. Before(<<n, 1>>, Line[1]) /\ Line[1] \in LinePlace
      BY <2>0, <2>1, LineElements DEF AcceptedInv
    <3>2. Line[1][1] \in Nat
      BY <3>1, UnitParts
    <3> QED
      BY <2>1, <3>1, <3>2 DEF Before
  <2>5. m < Line[1][1]
    BY <2>1, <2>2, <2>4
  <2> QED
    BY <1>1, <2>0, <2>2, <2>3, <2>5 DEF SyncInv
<1>2. FramingInv => LossIsReported
  <2>1. ASSUME FramingInv
        PROVE  reports = 0 \/ reports > 0
    BY <2>1 DEF FramingInv, TypeInv
  <2> QED
    BY <1>1, <2>1 DEF LossIsReported
<1> QED
  BY <1>2, FramingInvariant, PTL

\* vtremoted's read without limit waits for bytes the client still owes it, so
\* the two never wait for each other, unless a send has failed before.
THEOREM WaitsAreOwed == Spec => []WaitsForOwedBytes
<1>1. ASSUME FramingInv, dir = "up", Starved, failed = {}
      PROVE  out[2] = 1 <=> head = <<>> /\ got = <<>>
  <2>0. TypeInv /\ ReaderInv /\ LineInv /\ SyncInv
    BY <1>1 DEF FramingInv
  <2>1. wire = <<>> /\ reports = 0
    BY <1>1, <2>0 DEF Starved, ReaderInv, TypeInv
  <2>2. PICK line : line = Line
    OBVIOUS
  <2>3. line[1][2] = 1
    BY <1>1, <2>0, <2>1, <2>2 DEF SyncInv, Sound
  <2>4. /\ Len(head) \in Nat /\ Len(got) \in Nat /\ Len(line) \in Nat
        /\ DOMAIN line = 1 .. Len(line)
        /\ Len(line) = Len(head) + Len(got) + 1 /\ line[Len(line)] = out
        /\ line[1] \in LinePlace
    <3>1. line[1] \in LinePlace
      BY <2>0, <2>2, LineElements
    <3>2. /\ Len(head) \in Nat /\ Len(got) \in Nat
          /\ DOMAIN line = 1 .. Len(line)
          /\ Len(line) = Len(head) + Len(got) + Len(wire) + 1 /\ line[Len(line)] = out
      BY <2>0, <2>2, LineTypes
    <3>3. Len(wire) = 0
      BY <2>1
    <3>4. Len(line) = Len(head) + Len(got) + 1 /\ Len(line) \in Nat
      BY <3>2, <3>3
    <3> QED
      BY <3>1, <3>2, <3>4
  <2>5. ASSUME head = <<>>, got = <<>>
        PROVE  out[2] = 1
    BY <2>3, <2>4, <2>5
  <2>6. ASSUME ~(head = <<>> /\ got = <<>>)
        PROVE  out[2] # 1
    <3>1. Len(line) > 1
      <4>1. Len(head) > 0 \/ Len(got) > 0
        BY <2>0, <2>6 DEF TypeInv
      <4> QED
        BY <2>4, <4>1
    <3>2. PICK n \in Messages : line[1] = <<n, 1>>
      <4>1. line[1] \in Units
        <5>1. CASE head # <<>>
          <6>1. line[1][1] \in Messages /\ line[1] = <<line[1][1], 1>>
            BY <2>0, <2>2, <5>1, HeldHeader
          <6>2. \A m \in Messages : <<m, 1>> \in Units
            BY DEF Units, Positions
          <6> QED
            BY <6>1, <6>2
        <5>2. CASE head = <<>>
          <6>1. Len(head) = 0 /\ Len(got) > 0
            BY <2>4, <3>1, <5>2
          <6>2. 1 \in 1 .. Len(got) /\ Len(head) + 1 = 1
            BY <2>4, <6>1
          <6>3. line[1] = got[1]
            BY <2>0, <2>2, <6>2, LineTypes
          <6> QED
            BY <2>0, <6>2, <6>3, ElementOfSeq DEF TypeInv
        <5> QED
          BY <5>1, <5>2
      <4>2. \A u \in Units : u[1] \in Messages /\ u = <<u[1], u[2]>>
        BY DEF Units
      <4> QED
        BY <2>3, <4>1, <4>2
    <3>3. Size(n) \in Nat /\ Len(line) <= Size(n)
      <4>0. Payload[n] \in Nat
        BY FramingAssumption DEF Messages
      <4>1. CASE head = <<>>
        <5>1. Len(head) = 0 /\ Len(got) < HeaderSize
          BY <2>0, <4>1 DEF ReaderInv
        <5> QED
          BY <2>4, <4>0, <5>1 DEF Size, HeaderSize
      <4>2. CASE head # <<>>
        <5>1. Len(head) = HeaderSize
          BY <2>0, <4>2 DEF ReaderInv
        <5>2. need = Payload[n] /\ Len(got) < need
          BY <1>1, <2>0, <2>2, <3>2, <4>2, HeldHeader
        <5> QED
          BY <2>4, <4>0, <5>1, <5>2 DEF Size, HeaderSize
      <4> QED
        BY <4>1, <4>2
    <3>4. line[Len(line)] = <<n, Len(line)>>
      <4>1. InLine(line, failed) /\ n \notin failed /\ Len(line) \in DOMAIN line
        BY <1>1, <2>0, <2>2, <2>4, <3>1 DEF LineInv
      <4> QED
        BY <2>4, <3>2, <3>3, <4>1, WholeOnLine
    <3> QED
      BY <2>4, <3>1, <3>4
  <2> QED
    BY <2>5, <2>6
<1>2. FramingInv => WaitsForOwedBytes
  BY <1>1 DEF WaitsForOwedBytes
<1> QED
  BY <1>2, FramingInvariant, PTL
===============================================================================
