------------------------------ MODULE DaemonProofs ------------------------------
(***************************************************************************)
(* Theorems about Daemon: type correctness, and that no client is mistaken *)
(* about its connection, for any number of clients and handlers.           *)
(***************************************************************************)
EXTENDS Daemon, TLAPS

-------------------------------------------------------------------------------
(***************************************************************************)
(* The inductive invariant.  It says, for each phase of the server, how    *)
(* far the client can be, what can be on its way between them, and what    *)
(* the server can know of the client's leaving.                            *)
(***************************************************************************)

\* Each block GCD has yet to start belongs to a connection of its own.
QueueInv ==
    /\ \A i \in DOMAIN queue : srv[queue[i]] = "queued"
    /\ \A i, j \in DOMAIN queue : queue[i] = queue[j] => i = j

\* Until the handler has read HELLO, the server has written nothing.
AtHello(c) ==
    /\ srv[c] = "none" => cli[c] \in {"start", "closed"} /\ up[c] = <<>>
    /\ srv[c] \in {"backlog", "queued", "hello"} =>
          cli[c] \in {"hello", "closed"} /\ up[c] = <<"HELLO">>
    /\ srv[c] \in {"none", "backlog", "queued", "hello"} =>
          down[c] = <<>> /\ peer[c] \in {"open", "fin"} /\ media[c] = 0

\* Between the two answers, one message at most is on its way; and when it is
\* CONFIGURE, nothing the server wrote can have met a closed client.
AtConfig(c) ==
    srv[c] = "config" =>
        /\ known[c]
        /\ media[c] = 0
        /\ \/ cli[c] = "hello" /\ up[c] = <<>> /\ down[c] = <<"ACK">>
           \/ cli[c] = "config" /\ up[c] = <<"CONFIGURE">> /\ down[c] = <<>>
           \/ cli[c] = "closed" /\ up[c] = <<>> /\ down[c] = <<>>
           \/ /\ cli[c] = "closed" /\ up[c] = <<"CONFIGURE">> /\ down[c] = <<>>
              /\ peer[c] = "fin"

\* In the loop, or with a codec session that is not empty: a client that has left
\* without sending anything more has left the server nothing to write; one that has
\* sent no media has left it at most DONE to write, and that is its first write to a
\* closed client.
AtWork(c) ==
    srv[c] \in {"loop", "completing"} \/ pending[c] > 0 =>
        /\ known[c]
        /\ \/ /\ cli[c] = "config" /\ up[c] = <<>> /\ down[c] = <<"CONFIGURE_ACK">>
              /\ srv[c] = "loop" /\ pending[c] = 0 /\ media[c] = 0
           \/ /\ cli[c] \in {"streaming", "flushing"}
              /\ \A i \in DOMAIN down[c] : down[c][i] = "MEDIA"
              /\ media[c] = 0 => pending[c] = 0 /\ down[c] = <<>>
           \/ /\ cli[c] = "closed" /\ up[c] = <<>> /\ srv[c] = "loop" /\ pending[c] = 0
           \/ /\ cli[c] = "closed" /\ res[c] = "aborted"
              /\ media[c] = 0 => pending[c] = 0 /\ peer[c] = "fin"

\* Outside the loop the codec session is empty, unless it threw; and what was written
\* is still the answer to the client's last message.
AfterWork(c) ==
    /\ srv[c] \notin {"loop", "completing", "unwinding"} => pending[c] = 0
    /\ srv[c] \in {"unwinding", "closed"} /\ cli[c] = "hello" =>
          \/ known[c] /\ down[c] \in {<<>>, <<"ACK">>}
          \/ ~known[c] /\ down[c] = <<"NACK">> /\ up[c] = <<>>
          \/ c \in lost /\ down[c] = <<>>
    /\ cli[c] = "config" /\ srv[c] \in {"unwinding", "closed"} =>
          \A i \in DOMAIN down[c] : down[c][i] \in {"CONFIGURE_ACK", "ERROR"}

\* The client's side.
AtClient(c) ==
    /\ cli[c] = "closed" <=> peer[c] # "open"
    /\ cli[c] = "start" => srv[c] = "none"
    /\ cli[c] \in {"config", "streaming", "flushing"} => known[c]
    /\ cli[c] \in {"streaming", "flushing"} =>
          srv[c] \in {"loop", "completing", "unwinding", "closed"}
    /\ \A i \in DOMAIN up[c] : up[c][i] = "MEDIA" => media[c] > 0
    /\ c \in killers => cli[c] = "closed" /\ res[c] = "aborted" /\ media[c] > 0
    /\ cli[c] = "closed" /\ ~known[c] =>
          res[c] \in {"EACCES", "timeout", "refused"} \/ c \in lost

LinkInv(c) == AtHello(c) /\ AtConfig(c) /\ AtWork(c) /\ AfterWork(c) /\ AtClient(c)

Inv == TypeOK /\ QueueInv /\ \A c \in Clients : LinkInv(c)

-------------------------------------------------------------------------------
(***************************************************************************)
(* Most steps touch one connection.                                        *)
(***************************************************************************)
ToServer == {"HELLO", "CONFIGURE", "MEDIA", "FLUSH"}
ToClient == {"ACK", "NACK", "CONFIGURE_ACK", "ERROR", "MEDIA", "DONE"}

\* Nothing of d's connection changes.
Same(d) ==
    /\ srv'[d] = srv[d] /\ pending'[d] = pending[d]
    /\ peer'[d] = peer[d] /\ up'[d] = up[d] /\ down'[d] = down[d]
    /\ cli'[d] = cli[d] /\ known'[d] = known[d] /\ media'[d] = media[d] /\ res'[d] = res[d]

\* A step that is about c alone.
Local(c) ==
    /\ TypeOK'
    /\ QueueInv'
    /\ UNCHANGED history
    /\ \A d \in Clients \ {c} : Same(d)

\* A connection that is left alone keeps its invariant.
LEMMA SameLink ==
    ASSUME NEW d \in Clients, LinkInv(d), Same(d), lost \subseteq lost',
           d \in killers' => d \in killers
    PROVE  LinkInv(d)'
<1> USE DEF Same, LinkInv
<1>1. AtHello(d)' /\ AtConfig(d)'
  BY DEF AtHello, AtConfig
<1>2. AtWork(d)'
  BY DEF AtWork
<1>3. AfterWork(d)'
  BY DEF AfterWork
<1>4. AtClient(d)'
  BY DEF AtClient
<1> QED
  BY <1>1, <1>2, <1>3, <1>4

LEMMA LocalStep ==
    ASSUME Inv, NEW c \in Clients, Local(c), LinkInv(c)'
    PROVE  Inv'
<1>1. ASSUME NEW d \in Clients, d # c
      PROVE  LinkInv(d)'
  BY <1>1, SameLink DEF Inv, Local, history
<1> QED
  BY <1>1 DEF Inv, Local

\* The queue is not disturbed by a connection that is not in it.
LEMMA QueueKept ==
    ASSUME TypeOK, QueueInv, NEW c \in Clients, srv[c] # "queued", queue' = queue,
           \A d \in Clients \ {c} : srv'[d] = srv[d]
    PROVE  QueueInv'
<1>1. \A i \in DOMAIN queue : queue[i] \in Clients /\ queue[i] # c
  BY DEF TypeOK, QueueInv
<1> QED
  BY <1>1 DEF QueueInv

\* Sequences with one element.
LEMMA One ==
    ASSUME NEW x
    PROVE  /\ <<x>> # <<>> /\ Head(<<x>>) = x /\ Tail(<<x>>) = <<>>
           /\ Append(<<>>, x) = <<x>> /\ DOMAIN <<x>> = {1} /\ <<x>>[1] = x
OBVIOUS

LEMMA HeadAndTail ==
    ASSUME NEW S, NEW s \in Seq(S), s # <<>>
    PROVE  /\ Head(s) \in S /\ Head(s) = s[1] /\ 1 \in DOMAIN s
           /\ Tail(s) \in Seq(S)
           /\ \A i \in DOMAIN Tail(s) : i + 1 \in DOMAIN s /\ Tail(s)[i] = s[i + 1]
OBVIOUS

LEMMA Appended ==
    ASSUME NEW S, NEW s \in Seq(S), NEW m \in S
    PROVE  /\ Append(s, m) \in Seq(S)
           /\ \A i \in DOMAIN Append(s, m) :
                 (i \in DOMAIN s /\ Append(s, m)[i] = s[i]) \/ Append(s, m)[i] = m
OBVIOUS

\* What a send leaves.
LEMMA WrittenTo ==
    ASSUME TypeOK, NEW c \in Clients, NEW m \in ToClient, Written(c, m)
    PROVE  /\ peer[c] # "reset"
           /\ peer' \in [Clients -> {"open", "fin", "refused", "reset"}]
           /\ peer'[c] = IF peer[c] = "fin" THEN "refused" ELSE peer[c]
           /\ down' \in [Clients -> Seq(ToClient)]
           /\ down'[c] = IF peer[c] = "open" THEN Append(down[c], m) ELSE down[c]
           /\ \A d \in Clients \ {c} : peer'[d] = peer[d] /\ down'[d] = down[d]
<1>1. Append(down[c], m) \in Seq(ToClient) /\ down \in [Clients -> Seq(ToClient)]
  BY Appended DEF TypeOK, ToClient
<1>2. peer \in [Clients -> {"open", "fin", "refused", "reset"}]
  BY DEF TypeOK
<1>3. peer' = [peer EXCEPT ![c] = IF peer[c] = "fin" THEN "refused" ELSE peer[c]]
  BY DEF Written
<1>4. down' = IF peer[c] = "open" THEN [down EXCEPT ![c] = Append(down[c], m)] ELSE down
  BY DEF Written
<1>5. /\ peer' \in [Clients -> {"open", "fin", "refused", "reset"}]
      /\ peer'[c] = IF peer[c] = "fin" THEN "refused" ELSE peer[c]
      /\ \A d \in Clients \ {c} : peer'[d] = peer[d]
  BY <1>2, <1>3
<1>6. /\ down' \in [Clients -> Seq(ToClient)]
      /\ down'[c] = IF peer[c] = "open" THEN Append(down[c], m) ELSE down[c]
      /\ \A d \in Clients \ {c} : down'[d] = down[d]
  BY <1>1, <1>4
<1> QED
  BY <1>5, <1>6 DEF Written

\* What reading a message leaves.
LEMMA TakenFrom ==
    ASSUME TypeOK, NEW c \in Clients, up[c] # <<>>, Taken(c)
    PROVE  /\ up' \in [Clients -> Seq(ToServer)]
           /\ up'[c] = Tail(up[c])
           /\ \A d \in Clients \ {c} : up'[d] = up[d]
<1>1. up \in [Clients -> Seq(ToServer)]
  BY DEF TypeOK, ToServer
<1>2. Tail(up[c]) \in Seq(ToServer)
  BY <1>1, HeadAndTail
<1> QED
  BY <1>1, <1>2 DEF Taken

-------------------------------------------------------------------------------
(***************************************************************************)
(* The server's steps that are about one connection.                       *)
(***************************************************************************)
LEMMA GotoType ==
    ASSUME TypeOK, NEW c \in Clients, NEW phase \in Phases, Goto(c, phase)
    PROVE  /\ srv' \in [Clients -> Phases]
           /\ srv'[c] = phase
           /\ \A d \in Clients \ {c} : srv'[d] = srv[d]
BY DEF TypeOK, Goto

LEMMA AcceptInv ==
    ASSUME Inv, NEW c \in Clients, Accept(c)
    PROVE  Inv'
<1> USE DEF Inv
<1>1. PICK phase \in {"hello", "queued"} :
         /\ Goto(c, phase)
         /\ phase = "hello" => queue' = queue
         /\ phase = "queued" => queue' = Append(queue, c)
  BY DEF Accept
<1>2. /\ srv' \in [Clients -> Phases] /\ srv'[c] = phase
      /\ \A d \in Clients \ {c} : srv'[d] = srv[d]
  BY <1>1, GotoType DEF Phases, Handled, Reading
<1>3. UNCHANGED <<once, proc, pending, peer, up, down, clientVars, history>> /\ srv[c] = "backlog"
  BY DEF Accept
<1>4. queue' \in Seq(Clients)
  <2>1. queue \in Seq(Clients)
    BY DEF TypeOK
  <2>2. Append(queue, c) \in Seq(Clients)
    BY <2>1
  <2> QED
    BY <1>1, <2>1, <2>2
<1>5. TypeOK'
  BY <1>2, <1>3, <1>4 DEF TypeOK, clientVars, history
<1>6. QueueInv'
  <2>1. CASE phase = "hello"
    BY <1>1, <1>2, <1>3, <2>1, QueueKept
  <2>2. CASE phase = "queued"
    <3>1. queue \in Seq(Clients) /\ \A i \in DOMAIN queue : queue[i] # c
      BY <1>3 DEF TypeOK, QueueInv
    <3>2. /\ queue' = Append(queue, c) /\ DOMAIN queue' = DOMAIN queue \cup {Len(queue) + 1}
          /\ queue'[Len(queue) + 1] = c /\ \A i \in DOMAIN queue : queue'[i] = queue[i]
      BY <1>1, <2>2, <3>1
    <3> QED
      BY <1>2, <2>2, <3>1, <3>2 DEF QueueInv
  <2> QED
    BY <2>1, <2>2
<1>7. Local(c)
  BY <1>2, <1>3, <1>5, <1>6 DEF Local, Same, clientVars
<1>8. LinkInv(c)'
  <2>1. UNCHANGED <<pending, peer, up, down, cli, partly, known, media, res, lost, killers>>
    BY <1>3 DEF clientVars, history
  <2>2. LinkInv(c)
    OBVIOUS
  <2>3. AtHello(c)' /\ AtConfig(c)'
    BY <1>2, <1>3, <2>1, <2>2 DEF LinkInv, AtHello, AtConfig
  <2>4. AtWork(c)' /\ AfterWork(c)'
    BY <1>2, <1>3, <2>1, <2>2 DEF LinkInv, AtWork, AfterWork
  <2>5. AtClient(c)'
    BY <1>2, <1>3, <2>1, <2>2 DEF LinkInv, AtHello, AtClient
  <2> QED
    BY <2>3, <2>4, <2>5 DEF LinkInv
<1> QED
  BY <1>7, <1>8, LocalStep

LEMMA StartInv ==
    ASSUME Inv, Start
    PROVE  Inv'
<1> USE DEF Inv
<1>1. PICK c \in Clients :
         /\ queue \in Seq(Clients) /\ queue # <<>>
         /\ c = Head(queue) /\ c = queue[1] /\ 1 \in DOMAIN queue
  BY HeadAndTail DEF TypeOK, Start
<1>2. /\ queue' = Tail(queue) /\ queue' \in Seq(Clients)
      /\ \A i \in DOMAIN queue' : i + 1 \in DOMAIN queue /\ queue'[i] = queue[i + 1]
                                  /\ i \in Nat \ {0}
  BY <1>1, HeadAndTail DEF Start
<1>3. srv[c] = "queued"
  BY <1>1 DEF QueueInv
<1>4. UNCHANGED <<once, proc, pending, peer, up, down, clientVars, history>> /\ Goto(c, "hello")
  BY <1>1 DEF Start
<1>5. /\ srv' \in [Clients -> Phases] /\ srv'[c] = "hello"
      /\ \A d \in Clients \ {c} : srv'[d] = srv[d]
  BY <1>4, GotoType DEF Phases, Handled, Reading
<1>6. TypeOK'
  BY <1>2, <1>4, <1>5 DEF TypeOK, clientVars, history
<1>7. QueueInv'
  <2>1. \A i \in DOMAIN queue' : queue'[i] \in Clients \ {c} /\ srv'[queue'[i]] = "queued"
    BY <1>1, <1>2, <1>5 DEF QueueInv
  <2>2. ASSUME NEW i \in DOMAIN queue', NEW j \in DOMAIN queue', queue'[i] = queue'[j]
        PROVE  i = j
    <3>1. i + 1 = j + 1
      BY <1>2, <2>2 DEF QueueInv
    <3> QED
      BY <1>2, <3>1
  <2> QED
    BY <2>1, <2>2 DEF QueueInv
<1>8. Local(c)
  BY <1>4, <1>5, <1>6, <1>7 DEF Local, Same, clientVars
<1>9. LinkInv(c)'
  <2>1. UNCHANGED <<pending, peer, up, down, cli, partly, known, media, res, lost, killers>>
    BY <1>4 DEF clientVars, history
  <2>2. LinkInv(c)
    OBVIOUS
  <2>3. AtHello(c)' /\ AtConfig(c)'
    BY <1>3, <1>5, <2>1, <2>2 DEF LinkInv, AtHello, AtConfig
  <2>4. AtWork(c)' /\ AfterWork(c)'
    BY <1>3, <1>5, <2>1, <2>2 DEF LinkInv, AtWork, AfterWork
  <2>5. AtClient(c)'
    BY <1>3, <1>5, <2>1, <2>2 DEF LinkInv, AtHello, AtClient
  <2> QED
    BY <2>3, <2>4, <2>5 DEF LinkInv
<1> QED
  BY <1>8, <1>9, LocalStep

\* What is left to show of a step about one connection that leaves the queue.
LEMMA StepOf ==
    ASSUME Inv, NEW c \in Clients, srv[c] # "queued", queue' = queue,
           UNCHANGED history, TypeOK', \A d \in Clients \ {c} : Same(d),
           AtHello(c)', AtConfig(c)', AtWork(c)', AfterWork(c)', AtClient(c)'
    PROVE  Inv'
<1>1. QueueInv'
  BY QueueKept DEF Inv, Same
<1>2. Local(c)
  BY <1>1 DEF Local
<1> QED
  BY <1>2, LocalStep DEF LinkInv

LEMMA HandshakeInv ==
    ASSUME Inv, NEW c \in Clients, Handshake(c)
    PROVE  Inv'
<1>1. TypeOK /\ LinkInv(c)
  BY DEF Inv
<1>2. /\ srv[c] = "hello" /\ up[c] = <<"HELLO">> /\ down[c] = <<>>
      /\ peer[c] \in {"open", "fin"} /\ media[c] = 0 /\ pending[c] = 0
      /\ cli[c] \in {"hello", "closed"}
  BY <1>1 DEF Handshake, Sees, LinkInv, AtHello, AfterWork
<1>3. UNCHANGED <<once, proc, queue, pending, cli, partly, known, media, res, lost, killers>>
  BY DEF Handshake, clientVars, history
<1>4. /\ up' \in [Clients -> Seq(ToServer)] /\ up'[c] = <<>>
      /\ \A d \in Clients \ {c} : up'[d] = up[d]
  BY <1>1, <1>2, TakenFrom, One DEF Handshake
<1>5. PICK m \in {"ACK", "NACK"}, phase \in {"config", "unwinding"} :
         /\ Written(c, m) /\ Goto(c, phase)
         /\ IF known[c] THEN m = "ACK" /\ phase = "config" ELSE m = "NACK" /\ phase = "unwinding"
  BY DEF Handshake
<1>6. /\ srv' \in [Clients -> Phases] /\ srv'[c] = phase
      /\ \A d \in Clients \ {c} : srv'[d] = srv[d]
  BY <1>1, <1>5, GotoType DEF Phases, Handled, Reading
<1>7. /\ peer' \in [Clients -> {"open", "fin", "refused", "reset"}]
      /\ peer'[c] = IF peer[c] = "fin" THEN "refused" ELSE peer[c]
      /\ down' \in [Clients -> Seq(ToClient)]
      /\ down'[c] = IF peer[c] = "open" THEN <<m>> ELSE <<>>
      /\ \A d \in Clients \ {c} : peer'[d] = peer[d] /\ down'[d] = down[d]
  <2>1. m \in ToClient /\ Append(down[c], m) = <<m>>
    BY <1>2, One DEF ToClient
  <2> QED
    BY <1>1, <1>2, <1>5, <2>1, WrittenTo
<1>8. TypeOK'
  BY <1>1, <1>3, <1>4, <1>6, <1>7 DEF TypeOK, ToServer, ToClient
<1>9. \A d \in Clients \ {c} : Same(d)
  BY <1>3, <1>4, <1>6, <1>7 DEF Same
<1>10. AtHello(c)' /\ AtConfig(c)' /\ AtWork(c)'
  BY <1>1, <1>2, <1>3, <1>4, <1>5, <1>6, <1>7
     DEF LinkInv, AtHello, AtConfig, AtWork, AtClient
<1>11. AfterWork(c)' /\ AtClient(c)'
  BY <1>1, <1>2, <1>3, <1>4, <1>5, <1>6, <1>7 DEF LinkInv, AfterWork, AtClient
<1> QED
  BY <1>2, <1>3, <1>8, <1>9, <1>10, <1>11, StepOf DEF history

LEMMA ConfigureInv ==
    ASSUME Inv, NEW c \in Clients, Configure(c)
    PROVE  Inv'
<1>1. TypeOK /\ LinkInv(c)
  BY DEF Inv
<1>2. /\ srv[c] = "config" /\ known[c] /\ up[c] = <<"CONFIGURE">> /\ down[c] = <<>>
      /\ media[c] = 0 /\ pending[c] = 0
      /\ \/ cli[c] = "config" /\ peer[c] = "open"
         \/ cli[c] = "closed" /\ peer[c] = "fin"
  <2>1. srv[c] = "config" /\ up[c] # <<>>
    BY DEF Configure, Sees
  <2> QED
    BY <1>1, <2>1 DEF LinkInv, AtConfig, AfterWork, AtClient
<1>3. UNCHANGED <<once, proc, queue, pending, cli, partly, known, media, res, lost, killers>>
  BY DEF Configure, clientVars, history
<1>4. /\ up' \in [Clients -> Seq(ToServer)] /\ up'[c] = <<>>
      /\ \A d \in Clients \ {c} : up'[d] = up[d]
  BY <1>1, <1>2, TakenFrom, One DEF Configure
<1>5. CASE UNCHANGED <<peer, down>> /\ Goto(c, "unwinding")
  <2>1. /\ srv' \in [Clients -> Phases] /\ srv'[c] = "unwinding"
        /\ \A d \in Clients \ {c} : srv'[d] = srv[d]
    BY <1>1, <1>5, GotoType DEF Phases, Handled, Reading
  <2>2. TypeOK'
    BY <1>1, <1>3, <1>4, <1>5, <2>1 DEF TypeOK, ToServer
  <2>3. \A d \in Clients \ {c} : Same(d)
    BY <1>3, <1>4, <1>5, <2>1 DEF Same
  <2>4. AtHello(c)' /\ AtConfig(c)' /\ AtWork(c)'
    BY <1>2, <1>3, <2>1 DEF AtHello, AtConfig, AtWork
  <2>5. AfterWork(c)' /\ AtClient(c)'
    BY <1>1, <1>2, <1>3, <1>4, <1>5, <2>1 DEF LinkInv, AfterWork, AtClient
  <2> QED
    BY <1>2, <1>3, <2>2, <2>3, <2>4, <2>5, StepOf DEF history
<1>6. ASSUME NEW m \in {"CONFIGURE_ACK", "ERROR"}, NEW phase \in {"loop", "unwinding"},
             m = "CONFIGURE_ACK" <=> phase = "loop",
             Written(c, m), Goto(c, phase)
      PROVE  Inv'
  <2>1. /\ srv' \in [Clients -> Phases] /\ srv'[c] = phase
        /\ \A d \in Clients \ {c} : srv'[d] = srv[d]
    BY <1>1, <1>6, GotoType DEF Phases, Handled, Reading
  <2>2. /\ peer' \in [Clients -> {"open", "fin", "refused", "reset"}]
        /\ peer'[c] = IF peer[c] = "fin" THEN "refused" ELSE peer[c]
        /\ down' \in [Clients -> Seq(ToClient)]
        /\ down'[c] = IF peer[c] = "open" THEN <<m>> ELSE <<>>
        /\ \A d \in Clients \ {c} : peer'[d] = peer[d] /\ down'[d] = down[d]
    <3>1. m \in ToClient /\ Append(down[c], m) = <<m>>
      BY <1>2, One DEF ToClient
    <3> QED
      BY <1>1, <1>2, <1>6, <3>1, WrittenTo
  <2>3. TypeOK'
    BY <1>1, <1>3, <1>4, <2>1, <2>2 DEF TypeOK, ToServer, ToClient
  <2>4. \A d \in Clients \ {c} : Same(d)
    BY <1>3, <1>4, <2>1, <2>2 DEF Same
  <2>5. AtHello(c)' /\ AtConfig(c)' /\ AtWork(c)'
    BY <1>2, <1>3, <1>4, <1>6, <2>1, <2>2 DEF AtHello, AtConfig, AtWork
  <2>6. AfterWork(c)' /\ AtClient(c)'
    BY <1>1, <1>2, <1>3, <1>4, <1>6, <2>1, <2>2 DEF LinkInv, AfterWork, AtClient
  <2> QED
    BY <1>2, <1>3, <2>3, <2>4, <2>5, <2>6, StepOf DEF history
<1> QED
  BY <1>5, <1>6 DEF Configure

LEMMA ReadMediaInv ==
    ASSUME Inv, NEW c \in Clients, ReadMedia(c)
    PROVE  Inv'
<1>1. TypeOK /\ LinkInv(c)
  BY DEF Inv
<1>2. /\ srv[c] = "loop" /\ up[c] \in Seq(ToServer) /\ up[c] # <<>> /\ Head(up[c]) = "MEDIA"
      /\ pending[c] \in Nat
  BY <1>1 DEF ReadMedia, Sees, TypeOK, ToServer
<1>3. UNCHANGED <<once, proc, queue, peer, down, cli, partly, known, media, res, lost, killers>>
  BY DEF ReadMedia, clientVars, history
<1>4. /\ up' \in [Clients -> Seq(ToServer)] /\ up'[c] = Tail(up[c])
      /\ \A d \in Clients \ {c} : up'[d] = up[d]
  BY <1>1, <1>2, TakenFrom DEF ReadMedia
<1>5. media[c] > 0 /\ media[c] \in Nat
  <2>1. 1 \in DOMAIN up[c] /\ up[c][1] = "MEDIA"
    BY <1>2, HeadAndTail
  <2> QED
    BY <1>1, <2>1 DEF LinkInv, AtClient, TypeOK
<1>10. /\ srv' \in [Clients -> Phases] /\ pending' \in [Clients -> Nat]
       /\ \A d \in Clients \ {c} : srv'[d] = srv[d] /\ pending'[d] = pending[d]
       /\ \/ srv'[c] = "loop" /\ pending'[c] = pending[c] + 1
          \/ srv'[c] = "unwinding" /\ pending'[c] = pending[c]
  <2>1. CASE pending' = [pending EXCEPT ![c] = @ + 1] /\ UNCHANGED srv
    BY <1>1, <1>2, <2>1 DEF TypeOK
  <2>2. CASE Goto(c, "unwinding") /\ UNCHANGED pending
    BY <1>1, <1>2, <2>2, GotoType DEF TypeOK, Phases, Handled
  <2> QED
    BY <2>1, <2>2 DEF ReadMedia
<1>6. TypeOK'
  BY <1>1, <1>3, <1>4, <1>10 DEF TypeOK, ToServer
<1>7. \A d \in Clients \ {c} : Same(d)
  BY <1>3, <1>4, <1>10 DEF Same
<1>8. AtHello(c)' /\ AtConfig(c)' /\ AtWork(c)'
  BY <1>1, <1>2, <1>3, <1>4, <1>5, <1>10 DEF LinkInv, AtHello, AtConfig, AtWork
<1>9. AfterWork(c)' /\ AtClient(c)'
  <2>1. \A i \in DOMAIN up'[c] : i + 1 \in DOMAIN up[c] /\ up'[c][i] = up[c][i + 1]
    BY <1>2, <1>4, HeadAndTail
  <2>2. cli[c] \notin {"hello", "start"} /\ (cli[c] = "config" => down[c] = <<"CONFIGURE_ACK">>)
    BY <1>1, <1>2 DEF LinkInv, AtWork
  <2> QED
    BY <1>1, <1>2, <1>3, <1>5, <1>10, <2>1, <2>2, One DEF LinkInv, AfterWork, AtClient
<1> QED
  BY <1>2, <1>3, <1>6, <1>7, <1>8, <1>9, StepOf DEF history

LEMMA ReadFlushInv ==
    ASSUME Inv, NEW c \in Clients, ReadFlush(c)
    PROVE  Inv'
<1>1. TypeOK /\ LinkInv(c)
  BY DEF Inv
<1>2. srv[c] = "loop" /\ up[c] \in Seq(ToServer) /\ up[c] # <<>>
  BY <1>1 DEF ReadFlush, Sees, TypeOK, ToServer
<1>3. UNCHANGED <<once, proc, queue, pending, peer, down, cli, partly, known, media, res, lost, killers>>
  BY DEF ReadFlush, clientVars, history
<1>4. /\ up' \in [Clients -> Seq(ToServer)] /\ up'[c] = Tail(up[c])
      /\ \A d \in Clients \ {c} : up'[d] = up[d]
  BY <1>1, <1>2, TakenFrom DEF ReadFlush
<1>5. /\ srv' \in [Clients -> Phases] /\ srv'[c] = "completing"
      /\ \A d \in Clients \ {c} : srv'[d] = srv[d]
  BY <1>1, GotoType DEF ReadFlush, Phases, Handled
<1>6. TypeOK'
  BY <1>1, <1>3, <1>4, <1>5 DEF TypeOK, ToServer
<1>7. \A d \in Clients \ {c} : Same(d)
  BY <1>3, <1>4, <1>5 DEF Same
<1>8. AtHello(c)' /\ AtConfig(c)' /\ AtWork(c)'
  BY <1>1, <1>2, <1>3, <1>4, <1>5 DEF LinkInv, AtHello, AtConfig, AtWork
<1>9. AfterWork(c)' /\ AtClient(c)'
  <2>1. \A i \in DOMAIN up'[c] : i + 1 \in DOMAIN up[c] /\ up'[c][i] = up[c][i + 1]
    BY <1>2, <1>4, HeadAndTail
  <2> QED
    BY <1>1, <1>2, <1>3, <1>5, <2>1 DEF LinkInv, AfterWork, AtClient
<1> QED
  BY <1>2, <1>3, <1>6, <1>7, <1>8, <1>9, StepOf DEF history

LEMMA SendDoneInv ==
    ASSUME Inv, NEW c \in Clients, SendDone(c)
    PROVE  Inv'
<1>1. TypeOK /\ LinkInv(c)
  BY DEF Inv
<1>2. /\ srv[c] = "completing" /\ pending[c] = 0 /\ known[c]
      /\ cli[c] \in {"streaming", "flushing", "closed"}
  BY <1>1 DEF SendDone, LinkInv, AtWork
<1>3. UNCHANGED <<once, proc, queue, pending, up, cli, partly, known, media, res, lost, killers>>
  BY DEF SendDone, clientVars, history
<1>4. /\ srv' \in [Clients -> Phases] /\ srv'[c] = "unwinding"
      /\ \A d \in Clients \ {c} : srv'[d] = srv[d]
  BY <1>1, GotoType DEF SendDone, Phases, Handled
<1>5. /\ peer' \in [Clients -> {"open", "fin", "refused", "reset"}]
      /\ peer'[c] = IF peer[c] = "fin" THEN "refused" ELSE peer[c]
      /\ down' \in [Clients -> Seq(ToClient)]
      /\ \A d \in Clients \ {c} : peer'[d] = peer[d] /\ down'[d] = down[d]
  <2>1. "DONE" \in ToClient /\ Written(c, "DONE")
    BY DEF ToClient, SendDone
  <2> QED
    BY <1>1, <2>1, WrittenTo
<1>6. TypeOK'
  BY <1>1, <1>3, <1>4, <1>5 DEF TypeOK, ToClient
<1>7. \A d \in Clients \ {c} : Same(d)
  BY <1>3, <1>4, <1>5 DEF Same
<1>8. AtHello(c)' /\ AtConfig(c)' /\ AtWork(c)'
  BY <1>2, <1>3, <1>4 DEF AtHello, AtConfig, AtWork
<1>9. AfterWork(c)' /\ AtClient(c)'
  BY <1>1, <1>2, <1>3, <1>4, <1>5 DEF LinkInv, AfterWork, AtClient
<1> QED
  BY <1>2, <1>3, <1>6, <1>7, <1>8, <1>9, StepOf DEF history

LEMMA EmitInv ==
    ASSUME Inv, NEW c \in Clients, Emit(c)
    PROVE  Inv'
<1>1. TypeOK /\ LinkInv(c)
  BY DEF Inv
<1>2. /\ pending[c] > 0 /\ pending[c] \in Nat /\ pending'[c] = pending[c] - 1
      /\ pending' \in [Clients -> Nat] /\ \A d \in Clients \ {c} : pending'[d] = pending[d]
  BY <1>1 DEF Emit, TypeOK
<1>3. UNCHANGED <<once, proc, queue, srv, up, cli, partly, known, media, res, lost, killers>>
  BY DEF Emit, clientVars, history
<1>4. /\ srv[c] \in {"loop", "completing", "unwinding"} /\ known[c] /\ media[c] # 0
      /\ \/ /\ cli[c] \in {"streaming", "flushing"}
            /\ \A i \in DOMAIN down[c] : down[c][i] = "MEDIA"
         \/ cli[c] = "closed" /\ res[c] = "aborted"
  BY <1>1, <1>2 DEF LinkInv, AtWork, AfterWork
<1>5. /\ peer' \in [Clients -> {"open", "fin", "refused", "reset"}]
      /\ peer'[c] = IF peer[c] = "fin" THEN "refused" ELSE peer[c]
      /\ down' \in [Clients -> Seq(ToClient)]
      /\ down'[c] \in {down[c], Append(down[c], "MEDIA")}
      /\ \A d \in Clients \ {c} : peer'[d] = peer[d] /\ down'[d] = down[d]
  <2>1. "MEDIA" \in ToClient /\ Written(c, "MEDIA")
    BY DEF ToClient, Emit
  <2> QED
    BY <1>1, <2>1, WrittenTo
<1>6. (\A i \in DOMAIN down[c] : down[c][i] = "MEDIA")
         => \A i \in DOMAIN down'[c] : down'[c][i] = "MEDIA"
  <2>1. down[c] \in Seq(ToClient) /\ "MEDIA" \in ToClient
    BY <1>1 DEF TypeOK, ToClient
  <2>2. CASE down'[c] = down[c]
    BY <2>2
  <2>3. CASE down'[c] = Append(down[c], "MEDIA")
    <3>1. \A i \in DOMAIN down'[c] :
             (i \in DOMAIN down[c] /\ down'[c][i] = down[c][i]) \/ down'[c][i] = "MEDIA"
      BY <2>1, <2>3, Appended
    <3> QED
      BY <3>1
  <2> QED
    BY <1>5, <2>2, <2>3
<1>7. TypeOK'
  BY <1>1, <1>2, <1>3, <1>5 DEF TypeOK, ToClient
<1>8. \A d \in Clients \ {c} : Same(d)
  BY <1>2, <1>3, <1>5 DEF Same
<1>9. AtHello(c)' /\ AtConfig(c)' /\ AtWork(c)'
  BY <1>3, <1>4, <1>6 DEF AtHello, AtConfig, AtWork
<1>10. AfterWork(c)' /\ AtClient(c)'
  BY <1>1, <1>3, <1>4, <1>5 DEF LinkInv, AfterWork, AtClient
<1> QED
  BY <1>3, <1>4, <1>7, <1>8, <1>9, <1>10, StepOf DEF history

LEMMA ResetArrivesInv ==
    ASSUME Inv, NEW c \in Clients, ResetArrives(c)
    PROVE  Inv'
<1>1. TypeOK /\ LinkInv(c)
  BY DEF Inv
<1>2. /\ peer[c] = "refused" /\ peer'[c] = "reset"
      /\ peer' \in [Clients -> {"open", "fin", "refused", "reset"}]
      /\ \A d \in Clients \ {c} : peer'[d] = peer[d]
  BY <1>1 DEF ResetArrives, TypeOK
<1>3. UNCHANGED <<once, proc, queue, srv, pending, up, down, cli, partly, known, media, res, lost, killers>>
  BY DEF ResetArrives, serverVars, clientVars, history
<1>4. TypeOK'
  BY <1>1, <1>2, <1>3 DEF TypeOK
<1>5. \A d \in Clients \ {c} : Same(d)
  BY <1>2, <1>3 DEF Same
<1>6. AtHello(c)' /\ AtConfig(c)' /\ AtWork(c)'
  BY <1>1, <1>2, <1>3 DEF LinkInv, AtHello, AtConfig, AtWork
<1>7. AfterWork(c)' /\ AtClient(c)'
  BY <1>1, <1>2, <1>3 DEF LinkInv, AfterWork, AtClient
<1>8. srv[c] # "queued"
  BY <1>1, <1>2 DEF LinkInv, AtHello
<1> QED
  BY <1>3, <1>4, <1>5, <1>6, <1>7, <1>8, StepOf DEF history

-------------------------------------------------------------------------------
(***************************************************************************)
(* The end of a connection, and of the process with all of them.           *)
(***************************************************************************)

\* d's connection ends on the server.
Ended(d) ==
    /\ srv'[d] = "closed" /\ pending'[d] = 0 /\ up'[d] = <<>>
    /\ down'[d] = down[d] \/ (up[d] # <<>> /\ down'[d] = <<>>)
    /\ peer'[d] = peer[d] /\ cli'[d] = cli[d] /\ known'[d] = known[d]
    /\ media'[d] = media[d] /\ res'[d] = res[d]

\* Whatever the phase, an end leaves the invariant, if it has been recorded for
\* a client that could still be waiting for an answer.
LEMMA EndedLink ==
    ASSUME NEW d \in Clients, TypeOK, LinkInv(d), Ended(d), lost \subseteq lost',
           srv[d] # "none",
           d \in killers' => d \in killers \/ (cli[d] = "closed" /\ res[d] = "aborted" /\ media[d] > 0),
           \/ d \in lost'
           \/ srv[d] = "unwinding"
           \/ srv[d] \in Reading /\ up[d] = <<>>
           \/ srv[d] = "closed"
           \/ cli[d] = "closed"
    PROVE  LinkInv(d)'
<1>1. AtHello(d)' /\ AtConfig(d)' /\ AtWork(d)'
  BY DEF Ended, AtHello, AtConfig, AtWork
<1>2. AtClient(d)'
  BY DEF LinkInv, Ended, AtClient, AtHello
<1>3. ASSUME cli[d] = "hello"
      PROVE  \/ known[d] /\ down'[d] \in {<<>>, <<"ACK">>}
             \/ ~known[d] /\ down'[d] = <<"NACK">>
             \/ d \in lost' /\ down'[d] = <<>>
  <2>1. CASE srv[d] \in {"backlog", "queued", "hello"}
    <3>1. up[d] = <<"HELLO">> /\ up[d] # <<>> /\ down[d] = <<>> /\ down'[d] = <<>>
      BY <2>1, One DEF LinkInv, Ended, AtHello
    <3>2. d \in lost'
      BY <1>3, <2>1, <3>1
    <3> QED
      BY <3>1, <3>2
  <2>2. CASE srv[d] = "config"
    BY <1>3, <2>2 DEF LinkInv, Ended, AtConfig
  <2>3. CASE srv[d] \in {"loop", "completing"}
    BY <1>3, <2>3 DEF LinkInv, AtWork
  <2>4. CASE srv[d] \in {"unwinding", "closed"}
    BY <1>3, <2>4 DEF LinkInv, Ended, AfterWork
  <2> QED
    BY <2>1, <2>2, <2>3, <2>4 DEF TypeOK, Phases, Handled, Reading
<1>4. ASSUME cli[d] = "config"
      PROVE  \A i \in DOMAIN down'[d] : down'[d][i] \in {"CONFIGURE_ACK", "ERROR"}
  <2>1. CASE srv[d] \in {"backlog", "queued", "hello"}
    BY <1>4, <2>1 DEF LinkInv, AtHello
  <2>2. CASE srv[d] = "config"
    BY <1>4, <2>2 DEF LinkInv, Ended, AtConfig
  <2>3. CASE srv[d] \in {"loop", "completing"}
    BY <1>4, <2>3 DEF LinkInv, Ended, AtWork
  <2>4. CASE srv[d] \in {"unwinding", "closed"}
    BY <1>4, <2>4 DEF LinkInv, Ended, AfterWork
  <2> QED
    BY <2>1, <2>2, <2>3, <2>4 DEF TypeOK, Phases, Handled, Reading
<1>5. AfterWork(d)'
  BY <1>3, <1>4 DEF Ended, AfterWork
<1> QED
  BY <1>1, <1>2, <1>5 DEF LinkInv

\* What Ending does to each connection.
LEMMA EndingEach ==
    ASSUME TypeOK, NEW over \in SUBSET Clients, Ending(over),
           UNCHANGED <<peer, clientVars>>
    PROVE  /\ srv' \in [Clients -> Phases]
           /\ pending' \in [Clients -> Nat]
           /\ up' \in [Clients -> Seq(ToServer)]
           /\ down' \in [Clients -> Seq(ToClient)]
           /\ \A d \in over : Ended(d)
           /\ \A d \in Clients \ over : Same(d)
<1>1. /\ srv \in [Clients -> Phases] /\ pending \in [Clients -> Nat]
      /\ up \in [Clients -> Seq(ToServer)] /\ down \in [Clients -> Seq(ToClient)]
  BY DEF TypeOK, ToServer, ToClient
<1>2. PICK cut \in SUBSET {c \in over : up[c] # <<>>} :
         down' = [c \in Clients |-> IF c \in cut THEN <<>> ELSE down[c]]
  BY DEF Ending
<1>3. /\ srv' = [c \in Clients |-> IF c \in over THEN "closed" ELSE srv[c]]
      /\ pending' = [c \in Clients |-> IF c \in over THEN 0 ELSE pending[c]]
      /\ up' = [c \in Clients |-> IF c \in over THEN <<>> ELSE up[c]]
  BY DEF Ending
<1>4. <<>> \in Seq(ToServer) /\ <<>> \in Seq(ToClient)
  OBVIOUS
<1>5. srv' \in [Clients -> Phases] /\ pending' \in [Clients -> Nat]
  BY <1>1, <1>3 DEF Phases
<1>6. up' \in [Clients -> Seq(ToServer)]
  BY <1>1, <1>3, <1>4
<1>7. down' \in [Clients -> Seq(ToClient)]
  BY <1>1, <1>2, <1>4
<1>8. \A d \in over : Ended(d)
  BY <1>2, <1>3 DEF Ended, clientVars
<1>9. \A d \in Clients \ over : Same(d)
  BY <1>2, <1>3 DEF Same, clientVars
<1> QED
  BY <1>5, <1>6, <1>7, <1>8, <1>9

\* The process ends: only the client that is the reason of it, if any, is not
\* recorded as cut off.
LEMMA ProcessEndsInv ==
    ASSUME Inv, NEW c \in Clients, NEW how \in {"killed", "exited"}, ProcessEnds(how, c),
           UNCHANGED <<once, peer, clientVars>>,
           killers' \subseteq Clients,
           \A d \in killers' \ killers :
              d \in Connected /\ cli[d] = "closed" /\ res[d] = "aborted" /\ media[d] > 0,
           srv[c] = "unwinding" \/ (srv[c] \in Reading /\ up[c] = <<>>) \/ cli[c] = "closed"
    PROVE  Inv'
<1>1. TypeOK /\ QueueInv /\ \A d \in Clients : LinkInv(d)
  BY DEF Inv
<1>2. Connected \in SUBSET Clients
  BY DEF Connected
<1>3. Ending(Connected) /\ queue' = <<>> /\ proc' = how /\ lost' = lost \cup (Connected \ {c})
  BY DEF ProcessEnds
<1>4. /\ srv' \in [Clients -> Phases]
      /\ pending' \in [Clients -> Nat]
      /\ up' \in [Clients -> Seq(ToServer)]
      /\ down' \in [Clients -> Seq(ToClient)]
      /\ \A d \in Connected : Ended(d)
      /\ \A d \in Clients \ Connected : Same(d)
  BY <1>1, <1>2, <1>3, EndingEach
<1>5. TypeOK'
  <2>1. proc' \in {"up", "killed", "exited"} /\ queue' \in Seq(Clients) /\ lost' \subseteq Clients
    BY <1>1, <1>2, <1>3 DEF TypeOK
  <2> QED
    BY <1>1, <1>4, <2>1 DEF TypeOK, ToServer, ToClient, clientVars
<1>6. QueueInv'
  BY <1>3 DEF QueueInv
<1>7. ASSUME NEW d \in Clients
      PROVE  LinkInv(d)'
  <2>1. lost \subseteq lost' /\ (d \in Connected /\ d # c => d \in lost')
    BY <1>3
  <2>2. CASE d \in Connected
    <3>1. srv[d] # "none" /\ Ended(d)
      BY <1>4, <2>2 DEF Connected
    <3> QED
      BY <1>1, <2>1, <2>2, <3>1, EndedLink
  <2>3. CASE d \notin Connected
    <3>1. Same(d) /\ srv[d] \in {"none", "closed"}
      BY <1>4, <2>3 DEF Connected
    <3>2. d \in killers' => d \in killers
      BY <2>3
    <3> QED
      BY <1>1, <2>1, <3>1, <3>2, SameLink
  <2> QED
    BY <2>2, <2>3
<1> QED
  BY <1>5, <1>6, <1>7 DEF Inv

LEMMA UnwindInv ==
    ASSUME Inv, NEW c \in Clients, Unwind(c)
    PROVE  Inv'
<1>1. TypeOK /\ LinkInv(c)
  BY DEF Inv
<1>2. UNCHANGED <<once, peer, clientVars, killers>>
  BY DEF Unwind
<1>3. srv[c] = "unwinding" \/ (srv[c] \in Reading /\ (up[c] = <<>> \/ cli[c] = "closed"))
  BY <1>1 DEF Unwind, ReadFails, LinkInv, AtClient
<1>4. CASE ProcessEnds("exited", c)
  BY <1>1, <1>2, <1>3, <1>4, ProcessEndsInv DEF TypeOK
<1>5. CASE Ending({c}) /\ UNCHANGED <<proc, queue, lost>>
  <2>1. /\ srv' \in [Clients -> Phases]
        /\ pending' \in [Clients -> Nat]
        /\ up' \in [Clients -> Seq(ToServer)]
        /\ down' \in [Clients -> Seq(ToClient)]
        /\ Ended(c)
        /\ \A d \in Clients \ {c} : Same(d)
    BY <1>1, <1>2, <1>5, EndingEach
  <2>2. TypeOK'
    BY <1>1, <1>2, <1>5, <2>1 DEF TypeOK, ToServer, ToClient, clientVars
  <2>3. LinkInv(c)'
    BY <1>1, <1>2, <1>3, <1>5, <2>1, EndedLink DEF Reading
  <2> QED
    BY <1>2, <1>3, <1>5, <2>1, <2>2, <2>3, StepOf DEF LinkInv, Reading, history
<1> QED
  BY <1>4, <1>5 DEF Unwind

\* The write that raises SIGPIPE is to a client that sent media and left.
LEMMA SigpipeInv ==
    ASSUME Inv, NEW c \in Clients, Sigpipe(c)
    PROVE  Inv'
<1>1. TypeOK /\ LinkInv(c)
  BY DEF Inv
<1>2. peer[c] = "reset" /\ WriteDue(c) /\ cli[c] = "closed"
  BY <1>1 DEF Sigpipe, LinkInv, AtClient
<1>3. srv[c] = "completing" \/ pending[c] > 0
  <2>1. CASE Sees(c, "hello", "HELLO")
    BY <1>1, <1>2, <2>1 DEF Sees, LinkInv, AtHello
  <2>2. CASE Sees(c, "config", "CONFIGURE")
    BY <1>1, <1>2, <2>2 DEF Sees, LinkInv, AtConfig
  <2> QED
    BY <1>2, <2>1, <2>2 DEF WriteDue
<1>4. srv[c] \in Handled /\ res[c] = "aborted" /\ media[c] > 0
  <2>1. srv[c] \in {"loop", "completing", "unwinding"} /\ (srv[c] = "completing" \/ pending[c] > 0)
    BY <1>1, <1>3 DEF LinkInv, AfterWork
  <2>2. media[c] \in Nat
    BY <1>1 DEF TypeOK
  <2> QED
    BY <1>1, <1>2, <2>1, <2>2 DEF LinkInv, AtWork, Handled, Reading
<1>5. ProcessEnds("killed", c) /\ killers' = killers \cup {c} /\ UNCHANGED <<once, peer, clientVars>>
  BY DEF Sigpipe
<1>6. killers' \subseteq Clients /\ c \in Connected
  BY <1>1, <1>4, <1>5 DEF TypeOK, Connected, Handled, Reading
<1> QED
  BY <1>2, <1>4, <1>5, <1>6, ProcessEndsInv

-------------------------------------------------------------------------------
(***************************************************************************)
(* The client's steps.                                                     *)
(***************************************************************************)
CliStates == {"start", "hello", "config", "streaming", "flushing", "closed"}
Outcomes == {"none", "refused", "EACCES", "INVALIDDATA", "timeout", "EOF", "done", "aborted"}

\* The invariant is about c alone when the server is not changed.
LEMMA ClientStep ==
    ASSUME Inv, NEW c \in Clients, TypeOK', UNCHANGED <<serverVars, history>>,
           \A d \in Clients \ {c} : Same(d), LinkInv(c)'
    PROVE  Inv'
<1>1. QueueInv'
  BY DEF Inv, QueueInv, serverVars
<1> QED
  BY <1>1, LocalStep DEF Local

LEMMA BecomeType ==
    ASSUME TypeOK, NEW c \in Clients, NEW state \in CliStates, Become(c, state)
    PROVE  /\ cli' \in [Clients -> CliStates]
           /\ cli'[c] = state
           /\ \A d \in Clients \ {c} : cli'[d] = cli[d]
BY DEF TypeOK, Become, CliStates

\* What a message adds to the server's side.
LEMMA Sent ==
    ASSUME TypeOK, NEW c \in Clients, NEW m \in ToServer, Send(c, m)
    PROVE  /\ up' \in [Clients -> Seq(ToServer)]
           /\ up'[c] = IF srv[c] = "closed" THEN up[c] ELSE Append(up[c], m)
           /\ \A d \in Clients \ {c} : up'[d] = up[d]
           /\ \A i \in DOMAIN up'[c] :
                 (i \in DOMAIN up[c] /\ up'[c][i] = up[c][i]) \/ up'[c][i] = m
           /\ partly' \in [Clients -> BOOLEAN]
<1>6. partly' \in [Clients -> BOOLEAN]
  BY DEF TypeOK, Send
<1>1. up \in [Clients -> Seq(ToServer)]
  BY DEF TypeOK, ToServer
<1>2. up[c] \in Seq(ToServer)
  BY <1>1
<1>3. /\ Append(up[c], m) \in Seq(ToServer)
      /\ \A i \in DOMAIN Append(up[c], m) :
            (i \in DOMAIN up[c] /\ Append(up[c], m)[i] = up[c][i]) \/ Append(up[c], m)[i] = m
  BY <1>2, Appended
<1>4. CASE srv[c] = "closed"
  <2>1. up' = up
    BY <1>4 DEF Send
  <2> QED
    BY <1>1, <1>4, <1>6, <2>1
<1>5. CASE srv[c] # "closed"
  <2>1. up' = [up EXCEPT ![c] = Append(up[c], m)]
    BY <1>5 DEF Send
  <2>2. up' \in [Clients -> Seq(ToServer)] /\ up'[c] = Append(up[c], m)
    BY <1>1, <1>3, <2>1
  <2>3. \A d \in Clients \ {c} : up'[d] = up[d]
    BY <1>1, <2>1
  <2> QED
    BY <1>3, <1>5, <1>6, <2>2, <2>3
<1> QED
  BY <1>4, <1>5, <1>6

\* What reading a message leaves on the client's side.
LEMMA ReadOff ==
    ASSUME TypeOK, NEW c \in Clients, down[c] # <<>>,
           down' = [down EXCEPT ![c] = Tail(down[c])]
    PROVE  /\ down[c] \in Seq(ToClient) /\ Head(down[c]) = down[c][1] /\ 1 \in DOMAIN down[c]
           /\ down' \in [Clients -> Seq(ToClient)]
           /\ down'[c] = Tail(down[c])
           /\ \A i \in DOMAIN down'[c] : i + 1 \in DOMAIN down[c] /\ down'[c][i] = down[c][i + 1]
           /\ \A d \in Clients \ {c} : down'[d] = down[d]
<1>1. down \in [Clients -> Seq(ToClient)]
  BY DEF TypeOK, ToClient
<1>2. /\ down[c] \in Seq(ToClient) /\ Head(down[c]) = down[c][1] /\ 1 \in DOMAIN down[c]
      /\ Tail(down[c]) \in Seq(ToClient)
      /\ \A i \in DOMAIN Tail(down[c]) :
            i + 1 \in DOMAIN down[c] /\ Tail(down[c])[i] = down[c][i + 1]
  BY <1>1, HeadAndTail
<1>3. down' \in [Clients -> Seq(ToClient)] /\ down'[c] = Tail(down[c])
      /\ \A d \in Clients \ {c} : down'[d] = down[d]
  BY <1>1, <1>2
<1> QED
  BY <1>2, <1>3

LEMMA ConnectInv ==
    ASSUME Inv, NEW c \in Clients, Connect(c)
    PROVE  Inv'
<1>1. TypeOK /\ LinkInv(c)
  BY DEF Inv
<1>2. /\ cli[c] = "start" /\ srv[c] = "none" /\ down[c] = <<>> /\ media[c] = 0
      /\ peer[c] = "open" /\ pending[c] = 0
  BY <1>1 DEF Connect, LinkInv, AtHello, AfterWork, AtClient
<1>3. UNCHANGED <<once, proc, queue, pending, peer, down, known, media, res, lost, killers>>
  BY DEF Connect, history
<1>4. /\ srv' \in [Clients -> Phases] /\ srv'[c] = "backlog"
      /\ \A d \in Clients \ {c} : srv'[d] = srv[d]
  BY <1>1, GotoType DEF Connect, Phases
<1>5. /\ cli' \in [Clients -> CliStates] /\ cli'[c] = "hello"
      /\ \A d \in Clients \ {c} : cli'[d] = cli[d]
  BY <1>1, BecomeType DEF Connect, CliStates
<1>10. partly' \in [Clients -> BOOLEAN]
  BY <1>1 DEF TypeOK, Connect
<1>6. /\ up' \in [Clients -> Seq(ToServer)] /\ up'[c] = <<"HELLO">>
      /\ \A d \in Clients \ {c} : up'[d] = up[d]
  <2>1. up \in [Clients -> Seq(ToServer)] /\ <<"HELLO">> \in Seq(ToServer)
    BY <1>1 DEF TypeOK, ToServer
  <2> QED
    BY <2>1 DEF Connect
<1>7. TypeOK'
  BY <1>1, <1>3, <1>4, <1>5, <1>6, <1>10 DEF TypeOK, ToServer, CliStates
<1>8. \A d \in Clients \ {c} : Same(d)
  BY <1>3, <1>4, <1>5, <1>6 DEF Same
<1>9. AtHello(c)' /\ AtConfig(c)' /\ AtWork(c)'
  BY <1>2, <1>3, <1>4, <1>5, <1>6 DEF AtHello, AtConfig, AtWork
<1>11. AfterWork(c)' /\ AtClient(c)'
  BY <1>1, <1>2, <1>3, <1>4, <1>5, <1>6, One DEF LinkInv, AfterWork, AtClient
<1> QED
  BY <1>2, <1>3, <1>7, <1>8, <1>9, <1>11, StepOf DEF history

LEMMA SendConfigureInv ==
    ASSUME Inv, NEW c \in Clients, SendConfigure(c)
    PROVE  Inv'
<1>1. TypeOK /\ LinkInv(c)
  BY DEF Inv
<1>2. /\ cli[c] = "hello" /\ down[c] # <<>> /\ Head(down[c]) = "ACK" /\ Send(c, "CONFIGURE")
      /\ down' = [down EXCEPT ![c] = Tail(down[c])]
  BY DEF SendConfigure, Answered
<1>3. UNCHANGED <<once, proc, queue, srv, pending, peer, known, media, res, lost, killers>>
  BY DEF SendConfigure, serverVars, history
<1>4. /\ cli' \in [Clients -> CliStates] /\ cli'[c] = "config"
      /\ \A d \in Clients \ {c} : cli'[d] = cli[d]
  BY <1>1, BecomeType DEF SendConfigure, CliStates
<1>5. /\ up' \in [Clients -> Seq(ToServer)] /\ partly' \in [Clients -> BOOLEAN]
      /\ up'[c] = IF srv[c] = "closed" THEN up[c] ELSE Append(up[c], "CONFIGURE")
      /\ \A d \in Clients \ {c} : up'[d] = up[d]
      /\ \A i \in DOMAIN up'[c] :
            (i \in DOMAIN up[c] /\ up'[c][i] = up[c][i]) \/ up'[c][i] = "CONFIGURE"
  <2>1. "CONFIGURE" \in ToServer
    BY DEF ToServer
  <2> QED
    BY <1>1, <1>2, <2>1, Sent
<1>6. /\ down' \in [Clients -> Seq(ToClient)] /\ down'[c] = Tail(down[c])
      /\ \A d \in Clients \ {c} : down'[d] = down[d]
  BY <1>1, <1>2, ReadOff
<1>7. known[c] /\ down[c] = <<"ACK">> /\ down'[c] = <<>>
      /\ \/ srv[c] = "config" /\ up[c] = <<>>
         \/ srv[c] \in {"unwinding", "closed"} /\ ~(pending[c] > 0)
  <2>1. CASE srv[c] \in {"none", "backlog", "queued", "hello", "loop", "completing"}
    BY <1>1, <1>2, <2>1 DEF LinkInv, AtHello, AtWork
  <2>2. CASE srv[c] = "config"
    BY <1>1, <1>2, <1>6, <2>2, One DEF LinkInv, AtConfig
  <2>3. CASE srv[c] \in {"unwinding", "closed"}
    BY <1>1, <1>2, <1>6, <2>3, One DEF LinkInv, AtWork, AfterWork
  <2> QED
    BY <1>1, <2>1, <2>2, <2>3 DEF TypeOK, Phases, Handled, Reading
<1>8. TypeOK'
  BY <1>1, <1>3, <1>4, <1>5, <1>6 DEF TypeOK, ToServer, ToClient, CliStates
<1>9. \A d \in Clients \ {c} : Same(d)
  BY <1>3, <1>4, <1>5, <1>6 DEF Same
<1>10. AtHello(c)' /\ AtConfig(c)' /\ AtWork(c)'
  <2>1. ASSUME srv[c] = "config"
        PROVE  up'[c] = <<"CONFIGURE">>
    <3>1. up'[c] = Append(up[c], "CONFIGURE") /\ up[c] = <<>>
      BY <1>5, <1>7, <2>1
    <3> QED
      BY <3>1
  <2> QED
    BY <1>1, <1>3, <1>4, <1>7, <2>1 DEF LinkInv, AtHello, AtConfig, AtWork
<1>11. AfterWork(c)' /\ AtClient(c)'
  BY <1>1, <1>2, <1>3, <1>4, <1>5, <1>7 DEF LinkInv, AfterWork, AtClient
<1> QED
  BY <1>3, <1>8, <1>9, <1>10, <1>11, ClientStep DEF LinkInv, serverVars, history

LEMMA ConfiguredInv ==
    ASSUME Inv, NEW c \in Clients, Configured(c)
    PROVE  Inv'
<1>1. TypeOK /\ LinkInv(c)
  BY DEF Inv
<1>2. /\ cli[c] = "config" /\ down[c] # <<>> /\ Head(down[c]) = "CONFIGURE_ACK"
      /\ down' = [down EXCEPT ![c] = Tail(down[c])]
  BY DEF Configured, Answered
<1>3. UNCHANGED <<once, proc, queue, srv, pending, peer, up, partly, known, media, res, lost, killers>>
  BY DEF Configured, serverVars, history
<1>4. /\ cli' \in [Clients -> CliStates] /\ cli'[c] = "streaming"
      /\ \A d \in Clients \ {c} : cli'[d] = cli[d]
  BY <1>1, BecomeType DEF Configured, CliStates
<1>5. /\ down' \in [Clients -> Seq(ToClient)] /\ down'[c] = Tail(down[c])
      /\ \A d \in Clients \ {c} : down'[d] = down[d]
  BY <1>1, <1>2, ReadOff
<1>6. \/ /\ srv[c] = "loop" /\ known[c] /\ pending[c] = 0 /\ media[c] = 0 /\ down'[c] = <<>>
      \/ srv[c] \in {"unwinding", "closed"} /\ ~(pending[c] > 0)
  <2>1. CASE srv[c] \in {"none", "backlog", "queued", "hello"}
    BY <1>1, <1>2, <2>1 DEF LinkInv, AtHello
  <2>2. CASE srv[c] = "config"
    BY <1>1, <1>2, <2>2 DEF LinkInv, AtConfig
  <2>3. CASE srv[c] \in {"loop", "completing"}
    BY <1>1, <1>2, <1>5, <2>3, One DEF LinkInv, AtWork
  <2>4. CASE srv[c] \in {"unwinding", "closed"}
    BY <1>1, <1>2, <1>5, <2>4, One DEF LinkInv, AtWork, AfterWork
  <2> QED
    BY <1>1, <2>1, <2>2, <2>3, <2>4 DEF TypeOK, Phases, Handled, Reading
<1>7. TypeOK'
  BY <1>1, <1>3, <1>4, <1>5 DEF TypeOK, ToClient, CliStates
<1>8. \A d \in Clients \ {c} : Same(d)
  BY <1>3, <1>4, <1>5 DEF Same
<1>9. AtHello(c)' /\ AtConfig(c)' /\ AtWork(c)'
  BY <1>3, <1>4, <1>6 DEF AtHello, AtConfig, AtWork
<1>10. AfterWork(c)' /\ AtClient(c)'
  BY <1>1, <1>2, <1>3, <1>4, <1>6 DEF LinkInv, AfterWork, AtClient
<1> QED
  BY <1>3, <1>7, <1>8, <1>9, <1>10, ClientStep DEF LinkInv, serverVars, history

\* A client leaves.  What it owes the invariant is that what it has not read
\* cannot turn into a reset the handshake would write into, that it has a right
\* to be unaware of the reason, and that the loop is left in one of two ways.
LEMMA LeaveInv ==
    ASSUME Inv, NEW c \in Clients, NEW why \in Outcomes, NEW unread, Leave(c, why, unread),
           cli[c] # "closed",
           known[c] \/ why \in {"EACCES", "timeout", "refused"} \/ c \in lost,
           srv[c] \in {"none", "backlog", "queued", "hello"} => unread = <<>>,
           srv[c] = "config" /\ cli[c] = "config" => unread = <<>>,
           \/ srv[c] \notin {"loop", "completing"} /\ ~(pending[c] > 0)
           \/ cli[c] = "config"
           \/ why = "aborted" /\ unread = down[c]
    PROVE  Inv'
<1>1. TypeOK /\ LinkInv(c)
  BY DEF Inv
<1>2. UNCHANGED <<once, proc, queue, srv, pending, up, partly, known, media, lost, killers>>
  BY DEF Leave, serverVars, history
<1>3. /\ cli' \in [Clients -> CliStates] /\ cli'[c] = "closed"
      /\ \A d \in Clients \ {c} : cli'[d] = cli[d]
  BY <1>1, BecomeType DEF Leave, CliStates
<1>4. /\ res' \in [Clients -> Outcomes] /\ res'[c] = why
      /\ \A d \in Clients \ {c} : res'[d] = res[d]
  BY <1>1 DEF Leave, TypeOK, Outcomes
<1>5. /\ peer' \in [Clients -> {"open", "fin", "refused", "reset"}]
      /\ peer'[c] = IF unread = <<>> THEN "fin" ELSE "refused"
      /\ \A d \in Clients \ {c} : peer'[d] = peer[d]
  BY <1>1 DEF Leave, TypeOK
<1>6. /\ down' \in [Clients -> Seq(ToClient)] /\ down'[c] = <<>>
      /\ \A d \in Clients \ {c} : down'[d] = down[d]
  <2>1. down \in [Clients -> Seq(ToClient)] /\ <<>> \in Seq(ToClient)
    BY <1>1 DEF TypeOK, ToClient
  <2> QED
    BY <2>1 DEF Leave
<1>7. TypeOK'
  BY <1>1, <1>2, <1>3, <1>4, <1>5, <1>6 DEF TypeOK, ToClient, CliStates, Outcomes
<1>8. \A d \in Clients \ {c} : Same(d)
  BY <1>2, <1>3, <1>4, <1>5, <1>6 DEF Same
<1>9. AtHello(c)'
  BY <1>1, <1>2, <1>3, <1>5, <1>6 DEF LinkInv, AtHello
<1>10. AtConfig(c)'
  BY <1>1, <1>2, <1>3, <1>5, <1>6 DEF LinkInv, AtConfig
<1>11. AtWork(c)'
  BY <1>1, <1>2, <1>3, <1>4, <1>5, <1>6 DEF LinkInv, AtWork
<1>12. AfterWork(c)' /\ AtClient(c)'
  BY <1>1, <1>2, <1>3, <1>4, <1>5, <1>6 DEF LinkInv, AfterWork, AtClient
<1> QED
  BY <1>2, <1>7, <1>8, <1>9, <1>10, <1>11, <1>12, ClientStep DEF LinkInv, serverVars, history

\* While a client waits for an answer, the server's phase says which it can be.
LEMMA Awaiting ==
    ASSUME Inv, NEW c \in Clients, cli[c] \in {"hello", "config"}
    PROVE  /\ srv[c] \in {"none", "backlog", "queued", "hello"} => down[c] = <<>>
           /\ srv[c] \in {"loop", "completing"} \/ pending[c] > 0 =>
                 cli[c] = "config" /\ down[c] = <<"CONFIGURE_ACK">>
           /\ cli[c] = "config" => known[c]
           /\ srv[c] = "config" => known[c]
           /\ srv[c] = "config" /\ cli[c] = "config" => down[c] = <<>>
           /\ cli[c] = "hello" /\ srv[c] = "closed" /\ down[c] = <<>> => known[c] \/ c \in lost
BY One DEF Inv, LinkInv, AtHello, AtConfig, AtWork, AfterWork, AtClient

LEMMA OpeningInv ==
    ASSUME Inv, NEW c \in Clients,
           ConnectFails(c) \/ Unauthorised(c) \/ Unexpected(c) \/ NoAnswer(c) \/ AnswerLate(c)
    PROVE  Inv'
<1>1. TypeOK /\ LinkInv(c)
  BY DEF Inv
<1>2. CASE ConnectFails(c)
  <2>1. /\ cli[c] = "start" /\ Leave(c, "refused", <<>>) /\ srv[c] = "none"
        /\ ~(pending[c] > 0)
    BY <1>1, <1>2 DEF ConnectFails, LinkInv, AtClient, AfterWork
  <2> QED
    BY <2>1, LeaveInv DEF Outcomes
<1>3. CASE Unauthorised(c)
  <2>1. cli[c] = "hello" /\ down[c] # <<>> /\ Leave(c, "EACCES", Tail(down[c]))
    BY <1>3 DEF Unauthorised, Answered
  <2> QED
    BY <2>1, LeaveInv, Awaiting DEF Outcomes
<1>4. CASE Unexpected(c)
  <2>1. cli[c] = "config" /\ down[c] # <<>> /\ Leave(c, "INVALIDDATA", Tail(down[c]))
    BY <1>4 DEF Unexpected, Answered
  <2> QED
    BY <2>1, LeaveInv, Awaiting DEF Outcomes
<1>5. CASE NoAnswer(c)
  <2>1. /\ cli[c] \in {"hello", "config"} /\ down[c] = <<>>
        /\ Leave(c, IF srv[c] = "closed" THEN "EOF" ELSE "timeout", <<>>)
    BY <1>5 DEF NoAnswer
  <2>2. srv[c] \notin {"loop", "completing"} /\ ~(pending[c] > 0)
    BY <2>1, Awaiting, One
  <2> QED
    BY <2>1, <2>2, LeaveInv, Awaiting DEF Outcomes
<1>6. CASE AnswerLate(c)
  <2>1. /\ cli[c] \in {"hello", "config"} /\ down[c] # <<>>
        /\ Leave(c, "timeout", down[c])
    BY <1>6 DEF AnswerLate
  <2> QED
    BY <2>1, LeaveInv, Awaiting DEF Outcomes
<1> QED
  BY <1>2, <1>3, <1>4, <1>5, <1>6

LEMMA EndingsInv ==
    ASSUME Inv, NEW c \in Clients, ReadDone(c) \/ StreamEnds(c) \/ Abort(c)
    PROVE  Inv'
<1>1. TypeOK /\ LinkInv(c)
  BY DEF Inv
<1>2. /\ cli[c] \in {"streaming", "flushing"} /\ known[c]
      /\ srv[c] \in {"loop", "completing", "unwinding", "closed"}
  BY <1>1 DEF ReadDone, StreamEnds, Abort, LinkInv, AtClient
<1>3. CASE ReadDone(c)
  <2>1. Leave(c, "done", Tail(down[c])) /\ down[c] # <<>> /\ Head(down[c]) = "DONE"
    BY <1>3 DEF ReadDone, Answered
  <2>2. down[c][1] = "DONE" /\ 1 \in DOMAIN down[c]
    BY <1>1, <2>1, HeadAndTail DEF TypeOK
  <2>3. srv[c] \notin {"loop", "completing"} /\ ~(pending[c] > 0)
    BY <1>1, <1>2, <2>2 DEF LinkInv, AtWork
  <2> QED
    BY <1>2, <2>1, <2>3, LeaveInv DEF Outcomes
<1>4. CASE StreamEnds(c)
  <2>1. Leave(c, "EOF", <<>>) /\ srv[c] = "closed" /\ ~(pending[c] > 0)
    BY <1>1, <1>4 DEF StreamEnds, LinkInv, AfterWork
  <2> QED
    BY <1>2, <2>1, LeaveInv DEF Outcomes
<1>5. CASE Abort(c)
  <2>1. Leave(c, "aborted", down[c])
    BY <1>5 DEF Abort
  <2> QED
    BY <1>2, <2>1, LeaveInv DEF Outcomes
<1> QED
  BY <1>3, <1>4, <1>5

LEMMA SendMediaInv ==
    ASSUME Inv, NEW c \in Clients, SendMedia(c)
    PROVE  Inv'
<1>1. TypeOK /\ LinkInv(c)
  BY DEF Inv
<1>2. cli[c] = "streaming" /\ media[c] < MaxMedia /\ Send(c, "MEDIA")
      /\ srv[c] \in {"loop", "completing", "unwinding", "closed"}
  BY <1>1 DEF SendMedia, LinkInv, AtClient
<1>3. UNCHANGED <<once, proc, queue, srv, pending, peer, down, cli, known, res, lost, killers>>
  BY DEF SendMedia, serverVars, history
<1>4. /\ media' \in [Clients -> 0 .. MaxMedia] /\ media'[c] = media[c] + 1 /\ media[c] \in Nat
      /\ \A d \in Clients \ {c} : media'[d] = media[d]
  BY <1>1, DaemonAssumption DEF SendMedia, TypeOK
<1>5. /\ up' \in [Clients -> Seq(ToServer)] /\ partly' \in [Clients -> BOOLEAN]
      /\ \A d \in Clients \ {c} : up'[d] = up[d]
  <2>1. "MEDIA" \in ToServer
    BY DEF ToServer
  <2> QED
    BY <1>1, <1>2, <2>1, Sent
<1>6. TypeOK'
  BY <1>1, <1>3, <1>4, <1>5 DEF TypeOK, ToServer
<1>7. \A d \in Clients \ {c} : Same(d)
  BY <1>3, <1>4, <1>5 DEF Same
<1>8. AtHello(c)' /\ AtConfig(c)' /\ AtWork(c)'
  BY <1>1, <1>2, <1>3, <1>4 DEF LinkInv, AtHello, AtConfig, AtWork
<1>9. AfterWork(c)' /\ AtClient(c)'
  BY <1>1, <1>2, <1>3, <1>4 DEF LinkInv, AfterWork, AtClient
<1> QED
  BY <1>3, <1>6, <1>7, <1>8, <1>9, ClientStep DEF LinkInv, serverVars, history

LEMMA SendFlushInv ==
    ASSUME Inv, NEW c \in Clients, SendFlush(c)
    PROVE  Inv'
<1>1. TypeOK /\ LinkInv(c)
  BY DEF Inv
<1>2. cli[c] = "streaming" /\ Send(c, "FLUSH")
      /\ srv[c] \in {"loop", "completing", "unwinding", "closed"}
  BY <1>1 DEF SendFlush, LinkInv, AtClient
<1>3. UNCHANGED <<once, proc, queue, srv, pending, peer, down, known, media, res, lost, killers>>
  BY DEF SendFlush, serverVars, history
<1>4. /\ cli' \in [Clients -> CliStates] /\ cli'[c] = "flushing"
      /\ \A d \in Clients \ {c} : cli'[d] = cli[d]
  BY <1>1, BecomeType DEF SendFlush, CliStates
<1>5. /\ up' \in [Clients -> Seq(ToServer)] /\ partly' \in [Clients -> BOOLEAN]
      /\ \A d \in Clients \ {c} : up'[d] = up[d]
      /\ \A i \in DOMAIN up'[c] :
            (i \in DOMAIN up[c] /\ up'[c][i] = up[c][i]) \/ up'[c][i] = "FLUSH"
  <2>1. "FLUSH" \in ToServer
    BY DEF ToServer
  <2> QED
    BY <1>1, <1>2, <2>1, Sent
<1>6. TypeOK'
  BY <1>1, <1>3, <1>4, <1>5 DEF TypeOK, ToServer, CliStates
<1>7. \A d \in Clients \ {c} : Same(d)
  BY <1>3, <1>4, <1>5 DEF Same
<1>8. AtHello(c)' /\ AtConfig(c)' /\ AtWork(c)'
  BY <1>1, <1>2, <1>3, <1>4 DEF LinkInv, AtHello, AtConfig, AtWork
<1>9. AfterWork(c)' /\ AtClient(c)'
  BY <1>1, <1>2, <1>3, <1>4, <1>5 DEF LinkInv, AfterWork, AtClient
<1> QED
  BY <1>3, <1>6, <1>7, <1>8, <1>9, ClientStep DEF LinkInv, serverVars, history

LEMMA CompleteInv ==
    ASSUME Inv, NEW c \in Clients, Complete(c)
    PROVE  Inv'
<1>1. UNCHANGED <<once, proc, queue, srv, pending, peer, up, down, cli, known, media, res, lost, killers>>
  BY DEF Complete, serverVars, history
<1>2. TypeOK' /\ LinkInv(c)
  BY <1>1 DEF Inv, TypeOK, Complete
<1>3. \A d \in Clients : Same(d)
  BY <1>1 DEF Same
<1>4. LinkInv(c)'
  BY <1>1, <1>2, <1>3, SameLink
<1> QED
  BY <1>1, <1>2, <1>3, <1>4, ClientStep DEF serverVars, history

LEMMA ReadOutputInv ==
    ASSUME Inv, NEW c \in Clients, ReadOutput(c)
    PROVE  Inv'
<1>1. TypeOK /\ LinkInv(c)
  BY DEF Inv
<1>2. /\ cli[c] \in {"streaming", "flushing"} /\ down[c] # <<>>
      /\ down' = [down EXCEPT ![c] = Tail(down[c])]
      /\ srv[c] \in {"loop", "completing", "unwinding", "closed"}
  BY <1>1 DEF ReadOutput, Answered, LinkInv, AtClient
<1>3. UNCHANGED <<once, proc, queue, srv, pending, peer, up, cli, partly, known, media, res, lost, killers>>
  BY DEF ReadOutput, serverVars, clientVars, history
<1>4. /\ down' \in [Clients -> Seq(ToClient)]
      /\ \A i \in DOMAIN down'[c] : i + 1 \in DOMAIN down[c] /\ down'[c][i] = down[c][i + 1]
      /\ \A d \in Clients \ {c} : down'[d] = down[d]
  BY <1>1, <1>2, ReadOff
<1>5. TypeOK'
  BY <1>1, <1>3, <1>4 DEF TypeOK, ToClient
<1>6. \A d \in Clients \ {c} : Same(d)
  BY <1>3, <1>4 DEF Same
<1>7. AtHello(c)' /\ AtConfig(c)' /\ AtWork(c)'
  BY <1>1, <1>2, <1>3, <1>4 DEF LinkInv, AtHello, AtConfig, AtWork
<1>8. AfterWork(c)' /\ AtClient(c)'
  BY <1>1, <1>2, <1>3, <1>4 DEF LinkInv, AfterWork, AtClient
<1> QED
  BY <1>3, <1>5, <1>6, <1>7, <1>8, ClientStep DEF LinkInv, serverVars, history

-------------------------------------------------------------------------------
(***************************************************************************)
(* The theorems.                                                           *)
(***************************************************************************)
LEMMA InvInit ==
    ASSUME Init
    PROVE  Inv
<1>1. TypeOK
  <2>1. <<>> \in Seq(Clients) /\ \A S : <<>> \in Seq(S)
    OBVIOUS
  <2> QED
    BY <2>1, DaemonAssumption DEF Init, TypeOK, Phases
<1>2. QueueInv
  BY DEF Init, QueueInv
<1>3. ASSUME NEW c \in Clients
      PROVE  LinkInv(c)
  BY <1>3 DEF Init, LinkInv, AtHello, AtConfig, AtWork, AfterWork, AtClient
<1> QED
  BY <1>1, <1>2, <1>3 DEF Inv

\* Nothing of any connection changes.
LEMMA InvStutter ==
    ASSUME Inv, UNCHANGED <<queue, srv, pending, peer, up, down, clientVars, history>>, TypeOK'
    PROVE  Inv'
<1>1. QueueInv'
  BY DEF Inv, QueueInv
<1>2. ASSUME NEW d \in Clients
      PROVE  LinkInv(d)'
  BY <1>2, SameLink DEF Inv, Same, clientVars, history
<1> QED
  BY <1>1, <1>2 DEF Inv

LEMMA InvNext ==
    ASSUME Inv, [Next]_vars
    PROVE  Inv'
<1>1. CASE Start
  BY <1>1, StartInv
<1>2. CASE Restart
  <2>1. UNCHANGED <<queue, srv, pending, peer, up, down, clientVars, history>>
    BY <1>2 DEF Restart
  <2>2. TypeOK'
    BY <1>2 DEF Inv, TypeOK, Restart, clientVars, history
  <2> QED
    BY <2>1, <2>2, InvStutter
<1>3. ASSUME NEW c \in Clients,
             Accept(c) \/ Handler(c) \/ Emit(c) \/ Sigpipe(c) \/ ResetArrives(c)
      PROVE  Inv'
  BY <1>3, AcceptInv, HandshakeInv, ConfigureInv, ReadMediaInv, ReadFlushInv, SendDoneInv,
     UnwindInv, EmitInv, SigpipeInv, ResetArrivesInv DEF Handler
<1>4. ASSUME NEW c \in Clients,
             Connect(c) \/ ConnectFails(c) \/ Complete(c) \/ Opening(c) \/ Streaming(c)
      PROVE  Inv'
  BY <1>4, ConnectInv, CompleteInv, OpeningInv, SendConfigureInv, ConfiguredInv, SendMediaInv,
     SendFlushInv, ReadOutputInv, EndingsInv DEF Opening, Streaming
<1>5. CASE UNCHANGED vars
  <2>1. TypeOK'
    BY <1>5 DEF Inv, TypeOK, vars, serverVars, clientVars, history
  <2> QED
    BY <1>5, <2>1, InvStutter DEF vars, serverVars
<1> QED
  BY <1>1, <1>2, <1>3, <1>4, <1>5 DEF Next, Terminated

LEMMA Invariant == Spec => []Inv
BY InvInit, InvNext, PTL DEF Spec

\* Type correctness.
THEOREM DaemonTypes == Spec => []TypeOK
<1>1. Inv => TypeOK
  BY DEF Inv
<1> QED
  BY <1>1, Invariant, PTL

\* A client whose init succeeded had the right token, and the server has set up
\* its codec session, for any number of clients, handlers and restarts.
THEOREM InitMeansAgreement == Spec => []ConnectedMeansAgreed
<1>1. Inv => ConnectedMeansAgreed
  BY DEF Inv, LinkInv, AtClient, ConnectedMeansAgreed
<1> QED
  BY <1>1, Invariant, PTL

\* A client with a wrong token is told so, unless it does not wait for it or the
\* process ends: the reset of a connection closed at once never takes the answer
\* away, because such a client has nothing unread at the server by then.
THEOREM RefusalIsTold == Spec => []RefusedKnowsWhy
<1>1. Inv => RefusedKnowsWhy
  BY DEF Inv, LinkInv, AtClient, RefusedKnowsWhy
<1> QED
  BY <1>1, Invariant, PTL

\* SIGPIPE can come only from a client that left in mid-stream, having sent media.
THEOREM OnlyStreamsKill == Spec => []OnlyAbortsKill
<1>1. Inv => OnlyAbortsKill
  BY DEF Inv, TypeOK, LinkInv, AtClient, OnlyAbortsKill
<1> QED
  BY <1>1, Invariant, PTL
===============================================================================
