--------------------------------- MODULE Daemon ---------------------------------
(***************************************************************************)
(* The life of the vtremoted process and of the connections to it: the     *)
(* accept loop of VTRServer, the thread each connection is given, HELLO    *)
(* and CONFIGURE on both sides, and how a connection or the whole process  *)
(* ends.  Media is counted here; EncSession and DecSession look into it.   *)
(*                                                                         *)
(* A write to a client that has closed succeeds and provokes a reset.  A   *)
(* write after the reset raises SIGPIPE, which neither vtremoted nor its   *)
(* sockets ignore: the process ends, with every session in it, and launchd *)
(* starts it again (KeepAlive).                                            *)
(***************************************************************************)
EXTENDS Naturals, Sequences, FiniteSets

CONSTANTS
    Clients,        \* clients, each with one connection in its life
    MaxWorkers,     \* handlers GCD can run at a time
    DownCap,        \* messages the sockets hold for a client that does not read
    MaxMedia        \* bound: FRAMEs or PACKETs a client sends

ASSUME DaemonAssumption ==
    /\ IsFiniteSet(Clients)
    /\ MaxWorkers \in Nat \ {0}
    /\ DownCap \in Nat \ {0}
    /\ MaxMedia \in Nat

VARIABLES
    once,           \* the --once argument
    proc,           \* the process: "up", "killed", or "exited" after --once
    queue,          \* connections accepted, whose block GCD has not started
    srv,            \* srv[c]: where the server is with the connection
    pending,        \* pending[c]: media in the codec session
    peer,           \* peer[c]: the client's end: "open", "fin" once closed,
                    \* "refused" once bytes met it closed, "reset" once the
                    \* server knows
    up, down,       \* up[c], down[c]: messages written and not read
    cli,            \* cli[c]: where the client is
    partly,         \* partly[c]: it has sent a part of its last message only
    known,          \* known[c]: its token is the one vtremoted expects
    media,          \* media[c]: FRAMEs or PACKETs sent
    res,            \* res[c]: how the connection ended for the client
    lost,           \* history: clients cut off by the end of the process
    killers         \* history: clients a write to whom raised SIGPIPE

serverVars == <<once, proc, queue, srv, pending>>
clientVars == <<cli, partly, known, media, res>>
history == <<lost, killers>>
vars == <<serverVars, peer, up, down, clientVars, history>>

Reading == {"hello", "config", "loop"}
Handled == Reading \cup {"completing", "unwinding"}
Phases  == Handled \cup {"none", "backlog", "queued", "closed"}

TypeOK ==
    /\ once \in BOOLEAN
    /\ proc \in {"up", "killed", "exited"}
    /\ queue \in Seq(Clients)
    /\ srv \in [Clients -> Phases]
    /\ pending \in [Clients -> Nat]
    /\ peer \in [Clients -> {"open", "fin", "refused", "reset"}]
    /\ up \in [Clients -> Seq({"HELLO", "CONFIGURE", "MEDIA", "FLUSH"})]
    /\ down \in [Clients -> Seq({"ACK", "NACK", "CONFIGURE_ACK", "ERROR", "MEDIA", "DONE"})]
    /\ cli \in [Clients -> {"start", "hello", "config", "streaming", "flushing", "closed"}]
    /\ partly \in [Clients -> BOOLEAN]
    /\ known \in [Clients -> BOOLEAN]
    /\ media \in [Clients -> 0 .. MaxMedia]
    /\ res \in [Clients -> {"none", "refused", "EACCES", "INVALIDDATA", "timeout",
                            "EOF", "done", "aborted"}]
    /\ lost \subseteq Clients
    /\ killers \subseteq Clients

Init ==
    /\ once \in BOOLEAN
    /\ proc = "up"
    /\ queue = <<>>
    /\ srv = [c \in Clients |-> "none"]
    /\ pending = [c \in Clients |-> 0]
    /\ peer = [c \in Clients |-> "open"]
    /\ up = [c \in Clients |-> <<>>]
    /\ down = [c \in Clients |-> <<>>]
    /\ cli = [c \in Clients |-> "start"]
    /\ partly = [c \in Clients |-> FALSE]
    /\ known \in [Clients -> BOOLEAN]
    /\ media = [c \in Clients |-> 0]
    /\ res = [c \in Clients |-> "none"]
    /\ lost = {}
    /\ killers = {}

-------------------------------------------------------------------------------
(***************************************************************************)
(* VTRServer.run.                                                          *)
(***************************************************************************)
Goto(c, phase) == srv' = [srv EXCEPT ![c] = phase]
Connected == {c \in Clients : srv[c] \notin {"none", "closed"}}
Running == {c \in Clients : srv[c] \in Handled}

Accept(c) ==
    /\ proc = "up"
    /\ srv[c] = "backlog"
    /\ IF once
       THEN Running = {} /\ Goto(c, "hello") /\ UNCHANGED queue
       ELSE Goto(c, "queued") /\ queue' = Append(queue, c)
    /\ UNCHANGED <<once, proc, pending, peer, up, down, clientVars, history>>

\* DispatchQueue.global() starts blocks in the order they were queued.
Start ==
    /\ queue # <<>>
    /\ Cardinality(Running) < MaxWorkers
    /\ Goto(Head(queue), "hello")
    /\ queue' = Tail(queue)
    /\ UNCHANGED <<once, proc, pending, peer, up, down, clientVars, history>>

\* The connections in `over` end on the server.  Closing a socket with messages
\* unread resets it, which can overtake what the client has not read.
Ending(over) ==
    /\ srv' = [c \in Clients |-> IF c \in over THEN "closed" ELSE srv[c]]
    /\ pending' = [c \in Clients |-> IF c \in over THEN 0 ELSE pending[c]]
    /\ up' = [c \in Clients |-> IF c \in over THEN <<>> ELSE up[c]]
    /\ \E cut \in SUBSET {c \in over : up[c] # <<>>} :
          down' = [c \in Clients |-> IF c \in cut THEN <<>> ELSE down[c]]

ProcessEnds(how, culprit) ==
    /\ proc' = how
    /\ queue' = <<>>
    /\ Ending(Connected)
    /\ lost' = lost \cup (Connected \ {culprit})

\* launchd starts vtremoted again, which it runs without --once.
Restart ==
    /\ proc = "killed" /\ ~once
    /\ proc' = "up"
    /\ UNCHANGED <<once, queue, srv, pending, peer, up, down, clientVars, history>>

-------------------------------------------------------------------------------
(***************************************************************************)
(* VTRClientHandler.  A handler polls 10 s for the first byte of a message, *)
(* which is taken to be longer than a message is on its way; it reads the   *)
(* rest, and writes, for as long as the client takes.  Of the messages      *)
(* mainLoop() knows, the project's clients send FRAME, PACKET and FLUSH;    *)
(* it also answers PING and skips the others.                               *)
(***************************************************************************)

\* All there is of c is the beginning of a message.
Stuck(c) == partly[c] /\ Len(up[c]) = 1

Sees(c, phase, m) ==
    /\ srv[c] = phase
    /\ up[c] # <<>> /\ Head(up[c]) = m
    /\ ~Stuck(c)

Taken(c) == up' = [up EXCEPT ![c] = Tail(@)]

\* A send of m to c, when it returns.
Written(c, m) ==
    /\ peer[c] # "reset"
    /\ peer[c] = "open" => Len(down[c]) < DownCap
    /\ peer' = [peer EXCEPT ![c] = IF @ = "fin" THEN "refused" ELSE @]
    /\ down' = IF peer[c] = "open" THEN [down EXCEPT ![c] = Append(@, m)] ELSE down

WriteDue(c) ==
    \/ Sees(c, "hello", "HELLO")
    \/ Sees(c, "config", "CONFIGURE")
    \/ srv[c] = "completing"
    \/ pending[c] > 0

\* A send that meets a connection known to be reset.
Sigpipe(c) ==
    /\ WriteDue(c)
    /\ peer[c] = "reset"
    /\ killers' = killers \cup {c}
    /\ ProcessEnds("killed", c)
    /\ UNCHANGED <<once, peer, clientVars>>

\* The bytes that met a closed client come back as a reset.
ResetArrives(c) ==
    /\ peer[c] = "refused"
    /\ peer' = [peer EXCEPT ![c] = "reset"]
    /\ UNCHANGED <<serverVars, up, down, clientVars, history>>

\* Mutated form: the token is not compared.
MutHandshake(c) ==
    /\ Sees(c, "hello", "HELLO")
    /\ Written(c, "ACK") /\ Goto(c, "config")
    /\ Taken(c)
    /\ UNCHANGED <<once, proc, queue, pending, clientVars, history>>

\* Mutated form: handshake() throws before it answers an unknown token.
MutSilent(c) ==
    /\ Sees(c, "hello", "HELLO")
    /\ IF known[c]
       THEN Written(c, "ACK") /\ Goto(c, "config")
       ELSE Goto(c, "unwinding") /\ UNCHANGED <<peer, down>>
    /\ Taken(c)
    /\ UNCHANGED <<once, proc, queue, pending, clientVars, history>>

\* handshake(): HELLO_ACK, with status 0 or, for an unknown token, 2.
Handshake(c) ==
    /\ Sees(c, "hello", "HELLO")
    /\ IF known[c]
       THEN Written(c, "ACK") /\ Goto(c, "config")
       ELSE Written(c, "NACK") /\ Goto(c, "unwinding")
    /\ Taken(c)
    /\ UNCHANGED <<once, proc, queue, pending, clientVars, history>>

\* configure(): CONFIGURE_ACK; or ERROR, for a compression that is not 0 to 2;
\* or nothing, when the session cannot be set up.
Configure(c) ==
    /\ Sees(c, "config", "CONFIGURE")
    /\ \/ Written(c, "CONFIGURE_ACK") /\ Goto(c, "loop")
       \/ Written(c, "ERROR") /\ Goto(c, "unwinding")
       \/ Goto(c, "unwinding") /\ UNCHANGED <<peer, down>>
    /\ Taken(c)
    /\ UNCHANGED <<once, proc, queue, pending, clientVars, history>>

\* mainLoop(): a FRAME or PACKET goes to the codec session, which takes it or
\* throws.  The session has room for MaxMedia.
ReadMedia(c) ==
    /\ Sees(c, "loop", "MEDIA")
    /\ \/ pending' = [pending EXCEPT ![c] = @ + 1] /\ UNCHANGED srv
       \/ Goto(c, "unwinding") /\ UNCHANGED pending
    /\ Taken(c)
    /\ UNCHANGED <<once, proc, queue, peer, down, clientVars, history>>

ReadFlush(c) ==
    /\ Sees(c, "loop", "FLUSH")
    /\ Goto(c, "completing")
    /\ Taken(c)
    /\ UNCHANGED <<once, proc, queue, pending, peer, down, clientVars, history>>

\* flush() has returned: send DONE and leave the loop.
SendDone(c) ==
    /\ srv[c] = "completing"
    /\ pending[c] = 0
    /\ Written(c, "DONE")
    /\ Goto(c, "unwinding")
    /\ UNCHANGED <<once, proc, queue, pending, up, clientVars, history>>

\* The output callback, on a thread of its own.
Emit(c) ==
    /\ pending[c] > 0
    /\ Written(c, "MEDIA")
    /\ pending' = [pending EXCEPT ![c] = @ - 1]
    /\ UNCHANGED <<once, proc, queue, srv, up, clientVars, history>>

\* Mutated form: the read waits without a timeout.
MutReadFails(c) ==
    /\ srv[c] \in Reading
    /\ up[c] = <<>> \/ Stuck(c)
    /\ peer[c] # "open"

\* readMessage() throws: the client has been silent for 10 s between two messages,
\* or is gone.
ReadFails(c) ==
    /\ srv[c] \in Reading
    /\ up[c] = <<>> \/ (Stuck(c) /\ peer[c] # "open")

\* run() returns, and the descriptor is closed.  With --once that is the end of
\* the process, and of connections it has not accepted.
Unwind(c) ==
    /\ ReadFails(c) \/ srv[c] = "unwinding"
    /\ IF once
       THEN ProcessEnds("exited", c)
       ELSE Ending({c}) /\ UNCHANGED <<proc, queue, lost>>
    /\ UNCHANGED <<once, peer, clientVars, killers>>

Handler(c) ==
    \/ Handshake(c) \/ Configure(c) \/ ReadMedia(c) \/ ReadFlush(c)
    \/ SendDone(c) \/ Unwind(c)

-------------------------------------------------------------------------------
(***************************************************************************)
(* The client: vtremote_handshake, which the encoder and the decoder each  *)
(* have, and the media it sends.  A client whose send fails in the middle  *)
(* of a message is taken to leave; EncSession looks into one that stays.   *)
(***************************************************************************)
Answered(c, m) == down[c] # <<>> /\ Head(down[c]) = m
Become(c, state) == cli' = [cli EXCEPT ![c] = state]

\* The sockets have taken m in whole or in part.
Send(c, m) ==
    /\ ~partly[c]
    /\ IF srv[c] = "closed"
       THEN UNCHANGED <<up, partly>>
       ELSE /\ up' = [up EXCEPT ![c] = Append(@, m)]
            /\ \E part \in BOOLEAN : partly' = [partly EXCEPT ![c] = part]

\* They take the rest.
Complete(c) ==
    /\ partly[c]
    /\ cli[c] # "closed"
    /\ partly' = [partly EXCEPT ![c] = FALSE]
    /\ UNCHANGED <<serverVars, peer, up, down, cli, known, media, res, history>>

\* Closing a socket with messages unread resets it.
Leave(c, why, unread) ==
    /\ Become(c, "closed")
    /\ res' = [res EXCEPT ![c] = why]
    /\ peer' = [peer EXCEPT ![c] = IF unread = <<>> THEN "fin" ELSE "refused"]
    /\ down' = [down EXCEPT ![c] = <<>>]
    /\ UNCHANGED <<serverVars, up, partly, known, media, history>>

\* Mutated form: CONFIGURE is sent without waiting for the answer to HELLO.
MutConnect(c) ==
    /\ cli[c] = "start"
    /\ proc = "up"
    /\ Become(c, "hello")
    /\ Goto(c, "backlog")
    /\ up' = [up EXCEPT ![c] = <<"HELLO", "CONFIGURE">>]
    /\ UNCHANGED <<once, proc, queue, pending, peer, down, partly, known, media, res, history>>

\* connect(), which the kernel completes, and HELLO.
Connect(c) ==
    /\ cli[c] = "start"
    /\ proc = "up"
    /\ Become(c, "hello")
    /\ Goto(c, "backlog")
    /\ up' = [up EXCEPT ![c] = <<"HELLO">>]
    /\ \E part \in BOOLEAN : partly' = [partly EXCEPT ![c] = part]
    /\ UNCHANGED <<once, proc, queue, pending, peer, down, known, media, res, history>>

ConnectFails(c) ==
    /\ cli[c] = "start"
    /\ proc # "up"
    /\ Leave(c, "refused", <<>>)

SendConfigure(c) ==
    /\ cli[c] = "hello"
    /\ Answered(c, "ACK")
    /\ Become(c, "config")
    /\ Send(c, "CONFIGURE")
    /\ down' = [down EXCEPT ![c] = Tail(@)]
    /\ UNCHANGED <<serverVars, peer, known, media, res, history>>

\* vtremote_handle_hello_ack with a status that is not 0.
Unauthorised(c) ==
    /\ cli[c] = "hello"
    /\ Answered(c, "NACK")
    /\ Leave(c, "EACCES", Tail(down[c]))

Configured(c) ==
    /\ cli[c] = "config"
    /\ Answered(c, "CONFIGURE_ACK")
    /\ Become(c, "streaming")
    /\ down' = [down EXCEPT ![c] = Tail(@)]
    /\ UNCHANGED <<serverVars, peer, up, partly, known, media, res, history>>

\* Any message that is not the answer expected; vtremoted's is ERROR.  Or the
\* encoder cannot use the extradata of CONFIGURE_ACK.
Unexpected(c) ==
    /\ cli[c] = "config"
    /\ Answered(c, "ERROR") \/ Answered(c, "CONFIGURE_ACK")
    /\ Leave(c, "INVALIDDATA", Tail(down[c]))

\* The answer does not come: the server has closed, or the timeout expires.
NoAnswer(c) ==
    /\ cli[c] \in {"hello", "config"}
    /\ down[c] = <<>>
    /\ Leave(c, IF srv[c] = "closed" THEN "EOF" ELSE "timeout", <<>>)

\* The timeout expires, or the client is killed, while the answer is on its way.
AnswerLate(c) ==
    /\ cli[c] \in {"hello", "config"}
    /\ down[c] # <<>>
    /\ Leave(c, "timeout", down[c])

SendMedia(c) ==
    /\ cli[c] = "streaming"
    /\ media[c] < MaxMedia
    /\ media' = [media EXCEPT ![c] = @ + 1]
    /\ Send(c, "MEDIA")
    /\ UNCHANGED <<serverVars, peer, down, cli, known, res, history>>

SendFlush(c) ==
    /\ cli[c] = "streaming"
    /\ Become(c, "flushing")
    /\ Send(c, "FLUSH")
    /\ UNCHANGED <<serverVars, peer, down, known, media, res, history>>

ReadOutput(c) ==
    /\ cli[c] \in {"streaming", "flushing"} /\ ~partly[c]
    /\ Answered(c, "MEDIA")
    /\ down' = [down EXCEPT ![c] = Tail(@)]
    /\ UNCHANGED <<serverVars, peer, up, clientVars, history>>

ReadDone(c) ==
    /\ cli[c] = "flushing"
    /\ Answered(c, "DONE")
    /\ Leave(c, "done", Tail(down[c]))

StreamEnds(c) ==
    /\ cli[c] \in {"streaming", "flushing"} /\ ~partly[c]
    /\ down[c] = <<>>
    /\ srv[c] = "closed"
    /\ Leave(c, "EOF", <<>>)

\* The application closes the codec early, or is killed.
Abort(c) ==
    /\ cli[c] \in {"streaming", "flushing"}
    /\ Leave(c, "aborted", down[c])

Opening(c) ==
    \/ SendConfigure(c) \/ Unauthorised(c) \/ Configured(c) \/ Unexpected(c)
    \/ NoAnswer(c) \/ AnswerLate(c)

Streaming(c) ==
    \/ SendMedia(c) \/ SendFlush(c) \/ ReadOutput(c) \/ ReadDone(c)
    \/ StreamEnds(c) \/ Abort(c)

-------------------------------------------------------------------------------
\* Every client has had its connection, and the daemon waits for others.
Terminated ==
    /\ \A c \in Clients : cli[c] = "closed" /\ srv[c] \in {"none", "closed"}
    /\ UNCHANGED vars

Next ==
    \/ Start
    \/ Restart
    \/ \E c \in Clients :
          \/ Accept(c) \/ Handler(c) \/ Emit(c) \/ Sigpipe(c) \/ ResetArrives(c)
          \/ Connect(c) \/ ConnectFails(c) \/ Complete(c) \/ Opening(c) \/ Streaming(c)
    \/ Terminated

\* The accept loop, each handler and each codec session go on.  GCD runs one
\* block at least; that a second starts is not relied on.
Fairness ==
    /\ WF_vars(Start /\ Running = {})
    /\ \A c \in Clients :
          /\ WF_vars(Accept(c))
          /\ WF_vars(Handler(c))
          /\ WF_vars(Emit(c) \/ Sigpipe(c))

Spec == Init /\ [][Next]_vars /\ Fairness

-------------------------------------------------------------------------------
(***************************************************************************)
(* Properties.                                                             *)
(***************************************************************************)

\* A client whose init succeeded had the right token, and the server has set up
\* its codec session: no frame is sent to a server that does not expect it,
\* whatever timed out, crashed or was started again on the way.
ConnectedMeansAgreed ==
    \A c \in Clients : cli[c] \in {"streaming", "flushing"} =>
        known[c] /\ srv[c] \in {"loop", "completing", "unwinding", "closed"}

\* A client with a wrong token is told so, unless it does not wait for the
\* answer or the process ends.  vtremoted closes right behind its answer, and
\* the answer would be lost if anything of the client were unread then.
RefusedKnowsWhy ==
    \A c \in Clients : cli[c] = "closed" /\ ~known[c] =>
        res[c] \in {"EACCES", "timeout", "refused"} \/ c \in lost

\* Only a client that leaves in mid-stream can make vtremoted die of SIGPIPE: not one
\* that gives up during the handshake, since the server reads after each of its
\* answers there, and not one that leaves after DONE.
OnlyAbortsKill ==
    \A c \in killers : res[c] = "aborted" /\ media[c] > 0

\* The handler of c waits for the client, and nothing limits the wait: the client
\* has stopped in the middle of a message, or does not read what is sent to it (in
\* the loop the handler would wait for room in a codec session that cannot send).
Holds(c) ==
    /\ peer[c] = "open"
    /\ \/ srv[c] \in Reading /\ Stuck(c)
       \/ srv[c] \in {"loop", "completing"} /\ Len(down[c]) >= DownCap

\* Every connection accepted gets a handler, or ends with the process, however
\* silent the clients before it are between two messages, unless one of them holds
\* its handler for ever.
AcceptedIsServed ==
    \A c \in Clients :
        (\A d \in Clients : []<>~Holds(d)) => (srv[c] = "queued" ~> srv[c] # "queued")
===============================================================================
