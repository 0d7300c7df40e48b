------------------------------ MODULE Handshake ------------------------------
(***************************************************************************)
(* Layers 2 and 3 of one connection: the handshake with the chat server    *)
(* (CSP), proxied by the mediator server, interleaved with the handshake   *)
(* with the mediator server itself (D2M), and the gates through which      *)
(* tasks write.  The two handshakes are independent: the mediator may      *)
(* relay the chat server's frames before or after its own.  A pass of a    *)
(* message through layers 1 to 4 is one synchronous call, thus one action. *)
(* The servers are external; the mediator may send one message out of turn.*)
(***************************************************************************)
EXTENDS Naturals, Sequences, FiniteSets

CONSTANTS
    CspTask,    \* tasks that write to the chat server
    D2mTask,    \* tasks that write to the mediator server
    MaxEcho,    \* bound: echo requests, by timer and by the chat server each
    MaxMsg      \* bound: messages that wait at each server

ASSUME HandshakeAssumption ==
    /\ CspTask \cap D2mTask = {}
    /\ MaxEcho \in Nat /\ MaxMsg \in Nat

VARIABLES
    type,       \* the pipeline: "full" or "d2m-only"
    csp,        \* csp.state, csp.csn, csp.ssn
    d2m,        \* d2m.state and its promises: serverInfo, reflectionQueueDry,
                \* promotedToLeader
    conn,       \* the connection state that is shown
    open,       \* no codec has thrown and nobody has disconnected
    start,      \* the reactions to csp.authenticated (and promotedToLeader)
                \* that have run, and the echo timer
    task,       \* where the write of each task is
    read,       \* what layer 4 passed on: "reflected" and "message"
    up,         \* frames under way to the servers
    down,       \* frames under way to the client
    chat,       \* the chat server
    med         \* the mediator server

client  == <<type, csp, d2m, conn, open, start, task, read>>
servers == <<chat, med>>
vars    == <<client, up, down, servers>>

Task == CspTask \cup D2mTask
CspKind == {"client-hello", "login", "payload", "unblock", "server-hello",
            "login-ack", "message", "discarded"}
D2mKind == {"client-hello", "payload", "drop-device", "server-hello",
            "old-server-hello", "server-info", "reflected", "dry", "leader"}
Frame == [to : {"csp"}, kind : CspKind, n : Nat] \cup [to : {"d2m"}, kind : D2mKind]

TypeOK ==
    /\ type \in {"full", "d2m-only"}
    /\ csp \in [state : {"client-hello", "server-hello", "login-ack", "complete"},
                csn : Nat, ssn : Nat]
    /\ d2m \in [state : {"server-hello", "complete"},
                info : BOOLEAN, dry : BOOLEAN, leader : BOOLEAN]
    /\ conn \in {"handshake", "partially-connected", "connected"}
    /\ open \in BOOLEAN
    /\ start \in [unblock : BOOLEAN, idle : BOOLEAN,
                  echo : {"off", "on", "cancelled"}, echoes : 0..MaxEcho]
    /\ task \in [Task -> {"waiting", "queued", "written", "refused"}]
    /\ read \in Seq({"reflected", "message"})
    /\ up \in Seq(Frame) /\ down \in Seq(Frame)
    /\ chat \in [state : {"hello", "login", "ready"}, csn : Nat, ssn : Nat,
                 failed : BOOLEAN, unblocked : BOOLEAN,
                 messages : 0..MaxMsg, echoes : 0..MaxEcho]
    /\ med \in [state : {"start", "hello", "ready"}, reflected : 0..MaxMsg,
                dry : BOOLEAN, leader : BOOLEAN, faults : 0..1]

Csp(kind, n) == [to |-> "csp", kind |-> kind, n |-> n]
D2m(kind)    == [to |-> "d2m", kind |-> kind]

\* Layer3Encoder.start: the full pipeline sends its CSP client-hello at once.
Init ==
    /\ type \in {"full", "d2m-only"}
    /\ csp = [state |-> IF type = "full" THEN "server-hello" ELSE "client-hello",
              csn |-> 0, ssn |-> 0]
    /\ d2m = [state |-> "server-hello", info |-> FALSE, dry |-> FALSE, leader |-> FALSE]
    /\ conn = "handshake"
    /\ open = TRUE
    /\ start = [unblock |-> FALSE, idle |-> FALSE, echo |-> "off", echoes |-> 0]
    /\ task = [t \in Task |-> "waiting"]
    /\ read = <<>>
    /\ up = IF type = "full" THEN <<Csp("client-hello", 0)>> ELSE <<>>
    /\ down = <<>>
    /\ chat = [state |-> "hello", csn |-> 0, ssn |-> 0, failed |-> FALSE,
               unblocked |-> FALSE, messages |-> MaxMsg, echoes |-> 0]
    /\ med = [state |-> "start", reflected |-> MaxMsg, dry |-> FALSE,
              leader |-> FALSE, faults |-> 0]

-----------------------------------------------------------------------------
(* Decoding: layers 2 and 3 *)

CspComplete == csp.state = "complete"
D2mComplete == d2m.state = "complete"

\* A codec throws: the pipeline is errored and the connection closes.
Throw ==
    /\ open' = FALSE
    /\ up' = <<>>
    /\ UNCHANGED <<type, csp, d2m, conn, start, task, read>>

\* Both protocols have a part in the state that is shown.
ShowConnected(other) ==
    conn' = IF other THEN "connected" ELSE "partially-connected"

\* Layer 2 picks the struct by csp.state; a frame of another struct does not
\* decode, one with another sequence number does not decrypt.
Readable(m) ==
    /\ m.n = csp.ssn + 1
    /\ CASE csp.state = "client-hello" -> FALSE
         [] csp.state = "server-hello" -> m.kind = "server-hello"
         [] csp.state = "login-ack"    -> m.kind = "login-ack"
         [] csp.state = "complete"     -> m.kind \in {"payload", "message", "discarded"}

\* Faulty variant: the extensions of the login take no sequence number.
HandleServerHelloOnce ==
    /\ csp' = [csp EXCEPT !.state = "login-ack", !.ssn = @ + 1, !.csn = @ + 1]
    /\ up' = Append(up, Csp("login", csp.csn + 1))
    /\ UNCHANGED <<type, d2m, conn, open, start, task, read>>

\* _handleCspServerHello and login, which takes two sequence numbers
HandleServerHello ==
    /\ csp' = [csp EXCEPT !.state = "login-ack", !.ssn = @ + 1, !.csn = @ + 2]
    /\ up' = Append(up, Csp("login", csp.csn + 1))
    /\ UNCHANGED <<type, d2m, conn, open, start, task, read>>

HandleLoginAck ==
    /\ csp' = [csp EXCEPT !.state = "complete", !.ssn = @ + 1]
    /\ ShowConnected(D2mComplete)
    /\ UNCHANGED <<type, d2m, open, start, task, read, up>>

\* _handleCspPayloadFrame and layer 4: an echo request ("payload") is answered
\* through layer 3, whose _validateState also wants D2M to be complete.
HandlePayload(m) ==
    IF m.kind = "payload" /\ ~D2mComplete THEN Throw
    ELSE /\ csp' = [csp EXCEPT !.ssn = @ + 1,
                               !.csn = IF m.kind = "payload" THEN @ + 1 ELSE @]
         /\ up' = IF m.kind = "payload" THEN Append(up, Csp("payload", csp.csn + 1)) ELSE up
         /\ read' = IF m.kind = "message" THEN Append(read, "message") ELSE read
         /\ UNCHANGED <<type, d2m, conn, open, start, task>>

HandleCspMessage(m) ==
    IF ~Readable(m) THEN Throw
    ELSE \/ csp.state = "server-hello" /\ HandleServerHello
         \/ csp.state = "login-ack" /\ HandleLoginAck
         \/ CspComplete /\ HandlePayload(m)

\* The mediator's hello; an old version disconnects and throws
HandleD2mHello(m) ==
    IF m.kind # "server-hello" THEN Throw
    ELSE /\ d2m' = [d2m EXCEPT !.state = "complete"]
         /\ up' = Append(up, D2m("client-hello"))
         /\ IF type = "full" THEN ShowConnected(CspComplete) ELSE ShowConnected(FALSE)
         /\ UNCHANGED <<type, csp, open, start, task, read>>

\* Faulty variant: the promotion is not noticed.
HandleD2mPayloadDeaf(m) ==
    IF (m.kind = "server-info") = d2m.info \/ m.kind \in {"server-hello", "old-server-hello"}
    THEN Throw
    ELSE /\ d2m' = [d2m EXCEPT !.info = TRUE, !.dry = @ \/ m.kind = "dry"]
         /\ read' = IF m.kind = "reflected" /\ type = "full"
                    THEN Append(read, "reflected") ELSE read
         /\ UNCHANGED <<type, csp, conn, open, start, task, up>>

\* The first message has to be the server info and no handshake message is
\* repeated; the d2m-only pipeline drops what it would forward.
HandleD2mPayload(m) ==
    IF (m.kind = "server-info") = d2m.info \/ m.kind \in {"server-hello", "old-server-hello"}
    THEN Throw
    ELSE /\ d2m' = [d2m EXCEPT !.info = TRUE,
                               !.dry = @ \/ m.kind = "dry",
                               !.leader = @ \/ m.kind = "leader"]
         /\ read' = IF m.kind = "reflected" /\ type = "full"
                    THEN Append(read, "reflected") ELSE read
         /\ UNCHANGED <<type, csp, conn, open, start, task, up>>

HandleD2mMessage(m) ==
    IF D2mComplete THEN HandleD2mPayload(m) ELSE HandleD2mHello(m)

Receive ==
    /\ open /\ down # <<>>
    /\ LET m == Head(down)
       IN  IF m.to = "csp" THEN HandleCspMessage(m) ELSE HandleD2mMessage(m)
    /\ down' = IF open' THEN Tail(down) ELSE <<>>
    /\ UNCHANGED servers

-----------------------------------------------------------------------------
(* Encoding: layer 3, and what layers 3 and 4 start by themselves *)

SendPayload(kind) ==
    /\ csp' = [csp EXCEPT !.csn = @ + 1]
    /\ up' = Append(up, Csp(kind, csp.csn + 1))

\* _validateState
Valid(to) == D2mComplete /\ (to = "csp" => CspComplete)

\* Faulty variant: unblocks without waiting for the promotion.
UnblockEarly ==
    /\ type = "full" /\ CspComplete /\ ~start.unblock
    /\ start' = [start EXCEPT !.unblock = TRUE]
    /\ IF open THEN SendPayload("unblock") ELSE UNCHANGED <<csp, up>>
    /\ UNCHANGED <<type, d2m, conn, open, task, read, down, servers>>

\* Promise.all([csp.authenticated, d2m.promotedToLeader]).then(...): forwards
\* below _validateState.  The frame is encrypted even if the pipeline is gone.
Unblock ==
    /\ type = "full" /\ CspComplete /\ d2m.leader /\ ~start.unblock
    /\ start' = [start EXCEPT !.unblock = TRUE]
    /\ IF open THEN SendPayload("unblock") ELSE UNCHANGED <<csp, up>>
    /\ UNCHANGED <<type, d2m, conn, open, task, read, down, servers>>

\* Layer4Encoder.start after csp.authenticated: the echo timer, and the idle
\* timeout, whose refusal by layer 3 is swallowed.
StartKeepAlive ==
    /\ type = "full" /\ open /\ CspComplete /\ ~start.idle
    /\ start' = [start EXCEPT !.idle = TRUE, !.echo = "on"]
    /\ IF Valid("csp") THEN SendPayload("payload") ELSE UNCHANGED <<csp, up>>
    /\ UNCHANGED <<type, d2m, conn, open, task, read, down, servers>>

\* The timer fires: a refusal cancels it.
EchoTick ==
    /\ open /\ start.echo = "on" /\ start.echoes < MaxEcho
    /\ IF Valid("csp")
       THEN /\ start' = [start EXCEPT !.echoes = @ + 1]
            /\ SendPayload("payload")
       ELSE /\ start' = [start EXCEPT !.echo = "cancelled"]
            /\ UNCHANGED <<csp, up>>
    /\ UNCHANGED <<type, d2m, conn, open, task, read, down, servers>>

\* TaskCodec._write: the gate of the tasks looks at one protocol.  The task
\* manager runs on the full pipeline only.
PassGate(t) ==
    /\ type = "full" /\ task[t] = "waiting"
    /\ IF t \in CspTask THEN CspComplete ELSE D2mComplete
    /\ task' = [task EXCEPT ![t] = "queued"]
    /\ UNCHANGED <<type, csp, d2m, conn, open, start, read, up, down, servers>>

\* Layer3Encoder.transform of the message taken from the encoder queue
Write(t) ==
    /\ open /\ task[t] = "queued"
    /\ IF ~Valid(IF t \in CspTask THEN "csp" ELSE "d2m")
       THEN /\ task' = [task EXCEPT ![t] = "refused"]
            /\ open' = FALSE /\ up' = <<>>
            /\ UNCHANGED csp
       ELSE /\ task' = [task EXCEPT ![t] = "written"]
            /\ IF t \in CspTask THEN SendPayload("payload")
               ELSE up' = Append(up, D2m("payload")) /\ UNCHANGED csp
            /\ UNCHANGED open
    /\ UNCHANGED <<type, d2m, conn, start, read, down, servers>>

\* DropDeviceLayerEncoder.pull
DropDevice ==
    /\ type = "d2m-only" /\ open /\ D2mComplete /\ ~start.idle
    /\ start' = [start EXCEPT !.idle = TRUE]
    /\ up' = Append(up, D2m("drop-device"))
    /\ UNCHANGED <<type, csp, d2m, conn, open, task, read, down, servers>>

-----------------------------------------------------------------------------
(* The servers (external); nothing arrives once the connection is lost *)

ToClient(m) == down' = Append(down, m)

\* The chat server answers the handshake and counts the frames it can decrypt.
ChatReceives ==
    /\ open /\ up # <<>> /\ Head(up).to = "csp"
    /\ up' = Tail(up)
    /\ LET m == Head(up)
           next == CASE chat.state = "hello" -> m.kind = "client-hello" /\ m.n = 0
                     [] chat.state = "login" -> m.kind = "login" /\ m.n = 1
                     [] chat.state = "ready" -> /\ m.kind \in {"payload", "unblock"}
                                                /\ m.n = chat.csn + 1
       IN  IF ~next THEN chat' = [chat EXCEPT !.failed = TRUE] /\ UNCHANGED down
           ELSE \/ /\ chat.state = "hello"
                   /\ chat' = [chat EXCEPT !.state = "login", !.ssn = 1]
                   /\ ToClient(Csp("server-hello", 1))
                \/ /\ chat.state = "login"
                   /\ chat' = [chat EXCEPT !.state = "ready", !.ssn = 2, !.csn = 2]
                   /\ ToClient(Csp("login-ack", 2))
                \/ /\ chat.state = "ready"
                   /\ chat' = [chat EXCEPT !.csn = @ + 1,
                                           !.unblocked = @ \/ m.kind = "unblock"]
                   /\ UNCHANGED down
    /\ UNCHANGED <<client, med>>

\* Once logged in it sends echo requests and payloads that are discarded, once
\* unblocked the messages that wait.
ChatSends ==
    /\ open /\ chat.state = "ready"
    /\ \/ /\ chat.echoes < MaxEcho
          /\ \E kind \in {"payload", "discarded"} : ToClient(Csp(kind, chat.ssn + 1))
          /\ chat' = [chat EXCEPT !.ssn = @ + 1, !.echoes = @ + 1]
       \/ /\ chat.unblocked /\ chat.messages > 0
          /\ ToClient(Csp("message", chat.ssn + 1))
          /\ chat' = [chat EXCEPT !.ssn = @ + 1, !.messages = @ - 1]
    /\ UNCHANGED <<client, up, med>>

MediatorHello ==
    /\ open /\ med.state = "start"
    /\ med' = [med EXCEPT !.state = "hello"]
    /\ \E kind \in {"server-hello", "old-server-hello"} : ToClient(D2m(kind))
    /\ UNCHANGED <<client, up, chat>>

MediatorReceives ==
    /\ open /\ up # <<>> /\ Head(up).to = "d2m"
    /\ up' = Tail(up)
    /\ IF Head(up).kind = "client-hello"
       THEN med' = [med EXCEPT !.state = "ready"] /\ ToClient(D2m("server-info"))
       ELSE UNCHANGED <<med, down>>
    /\ UNCHANGED <<client, chat>>

\* The reflection queue, its end, then the promotion.
MediatorSends ==
    /\ open /\ med.state = "ready"
    /\ \/ /\ med.reflected > 0 /\ ToClient(D2m("reflected"))
          /\ med' = [med EXCEPT !.reflected = @ - 1]
       \/ /\ med.reflected = 0 /\ ~med.dry /\ ToClient(D2m("dry"))
          /\ med' = [med EXCEPT !.dry = TRUE]
       \/ /\ med.dry /\ ~med.leader /\ ToClient(D2m("leader"))
          /\ med' = [med EXCEPT !.leader = TRUE]
    /\ UNCHANGED <<client, up, chat>>

\* One message out of turn.
MediatorErrs ==
    /\ open /\ med.faults = 0
    /\ med' = [med EXCEPT !.faults = 1]
    /\ \E kind \in {"server-info", "server-hello", "reflected"} : ToClient(D2m(kind))
    /\ UNCHANGED <<client, up, chat>>

-----------------------------------------------------------------------------
Servers == ChatReceives \/ ChatSends \/ MediatorHello \/ MediatorReceives
           \/ MediatorSends \/ MediatorErrs

Next ==
    \/ Receive \/ Unblock \/ StartKeepAlive \/ EchoTick \/ DropDevice
    \/ \E t \in Task : PassGate(t) \/ Write(t)
    \/ Servers

Spec == Init /\ [][Next]_vars

\* Streams, promises and the encoder queue are served.
Fairness ==
    /\ WF_vars(Receive) /\ WF_vars(Unblock) /\ WF_vars(StartKeepAlive)
    /\ \A t \in Task : WF_vars(PassGate(t) \/ Write(t))
    /\ WF_vars(ChatReceives) /\ WF_vars(MediatorHello) /\ WF_vars(MediatorReceives)
    /\ WF_vars(MediatorSends)
    /\ WF_vars(chat.unblocked /\ ChatSends)

FairSpec == Spec /\ Fairness

-----------------------------------------------------------------------------
(* Properties *)

\* The chat server can decrypt every frame in the order in which it arrives:
\* whoever writes - the handshake, the timers, an echo response, a task - the
\* sequence numbers follow the order of the frames, none is skipped or reused.
NoncesInStep == ~chat.failed

\* Layers 3 and the servers together: no message of the chat server reaches the
\* tasks before every message of the reflection queue did, although the two
\* come from different servers (a message could be shown twice otherwise).
QueueDryFirst ==
    \A i \in DOMAIN read : read[i] = "message" =>
        Cardinality({k \in 1..i : read[k] = "reflected"}) >= MaxMsg

\* A full connection that stays open gets the messages that wait at the chat
\* server: they are unblocked however the two handshakes overlap.
QueueDrained ==
    <>(\/ type = "d2m-only" \/ ~open
       \/ Len(SelectSeq(read, LAMBDA k : k = "message")) = MaxMsg)
=============================================================================
