--------------------------- MODULE IncomingMessage ---------------------------
(***************************************************************************)
(* The path of a message from the chat server into the database:           *)
(* IncomingMessageTask with the registry of nonces, on every connection.   *)
(*                                                                         *)
(* A task awaits two sorts of things.  What goes through its handle fails  *)
(* as soon as the connection is lost.  A directory request and the         *)
(* download of a blob do not: the task of an old connection goes on, keeps *)
(* the guard of its nonce, and fails only with the next use of its handle. *)
(*                                                                         *)
(* The chat server is not part of the repository.  It is modelled from how *)
(* the client uses it: it keeps a message until that is acknowledged and   *)
(* sends what it has, in order, on every new connection.                   *)
(***************************************************************************)
EXTENDS Naturals, Sequences, Functions

CONSTANTS
    Text,       \* conversation messages
    Picture,    \* profile pictures: reflected at once, then downloaded
    Setup,      \* group setups: members are looked up before the reflection
    NoMessage,
    MaxConn     \* bound on the number of connections

Message == Text \union Picture \union Setup

ASSUME MessageAssumption ==
    /\ MaxConn \in Nat
    /\ NoMessage \notin Message
    /\ Text \intersect Picture = {} /\ (Text \union Picture) \intersect Setup = {}

VARIABLES
    sent,       \* all messages that arrived at the chat server, in order
    delivered,  \* those that the server got an acknowledgement of
    conn,       \* the number of the latest connection
    net,        \* its state
    inbound,    \* the messages under way on it, in the order of sent
    acks,       \* the acknowledgements under way on it
    cur,        \* the message that the loop of a connection processes
    step,       \* what its task is about to do or awaits
    holder,     \* the connection whose task has the NonceGuard, 0 if none has
    nonces,     \* the nonces committed to the database
    reflected,  \* the messages that the mediator server has reflected
    shown,      \* how often a text was added to its conversation
    handled,    \* the messages whose effect is in the database
    receipts    \* the texts whose delivery receipt was sent

server == <<sent, delivered>>
link   == <<conn, net, inbound>>
task   == <<cur, step>>
stored == <<nonces, shown, handled>>
vars   == <<server, link, acks, task, holder, stored, reflected, receipts>>

Conns == 1..MaxConn

\* Faulty variant: the message is acknowledged before it is saved.
FollowsAckFirst(m) ==
    IF m \in Text
      THEN [lookup |-> "reflect", reflect |-> "reflectAck", reflectAck |-> "ack",
            ack |-> "save", save |-> "receipt", receipt |-> "commit"]
      ELSE [lookup |-> "reflect", reflect |-> "reflectAck", reflectAck |-> "fetch",
            fetch |-> "apply", apply |-> "ack", ack |-> "commit"]

\* What follows on a step of a task when that goes well.
Follows(m) ==
    CASE m \in Text ->
            [lookup |-> "reflect", reflect |-> "reflectAck", reflectAck |-> "save",
             save |-> "ack", ack |-> "receipt", receipt |-> "commit"]
      [] m \in Picture ->
            [lookup |-> "reflect", reflect |-> "reflectAck", reflectAck |-> "fetch",
             fetch |-> "apply", apply |-> "ack", ack |-> "commit"]
      [] m \in Setup ->
            [lookup |-> "fetch", fetch |-> "reflect", reflect |-> "reflectAck",
             reflectAck |-> "apply", apply |-> "ack", ack |-> "commit"]

Processing == {"reflect", "reflectAck", "fetch", "save", "apply", "ack", "receipt", "commit"}
Step == Processing \union {"none", "idle", "lookup", "discard", "exited"}

TypeOK ==
    /\ sent \in Seq(Message)
    /\ inbound \subseteq Message /\ delivered \subseteq Message /\ acks \subseteq Message
    /\ conn \in 0..MaxConn /\ net \in {"up", "down"}
    /\ cur \in [Conns -> Message \union {NoMessage}]
    /\ step \in [Conns -> Step]
    /\ \A c \in Conns : cur[c] = NoMessage <=> step[c] \in {"none", "idle", "exited"}
    /\ holder \in [Message -> 0..conn]
    /\ nonces \subseteq Message /\ reflected \subseteq Message
    /\ shown \in [Message -> Nat]
    /\ handled \subseteq Message /\ receipts \subseteq Text

Init ==
    /\ sent = <<>> /\ delivered = {}
    /\ conn = 0 /\ net = "down" /\ inbound = {} /\ acks = {}
    /\ cur = [c \in Conns |-> NoMessage] /\ step = [c \in Conns |-> "none"]
    /\ holder = [m \in Message |-> 0]
    /\ nonces = {} /\ reflected = {} /\ handled = {} /\ receipts = {}
    /\ shown = [m \in Message |-> 0]

-----------------------------------------------------------------------------
\* The chat server and the connection.

Before(m, n) ==
    \E i, j \in DOMAIN sent : i < j /\ sent[i] = m /\ sent[j] = n

Arrive(m) ==
    /\ m \notin Range(sent)
    /\ sent' = Append(sent, m)
    /\ inbound' = IF net = "up" THEN inbound \union {m} ELSE inbound
    /\ UNCHANGED <<delivered, conn, net, acks, task, holder, stored, reflected, receipts>>

Connect ==
    /\ net = "down" /\ conn < MaxConn
    /\ conn' = conn + 1 /\ net' = "up"
    /\ inbound' = Range(sent) \ delivered
    /\ step' = [step EXCEPT ![conn + 1] = "idle"]
    /\ UNCHANGED <<server, acks, cur, holder, stored, reflected, receipts>>

AckArrives(m) ==
    /\ m \in acks
    /\ acks' = acks \ {m}
    /\ delivered' = delivered \union {m}
    /\ UNCHANGED <<sent, link, task, holder, stored, reflected, receipts>>

Live(c) == net = "up" /\ c = conn

\* The end of the loops cs: an unprocessed guard is discarded.
Exit(cs) ==
    /\ cur' = [c \in Conns |-> IF c \in cs THEN NoMessage ELSE cur[c]]
    /\ step' = [c \in Conns |-> IF c \in cs THEN "exited" ELSE step[c]]
    /\ holder' = [m \in Message |-> IF holder[m] \in cs THEN 0 ELSE holder[m]]

GoDown ==
    /\ conn < MaxConn
    /\ net' = "down" /\ inbound' = {} /\ acks' = {}
    /\ UNCHANGED <<server, conn, stored, reflected, receipts>>

\* Every await on the handle fails at once, any other goes on.  A resolved
\* await ("commit") is followed by its continuation.
Lose ==
    /\ net = "up" /\ GoDown
    /\ Exit(IF step[conn] \in {"lookup", "fetch", "commit"} THEN {} ELSE {conn})

\* The application ends and is started again.
Crash ==
    /\ conn > 0 /\ GoDown
    /\ Exit(1..conn)

-----------------------------------------------------------------------------
\* The task of the loop of connection c.

GoTo(c, s) ==
    /\ step' = [step EXCEPT ![c] = s]
    /\ cur' = IF s = "idle" THEN [cur EXCEPT ![c] = NoMessage] ELSE cur

Proceed(c) == GoTo(c, Follows(cur[c])[step[c]])

At(c, s) == Live(c) /\ step[c] = s

TakeMessage(c) ==
    /\ At(c, "idle")
    /\ \E m \in inbound :
        /\ \A n \in inbound \ {m} : Before(m, n)
        /\ inbound' = inbound \ {m}
        /\ cur' = [cur EXCEPT ![c] = m]
    /\ step' = [step EXCEPT ![c] = "lookup"]
    /\ UNCHANGED <<server, conn, net, acks, holder, stored, reflected, receipts>>

Used(m) == holder[m] # 0 \/ m \in nonces

\* Faulty variant: the nonce is committed before the message is processed.
DecryptCommitting(c) ==
    /\ At(c, "lookup")
    /\ IF Used(cur[c])
         THEN GoTo(c, "discard") /\ UNCHANGED <<holder, nonces>>
         ELSE /\ Proceed(c) /\ holder' = [holder EXCEPT ![cur[c]] = c]
              /\ nonces' = nonces \union {cur[c]}
    /\ UNCHANGED <<server, link, acks, shown, handled, reflected, receipts>>

\* The sender is known: decrypting registers the nonce, first for the metadata
\* and then for the container, unless it was used before.
Decrypt(c) ==
    /\ At(c, "lookup")
    /\ IF Used(cur[c])
         THEN GoTo(c, "discard") /\ UNCHANGED holder
         ELSE Proceed(c) /\ holder' = [holder EXCEPT ![cur[c]] = c]
    /\ UNCHANGED <<server, link, acks, stored, reflected, receipts>>

Reflect(c) ==
    /\ At(c, "reflect")
    /\ reflected' = reflected \union {cur[c]}
    /\ Proceed(c)
    /\ UNCHANGED <<server, link, acks, holder, stored, receipts>>

ReflectAcked(c) ==
    /\ At(c, "reflectAck")
    /\ Proceed(c)
    /\ UNCHANGED <<server, link, acks, holder, stored, reflected, receipts>>

\* Add the message to its conversation unless that has it.
Save(c) ==
    /\ At(c, "save")
    /\ IF shown[cur[c]] > 0
         THEN GoTo(c, "discard") /\ UNCHANGED <<shown, handled>>
         ELSE /\ Proceed(c)
              /\ shown' = [shown EXCEPT ![cur[c]] = @ + 1]
              /\ handled' = handled \union {cur[c]}
    /\ UNCHANGED <<server, link, acks, holder, nonces, reflected, receipts>>

Fetched(c) ==
    /\ At(c, "fetch")
    /\ Proceed(c)
    /\ UNCHANGED <<server, link, acks, holder, stored, reflected, receipts>>

\* A picture that cannot be downloaded is given up.
SkipPicture(c) ==
    /\ At(c, "fetch") /\ cur[c] \in Picture
    /\ handled' = handled \union {cur[c]}
    /\ GoTo(c, "ack")
    /\ UNCHANGED <<server, link, acks, holder, nonces, shown, reflected, receipts>>

\* The sub-task changes the contact or the group within a transaction.
Apply(c) ==
    /\ At(c, "apply")
    /\ handled' = handled \union {cur[c]}
    /\ Proceed(c)
    /\ UNCHANGED <<server, link, acks, holder, nonces, shown, reflected, receipts>>

Acknowledge(c) ==
    /\ At(c, "ack")
    /\ acks' = acks \union {cur[c]}
    /\ Proceed(c)
    /\ UNCHANGED <<server, link, holder, stored, reflected, receipts>>

DiscardSilently(c) ==
    /\ At(c, "discard")
    /\ GoTo(c, IF holder[cur[c]] = c THEN "commit" ELSE "idle")
    /\ UNCHANGED <<server, link, acks, holder, stored, reflected, receipts>>

\* Acknowledge a message that is dropped; its nonce is committed if this task
\* has the guard.
Discard(c) ==
    /\ At(c, "discard")
    /\ acks' = acks \union {cur[c]}
    /\ GoTo(c, IF holder[cur[c]] = c THEN "commit" ELSE "idle")
    /\ UNCHANGED <<server, link, holder, stored, reflected, receipts>>

SendReceipt(c) ==
    /\ At(c, "receipt")
    /\ receipts' = receipts \union {cur[c]}
    /\ Proceed(c)
    /\ UNCHANGED <<server, link, acks, holder, stored, reflected>>

CommitNonce(c) ==
    /\ step[c] = "commit"
    /\ nonces' = nonces \union {cur[c]}
    /\ holder' = [holder EXCEPT ![cur[c]] = 0]
    /\ cur' = [cur EXCEPT ![c] = NoMessage]
    /\ step' = [step EXCEPT ![c] = IF Live(c) THEN "idle" ELSE "exited"]
    /\ UNCHANGED <<server, link, acks, shown, handled, reflected, receipts>>

\* Faulty variant: the loop goes on after a task that failed.
RequestFailsAndLoopGoesOn(c) ==
    /\ At(c, "lookup") \/ (At(c, "fetch") /\ cur[c] \in Setup)
    /\ holder' = [m \in Message |-> IF holder[m] = c THEN 0 ELSE holder[m]]
    /\ GoTo(c, "idle")
    /\ UNCHANGED <<server, link, acks, stored, reflected, receipts>>

\* A request to the directory fails, and the connection with it.
RequestFails(c) ==
    /\ At(c, "lookup") \/ (At(c, "fetch") /\ cur[c] \in Setup)
    /\ GoDown /\ Exit({c})

\* A request of an old connection ends, in one way or the other: the next use
\* of the handle fails.
EndStale(c) ==
    /\ ~Live(c) /\ step[c] \in {"lookup", "fetch"}
    /\ Exit({c})
    /\ UNCHANGED <<server, link, acks, stored, reflected, receipts>>

TaskStep(c) ==
    \/ TakeMessage(c) \/ Decrypt(c) \/ Reflect(c) \/ ReflectAcked(c)
    \/ Save(c) \/ Fetched(c) \/ SkipPicture(c) \/ Apply(c)
    \/ Acknowledge(c) \/ Discard(c) \/ SendReceipt(c) \/ CommitNonce(c)
    \/ EndStale(c)

Next ==
    \/ \E m \in Message : Arrive(m) \/ AckArrives(m)
    \/ Connect \/ Lose \/ Crash
    \/ \E c \in Conns : TaskStep(c) \/ RequestFails(c)

Spec == Init /\ [][Next]_vars

\* Requests end, the loop runs, and the client reconnects.  Nobody has to send
\* a message, and nothing has to fail.
FairSpec ==
    /\ Spec
    /\ WF_vars(Connect)
    /\ \A m \in Message : WF_vars(AckArrives(m))
    /\ \A c \in Conns : WF_vars(TaskStep(c))

-----------------------------------------------------------------------------
\* Safety.

\* A text that the chat server has discarded is in its conversation, and one
\* that is in its conversation is known to the other devices: whatever is lost
\* or crashes, incoming-message.ts acknowledges after it has saved and saves
\* after it has reflected.
NothingLost ==
    \A m \in Text :
        /\ m \in delivered \union acks => shown[m] > 0
        /\ shown[m] > 0 => m \in reflected

\* A text is never added twice, although it is delivered again whenever the
\* acknowledgement or the nonce did not make it.
ShownOnce == \A m \in Text : shown[m] <= 1

\* A conversation has no gap: the tasks of several connections and messages
\* delivered again do not let a text overtake an older one.
ShownInOrder ==
    \A m, n \in Text : Before(m, n) /\ shown[n] > 0 => shown[m] > 0

\* A registered nonce belongs to the task that is processing the message, and
\* to one task only: no guard is left behind, which would make the message
\* undeliverable, and no message is processed twice at the same time.
GuardHasOwner ==
    \A m \in Message, c \in Conns :
        holder[m] = c <=>
            /\ cur[c] = m
            /\ step[c] \in Processing \/ (step[c] = "discard" /\ holder[m] = c)

\* The nonce in the database stands for a message that needs no processing:
\* dropping what comes with a committed nonce is right.
CommittedIsHandled == nonces \subseteq handled

\* Whatever the connections do, nobody outside sees more than a mailbox: each
\* text is reflected, then shown once and after all older ones, and then
\* forgotten by the server; nothing that was shown or reflected is taken back.
Promise == INSTANCE Mailbox WITH
    arrived <- sent, elsewhere <- reflected, times <- shown, forgotten <- delivered

ImplementsMailbox == Promise!Spec

-----------------------------------------------------------------------------
\* Liveness.

\* Once a connection stays up every message leaves the server, and a text is
\* in its conversation.
Delivered ==
    \A m \in Message :
        m \in Range(sent) ~> m \in delivered /\ (m \in Text => shown[m] > 0)
=============================================================================
