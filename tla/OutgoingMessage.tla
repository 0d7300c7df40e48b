--------------------------- MODULE OutgoingMessage ---------------------------
(***************************************************************************)
(* The persistent task that sends one conversation message to a contact or *)
(* to the members of a group.  Every run uploads what is not uploaded yet, *)
(* takes fresh nonces, decides who gets the user's profile picture along   *)
(* with the message, reflects everything to the other devices, hands the   *)
(* messages to the chat server one by one, and at last reflects that the   *)
(* message was sent.  A lost connection, or an exception of the task,      *)
(* which closes the connection, makes the task run again from the start.   *)
(***************************************************************************)
EXTENDS Naturals, Sequences, FiniteSets, SequencesExt

CONSTANTS
    Contacts,    \* the receivers captured when the message was added
    Blocked,     \* those the user has blocked, or that are invalid
    Denied,      \* those that may not see the user's profile picture
    File,        \* the message has a blob to upload
    Uploaded,    \* the blob of the profile picture at first, 0 when the
                 \* picture was never uploaded or its blob has expired
    MaxLosses    \* bound: lost connections and failed uploads

ASSUME OutgoingMessageAssumption ==
    /\ IsFiniteSet(Contacts) /\ Contacts # {}
    /\ Blocked \subseteq Contacts /\ Denied \subseteq Contacts
    /\ File \in BOOLEAN /\ Uploaded \in {0, 1} /\ MaxLosses \in Nat

VARIABLES
    up,          \* the connection is there and the tasks run on it
    at,          \* where the task is
    message,     \* the model of the message
    jobs,        \* _messages: what is still to be sent, with nonces
    left,        \* receivers the distribution steps have not looked at
    held,        \* blob of the view of the picture these steps have captured
    pictures,    \* what they return so far
    flight,      \* the frame the task waits for: under way, or acknowledged
    sending,     \* receiver of that frame
    nonce,       \* nonces taken so far
    picture,     \* blob of the profile picture in the model, 0 for none
    blobs,       \* blobs of the profile picture uploaded so far
    cache,       \* last user profile distribution state of each contact
    reflected,   \* nonces the mediator has reflected to the other devices
    chat,        \* what the chat server has taken
    losses

vars == <<up, at, message, jobs, left, held, pictures, flight, sending, nonce,
          picture, blobs, cache, reflected, chat, losses>>

Receivers == Contacts \ Blocked
NoPictures == [remove |-> {}, set |-> {}, blob |-> 0]
Marks == [kind : {"none", "removed", "picture"}, blob : Nat]
Job == [kind : {"message", "remove", "set"}, to : SUBSET Contacts,
        nonces : SUBSET Nat, blob : Nat]

TypeOK ==
    /\ up \in BOOLEAN
    /\ at \in {"queued", "upload", "distribute", "reflect", "send", "ack",
               "update", "done"}
    /\ message \in [active : BOOLEAN, uploaded : BOOLEAN, sent : BOOLEAN]
    /\ jobs \in Seq(Job) /\ left \subseteq Receivers
    /\ held \in Nat /\ picture \in Nat /\ blobs \in Nat /\ nonce \in Nat
    /\ pictures \in [remove : SUBSET Receivers, set : SUBSET Receivers, blob : Nat]
    /\ flight \in {"none", "frame", "ack"} /\ sending \in SUBSET Receivers
    /\ Cardinality(sending) = IF at = "ack" THEN 1 ELSE 0
    /\ cache \in [Contacts -> Marks]
    /\ reflected \subseteq 1..nonce
    /\ \A m \in chat : m.to \in Receivers /\ m.nonce \in 1..nonce
    /\ losses \in 0..MaxLosses

Init ==
    /\ up = TRUE /\ at = "queued"
    /\ message = [active |-> TRUE, uploaded |-> FALSE, sent |-> FALSE]
    /\ jobs = <<>> /\ left = {} /\ held = 0 /\ pictures = NoPictures
    /\ flight = "none" /\ sending = {} /\ nonce = 0
    /\ picture = Uploaded /\ blobs = Uploaded
    /\ cache = [c \in Contacts |-> [kind |-> "none", blob |-> 0]]
    /\ reflected = {} /\ chat = {} /\ losses = 0

-----------------------------------------------------------------------------
(* The connection, the other devices, and the end of a run *)

\* Faulty variant: the task goes on waiting for what was under way.
AbandonWaiting ==
    /\ up' = FALSE /\ flight' = "none"
    /\ UNCHANGED <<at, jobs, left, held, pictures, sending>>

\* The task is abandoned where it is and queued again.
Abandon ==
    /\ up' = FALSE /\ at' = IF at = "done" THEN "done" ELSE "queued"
    /\ jobs' = <<>> /\ left' = {} /\ held' = 0 /\ pictures' = NoPictures
    /\ flight' = "none" /\ sending' = {}

\* The connection is lost, or an upload fails, which ends it.
Lose ==
    /\ up /\ losses < MaxLosses
    /\ losses' = losses + 1
    /\ Abandon
    /\ UNCHANGED <<message, nonce, picture, blobs, cache, reflected, chat>>

Reconnect ==
    /\ ~up /\ up' = TRUE
    /\ UNCHANGED <<at, message, jobs, left, held, pictures, flight, sending,
                   nonce, picture, blobs, cache, reflected, chat, losses>>

\* The user removes the message, or another device has it deleted: the guard
\* of its model is deactivated.
Delete ==
    /\ message.active /\ at # "done"
    /\ message' = [message EXCEPT !.active = FALSE]
    /\ UNCHANGED <<up, at, jobs, left, held, pictures, flight, sending, nonce,
                   picture, blobs, cache, reflected, chat, losses>>

\* Every access to a deactivated model throws; the task does not catch it, so
\* that it ends the connection.
Throw ==
    /\ up /\ File /\ ~message.active
    /\ \/ at = "queued"
       \/ at = "upload"
    /\ Abandon
    /\ UNCHANGED <<message, nonce, picture, blobs, cache, reflected, chat, losses>>

-----------------------------------------------------------------------------
(* One run of the task *)

\* Nonces are taken, and committed, when the messages are put together; those
\* of receivers that are filtered out are dropped.  The distribution steps
\* begin, in the same turn, with the picture as it is.
Prepare ==
    /\ jobs' = IF Receivers = {} THEN <<>>
               ELSE <<[kind |-> "message", to |-> Receivers, blob |-> 0,
                       nonces |-> nonce + 1 .. nonce + Cardinality(Receivers)]>>
    /\ nonce' = nonce + Cardinality(Contacts)
    /\ left' = Receivers /\ held' = picture /\ pictures' = NoPictures
    /\ at' = "distribute"

Run ==
    /\ up /\ at = "queued" /\ (File => message.active)
    /\ IF File /\ ~message.uploaded
       THEN /\ at' = "upload"
            /\ UNCHANGED <<jobs, left, held, pictures, nonce>>
       ELSE Prepare
    /\ UNCHANGED <<up, message, flight, sending, picture, blobs, cache,
                   reflected, chat, losses>>

UploadBlobs ==
    /\ at = "upload" /\ message.active
    /\ message' = [message EXCEPT !.uploaded = TRUE]
    /\ Prepare
    /\ UNCHANGED <<up, flight, sending, picture, blobs, cache, reflected, chat,
                   losses>>

\* One round of the profile picture distribution steps.  The cache is set at
\* once; the view of the picture is not read again after an upload.
Distribute(c) ==
    /\ at = "distribute" /\ c \in left
    /\ left' = left \ {c}
    /\ LET blob == IF held = 0 THEN blobs + 1 ELSE held
       IN  CASE c \in Denied /\ cache[c].kind = "removed" ->
                  UNCHANGED <<cache, pictures, picture, blobs>>
             [] c \in Denied /\ cache[c].kind # "removed" ->
                  /\ cache' = [cache EXCEPT ![c] = [kind |-> "removed", blob |-> 0]]
                  /\ pictures' = [pictures EXCEPT !.remove = @ \cup {c}]
                  /\ UNCHANGED <<picture, blobs>>
             [] c \notin Denied /\ cache[c] = [kind |-> "picture", blob |-> held] ->
                  UNCHANGED <<cache, pictures, picture, blobs>>
             [] OTHER ->
                  /\ cache' = [cache EXCEPT ![c] = [kind |-> "picture", blob |-> blob]]
                  /\ pictures' = [pictures EXCEPT !.set = @ \cup {c},
                                    !.blob = IF pictures.set = {} THEN blob ELSE @]
                  /\ picture' = blob
                  /\ blobs' = IF held = 0 THEN blob ELSE blobs
    /\ UNCHANGED <<up, at, message, jobs, held, flight, sending, nonce,
                   reflected, chat, losses>>

\* A message of its own, with a nonce of its own, for each picture.
Distributed ==
    /\ at = "distribute" /\ left = {}
    /\ LET rest == SetToSeq(pictures.remove) \o SetToSeq(pictures.set)
       IN  /\ jobs' = jobs \o [i \in DOMAIN rest |->
                 [kind |-> IF rest[i] \in pictures.remove THEN "remove" ELSE "set",
                  to |-> {rest[i]}, nonces |-> {nonce + i},
                  blob |-> IF rest[i] \in pictures.set THEN pictures.blob ELSE 0]]
           /\ nonce' = nonce + Len(rest)
    /\ at' = "reflect"
    /\ UNCHANGED <<up, message, left, held, pictures, flight, sending, picture,
                   blobs, cache, reflected, chat, losses>>

\* All messages are reflected as one batch, with the nonces they will use.
Reflect ==
    /\ at = "reflect" /\ flight = "none" /\ flight' = "frame"
    /\ UNCHANGED <<up, at, message, jobs, left, held, pictures, sending, nonce,
                   picture, blobs, cache, reflected, chat, losses>>

\* Faulty variant: the task does not wait for the acknowledgement.
ReflectedUnacked ==
    /\ at = "reflect" /\ flight # "none"
    /\ at' = "send" /\ flight' = "none"
    /\ UNCHANGED <<up, message, jobs, left, held, pictures, sending, nonce,
                   picture, blobs, cache, reflected, chat, losses>>

Reflected ==
    /\ at = "reflect" /\ flight = "ack"
    /\ at' = "send" /\ flight' = "none"
    /\ UNCHANGED <<up, message, jobs, left, held, pictures, sending, nonce,
                   picture, blobs, cache, reflected, chat, losses>>

LastNonce(job) == CHOOSE n \in job.nonces : \A o \in job.nonces : o <= n

Send(c) ==
    /\ at = "send" /\ jobs # <<>> /\ c \in Head(jobs).to
    /\ at' = "ack" /\ flight' = "frame" /\ sending' = {c}
    /\ UNCHANGED <<up, message, jobs, left, held, pictures, nonce, picture,
                   blobs, cache, reflected, chat, losses>>

\* Faulty variant: the nonce stays for the next receiver.
AckedKeepingNonce ==
    /\ at = "ack" /\ flight = "ack"
    /\ LET rest == [Head(jobs) EXCEPT !.to = @ \ sending]
       IN  jobs' = IF rest.to = {} THEN Tail(jobs) ELSE <<rest>> \o Tail(jobs)
    /\ at' = "send" /\ flight' = "none" /\ sending' = {}
    /\ UNCHANGED <<up, message, left, held, pictures, nonce, picture, blobs,
                   cache, reflected, chat, losses>>

\* The nonce is dropped and the next receiver, or the next message, is due.
Acked ==
    /\ at = "ack" /\ flight = "ack"
    /\ LET job  == Head(jobs)
           rest == [job EXCEPT !.to = @ \ sending, !.nonces = @ \ {LastNonce(job)}]
       IN  jobs' = IF rest.to = {} THEN Tail(jobs) ELSE <<rest>> \o Tail(jobs)
    /\ at' = "send" /\ flight' = "none" /\ sending' = {}
    /\ UNCHANGED <<up, message, left, held, pictures, nonce, picture, blobs,
                   cache, reflected, chat, losses>>

\* Faulty variant: the update is reflected once the first receiver has it.
ReflectSentEarly ==
    /\ at = "send" /\ (jobs = <<>> \/ Head(jobs).nonces # 1..Cardinality(Receivers))
    /\ at' = "update" /\ flight' = "frame"
    /\ UNCHANGED <<up, message, jobs, left, held, pictures, sending, nonce,
                   picture, blobs, cache, reflected, chat, losses>>

ReflectSent ==
    /\ at = "send" /\ jobs = <<>>
    /\ at' = "update" /\ flight' = "frame"
    /\ UNCHANGED <<up, message, jobs, left, held, pictures, sending, nonce,
                   picture, blobs, cache, reflected, chat, losses>>

\* The model is looked up again and left alone when it is deleted or gone.
Sent ==
    /\ at = "update" /\ flight = "ack"
    /\ message' = [message EXCEPT !.sent = @ \/ message.active]
    /\ at' = "done" /\ flight' = "none"
    /\ UNCHANGED <<up, jobs, left, held, pictures, sending, nonce, picture,
                   blobs, cache, reflected, chat, losses>>

-----------------------------------------------------------------------------
(* The servers (external) *)

Mediator ==
    /\ at \in {"reflect", "update"} /\ flight = "frame" /\ flight' = "ack"
    /\ reflected' = IF at = "update" THEN reflected
                    ELSE reflected \cup UNION {jobs[i].nonces : i \in DOMAIN jobs}
    /\ UNCHANGED <<up, at, message, jobs, left, held, pictures, sending, nonce,
                   picture, blobs, cache, chat, losses>>

ChatServer ==
    /\ at = "ack" /\ flight = "frame" /\ flight' = "ack"
    /\ chat' = chat \cup {[kind |-> Head(jobs).kind, to |-> c,
                            nonce |-> LastNonce(Head(jobs)),
                            blob |-> Head(jobs).blob] : c \in sending}
    /\ UNCHANGED <<up, at, message, jobs, left, held, pictures, sending, nonce,
                   picture, blobs, cache, reflected, losses>>

-----------------------------------------------------------------------------
Task == \/ Run \/ UploadBlobs \/ Distributed \/ Reflect \/ Reflected \/ Acked
        \/ ReflectSent \/ Sent
        \/ \E c \in Contacts : Distribute(c) \/ Send(c)

Next == Lose \/ Reconnect \/ Delete \/ Throw \/ Task \/ Mediator \/ ChatServer

Spec == Init /\ [][Next]_vars

\* Tasks run, the client reconnects, and the servers answer on a connection
\* that stays.  Nothing is assumed of the user.
Fairness == /\ WF_vars(Task) /\ WF_vars(Throw) /\ WF_vars(Reconnect)
            /\ WF_vars(Mediator) /\ WF_vars(ChatServer)
FairSpec == Spec /\ Fairness

-----------------------------------------------------------------------------
(* Properties *)

\* A message shown as sent is with the chat server for every receiver, however
\* often its task was interrupted.
SentMeansQueued ==
    message.sent => \A c \in Receivers :
                       \E m \in chat : m.kind = "message" /\ m.to = c

\* The other devices were told every nonce before the chat server sees it, so
\* that no device takes it again.
ReflectedBeforeSent == \A m \in chat : m.nonce \in reflected

\* No nonce is used for two messages, to two receivers or in two runs.
NonceUsedOnce == \A m, n \in chat : m.nonce = n.nonce => m = n

\* A message that is not deleted is sent in the end.
Completes == <>(at = "done" \/ ~message.active)
=============================================================================
