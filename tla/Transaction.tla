----------------------------- MODULE Transaction -----------------------------
(***************************************************************************)
(* Transactions between the devices of one user: TaskCodec.transaction and *)
(* TaskCodec.read on every device, the backlog of messages that a task was *)
(* not waiting for, and the change that a model (contact, group) reflects  *)
(* inside the transaction and applies locally afterwards.                  *)
(*                                                                         *)
(* The mediator server is not part of the repository.  It is modelled from *)
(* how the client uses it: it lends one lock, tells the other devices when *)
(* a transaction ends, and keeps what it reflects to a device until it is  *)
(* acknowledged.  A change is the number of its entry in the server's log. *)
(***************************************************************************)
EXTENDS Naturals, Sequences, FiniteSets

CONSTANTS
    Device,
    MaxChanges,     \* bound: how many changes the users make
    MaxFaults,      \* bound: how many connections are lost and changes discarded
    NoDevice

ASSUME TransactionAssumption ==
    MaxChanges \in Nat /\ MaxFaults \in Nat /\ NoDevice \notin Device

VARIABLES
    lock,           \* the device whose transaction is open on the server
    log,            \* the devices that made the changes, in the server's order
    unacked,        \* the changes reflected to a device and not acknowledged
    toServer,       \* the messages under way from a device
    toDevice,       \* the messages under way to a device (decoder.queue)
    pc,             \* where the transaction of a device is
    snapshot,       \* the version that the precondition compares with
    own,            \* the change that the running task has reflected
    backlog,        \* the backlog of the task manager
    taskBacklog,    \* the backlog that the running task took over
    running,        \* the change that a passive task is applying, or 0
    version,        \* the change that was applied last
    applied,        \* all the changes applied
    discarded,      \* the changes that were acknowledged in place of that
    nonces,         \* the changes whose nonce was committed
    changes,        \* how many changes were asked for
    faults          \* how many connections were lost and changes discarded

server == <<lock, log, unacked>>
wire   == <<toServer, toDevice>>
task   == <<pc, snapshot, own, taskBacklog>>
model  == <<running, version, applied, discarded, nonces>>
vars   == <<server, wire, task, backlog, model, changes, faults>>

Reflected == [type : {"reflected"}, change : Nat]
Answers   == [type : {"beginAck", "rejected", "ended", "reflectAck", "commitAck"}, change : Nat]
Message   == Reflected \union Answers
Request   == {"begin", "reflect", "commit", "ack"}

Msg(type, n) == [type |-> type, change |-> n]

TypeOK ==
    /\ lock \in Device \union {NoDevice}
    /\ log \in Seq(Device)
    /\ unacked \in [Device -> Seq(Nat)]
    /\ toServer \in [Device -> Seq(Request)]
    /\ toDevice \in [Device -> Seq(Message)]
    /\ backlog \in [Device -> Seq(Message)]
    /\ taskBacklog \in [Device -> Seq(Message)]
    /\ pc \in [Device -> {"idle", "scheduled", "begun", "rejected", "executing", "committing"}]
    /\ snapshot \in [Device -> Nat]
    /\ own \in [Device -> Nat]
    /\ running \in [Device -> Nat]
    /\ version \in [Device -> Nat]
    /\ applied \in [Device -> SUBSET Nat]
    /\ discarded \in [Device -> SUBSET Nat]
    /\ nonces \in [Device -> SUBSET Nat]
    /\ changes \in 0..MaxChanges
    /\ faults \in 0..MaxFaults

Init ==
    /\ lock = NoDevice
    /\ log = <<>>
    /\ unacked = [d \in Device |-> <<>>]
    /\ toServer = [d \in Device |-> <<>>]
    /\ toDevice = [d \in Device |-> <<>>]
    /\ pc = [d \in Device |-> "idle"]
    /\ snapshot = [d \in Device |-> 0]
    /\ own = [d \in Device |-> 0]
    /\ backlog = [d \in Device |-> <<>>]
    /\ taskBacklog = [d \in Device |-> <<>>]
    /\ running = [d \in Device |-> 0]
    /\ version = [d \in Device |-> 0]
    /\ applied = [d \in Device |-> {}]
    /\ discarded = [d \in Device |-> {}]
    /\ nonces = [d \in Device |-> {}]
    /\ changes = 0
    /\ faults = 0

-----------------------------------------------------------------------------
(* The mediator server *)

Broadcast(d, m) == [e \in Device |-> IF e = d THEN toDevice[e] ELSE Append(toDevice[e], m)]

\* The next request of a device is r, and it is received.
Receive(d, r) ==
    /\ toServer[d] # <<>>
    /\ Head(toServer[d]) = r
    /\ toServer' = [toServer EXCEPT ![d] = Tail(@)]

ServeBegin(d) ==
    /\ Receive(d, "begin")
    /\ \/ /\ lock = NoDevice
          /\ lock' = d
          /\ toDevice' = [toDevice EXCEPT ![d] = Append(@, Msg("beginAck", 0))]
       \/ /\ lock # NoDevice
          /\ toDevice' = [toDevice EXCEPT ![d] = Append(@, Msg("rejected", 0))]
          /\ UNCHANGED lock
    /\ UNCHANGED <<log, unacked, task, backlog, model, changes, faults>>

ServeReflect(d) ==
    /\ Receive(d, "reflect")
    /\ LET n == Len(log) + 1
       IN  /\ log' = Append(log, d)
           /\ unacked' = [e \in Device |-> IF e = d THEN unacked[e] ELSE Append(unacked[e], n)]
           /\ toDevice' = [Broadcast(d, Msg("reflected", n)) EXCEPT
                              ![d] = Append(@, Msg("reflectAck", n))]
    /\ UNCHANGED <<lock, task, backlog, model, changes, faults>>

ServeCommit(d) ==
    /\ Receive(d, "commit")
    /\ lock' = NoDevice
    /\ toDevice' = [Broadcast(d, Msg("ended", 0)) EXCEPT ![d] = Append(@, Msg("commitAck", 0))]
    /\ UNCHANGED <<log, unacked, task, backlog, model, changes, faults>>

ServeAck(d) ==
    /\ Receive(d, "ack")
    /\ unacked' = [unacked EXCEPT ![d] = Tail(@)]
    /\ UNCHANGED <<lock, log, toDevice, task, backlog, model, changes, faults>>

-----------------------------------------------------------------------------
(* The loop of the task manager, between two tasks *)

Send(d, r) == toServer' = [toServer EXCEPT ![d] = Append(@, r)]

\* A user changes something: the model takes a snapshot of its version for the
\* precondition and schedules the task, whatever the loop is doing.
Schedule(d) ==
    /\ pc[d] = "idle"
    /\ changes < MaxChanges
    /\ changes' = changes + 1
    /\ pc' = [pc EXCEPT ![d] = "scheduled"]
    /\ snapshot' = [snapshot EXCEPT ![d] = version[d]]
    /\ UNCHANGED <<server, wire, own, taskBacklog, backlog, model, faults>>

\* A pending task precedes all messages.  It takes over the backlog.
StartTransaction(d) ==
    /\ pc[d] = "scheduled"
    /\ running[d] = 0
    /\ pc' = [pc EXCEPT ![d] = "begun"]
    /\ taskBacklog' = [taskBacklog EXCEPT ![d] = backlog[d]]
    /\ backlog' = [backlog EXCEPT ![d] = <<>>]
    /\ Send(d, "begin")
    /\ UNCHANGED <<server, toDevice, snapshot, own, model, changes, faults>>

\* Faulty variant: _next looks at the decoder queue first.
QueueBeforeBacklog(d) == toDevice[d] # <<>> \/ backlog[d] = <<>>

\* _next looks at the backlog first and at the decoder queue last.
QueueIsNext(d) == backlog[d] = <<>>

\* A reflected change starts a passive task, anything else is ignored.
Handle(d, m) ==
    running' = [running EXCEPT ![d] = IF m.type = "reflected" THEN m.change ELSE 0]

ProcessMessage(d) ==
    /\ pc[d] = "idle"
    /\ running[d] = 0
    /\ \/ /\ QueueIsNext(d)
          /\ toDevice[d] # <<>>
          /\ Handle(d, Head(toDevice[d]))
          /\ toDevice' = [toDevice EXCEPT ![d] = Tail(@)]
          /\ UNCHANGED backlog
       \/ /\ ~QueueIsNext(d)
          /\ Handle(d, Head(backlog[d]))
          /\ backlog' = [backlog EXCEPT ![d] = Tail(@)]
          /\ UNCHANGED toDevice
    /\ UNCHANGED <<server, toServer, task, version, applied, discarded, nonces, changes, faults>>

Apply(d, n) ==
    /\ version' = [version EXCEPT ![d] = n]
    /\ applied' = [applied EXCEPT ![d] = @ \union {n}]

CommitNonce(d) == nonces' = [nonces EXCEPT ![d] = @ \union {running[d]}]

\* The task of the change runs to its end.
Process(d) ==
    /\ running[d] \notin nonces[d] \union discarded[d]
    /\ Apply(d, running[d])
    /\ CommitNonce(d)
    /\ UNCHANGED <<discarded, faults>>

\* The nonce was used: the change has been processed before.
Known(d) ==
    /\ running[d] \in nonces[d]
    /\ UNCHANGED <<version, applied, discarded, nonces, faults>>

\* Not every change can be processed: the message is invalid or does not decrypt,
\* now and whenever it comes again, and there may be no nonce to commit then; or
\* its envelope is invalid or its task throws, which uses up the nonce.
Discard(d) ==
    /\ running[d] \notin nonces[d]
    /\ discarded' = [discarded EXCEPT ![d] = @ \union {running[d]}]
    /\ \/ running[d] \in discarded[d] /\ UNCHANGED faults
       \/ running[d] \notin discarded[d] /\ faults < MaxFaults /\ faults' = faults + 1
    /\ \/ running[d] \notin applied[d] /\ UNCHANGED nonces
       \/ CommitNonce(d)
    /\ UNCHANGED <<version, applied>>

\* Faulty variant: a change is acknowledged, but not looked at while the user has
\* just asked for another.
FinishPassiveIfIdle(d) ==
    /\ running[d] # 0
    /\ \/ pc[d] = "idle" /\ (Process(d) \/ Known(d) \/ Discard(d))
       \/ pc[d] # "idle" /\ UNCHANGED <<version, applied, discarded, nonces, faults>>
    /\ Send(d, "ack")
    /\ running' = [running EXCEPT ![d] = 0]
    /\ UNCHANGED <<server, toDevice, task, backlog, changes>>

\* ReflectedTask: whatever became of the change, it is acknowledged.
FinishPassive(d) ==
    /\ running[d] # 0
    /\ Process(d) \/ Known(d) \/ Discard(d)
    /\ Send(d, "ack")
    /\ running' = [running EXCEPT ![d] = 0]
    /\ UNCHANGED <<server, toDevice, task, backlog, changes>>

-----------------------------------------------------------------------------
(* TaskCodec.transaction *)

\* read takes from the backlog that the task took over as long as it has one.
FromBacklog(d) == taskBacklog[d] # <<>>

\* The next message to be read, and what is left of the task's backlog then.
HasMessage(d) == FromBacklog(d) \/ toDevice[d] # <<>>
Upcoming(d)   == IF FromBacklog(d) THEN Head(taskBacklog[d]) ELSE Head(toDevice[d])
Rest(d)       == IF FromBacklog(d) THEN Tail(taskBacklog[d]) ELSE taskBacklog[d]

TakeUpcoming(d) ==
    toDevice' = IF FromBacklog(d) THEN toDevice ELSE [toDevice EXCEPT ![d] = Tail(@)]

Read(d, type) == HasMessage(d) /\ Upcoming(d).type = type /\ TakeUpcoming(d)

\* The task goes on.
Continue(d, label) ==
    /\ pc' = [pc EXCEPT ![d] = label]
    /\ taskBacklog' = [taskBacklog EXCEPT ![d] = Rest(d)]

\* The task ends: what it has not read goes back to the manager, in front.
EndTask(d) ==
    /\ pc' = [pc EXCEPT ![d] = "idle"]
    /\ own' = [own EXCEPT ![d] = 0]
    /\ backlog' = [backlog EXCEPT ![d] = Rest(d) \o @]
    /\ taskBacklog' = [taskBacklog EXCEPT ![d] = <<>>]

\* What each read of the transaction accepts.
Expected ==
    [begun      |-> {"beginAck", "rejected"},
     rejected   |-> {"ended"},
     executing  |-> {"reflectAck"},
     committing |-> {"commitAck"}]

Busy(d) == pc[d] \in DOMAIN Expected

\* Faulty variant: the task backlogs to its own decoder.
BypassToTask(d) ==
    /\ Busy(d)
    /\ HasMessage(d)
    /\ Upcoming(d).type \notin Expected[pc[d]]
    /\ TakeUpcoming(d)
    /\ taskBacklog' = [taskBacklog EXCEPT ![d] = Append(Rest(d), Upcoming(d))]
    /\ UNCHANGED <<server, toServer, pc, snapshot, own, backlog, model, changes, faults>>

\* Faulty variant: the task drops what it does not expect.
BypassToNowhere(d) ==
    /\ Busy(d)
    /\ HasMessage(d)
    /\ Upcoming(d).type \notin Expected[pc[d]]
    /\ TakeUpcoming(d)
    /\ Continue(d, pc[d])
    /\ UNCHANGED <<server, toServer, snapshot, own, backlog, model, changes, faults>>

\* BYPASS_OR_BACKLOG puts everything else into the backlog of the manager; a
\* second reject is only logged.
BypassOrBacklog(d) ==
    /\ Busy(d)
    /\ HasMessage(d)
    /\ Upcoming(d).type \notin Expected[pc[d]]
    /\ TakeUpcoming(d)
    /\ Continue(d, pc[d])
    /\ backlog' = IF pc[d] = "rejected" /\ Upcoming(d).type = "rejected"
                  THEN backlog ELSE [backlog EXCEPT ![d] = Append(@, Upcoming(d))]
    /\ UNCHANGED <<server, toServer, snapshot, own, model, changes, faults>>

Precondition(d) == version[d] = snapshot[d]

\* Another device has the lock.
Rejected(d) ==
    /\ pc[d] = "begun"
    /\ Read(d, "rejected")
    /\ Continue(d, "rejected")
    /\ UNCHANGED <<server, toServer, snapshot, own, backlog, model, changes, faults>>

\* The other device has ended its transaction: try again.
Retry(d) ==
    /\ pc[d] = "rejected"
    /\ Read(d, "ended")
    /\ Precondition(d)
    /\ Continue(d, "begun")
    /\ Send(d, "begin")
    /\ UNCHANGED <<server, snapshot, own, backlog, model, changes, faults>>

\* The precondition is gone by the time the other transaction has ended.
Abort(d) ==
    /\ pc[d] = "rejected"
    /\ Read(d, "ended")
    /\ ~Precondition(d)
    /\ EndTask(d)
    /\ UNCHANGED <<server, toServer, snapshot, model, changes, faults>>

\* The transaction is open: reflect the change, unless the precondition is gone.
Open(d) ==
    /\ pc[d] = "begun"
    /\ Read(d, "beginAck")
    /\ \/ Precondition(d) /\ Continue(d, "executing") /\ Send(d, "reflect")
       \/ ~Precondition(d) /\ Continue(d, "committing") /\ Send(d, "commit")
    /\ UNCHANGED <<server, snapshot, own, backlog, model, changes, faults>>

Commit(d) ==
    /\ pc[d] = "executing"
    /\ Read(d, "reflectAck")
    /\ Continue(d, "committing")
    /\ own' = [own EXCEPT ![d] = Upcoming(d).change]
    /\ Send(d, "commit")
    /\ UNCHANGED <<server, snapshot, backlog, model, changes, faults>>

\* After a success the model applies its change, after an abort by the
\* precondition it throws.
Committed(d) ==
    /\ pc[d] = "committing"
    /\ Read(d, "commitAck")
    /\ EndTask(d)
    /\ \/ own[d] # 0 /\ Apply(d, own[d])
       \/ own[d] = 0 /\ UNCHANGED <<version, applied>>
    /\ UNCHANGED <<server, toServer, snapshot, running, discarded, nonces, changes, faults>>

\* A connection is lost and made again.  The volatile task is rejected, the new
\* manager has empty queues, the server drops the transaction of the device and
\* reflects again what it has no acknowledgement for.  A passive task that was
\* under way may still apply its change; its nonce is discarded.
Reconnect(d) ==
    /\ faults < MaxFaults
    /\ faults' = faults + 1
    /\ pc' = [pc EXCEPT ![d] = "idle"]
    /\ own' = [own EXCEPT ![d] = 0]
    /\ backlog' = [backlog EXCEPT ![d] = <<>>]
    /\ taskBacklog' = [taskBacklog EXCEPT ![d] = <<>>]
    /\ toServer' = [toServer EXCEPT ![d] = <<>>]
    /\ lock' = IF lock = d THEN NoDevice ELSE lock
    /\ toDevice' = [IF lock = d THEN Broadcast(d, Msg("ended", 0)) ELSE toDevice EXCEPT
                       ![d] = [i \in 1..Len(unacked[d]) |-> Msg("reflected", unacked[d][i])]]
    /\ running' = [running EXCEPT ![d] = 0]
    /\ \/ running[d] \notin nonces[d] \union discarded[d] \union {0} /\ Apply(d, running[d])
       \/ UNCHANGED <<version, applied>>
    /\ UNCHANGED <<log, unacked, snapshot, discarded, nonces, changes>>

-----------------------------------------------------------------------------

Serve(d) == ServeBegin(d) \/ ServeReflect(d) \/ ServeCommit(d) \/ ServeAck(d)

TaskStep(d) ==
    StartTransaction(d) \/ Rejected(d) \/ Retry(d) \/ Open(d) \/ Commit(d) \/ Committed(d) \/ Abort(d)

LoopStep(d) == ProcessMessage(d) \/ FinishPassive(d) \/ BypassOrBacklog(d)

Next == \E d \in Device :
    Serve(d) \/ Schedule(d) \/ TaskStep(d) \/ LoopStep(d) \/ Reconnect(d)

Spec == Init /\ [][Next]_vars

\* The server serves and the loop of every device runs.
FairSpec ==
    /\ Spec
    /\ \A d \in Device : WF_vars(Serve(d)) /\ WF_vars(TaskStep(d)) /\ WF_vars(LoopStep(d))

-----------------------------------------------------------------------------
(* Properties *)

Kept(d) == {unacked[d][i] : i \in DOMAIN unacked[d]}

\* The changes that a device is done with.
Processed(d) == applied[d] \union discarded[d]

\* A change of another device was processed, which is to say applied or discarded
\* by ReflectedTask as one that cannot be, or the server still has it and reflects
\* it again: no change is lost with a connection or between two backlogs.
NoChangeMissed ==
    \A d \in Device, n \in 1..Len(log) :
        log[n] # d => n \in Processed(d) \/ n \in Kept(d)

\* Changes of other devices are applied for the first time in the order of the
\* server, although they pass through two backlogs (bypassOrBacklog, prepend)
\* and may be reflected again after a lost connection.
AppliedInOrder ==
    [][\A d \in Device : \A n \in applied'[d] \ applied[d] :
        log'[n] # d => \A k \in applied[d] : log[k] # d => k < n]_vars

\* The devices share a log, however transactions are rejected, messages are
\* backlogged and connections are lost: the server forgets a change only after it
\* was processed, changes of others are processed in their order and none is left
\* out, one that was discarded is not applied later, and a device applies its own
\* change only after that was reflected.
Log == INSTANCE SharedLog WITH pending <- unacked

ImplementsLog == Log!Spec

\* A change that was reflected is processed by every other device in the end.
ChangesSpread ==
    \A n \in 1..MaxChanges :
        n \in DOMAIN log ~>
            n \in DOMAIN log /\ \A d \in Device : log[n] # d => n \in Processed(d)

\* However often it is rejected, the transaction of a device ends.
TransactionEnds == \A d \in Device : pc[d] = "begun" ~> pc[d] = "idle"
=============================================================================
