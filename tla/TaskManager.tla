----------------------------- MODULE TaskManager -----------------------------
(***************************************************************************)
(* The task manager of the network protocol (TaskManager,                  *)
(* DisconnectedTaskManager, ConnectedTaskManager and the loop              *)
(* ConnectedTaskManager.run), with the part of the connection lifecycle    *)
(* that drives it: replace(CONNECTING), run, the abort signal and          *)
(* replace(DISCONNECTED).                                                  *)
(*                                                                         *)
(* The program creates one ConnectedTaskManager per connection.  They are  *)
(* numbered 1, 2, ... here and conn is the latest one.  An old manager is  *)
(* not stopped: its loop may still be awaiting something that has nothing  *)
(* to do with the connection (a blob upload, a directory lookup), so every *)
(* manager keeps a program counter of its own.                             *)
(*                                                                         *)
(* A list of tasks is only ever pushed to, filtered, copied and shifted,   *)
(* which keeps its elements in the order they were scheduled in.  A list   *)
(* is therefore the set of its tasks, ordered by stamp.                    *)
(***************************************************************************)
EXTENDS Naturals

CONSTANTS
    Task,        \* the active tasks that are scheduled, each of them once
    Persistent,  \* those with task.persist
    NoTask,      \* cur of a manager that runs no active task
    MaxConn      \* bound on the number of connections

ASSUME TaskAssumption ==
    /\ Persistent \subseteq Task
    /\ NoTask \notin Task
    /\ MaxConn \in Nat

VARIABLES
    inner,         \* which class TaskManager._inner is an instance of
    conn,          \* the number of ConnectedTaskManagers created so far
    waiting,       \* _tasks of the DisconnectedTaskManager
    queue,         \* _tasks of every ConnectedTaskManager
    failed,        \* the managers for which _tasks.error was called
    backlogFailed, \* those whose current backlog queue is errored
    aborted,       \* those whose connection raised the abort signal
    pc,            \* where the loop of every ConnectedTaskManager is
    cur,           \* the active task it runs
    done,          \* what the caller of schedule observes for every task
    stamp,         \* the position at which a task was accepted, 0 if it was not
    accepted,      \* the number of tasks accepted so far
    applicationState \* the persisted global property of that name

lists  == <<inner, conn, waiting>>
loop   == <<pc, cur>>
faults == <<failed, backlogFailed, aborted>>
ledger == <<stamp, accepted>>
vars   == <<lists, queue, loop, faults, done, ledger, applicationState>>

Conns == 1..MaxConn

\* "created"  run was not called        "idle"     in the race of _next
\* "raced"    a message won the race    "task"     in run of an active task
\* "passive"  in run of a passive task  "dropping" in run of DropDeviceTask
PC == {"none", "created", "idle", "raced", "task", "passive", "dropping", "exited"}

Settled == {"resolved", "rejected", "thrown"}
Outcome == {"unscheduled", "pending"} \union Settled

TypeOK ==
    /\ inner \in {"disconnected", "connected"}
    /\ conn \in 0..MaxConn
    /\ waiting \subseteq Task
    /\ queue \in [Conns -> SUBSET Task]
    /\ failed \subseteq Conns
    /\ backlogFailed \subseteq Conns
    /\ aborted \subseteq Conns
    /\ pc \in [Conns -> PC]
    /\ cur \in [Conns -> Task \union {NoTask}]
    /\ done \in [Task -> Outcome]
    /\ stamp \in [Task -> Nat]
    /\ accepted \in Nat
    /\ applicationState \in {"normal", "unrecoverable"}

Init ==
    /\ inner = "disconnected"
    /\ conn = 0
    /\ waiting = {}
    /\ queue = [c \in Conns |-> {}]
    /\ failed = {}
    /\ backlogFailed = {}
    /\ aborted = {}
    /\ pc = [c \in Conns |-> "none"]
    /\ cur = [c \in Conns |-> NoTask]
    /\ done = [t \in Task |-> "unscheduled"]
    /\ stamp = [t \in Task |-> 0]
    /\ accepted = 0
    /\ applicationState = "normal"

-----------------------------------------------------------------------------
(* TaskManager.schedule *)

Accept(t) ==
    /\ done' = [done EXCEPT ![t] = "pending"]
    /\ accepted' = accepted + 1
    /\ stamp' = [stamp EXCEPT ![t] = accepted + 1]

Refuse(t, outcome) ==
    /\ done' = [done EXCEPT ![t] = outcome]
    /\ UNCHANGED ledger

\* DisconnectedTaskManager.schedule: a volatile task is rejected at once.
ScheduleDisconnected(t) ==
    /\ done[t] = "unscheduled"
    /\ inner = "disconnected"
    /\ IF t \in Persistent
       THEN Accept(t) /\ waiting' = waiting \union {t}
       ELSE Refuse(t, "rejected") /\ UNCHANGED waiting
    /\ UNCHANGED <<inner, conn, queue, loop, faults, applicationState>>

\* ConnectedTaskManager.schedule: UnboundedQueue.put throws once the loop has
\* errored the queue, and the caller gets an exception instead of a promise.
ScheduleConnected(t) ==
    /\ done[t] = "unscheduled"
    /\ inner = "connected"
    /\ IF conn \in failed
       THEN Refuse(t, "thrown") /\ UNCHANGED queue
       ELSE Accept(t) /\ queue' = [queue EXCEPT ![conn] = @ \union {t}]
    /\ UNCHANGED <<lists, loop, faults, applicationState>>

-----------------------------------------------------------------------------
(* TaskManager.replace, called by the connection manager *)

\* Faulty: the filter keeps the volatile tasks and drops the persistent ones.
ConnectKeepingVolatile ==
    /\ inner = "disconnected"
    /\ conn < MaxConn
    /\ inner' = "connected"
    /\ conn' = conn + 1
    /\ queue' = [queue EXCEPT ![conn + 1] = waiting \ Persistent]
    /\ waiting' = {}
    /\ pc' = [pc EXCEPT ![conn + 1] = "created"]
    /\ UNCHANGED <<done, cur, faults, ledger, applicationState>>

\* replace(CONNECTING): the persistent tasks move over, the volatile ones are
\* rejected.  The code asserts that no task it moves over is done already
\* (PendingIffQueued below).
Connect ==
    /\ inner = "disconnected"
    /\ conn < MaxConn
    /\ inner' = "connected"
    /\ conn' = conn + 1
    /\ queue' = [queue EXCEPT ![conn + 1] = waiting \intersect Persistent]
    /\ done' = [t \in Task |-> IF t \in waiting \ Persistent THEN "rejected" ELSE done[t]]
    /\ waiting' = {}
    /\ pc' = [pc EXCEPT ![conn + 1] = "created"]
    /\ UNCHANGED <<cur, faults, ledger, applicationState>>

\* The loop has no microtask continuation left to run: it awaits an event.
\* Assumed: replace(DISCONNECTED) finds the loop in such a state, because several
\* awaits (closing.promise, done, _connectAndWaitUntilClosed) separate it from the
\* abort, more than a continuation of the loop needs.
Quiescent(c) ==
    \/ pc[c] \in {"created", "task", "passive", "dropping", "exited"}
    \/ pc[c] = "idle" /\ queue[c] = {}

\* Faulty: the task that is being run is taken for consumed.
DisconnectWithoutRunning ==
    /\ inner = "connected"
    /\ conn \in aborted \/ pc[conn] = "created"
    /\ Quiescent(conn)
    /\ inner' = "disconnected"
    /\ waiting' = queue[conn] \ {cur[conn]}
    /\ UNCHANGED <<conn, queue, loop, faults, done, ledger, applicationState>>

\* replace(DISCONNECTED), after the closing sequence of the connection or when
\* the connection could not be created at all.
Disconnect ==
    /\ inner = "connected"
    /\ conn \in aborted \/ pc[conn] = "created"
    /\ Quiescent(conn)
    /\ inner' = "disconnected"
    /\ waiting' = queue[conn]
    /\ UNCHANGED <<conn, queue, loop, faults, done, ledger, applicationState>>

\* The abort signal: the subscriber that run installs errors the queues of the
\* codec and the current backlog, but not the queue of tasks.  Assumed: it is
\* raised in a turn of the event loop of its own, by an event of the transport,
\* hence not between the settlement of the race and its continuation.
Abort(c) ==
    /\ pc[c] \notin {"none", "raced"}
    /\ c \notin aborted
    /\ aborted' = aborted \union {c}
    /\ IF pc[c] = "created" THEN UNCHANGED backlogFailed
                            ELSE backlogFailed' = backlogFailed \union {c}
    /\ UNCHANGED <<lists, queue, loop, failed, done, ledger, applicationState>>

-----------------------------------------------------------------------------
(* ConnectedTaskManager.run *)

GoTo(c, label) == pc' = [pc EXCEPT ![c] = label]

\* The catch block of the loop.
ExitWithError(c) ==
    /\ GoTo(c, "exited")
    /\ cur' = [cur EXCEPT ![c] = NoTask]
    /\ failed' = failed \union {c}
    /\ backlogFailed' = backlogFailed \union {c}
    /\ UNCHANGED <<lists, queue, aborted, done, ledger>>

\* Connection.create calls run; subscribing to a signal that was raised already
\* notifies the subscriber at once.
StartRun(c) ==
    /\ inner = "connected" /\ c = conn
    /\ pc[c] = "created"
    /\ GoTo(c, "idle")
    /\ backlogFailed' = backlogFailed \union ({c} \intersect aborted)
    /\ UNCHANGED <<lists, queue, cur, failed, aborted, done, ledger, applicationState>>

\* Faulty: the last task is popped instead of the first.
IsLast(c, t) == t \in queue[c] /\ \A u \in queue[c] : stamp[t] >= stamp[u]

IsHead(c, t) == t \in queue[c] /\ \A u \in queue[c] : stamp[t] <= stamp[u]

\* consume and done.resolve
Complete(c, t) ==
    /\ queue' = [queue EXCEPT ![c] = @ \ {t}]
    /\ done' = [done EXCEPT ![t] = "resolved"]

\* _run gives the task the backlog and installs a fresh one.
FreshBacklog(c) == backlogFailed' = backlogFailed \ {c}

\* The queue of tasks is first in the race, whether or not the others errored.
TakeTask(c, t) ==
    /\ pc[c] = "idle"
    /\ IsHead(c, t)
    /\ GoTo(c, "task")
    /\ cur' = [cur EXCEPT ![c] = t]
    /\ FreshBacklog(c)
    /\ UNCHANGED <<lists, queue, failed, aborted, done, ledger, applicationState>>

\* The task returns before it awaits anything (its receiver is gone, the
\* update is obsolete), so that not even an abort stops it.
TakeTaskAndReturn(c, t) ==
    /\ pc[c] = "idle"
    /\ IsHead(c, t)
    /\ Complete(c, t)
    /\ FreshBacklog(c)
    /\ UNCHANGED <<lists, loop, failed, aborted, ledger, applicationState>>

\* Faulty: neither the codec nor the backlog tells the task of the abort.
FinishTaskRegardless(c, t) ==
    /\ pc[c] = "task" /\ cur[c] = t
    /\ Complete(c, t)
    /\ GoTo(c, "idle")
    /\ cur' = [cur EXCEPT ![c] = NoTask]
    /\ UNCHANGED <<lists, faults, ledger, applicationState>>

\* The last thing a task awaits is a write, a read or a reflection, all of
\* which fail once the abort was raised.  The backlog it leaves is prepended to
\* the current one, which fails if that one is errored.
FinishTask(c, t) ==
    /\ pc[c] = "task" /\ cur[c] = t
    /\ c \notin aborted /\ c \notin backlogFailed
    /\ Complete(c, t)
    /\ GoTo(c, "idle")
    /\ cur' = [cur EXCEPT ![c] = NoTask]
    /\ UNCHANGED <<lists, faults, ledger, applicationState>>

\* No task is queued and an inbound or backlogged message settles the race.
RaceMessage(c) ==
    /\ pc[c] = "idle"
    /\ queue[c] = {}
    /\ c \notin aborted
    /\ GoTo(c, "raced")
    /\ UNCHANGED <<lists, queue, cur, faults, done, ledger, applicationState>>

\* The continuation of the race asserts that still no task is queued.
ContinueAssertionFails(c) ==
    /\ pc[c] = "raced"
    /\ queue[c] # {}
    /\ ExitWithError(c)
    /\ UNCHANGED applicationState

\* A message that starts no task, such as an acknowledgement nobody awaits.
IgnoreMessage(c) ==
    /\ pc[c] = "raced"
    /\ queue[c] = {}
    /\ GoTo(c, "idle")
    /\ UNCHANGED <<lists, queue, cur, faults, done, ledger, applicationState>>

RunPassive(c) ==
    /\ pc[c] = "raced"
    /\ queue[c] = {}
    /\ GoTo(c, "passive")
    /\ FreshBacklog(c)
    /\ UNCHANGED <<lists, queue, cur, failed, aborted, done, ledger, applicationState>>

\* Faulty: the backlog is prepended without looking at its error.
FinishPassiveRegardless(c) ==
    /\ pc[c] = "passive"
    /\ GoTo(c, "idle")
    /\ UNCHANGED <<lists, queue, cur, faults, done, ledger, applicationState>>

\* A passive task need not end with a use of the codec (a message that must not
\* be acknowledged), but prepending its backlog fails after an abort.
FinishPassive(c) ==
    /\ pc[c] = "passive"
    /\ c \notin backlogFailed
    /\ GoTo(c, "idle")
    /\ UNCHANGED <<lists, queue, cur, faults, done, ledger, applicationState>>

\* A task that throws, or prepend does, or the race rejects after an abort.
Throw(c) ==
    /\ \/ pc[c] \in {"task", "passive", "raced"}
       \/ pc[c] = "idle" /\ queue[c] = {} /\ c \in aborted
    /\ ExitWithError(c)
    /\ UNCHANGED applicationState

\* An unrecoverable ProtocolError: the flag is saved and DropDeviceTask run.
ThrowUnrecoverable(c) ==
    /\ pc[c] \in {"task", "passive"}
    /\ applicationState' = "unrecoverable"
    /\ GoTo(c, "dropping")
    /\ cur' = [cur EXCEPT ![c] = NoTask]
    /\ FreshBacklog(c)
    /\ UNCHANGED <<lists, queue, failed, aborted, done, ledger>>

DropAcknowledged(c) ==
    /\ pc[c] = "dropping"
    /\ c \notin aborted
    /\ ExitWithError(c)
    /\ UNCHANGED applicationState

\* DropDeviceTask throws out of the catch block: no queue is errored.
DropFails(c) ==
    /\ pc[c] = "dropping"
    /\ c \in aborted
    /\ GoTo(c, "exited")
    /\ UNCHANGED <<lists, queue, cur, faults, done, ledger, applicationState>>

-----------------------------------------------------------------------------

Schedule == \E t \in Task : ScheduleDisconnected(t) \/ ScheduleConnected(t)

Step(c) ==
    \/ StartRun(c)
    \/ \E t \in Task : TakeTask(c, t) \/ TakeTaskAndReturn(c, t) \/ FinishTask(c, t)
    \/ RaceMessage(c)
    \/ ContinueAssertionFails(c)
    \/ IgnoreMessage(c)
    \/ RunPassive(c)
    \/ FinishPassive(c)
    \/ Throw(c)
    \/ ThrowUnrecoverable(c)
    \/ DropAcknowledged(c)
    \/ DropFails(c)

Next ==
    \/ Schedule
    \/ Connect
    \/ Disconnect
    \/ \E c \in Conns : Abort(c) \/ Step(c)

Spec == Init /\ [][Next]_vars

(***************************************************************************)
(* What the event loop and a server that answers guarantee: continuations  *)
(* run, tasks of a connection that stays up make progress, a connection    *)
(* whose loop has failed is closed (its encoder queue is errored, which    *)
(* ends the writable side of the transport), a closed connection is        *)
(* cleaned up and another attempt is made.  Nothing is assumed of callers, *)
(* of inbound messages, of aborts, of errors and of old managers.          *)
(***************************************************************************)
LoopFairness(c) ==
    /\ WF_vars(StartRun(c))
    /\ WF_vars(\E t \in Task : TakeTask(c, t) \/ TakeTaskAndReturn(c, t))
    /\ WF_vars(\E t \in Task : FinishTask(c, t))
    /\ WF_vars(ContinueAssertionFails(c) \/ IgnoreMessage(c) \/ RunPassive(c))
    /\ WF_vars(FinishPassive(c))
    /\ WF_vars(pc[c] = "exited" /\ Abort(c))

FairSpec ==
    /\ Spec
    /\ WF_vars(Connect)
    /\ WF_vars(Disconnect)
    /\ \A c \in Conns : LoopFairness(c)

-----------------------------------------------------------------------------
(* Properties *)

\* The list of the task manager that is currently installed.
Installed == IF inner = "connected" THEN queue[conn] ELSE waiting

\* The promise that schedule handed out is unsettled exactly for the tasks in
\* the list of the installed manager: across any number of reconnections no
\* accepted task is dropped, and none that is settled is moved over and run
\* again (the assertion of the ConnectedTaskManager constructor).
PendingIffQueued == \A t \in Task : done[t] = "pending" <=> t \in Installed

\* A settled promise is never settled again with another outcome: a volatile
\* task that was rejected because of a reconnection is not completed later by
\* the loop of the old connection, which may still be running it.
SettledOnce ==
    [][\A t \in Task : done[t] \in Settled => done'[t] = done[t]]_vars

\* Persistent tasks complete in the order in which they were accepted, even if
\* they were accepted before, during and after several connections.
PersistentInOrder ==
    [][\A t, u \in Persistent :
         /\ done[t] = "pending" /\ done'[t] = "resolved"
         /\ stamp[u] # 0 /\ stamp[u] < stamp[t]
         => done[u] = "resolved"]_vars

\* Over any number of managers there is one list: a task completes only when no
\* other one, persistent or not, was accepted before it and is still pending, a
\* replacement rejects all volatile tasks and nothing else, and what is decided
\* stays decided.
List == INSTANCE TaskList

ImplementsList == List!Spec

\* A loop that was left behind by a reconnection is on its way out: it neither
\* waits for messages nor has a queued task it could still pick up, so that at
\* most one loop serves the queue.
OldLoopsStop ==
    \A c \in Conns :
        (c < conn \/ (c = conn /\ inner = "disconnected"))
        => \/ pc[c] \in {"created", "exited"}
           \/ c \in aborted /\ pc[c] \in {"task", "passive", "dropping"}
           \/ c \in aborted /\ pc[c] = "idle" /\ queue[c] = {}

\* If a connection eventually stays up and its loop neither fails nor drops the
\* device, every accepted persistent task is eventually completed, whatever
\* inbound messages arrive meanwhile.
Healthy ==
    /\ inner = "connected"
    /\ conn \notin aborted
    /\ pc[conn] \in {"idle", "raced", "task", "passive"}
PersistentCompletes ==
    (<>[]Healthy) => \A t \in Persistent : (done[t] = "pending") ~> (done[t] = "resolved")

\* A volatile task is not left undecided by a disconnection for longer than to
\* the next connection attempt.
VolatileDecided ==
    \A t \in Task \ Persistent :
        (done[t] = "pending" /\ inner = "disconnected" /\ conn < MaxConn)
        ~> (done[t] \in Settled)
=============================================================================
