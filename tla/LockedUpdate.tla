----------------------------- MODULE LockedUpdate -----------------------------
(***************************************************************************)
(* The update of a model (ContactModelController._updateAsync): under the  *)
(* AsyncLock of the model it is reflected in a transaction whose           *)
(* precondition is the version of the model, and applied afterwards.       *)
(*                                                                         *)
(* A local update schedules its transaction as a volatile task and keeps   *)
(* the lock until that is processed.  A remote one belongs to the task of  *)
(* an incoming message: it waits for the lock and runs its transaction     *)
(* within the task loop.  Groups, conversations and profile pictures have  *)
(* the same structure, each with a lock of its own.                        *)
(*                                                                         *)
(* The loop is that of TaskManager, reduced to what it does with one model *)
(* and its transaction to the two moments that matter, opening and         *)
(* committing.                                                             *)
(***************************************************************************)
EXTENDS Naturals, Sequences

CONSTANTS
    Local,      \* updates of the user of this device
    Remote,     \* updates by an incoming message
    MaxConn,    \* bound on the number of connections
    MaxSync     \* bound on the number of changes by other devices

Update == Local \union Remote

ASSUME UpdateAssumption ==
    /\ Local \intersect Remote = {}
    /\ MaxConn \in Nat /\ MaxSync \in Nat

VARIABLES
    conn,       \* the number of the latest connection
    net,        \* its state
    loop,       \* what its task loop does
    lockQueue,  \* the executors of the lock, the first of them holds it
    stage,      \* how far an update is
    at,         \* the connection on which it runs, or its message was received
    base,       \* the version that its precondition compares with
    version,    \* _versionSequence
    syncs       \* the number of changes by other devices so far

connection == <<conn, net>>
vars == <<connection, loop, lockQueue, stage, at, base, version, syncs>>

Pending == {"waiting", "scheduled", "running", "open"}
Settled == {"committed", "failed"}
Stage   == {"idle", "received"} \union Pending \union Settled
InQueue(u) == \E i \in DOMAIN lockQueue : lockQueue[i] = u

TypeOK ==
    /\ conn \in 0..MaxConn
    /\ net \in {"disconnected", "up", "lost"}
    /\ loop \in {"idle", "update", "message", "sync", "exited"}
    /\ lockQueue \in Seq(Update)
    /\ stage \in [Update -> Stage] /\ at \in [Update -> 0..MaxConn]
    /\ \A u \in Update : InQueue(u) <=> stage[u] \in Pending
    /\ version \in Nat /\ base \in [Update -> 0..version]
    /\ syncs \in 0..MaxSync

Init ==
    /\ conn = 0 /\ net = "disconnected" /\ loop = "exited"
    /\ lockQueue = <<>>
    /\ stage = [u \in Update |-> "idle"]
    /\ at = [u \in Update |-> 0] /\ base = [u \in Update |-> 0]
    /\ version = 0 /\ syncs = 0

Live(u) == net = "up" /\ at[u] = conn

-----------------------------------------------------------------------------
\* The lock.

Enqueue(u) ==
    /\ lockQueue' = Append(lockQueue, u)
    /\ stage' = [stage EXCEPT ![u] = "waiting"]

Holds(u) == lockQueue # <<>> /\ Head(lockQueue) = u

\* The executor of u ends: the next one may enter.
Settle(u, how) ==
    /\ lockQueue' = Tail(lockQueue)
    /\ stage' = [stage EXCEPT ![u] = how]

\* The message of a remote update ends with it, and so does the loop of an old
\* connection.  A local update ends without its task only if it has none.
LoopGoesOn(u) ==
    loop' = IF u \in Remote /\ at[u] # conn THEN loop
            ELSE IF net = "up" THEN "idle" ELSE "exited"

\* fromLocal is called.  An update is made once: a message delivered again
\* counts as another one.
ChangeLocally(u) ==
    /\ u \in Local /\ stage[u] = "idle"
    /\ Enqueue(u)
    /\ UNCHANGED <<connection, loop, at, base, version, syncs>>

\* The incoming message calls fromRemote, possibly when its connection is lost.
ChangeRemotely(u) ==
    /\ stage[u] = "received"
    /\ Enqueue(u)
    /\ UNCHANGED <<connection, loop, at, base, version, syncs>>

Scheduled == {u \in Update : stage[u] = "scheduled"}

\* Faulty variant: the executor does not await the queue.
EnterLocalAtOnce(u) ==
    /\ u \in Local /\ stage[u] = "waiting"
    /\ net # "disconnected" /\ loop # "exited"
    /\ stage' = [stage EXCEPT ![u] = "scheduled"]
    /\ base' = [base EXCEPT ![u] = version]
    /\ UNCHANGED <<connection, loop, lockQueue, at, version, syncs>>

\* The executor of a local update: taskManager.schedule.
EnterLocal(u) ==
    /\ u \in Local /\ stage[u] = "waiting" /\ Holds(u)
    /\ net # "disconnected" /\ loop # "exited"
    /\ stage' = [stage EXCEPT ![u] = "scheduled"]
    /\ base' = [base EXCEPT ![u] = version]
    /\ UNCHANGED <<connection, loop, lockQueue, at, version, syncs>>

\* The queue of the manager is errored, or the manager is disconnected.
ScheduleFails(u) ==
    /\ u \in Local /\ stage[u] = "waiting" /\ Holds(u)
    /\ net = "disconnected" \/ loop = "exited"
    /\ Settle(u, "failed")
    /\ UNCHANGED <<connection, loop, at, base, version, syncs>>

\* The executor of a remote update: the transaction is begun with the handle of
\* the message, which may be that of an old connection.
EnterRemote(u) ==
    /\ u \in Remote /\ stage[u] = "waiting" /\ Holds(u)
    /\ Live(u)
    /\ stage' = [stage EXCEPT ![u] = "running"]
    /\ base' = [base EXCEPT ![u] = version]
    /\ UNCHANGED <<connection, loop, lockQueue, at, version, syncs>>

HandleFails(u) ==
    /\ u \in Remote /\ stage[u] = "waiting" /\ Holds(u)
    /\ ~Live(u)
    /\ Settle(u, "failed")
    /\ LoopGoesOn(u)
    /\ UNCHANGED <<connection, at, base, version, syncs>>

-----------------------------------------------------------------------------
\* The transaction.

\* Faulty variant: the precondition is not checked.
OpenRegardless(u) ==
    /\ stage[u] = "running" /\ Live(u)
    /\ stage' = [stage EXCEPT ![u] = "open"]
    /\ UNCHANGED <<connection, loop, lockQueue, at, base, version, syncs>>

Open(u) ==
    /\ stage[u] = "running" /\ Live(u)
    /\ version = base[u]
    /\ stage' = [stage EXCEPT ![u] = "open"]
    /\ UNCHANGED <<connection, loop, lockQueue, at, base, version, syncs>>

\* Faulty variant: an executor that throws keeps the lock.
ConflictKeepingLock(u) ==
    /\ stage[u] = "running" /\ Live(u)
    /\ version # base[u]
    /\ stage' = [stage EXCEPT ![u] = "failed"]
    /\ LoopGoesOn(u)
    /\ UNCHANGED <<connection, lockQueue, at, base, version, syncs>>

\* The precondition does not hold: the executor throws.
Conflict(u) ==
    /\ stage[u] = "running" /\ Live(u)
    /\ version # base[u]
    /\ Settle(u, "failed")
    /\ LoopGoesOn(u)
    /\ UNCHANGED <<connection, at, base, version, syncs>>

\* The commit is acknowledged, the task ends and the change is applied, before
\* the loop gets to its next message.
Commit(u) ==
    /\ stage[u] = "open" /\ Live(u)
    /\ version' = version + 1
    /\ Settle(u, "committed")
    /\ LoopGoesOn(u)
    /\ UNCHANGED <<connection, at, base, syncs>>

-----------------------------------------------------------------------------
\* The task loop.  Scheduled tasks come first.

Idle == net = "up" /\ loop = "idle"

TakeTask(u) ==
    /\ Idle /\ u \in Scheduled
    /\ loop' = "update"
    /\ at' = [at EXCEPT ![u] = conn]
    /\ stage' = [stage EXCEPT ![u] = "running"]
    /\ UNCHANGED <<connection, lockQueue, base, version, syncs>>

TakeMessage(u) ==
    /\ Idle /\ Scheduled = {}
    /\ u \in Remote /\ stage[u] = "idle"
    /\ loop' = "message"
    /\ at' = [at EXCEPT ![u] = conn]
    /\ stage' = [stage EXCEPT ![u] = "received"]
    /\ UNCHANGED <<connection, lockQueue, base, version, syncs>>

\* A reflected change of another device.
TakeReflected ==
    /\ Idle /\ Scheduled = {} /\ syncs < MaxSync
    /\ loop' = "sync"
    /\ syncs' = syncs + 1
    /\ UNCHANGED <<connection, lockQueue, stage, at, base, version>>

\* fromSync: no lock and no transaction.
ApplyReflected ==
    /\ net = "up" /\ loop = "sync"
    /\ loop' = "idle"
    /\ version' = version + 1
    /\ UNCHANGED <<connection, lockQueue, stage, at, base, syncs>>

-----------------------------------------------------------------------------
\* The connection.

\* A transaction under way fails.  The promise of a scheduled task is not
\* settled by that; the task of a message fails, unless it is at an await that
\* has nothing to do with the connection.
Lose ==
    /\ net = "up" /\ conn < MaxConn
    /\ net' = "lost"
    /\ LET broken == {u \in Update : stage[u] \in {"running", "open"}}
       IN /\ stage' = [u \in Update |-> CASE u \in broken \intersect Local  -> "scheduled"
                                          [] u \in broken \intersect Remote -> "failed"
                                          [] OTHER -> stage[u]]
          /\ lockQueue' = IF broken \intersect Remote # {} THEN Tail(lockQueue) ELSE lockQueue
          /\ loop' = IF loop = "message" /\ broken = {} THEN "message" ELSE "exited"
    /\ UNCHANGED <<conn, at, base, version, syncs>>

Disconnect ==
    /\ net = "lost"
    /\ net' = "disconnected"
    /\ UNCHANGED <<conn, loop, lockQueue, stage, at, base, version, syncs>>

\* Faulty variant: an executor whose task is rejected keeps the lock.
ConnectKeepingLock ==
    /\ net = "disconnected" /\ conn < MaxConn
    /\ conn' = conn + 1 /\ net' = "up" /\ loop' = "idle"
    /\ stage' = [u \in Update |-> IF u \in Scheduled THEN "failed" ELSE stage[u]]
    /\ UNCHANGED <<lockQueue, at, base, version, syncs>>

\* The volatile tasks of the previous connection are rejected.
Connect ==
    /\ net = "disconnected" /\ conn < MaxConn
    /\ conn' = conn + 1 /\ net' = "up" /\ loop' = "idle"
    /\ stage' = [u \in Update |-> IF u \in Scheduled THEN "failed" ELSE stage[u]]
    /\ lockQueue' = IF Scheduled # {} THEN Tail(lockQueue) ELSE lockQueue
    /\ UNCHANGED <<at, base, version, syncs>>

UpdateStep(u) ==
    \/ ChangeRemotely(u)
    \/ EnterLocal(u) \/ ScheduleFails(u) \/ EnterRemote(u) \/ HandleFails(u)
    \/ Open(u) \/ Conflict(u) \/ Commit(u)
    \/ TakeTask(u)

Next ==
    \/ \E u \in Update : UpdateStep(u) \/ ChangeLocally(u) \/ TakeMessage(u)
    \/ TakeReflected \/ ApplyReflected
    \/ Lose \/ Disconnect \/ Connect

Spec == Init /\ [][Next]_vars

\* The program goes on wherever it can and reconnects.  Nobody has to change
\* anything, and a connection need not be lost.
FairSpec ==
    /\ Spec
    /\ \A u \in Update : WF_vars(UpdateStep(u))
    /\ WF_vars(ApplyReflected) /\ WF_vars(Disconnect) /\ WF_vars(Connect)

-----------------------------------------------------------------------------
\* Safety.

\* One executor at a time: whoever has entered holds the lock, whichever
\* connection, loop or caller it belongs to.
OneAtATime ==
    \A u \in Update : stage[u] \in {"scheduled", "running", "open"} => Holds(u)

\* The transaction of a remote update never meets a conflict, which would
\* throw out of the task of the message and end the connection.
RemoteIsCurrent ==
    \A u \in Remote : stage[u] \in {"running", "open"} => base[u] = version

\* No lost update: a change is applied to the version it was made for, though
\* other devices change the model between its scheduling and its turn.
NoLostUpdate ==
    [][\A u \in Update : stage'[u] = "committed" /\ stage[u] # "committed"
                            => version = base[u] /\ version' = version + 1]_vars

\* The lock is not held by an update that nobody goes on with: its executor can
\* enter or fails, its transaction goes on, or its task is in a list that the next
\* connection rejects or the loop will look at.  The one thing that keeps the loop
\* from it is an incoming message that waits for this lock, or is about to.
HolderGoesOn ==
    \A u \in Update : Holds(u) =>
        \/ stage[u] = "waiting"
        \/ stage[u] \in {"running", "open"} /\ Live(u)
        \/ stage[u] = "scheduled" /\ (net # "up" \/ loop \in {"idle", "sync"})
        \/ stage[u] = "scheduled" /\ \E r \in Remote : stage[r] \in {"received", "waiting"} /\ Live(r)

-----------------------------------------------------------------------------
\* Liveness.

\* The loop runs the task of an incoming message that waits for the lock, and
\* the lock is held for a task that waits for the loop.
Cycle ==
    \E u \in Scheduled, r \in Remote :
        stage[r] = "waiting" /\ Live(r) /\ loop = "message"

\* Every update is settled, unless that cycle arises.
SettledUnlessCycle ==
    \A u \in Update : stage[u] \in Pending ~> stage[u] \in Settled \/ Cycle
=============================================================================
