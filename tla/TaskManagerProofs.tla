-------------------------- MODULE TaskManagerProofs --------------------------
(* The safety properties of TaskManager, for every set of tasks and every     *)
(* number of connections.                                                     *)
EXTENDS TaskManager, TLAPS

\* The manager that schedule pushes to, if there is a connected one.
IsInstalled(c) == inner = "connected" /\ c = conn

\* Managers are numbered in the order of their creation.
Numbering ==
    /\ inner = "connected" => conn \in Conns
    /\ \A c \in Conns : pc[c] = "none" <=> c > conn

\* Why a loop that was left behind cannot complete anything: a passive task
\* that lives through an abort finds its backlog errored, and the codec of an
\* active task fails.
AbortIsNoticed ==
    \A c \in Conns : c \in aborted =>
        /\ pc[c] # "raced"
        /\ pc[c] = "passive" => c \in backlogFailed

\* The task that the installed manager runs is the head of its queue.
RunsHead ==
    \A c \in Conns : pc[c] = "task" =>
        /\ cur[c] \in Task
        /\ IsInstalled(c) => IsHead(c, cur[c])

\* The stamps are the positions of the accepted tasks, and a persistent task
\* that was accepted is pending or resolved.
Stamps ==
    /\ \A t \in Task : stamp[t] <= accepted
    /\ \A t \in Task : done[t] \in {"unscheduled", "thrown"} => stamp[t] = 0
    /\ \A t \in Persistent : stamp[t] # 0 => done[t] \in {"pending", "resolved"}

IInv ==
    /\ TypeOK
    /\ PendingIffQueued
    /\ OldLoopsStop
    /\ Numbering
    /\ AbortIsNoticed
    /\ RunsHead
    /\ Stamps

-----------------------------------------------------------------------------

USE DEF Conns

LEMMA InitIInv == Init => IInv
<1> SUFFICES ASSUME Init PROVE IInv
  OBVIOUS
<1> USE TaskAssumption DEF Init
<1>1. TypeOK
  BY DEF TypeOK, PC, Outcome
<1>2. PendingIffQueued
  BY DEF PendingIffQueued, Installed
<1>3. OldLoopsStop /\ Numbering /\ AbortIsNoticed
  BY DEF OldLoopsStop, Numbering, AbortIsNoticed
<1>4. RunsHead
  BY DEF RunsHead
<1>5. Stamps
  BY DEF Stamps
<1> QED BY <1>1, <1>2, <1>3, <1>4, <1>5 DEF IInv

\* A task is accepted behind every task that was accepted before.
LEMMA AcceptLemma ==
  ASSUME TypeOK, NEW t \in Task, Accept(t)
  PROVE  /\ done' \in [Task -> Outcome] /\ stamp' \in [Task -> Nat] /\ accepted' \in Nat
         /\ done'[t] = "pending" /\ stamp'[t] = accepted' /\ accepted' = accepted + 1
         /\ \A u \in Task \ {t} : done'[u] = done[u] /\ stamp'[u] = stamp[u]
<1>1. done' \in [Task -> Outcome] /\ accepted' \in Nat
  BY DEF Accept, TypeOK, Outcome
<1>2. stamp' \in [Task -> Nat]
  BY DEF Accept, TypeOK
<1> QED BY <1>1, <1>2 DEF Accept, TypeOK

LEMMA AcceptStamps ==
  ASSUME TypeOK, Stamps, NEW t \in Task, Accept(t)
  PROVE  Stamps'
<1>1. ASSUME NEW u \in Task PROVE stamp'[u] <= accepted'
  <2>1. stamp[u] <= accepted /\ stamp[u] \in Nat /\ accepted \in Nat
    BY DEF TypeOK, Stamps
  <2> QED BY <2>1, AcceptLemma
<1>2. ASSUME NEW u \in Task, done'[u] \in {"unscheduled", "thrown"} PROVE stamp'[u] = 0
  BY <1>2, AcceptLemma DEF Stamps
<1>3. ASSUME NEW u \in Persistent, stamp'[u] # 0 PROVE done'[u] \in {"pending", "resolved"}
  BY <1>3, AcceptLemma, TaskAssumption DEF Stamps
<1> QED BY <1>1, <1>2, <1>3 DEF Stamps

LEMMA ScheduleDisconnectedIInv ==
  ASSUME IInv, NEW t \in Task, ScheduleDisconnected(t)
  PROVE  IInv'
<1> USE TaskAssumption DEF IInv, ScheduleDisconnected, lists, loop, faults, ledger
<1>1. CASE t \in Persistent
  <2> USE <1>1
  <2>0. Accept(t) /\ waiting' = waiting \union {t}
    OBVIOUS
  <2>1. TypeOK'
    BY AcceptLemma DEF TypeOK
  <2>2. PendingIffQueued'
    BY AcceptLemma DEF PendingIffQueued, Installed
  <2>3. OldLoopsStop' /\ Numbering' /\ AbortIsNoticed'
    BY DEF OldLoopsStop, Numbering, AbortIsNoticed
  <2>4. RunsHead'
    BY DEF RunsHead, IsInstalled
  <2>5. Stamps'
    BY <2>0, AcceptStamps
  <2> QED BY <2>1, <2>2, <2>3, <2>4, <2>5
<1>2. CASE t \notin Persistent
  <2> USE <1>2 DEF Refuse
  <2>1. TypeOK'
    BY DEF TypeOK, Outcome, Settled
  <2>2. PendingIffQueued'
    BY DEF TypeOK, PendingIffQueued, Installed
  <2>3. OldLoopsStop' /\ Numbering' /\ AbortIsNoticed'
    BY DEF OldLoopsStop, Numbering, AbortIsNoticed
  <2>4. RunsHead'
    BY DEF RunsHead, IsInstalled
  <2>5. Stamps'
    BY DEF TypeOK, Stamps
  <2> QED BY <2>1, <2>2, <2>3, <2>4, <2>5
<1> QED BY <1>1, <1>2

LEMMA ScheduleConnectedIInv ==
  ASSUME IInv, NEW t \in Task, ScheduleConnected(t)
  PROVE  IInv'
<1> USE TaskAssumption DEF IInv, ScheduleConnected, lists, loop, faults, ledger
<1>0. conn \in Conns /\ t \notin queue[conn]
  BY DEF Numbering, PendingIffQueued, Installed
<1>1. CASE conn \in failed
  <2> USE <1>1 DEF Refuse
  <2>1. TypeOK'
    BY DEF TypeOK, Outcome, Settled
  <2>2. PendingIffQueued'
    BY DEF TypeOK, PendingIffQueued, Installed
  <2>3. OldLoopsStop' /\ Numbering' /\ AbortIsNoticed'
    BY DEF OldLoopsStop, Numbering, AbortIsNoticed
  <2>4. RunsHead'
    BY DEF RunsHead, IsInstalled, IsHead
  <2>5. Stamps'
    <3>1. stamp' = stamp /\ accepted' = accepted
      OBVIOUS
    <3>2. stamp[t] = 0
      BY DEF Stamps
    <3>3. \A u \in Task \ {t} : done'[u] = done[u]
      BY DEF TypeOK
    <3> QED
      BY <3>1, <3>2, <3>3 DEF Stamps
  <2> QED BY <2>1, <2>2, <2>3, <2>4, <2>5
<1>2. CASE conn \notin failed
  <2> USE <1>0, <1>2
  <2>0. Accept(t)
    OBVIOUS
  <2>1. TypeOK'
    <3>1. queue' \in [Conns -> SUBSET Task]
      BY DEF TypeOK
    <3> QED BY <2>0, <3>1, AcceptLemma DEF TypeOK
  <2>2. PendingIffQueued'
    BY <2>0, AcceptLemma DEF TypeOK, PendingIffQueued, Installed
  <2>3. OldLoopsStop' /\ Numbering' /\ AbortIsNoticed'
    BY DEF TypeOK, OldLoopsStop, Numbering, AbortIsNoticed
  <2>4. RunsHead'
    <3> SUFFICES ASSUME NEW c \in Conns, pc[c] = "task", c = conn, inner = "connected"
                 PROVE  IsHead(c, cur[c])'
      BY DEF RunsHead, IsInstalled
    <3>1. cur[c] \in Task \ {t} /\ IsHead(c, cur[c])
      BY DEF RunsHead, IsInstalled, IsHead
    <3>2. queue'[c] = queue[c] \union {t}
      BY DEF TypeOK
    <3>3. stamp'[t] > stamp'[cur[c]] /\ stamp'[t] \in Nat
      BY <2>0, <3>1, AcceptLemma DEF TypeOK, Stamps
    <3>4. \A u \in queue[c] : u \in Task \ {t} /\ stamp'[u] = stamp[u]
      BY <2>0, AcceptLemma DEF TypeOK
    <3>5. stamp'[cur[c]] \in Nat
      BY <2>0, <3>1, AcceptLemma
    <3> QED BY <3>1, <3>2, <3>3, <3>4, <3>5 DEF IsHead
  <2>5. Stamps'
    BY <2>0, AcceptStamps
  <2> QED BY <2>1, <2>2, <2>3, <2>4, <2>5
<1> QED BY <1>1, <1>2

LEMMA ConnectIInv ==
  ASSUME IInv, Connect
  PROVE  IInv'
<1> USE TaskAssumption DEF IInv, Connect, lists, loop, faults, ledger
<1>1. TypeOK'
  BY DEF TypeOK, PC, Outcome, Settled
<1>2. PendingIffQueued'
  BY DEF TypeOK, PendingIffQueued, Installed
<1>3. OldLoopsStop'
  BY DEF TypeOK, OldLoopsStop, Numbering, AbortIsNoticed
<1>4. Numbering' /\ AbortIsNoticed'
  BY DEF TypeOK, Numbering, AbortIsNoticed
<1>5. RunsHead'
  BY DEF TypeOK, RunsHead, IsInstalled, IsHead
<1>6. Stamps'
  BY DEF TypeOK, Stamps
<1> QED BY <1>1, <1>2, <1>3, <1>4, <1>5, <1>6

LEMMA DisconnectIInv ==
  ASSUME IInv, Disconnect
  PROVE  IInv'
<1> USE TaskAssumption DEF IInv, Disconnect, lists, loop, faults, ledger
<1>1. TypeOK'
  BY DEF TypeOK, Numbering
<1>2. PendingIffQueued'
  BY DEF TypeOK, PendingIffQueued, Installed
<1>3. OldLoopsStop'
  BY DEF TypeOK, OldLoopsStop, Numbering, AbortIsNoticed, Quiescent
<1>4. Numbering' /\ AbortIsNoticed'
  BY DEF TypeOK, Numbering, AbortIsNoticed
<1>5. RunsHead'
  BY DEF TypeOK, RunsHead, IsInstalled, IsHead
<1>6. Stamps'
  BY DEF TypeOK, Stamps
<1> QED BY <1>1, <1>2, <1>3, <1>4, <1>5, <1>6

LEMMA AbortIInv ==
  ASSUME IInv, NEW c \in Conns, Abort(c)
  PROVE  IInv'
<1> USE TaskAssumption DEF IInv, Abort, lists, loop, faults, ledger
<1>1. TypeOK'
  BY DEF TypeOK, PC
<1>2. PendingIffQueued'
  BY DEF TypeOK, PendingIffQueued, Installed
<1>3. OldLoopsStop'
  BY DEF TypeOK, OldLoopsStop, Numbering, AbortIsNoticed
<1>4. Numbering' /\ AbortIsNoticed'
  BY DEF TypeOK, Numbering, AbortIsNoticed
<1>5. RunsHead'
  BY DEF TypeOK, RunsHead, IsInstalled, IsHead
<1>6. Stamps'
  BY DEF TypeOK, Stamps
<1> QED BY <1>1, <1>2, <1>3, <1>4, <1>5, <1>6

LEMMA StartRunIInv ==
  ASSUME IInv, NEW c \in Conns, StartRun(c)
  PROVE  IInv'
<1> USE TaskAssumption DEF IInv, StartRun, GoTo, lists, loop, faults, ledger
<1>1. TypeOK'
  BY DEF TypeOK, PC
<1>2. PendingIffQueued'
  BY DEF TypeOK, PendingIffQueued, Installed
<1>3. OldLoopsStop'
  BY DEF TypeOK, OldLoopsStop, Numbering, AbortIsNoticed
<1>4. Numbering' /\ AbortIsNoticed'
  BY DEF TypeOK, Numbering, AbortIsNoticed
<1>5. RunsHead'
  BY DEF TypeOK, RunsHead, IsInstalled, IsHead
<1>6. Stamps'
  BY DEF TypeOK, Stamps
<1> QED BY <1>1, <1>2, <1>3, <1>4, <1>5, <1>6

LEMMA TakeTaskIInv ==
  ASSUME IInv, NEW c \in Conns, NEW t \in Task, TakeTask(c, t)
  PROVE  IInv'
<1> USE TaskAssumption DEF IInv, TakeTask, FreshBacklog, IsHead, GoTo, lists, loop, faults, ledger
<1>1. TypeOK'
  BY DEF TypeOK, PC
<1>2. PendingIffQueued'
  BY DEF TypeOK, PendingIffQueued, Installed
<1>3. OldLoopsStop'
  BY DEF TypeOK, OldLoopsStop, Numbering, AbortIsNoticed
<1>4. Numbering' /\ AbortIsNoticed'
  BY DEF TypeOK, Numbering, AbortIsNoticed
<1>5. RunsHead'
  BY DEF TypeOK, RunsHead, IsInstalled, IsHead
<1>6. Stamps'
  BY DEF TypeOK, Stamps
<1> QED BY <1>1, <1>2, <1>3, <1>4, <1>5, <1>6

\* A loop that can still take or complete a task is that of the installed manager.
LEMMA ActiveIsInstalled ==
  ASSUME TypeOK, OldLoopsStop, Numbering, NEW c \in Conns,
         (pc[c] = "task" /\ c \notin aborted) \/ (pc[c] = "idle" /\ queue[c] # {})
  PROVE  inner = "connected" /\ c = conn
<1>1. c \in Nat /\ conn \in Nat /\ inner \in {"connected", "disconnected"}
  BY TaskAssumption DEF TypeOK
<1>2. ~(c > conn)
  BY DEF Numbering
<1>3. ~(c < conn \/ (c = conn /\ inner = "disconnected"))
  BY DEF OldLoopsStop
<1> QED
  BY <1>1, <1>2, <1>3

LEMMA TakeTaskAndReturnIInv ==
  ASSUME IInv, NEW c \in Conns, NEW t \in Task, TakeTaskAndReturn(c, t)
  PROVE  IInv'
<1> USE TaskAssumption DEF IInv, TakeTaskAndReturn, Complete, FreshBacklog, IsHead, GoTo, lists, loop, faults, ledger
<1>1. TypeOK'
  BY DEF TypeOK, Outcome, Settled
<1>2. PendingIffQueued'
  <2>1. inner = "connected" /\ c = conn
    BY ActiveIsInstalled
  <2>2. t \in queue[c]
    BY <2>1 DEF RunsHead, IsInstalled, IsHead
  <2>3. Installed' = Installed \ {t}
    BY <2>1 DEF TypeOK, Installed
  <2>4. \A u \in Task : done'[u] = IF u = t THEN "resolved" ELSE done[u]
    BY DEF TypeOK
  <2> QED BY <2>3, <2>4 DEF PendingIffQueued
<1>3. OldLoopsStop'
  BY DEF TypeOK, OldLoopsStop, Numbering, AbortIsNoticed
<1>4. Numbering' /\ AbortIsNoticed'
  BY DEF TypeOK, Numbering, AbortIsNoticed
<1>5. RunsHead'
  BY DEF TypeOK, RunsHead, IsInstalled, IsHead
<1>6. Stamps'
  BY DEF TypeOK, Stamps
<1> QED BY <1>1, <1>2, <1>3, <1>4, <1>5, <1>6

LEMMA FinishTaskIInv ==
  ASSUME IInv, NEW c \in Conns, NEW t \in Task, FinishTask(c, t)
  PROVE  IInv'
<1> USE TaskAssumption DEF IInv, FinishTask, Complete, GoTo, lists, loop, faults, ledger
<1>1. TypeOK'
  BY DEF TypeOK, PC, Outcome, Settled
<1>2. PendingIffQueued'
  <2>1. inner = "connected" /\ c = conn
    BY ActiveIsInstalled
  <2>2. t \in queue[c]
    BY <2>1 DEF RunsHead, IsInstalled, IsHead
  <2>3. Installed' = Installed \ {t}
    BY <2>1 DEF TypeOK, Installed
  <2>4. \A u \in Task : done'[u] = IF u = t THEN "resolved" ELSE done[u]
    BY DEF TypeOK
  <2> QED BY <2>3, <2>4 DEF PendingIffQueued
<1>3. OldLoopsStop'
  BY DEF TypeOK, OldLoopsStop, Numbering, AbortIsNoticed
<1>4. Numbering' /\ AbortIsNoticed'
  BY DEF TypeOK, Numbering, AbortIsNoticed
<1>5. RunsHead'
  BY DEF TypeOK, RunsHead, IsInstalled, IsHead
<1>6. Stamps'
  BY DEF TypeOK, Stamps
<1> QED BY <1>1, <1>2, <1>3, <1>4, <1>5, <1>6

LEMMA ExitIInv ==
  ASSUME IInv, NEW c \in Conns, pc[c] \notin {"none", "created"}, ExitWithError(c),
         applicationState' = applicationState
  PROVE  IInv'
<1> USE TaskAssumption DEF IInv, ExitWithError, GoTo, lists, loop, faults, ledger
<1>1. TypeOK'
  BY DEF TypeOK, PC
<1>2. PendingIffQueued'
  BY DEF TypeOK, PendingIffQueued, Installed
<1>3. OldLoopsStop'
  BY DEF TypeOK, OldLoopsStop, Numbering, AbortIsNoticed
<1>4. Numbering' /\ AbortIsNoticed'
  BY DEF TypeOK, Numbering, AbortIsNoticed
<1>5. RunsHead'
  BY DEF TypeOK, RunsHead, IsInstalled, IsHead
<1>6. Stamps'
  BY DEF TypeOK, Stamps
<1> QED BY <1>1, <1>2, <1>3, <1>4, <1>5, <1>6

LEMMA MessageIInv ==
  ASSUME IInv, NEW c \in Conns,
         RaceMessage(c) \/ IgnoreMessage(c) \/ RunPassive(c) \/ FinishPassive(c)
  PROVE  IInv'
<1> USE TaskAssumption DEF IInv, RaceMessage, IgnoreMessage, RunPassive, FinishPassive,
                        FreshBacklog, GoTo, lists, loop, faults, ledger
<1>1. TypeOK'
  BY DEF TypeOK, PC
<1>2. PendingIffQueued'
  BY DEF TypeOK, PendingIffQueued, Installed
<1>3. OldLoopsStop'
  BY DEF TypeOK, OldLoopsStop, Numbering, AbortIsNoticed
<1>4. Numbering' /\ AbortIsNoticed'
  BY DEF TypeOK, Numbering, AbortIsNoticed
<1>5. RunsHead'
  BY DEF TypeOK, RunsHead, IsInstalled, IsHead
<1>6. Stamps'
  BY DEF TypeOK, Stamps
<1> QED BY <1>1, <1>2, <1>3, <1>4, <1>5, <1>6

LEMMA DropIInv ==
  ASSUME IInv, NEW c \in Conns, ThrowUnrecoverable(c) \/ DropFails(c)
  PROVE  IInv'
<1> USE TaskAssumption DEF IInv, ThrowUnrecoverable, DropFails, FreshBacklog, GoTo, lists, loop, faults, ledger
<1>1. TypeOK'
  BY DEF TypeOK, PC
<1>2. PendingIffQueued'
  BY DEF TypeOK, PendingIffQueued, Installed
<1>3. OldLoopsStop'
  BY DEF TypeOK, OldLoopsStop, Numbering, AbortIsNoticed
<1>4. Numbering' /\ AbortIsNoticed'
  BY DEF TypeOK, Numbering, AbortIsNoticed
<1>5. RunsHead'
  BY DEF TypeOK, RunsHead, IsInstalled, IsHead
<1>6. Stamps'
  BY DEF TypeOK, Stamps
<1> QED BY <1>1, <1>2, <1>3, <1>4, <1>5, <1>6

-----------------------------------------------------------------------------

LEMMA StepIInv == ASSUME IInv, NEW c \in Conns, Step(c) PROVE IInv'
<1>1. CASE StartRun(c)
  BY <1>1, StartRunIInv
<1>2. CASE \E t \in Task : TakeTask(c, t) \/ TakeTaskAndReturn(c, t) \/ FinishTask(c, t)
  BY <1>2, TakeTaskIInv, TakeTaskAndReturnIInv, FinishTaskIInv
<1>3. CASE RaceMessage(c) \/ IgnoreMessage(c) \/ RunPassive(c) \/ FinishPassive(c)
  BY <1>3, MessageIInv
<1>4. CASE ContinueAssertionFails(c) \/ Throw(c) \/ DropAcknowledged(c)
  <2>1. pc[c] \notin {"none", "created"} /\ ExitWithError(c)
    BY <1>4 DEF ContinueAssertionFails, Throw, DropAcknowledged
  <2>2. applicationState' = applicationState
    BY <1>4 DEF ContinueAssertionFails, Throw, DropAcknowledged
  <2> QED BY <2>1, <2>2, ExitIInv
<1>5. CASE ThrowUnrecoverable(c) \/ DropFails(c)
  BY <1>5, DropIInv
<1> QED BY <1>1, <1>2, <1>3, <1>4, <1>5 DEF Step

LEMMA NextIInv == IInv /\ [Next]_vars => IInv'
<1> SUFFICES ASSUME IInv, [Next]_vars PROVE IInv'
  OBVIOUS
<1>1. CASE Schedule
  BY <1>1, ScheduleDisconnectedIInv, ScheduleConnectedIInv DEF Schedule
<1>2. CASE Connect
  BY <1>2, ConnectIInv
<1>3. CASE Disconnect
  BY <1>3, DisconnectIInv
<1>4. ASSUME NEW c \in Conns, Abort(c) PROVE IInv'
  BY <1>4, AbortIInv
<1>5. ASSUME NEW c \in Conns, Step(c) PROVE IInv'
  BY <1>5, StepIInv
<1>6. CASE UNCHANGED vars
  BY <1>6 DEF vars, lists, loop, faults, ledger, IInv, TypeOK, PendingIffQueued,
     Installed, OldLoopsStop, Numbering, AbortIsNoticed, RunsHead, IsInstalled,
     IsHead, Stamps
<1> QED BY <1>1, <1>2, <1>3, <1>4, <1>5, <1>6 DEF Next

THEOREM Invariance == Spec => []IInv
  BY InitIInv, NextIInv, PTL DEF Spec

\* Every variable keeps its type (the state of TaskManager and its managers).
THEOREM TypeCorrect == Spec => []TypeOK
  BY Invariance, PTL DEF IInv

\* No accepted task is lost and none that is settled is moved to another
\* manager by TaskManager.replace.
THEOREM NoTaskForgotten == Spec => []PendingIffQueued
  BY Invariance, PTL DEF IInv

\* A loop of ConnectedTaskManager.run that its connection left behind serves
\* neither messages nor queued tasks.
THEOREM OldLoopsHarmless == Spec => []OldLoopsStop
  BY Invariance, PTL DEF IInv

-----------------------------------------------------------------------------

\* A loop completes the head of the installed queue and nothing else.
LEMMA CompletesHead ==
  ASSUME IInv, NEW c \in Conns, NEW t \in Task,
         TakeTaskAndReturn(c, t) \/ FinishTask(c, t)
  PROVE  /\ IsInstalled(c) /\ IsHead(c, t) /\ done[t] = "pending"
         /\ \A u \in Task : done'[u] = IF u = t THEN "resolved" ELSE done[u]
<1> USE DEF IInv, TakeTaskAndReturn, FinishTask, Complete, loop, lists, ledger
<1>1. t \in queue[c] \/ (pc[c] = "task" /\ c \notin aborted)
  BY DEF IsHead
<1>2. IsInstalled(c)
  BY <1>1 DEF TypeOK, OldLoopsStop, Numbering, IsInstalled, IsHead
<1>3. IsHead(c, t)
  BY <1>2 DEF RunsHead
<1>4. done[t] = "pending"
  BY <1>2, <1>3 DEF IsHead, IsInstalled, PendingIffQueued, Installed
<1>5. \A u \in Task : done'[u] = IF u = t THEN "resolved" ELSE done[u]
  BY DEF TypeOK
<1> QED BY <1>2, <1>3, <1>4, <1>5

\* What any step does to the promises.
LEMMA DoneChanges ==
  ASSUME IInv, [Next]_vars, NEW t \in Task, done'[t] # done[t]
  PROVE  \/ done[t] = "unscheduled" /\ done'[t] # "resolved"
         \/ done[t] = "pending" /\ done'[t] = "rejected"
         \/ /\ done[t] = "pending" /\ done'[t] = "resolved"
            /\ \E c \in Conns : IsInstalled(c) /\ IsHead(c, t)
<1>1. CASE Schedule
  BY <1>1 DEF Schedule, ScheduleDisconnected, ScheduleConnected, Accept, Refuse, IInv, TypeOK
<1>2. CASE Connect
  <2>1. t \in waiting /\ inner = "disconnected" /\ done'[t] = "rejected"
    BY <1>2 DEF Connect
  <2> QED BY <2>1 DEF IInv, PendingIffQueued, Installed
<1>3. CASE Disconnect
  BY <1>3 DEF Disconnect
<1>4. ASSUME NEW c \in Conns, Abort(c) PROVE FALSE
  BY <1>4 DEF Abort
<1>5. ASSUME NEW c \in Conns, Step(c)
      PROVE  \E u \in Task : TakeTaskAndReturn(c, u) \/ FinishTask(c, u)
  BY <1>5 DEF Step, StartRun, TakeTask, RaceMessage, ContinueAssertionFails,
     IgnoreMessage, RunPassive, FinishPassive, Throw, ThrowUnrecoverable,
     DropAcknowledged, DropFails, ExitWithError
<1>6. ASSUME NEW c \in Conns, NEW u \in Task, TakeTaskAndReturn(c, u) \/ FinishTask(c, u)
      PROVE  /\ done[t] = "pending" /\ done'[t] = "resolved"
             /\ IsInstalled(c) /\ IsHead(c, t)
  BY <1>6, CompletesHead
<1>7. CASE UNCHANGED vars
  BY <1>7 DEF vars
<1> QED BY <1>1, <1>2, <1>3, <1>4, <1>5, <1>6, <1>7 DEF Next

\* The outcome of a promise that TaskManager.schedule returned is final.
THEOREM SettlesOnce == Spec => SettledOnce
<1>1. IInv /\ [Next]_vars =>
        [\A t \in Task : done[t] \in Settled => done'[t] = done[t]]_vars
  BY DoneChanges DEF Settled
<1> QED BY <1>1, Invariance, PTL DEF Spec, SettledOnce

\* Persistent tasks complete in the order schedule accepted them, across
\* reconnections.
THEOREM CompletesInOrder == Spec => PersistentInOrder
<1>1. ASSUME IInv, [Next]_vars, NEW t \in Persistent, NEW u \in Persistent,
             done[t] = "pending", done'[t] = "resolved",
             stamp[u] # 0, stamp[u] < stamp[t]
      PROVE  done[u] = "resolved"
  <2>1. t \in Task /\ u \in Task
    BY TaskAssumption
  <2>2. PICK c \in Conns : IsInstalled(c) /\ IsHead(c, t)
    BY <1>1, <2>1, DoneChanges
  <2>3. SUFFICES ASSUME done[u] = "pending" PROVE FALSE
    BY <1>1 DEF IInv, Stamps
  <2>4. u \in queue[c]
    <3>1. PendingIffQueued /\ Installed = queue[c]
      BY <1>1, <2>2 DEF IInv, Installed, IsInstalled
    <3> QED BY <2>1, <2>3, <3>1 DEF PendingIffQueued
  <2>5. stamp[t] <= stamp[u] /\ stamp[t] \in Nat /\ stamp[u] \in Nat
    <3>1. stamp \in [Task -> Nat]
      BY <1>1 DEF IInv, TypeOK
    <3> QED BY <2>1, <2>2, <2>4, <3>1 DEF IsHead
  <2> QED BY <1>1, <2>5
<1>2. IInv /\ [Next]_vars =>
        [\A t, u \in Persistent :
           /\ done[t] = "pending" /\ done'[t] = "resolved"
           /\ stamp[u] # 0 /\ stamp[u] < stamp[t]
           => done[u] = "resolved"]_vars
  BY <1>1
<1> QED BY <1>2, Invariance, PTL DEF Spec, PersistentInOrder

-----------------------------------------------------------------------------
(* One list *)

\* What is not decided is in the list that is installed.
LEMMA PendingListed == ASSUME IInv PROVE List!Pending = Installed
<1>1. Installed \subseteq Task
  BY DEF IInv, TypeOK, Installed, Numbering
<1> QED
  BY <1>1 DEF IInv, PendingIffQueued, List!Pending

LEMMA InitListed == Init => List!Init
  BY DEF Init, List!Init

LEMMA ScheduleListed == ASSUME IInv, Schedule PROVE List!Next
<1>1. PICK t \in Task : ScheduleDisconnected(t) \/ ScheduleConnected(t)
  BY DEF Schedule
<1>2. CASE Accept(t)
  BY <1>1, <1>2 DEF ScheduleDisconnected, ScheduleConnected, Accept, List!Accept, List!Next
<1>3. CASE t \notin Persistent /\ Refuse(t, "rejected")
  BY <1>1, <1>3 DEF ScheduleDisconnected, ScheduleConnected, Refuse, ledger,
                    List!Refuse, List!Next
<1>4. CASE Refuse(t, "thrown")
  BY <1>1, <1>4 DEF ScheduleDisconnected, ScheduleConnected, Refuse, ledger,
                    List!Refuse, List!Next
<1> QED
  BY <1>1, <1>2, <1>3, <1>4 DEF ScheduleDisconnected, ScheduleConnected

LEMMA ConnectListed == ASSUME IInv, Connect PROVE List!Next
<1>1. List!Pending = waiting
  BY PendingListed DEF Connect, Installed
<1>2. List!RejectVolatile
  BY <1>1 DEF Connect, ledger, List!RejectVolatile
<1> QED
  BY <1>2 DEF List!Next

LEMMA CompleteListed ==
  ASSUME IInv, NEW c \in Conns, NEW t \in Task,
         TakeTaskAndReturn(c, t) \/ FinishTask(c, t)
  PROVE  List!Next
<1>1. IsInstalled(c) /\ IsHead(c, t)
  BY CompletesHead
<1>2. List!Pending = queue[c]
  BY <1>1, PendingListed DEF IsInstalled, Installed
<1>3. List!Complete(t)
  BY <1>1, <1>2 DEF IsHead, TakeTaskAndReturn, FinishTask, Complete, ledger, List!Complete
<1> QED
  BY <1>3 DEF List!Next

LEMMA StepListed == IInv /\ [Next]_vars => [List!Next]_List!vars
<1> SUFFICES ASSUME IInv, [Next]_vars, ~UNCHANGED <<done, stamp, accepted>>
             PROVE  List!Next
  BY DEF List!vars
<1>1. ~(Disconnect \/ UNCHANGED vars \/ \E c \in Conns : Abort(c))
  BY DEF Disconnect, Abort, vars, ledger
<1>2. ASSUME NEW c \in Conns, Step(c)
      PROVE  \E t \in Task : TakeTaskAndReturn(c, t) \/ FinishTask(c, t)
  BY <1>2 DEF Step, StartRun, TakeTask, RaceMessage, ContinueAssertionFails,
     IgnoreMessage, RunPassive, FinishPassive, Throw, ThrowUnrecoverable,
     DropAcknowledged, DropFails, ExitWithError, ledger
<1>3. ASSUME NEW c \in Conns, Step(c) PROVE List!Next
  BY <1>2, <1>3, CompleteListed
<1> QED
  BY <1>1, <1>3, ScheduleListed, ConnectListed DEF Next

\* The managers of all connections behave like one list of tasks (schedule and
\* replace of TaskManager, and the loops, of which the old ones may still run).
THEOREM ListImplemented == Spec => ImplementsList
  BY InitListed, StepListed, Invariance, PTL DEF Spec, ImplementsList, List!Spec

=============================================================================
