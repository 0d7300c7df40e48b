------------------------- MODULE LockedUpdateProofs -------------------------
(***************************************************************************)
(* Proofs about LockedUpdate for any updates, any number of connections    *)
(* and of changes by other devices.                                        *)
(*                                                                         *)
(* That a remote update meets no conflict depends on the lock and on the   *)
(* loop together: what changes the model is the executor that holds the    *)
(* lock, or the loop, which is busy with the message of the remote update. *)
(***************************************************************************)
EXTENDS LockedUpdate, TLAPS

\* An executor waits for the lock once.
QueueDistinct ==
    \A i, j \in DOMAIN lockQueue : lockQueue[i] = lockQueue[j] => i = j

\* Only local updates are scheduled and only remote ones come with a message;
\* connections are numbered in their order.
StagesFit ==
    /\ \A u \in Update : at[u] <= conn
    /\ \A u \in Update : stage[u] = "scheduled" => u \in Local
    /\ \A u \in Update : stage[u] = "received" => u \in Remote

\* The loop is busy with the update whose transaction is under way, and with
\* the message of a remote update from its receipt to its end.
LoopFits ==
    /\ \A u \in Update : stage[u] \in {"running", "open"} => Live(u)
    /\ \A u \in Local : stage[u] \in {"running", "open"} => loop = "update"
    /\ \A u \in Remote :
        stage[u] \in {"received", "waiting", "running", "open"} /\ Live(u) => loop = "message"

OneMessage ==
    \A u, v \in Remote :
        /\ stage[u] \in {"received", "waiting", "running", "open"} /\ Live(u)
        /\ stage[v] \in {"received", "waiting", "running", "open"} /\ Live(v)
        => u = v

OpenIsCurrent == \A u \in Update : stage[u] = "open" => base[u] = version

IInv ==
    /\ TypeOK
    /\ QueueDistinct
    /\ OneAtATime
    /\ StagesFit
    /\ LoopFits
    /\ OneMessage
    /\ OpenIsCurrent
    /\ RemoteIsCurrent

-----------------------------------------------------------------------------
\* The lock: who waits, and what entering the queue and leaving it change.

\* The queue after one that was not in it has been appended.
LEMMA EnqueueLemma ==
  ASSUME TypeOK, QueueDistinct, NEW u \in Update, stage[u] \notin Pending, Enqueue(u)
  PROVE  /\ lockQueue' \in Seq(Update) /\ stage' \in [Update -> Stage]
         /\ QueueDistinct'
         /\ \A v \in Update : InQueue(v)' <=> stage'[v] \in Pending
         /\ \A v \in Update : Holds(v) => Holds(v)'
<1>1. stage' \in [Update -> Stage] /\ stage'[u] = "waiting"
      /\ \A v \in Update \ {u} : stage'[v] = stage[v]
  BY DEF Enqueue, TypeOK, Stage, Pending
<1>2. lockQueue \in Seq(Update) /\ lockQueue' = Append(lockQueue, u)
  BY DEF Enqueue, TypeOK
<1>3. /\ lockQueue' \in Seq(Update)
      /\ DOMAIN lockQueue = 1..Len(lockQueue) /\ DOMAIN lockQueue' = 1..Len(lockQueue) + 1
      /\ \A i \in DOMAIN lockQueue : lockQueue'[i] = lockQueue[i]
      /\ lockQueue'[Len(lockQueue) + 1] = u
      /\ Len(lockQueue) \in Nat
  BY <1>2
<1>4. \A i \in DOMAIN lockQueue : lockQueue[i] # u
  BY DEF TypeOK, InQueue
<1>5. QueueDistinct'
  BY <1>3, <1>4 DEF QueueDistinct
<1>6. ASSUME NEW v \in Update PROVE InQueue(v)' <=> InQueue(v) \/ v = u
  <2>1. ASSUME NEW i \in DOMAIN lockQueue, lockQueue[i] = v PROVE InQueue(v)'
    <3>1. i \in DOMAIN lockQueue' /\ lockQueue'[i] = v
      BY <1>3, <2>1
    <3> QED
      BY <3>1 DEF InQueue
  <2>2. InQueue(u)'
    BY <1>3 DEF InQueue
  <2>3. ASSUME NEW i \in DOMAIN lockQueue', lockQueue'[i] = v PROVE InQueue(v) \/ v = u
    <3>1. CASE i = Len(lockQueue) + 1
      BY <1>3, <2>3, <3>1
    <3>2. CASE i \in DOMAIN lockQueue
      BY <1>3, <2>3, <3>2 DEF InQueue
    <3> QED
      BY <1>3, <3>1, <3>2
  <2> QED
    BY <2>1, <2>2, <2>3 DEF InQueue
<1>7. \A v \in Update : InQueue(v)' <=> stage'[v] \in Pending
  BY <1>1, <1>6 DEF TypeOK, Pending
<1>8. \A v \in Update : Holds(v) => Holds(v)'
  BY <1>2 DEF Holds
<1> QED
  BY <1>1, <1>3, <1>5, <1>7, <1>8

\* The queue after its first has left it.
LEMMA LeaveLemma ==
  ASSUME TypeOK, QueueDistinct, NEW u \in Update, Holds(u), lockQueue' = Tail(lockQueue)
  PROVE  /\ lockQueue' \in Seq(Update)
         /\ QueueDistinct'
         /\ \A v \in Update : InQueue(v)' <=> InQueue(v) /\ v # u
<1>0. lockQueue \in Seq(Update) /\ lockQueue # <<>> /\ Head(lockQueue) = u
  BY DEF TypeOK, Holds
<1>1. /\ lockQueue' \in Seq(Update)
      /\ Len(lockQueue) \in Nat /\ Len(lockQueue) > 0
      /\ DOMAIN lockQueue = 1..Len(lockQueue) /\ DOMAIN lockQueue' = 1..Len(lockQueue) - 1
      /\ lockQueue[1] = u
  BY <1>0
<1>2. \A i \in 1..Len(lockQueue) - 1 : lockQueue'[i] = lockQueue[i + 1]
  BY <1>0
<1>3. QueueDistinct'
  BY <1>1, <1>2 DEF QueueDistinct
<1>4. ASSUME NEW v \in Update PROVE InQueue(v)' <=> InQueue(v) /\ v # u
  <2>1. ASSUME InQueue(v)' PROVE InQueue(v) /\ v # u
    <3>1. PICK i \in DOMAIN lockQueue' : lockQueue'[i] = v
      BY <2>1 DEF InQueue
    <3>2. i + 1 \in DOMAIN lockQueue /\ i + 1 # 1 /\ lockQueue[i + 1] = v
      BY <1>1, <1>2, <3>1
    <3>3. 1 \in DOMAIN lockQueue
      BY <1>1
    <3> QED
      BY <1>1, <3>2, <3>3 DEF InQueue, QueueDistinct
  <2>2. ASSUME InQueue(v), v # u PROVE InQueue(v)'
    <3>1. PICK i \in DOMAIN lockQueue : lockQueue[i] = v
      BY <2>2 DEF InQueue
    <3>2. i - 1 \in 1..Len(lockQueue) - 1 /\ i = (i - 1) + 1
      BY <1>1, <2>2, <3>1
    <3>3. lockQueue'[i - 1] = v
      BY <1>2, <3>1, <3>2
    <3> QED
      BY <1>1, <3>2, <3>3 DEF InQueue
  <2> QED
    BY <2>1, <2>2
<1> QED
  BY <1>1, <1>3, <1>4

\* What an executor that ends leaves behind.
LEMMA SettleLemma ==
  ASSUME TypeOK, QueueDistinct, NEW u \in Update, Holds(u), NEW how \in Settled, Settle(u, how)
  PROVE  /\ lockQueue' \in Seq(Update) /\ stage' \in [Update -> Stage]
         /\ QueueDistinct'
         /\ \A v \in Update : InQueue(v)' <=> stage'[v] \in Pending
         /\ stage'[u] = how
         /\ \A v \in Update \ {u} : stage'[v] = stage[v]
<1> USE DEF Settle
<1>1. stage' \in [Update -> Stage] /\ stage'[u] = how /\ \A v \in Update \ {u} : stage'[v] = stage[v]
  BY DEF TypeOK, Stage
<1>2. how \notin Pending
  BY DEF Settled, Pending
<1> QED
  BY <1>1, <1>2, LeaveLemma DEF TypeOK

\* The lock has one holder.
LEMMA HolderIsUnique ==
  ASSUME NEW u, NEW v, Holds(u), Holds(v)
  PROVE  u = v
  BY DEF Holds

USE DEF Update

LEMMA InitInvariant == Init => IInv
<1> SUFFICES ASSUME Init PROVE IInv
  OBVIOUS
<1>1. TypeOK
  BY UpdateAssumption DEF Init, TypeOK, Stage, Pending, InQueue
<1>2. QueueDistinct /\ OneAtATime /\ StagesFit
  BY DEF Init, QueueDistinct, OneAtATime, StagesFit
<1>3. LoopFits /\ OneMessage
  BY DEF Init, LoopFits, OneMessage
<1>4. OpenIsCurrent /\ RemoteIsCurrent
  BY DEF Init, OpenIsCurrent, RemoteIsCurrent
<1> QED
  BY <1>1, <1>2, <1>3, <1>4 DEF IInv

-----------------------------------------------------------------------------
\* One lemma per action.

LEMMA ChangePreserves ==
  ASSUME IInv, NEW u \in Update, ChangeLocally(u) \/ ChangeRemotely(u)
  PROVE  IInv'
<1> USE DEF IInv
<1>1. /\ Enqueue(u)
      /\ UNCHANGED <<conn, net, loop, at, base, version, syncs>>
      /\ stage[u] \in {"idle", "received"}
      /\ stage[u] = "received" \/ u \in Local
  BY DEF ChangeLocally, ChangeRemotely, connection
<1>2. stage[u] \notin Pending
  BY <1>1 DEF Pending
<1>3. \A v \in Update \ {u} : stage'[v] = stage[v]
  BY <1>1 DEF Enqueue, TypeOK
<1>4. stage'[u] = "waiting"
  BY <1>1 DEF Enqueue, TypeOK
<1>5. TypeOK' /\ QueueDistinct'
  BY <1>1, <1>2, EnqueueLemma DEF TypeOK
<1>6. OneAtATime'
  BY <1>1, <1>2, <1>3, <1>4, EnqueueLemma DEF OneAtATime
<1>7. StagesFit'
  BY <1>1, <1>3, <1>4 DEF StagesFit
<1>8. LoopFits'
  BY <1>1, <1>3, <1>4, UpdateAssumption DEF LoopFits, Live
<1>9. OneMessage'
  BY <1>1, <1>3, <1>4, UpdateAssumption DEF OneMessage, Live
<1>10. OpenIsCurrent' /\ RemoteIsCurrent'
  BY <1>1, <1>3, <1>4 DEF OpenIsCurrent, RemoteIsCurrent
<1> QED
  BY <1>5, <1>6, <1>7, <1>8, <1>9, <1>10

\* The stage of the holder changes, and the version is read.
LEMMA EnterPreserves ==
  ASSUME IInv, NEW u \in Update, EnterLocal(u) \/ EnterRemote(u)
  PROVE  IInv'
<1> USE DEF IInv
<1>1. /\ Holds(u) /\ stage[u] = "waiting"
      /\ UNCHANGED <<conn, net, loop, lockQueue, at, version, syncs>>
      /\ base' = [base EXCEPT ![u] = version]
      /\ \/ u \in Local /\ stage' = [stage EXCEPT ![u] = "scheduled"]
         \/ u \in Remote /\ Live(u) /\ stage' = [stage EXCEPT ![u] = "running"]
  BY DEF EnterLocal, EnterRemote, connection
<1>2. TypeOK'
  <2>1. stage' \in [Update -> Stage] /\ base' \in [Update -> 0..version]
    BY <1>1 DEF TypeOK, Stage, Pending
  <2>2. \A v \in Update : stage'[v] \in Pending <=> stage[v] \in Pending
    BY <1>1 DEF TypeOK, Pending
  <2> QED
    BY <1>1, <2>1, <2>2 DEF TypeOK, InQueue
<1>3. QueueDistinct'
  BY <1>1 DEF QueueDistinct
<1>4. OneAtATime'
  BY <1>1 DEF OneAtATime, Holds, TypeOK
<1>5. StagesFit'
  BY <1>1, UpdateAssumption DEF StagesFit, TypeOK
<1>6. LoopFits'
  BY <1>1, UpdateAssumption DEF LoopFits, Live, TypeOK
<1>7. OneMessage'
  BY <1>1, UpdateAssumption DEF OneMessage, Live, TypeOK
<1>8. OpenIsCurrent' /\ RemoteIsCurrent'
  BY <1>1 DEF OpenIsCurrent, RemoteIsCurrent, TypeOK
<1> QED
  BY <1>2, <1>3, <1>4, <1>5, <1>6, <1>7, <1>8

\* The holder ends without having changed the model.
LEMMA FailPreserves ==
  ASSUME IInv, NEW u \in Update, ScheduleFails(u) \/ HandleFails(u) \/ Conflict(u)
  PROVE  IInv'
<1> USE DEF IInv
<1>1. /\ stage[u] \in {"waiting", "running"}
      /\ Settle(u, "failed")
      /\ UNCHANGED <<conn, net, at, base, version, syncs>>
  BY DEF ScheduleFails, HandleFails, Conflict, connection
<1>2. Holds(u)
  BY <1>1 DEF ScheduleFails, HandleFails, Conflict, OneAtATime
<1>3. "failed" \in Settled
  BY DEF Settled
<1>4. stage'[u] = "failed" /\ \A v \in Update \ {u} : stage'[v] = stage[v]
  BY <1>1, <1>2, <1>3, SettleLemma
<1>5. loop' = loop \/ (loop' \in {"idle", "exited"} /\ LoopGoesOn(u))
  BY DEF ScheduleFails, HandleFails, Conflict, LoopGoesOn
<1>6. TypeOK' /\ QueueDistinct'
  BY <1>1, <1>2, <1>3, <1>5, SettleLemma DEF TypeOK
\* Nobody else has entered.
<1>7. \A v \in Update : stage'[v] \notin {"scheduled", "running", "open"}
  BY <1>2, <1>4, HolderIsUnique DEF OneAtATime
<1>8. OneAtATime' /\ OpenIsCurrent' /\ RemoteIsCurrent'
  BY <1>7 DEF OneAtATime, OpenIsCurrent, RemoteIsCurrent
<1>9. StagesFit'
  BY <1>1, <1>4 DEF StagesFit
<1>10. LoopFits'
  <2>1. ASSUME NEW v \in Remote, stage'[v] \in {"received", "waiting"}, Live(v)'
        PROVE  loop' = "message"
    <3>1. v # u /\ stage[v] = stage'[v] /\ Live(v) /\ net = "up"
      BY <1>1, <1>4, <2>1 DEF Live
    <3>2. loop = "message"
      BY <2>1, <3>1 DEF LoopFits
    <3>3. loop' = loop
      <4>1. CASE ScheduleFails(u)
        BY <4>1 DEF ScheduleFails
      <4>2. CASE HandleFails(u)
        <5>1. u \in Remote /\ at[u] # conn
          BY <3>1, <4>2 DEF HandleFails, Live
        <5>2. LoopGoesOn(u)
          BY <4>2 DEF HandleFails
        <5> QED
          BY <5>1, <5>2 DEF LoopGoesOn
      <4>3. CASE Conflict(u)
        <5>1. u \in Local => loop = "update"
          BY <4>3 DEF Conflict, LoopFits
        <5>2. u \in Remote => u = v
          BY <2>1, <3>1, <4>3 DEF Conflict, OneMessage
        <5> QED
          BY <3>1, <3>2, <5>1, <5>2
      <4> QED
        BY <4>1, <4>2, <4>3
    <3> QED
      BY <3>2, <3>3
  <2> QED
    BY <1>7, <2>1 DEF LoopFits
<1>11. OneMessage'
  BY <1>1, <1>4 DEF OneMessage, Live
<1> QED
  BY <1>6, <1>8, <1>9, <1>10, <1>11

LEMMA OpenPreserves ==
  ASSUME IInv, NEW u \in Update, Open(u)
  PROVE  IInv'
<1> USE DEF IInv, Open, connection
<1>1. TypeOK'
  BY DEF TypeOK, Stage, Pending, InQueue
<1>2. QueueDistinct'
  BY DEF QueueDistinct
<1>3. OneAtATime'
  BY DEF OneAtATime, Holds, TypeOK
<1>4. StagesFit'
  BY DEF StagesFit, TypeOK
<1>5. LoopFits'
  BY DEF LoopFits, Live, TypeOK
<1>6. OneMessage'
  BY DEF OneMessage, Live, TypeOK
<1>7. OpenIsCurrent' /\ RemoteIsCurrent'
  BY DEF OpenIsCurrent, RemoteIsCurrent, TypeOK
<1> QED
  BY <1>1, <1>2, <1>3, <1>4, <1>5, <1>6, <1>7

\* The version changes, and nobody else has read it for a transaction.
LEMMA CommitPreserves ==
  ASSUME IInv, NEW u \in Update, Commit(u)
  PROVE  IInv'
<1> USE DEF IInv
<1>1. /\ stage[u] = "open" /\ Live(u)
      /\ Settle(u, "committed")
      /\ version' = version + 1
      /\ UNCHANGED <<conn, net, at, base, syncs>>
  BY DEF Commit, connection
<1>2. Holds(u) /\ "committed" \in Settled
  BY <1>1 DEF OneAtATime, Settled
<1>3. stage'[u] = "committed" /\ \A v \in Update \ {u} : stage'[v] = stage[v]
  BY <1>1, <1>2, SettleLemma
<1>4. loop' = "idle"
  BY <1>1 DEF Commit, LoopGoesOn, Live
<1>5. base' \in [Update -> 0..version']
  BY <1>1 DEF TypeOK
<1>6. TypeOK' /\ QueueDistinct'
  BY <1>1, <1>2, <1>4, <1>5, SettleLemma DEF TypeOK
<1>7. \A v \in Update : stage'[v] \notin {"scheduled", "running", "open"}
  BY <1>2, <1>3, HolderIsUnique DEF OneAtATime
<1>8. OneAtATime' /\ OpenIsCurrent' /\ RemoteIsCurrent'
  BY <1>7 DEF OneAtATime, OpenIsCurrent, RemoteIsCurrent
<1>9. StagesFit'
  BY <1>1, <1>3 DEF StagesFit
\* The loop was busy with u, so that no message of this connection is left.
<1>10. ASSUME NEW v \in Remote, stage'[v] \in {"received", "waiting"}, Live(v)' PROVE FALSE
  <2>1. v # u /\ stage[v] = stage'[v] /\ Live(v)
    BY <1>1, <1>3, <1>10 DEF Live
  <2>2. u \in Remote => u = v
    BY <1>1, <1>10, <2>1 DEF OneMessage
  <2>3. u \in Local => loop = "update"
    BY <1>1 DEF LoopFits
  <2>4. loop = "message"
    BY <1>10, <2>1 DEF LoopFits
  <2> QED
    BY <2>1, <2>2, <2>3, <2>4 DEF Update
<1>11. LoopFits'
  BY <1>7, <1>10 DEF LoopFits
<1>12. OneMessage'
  BY <1>7, <1>10 DEF OneMessage
<1> QED
  BY <1>6, <1>8, <1>9, <1>11, <1>12

\* The loop takes something when it is idle: nobody is running, and there is no
\* message of this connection.
LEMMA IdleLoop ==
  ASSUME IInv, Idle
  PROVE  /\ \A v \in Update : stage[v] \notin {"running", "open"}
         /\ \A v \in Remote : stage[v] \in {"received", "waiting"} => ~Live(v)
<1>1. \A v \in Remote : stage[v] \in {"received", "waiting", "running", "open"} => ~Live(v)
  BY DEF IInv, LoopFits, Idle
<1>2. \A v \in Local : stage[v] \notin {"running", "open"}
  BY DEF IInv, LoopFits, Idle
<1>3. \A v \in Update : stage[v] \in {"running", "open"} => Live(v)
  BY DEF IInv, LoopFits
<1> QED
  BY <1>1, <1>2, <1>3 DEF Update

LEMMA TakeTaskPreserves ==
  ASSUME IInv, NEW u \in Update, TakeTask(u)
  PROVE  IInv'
<1> USE DEF IInv, TakeTask, Scheduled, connection
<1>0. u \in Local /\ u \notin Remote
  BY UpdateAssumption DEF StagesFit
<1>1. TypeOK'
  BY DEF TypeOK, Stage, Pending, InQueue
<1>2. QueueDistinct'
  BY DEF QueueDistinct
<1>3. OneAtATime'
  BY DEF OneAtATime, Holds, TypeOK
<1>4. StagesFit'
  BY DEF StagesFit, TypeOK
<1>5. LoopFits'
  BY <1>0, IdleLoop DEF LoopFits, Live, TypeOK, Idle
<1>6. OneMessage'
  BY <1>0, IdleLoop DEF OneMessage, Live, TypeOK
<1>7. OpenIsCurrent' /\ RemoteIsCurrent'
  BY <1>0 DEF OpenIsCurrent, RemoteIsCurrent, TypeOK
<1> QED
  BY <1>1, <1>2, <1>3, <1>4, <1>5, <1>6, <1>7

LEMMA TakeMessagePreserves ==
  ASSUME IInv, NEW u \in Update, TakeMessage(u)
  PROVE  IInv'
<1> USE DEF IInv, TakeMessage, connection
<1>1. TypeOK'
  BY DEF TypeOK, Stage, Pending, InQueue
<1>2. QueueDistinct'
  BY DEF QueueDistinct
<1>3. OneAtATime'
  BY DEF OneAtATime, Holds, TypeOK
<1>4. StagesFit'
  BY UpdateAssumption DEF StagesFit, TypeOK
<1>5. LoopFits'
  BY IdleLoop DEF LoopFits, Live, TypeOK, Idle
<1>6. OneMessage'
  BY IdleLoop DEF OneMessage, Live, TypeOK
<1>7. OpenIsCurrent' /\ RemoteIsCurrent'
  BY DEF OpenIsCurrent, RemoteIsCurrent, TypeOK
<1> QED
  BY <1>1, <1>2, <1>3, <1>4, <1>5, <1>6, <1>7

LEMMA ReflectedPreserves ==
  ASSUME IInv, TakeReflected \/ ApplyReflected
  PROVE  IInv'
<1> USE DEF IInv, connection
<1>1. CASE TakeReflected
  <2> USE <1>1 DEF TakeReflected
  <2>1. TypeOK'
    BY UpdateAssumption DEF TypeOK, InQueue
  <2>2. QueueDistinct' /\ OneAtATime' /\ StagesFit'
    BY DEF QueueDistinct, OneAtATime, Holds, StagesFit
  <2>3. LoopFits'
    BY IdleLoop DEF LoopFits, Live, Idle
  <2>4. OneMessage' /\ OpenIsCurrent' /\ RemoteIsCurrent'
    BY DEF OneMessage, Live, OpenIsCurrent, RemoteIsCurrent
  <2> QED
    BY <2>1, <2>2, <2>3, <2>4
<1>2. CASE ApplyReflected
  <2> USE <1>2 DEF ApplyReflected
  <2>1. TypeOK'
    BY DEF TypeOK, InQueue
  <2>2. QueueDistinct' /\ OneAtATime' /\ StagesFit'
    BY DEF QueueDistinct, OneAtATime, Holds, StagesFit
\* The loop is busy with the reflected change.
  <2>3. \A v \in Update : stage[v] \notin {"running", "open"}
    BY DEF LoopFits, Update
  <2>4. LoopFits'
    BY <2>3 DEF LoopFits, Live
  <2>5. OneMessage' /\ OpenIsCurrent' /\ RemoteIsCurrent'
    BY <2>3 DEF OneMessage, Live, OpenIsCurrent, RemoteIsCurrent
  <2> QED
    BY <2>1, <2>2, <2>4, <2>5
<1> QED
  BY <1>1, <1>2


\* What a lost connection leaves in the queue: the lock goes on to the next one
\* if its holder was the task of a message.
LEMMA LosePreserves ==
  ASSUME IInv, Lose
  PROVE  IInv'
<1> USE DEF IInv
<1>1. /\ net = "up" /\ net' = "lost"
      /\ UNCHANGED <<conn, at, base, version, syncs>>
      /\ loop' \in {"message", "exited"}
  BY DEF Lose
<1>2. \A v \in Local : stage[v] \in {"running", "open"} => stage'[v] = "scheduled"
  BY UpdateAssumption DEF Lose
<1>3. \A v \in Remote : stage[v] \in {"running", "open"} => stage'[v] = "failed"
  BY UpdateAssumption DEF Lose
<1>4. \A v \in Update : stage[v] \notin {"running", "open"} => stage'[v] = stage[v]
  BY DEF Lose
<1>5. stage' \in [Update -> Stage]
  BY DEF Lose, TypeOK, Stage, Settled, Pending
<1>6. TypeOK' /\ QueueDistinct' /\ OneAtATime'
  <2>1. CASE \E u \in Remote : stage[u] \in {"running", "open"}
    <3>1. PICK u \in Remote : stage[u] \in {"running", "open"}
      BY <2>1
    <3>2. Holds(u)
      BY <3>1 DEF OneAtATime
    <3>3. lockQueue' = Tail(lockQueue)
      BY <3>1 DEF Lose
    <3>4. \A v \in Update \ {u} : stage[v] \notin {"scheduled", "running", "open"}
      BY <3>2, HolderIsUnique DEF OneAtATime
    <3>5. \A v \in Update : stage'[v] \in Pending <=> stage[v] \in Pending /\ v # u
      BY <1>3, <1>4, <3>1, <3>4 DEF Pending
    <3>6. \A v \in Update : InQueue(v)' <=> stage'[v] \in Pending
      BY <3>2, <3>3, <3>5, LeaveLemma DEF TypeOK
    <3>7. TypeOK' /\ QueueDistinct'
      BY <1>1, <1>5, <3>2, <3>3, <3>6, LeaveLemma DEF TypeOK
    <3>8. OneAtATime'
      BY <1>3, <1>4, <3>1, <3>4 DEF OneAtATime
    <3> QED
      BY <3>7, <3>8
  <2>2. CASE ~ \E u \in Remote : stage[u] \in {"running", "open"}
    <3>1. lockQueue' = lockQueue
      BY <2>2 DEF Lose
    <3>2. \A v \in Update : stage'[v] \in Pending <=> stage[v] \in Pending
      BY <1>2, <1>4, <2>2 DEF Pending
    <3>3. TypeOK'
      BY <1>1, <1>5, <3>1, <3>2 DEF TypeOK, InQueue
    <3>4. QueueDistinct' /\ OneAtATime'
      BY <1>2, <1>4, <2>2, <3>1 DEF QueueDistinct, OneAtATime, Holds
    <3> QED
      BY <3>3, <3>4
  <2> QED
    BY <2>1, <2>2
<1>7. StagesFit'
  BY <1>1, <1>2, <1>3, <1>4 DEF StagesFit
<1>8. \A v \in Update : stage'[v] \notin {"running", "open"}
  BY <1>2, <1>3, <1>4
<1>9. LoopFits' /\ OneMessage'
  BY <1>1, <1>8 DEF LoopFits, OneMessage, Live
<1>10. OpenIsCurrent' /\ RemoteIsCurrent'
  BY <1>8 DEF OpenIsCurrent, RemoteIsCurrent
<1> QED
  BY <1>6, <1>7, <1>9, <1>10

LEMMA DisconnectPreserves ==
  ASSUME IInv, Disconnect
  PROVE  IInv'
<1> USE DEF IInv, Disconnect
<1>1. TypeOK' /\ QueueDistinct' /\ OneAtATime' /\ StagesFit'
  BY DEF TypeOK, InQueue, QueueDistinct, OneAtATime, Holds, StagesFit
<1>2. \A v \in Update : stage[v] \notin {"running", "open"}
  BY DEF LoopFits, Live
<1>3. LoopFits' /\ OneMessage' /\ OpenIsCurrent' /\ RemoteIsCurrent'
  BY <1>2 DEF LoopFits, OneMessage, Live, OpenIsCurrent, RemoteIsCurrent
<1> QED
  BY <1>1, <1>3

\* A scheduled task holds the lock, so that there is at most one to be rejected.
LEMMA ConnectPreserves ==
  ASSUME IInv, Connect
  PROVE  IInv'
<1> USE DEF IInv
<1>1. /\ net = "disconnected" /\ net' = "up" /\ loop' = "idle"
      /\ conn' = conn + 1 /\ conn' \in 0..MaxConn
      /\ UNCHANGED <<at, base, version, syncs>>
  BY UpdateAssumption DEF Connect, TypeOK
<1>2. \A v \in Update : stage[v] = "scheduled" => stage'[v] = "failed"
  BY DEF Connect, Scheduled
<1>3. \A v \in Update : stage[v] # "scheduled" => stage'[v] = stage[v]
  BY DEF Connect, Scheduled
<1>4. stage' \in [Update -> Stage]
  BY DEF Connect, TypeOK, Stage, Settled
<1>5. \A v \in Update : stage'[v] \notin {"scheduled", "running", "open"}
  BY <1>1, <1>2, <1>3 DEF LoopFits, Live
<1>6. TypeOK' /\ QueueDistinct'
  <2>1. CASE \E u \in Update : stage[u] = "scheduled"
    <3>1. PICK u \in Update : stage[u] = "scheduled"
      BY <2>1
    <3>2. Holds(u)
      BY <3>1 DEF OneAtATime
    <3>3. lockQueue' = Tail(lockQueue)
      BY <3>1 DEF Connect, Scheduled
    <3>4. \A v \in Update \ {u} : stage[v] # "scheduled"
      BY <3>2, HolderIsUnique DEF OneAtATime
    <3>5. \A v \in Update : stage'[v] \in Pending <=> stage[v] \in Pending /\ v # u
      BY <1>2, <1>3, <3>1, <3>4 DEF Pending
    <3>6. \A v \in Update : InQueue(v)' <=> stage'[v] \in Pending
      BY <3>2, <3>3, <3>5, LeaveLemma DEF TypeOK
    <3> QED
      BY <1>1, <1>4, <3>2, <3>3, <3>6, LeaveLemma DEF TypeOK
  <2>2. CASE ~ \E u \in Update : stage[u] = "scheduled"
    <3>1. lockQueue' = lockQueue
      BY <2>2 DEF Connect, Scheduled
    <3>2. \A v \in Update : stage'[v] = stage[v]
      BY <1>3, <2>2
    <3> QED
      BY <1>1, <1>4, <3>1, <3>2 DEF TypeOK, InQueue, QueueDistinct
  <2> QED
    BY <2>1, <2>2
<1>7. OneAtATime' /\ OpenIsCurrent' /\ RemoteIsCurrent'
  BY <1>5 DEF OneAtATime, OpenIsCurrent, RemoteIsCurrent
<1>8. StagesFit'
  BY <1>1, <1>2, <1>3 DEF StagesFit, TypeOK
\* The connection is new: no message was received on it.
<1>9. \A v \in Update : ~Live(v)'
  BY <1>1 DEF StagesFit, Live, TypeOK
<1>10. LoopFits' /\ OneMessage'
  BY <1>5, <1>9 DEF LoopFits, OneMessage
<1> QED
  BY <1>6, <1>7, <1>8, <1>10

-----------------------------------------------------------------------------

\* The inductive invariant holds in every behaviour.
THEOREM Invariance == Spec => []IInv
<1>1. IInv /\ [Next]_vars => IInv'
  <2> SUFFICES ASSUME IInv, [Next]_vars PROVE IInv'
    OBVIOUS
  <2>1. ASSUME NEW u \in Update, UpdateStep(u) \/ ChangeLocally(u) \/ TakeMessage(u) PROVE IInv'
    BY <2>1, ChangePreserves, EnterPreserves, FailPreserves, OpenPreserves, CommitPreserves,
       TakeTaskPreserves, TakeMessagePreserves DEF UpdateStep
  <2>2. CASE TakeReflected \/ ApplyReflected
    BY <2>2, ReflectedPreserves
  <2>3. CASE Lose \/ Disconnect \/ Connect
    BY <2>3, LosePreserves, DisconnectPreserves, ConnectPreserves
  <2>4. CASE UNCHANGED vars
    BY <2>4 DEF vars, connection, IInv, TypeOK, InQueue, QueueDistinct, OneAtATime, Holds,
                StagesFit, LoopFits, OneMessage, Live, OpenIsCurrent, RemoteIsCurrent
  <2> QED
    BY <2>1, <2>2, <2>3, <2>4 DEF Next
<1> QED
  BY InitInvariant, <1>1, PTL DEF Spec

\* Type correctness (LockedUpdate).
THEOREM TypeCorrect == Spec => []TypeOK
<1>1. IInv => TypeOK
  BY DEF IInv
<1> QED
  BY Invariance, <1>1, PTL

\* Whoever has entered the lock of a model holds it (AsyncLock.with).
THEOREM Serial == Spec => []OneAtATime
<1>1. IInv => OneAtATime
  BY DEF IInv
<1> QED
  BY Invariance, <1>1, PTL

\* The transaction of an incoming message meets no conflict (_updateAsync).
THEOREM NoRemoteConflict == Spec => []RemoteIsCurrent
<1>1. IInv => RemoteIsCurrent
  BY DEF IInv
<1> QED
  BY Invariance, <1>1, PTL

\* An update is applied to the version it was made for (_updateAsync).
THEOREM UpdatesAreNotLost == Spec => NoLostUpdate
<1> DEFINE Applied(u) ==
      stage'[u] = "committed" /\ stage[u] # "committed" => version = base[u] /\ version' = version + 1
<1>1. IInv /\ [Next]_vars => [\A u \in Update : Applied(u)]_vars
  <2> SUFFICES ASSUME IInv, Next, NEW u \in Update,
                      stage'[u] = "committed", stage[u] # "committed"
               PROVE  version = base[u] /\ version' = version + 1
    OBVIOUS
  <2> USE DEF IInv
\* Only a commit sets this stage.
  <2>1. Commit(u)
    <3>1. ASSUME NEW v \in Update, UpdateStep(v) PROVE Commit(u)
      <4>1. CASE ChangeRemotely(v)
        BY <4>1 DEF ChangeRemotely, Enqueue, TypeOK
      <4>2. CASE EnterLocal(v) \/ EnterRemote(v) \/ Open(v) \/ TakeTask(v)
        BY <4>2 DEF EnterLocal, EnterRemote, Open, TakeTask, TypeOK
      <4>3. CASE ScheduleFails(v) \/ HandleFails(v) \/ Conflict(v)
        BY <4>3 DEF ScheduleFails, HandleFails, Conflict, Settle, TypeOK
      <4>4. CASE Commit(v)
        BY <4>4 DEF Commit, Settle, TypeOK
      <4> QED
        BY <3>1, <4>1, <4>2, <4>3, <4>4 DEF UpdateStep
    <3>2. ASSUME NEW v \in Update, ChangeLocally(v) \/ TakeMessage(v) PROVE Commit(u)
      BY <3>2 DEF ChangeLocally, Enqueue, TakeMessage, TypeOK
    <3>3. CASE TakeReflected \/ ApplyReflected \/ Disconnect
      BY <3>3 DEF TakeReflected, ApplyReflected, Disconnect
    <3>4. CASE Lose \/ Connect
      BY <3>4 DEF Lose, Connect, TypeOK
    <3> QED
      BY <3>1, <3>2, <3>3, <3>4 DEF Next
  <2> QED
    BY <2>1 DEF Commit, OpenIsCurrent
<1> QED
  BY Invariance, <1>1, PTL DEF Spec, NoLostUpdate

-----------------------------------------------------------------------------
\* Who keeps the lock can go on.

\* The loop of a connection that is up has not ended, and is not busy for nobody.
InProcess(r) == stage[r] \in {"received", "waiting", "running", "open"} /\ Live(r)

LoopIsBusy ==
    net = "up" =>
        /\ loop # "exited"
        /\ loop = "update" => \E u \in Local : stage[u] \in {"running", "open"}
        /\ loop = "message" => \E r \in Remote : InProcess(r)

\* Steps that leave the loop alone, and change the stage of one update at most.
LEMMA LoopKept ==
  ASSUME LoopIsBusy, UNCHANGED <<connection, loop, at>>, NEW u \in Update,
         \A v \in Update \ {u} : stage'[v] = stage[v],
         u \in Local /\ stage[u] \in {"running", "open"} => stage'[u] \in {"running", "open"},
         u \in Remote /\ InProcess(u) => stage'[u] \in {"received", "waiting", "running", "open"}
  PROVE  LoopIsBusy'
<1> SUFFICES ASSUME net = "up" PROVE LoopIsBusy'
  BY DEF LoopIsBusy, connection
<1>1. CASE loop = "update"
  <2>1. PICK v \in Local : stage[v] \in {"running", "open"}
    BY <1>1 DEF LoopIsBusy
  <2>2. stage'[v] \in {"running", "open"}
    BY <2>1
  <2> QED
    BY <1>1, <2>2 DEF LoopIsBusy
<1>2. CASE loop = "message"
  <2>1. PICK r \in Remote : InProcess(r)
    BY <1>2 DEF LoopIsBusy
  <2>2. stage'[r] \in {"received", "waiting", "running", "open"}
    BY <2>1 DEF InProcess
  <2>3. InProcess(r)'
    BY <2>1, <2>2 DEF InProcess, Live, connection
  <2> QED
    BY <1>2, <2>3 DEF LoopIsBusy
<1> QED
  BY <1>1, <1>2 DEF LoopIsBusy, connection

\* An executor that ends frees the loop, unless it belongs to an old connection.
LEMMA LoopFreed ==
  ASSUME IInv, LoopIsBusy, NEW u \in Update,
         ScheduleFails(u) \/ HandleFails(u) \/ Conflict(u) \/ Commit(u)
  PROVE  LoopIsBusy'
<1> USE DEF IInv
<1>1. Holds(u) /\ stage' = [stage EXCEPT ![u] = stage'[u]] /\ UNCHANGED <<connection, at>>
  BY DEF ScheduleFails, HandleFails, Conflict, Commit, Settle, OneAtATime, TypeOK
<1>2. \A v \in Update \ {u} : stage'[v] = stage[v]
  BY <1>1 DEF TypeOK
<1>3. CASE net = "up" /\ loop' = "idle"
  BY <1>1, <1>3 DEF LoopIsBusy
<1>4. CASE net # "up"
  BY <1>1, <1>4 DEF LoopIsBusy, connection
<1>5. CASE net = "up" /\ loop' # "idle"
  <2>1. loop' = loop
    BY <1>5 DEF ScheduleFails, HandleFails, Conflict, Commit, LoopGoesOn
  <2>2. u \in Local => stage[u] \notin {"running", "open"}
    BY <1>5, UpdateAssumption DEF ScheduleFails, HandleFails, Conflict, Commit, LoopGoesOn
  <2>3. u \in Remote => ~Live(u)
    BY <1>5, UpdateAssumption DEF ScheduleFails, HandleFails, Conflict, Commit, LoopGoesOn, Live
  <2> QED
    BY <1>1, <1>2, <2>1, <2>2, <2>3, LoopKept DEF InProcess
<1> QED
  BY <1>3, <1>4, <1>5

LEMMA LoopTakes ==
  ASSUME IInv, LoopIsBusy, NEW u \in Update, TakeTask(u) \/ TakeMessage(u)
  PROVE  LoopIsBusy'
<1> USE DEF IInv
<1>1. net = "up" /\ UNCHANGED <<conn, net>> /\ at'[u] = conn
  BY DEF TakeTask, TakeMessage, Idle, connection, TypeOK
<1>2. CASE TakeTask(u)
  <2>1. u \in Local
    BY <1>2 DEF TakeTask, Scheduled, StagesFit
  <2>2. loop' = "update" /\ stage'[u] = "running"
    BY <1>2 DEF TakeTask, TypeOK
  <2> QED
    BY <2>1, <2>2 DEF LoopIsBusy
<1>3. CASE TakeMessage(u)
  <2>1. u \in Remote /\ loop' = "message" /\ stage'[u] = "received"
    BY <1>3 DEF TakeMessage, TypeOK
  <2>2. InProcess(u)'
    BY <1>1, <2>1 DEF InProcess, Live
  <2> QED
    BY <2>1, <2>2 DEF LoopIsBusy
<1> QED
  BY <1>2, <1>3

LEMMA LoopStep == IInv /\ LoopIsBusy /\ [Next]_vars => LoopIsBusy'
<1> SUFFICES ASSUME IInv, LoopIsBusy, [Next]_vars PROVE LoopIsBusy'
  OBVIOUS
<1>1. ASSUME NEW u \in Update, UpdateStep(u) \/ ChangeLocally(u) \/ TakeMessage(u)
      PROVE  LoopIsBusy'
  <2>1. CASE ChangeLocally(u) \/ ChangeRemotely(u)
    <3>1. stage[u] \in {"idle", "received"} /\ stage'[u] = "waiting"
          /\ \A v \in Update \ {u} : stage'[v] = stage[v]
      BY <2>1 DEF ChangeLocally, ChangeRemotely, Enqueue, IInv, TypeOK
    <3> QED
      BY <2>1, <3>1, LoopKept DEF ChangeLocally, ChangeRemotely
  <2>2. CASE EnterLocal(u)
    <3>1. stage[u] = "waiting" /\ u \notin Remote /\ \A v \in Update \ {u} : stage'[v] = stage[v]
      BY <2>2, UpdateAssumption DEF EnterLocal, IInv, TypeOK
    <3> QED
      BY <2>2, <3>1, LoopKept DEF EnterLocal
  <2>3. CASE EnterRemote(u) \/ Open(u)
    <3>1. stage'[u] \in {"running", "open"} /\ \A v \in Update \ {u} : stage'[v] = stage[v]
      BY <2>3 DEF EnterRemote, Open, IInv, TypeOK
    <3> QED
      BY <2>3, <3>1, LoopKept DEF EnterRemote, Open
  <2> QED
    BY <1>1, <2>1, <2>2, <2>3, LoopFreed, LoopTakes DEF UpdateStep
<1>2. CASE TakeReflected \/ ApplyReflected
  BY <1>2 DEF TakeReflected, ApplyReflected, LoopIsBusy
<1>3. CASE Lose \/ Disconnect \/ Connect
  BY <1>3 DEF Lose, Disconnect, Connect, LoopIsBusy
<1>4. CASE UNCHANGED vars
  BY <1>4 DEF vars, connection, LoopIsBusy, InProcess, Live
<1> QED
  BY <1>1, <1>2, <1>3, <1>4 DEF Next

\* HolderGoesOn: only an incoming message that wants the lock keeps the loop from
\* the task of the update that holds it (AsyncLock.with and ConnectedTaskManager.run).
THEOREM LockGoesOn == Spec => []HolderGoesOn
<1>1. Init => LoopIsBusy
  BY DEF Init, LoopIsBusy
<1>2. ASSUME IInv, LoopIsBusy PROVE HolderGoesOn
  <2> USE <1>2 DEF IInv
  <2> SUFFICES ASSUME NEW u \in Update, Holds(u), stage[u] # "waiting"
               PROVE  \/ stage[u] \in {"running", "open"} /\ Live(u)
                      \/ stage[u] = "scheduled" /\ (net # "up" \/ loop \in {"idle", "sync"})
                      \/ /\ stage[u] = "scheduled"
                         /\ \E r \in Remote : stage[r] \in {"received", "waiting"} /\ Live(r)
    BY DEF HolderGoesOn
  <2>1. stage[u] \in Pending
    <3>1. InQueue(u)
      BY DEF Holds, InQueue, TypeOK
    <3> QED
      BY <3>1 DEF TypeOK
  <2>2. CASE stage[u] \in {"running", "open"}
    BY <2>2 DEF LoopFits
  <2>3. CASE stage[u] = "scheduled" /\ net = "up"
    \* Nobody else has entered.
    <3>1. ASSUME NEW v \in Update, stage[v] \in {"running", "open"} PROVE FALSE
      BY <2>3, <3>1, HolderIsUnique DEF OneAtATime
    <3>2. loop \in {"idle", "sync", "message"}
      BY <2>3, <3>1 DEF LoopIsBusy, TypeOK
    <3>3. CASE loop = "message"
      <4>1. PICK r \in Remote : InProcess(r)
        BY <2>3, <3>3 DEF LoopIsBusy
      <4> QED
        BY <2>3, <3>1, <4>1 DEF InProcess
    <3> QED
      BY <2>3, <3>2, <3>3
  <2> QED
    BY <2>1, <2>2, <2>3 DEF Pending
<1> QED
  BY <1>1, <1>2, LoopStep, Invariance, PTL DEF Spec
=============================================================================
