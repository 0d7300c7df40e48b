# Verification of the core of Threema Desktop

This directory holds TLA+ specifications of the parts of Threema Desktop that keep a
device in step with the servers and with the other devices of its user: connections, tasks,
messages, models, files and group calls. TLC checks them on small instances, and TLAPS proves the most
important facts about them for instances of any size. All paths below are relative to the root of the repository.

- [The system](#the-system)
- [Modules and their correspondence to the code](#modules-and-their-correspondence-to-the-code)
- [Runs, bounds and what they show](#runs-bounds-and-what-they-show)
- [Fairness](#fairness)
- [Assumptions of the models](#assumptions-of-the-models)
- [Proofs](#proofs)
- [Where the code differs from its comments](#where-the-code-differs-from-its-comments)
- [Plan](#plan)
- [Not modelled](#not-modelled)

`PROJECT.json` lists components, runs, the lines every definition stands for, hazards and
theorems in machine-readable form, and for every property a mutation of a definition that
the property detects.

## The system

Threema Desktop runs its backend in one worker thread. There is no preemption: two activities
interleave only at an `await`, at a callback or at a message from elsewhere. That is where all
of its concurrency problems come from, together with connections that may end at any time,
servers that deliver again what was not acknowledged, and other devices of the same user that
work on the same data. A device holds one connection to the *mediator server*, which connects
the devices of a user and proxies the *chat server* for the device that is the leader.

| Component | State | Operations | Interacts with |
|---|---|---|---|
| Connection manager, `src/src/common/dom/network/protocol/connection.ts` | `_autoConnect`, `_connection`, `state`, the loop `_run` | `start`, `enableAutoConnect`, `disconnect`, `disconnectAndDisableAutoConnect`, `selfKickFromMediator` | creates connections, replaces the inner task manager, is told by the layers to disconnect |
| Connection, same file and `src/src/common/utils/signal.ts` | the transport, `closed`, `closing`, `abort` | `create`, `createD2mOnly`, `disconnect`, the close handlers | WebSocket; raises the abort signal everybody listens to |
| Task manager, `src/src/common/network/protocol/task/manager.ts` | the list of tasks, the loop, the backlog | `schedule`, `replace`, `run` | tasks of all models; codec queues; abort signal |
| Task codec, same file | the backlog of a task, the queues of layer 5 | `read`, `write`, `reflect`, `transaction`, `reflectAndAcknowledge` | mediator server and, through it, other devices |
| Queues, `src/src/common/utils/queue.ts` | promises for put and for consumption | `put`, `get`, `consume`, `error`, `prepend` | layer codecs, task manager, rendezvous |
| Layers 1-5, `src/src/common/network/protocol/layer-*-codec.ts` | handshake states, keys, nonces, echo timers | one transform per direction | pipeline of streams |
| Message tasks, `src/src/common/network/protocol/task/csp` | nothing of their own but a nonce | `IncomingMessageTask.run`, `OutgoingCspMessagesTask.run` and sub-tasks | chat server, reflection, models, nonces |
| Synchronisation tasks, `.../task/d2d`, `.../task/d2m` | as above | `ReflectedTask`, the transactions, `DropDeviceTask` | mediator server, models |
| Nonces, `src/src/common/crypto/nonce.ts` | registered guards in memory, hashes in the database | `checkAndRegisterNonce`, `commit`, `discard` | message tasks, reflection |
| Models, `src/src/common/model` | caches of stores, a lock per controller | `update.fromLocal`, `.fromRemote`, `.fromSync`, ... | database, tasks, user interface |
| Stores and locks, `src/src/common/utils/store`, `.../utils/lock.ts` | value, subscribers; queue of promises | `subscribe`, `update`, `derive`; `with` | everything |
| Group calls, `src/src/common/network/protocol/call`, `.../webrtc` | running, chosen and ongoing calls; media keys | refresh, join, leave, rekey | selective forwarding unit, group models |
| Rendezvous and linking, `src/src/common/dom/network/protocol/rendezvous.ts`, `.../dom/backend` | paths, nomination; steps of linking | connect, nominate, link, relink | the other device |
| Key and file storage, `src/src/common/node` | files | read, write, change password, store, delete | backend start |
| Database, `src/src/common/db`, `.../node/db` | SQLite | synchronous statements | models |
| RPC endpoints, `src/src/common/utils/endpoint.ts` | object caches, proxies | expose, wrap, release | backend and user interface |
| HTTP services, encodings, user interface, launcher | | | |

What is hard, and what makes each component correct:

* **Connection manager.** The loop, the user and the fallback connection of
  `selfKickFromMediator` interleave at every `await`, and share `_connection` and the inner task
  manager, whose class `replace` asserts. Correct: the loop survives every failure it can recover
  from; there is always another attempt if there should be one.
* **Connection.** The websocket, two pipelines of streams, the queues of layer 5 and the loop of the
  task manager fail one by one and pull each other down. Correct: whatever fails, the closing
  sequence ends; it does not end before the frames that came in before a remote close were handled;
  no failure is reported that the reconnect loop was not written for.
* **Task manager.** Every connection has a manager with a loop of its own. A loop is not
  stopped by a reconnection; it notices the abort only when it touches a queue, while its
  successor already runs the same tasks. Correct: no accepted task is lost, done twice, settled
  twice or completed out of order; loops left behind end; every persistent task completes on a
  connection that stays up.
* **Task codec.** A task that waits for one message gets others, which take a detour through
  backlogs; transactions of other devices are waited for. Correct: changes are applied in the
  order of the server; a reflected change is applied, or discarded because it cannot be, and never
  missed whenever a connection is lost; a transaction
  that was rejected ends all the same.
* **Queues.** Producers race for the place a consumption frees. Correct: a queue hands over one
  value at a time, each once, in order.
* **Message tasks.** Reflection, storage, acknowledgement and nonce are four steps with a loss
  possible between any two, after which the server delivers again, or the task runs again from its
  start. Correct: nothing is lost, nothing is shown twice or out of order; what is shown as sent is
  with the server for every receiver; no nonce is used twice, and the other devices know it first.
* **Layers 3 and 4.** Two nested handshakes with gates for what may be sent when, and writers that
  share one sequence of nonces: the handshake, timers, echo responses and tasks. Correct: no number
  is skipped or reused; messages are let in only after the reflection queue is dry, and then they are.
* **Models, stores, locks.** Optimistic updates under a lock that is held over requests, caches with
  weak references, subscribers that update during a notification. Correct: no update is lost; the lock
  is handed on whoever fails.
* **Files of messages.** Download, storage and record of a blob, the thumbnail made in the
  background without the lock, and deletion meet in one row of the database. Correct: the row refers
  to files that exist; the servers are told to drop a blob only when it is safe.
* **Group calls.** Several contexts refresh the calls of a group, under locks that are held over
  requests, while the user joins, leaves or creates one. In a call, participants join and leave
  while keys are pending. Correct: the call the user is in stays known; joining ends; who has left
  can no longer decrypt, who is in the call can.
* **Rendezvous, storage.** Nomination of a path while each of them changes; a crash between two writes.

The hazards at their lines are in `PROJECT.json`.

## Modules and their correspondence to the code

| Module | Code | Composed with, or implements |
|---|---|---|
| `TaskManager`, `TaskList` | `src/src/common/network/protocol/task/manager.ts` (managers) | `TaskManager` implements `TaskList` |
| `ConnectionManager` | `src/src/common/dom/network/protocol/connection.ts` (`ConnectionManager`) | abstraction of `Connection` |
| `ClosingSequence` | `connection.ts` (`Connection`), `layer-4-codec.ts`, `layer-5-codec.ts`, `signal.ts` | part of `Connection` |
| `Connection` | `connection.ts` | composes the two, implements `ConnectionManager` |
| `Handshake` | `layer-2-codec.ts`, `layer-3-codec.ts`, `layer-4-codec.ts`, `manager.ts` (`_write`) | |
| `Queue`, `Handover` | `src/src/common/utils/queue.ts` | `Queue` implements `Handover` |
| `Transaction`, `SharedLog` | `manager.ts` (task codec), `task/d2d`, `task/d2m`, `model/contact.ts` | `Transaction` implements `SharedLog` |
| `IncomingMessage`, `Mailbox` | `task/csp/incoming-message.ts`, `crypto/nonce.ts` | `IncomingMessage` implements `Mailbox` |
| `OutgoingMessage` | `task/csp/outgoing-csp-messages.ts`, `outgoing-conversation-message.ts`, `task/common/user-profile-distribution.ts` | |
| `LockedUpdate` | `model/contact.ts`, `utils/lock.ts`, `manager.ts` | |
| `FileMessage` | `model/message/common.ts`, `image-message.ts`, `index.ts`, `db/sqlite.ts`, `common/blob.ts` | |
| `GroupCall` | `src/src/common/network/protocol/call/group-call.ts` | |
| `CallParticipants` | `src/src/common/webrtc/group-call.ts` | |

The lines of every definition are under `map` in `PROJECT.json`. `MC...` modules give the constants
of a module their values and declare the symmetric or model values its `.cfg` uses.

**`TaskManager`** models `TaskManager`, `DisconnectedTaskManager` and `ConnectedTaskManager`.
`inner` and `conn` say which class is installed and which manager is the latest; `waiting` and
`queue[c]` are the `_tasks` of the disconnected and of every connected manager. Lists of tasks are
sets ordered by `stamp`, since the code keeps their order in all it does with them. `done` is what
the caller of `schedule` sees. Each manager `c` has a program counter `pc[c]` for `run` with `_next`
and `_run`; `failed` holds the managers whose queue of tasks is errored, `backlogFailed` those whose
current backlog is, `aborted` those whose connection raised the abort signal. Actions:
`ScheduleDisconnected`, `ScheduleConnected` (`schedule` of both classes, with the exception of an
errored queue), `Connect` and `Disconnect` (`replace`), `Abort` (the subscriber in `run`), `StartRun`,
`TakeTask`, `TakeTaskAndReturn`, `FinishTask`, `RaceMessage`, `ContinueAssertionFails`,
`IgnoreMessage`, `RunPassive`, `FinishPassive`, `Throw`, `ThrowUnrecoverable`, `DropAcknowledged`,
`DropFails` (one loop).

**`TaskList`** is what those who schedule tasks may rely on: there is one list, whatever managers it
passes through. A task is accepted behind all others or refused (`Accept`, `Refuse`), only the first
pending task of all may complete (`Complete`), and a replacement rejects all volatile tasks and nothing else
(`RejectVolatile`). `done`, `stamp` and `accepted` are those of `TaskManager`; lists, loops, aborts and
errors are gone.

**`ConnectionManager`** models the class of that name. `loop` is where `_run` is, `handle` what
`_connection` refers to, `main` and `kick` the connection of the loop and the call of
`selfKickFromMediator` with its D2M-only connection, `inner` and `state` what the assertions of
`replace` and the `MonotonicEnumStore` look at. `Attempt`, `CreateFails`, `CreateSucceeds`, `Closed`,
`Confirm`, `Dismiss`, `SleepEnds` are the loop from one await to the next; `Enable` and `Disable` the
switch; `TasksFail`, `Closing` the events of a connection; `ScheduleKick`, `Dropped`,
`StartFallback`, `D2mCreated`, `D2mFails`, `D2mClosed` the fallback.

**`ClosingSequence`** opens one connection out into its parts. `ws` is the websocket, `rx` what it
has received and the pipeline not decoded yet; `readable` and `writable` are the promises of the two
pipelines; `put`, `full` and `err` the decoder and encoder queues of layer 5 with their errors;
`loop` and `failure` the loop of the task manager. `closed` and `done` are the event and the promise
of `Connection`: `RaiseAnd` is what follows the first raise (abort, errored queues, closing sequence
with its short circuit), `SettleReadable` the end of the inbound pipeline, which always resolves
`done`. `Decode`, `PutDone`, `PutFails`, `DelayedError`, `EndOfStream` are the inbound pipeline,
`EncoderFails` the outbound one, `TakeMessage`, `TaskEnds`, `TaskFails`, `LoopStops` the loop,
`SocketCloses`, `SocketErrors` the events of the websocket, `LocalDisconnect` a `disconnect` of the
layers.

**`Connection`** runs the manager and, while it has a connection (`made`), the parts of it: every
action of `ClosingSequence` becomes `Part(A)`, which also sets the close code of whoever raised
`closed` first; `disconnect` of the manager closes the parts (`HandleClosed`), a new attempt makes
them anew (`Fresh`), and `Reset` waits for `done`. The refinement mapping `Seen` reads off the parts
what `ConnectionManager` calls its connection: open, failing (the loop has stopped), closing
(`closed` was raised) or none. `ImplementsManager` says that this composition is a behaviour of
`ConnectionManager`, `FailureCloses` that a connection of which one part is gone (`PartGone`) settles
`done`, and `Reconnects` that there is always another attempt: as long as nothing keeps the loop from
it (`Undisturbed`: auto-connect, no open dialog, no fatal close code, no D2M-only connection
that was opened or failed to), a failed attempt, a part that is gone and a raised close event each lead to the next
`Connection.create`. A loop that waits for a dead connection for ever violates it. The
fairness is that of the parts: nothing is assumed of a connection as a whole.

**`Handshake`** models layers 2 and 3 and what layer 4 writes by itself, for the full and the
D2M-only pipeline. A message passes layers 1 to 4 in one synchronous call, hence `Receive` is one
action with a disjunct per state and message; what a codec throws closes the connection (`Throw`).
`csp` and `d2m` are the states of the two handshakes with their sequence numbers and promises,
`start` the reactions to these promises (`Unblock`, `StartKeepAlive`, `EchoTick`), `task` the gate of
the tasks and layer 3 behind it (`PassGate`, `Write`). Both servers are external; the chat server counts
the frames it can decrypt, which is what the sequence numbers are for.

**`Queue`** models `Queue`: each put creates a promise for its value and one for its consumption
where the code replaces its own, `put` and `get` are split at their awaits, and a reader may consume
late, twice or never. **`Handover`** is the abstract specification of what `Queue` promises: values
are put one at a time and taken in that order, each at most once. `Queue` implements it
(`HandsOver`) under a refinement mapping that reads the hand-overs off the promises.

**`Transaction`** models `TaskCodec.transaction`, `read`, the reflection inside a transaction,
`ReflectedTask` and the optimistic update of a model (`ContactModelController._updateAsync`) on
several devices. The mediator server is not in the repository: `ServeBegin`, `ServeReflect`,
`ServeCommit`, `ServeAck` are what the client relies on, and are marked external. `backlog` is
`_backlog` of the manager, `taskBacklog` that of the codec of the running task, `toDevice` the decoder
queue. `StartTransaction`, `Rejected`, `Retry`, `Abort`, `Open`, `Commit`, `Committed` are the
transaction from one read to the next, `BypassOrBacklog` everything it did not wait for,
`ProcessMessage` and `FinishPassive` the loop in between, `Reconnect` the loss of a connection.
`FinishPassive` has the three ways a `ReflectedTask` acknowledges a change: its task has run to the end
(`Process`: applied, nonce committed), its nonce was used before (`Known`), or it cannot be processed and goes to
`_discard` (`Discard`). The last happens to an invalid message or one that does not decrypt, for which
there may be no nonce and which is discarded again if it is reflected again, and to an invalid envelope or a
task that throws, with the nonce committed. `discarded` are the changes given up in this way,
`Processed` these and the applied ones.

**`SharedLog`** is the abstract specification of all that, without connections, requests, backlogs and
nonces: the devices write to one log (`Write`), a device applies its own change once it is in the log
(`ApplyOwn`) and processes those of others in the order of the log and leaving out none: it applies a
change (`ApplyNext`) or discards it for good (`DiscardNext`). The server drops only what was processed
(`Drop`). The mapping is the identity on `log`, `applied` and `discarded`, and `pending` is `unacked`;
`ServeReflect` is a `Write`, `Committed` an `ApplyOwn`, `FinishPassive` an `ApplyNext`, a `DiscardNext` or a
stutter, `Reconnect` an `ApplyNext` or a stutter, `ServeAck` a `Drop`, all else a stutter. A change may
be applied again, which changes nothing, and one that was applied before a connection was lost may be
discarded when it comes again.

**`IncomingMessage`** models `IncomingMessageTask.run` with the registry of nonces
(`NonceGuard`, `checkAndRegisterNonce`, `commit`, `discard`) on every connection of a device. `cur[c]`
and `step[c]` are the message and the place of the task that the loop of connection `c` runs; the
record `Follows` is the order of the steps of each kind of message. `holder` is the owner of the
`NonceGuard` in memory, `nonces` and `shown` are the database, `handled` and `reflected` say what has
been applied and what the other devices were told. The chat server (`sent`, `delivered`) and the way
to it (`inbound`, `acks`) are external. What matters is which awaits end with the connection: those on
the task's handle do (`Lose`), a request to the directory or the download of a blob does not, so
that a task may outlive its connection with its guard (`EndStale`). `Crash` empties the memory.

**`Mailbox`** is what the user, the other devices and the chat server may see of it: a message arrives,
is reflected (any number of times), a text is shown once, after it was reflected and after all older
texts were shown, and the server forgets a text that was shown. Connections, tasks, guards, nonces,
losses and crashes are gone. `arrived`, `elsewhere`, `times` and `forgotten` are `sent`, `reflected`,
`shown` and `delivered`; `Arrive`, `Reflect`, `Save` and `AckArrives` are its steps, all else stutters.

**`OutgoingMessage`** models `OutgoingConversationMessageTask.run` with
`OutgoingCspMessagesTask` and the distribution of the user's profile picture. `at` is where the task is,
`jobs` are the messages with the nonces and receivers they have left, `flight` is the frame the task
awaits. `Run`, `UploadBlobs`, `Distribute`, `Distributed`, `Reflect`, `Reflected`, `Send`, `Acked`,
`ReflectSent`, `Sent` are the task from one await to the next; `Lose` abandons it where it is and
queues it again, `Throw` is the exception of a deleted model, which ends the connection. `picture`,
`cache` and `held` are the blob in the model, what each contact was sent last, and the view that the
distribution steps captured.

**`LockedUpdate`** models the update of a model under its `AsyncLock` by callers that meet in three
places, the lock, the task loop and the connection: `lockQueue` is the queue of promises of
`AsyncLock.with`, `stage` where an update is, `at` its connection, `base` the version its precondition
compares with (`_versionSequence`). `EnterLocal` and `EnterRemote` are the two executors of
`_updateAsync`, `Open`, `Conflict` and `Commit` the transaction, `TakeTask`, `TakeMessage` and
`TakeReflected` the loop, `Lose`, `Disconnect` and `Connect` what a connection does to all of them.
The code of contacts is what is mapped; groups, conversations and profile pictures have the same
structure with locks of their own.

**`FileMessage`** models the files of one inbound image message: `row` is its row in the database
with the file of each blob, `state` the state its view shows, `disk` the file storage with its
background deletions (`removing`), `marking` the done calls under way, `server` the blobs that
the servers still have. `queue` is the `AsyncLock` of each blob, whose holder goes through `Load`,
`Loaded` or `Download`, `NotFound`, `Downloaded`, `Store`, `Recorded`; `Refuse` and the errors are
the other ways out. `Generated`, `StoreThumbnail`, `RecordThumbnail` are the regeneration of the
thumbnail, which takes no lock. `Delete` and `Restart` may come at any time; a restart leaves
nothing but the database and the disk.

**`GroupCall`** models the calls of one group. `contexts` are the `GroupCallRunningContext`s made
so far, each with its calls, failure counters, timer and the jobs that wait for its lock; `mapped` is
the one the manager has for the group. `Begin`, `Token`, `TokenError` and `Peeked` are a job under
the lock: `add()`, the token, and the result of all peeks; `Finish` decides on ended calls, the chosen
call, the database and whether the context aborts itself. `JoinCall`, `JoinRefresh`, `JoinChosen`,
`Connect` are the join steps, which hold the lock of the ongoing call; `Abort` and `HungUp` end
the call or the steps. Other members start and end calls, the user leaves the group, and the app
restarts.

**`CallParticipants`** models an ongoing call. `queue` and `step` are its lock and where the holder
awaits the main thread; `remote` the handshake of each participant; `key`, `pending`, `timer` the key in
use, the next epoch and the timer that applies it; `given` the keys a participant was sent, `queued`
those that wait for the end of its handshake. `HandleJoined` turns the ratchet, `HandleLeft`,
`Remove`, `Removed` remove a participant and begin a new epoch (`NextEpoch`), `Apply` is the timer,
which takes no lock, `StaleEpoch` the epoch after one that was already out of date when it was
applied. `Derives` is what the ratchet gives to whoever has a key of an epoch.

Definitions that begin with "Faulty variant" in their comment are not used by the specifications.
They replace a definition of the model in a mutation run and say what the properties detect.

## Runs, bounds and what they show

| Run | Bounds | Shows |
|---|---|---|
| `task_manager` | 2 persistent and 1 volatile task, 2 connections | `OldLoopsStop`, the refinement `ImplementsList`, `PersistentCompletes`, `VolatileDecided` |
| `connection` | 2 frames per connection, any number of connections, one call of `selfKickFromMediator` | `ImplementsManager`, `Reconnects`, `FailureCloses`, `LoopSurvives`, `AlertsHandled` |
| `handshake` | 1 task for each server, 1 echo in each direction, 1 message waiting at each server, 1 message out of turn | `NoncesInStep`, `QueueDryFirst`, `QueueDrained` |
| `queue` | 3 puts, 2 readers | `NoValueOverwritten`, the refinement `HandsOver`, `PutSettles` |
| `transaction` | 2 devices, 3 changes, 2 faults (lost connections or discarded changes) | `NoChangeMissed`, the refinement `ImplementsLog`, `ChangesSpread`, `TransactionEnds` |
| `incoming_message` | 2 texts, a picture and a group setup, 2 connections | `NothingLost`, the refinement `ImplementsMailbox`, `CommittedIsHandled`, `Delivered` |
| `outgoing_message` | 3 receivers, one blocked and one that may not see the picture, a file, the picture not uploaded yet, 2 losses | `SentMeansQueued`, `ReflectedBeforeSent`, `NonceUsedOnce`, `Completes` |
| `locked_update` | 2 local and 2 remote updates, 1 of another device, 3 connections | `OneAtATime`, `HolderGoesOn`, `NoLostUpdate`, `SettledUnlessCycle` |
| `file_message` | 2 calls for the image, 1 for the thumbnail, 5 files, 1 fault, 1 restart | `FilesExist`, `DoneOnceKept`, `CallsEnd` |
| `group_call` | 2 calls, 3 contexts, dropped after 1 failure, 1 fault, the user leaves once, 1 restart | `RefreshGoesOn`, `OngoingIsKnown`, `JoinEnds` |
| `call_participants` | 2 participants, one of them there before the user and lower than it, one higher | `OutsidersLockedOut`, `HearsUnlessQueued`, `LeaverForgets` |
| `call_participants_hears` | the same | counterexample to `AuthenticatedHears` |

Why the bounds suffice.

* `TaskManager`: the loop of the first connection meets everything that the second one does with the
  same tasks; order and double completion are about two persistent tasks, and a volatile one is
  enough to see it rejected between them. A third connection, that is, a loop that is left behind
  twice, is covered by the proofs.
* `Connection`: the manager is finite, and so are the parts but for the frames. Two frames let one
  block the pipeline at the full queue while the other, a close-error, waits behind it. A
  second call of `selfKickFromMediator` finds the first one settled, or fails in the same assertion.
* `Handshake`: one task per gate, one writer of each other kind and one message from each
  server are enough for every pair of them to come in either order.
* `Queue`: two producers have to be woken by one consumption while an older reader consumes late;
  4 puts and 3 readers were also checked for safety.
* `Transaction`: three changes let a device take over a backlog and receive two foreign changes in
  the wrong order, if it could; each of the two devices may lose its connection or discard a change in
  any state, and one that was discarded may come again after a loss.
* `IncomingMessage`: a message is delivered a second time on the second connection, while the task
  of the first may still run; two texts can be out of order, and a message of each kind that awaits a
  request stands between them.
* `OutgoingMessage`: of three receivers one is filtered and two get different follow-up messages, so
  that the nonces of one message, of several messages and of several runs can be confused; two losses
  interrupt a run that was itself a repetition.
* `LockedUpdate`: with two updates of each sort one can hold the lock, one wait and a third be
  rejected, and with three connections an executor of the first can enter when the second is gone.
* `FileMessage`: two calls queue for one lock while a third has the other; every file written by a
  call or the regeneration, with a restart in between, needs at most five.
* `GroupCall`: two calls are enough for one to be added while the last refresh of the other is waiting;
  three contexts let the manager forget one while the join steps make another. Jobs are not limited
  but for the moment when the user begins to join (`MaxQueue`).
* `CallParticipants`: the two participants can leave and join within one pending epoch. The epochs need no
  bound, since each participant enters once.

Deadlock is not checked: tasks, connections, puts and changes are bounded, so that every model stops
where the program would go on. The liveness properties take the place of that check.

## Fairness

All fairness is weak, except for the readers of `Queue` and where noted. Nothing is assumed of
users, of faults or of losses.

* `TaskManager`: continuations of the running loop are microtasks and happen; a task of a connection
  that stays up ends, because the server answers; a connection whose loop has ended is closed
  (this is `FailureCloses` of `Connection`); the connection manager replaces the manager after that
  and tries again (`Reconnects`). Nothing is assumed of callers, of inbound messages, of aborts, errors
  or loops of old connections.
* `Connection`: the inbound pipeline goes on where it can, the encoder notices an errored queue, an
  idle loop notices one, and a websocket that was told to close does. `Connection.create` ends, timers
  fire, the mediator acknowledges the drop of a device on a connection that stays open and closes
  the D2M-only connection afterwards. Tasks may hang, the user may leave a dialog open for ever,
  the server need not send or close anything, and a healthy connection may stay up for ever.
* `Handshake`: streams, promises and the encoder queue are served; the servers receive what is sent,
  the mediator goes on to the promotion, and the chat server sends what waits once it is unblocked. It need
  not send echo requests, and timers need not fire.
* `Queue`: continuations run, and the readers go on to read. `Consume` is strongly fair: whether one
  reader can consume changes with what the others do, and each of them keeps at it.
* `Transaction`: the server serves, and the loop of every device runs.
* `IncomingMessage`: requests end, the loop runs, acknowledgements arrive on a connection that stays
  up, and the client reconnects.
* `OutgoingMessage`: the task runs, an exception of it ends the connection, the client reconnects, and
  the servers answer on a connection that stays.
* `LockedUpdate`: every update goes on wherever it can, and the client reconnects. Nobody has to
  change anything and no connection has to be lost, which is why the cycle of a local and a remote
  update may last for ever.
* `FileMessage`: each call goes on while it holds its lock. Done calls, deletions and the regeneration
  are not fair: nobody waits for them.
* `GroupCall`: the lock of a context is handed on, its requests end and its timer fires; the join steps
  go on, and a call that was hung up is removed.
* `CallParticipants`: the lock is handed on, the main thread answers, and the timer of the pending key
  fires.

## Assumptions of the models

* *Turns of the event loop.* Between two events the code runs all microtasks. Where the order of
  microtasks matters the models split them (`raced` in `TaskManager`, woken producers in `Queue`).
  Two orders are assumed: the abort signal is raised in a turn of its own, not between a message that
  settles the race of `_next` and the continuation of the race; `replace(DISCONNECTED)`, which
  follows the abort after several awaits, finds the loop with no continuation left to run
  (`Quiescent`). `ConnectionManager` lets a fallback begin in the turn in which its task was rejected
  (`Turn`).
* *`Transaction`.* The model applies its own change before the loop takes the next message
  (`Committed`), and a reconnection is one step (`Reconnect`): a passive task that was under way may
  still have applied its change. The order of `TRANSACTION_ENDED` and reflected messages on one
  connection is the order of the server. Messages of a connection that was lost are gone. That a change is
  applied means that its task ran to the end: what the task makes of the change, and
  whether it has a use for it at all, is not modelled, and a task that throws after it has applied something
  counts as one that ran to the end, with which it shares acknowledgement and nonce. Whether a message
  decrypts does not change from one delivery to the next. A passive
  task ends with its connection: one that awaits a download or a directory request (profile pictures,
  group setups) may in fact outlive it, as `EndStale` of `IncomingMessage` models it for inbound messages
  (see `d2m/reflected.ts:77` in the table below).
* *`IncomingMessage`.* The texts of this module wait for nothing but their connection: the updates
  of a model that a text may bring with it (nickname, unarchiving), which wait for a lock, are those
  of `LockedUpdate`, and the two modules are not composed. The continuation of a resolved await runs
  also after the loss of the connection (`CommitNonce`).
* *`LockedUpdate`.* An update is made once: a message that is delivered again counts as another one.
  A change is applied after its task, before the loop takes the next message (`Commit`).
* *The chat server* keeps a message until it is acknowledged and sends what it has in order on every
  new connection.
* *The mediator server* lends one lock, broadcasts the end of a transaction, reflects in one order,
  and delivers again what was not acknowledged.
* *`Connection`.* A D2M-only connection is created and closed, its parts are not opened out. The
  close code of a raise may be any: the models do not follow codes through the websocket.
* *`Handshake`.* Cookies and keys are not modelled; a frame decodes if it is of the struct of the
  current state and decrypts if its number is the next. The mediator server may send one message out of
  turn, the chat server none.
* *`OutgoingMessage`.* One task, since tasks run one by one. Nonces are fresh by counting: that random
  nonces do not collide is assumed.
* *`FileMessage`.* A write of the file storage is whole or fails; a cut-off write is not modelled.
* *`GroupCall`.* Peeks of one refresh are made at once and the outcome of all is used together, as in the
  code; in between, the calls on the server may change.
* *`CallParticipants`.* Keys are numbers: a later key of an epoch can be derived from an earlier one and
  from nothing else. 255 epochs are not exceeded.

## Proofs

`TaskManagerProofs` proves, for every set of tasks, every subset of persistent ones and any number of
connections, from `TaskAssumption` alone:

* `TypeCorrect`, `NoTaskForgotten` (`PendingIffQueued`), `OldLoopsHarmless` (`OldLoopsStop`): invariants;
* `SettlesOnce` (`SettledOnce`) and `CompletesInOrder` (`PersistentInOrder`): action properties;
* `ListImplemented` (`ImplementsList`): the step simulation of `TaskList`.

`PendingIffQueued` is not inductive: that a loop of an old connection settles nothing depends on its
having been aborted, and that a task it completes is still queued depends on the current manager
having no second task in hand. The inductive invariant joins to it that managers not yet created are
untouched, that a manager runs a task only at the program counters that say so and that this task is
the head of its list, that loops left behind are on their way out with an errored backlog, and that
stamps are distinct and below `accepted`. The proof has one step per action and one lemma per group
of actions; the temporal theorems follow by PTL. For the refinement, the list that is installed is the set
of all pending tasks (`PendingListed`), so the head of a loop's list is the first of them all
(`CompletesHead`), and what `Connect` rejects are all the volatile ones.

`QueueTransactionProofs` proves for every set of puts and readers `QueueTypeCorrect`, `ConsumesOnlyItsOwn`
(`OnlyTheCurrentIsOpen`), `ValuesSurvive` (`NoValueOverwritten`) and `QueueImplementsHandover` (`HandsOver`).
The inductive invariant `QueueInv` adds `HoldsPut` (a reader awaits a promise, and holds only the value of
one that is resolved), `Unresolved` (a put that was not accepted has resolved nothing) and `SlotsFill` (no
promise is replaced before it was resolved). The last one is what the refinement needs: the promises are
resolved one after the other, so a put that is accepted fills the next slot, whose number is what
`Handover` counts, and every other step takes a value out of the last one or stutters.

The same module proves for any devices, changes and faults `TransactionTypeCorrect`, `NothingMissed`
(`NoChangeMissed`), `OrderKept` (`AppliedInOrder`) and `TransactionImplementsLog` (`ImplementsLog`). What the server keeps for a device is in three
parts (`LogFits`): first the changes whose acknowledgement is under way, then the one that is being
looked at, then exactly those that the two backlogs and the queue of the device hold, which is the order of
the log, too. `TaskFits` says that a running transaction has one request or one answer under way, so that
no answer ends up in a backlog and nobody waits for one that was set aside. For the refinement this
leaves two things to show. The change in process is the one that follows those whose acknowledgement is
under way, all of which were processed: so it may be the next (`RunningIsNext`). An acknowledgement that
the server receives is for the oldest change it keeps, and that was processed (`DropsProcessed`). For
`OrderKept` the changes processed are a prefix of the log (`ProcessedPrefix`), and nothing is applied that
was discarded (`NewlyApplied`). It speaks of first applications only; the refinement says in addition that no
change is left out.

`IncomingMessageProofs` proves for any sets of messages of the three kinds and any number of
connections, from `MessageAssumption`: `TypeCorrect`, `NoTextIsLost` (`NothingLost`),
`ConversationIsRight` (`ShownOnce` and `ShownInOrder`), `NoGuardIsLeft` (`GuardHasOwner`) and
`CommitsAreDue` (`CommittedIsHandled`). None of them is inductive alone. `Reached` says what a task has
done when it is at a step, `Stored` what the database then holds, and `OldTasksEnd` with `KindFits` at
which steps a task can outlive its connection: for a text, before its nonce is registered or after it
was shown. So a text that is delivered again and finds its nonce used is shown, and may be acknowledged
(`UsedIsShown`); the same step fails for a group setup, whose task may still be waiting for a request.
`WasSent` and `UpcomingInOrder` carry the order: on a live connection every text is upcoming, in process
or shown, and what is upcoming was sent after what is in process. `MailboxImplemented`
(`ImplementsMailbox`) is the step simulation, and combines them: a text that is saved is in process on the
live connection, so an older one can be neither in process nor upcoming, and is shown; it was
reflected (`Reached`), and its counter is still zero by the test of the code itself. An acknowledgement under
way is for a message that was sent (`WasSent`) and, if it is a text, shown once (`NothingLost`, `ShownOnce`).

`LockedUpdateProofs` proves for any local and remote updates, any number of connections and of changes
by other devices, from `UpdateAssumption`: `TypeCorrect`, `Serial` (`OneAtATime`), `NoRemoteConflict`
(`RemoteIsCurrent`), `LockGoesOn` (`HolderGoesOn`) and the action property `UpdatesAreNotLost` (`NoLostUpdate`). What changes the model
is either the executor that holds the lock or the loop when it is idle: `LoopFits` and `OneMessage` say
what the loop is busy with, `QueueDistinct` that nobody is in the queue of the lock twice, which is what
the end of an executor or the rejection of its task needs in order to hand on the lock. `LockGoesOn` is the
step fact that `SettledUnlessCycle` rests on, said without `ENABLED`. It needs the converse of `LoopFits`,
the invariant `LoopIsBusy`: a loop whose connection is up has not ended, and is busy with an update or a
message that is still under way. So a scheduled update whose task the loop does not take is either about
to be rejected by the next connection, or the loop processes a message that waits for the same lock
or is about to; there is no other way to be stuck.

`OutgoingMessageProofs` proves for any receivers, blocked and denied or not, and any number of losses,
from `OutgoingMessageAssumption`: `TypeCorrect`, `SentIsQueued` (`SentMeansQueued`), `ReflectionIsFirst`
(`ReflectedBeforeSent`) and `NoncesAreFresh` (`NonceUsedOnce`). A message that waits has as many
nonces as receivers, an interval of numbers (`JobsFit`), disjoint from those of the other messages
(`NoncesApart`) and unused, but for the one between the acceptance by the server and the
acknowledgement (`UnusedNonces`). `NoncesReflected` says from which step on they are known to the other
devices, `Covered` that every receiver has the message or is still in a job of this run.

`FileMessageProofs` proves for any calls, files, faults and restarts, from `FileMessageAssumption`:
`FilesAreThere` (`FilesExist`) and `BlobsAreKept` (`DoneOnceKept`). What matters is whose a file is: one
that is written and not yet recorded belongs to its writer alone (`Owned`), one that is recorded to one
kind of blob (`RecordedOnce`), and what is being deleted to nobody. The locks of the blobs are not needed
for that, which is why the regeneration of the thumbnail may do without. That they exclude (`CallsTakeTurns`) is
proved from `LockInvariance`: in the queue of the lock of a blob is every call for it that has not ended,
once, and all but the first one wait (`QueueFits`); so a lock is handed on however its holder ends.
`TypeCorrect` combines the two invariants.

`GroupCallProofs` proves for any participants, however many join and leave, from
`CallParticipantsAssumption`: `TypeCorrect`, `OutsidersHaveNoKey` (`OutsidersLockedOut`) and
`AuthenticatedHaveTheKey` (`HearsUnlessQueued`). The key in use only moves on (`KeyMovesOn`) and nobody
has one beyond the pending epoch (`NoneBeyond`), so that a newcomer, who has nothing and enters once
(`NewcomerHasNothing`, `Once`), is given later keys only. For leavers, `OnTheWay` says what still leads
to an epoch they do not know: the pending one, a stale mark on it, a job in the queue, or the removal
that is under way. For those who stay, `HearsSoon` extends the property to the handshake.

It also proves for any calls and any number of contexts `GroupTypeCorrect`, `RefreshIsScheduled`
(`RefreshGoesOn`) and `OngoingStaysKnown` (`OngoingIsKnown`) of `GroupCall`, from the invariant `GroupInv`. At
each step of a context (`GoesOn`) a job waits or runs, the timer is set, or there is no call to refresh.
The ongoing call is in the running calls of its context, or the job that adds it waits, which is never
dropped; a refresh that is about to remove calls has noted which one is ongoing (`OngoingIsHeld`).
A refresh takes the least and the greatest number of sets of calls. That they exist follows from the
well-foundedness of `<` on the natural numbers, by a minimal counterexample. Proving the
types of a refresh found a mistake of an earlier model: the states of a peek were a `CASE` whose arms
overlapped for a call of the user's own, whose value TLA+ leaves open where TLC takes the first arm.

`ConnectionProofs` proves for any tasks and bounds, from `HandshakeAssumption`: `TypeCorrect`,
`FramesAreInStep` (`NoncesInStep`) and `ReflectionQueueFirst` (`QueueDryFirst`) of `Handshake`. Until the chat
server has the login, at most one frame of its handshake is under way to it and nothing else is
(`StatesFit`, `HelloFits`); what is under way to the client tells how far the server is (`DownFits`). From then
on the frames under way have all the numbers from the one the server waits for up to the last one
taken, in this order, with frames for the mediator server in between (`InOrder`); since every writer
takes its number and queues its frame in one step, each keeps this. For the reflection queue the invariant
`DryInv` counts: of the messages that waited at the mediator each was read, is under way or still waits, and
none of them is left behind a promotion that is under way (`QueueCounted`); no message of the chat server
is under way before it was unblocked, which only a promoted client does (`UnblockedLate`).

It also proves, for any number of frames on any number of connections, from `ConnectionAssumption`, what is said of
`Connection`. `ClosingCorrect` is the invariant `ClosingInv` of the closing sequence, from which
`CloseErrorsHandled` (`AlertsHandled`) follows: while the inbound pipeline is open, a close-error is
handled or among the frames not yet decoded (`AlertsCounted`), and done is resolved with the readable side
or by a close that is not a remote one (`DoneFits`); so a pipeline that settles with frames left is one
where a codec threw, done was resolved already, or the event is raised as an error at that moment.
`ManagerImplemented` (`ImplementsManager`) is the step simulation: a part that moves raises the event once,
or ends the loop of the tasks for good and leaves the event as it was, or is not seen by the manager
(`PartMoves`, `PartSeen`). `LoopGoesOn` (`LoopSurvives`) is then proved of `ConnectionManager` alone and carried
over: what the assertions of the loop look at is as they expect at each of its awaits (`LoopFits`), up
to a D2M-only connection that failed. `ConnectionTypeCorrect` combines the two.

`PendingIffQueued`, `SettledOnce`, `PersistentInOrder`, `OnlyTheCurrentIsOpen`, `AppliedInOrder`,
`ShownOnce`, `ShownInOrder`, `GuardHasOwner`, `RemoteIsCurrent` and the type invariants of these modules are
proved and not listed in a run: most of them follow from a refinement that is.

A module of proofs may be about two components, whose names are then kept apart by a prefix
(`QueueSpec`, `GroupSpec`, `ConnectionSpec`).

All invariants and action properties that the runs check, and the five refinements (`ImplementsList`,
`HandsOver`, `ImplementsLog`, `ImplementsMailbox`, `ImplementsManager`), are proved. Only model-checked are the
liveness properties, which are out of the prover's reach, and what was left out
of a model altogether.

## Where the code differs from its comments

One disagreement is kept as a run. In `authenticate` the comment says "Send new local PCMKs (if any and
only those who haven't already been purged)" (`src/src/common/webrtc/group-call.ts:1217`), but the
getter `purged` it filters with (`src/src/common/crypto/index.ts:86`) answers the other way round: the
key of an epoch that began during a handshake is not sent, and the participant cannot decrypt the media
of the user once that epoch is in use (`call_participants_hears`). `HearsUnlessQueued` is what holds,
with that exception.

The following were met while modelling. The models have these behaviours where the table names one; the
others lie beside what is modelled.

| Code | What a comment or an assertion says | What the code does |
|---|---|---|
| `task/manager.ts:759` (`TaskManager`) | "Ensures that all relevant tasks are not lost between reconnections" | after a loop has failed and until its manager is replaced, `schedule` throws, also for persistent tasks |
| `connection.ts:1163` (`ConnectionManager`) | "That only one connection to the server is active" | a pending `Connection.create` survives `disconnectAndDisableAutoConnect` |
| `connection.ts:553` (`ClosingSequence`) | "If we got a hint for how long to wait, apply it here" | if a message waits for the decoder queue, the inbound pipeline raises `closed` first, without the hint |
| `task/manager.ts:1009` (`Transaction`) | "the precondition check ensures a consistent state across devices" | reflected changes may sit in the backlog while the precondition is checked (`TODO(DESK-779)`) |
| `d2m/reflected.ts:77` | "Discarding reflected message due to decryption error" | a nonce that the task of an old connection still guards is such an error: the change is acknowledged while that task has not applied it, which it does late, or not at all if the app ends before |
| `incoming-message.ts:546` (`IncomingMessage`) | a message whose processing does not complete "will not be acked and will be re-processed later" | while a task of an old connection awaits a request it keeps its nonce guard; the message delivered again is taken for a duplicate and acknowledged, and the first task fails afterwards |
| `model/contact.ts:389` (`LockedUpdate`) | "All enqueued executors are processed serially" | a local update holds the lock while its task waits for the loop; an incoming message that waits for the same lock keeps the loop from taking that task, until the connection is lost |
| `layer-3-codec.ts:1030` (`Handshake`) | tasks write once authenticated | the gate awaits one of the two handshakes, layer 3 wants both and throws, which ends the connection |
| `layer-4-codec.ts:326` | a connection is stalled if no echo response has been received | the timeout is cancelled when the response is decoded, which waits while the decoder queue is full |
| `user-profile-distribution.ts:107` (`OutgoingMessage`) | an upload "can only happen once per function call" | the loop tests the view captured before it: the picture is uploaded once per member |
| `user-profile-distribution.ts:145` (`OutgoingMessage`) | tasks "must be idempotent" | the cache is set before anything is sent; after a loss the picture is not sent |
| `outgoing-conversation-message.ts:86` (`OutgoingMessage`) | a persistent task runs again if the connection was lost | with its message deleted the task throws in every run, and each time ends the connection |
| `conversation.ts:1115` | `sendMessage(...).catch(assertUnreachable)` in `ConversationView.svelte` | of two messages sent into an archived conversation, the transaction of the second is aborted and the message lost |
| `conversation.ts:352` | a deletion of an inactive message is dropped | the message may become inactive in the await between the test and the deletion |
| `conversation.ts:308` | removing all messages resets the number of unread ones | removing one unread message does not |
| `message/common.ts:412` (`FileMessage`) | "syncing": a file "is being ... downloaded" | a failed decryption or write leaves the state as it is |
| `image-message.ts:151` (`FileMessage`) | the regeneration is followed by `.catch(assertUnreachable)` | it rejects if the message is deleted meanwhile or the file cannot be written |
| `message/common.ts:682` (`FileMessage`) | "Re-generate the thumbnail ..., store it" | `overwriteThumbnail` is given the bytes of the whole image |
| `message/index.ts:474` (`FileMessage`) | a message is deleted from "the database, the cache and the file system" | a file that a running download writes after the deletion stays |
| `call/group-call.ts:878` (`GroupCall`) | a call is created "if none existing" | a call is added to a context while its last refresh aborts it: the join steps do not see it |
| `call/group-call.ts:873` (`GroupCall`) | the result of an aborted refresh "would simply be ignored" | it writes the chosen call, and schedules the next refresh |
| `call/group-call.ts:298` (`GroupCall`) | running calls are written "whenever there's a change" | the subscription ends with the context; a call announced as ended afterwards stays in the database |
| `webrtc/group-call.ts:1218` (`CallParticipants`) | as above | a key that was purged is unwrapped, which throws and ends the call |
| `webrtc/group-call.ts:1726` (`CallParticipants`) | "Stop sending state updates when aborting" | a message that waited for the lock starts the timer again |
| `media-crypto-worker.ts:398` | "Older epoch: Discard" | a late frame of epoch 255 is taken for a newer one than epoch 0, and all keys are dropped |

Paths are shortened; all files are under `src/src/common` but the last, `src/src/worker/backend`. Seen
as well: `skipConnectionDelay` is not reset once it is set; `_reset`, called by
`selfKickFromMediator`, throws before it turns auto-connect on again if the task manager is
disconnected; a delivery receipt that follows the acknowledgement is not repeated if the connection is
lost between the two.

## Plan

Done, in this order: `TaskManager`, `ConnectionManager`, `Queue` with `Handover`, `Transaction`,
`IncomingMessage`, `LockedUpdate`; then `ClosingSequence` and its composition with the manager in
`Connection`, `Handshake`, `OutgoingMessage`, `FileMessage`, `GroupCall`, `CallParticipants`; at last
the abstract `Mailbox`, `SharedLog` and `TaskList`. All of them have proofs, of every safety property
that a run checks. To come:

1. *Proofs.* An abstract sending of one message, implemented by `OutgoingMessage`; the step facts which the
   other liveness properties rest on, such as `LockGoesOn` for the locks of files and calls.
2. *Conversations.* Sending, removing, deleting and reading on several devices, with the lock of a
   conversation; composed with `OutgoingMessage` and the receipts.
3. *Composition.* `TaskManager` on `Connection`, to discharge its assumptions about the abort;
   `IncomingMessage` with several locks of `LockedUpdate` in place of `Apply`.
4. *Timers of layer 4*: echo requests, their timeouts and a pipeline that is blocked by a full queue.
5. *Media keys of the others*: the epochs that arrive in frames and in messages, with the counter of
   one byte.
6. *Storage*: key storage and linking under crashes; nomination in the rendezvous protocol;
   `UnboundedQueue`; derived stores without glitches; the life time of models, caches and RPC proxies.

## Not modelled

* *No control of their own:* generated encodings (the largest files of the code), the user interface
  and presentation, HTTP requests that are single calls, the synchronous statements of the database,
  packaging, and the contents of messages.
* *Left for later*, as listed under *Plan*: conversations, receipts, the timers of layer 4,
  rendezvous and linking, key storage, derived stores, caches, RPC, the keys of the other
  participants of a call, the SFU protocol and the WebRTC session.
* *Left out of the modules:* `Transaction` does not look into what a change consists of and has one
  reflection per transaction, `TaskManager` not into messages and their backlogs (that is
  `Transaction`), `Connection` not into a D2M-only connection, `FileMessage` not into outbound files,
  `GroupCall` not into a second group, nor into an abort of a context by an
  unexpected error: requests fail in the model as in the code, but the refresh of a group as a whole is
  "Considered infallible" (`call/group-call.ts:864`).

The status of each component is in `PROJECT.json`.
