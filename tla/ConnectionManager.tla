-------------------------- MODULE ConnectionManager --------------------------
(***************************************************************************)
(* The connection manager: the reconnect loop ConnectionManager._run with  *)
(* one connection attempt after another (_connectAndWaitUntilClosed), the  *)
(* auto-connect switch, and selfKickFromMediator, which unlinks the device *)
(* and falls back to a second, D2M-only connection.                        *)
(*                                                                         *)
(* The loop, the user interface and selfKickFromMediator interleave at     *)
(* every await.  The task manager is reduced to what the assertions of     *)
(* TaskManager.replace look at and to the volatile DropDeviceTask; the     *)
(* server and the network are the nondeterminism of the events.            *)
(***************************************************************************)

VARIABLES
    loop,        \* where _run is
    autoConnect, \* whether the promise _autoConnect is resolved
    inner,       \* which class TaskManager._inner is an instance of
    state,       \* the MonotonicEnumStore of the connection state
    handle,      \* the connection that _connection refers to
    main,        \* the connection that the loop has created
    code,        \* what its close code asks for
    skip,        \* skipConnectionDelay
    kick         \* where selfKickFromMediator is

store == <<autoConnect, state, inner>>
vars  == <<loop, store, handle, main, code, skip, kick>>

\* "await"     at await this._autoConnect     "creating"  in Connection.create
\* "up"        waiting until closed           "dialog"    waiting for the user
\* "sleeping"  in TIMER.sleep                 "dead"      the generator threw
Loop == {"await", "creating", "up", "dialog", "sleeping", "dead"}

\* "failing": the task manager's loop has ended, the abort is yet to come.
\* "closing": the closed event was raised, the closing sequence goes on.
Main == {"none", "open", "failing", "closing"}

\* How _run deals with a close code.
Code == {"recoverable", "updateLocal", "disable", "fatal"}

\* "scheduled"  awaiting DropDeviceTask      "fallback"  about to go D2M-only
\* "creating", "open"  the D2M-only connection
\* "dropped", "unlinked", "rejected"  settled
Kick == {"idle", "scheduled", "fallback", "creating", "open",
         "dropped", "unlinked", "rejected"}

TypeOK ==
    /\ loop \in Loop
    /\ autoConnect \in {"on", "off"}
    /\ inner \in {"disconnected", "connected"}
    /\ state \in {"connecting", "established", "disconnected"}
    /\ handle \in {"none", "main", "d2m"}
    /\ main \in Main
    /\ code \in Code
    /\ skip \in BOOLEAN
    /\ kick \in Kick

Init ==
    /\ loop = "await"
    /\ autoConnect = "on"
    /\ inner = "disconnected"
    /\ state = "disconnected"
    /\ handle = "none"
    /\ main = "none"
    /\ code = "recoverable"
    /\ skip = FALSE
    /\ kick = "idle"

-----------------------------------------------------------------------------
(* The switch and the handle *)

\* StartFallback is a microtask of the turn that rejected the scheduled task:
\* nothing that a timer, the network or the user brings about comes before it.
Turn == kick # "fallback"

\* disconnect: closing the transport raises the closed event later on.
CloseHandle ==
    /\ main' = IF handle = "main" /\ main # "none" THEN "closing" ELSE main
    /\ code' = IF handle = "main" /\ main \in {"open", "failing"} THEN "recoverable" ELSE code

\* disconnectAndDisableAutoConnect, called by the protocol layers and the UI.
Disable ==
    /\ Turn
    /\ CloseHandle
    /\ autoConnect' = "off"
    /\ UNCHANGED <<loop, state, inner, handle, skip, kick>>

\* enableAutoConnect
Enable ==
    /\ Turn
    /\ autoConnect = "off"
    /\ autoConnect' = "on"
    /\ UNCHANGED <<loop, state, inner, handle, main, code, skip, kick>>

-----------------------------------------------------------------------------
(* _run and _connectAndWaitUntilClosed *)

\* The pause before the next attempt.  skip is never reset.
Pause == loop' = IF skip THEN "await" ELSE "sleeping"

\* replace(CONNECTING) asserts that the task manager is disconnected.  It also
\* rejects the volatile tasks left from the previous connection.
Attempt ==
    /\ Turn
    /\ loop = "await"
    /\ autoConnect = "on"
    /\ IF inner = "disconnected"
       THEN /\ loop' = "creating"
            /\ inner' = "connected"
            /\ state' = "connecting"
            /\ kick' = IF kick = "scheduled" THEN "fallback" ELSE kick
       ELSE loop' = "dead" /\ state' = "connecting" /\ UNCHANGED <<inner, kick>>
    /\ UNCHANGED <<autoConnect, handle, main, code, skip>>

\* Faulty variant: the task manager is not told about the failure.
CreateFailsWithoutReplace ==
    /\ Turn
    /\ loop = "creating"
    /\ state' = "disconnected"
    /\ Pause
    /\ UNCHANGED <<autoConnect, inner, handle, main, code, skip, kick>>

\* Connection.create rejects; replace(DISCONNECTED) asserts the opposite.
CreateFails ==
    /\ Turn
    /\ loop = "creating"
    /\ state' = "disconnected"
    /\ IF inner = "connected"
       THEN inner' = "disconnected" /\ Pause
       ELSE loop' = "dead" /\ UNCHANGED inner
    /\ UNCHANGED <<autoConnect, handle, main, code, skip, kick>>

\* Subscribing to the state of the connection sets the manager's state, which
\* throws if it were to decrease.
CreateSucceeds ==
    /\ Turn
    /\ loop = "creating"
    /\ handle' = "main"
    /\ main' = "open"
    /\ IF state = "disconnected"
       THEN loop' = "dead" /\ UNCHANGED state
       ELSE loop' = "up" /\ state' = "established"
    /\ UNCHANGED <<autoConnect, inner, code, skip, kick>>

\* The task manager's loop errors; the writable side of the transport follows.
TasksFail ==
    /\ Turn
    /\ main = "open"
    /\ main' = "failing"
    /\ UNCHANGED <<loop, store, handle, code, skip, kick>>

\* The transport closes, for whatever reason.
Closing ==
    /\ Turn
    /\ main \in {"open", "failing"}
    /\ main' = "closing"
    /\ code' \in Code
    /\ UNCHANGED <<loop, store, handle, skip, kick>>

\* The closing sequence of an established connection is done: _reset, and then
\* the switch on the close code.
Closed ==
    /\ Turn
    /\ loop = "up"
    /\ main = "closing"
    /\ main' = "none"
    /\ state' = "disconnected"
    /\ IF inner = "disconnected"
       THEN loop' = "dead" /\ UNCHANGED <<autoConnect, inner, handle>>
       ELSE /\ inner' = "disconnected"
            /\ handle' = "none"
            /\ autoConnect' = IF code \in {"disable", "fatal"} THEN "off" ELSE autoConnect
            /\ \/ code = "fatal" /\ loop' = "dead"
               \/ code = "updateLocal" /\ loop' = "dialog"
               \/ code \in {"recoverable", "disable"} /\ Pause
    /\ UNCHANGED <<code, skip, kick>>

\* The user chooses to reconnect after a version mismatch.
Confirm ==
    /\ Turn
    /\ loop = "dialog"
    /\ skip' = TRUE
    /\ loop' = "await"
    /\ UNCHANGED <<store, handle, main, code, kick>>

\* Closing the handle closes a D2M-only connection, too (D2mClosed).
Dismiss ==
    /\ Turn
    /\ loop = "dialog"
    /\ CloseHandle
    /\ autoConnect' = "off"
    /\ Pause
    /\ UNCHANGED <<inner, state, handle, skip, kick>>

SleepEnds ==
    /\ Turn
    /\ loop = "sleeping"
    /\ loop' = "await"
    /\ UNCHANGED <<store, handle, main, code, skip, kick>>

-----------------------------------------------------------------------------
(* selfKickFromMediator *)

\* schedule rejects a volatile task while disconnected and throws while the
\* queue of the failed loop is still installed; both lead to the fallback.
ScheduleKick ==
    /\ kick = "idle"
    /\ \/ inner = "connected" /\ main # "failing" /\ kick' = "scheduled"
       \/ (inner = "disconnected" \/ main \in {"failing", "closing"}) /\ kick' = "fallback"
    /\ UNCHANGED <<loop, store, handle, main, code, skip>>

\* The mediator acknowledges the drop.
Dropped ==
    /\ kick = "scheduled"
    /\ main = "open"
    /\ kick' = "dropped"
    /\ UNCHANGED <<loop, store, handle, main, code, skip>>

\* _startD2mOnlyConnectionAndUnlink disconnects and asserts in the same breath
\* that there is no connection.
StartFallback ==
    /\ kick = "fallback"
    /\ CloseHandle
    /\ autoConnect' = "off"
    /\ kick' = IF handle = "none" THEN "creating" ELSE "rejected"
    /\ UNCHANGED <<loop, inner, state, handle, skip>>

D2mCreated ==
    /\ kick = "creating"
    /\ kick' = "open"
    /\ handle' = "d2m"
    /\ UNCHANGED <<loop, store, main, code, skip>>

\* createD2mOnly rejects: _reset, whose replace(DISCONNECTED) asserts that the
\* task manager is connected, comes before enableAutoConnect.
D2mFails ==
    /\ kick = "creating"
    /\ kick' = "rejected"
    /\ state' = "disconnected"
    /\ IF inner = "connected"
       THEN inner' = "disconnected" /\ handle' = "none" /\ autoConnect' = "on"
       ELSE UNCHANGED <<inner, handle, autoConnect>>
    /\ UNCHANGED <<loop, main, code, skip>>

\* The D2M-only connection is closed; _connection keeps referring to it.
D2mClosed ==
    /\ kick = "open"
    /\ kick' = "unlinked"
    /\ UNCHANGED <<loop, store, handle, main, code, skip>>

-----------------------------------------------------------------------------

Run == Attempt \/ CreateFails \/ CreateSucceeds \/ Closed \/ Confirm \/ Dismiss \/ SleepEnds

Unlink == ScheduleKick \/ Dropped \/ D2mCreated \/ D2mFails \/ D2mClosed

Next == StartFallback \/ Enable \/ Disable \/ TasksFail \/ Closing \/ Run \/ Unlink

Spec == Init /\ [][Next]_vars

-----------------------------------------------------------------------------
(* Properties *)

\* The fallback has not opened, nor failed to open, a connection of its own.
NoFallback == kick \in {"idle", "scheduled", "fallback", "creating", "dropped"}

\* Auto-connect is on, no decision of the user is pending, and no close code asked
\* the loop to stop.
Undisturbed == autoConnect = "on" /\ loop # "dialog" /\ code # "fatal" /\ NoFallback

Settled == {"dropped", "unlinked", "rejected"}

\* The loop throws for the close codes that are meant to stop it and for nothing
\* else, unless a D2M-only connection failed (_run, assertUnreachable in start).
LoopSurvives == loop = "dead" => code = "fatal" \/ kick = "rejected"

=============================================================================
