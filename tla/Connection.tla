------------------------------ MODULE Connection ------------------------------
(***************************************************************************)
(* The connection manager and the connections it makes, one after another: *)
(* ConnectionManager with every connection opened out into the parts of    *)
(* ClosingSequence, which fail on their own and have to meet in the closed *)
(* event.  What ConnectionManager assumes of a connection, that it closes  *)
(* once its tasks fail and that its closing sequence ends, follows here    *)
(* from the fairness of the parts.                                         *)
(***************************************************************************)
EXTENDS Naturals, Sequences

CONSTANT MaxFrames  \* bound: frames the server sends on one connection

ASSUME ConnectionAssumption == MaxFrames \in Nat

VARIABLES
    made,  \* the reconnect loop has a connection that is not yet reset
    run, autoConnect, inner, state, handle, code, skip, kick,  \* the manager
    ws, rx, sent, put, full, err, loop, failure, readable, writable, delayed,
    closed, done, alerts                                       \* the connection

manager    == <<run, autoConnect, inner, state, handle, code, skip, kick>>
connection == <<ws, rx, sent, put, full, err, loop, failure, readable, writable,
                delayed, closed, done, alerts>>
connectionVars == <<made, manager, connection>>

Closing == INSTANCE ClosingSequence

\* What the manager sees of the connection.
Seen ==
    IF ~made THEN "none"
    ELSE IF closed # Closing!Open THEN "closing"
    ELSE IF loop = "stopped" THEN "failing" ELSE "open"

Manager == INSTANCE ConnectionManager WITH loop <- run, main <- Seen

ConnectionTypeOK == made \in BOOLEAN /\ Closing!TypeOK /\ Manager!TypeOK

ConnectionInit ==
    /\ made = FALSE /\ run = "await"
    /\ autoConnect = "on" /\ inner = "disconnected" /\ state = "disconnected"
    /\ handle = "none" /\ code = "recoverable" /\ skip = FALSE /\ kick = "idle"
    /\ Closing!Init

-----------------------------------------------------------------------------
(* The connection *)

\* All the parts are those of a new connection.
Fresh ==
    /\ ws' = "open" /\ rx' = <<>> /\ sent' = 0 /\ put' = FALSE /\ full' = FALSE
    /\ err' = [decoder |-> "none", encoder |-> "none"]
    /\ loop' = "idle" /\ failure' = "none" /\ readable' = "open"
    /\ writable' = "open" /\ delayed' = FALSE /\ closed' = Closing!Open
    /\ done' = FALSE /\ alerts' = [sent |-> 0, handled |-> 0, threw |-> FALSE]

\* Faulty variant: who raises the closed event last decides on the close code.
PartLast(A) ==
    /\ made /\ kick # "fallback" /\ A
    /\ \E c \in Manager!Code : code' = IF closed' # Closing!Open THEN c ELSE code
    /\ UNCHANGED <<made, run, autoConnect, inner, state, handle, skip, kick>>

\* A part of the connection moves.  Who raises the closed event first decides
\* on the close code, which may be any.
Part(A) ==
    /\ made /\ kick # "fallback" /\ A
    /\ \E c \in Manager!Code :
        code' = IF closed = Closing!Open /\ closed' # Closing!Open THEN c ELSE code
    /\ UNCHANGED <<made, run, autoConnect, inner, state, handle, skip, kick>>

\* disconnect closes the connection that the manager refers to.
HandleClosed ==
    IF handle = "main" /\ made
    THEN /\ Closing!Disconnect("local")
         /\ UNCHANGED <<rx, sent, put, full, loop, failure, readable, writable,
                        delayed, alerts>>
    ELSE UNCHANGED connection

-----------------------------------------------------------------------------
(* The manager *)

Quiet == UNCHANGED <<made, connection>>

Disable == HandleClosed /\ UNCHANGED made /\ Manager!Disable
Dismiss == HandleClosed /\ UNCHANGED made /\ Manager!Dismiss
StartFallback == HandleClosed /\ UNCHANGED made /\ Manager!StartFallback

Create ==
    \/ made' = TRUE /\ Fresh /\ Manager!CreateSucceeds
    \/ Quiet /\ Manager!CreateFails

\* The loop awaits the closing sequence before it goes on.
Reset == done /\ made' = FALSE /\ Fresh /\ Manager!Closed

Loop ==
    \/ Create \/ Reset \/ Dismiss
    \/ Quiet /\ (Manager!Attempt \/ Manager!Confirm \/ Manager!SleepEnds)

Unlink == StartFallback \/ (Quiet /\ Manager!Unlink)

ConnectionNext ==
    \/ Loop \/ Unlink \/ Disable \/ (Quiet /\ Manager!Enable)
    \/ Part(Closing!ServerSends) \/ Part(Closing!SocketCloses)
    \/ Part(Closing!SocketErrors) \/ Part(Closing!LocalDisconnect)
    \/ Part(Closing!Inbound) \/ Part(Closing!EncoderFails)
    \/ Part(Closing!TakeMessage) \/ Part(Closing!TaskEnds)
    \/ Part(Closing!TaskFails) \/ Part(Closing!LoopStops)

ConnectionSpec == ConnectionInit /\ [][ConnectionNext]_connectionVars

\* The parts of a connection run, as in ClosingSequence; so does the loop.
ConnectionFairness ==
    /\ WF_connectionVars(Part(Closing!Inbound))
    /\ WF_connectionVars(Part(Closing!EncoderFails))
    /\ WF_connectionVars(Part(Closing!LoopStops))
    /\ WF_connectionVars(ws = "closing" /\ Part(Closing!SocketCloses))
    /\ WF_connectionVars(Quiet /\ Manager!Attempt)
    /\ WF_connectionVars(Create) /\ WF_connectionVars(Reset)
    /\ WF_connectionVars(Quiet /\ Manager!SleepEnds)
    /\ WF_connectionVars(Quiet /\ Manager!Dropped)
    /\ WF_connectionVars(
        \/ StartFallback
        \/ Quiet /\ (Manager!D2mCreated \/ Manager!D2mFails \/ Manager!D2mClosed))

ConnectionFairSpec == ConnectionSpec /\ ConnectionFairness

-----------------------------------------------------------------------------
(* Properties *)

\* The connection with all its parts is one of those the manager was written
\* for: it fails, closes and is reset in this order only.
ImplementsManager == Manager!Spec

\* The loop throws for the close codes that are meant to stop it and for nothing
\* else, unless a D2M-only connection failed (_run, assertUnreachable in start).
LoopSurvives == Manager!LoopSurvives

\* A part of the connection that the loop has is gone.
PartGone ==
    made /\ (ws = "closed" \/ readable # "open" \/ writable # "open" \/ failure # "none")

\* A failure of any part is noticed: if the websocket, a pipeline or the loop of
\* the task manager is gone, the closing sequence of the connection ends.
FailureCloses == PartGone ~> (done \/ ~made)

\* Unless somebody stops the loop, every connection that is gone or was told to
\* close, whichever part went first, is followed by another attempt, and so is an
\* attempt that failed: the loop neither ends nor waits for ever, be it for the
\* closing sequence or for a pause (_run, _connectAndWaitUntilClosed).
Reconnects ==
    <>[]Manager!Undisturbed
        => ((~made \/ PartGone \/ closed # Closing!Open) ~> run = "creating")

\* No close-error is lost by a remote close: the closing sequence does not end
\* before all frames that were received have passed layer 4.
AlertsHandled == Closing!AlertsHandled
=============================================================================
