--------------------------- MODULE ClosingSequence ---------------------------
(***************************************************************************)
(* How one connection ends.  The websocket, the inbound and the outbound   *)
(* pipeline and the loop of the task manager can each fail, and each pulls *)
(* the others down by errors of queues and streams.  All of it must meet   *)
(* in one event, closed, whose closing sequence resolves done exactly when *)
(* the reconnect loop may go on: after the frames that were received       *)
(* before a remote close passed layer 4 (they may hold a close-error).     *)
(***************************************************************************)
EXTENDS Naturals, Sequences

CONSTANT MaxFrames  \* bound: frames the server sends

VARIABLES
    ws,         \* the websocket: "open", "closing" (close called) or "closed"
    rx,         \* frames received and not yet decoded
    sent,       \* how many frames were sent
    put,        \* Layer5Decoder.write awaits decoder.queue.put
    full,       \* the decoder queue holds a value
    err,        \* the errors of the decoder and the encoder queue
    loop,       \* TaskManager.run: "idle", "busy" with a task, or "stopped"
    failure,    \* the error of a task that stopped it
    readable,   \* the promise of the inbound pipeline
    writable,   \* the promise of the outbound pipeline
    delayed,    \* an error of the queue waits for done
    closed,     \* what the event was raised with first
    done,       \* closing.done
    alerts      \* close-errors sent and handled, and whether a codec threw

pipes == <<readable, writable, delayed>>
event == <<closed, done, err>>
vars  == <<ws, rx, sent, put, full, loop, failure, pipes, event, alerts>>

Open == [type |-> "none", origin |-> "none", hint |-> FALSE]

Info(t, o, h) == [type |-> t, origin |-> o, hint |-> h]

TypeOK ==
    /\ ws \in {"open", "closing", "closed"}
    /\ rx \in Seq({"message", "alert", "alert-stop", "bad"})
    /\ sent \in 0..MaxFrames
    /\ put \in BOOLEAN /\ full \in BOOLEAN
    /\ err \in [decoder : {"none", "closed", "hint", "fatal"},
                encoder : {"none", "closed", "hint", "fatal"}]
    /\ loop \in {"idle", "busy", "stopped"}
    /\ failure \in {"none", "hint", "fatal"}
    /\ readable \in {"open", "resolved", "rejected"}
    /\ writable \in {"open", "rejected"}
    /\ delayed \in BOOLEAN
    /\ closed \in {Open} \cup [type : {"normal", "error"},
                               origin : {"local", "remote", "unknown"}, hint : BOOLEAN]
    /\ done \in BOOLEAN
    /\ alerts \in [sent : 0..MaxFrames, handled : 0..MaxFrames, threw : BOOLEAN]

Init ==
    /\ ws = "open" /\ rx = <<>> /\ sent = 0
    /\ put = FALSE /\ full = FALSE
    /\ err = [decoder |-> "none", encoder |-> "none"]
    /\ loop = "idle" /\ failure = "none"
    /\ readable = "open" /\ writable = "open" /\ delayed = FALSE
    /\ closed = Open /\ done = FALSE
    /\ alerts = [sent |-> 0, handled |-> 0, threw |-> FALSE]

-----------------------------------------------------------------------------
(* The event *)

\* Queue.error: only the first error counts.
ErrorQueues(e) ==
    [q \in {"decoder", "encoder"} |-> IF err[q] = "none" THEN e ELSE err[q]]

\* The first raise aborts the task manager, which errors its queues, and starts
\* the closing sequence, short-circuited for local disconnects and errors.
RaiseAnd(info, finished) ==
    /\ closed' = IF closed = Open THEN info ELSE closed
    /\ done' = \/ done \/ finished
               \/ closed = Open /\ (info.origin = "local" \/ info.type = "error")
    /\ err' = IF closed = Open THEN ErrorQueues("closed") ELSE err

Raise(info) == RaiseAnd(info, FALSE)

Broken(hint) == Info("error", "unknown", hint)

\* Faulty variant: an inbound pipeline that ends well does not finish the closing
\* sequence (catch in place of finally).
SettleReadableIfFailed(outcome) ==
    /\ readable' = outcome
    /\ put' = FALSE /\ delayed' = FALSE /\ rx' = <<>>
    /\ RaiseAnd(Broken(FALSE), outcome = "rejected")

\* The inbound pipeline is over: done, whatever else happens.
SettleReadable(outcome) ==
    /\ readable' = outcome
    /\ put' = FALSE /\ delayed' = FALSE /\ rx' = <<>>
    /\ RaiseAnd(Broken(FALSE), TRUE)

\* A stream that is cancelled or aborted closes the websocket.
CloseSocket == ws' = IF ws = "open" THEN "closing" ELSE ws

-----------------------------------------------------------------------------
(* The websocket (the server is external) *)

ServerSends ==
    /\ ws # "closed" /\ sent < MaxFrames /\ readable = "open"
    /\ sent' = sent + 1
    /\ \E k \in {"message", "alert", "alert-stop", "bad"} :
        /\ rx' = Append(rx, k)
        /\ alerts' = IF k \in {"alert", "alert-stop"}
                     THEN [alerts EXCEPT !.sent = @ + 1] ELSE alerts
    /\ UNCHANGED <<ws, put, full, loop, failure, pipes, event>>

\* The close event: first closed resolves and all that follows from it runs,
\* then the source closes and the sink errors, which errors the encoder queue.
SocketCloses ==
    /\ ws # "closed"
    /\ ws' = "closed"
    /\ Raise(Info("normal", "remote", FALSE))
    /\ writable' = "rejected"
    /\ UNCHANGED <<rx, sent, put, full, loop, failure, readable, delayed, alerts>>

\* The error event errors both streams, queued frames included.
SocketErrors ==
    /\ ws # "closed"
    /\ ws' = "closed"
    /\ IF readable = "open" THEN SettleReadable("rejected")
       ELSE Raise(Broken(FALSE)) /\ UNCHANGED <<readable, put, delayed, rx>>
    /\ writable' = "rejected"
    /\ alerts' = [alerts EXCEPT !.threw = TRUE]
    /\ UNCHANGED <<sent, full, loop, failure>>

\* Connection.disconnect: closed resolves with the given info at once.
Disconnect(origin) ==
    /\ CloseSocket
    /\ Raise(Info("normal", origin, FALSE))

LocalDisconnect ==
    /\ closed = Open
    /\ Disconnect("local")
    /\ UNCHANGED <<rx, sent, put, full, loop, failure, pipes, alerts>>

-----------------------------------------------------------------------------
(* The inbound pipeline *)

\* Layers 1 to 4 take the next frame once layer 5 has put the last one.
\* A close-error opens its alert and may disconnect; another error throws.
Decode ==
    /\ readable = "open" /\ rx # <<>> /\ ~put
    /\ \/ /\ Head(rx) = "message"
          /\ put' = TRUE /\ rx' = Tail(rx)
          /\ UNCHANGED <<ws, alerts, readable, delayed, event>>
       \/ /\ Head(rx) \in {"alert", "alert-stop"}
          /\ rx' = Tail(rx)
          /\ alerts' = [alerts EXCEPT !.handled = @ + 1]
          /\ IF Head(rx) = "alert-stop" THEN Disconnect("remote")
             ELSE UNCHANGED <<ws, event>>
          /\ UNCHANGED <<put, readable, delayed>>
       \/ /\ Head(rx) = "bad"
          /\ alerts' = [alerts EXCEPT !.threw = TRUE]
          /\ SettleReadable("rejected")
          /\ CloseSocket
    /\ UNCHANGED <<sent, full, loop, failure, writable>>

\* Layer5Decoder.write: the queue takes the message ...
PutDone ==
    /\ put /\ ~full /\ err.decoder = "none"
    /\ put' = FALSE /\ full' = TRUE
    /\ UNCHANGED <<ws, rx, sent, loop, failure, pipes, event, alerts>>

\* Faulty variant: an error of the queue is always passed on at once.
PutFailsAtOnce ==
    /\ put /\ err.decoder # "none"
    /\ SettleReadable("rejected") /\ CloseSocket
    /\ UNCHANGED <<sent, full, loop, failure, writable, alerts>>

\* ... or is errored: within the closing sequence the error is held back until
\* done, so that the frames behind this one still reach layer 4.
PutFails ==
    /\ put /\ err.decoder # "none"
    /\ IF closed # Open
       THEN put' = FALSE /\ delayed' = TRUE
            /\ UNCHANGED <<ws, rx, readable, event>>
       ELSE SettleReadable("rejected") /\ CloseSocket
    /\ UNCHANGED <<sent, full, loop, failure, writable, alerts>>

DelayedError ==
    /\ delayed /\ done /\ readable = "open"
    /\ SettleReadable("rejected") /\ CloseSocket
    /\ UNCHANGED <<sent, full, loop, failure, writable, alerts>>

\* All frames are decoded: Layer5Decoder.close, and the readable side resolves.
EndOfStream ==
    /\ readable = "open" /\ ws = "closed" /\ rx = <<>> /\ ~put
    /\ SettleReadable("resolved")
    /\ UNCHANGED <<ws, sent, full, loop, failure, writable, alerts>>

-----------------------------------------------------------------------------
(* The outbound pipeline and the task manager *)

\* Layer5Encoder.pull: ConnectionClosed is ignored, another error raises closed
\* and carries the hint how long to stay disconnected.
EncoderFails ==
    /\ writable = "open" /\ err.encoder # "none"
    /\ writable' = "rejected"
    /\ CloseSocket
    /\ IF err.encoder = "closed" THEN UNCHANGED event
       ELSE Raise(Broken(err.encoder = "hint"))
    /\ UNCHANGED <<rx, sent, put, full, loop, failure, readable, delayed, alerts>>

TakeMessage ==
    /\ loop = "idle" /\ full /\ err.decoder = "none"
    /\ full' = FALSE /\ loop' = "busy"
    /\ UNCHANGED <<ws, rx, sent, put, failure, pipes, event, alerts>>

TaskEnds ==
    /\ loop = "busy"
    /\ loop' = "idle"
    /\ UNCHANGED <<ws, rx, sent, put, full, failure, pipes, event, alerts>>

\* Faulty variant: the encoder queue is not errored.
TaskFailsHalf ==
    /\ loop = "busy"
    /\ \E e \in {"hint", "fatal"} :
        /\ failure' = e
        /\ err' = [err EXCEPT !.decoder = IF @ = "none" THEN e ELSE @]
    /\ loop' = "stopped"
    /\ UNCHANGED <<ws, rx, sent, put, full, pipes, closed, done, alerts>>

\* The catch block of run: all queues get the error of the task.
TaskFails ==
    /\ loop = "busy"
    /\ \E e \in {"hint", "fatal"} : failure' = e /\ err' = ErrorQueues(e)
    /\ loop' = "stopped"
    /\ UNCHANGED <<ws, rx, sent, put, full, pipes, closed, done, alerts>>

\* _next finds the queue errored.
LoopStops ==
    /\ loop = "idle" /\ err.decoder # "none"
    /\ loop' = "stopped"
    /\ err' = ErrorQueues(err.decoder)
    /\ UNCHANGED <<ws, rx, sent, put, full, failure, pipes, closed, done, alerts>>

-----------------------------------------------------------------------------
Inbound == Decode \/ PutDone \/ PutFails \/ DelayedError \/ EndOfStream

-----------------------------------------------------------------------------
(* Properties *)

\* No close-error is lost by a remote close: done is not resolved before all
\* frames that were received have passed layer 4.
AlertsHandled ==
    (done /\ closed.type = "normal" /\ closed.origin = "remote" /\ ~alerts.threw)
        => alerts.handled = alerts.sent
=============================================================================
