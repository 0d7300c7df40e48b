------------------------------ MODULE SharedLog ------------------------------
(***************************************************************************)
(* What transactions, reflection and ReflectedTask promise to the devices  *)
(* of one user: a log that all of them write to, and of which every device *)
(* processes what the others wrote, in the order of the log and leaving    *)
(* out nothing: it applies a change or discards it for good, because it is *)
(* invalid or cannot be applied.  There are no connections, requests,      *)
(* backlogs and nonces here.                                               *)
(* Transaction implements it, whatever is rejected, backlogged or lost.    *)
(***************************************************************************)
EXTENDS Naturals, Sequences

CONSTANT Device

VARIABLES
    log,        \* the devices that made the changes
    pending,    \* the changes of others that the server keeps for a device
    applied,    \* the changes that a device has applied
    discarded   \* the changes that a device has discarded

vars == <<log, pending, applied, discarded>>

Init ==
    /\ log = <<>>
    /\ pending = [d \in Device |-> <<>>]
    /\ applied = [d \in Device |-> {}]
    /\ discarded = [d \in Device |-> {}]

Write(d) ==
    /\ log' = Append(log, d)
    /\ pending' = [e \in Device |-> IF e = d THEN pending[e]
                                    ELSE Append(pending[e], Len(log) + 1)]
    /\ UNCHANGED <<applied, discarded>>

Record(d, n) ==
    /\ applied' = [applied EXCEPT ![d] = @ \union {n}]
    /\ UNCHANGED <<log, pending, discarded>>

\* Its own change, which is in the log by then.
ApplyOwn(d) == \E n \in DOMAIN log : log[n] = d /\ Record(d, n)

Processed(d) == applied[d] \union discarded[d]

\* The changes of other devices that may be next, the older ones being processed.
NextOf(d) ==
    {pending[d][i] : i \in {k \in DOMAIN pending[d] :
                              \A j \in 1..(k - 1) : pending[d][j] \in Processed(d)}}

\* What was discarded stays so.
ApplyNext(d) == \E n \in NextOf(d) \ discarded[d] : Record(d, n)

DiscardNext(d) ==
    /\ \E n \in NextOf(d) : discarded' = [discarded EXCEPT ![d] = @ \union {n}]
    /\ UNCHANGED <<log, pending, applied>>

\* The server forgets what was processed.
Drop(d) ==
    /\ pending[d] # <<>>
    /\ Head(pending[d]) \in Processed(d)
    /\ pending' = [pending EXCEPT ![d] = Tail(@)]
    /\ UNCHANGED <<log, applied, discarded>>

Next == \E d \in Device :
    Write(d) \/ ApplyOwn(d) \/ ApplyNext(d) \/ DiscardNext(d) \/ Drop(d)

Spec == Init /\ [][Next]_vars
=============================================================================
