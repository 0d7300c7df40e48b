------------------------------- MODULE Mailbox -------------------------------
(***************************************************************************)
(* What the path of incoming messages promises to the user, to the other   *)
(* devices and to the chat server, without connections, tasks, nonces,     *)
(* guards and acknowledgements under way: every text is shown once, in the *)
(* order of arrival, and the server may forget a message only after that.  *)
(* IncomingMessage implements it, whatever is lost, crashes or is          *)
(* delivered again.                                                        *)
(***************************************************************************)
EXTENDS Naturals, Sequences, Functions

CONSTANTS
    Message,
    Text        \* the messages that belong into a conversation

VARIABLES
    arrived,    \* the messages that arrived, in order
    elsewhere,  \* those that the other devices get
    times,      \* how often a text was added to its conversation
    forgotten   \* those that the server does not send again

vars == <<arrived, elsewhere, times, forgotten>>

Init ==
    /\ arrived = <<>> /\ elsewhere = {} /\ forgotten = {}
    /\ times = [m \in Message |-> 0]

Before(m, n) ==
    \E i, j \in DOMAIN arrived : i < j /\ arrived[i] = m /\ arrived[j] = n

Arrive(m) ==
    /\ m \notin Range(arrived)
    /\ arrived' = Append(arrived, m)
    /\ UNCHANGED <<elsewhere, times, forgotten>>

Reflect(m) ==
    /\ m \in Range(arrived)
    /\ elsewhere' = elsewhere \union {m}
    /\ UNCHANGED <<arrived, times, forgotten>>

\* Add a text to its conversation: it is new there, the other devices have it
\* too, and nothing older is missing.
Show(m) ==
    /\ m \in Text \intersect Range(arrived) \intersect elsewhere
    /\ times[m] = 0
    /\ \A n \in Text : Before(n, m) => times[n] = 1
    /\ times' = [times EXCEPT ![m] = 1]
    /\ UNCHANGED <<arrived, elsewhere, forgotten>>

\* The acknowledgement of a message reaches the server.
Forget(m) ==
    /\ m \in Range(arrived)
    /\ m \in Text => times[m] = 1
    /\ forgotten' = forgotten \union {m}
    /\ UNCHANGED <<arrived, elsewhere, times>>

Next == \E m \in Message : Arrive(m) \/ Reflect(m) \/ Show(m) \/ Forget(m)

Spec == Init /\ [][Next]_vars
=============================================================================
