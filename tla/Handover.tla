------------------------------ MODULE Handover ------------------------------
(***************************************************************************)
(* What a Queue promises its producers and consumers: values are handed    *)
(* over one at a time, each exactly once and in the order in which they    *)
(* were accepted, and an error ends the acceptance for good.               *)
(***************************************************************************)
EXTENDS Naturals, Sequences, FiniteSets

CONSTANT Put    \* the calls of put; a call stands for the value it carries

VARIABLES
    accepted,   \* the values accepted so far, in order
    taken,      \* how many of them have been consumed
    closed      \* "no", or "yes" once an error was raised

Init == accepted = <<>> /\ taken = 0 /\ closed = "no"

\* A value is accepted when the previous one is gone.
Accept(p) ==
    /\ closed = "no"
    /\ taken = Len(accepted)
    /\ \A i \in 1..Len(accepted) : accepted[i] # p
    /\ accepted' = Append(accepted, p)
    /\ UNCHANGED <<taken, closed>>

\* What was accepted can be consumed, even after the error.
Take ==
    /\ taken < Len(accepted)
    /\ taken' = taken + 1
    /\ UNCHANGED <<accepted, closed>>

Close ==
    /\ closed' = "yes"
    /\ UNCHANGED <<accepted, taken>>

Next == (\E p \in Put : Accept(p)) \/ Take \/ Close

Spec == Init /\ [][Next]_<<accepted, taken, closed>>
=============================================================================
