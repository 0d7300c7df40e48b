------------------------------ MODULE TaskList ------------------------------
(***************************************************************************)
(* What the task manager promises to those who schedule tasks: one list,   *)
(* whose first task is the only one that completes, and from which a lost  *)
(* connection takes the volatile tasks, all at once.  There are no         *)
(* managers, loops and messages here, and nothing is copied from one       *)
(* manager to the next.  TaskManager implements it.                        *)
(***************************************************************************)
EXTENDS Naturals

CONSTANTS
    Task,
    Persistent

VARIABLES
    done,       \* the promise of every task
    stamp,      \* its place in the list
    accepted    \* the number of places given away

vars == <<done, stamp, accepted>>

Pending == {t \in Task : done[t] = "pending"}

Init ==
    /\ done = [t \in Task |-> "unscheduled"]
    /\ stamp = [t \in Task |-> 0]
    /\ accepted = 0

Accept(t) ==
    /\ done[t] = "unscheduled"
    /\ done' = [done EXCEPT ![t] = "pending"]
    /\ accepted' = accepted + 1
    /\ stamp' = [stamp EXCEPT ![t] = accepted + 1]

\* A volatile task without a connection, or any after the loop has failed.
Refuse(t) ==
    /\ done[t] = "unscheduled"
    /\ \/ t \in Task \ Persistent /\ done' = [done EXCEPT ![t] = "rejected"]
       \/ done' = [done EXCEPT ![t] = "thrown"]
    /\ UNCHANGED <<stamp, accepted>>

Complete(t) ==
    /\ t \in Pending
    /\ \A u \in Pending : stamp[t] <= stamp[u]
    /\ done' = [done EXCEPT ![t] = "resolved"]
    /\ UNCHANGED <<stamp, accepted>>

RejectVolatile ==
    /\ done' = [t \in Task |-> IF t \in Pending \ Persistent THEN "rejected" ELSE done[t]]
    /\ UNCHANGED <<stamp, accepted>>

Next == RejectVolatile \/ \E t \in Task : Accept(t) \/ Refuse(t) \/ Complete(t)

Spec == Init /\ [][Next]_vars
=============================================================================
