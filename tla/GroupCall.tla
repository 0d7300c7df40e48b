------------------------------ MODULE GroupCall ------------------------------
(***************************************************************************)
(* The group calls of one group: the contexts that hold the calls          *)
(* considered running and refresh them under a lock, the manager that maps *)
(* the group to its context, the chosen call that the user is shown, the   *)
(* database, and the steps by which the user joins or creates a call.      *)
(* Calls are numbered in the order in which they were started.             *)
(***************************************************************************)
EXTENDS Naturals, Sequences, FiniteSets, FiniteSetsExt

CONSTANTS
    Calls,       \* the calls of the group, numbers
    MaxFailed,   \* failed peeks after which an old call is dropped
    MaxContexts, \* bound: contexts made since the app was started
    MaxQueue,    \* bound: jobs of a context when the user joins
    MaxFaults,   \* bound: failed requests
    MaxLeaves,   \* bound: times the user leaves the group
    MaxRestarts  \* bound: restarts of the app

ASSUME GroupCallAssumption ==
    /\ IsFiniteSet(Calls) /\ Calls \subseteq Nat \ {0}
    /\ MaxFailed \in Nat \ {0} /\ MaxContexts \in Nat \ {0} /\ MaxQueue \in Nat
    /\ MaxFaults \in Nat /\ MaxLeaves \in Nat /\ MaxRestarts \in Nat

VARIABLES
    onSfu,       \* what the server knows of each call
    inbox,       \* calls whose start message is not processed yet
    member,      \* the user is a member of the group
    contexts,    \* the GroupCallRunningContexts made so far
    mapped,      \* the one the manager has for the group, 0 for none
    db,          \* running calls in the database, with their failures
    chosen,      \* the chosen call of the group, 0 for none
    ongoing,     \* the call the user participates in, 0 for none
    hangup,      \* its abort event was raised
    join,        \* where joinCall is, it holds the lock of the ongoing call
    announced,   \* status messages of each call: started and ended
    faults, leaves, restarts

groupVars == <<onSfu, inbox, member, contexts, mapped, db, chosen, ongoing, hangup,
               join, announced, faults, leaves, restarts>>

\* Running calls: "no" for none; their consecutive failures.
States == {"no", "init", "failed", "peeked", "ongoing"}
ContextJob == [add : SUBSET Calls, as : {"new", "reload", "ongoing"}, for : BOOLEAN]
Refresh == [add |-> {}, as |-> "new", for |-> FALSE]
NoJoin == [at |-> "idle", call |-> 0, create |-> FALSE]
Contexts == DOMAIN contexts
Running(x) == {c \in Calls : x.running[c] # "no"}
Stored(x) == {[call |-> c, failed |-> x.failed[c]] : c \in Running(x)}

Context == [aborted : BOOLEAN, running : [Calls -> States], failed : [Calls -> 0..MaxFailed],
            queue : Seq(ContextJob), step : {"idle", "token", "peek"}, own : Calls \cup {0},
            timer : BOOLEAN]

GroupTypeOK ==
    /\ onSfu \in [Calls -> {"none", "live", "ended"}] /\ inbox \subseteq Calls
    /\ member \in BOOLEAN /\ mapped \in 0..MaxContexts
    /\ db \subseteq [call : Calls, failed : 0..MaxFailed]
    /\ contexts \in Seq(Context)
    /\ mapped # 0 => mapped \in Contexts /\ ~contexts[mapped].aborted
    /\ chosen \in Calls \cup {0} /\ ongoing \in Calls \cup {0}
    /\ hangup \in BOOLEAN
    /\ join \in [at : {"idle", "token", "refresh", "refreshed", "connect", "register"},
                 call : Calls \cup {0}, create : BOOLEAN]
    /\ announced \in [Calls -> [started : Nat, ended : Nat]]

GroupInit ==
    /\ onSfu = [c \in Calls |-> "none"] /\ inbox = {} /\ member = TRUE
    /\ contexts = <<>> /\ mapped = 0 /\ db = {} /\ chosen = 0
    /\ ongoing = 0 /\ hangup = FALSE /\ join = NoJoin
    /\ announced = [c \in Calls |-> [started |-> 0, ended |-> 0]]
    /\ faults = 0 /\ leaves = 0 /\ restarts = 0

-----------------------------------------------------------------------------
(* Registering calls *)

\* A new context writes its empty set of running calls to the database and,
\* with no ongoing call, begins with a refresh.
NewContext(now) ==
    [aborted |-> FALSE, running |-> [c \in Calls |-> "no"],
     failed |-> [c \in Calls |-> 0], step |-> "idle", own |-> 0, timer |-> FALSE,
     queue |-> IF now = 0 THEN <<Refresh>> ELSE <<>>]

Enqueue(x, job) == [x EXCEPT !.queue = Append(@, job)]

\* _register: get or create the context and add the calls under its lock.
Register(calls, as, now) ==
    LET job == [add |-> calls, as |-> as, for |-> as = "ongoing"] IN
    IF mapped # 0
    THEN /\ contexts' = [contexts EXCEPT ![mapped] = Enqueue(@, job)]
         /\ UNCHANGED <<mapped, db>>
    ELSE /\ contexts' = Append(contexts, Enqueue(NewContext(now), job))
         /\ mapped' = Len(contexts') /\ db' = {}

\* Bound: a context may be made, and one is left for the call being joined.
Spare(j) == Len(contexts) + (IF j = NoJoin THEN 0 ELSE 1) < MaxContexts

Pending == UNION UNION {{contexts[i].queue[n].add : n \in DOMAIN contexts[i].queue} : i \in Contexts}

\* A GroupCallStart message; without membership it is not processed further.
Receive(c) ==
    /\ c \in inbox \ Pending /\ (mapped = 0 => Spare(join))
    /\ IF member
       THEN Register({c}, "new", ongoing) /\ UNCHANGED inbox
       ELSE inbox' = inbox \ {c} /\ UNCHANGED <<contexts, mapped, db>>
    /\ UNCHANGED <<onSfu, member, chosen, ongoing, hangup, join, announced, faults,
                   leaves, restarts>>

-----------------------------------------------------------------------------
(* The jobs of a context, one at a time under its lock *)

\* Faulty variant: the timer is not set again.
DoneUnscheduled(x) == [x EXCEPT !.queue = Tail(@), !.step = "idle", !.own = 0]

\* The job is done; the next refresh is scheduled if calls are running.
Done(x) == [x EXCEPT !.queue = Tail(@), !.step = "idle", !.own = 0,
                     !.timer = Running(x) # {}]

\* Faulty variant: the join steps are resumed only with a call.
ReplyChosen(i, call) ==
    IF ~Head(contexts[i].queue).for \/ call = 0 THEN join
    ELSE IF join.at = "refresh" THEN [join EXCEPT !.at = "refreshed", !.call = call]
    ELSE IF join.at = "register" THEN NoJoin ELSE join

\* What a job for the join steps gives back to them.
Reply(i, call) ==
    IF ~Head(contexts[i].queue).for THEN join
    ELSE IF join.at = "refresh" THEN [join EXCEPT !.at = "refreshed", !.call = call]
    ELSE IF join.at = "register" THEN NoJoin ELSE join

\* add() and the start of _refresh().  Known calls are discarded, but for the
\* one that is now ongoing.  The registration is complete here.
Begin(i) ==
    LET x == contexts[i]
        job == Head(x.queue)
        new == {c \in job.add : x.running[c] = "no"}
        running == [c \in Calls |->
            IF c \in job.add /\ job.as = "ongoing" THEN "ongoing"
            ELSE IF c \in new THEN "init" ELSE x.running[c]]
        y == [x EXCEPT !.running = running, !.timer = FALSE]
    IN
    /\ x.queue # <<>> /\ x.step = "idle"
    /\ announced' = [c \in Calls |-> IF c \in new /\ job.as # "reload"
                        THEN [announced[c] EXCEPT !.started = @ + 1]
                        ELSE announced[c]]
    /\ db' = IF x.aborted \/ job.add = {} THEN db ELSE Stored(y)
    /\ inbox' = inbox \ job.add
    /\ IF Running(y) = {}
       THEN contexts' = [contexts EXCEPT ![i] = Done(y)] /\ join' = Reply(i, 0)
       ELSE contexts' = [contexts EXCEPT ![i] = [y EXCEPT !.step = "token"]]
            /\ UNCHANGED join
    /\ UNCHANGED <<onSfu, member, mapped, chosen, ongoing, hangup, faults, leaves,
                   restarts>>

\* Faulty variant: the ongoing call is peeked like any other.
TokenPeeking(i) ==
    /\ contexts[i].step = "token"
    /\ contexts' = [contexts EXCEPT ![i] = [@ EXCEPT !.step = "peek"]]
    /\ UNCHANGED <<onSfu, inbox, member, mapped, db, chosen, ongoing, hangup, join,
                   announced, faults, leaves, restarts>>

\* The token; then the calls are looked at, the ongoing one without a request.
Token(i) ==
    LET x == contexts[i] IN
    /\ x.step = "token"
    /\ contexts' = [contexts EXCEPT ![i] = [x EXCEPT !.step = "peek", !.own = ongoing]]
    /\ UNCHANGED <<onSfu, inbox, member, mapped, db, chosen, ongoing, hangup, join,
                   announced, faults, leaves, restarts>>

TokenError(i) ==
    /\ contexts[i].step = "token" /\ faults < MaxFaults /\ faults' = faults + 1
    /\ contexts' = [contexts EXCEPT ![i] = Done(@)]
    /\ join' = Reply(i, 0)
    /\ UNCHANGED <<onSfu, inbox, member, mapped, db, chosen, ongoing, hangup,
                   announced, leaves, restarts>>

\* The most recently started call that could be refreshed.
Choose(running) ==
    LET on == {c \in Calls : running[c] \in {"peeked", "ongoing"}} IN
    IF on = {} THEN 0 ELSE Max(on)

\* The calls that are not running any more are announced as ended.  A context
\* without calls aborts itself: the manager forgets it, a refresh of the join
\* steps ends, and its subscriptions, the database among them, end.
Finish(i, z) ==
    LET ended == Running(contexts[i]) \ Running(z) IN
    /\ announced' = [c \in Calls |-> IF c \in ended
                        THEN [announced[c] EXCEPT !.ended = @ + 1] ELSE announced[c]]
    /\ db' = IF z.aborted THEN db ELSE Stored(z)
    /\ chosen' = Choose(z.running)
    /\ contexts' = [contexts EXCEPT
            ![i] = [Done(z) EXCEPT !.aborted = @ \/ Running(z) = {}]]
    /\ mapped' = IF ~z.aborted /\ Running(z) = {} THEN 0 ELSE mapped
    /\ join' = IF ~z.aborted /\ Running(z) = {} /\ join.at = "refresh"
               THEN [join EXCEPT !.at = "refreshed", !.call = 0]
               ELSE Reply(i, chosen')

\* Every call is ongoing, peeked, or ended; a failed one is kept unless it is
\* old and has failed often.  A timeout does not count as a failure.
Peeked(i) ==
    LET x == contexts[i] IN
    /\ x.step = "peek"
    /\ \E bad \in SUBSET (Running(x) \ {x.own}) :
       \E old \in SUBSET bad, timeouts \in SUBSET bad :
        LET failed == [c \in Calls |-> IF c \in bad \ timeouts
                THEN Min({MaxFailed, x.failed[c] + 1})
                ELSE IF c \in timeouts THEN x.failed[c] ELSE 0]
            dropped == {c \in old : failed[c] = MaxFailed}
            state(c) == IF x.running[c] = "no" \/ c \in dropped THEN "no"
                          ELSE IF c \in bad THEN "failed"
                          ELSE IF c = x.own THEN "ongoing"
                          ELSE IF onSfu[c] = "live" THEN "peeked" ELSE "no"
        IN /\ faults + Cardinality(bad) <= MaxFaults
           /\ faults' = faults + Cardinality(bad)
           /\ Finish(i, [x EXCEPT !.running = [c \in Calls |-> state(c)],
                                  !.failed = failed])
    /\ UNCHANGED <<onSfu, inbox, member, ongoing, hangup, leaves, restarts>>

\* The timer is not cancelled when a context is aborted.
Timer(i) ==
    /\ contexts[i].timer /\ contexts[i].queue = <<>>
    /\ contexts' = [contexts EXCEPT ![i] = Enqueue([@ EXCEPT !.timer = FALSE], Refresh)]
    /\ UNCHANGED <<onSfu, inbox, member, mapped, db, chosen, ongoing, hangup, join,
                   announced, faults, leaves, restarts>>

-----------------------------------------------------------------------------
(* Joining and creating *)

Unused == {c \in Calls : onSfu[c] = "none"}

JoinCall ==
    /\ join.at = "idle" /\ ~hangup /\ member /\ ongoing = 0 /\ Spare(join)
    /\ \A i \in Contexts : Len(contexts[i].queue) <= MaxQueue
    /\ \E create \in BOOLEAN :
        join' = [at |-> "token", call |-> 0, create |-> create]
    /\ UNCHANGED <<onSfu, inbox, member, contexts, mapped, db, chosen, ongoing,
                   hangup, announced, faults, leaves, restarts>>

\* With a token, the refresh steps are run, if there is a context.
JoinRefresh ==
    /\ join.at = "token"
    /\ IF mapped = 0
       THEN join' = [join EXCEPT !.at = "refreshed"] /\ UNCHANGED contexts
       ELSE /\ join' = [join EXCEPT !.at = "refresh"]
            /\ contexts' = [contexts EXCEPT ![mapped] =
                                Enqueue(@, [Refresh EXCEPT !.for = TRUE])]
    /\ UNCHANGED <<onSfu, inbox, member, mapped, db, chosen, ongoing, hangup,
                   announced, faults, leaves, restarts>>

\* The chosen call is joined; a call is created if there is none and the user
\* wants that.
JoinChosen ==
    /\ join.at = "refreshed"
    /\ join' = IF join.call # 0
               THEN [join EXCEPT !.at = "connect", !.create = FALSE]
               ELSE IF join.create /\ Unused # {}
               THEN [join EXCEPT !.at = "connect", !.call = Min(Unused)]
               ELSE NoJoin
    /\ UNCHANGED <<onSfu, inbox, member, contexts, mapped, db, chosen, ongoing,
                   hangup, announced, faults, leaves, restarts>>

\* The call is joined, declared ongoing and registered, or any of that fails.
Connect ==
    LET c == join.call IN
    /\ join.at = "connect"
    /\ IF onSfu[c] = (IF join.create THEN "none" ELSE "live") /\ (member \/ mapped # 0)
       THEN /\ onSfu' = [onSfu EXCEPT ![c] = "live"]
            /\ ongoing' = c /\ join' = [join EXCEPT !.at = "register"]
            /\ Register({c}, "ongoing", c)
       ELSE join' = NoJoin /\ UNCHANGED <<onSfu, ongoing, contexts, mapped, db>>
    /\ UNCHANGED <<inbox, member, chosen, hangup, announced, faults, leaves,
                   restarts>>

\* Steps that are given up do not wait for a refresh any more.
Abandoned(x) == IF join.at # "refresh" THEN x
                ELSE [x EXCEPT !.queue = [n \in DOMAIN @ |-> [@[n] EXCEPT !.for = FALSE]]]

\* The user hangs up, a request fails or the connection is lost.
GiveUp ==
    /\ join.at # "idle" \/ ongoing # 0
    /\ hangup' = (hangup \/ ongoing # 0)
    /\ join' = IF join.at = "register" THEN join ELSE NoJoin
    /\ contexts' = [i \in Contexts |-> Abandoned(contexts[i])]
    /\ UNCHANGED <<onSfu, inbox, member, mapped, db, chosen, ongoing,
                   announced, faults, leaves, restarts>>

\* Removing the ongoing call takes its lock; every context refreshes then.
HungUp ==
    /\ hangup /\ join.at = "idle"
    /\ hangup' = FALSE /\ ongoing' = 0
    /\ contexts' = [i \in Contexts |-> IF contexts[i].aborted THEN contexts[i]
                                       ELSE Enqueue(contexts[i], Refresh)]
    /\ UNCHANGED <<onSfu, inbox, member, mapped, db, chosen, join, announced,
                   faults, leaves, restarts>>

-----------------------------------------------------------------------------
(* The group, the other members and the app *)

\* Someone else starts a call.
Start(c) ==
    /\ Unused # {} /\ c = Min(Unused)
    /\ join.at = "connect" => c # join.call
    /\ onSfu' = [onSfu EXCEPT ![c] = "live"] /\ inbox' = inbox \cup {c}
    /\ UNCHANGED <<member, contexts, mapped, db, chosen, ongoing, hangup, join,
                   announced, faults, leaves, restarts>>

\* The last participant has left.
EndCall(c) ==
    /\ onSfu[c] = "live" /\ ongoing # c
    /\ onSfu' = [onSfu EXCEPT ![c] = "ended"]
    /\ UNCHANGED <<inbox, member, contexts, mapped, db, chosen, ongoing, hangup,
                   join, announced, faults, leaves, restarts>>

LeaveGroup ==
    /\ member /\ leaves < MaxLeaves /\ leaves' = leaves + 1
    /\ member' = FALSE /\ mapped' = 0
    /\ contexts' = [i \in Contexts |-> IF i = mapped
                        THEN [Abandoned(contexts[i]) EXCEPT !.aborted = TRUE]
                        ELSE Abandoned(contexts[i])]
    /\ hangup' = (ongoing # 0)
    /\ join' = IF join.at = "register" THEN join ELSE NoJoin
    /\ UNCHANGED <<onSfu, inbox, db, chosen, ongoing, announced, faults, restarts>>

EnterGroup ==
    /\ ~member /\ member' = TRUE
    /\ UNCHANGED <<onSfu, inbox, contexts, mapped, db, chosen, ongoing, hangup,
                   join, announced, faults, leaves, restarts>>

\* The calls in the database are registered again, by a member.
Restart ==
    /\ restarts < MaxRestarts /\ restarts' = restarts + 1
    /\ chosen' = 0 /\ ongoing' = 0 /\ hangup' = FALSE /\ join' = NoJoin
    /\ IF db # {} /\ member
       THEN /\ contexts' = <<Enqueue(
                    [NewContext(0) EXCEPT !.failed = [c \in Calls |->
                        IF \E r \in db : r.call = c
                        THEN (CHOOSE r \in db : r.call = c).failed ELSE 0]],
                    [add |-> {r.call : r \in db}, as |-> "reload", for |-> FALSE])>>
            /\ mapped' = 1 /\ db' = {}
       ELSE contexts' = <<>> /\ mapped' = 0 /\ UNCHANGED db
    /\ UNCHANGED <<onSfu, inbox, member, announced, faults, leaves>>

-----------------------------------------------------------------------------
ContextStep(i) == Begin(i) \/ Token(i) \/ Peeked(i) \/ Timer(i)
Join == JoinRefresh \/ JoinChosen \/ Connect

GroupNext ==
    \/ \E i \in Contexts : ContextStep(i) \/ TokenError(i)
    \/ \E c \in Calls : Receive(c) \/ Start(c) \/ EndCall(c)
    \/ JoinCall \/ Join \/ GiveUp \/ HungUp \/ LeaveGroup \/ EnterGroup \/ Restart

GroupSpec == GroupInit /\ [][GroupNext]_groupVars

\* Requests are answered, timers fire and the lock is handed on.
GroupFairness ==
    /\ \A i \in 1..MaxContexts : WF_groupVars(i \in Contexts /\ ContextStep(i))
    /\ WF_groupVars(Join) /\ WF_groupVars(HungUp)
GroupFairSpec == GroupSpec /\ GroupFairness

-----------------------------------------------------------------------------
(* Properties *)

\* As long as a context has calls it will look at them again, after whatever
\* failed.
RefreshGoesOn ==
    \A i \in Contexts : Running(contexts[i]) # {} =>
        contexts[i].timer \/ contexts[i].queue # <<>>

\* The call the user takes part in stays known to some context.
OngoingIsKnown ==
    ongoing # 0 /\ ~hangup =>
        ongoing \in Pending \cup UNION {Running(contexts[i]) : i \in Contexts}

\* Joining ends: it holds the lock of the ongoing call and waits for the locks
\* of contexts.
JoinEnds == join.at # "idle" ~> join.at = "idle"
=============================================================================
