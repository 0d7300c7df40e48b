-------------------------------- MODULE Queue --------------------------------
(***************************************************************************)
(* The one-value Queue between the transport pipelines and the tasks       *)
(* (decoder.queue, encoder.queue).  It is nothing but promises: _promise   *)
(* is replaced by a fresh one whenever its value is consumed, so promises  *)
(* are numbered and the current one is the last.  Calls of put and get     *)
(* interleave at their awaits; between two awaits a call is atomic.        *)
(***************************************************************************)
EXTENDS Naturals, Sequences, FiniteSets

CONSTANTS
    Put,        \* the calls of put; a call stands for the value it carries
    Reader      \* the consumers, each in a loop of get and consume

ASSUME QueueAssumption == IsFiniteSet(Put)

VARIABLES
    current,    \* the number of _promise
    slot,       \* the promise that a put has resolved, or 0
    consumed,   \* the promises whose value was consumed
    error,      \* "none", or "raised" once _error is rejected
    put,        \* where each put is
    putAt,      \* the promise whose consumption it awaits
    reader,     \* where each reader is
    readAt      \* the promise it awaits, or whose value it holds

puts    == <<put, putAt>>
readers == <<reader, readAt>>
queueVars    == <<current, slot, consumed, error, puts, readers>>

QueueTypeOK ==
    /\ current \in Nat \ {0}
    /\ slot \in [Put -> 0..current]
    /\ consumed \subseteq 1..(current - 1)
    /\ error \in {"none", "raised"}
    /\ put \in [Put -> {"idle", "waiting", "accepted", "thrown"}]
    /\ putAt \in [Put -> 0..current]
    /\ reader \in [Reader -> {"idle", "waiting", "holding", "thrown"}]
    /\ readAt \in [Reader -> 0..current]

QueueInit ==
    /\ current = 1
    /\ slot = [p \in Put |-> 0]
    /\ consumed = {}
    /\ error = "none"
    /\ put = [p \in Put |-> "idle"]
    /\ putAt = [p \in Put |-> 0]
    /\ reader = [r \in Reader |-> "idle"]
    /\ readAt = [r \in Reader |-> 0]

\* Promise n is resolved with a value.
Done(n) == \E p \in Put : slot[p] = n

-----------------------------------------------------------------------------
(* put *)

Resolve(p) ==
    /\ slot' = [slot EXCEPT ![p] = current]
    /\ put' = [put EXCEPT ![p] = "accepted"]
    /\ UNCHANGED putAt

Await(p) ==
    /\ put' = [put EXCEPT ![p] = "waiting"]
    /\ putAt' = [putAt EXCEPT ![p] = current]
    /\ UNCHANGED slot

Reject(p) ==
    /\ put' = [put EXCEPT ![p] = "thrown"]
    /\ UNCHANGED <<slot, putAt>>

\* From the test of the while loop to the next await.  A rejected _error wins
\* over anything that could be awaited.
Try(p) ==
    /\ \/ error = "raised" /\ Reject(p)
       \/ error = "none" /\ Done(current) /\ Await(p)
       \/ error = "none" /\ ~Done(current) /\ Resolve(p)
    /\ UNCHANGED <<current, consumed, error, readers>>

StartPut(p) == put[p] = "idle" /\ Try(p)

Woken(p) == put[p] = "waiting" /\ (putAt[p] \in consumed \/ error = "raised")

\* Faulty variant: an if where the code has a while.
WakePutOnce(p) ==
    /\ Woken(p)
    /\ IF error = "raised" THEN Reject(p) ELSE Resolve(p)
    /\ UNCHANGED <<current, consumed, error, readers>>

WakePut(p) == Woken(p) /\ Try(p)

-----------------------------------------------------------------------------
(* get and consume *)

\* _error comes first in the race with the current promise.
StartGet(r) ==
    /\ reader[r] = "idle"
    /\ reader' = [reader EXCEPT ![r] = IF error = "raised" THEN "thrown" ELSE "waiting"]
    /\ readAt' = [readAt EXCEPT ![r] = current]
    /\ UNCHANGED <<current, slot, consumed, error, puts>>

\* A value cannot follow an error, so if both are there the value won.
WakeGet(r) ==
    /\ reader[r] = "waiting"
    /\ \/ Done(readAt[r]) /\ reader' = [reader EXCEPT ![r] = "holding"]
       \/ ~Done(readAt[r]) /\ error = "raised" /\ reader' = [reader EXCEPT ![r] = "thrown"]
    /\ UNCHANGED <<current, slot, consumed, error, puts, readAt>>

Release(r) == reader' = [reader EXCEPT ![r] = "idle"]

\* Faulty variant: whoever holds a value may consume it.
ConsumeAgain(r) ==
    /\ reader[r] = "holding"
    /\ Release(r)
    /\ consumed' = consumed \union {readAt[r]}
    /\ current' = current + 1
    /\ UNCHANGED <<slot, error, puts, readAt>>

\* Faulty variant: the waiting producers are not told.
ConsumeSilently(r) ==
    /\ reader[r] = "holding"
    /\ Release(r)
    /\ current' = IF readAt[r] = current THEN current + 1 ELSE current
    /\ UNCHANGED <<consumed, slot, error, puts, readAt>>

\* The promise of the value is marked as consumed and _promise replaced,
\* whichever promise that is.
Consume(r) ==
    /\ reader[r] = "holding"
    /\ readAt[r] \notin consumed
    /\ Release(r)
    /\ consumed' = consumed \union {readAt[r]}
    /\ current' = current + 1
    /\ UNCHANGED <<slot, error, puts, readAt>>

\* "Value can only be consumed once!": another reader was faster.
ConsumeStale(r) ==
    /\ reader[r] = "holding"
    /\ readAt[r] \in consumed
    /\ Release(r)
    /\ UNCHANGED <<current, slot, consumed, error, puts, readAt>>

\* A getter that lost its race (_next) drops the value without consuming it.
Drop(r) ==
    /\ reader[r] = "holding"
    /\ Release(r)
    /\ UNCHANGED <<current, slot, consumed, error, puts, readAt>>

RaiseError ==
    /\ error = "none"
    /\ error' = "raised"
    /\ UNCHANGED <<current, slot, consumed, puts, readers>>

-----------------------------------------------------------------------------

PutStep(p) == StartPut(p) \/ WakePut(p)
GetStep(r) == StartGet(r) \/ WakeGet(r) \/ Consume(r) \/ ConsumeStale(r) \/ Drop(r)

QueueNext ==
    \/ \E p \in Put : PutStep(p)
    \/ \E r \in Reader : GetStep(r)
    \/ RaiseError

QueueSpec == QueueInit /\ [][QueueNext]_queueVars

\* Continuations run, and the readers keep reading: a value is consumed in the
\* long run even if some of the getters drop it.
QueueFairSpec ==
    /\ QueueSpec
    /\ \A p \in Put : WF_queueVars(WakePut(p))
    /\ \A r \in Reader :
        /\ WF_queueVars(StartGet(r)) /\ WF_queueVars(WakeGet(r))
        /\ SF_queueVars(Consume(r)) /\ WF_queueVars(ConsumeStale(r))

-----------------------------------------------------------------------------
(* Properties *)

\* A promise is replaced only after its own value was consumed: no put is lost
\* because a late consume replaces the promise of a newer value (get, consume).
OnlyTheCurrentIsOpen == consumed = 1..(current - 1)

\* No two puts resolve the same promise, for the second value would vanish
\* without an error, however many producers wake up at once (put).
NoValueOverwritten ==
    \A p, q \in Put : slot[p] = slot[q] /\ slot[p] # 0 => p = q

\* The puts in the order of their promises.
Accepted ==
    LET resolved == {p \in Put : slot[p] # 0}
        UpTo(p)  == {q \in resolved : slot[q] <= slot[p]}
    IN  [i \in 1..Cardinality(resolved) |-> CHOOSE p \in resolved : Cardinality(UpTo(p)) = i]

H == INSTANCE Handover WITH
        accepted <- Accepted,
        taken    <- Cardinality(consumed),
        closed   <- IF error = "raised" THEN "yes" ELSE "no"

\* The queue hands over one value at a time, in order, none twice (Queue).
HandsOver == H!Spec

\* A put never hangs while somebody reads (put, consume, error).
PutSettles == \A p \in Put : put[p] = "waiting" ~> put[p] # "waiting"
=============================================================================
