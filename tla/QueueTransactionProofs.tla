----------------------- MODULE QueueTransactionProofs -----------------------
(***************************************************************************)
(* Proofs about the way of a message to its task: the Queue that hands it  *)
(* over, and the transactions and backlogs that it may have to wait in.    *)
(*                                                                         *)
(* Queue, for any producers and readers.  That the current promise is the  *)
(* only one not consumed depends on a consume never being of an older      *)
(* promise: whoever holds a value that was not consumed holds the one of   *)
(* the current promise.  The promises are then filled one after the other, *)
(* which makes the queue an implementation of Handover.                    *)
(*                                                                         *)
(* Transaction, for any devices, changes and faults.  The server keeps,    *)
(* for a device, first the changes whose acknowledgement is under way,     *)
(* then the one that is being looked at, then exactly those that the two   *)
(* backlogs and the queue of the device hold, in the order of the log.     *)
(* That no answer ends up in a backlog depends on a running transaction    *)
(* having one request or one answer under way.                             *)
(***************************************************************************)
EXTENDS Transaction, Queue, FiniteSetTheorems, TLAPS

-----------------------------------------------------------------------------
(* Queue *)

\* A reader awaits a promise, and what it holds has been put.
HoldsPut ==
    \A r \in Reader :
        /\ reader[r] \in {"waiting", "holding"} => readAt[r] # 0
        /\ reader[r] = "holding" => Done(readAt[r])

\* A put that has not been accepted has resolved nothing.
Unresolved == \A p \in Put : put[p] # "accepted" => slot[p] = 0

\* No promise is replaced before a put has resolved it.
SlotsFill == \A n \in 1..(current - 1) : Done(n)

QueueInv ==
    /\ QueueTypeOK
    /\ OnlyTheCurrentIsOpen
    /\ NoValueOverwritten
    /\ HoldsPut
    /\ Unresolved
    /\ SlotsFill

LEMMA QueueInitInv == QueueInit => QueueInv
  BY DEF QueueInit, QueueInv, QueueTypeOK, OnlyTheCurrentIsOpen, NoValueOverwritten, HoldsPut,
         Unresolved, SlotsFill, Done

\* A put resolves the current promise, and only if it is not resolved yet.
LEMMA TryPreserves ==
  ASSUME QueueInv, NEW p \in Put, put[p] # "accepted", Try(p)
  PROVE  QueueInv'
<1> USE DEF QueueInv
<1>1. CASE error = "raised" /\ Reject(p)
  BY <1>1 DEF Try, Reject, puts, readers, QueueTypeOK, OnlyTheCurrentIsOpen, NoValueOverwritten,
              HoldsPut, Unresolved, SlotsFill, Done
<1>2. CASE error = "none" /\ Done(current) /\ Await(p)
  BY <1>2 DEF Try, Await, puts, readers, QueueTypeOK, OnlyTheCurrentIsOpen, NoValueOverwritten,
              HoldsPut, Unresolved, SlotsFill, Done
<1>3. CASE error = "none" /\ ~Done(current) /\ Resolve(p)
  <2> USE <1>3 DEF Try, Resolve, readers
  <2>1. QueueTypeOK'
    BY DEF QueueTypeOK
  <2>2. OnlyTheCurrentIsOpen'
    BY DEF OnlyTheCurrentIsOpen
  <2>3. NoValueOverwritten'
    BY DEF NoValueOverwritten, QueueTypeOK, Done
  <2>4. \A n \in Nat \ {0} : Done(n) => Done(n)'
    <3>1. slot[p] = 0
      BY DEF Unresolved
    <3>2. \A q \in Put : q # p => slot'[q] = slot[q]
      BY DEF QueueTypeOK
    <3> QED
      BY <3>1, <3>2 DEF Done
  <2>5. HoldsPut' /\ SlotsFill'
    BY <2>4 DEF HoldsPut, SlotsFill, QueueTypeOK
  <2>6. Unresolved'
    BY DEF Unresolved, QueueTypeOK
  <2> QED
    BY <2>1, <2>2, <2>3, <2>5, <2>6
<1> QED
  BY <1>1, <1>2, <1>3 DEF Try

\* A value that is not consumed belongs to the current promise, so consuming it
\* replaces no promise but its own.
LEMMA ConsumePreserves ==
  ASSUME QueueInv, NEW r \in Reader, Consume(r)
  PROVE  QueueInv'
<1> USE DEF QueueInv, Consume, Release
<1>1. readAt[r] = current
  BY DEF QueueTypeOK, OnlyTheCurrentIsOpen, HoldsPut
<1>2. consumed' = 1..current /\ current' = current + 1
  BY <1>1 DEF OnlyTheCurrentIsOpen, QueueTypeOK
<1>3. QueueTypeOK'
  BY <1>2 DEF QueueTypeOK, puts
<1>4. OnlyTheCurrentIsOpen'
  BY <1>2 DEF OnlyTheCurrentIsOpen, QueueTypeOK
<1>5. NoValueOverwritten'
  BY DEF NoValueOverwritten
<1>6. HoldsPut'
  BY DEF HoldsPut, Done, QueueTypeOK
<1>7. Unresolved'
  BY DEF Unresolved, puts
<1>8. SlotsFill'
  <2>1. Done(current)
    BY <1>1 DEF HoldsPut
  <2> QED
    BY <1>2, <2>1 DEF SlotsFill, Done, QueueTypeOK
<1> QED
  BY <1>3, <1>4, <1>5, <1>6, <1>7, <1>8

LEMMA GetPreserves ==
  ASSUME QueueInv, NEW r \in Reader, StartGet(r) \/ WakeGet(r) \/ ConsumeStale(r) \/ Drop(r)
  PROVE  QueueInv'
<1> USE DEF QueueInv
<1>1. QueueTypeOK'
  <2>1. CASE StartGet(r)
    BY <2>1 DEF StartGet, puts, QueueTypeOK
  <2>2. CASE WakeGet(r)
    BY <2>2 DEF WakeGet, puts, QueueTypeOK
  <2>3. CASE ConsumeStale(r) \/ Drop(r)
    BY <2>3 DEF ConsumeStale, Drop, Release, puts, QueueTypeOK
  <2> QED
    BY <2>1, <2>2, <2>3
<1>2. OnlyTheCurrentIsOpen'
  BY DEF StartGet, WakeGet, ConsumeStale, Drop, Release, OnlyTheCurrentIsOpen
<1>3. NoValueOverwritten'
  BY DEF StartGet, WakeGet, ConsumeStale, Drop, Release, NoValueOverwritten
<1>4. HoldsPut'
  <2>1. CASE StartGet(r)
    BY <2>1 DEF StartGet, HoldsPut, Done, QueueTypeOK
  <2>2. CASE WakeGet(r)
    BY <2>2 DEF WakeGet, HoldsPut, Done, QueueTypeOK
  <2>3. CASE ConsumeStale(r) \/ Drop(r)
    BY <2>3 DEF ConsumeStale, Drop, Release, HoldsPut, Done, QueueTypeOK
  <2> QED
    BY <2>1, <2>2, <2>3
<1>5. Unresolved' /\ SlotsFill'
  BY DEF StartGet, WakeGet, ConsumeStale, Drop, Release, puts, Unresolved, SlotsFill, Done
<1> QED
  BY <1>1, <1>2, <1>3, <1>4, <1>5

\* The inductive invariant holds in every behaviour.
THEOREM QueueInvariance == QueueSpec => []QueueInv
<1>1. QueueInv /\ [QueueNext]_queueVars => QueueInv'
  <2> SUFFICES ASSUME QueueInv, [QueueNext]_queueVars PROVE QueueInv'
    OBVIOUS
  <2>1. ASSUME NEW p \in Put, PutStep(p) PROVE QueueInv'
    BY <2>1, TryPreserves DEF PutStep, StartPut, WakePut, Woken
  <2>2. ASSUME NEW r \in Reader, GetStep(r) PROVE QueueInv'
    BY <2>2, ConsumePreserves, GetPreserves DEF GetStep
  <2>3. CASE RaiseError
    BY <2>3 DEF RaiseError, puts, readers, QueueInv, QueueTypeOK, OnlyTheCurrentIsOpen,
                NoValueOverwritten, HoldsPut, Unresolved, SlotsFill, Done
  <2>4. CASE UNCHANGED queueVars
    BY <2>4 DEF queueVars, puts, readers, QueueInv, QueueTypeOK, OnlyTheCurrentIsOpen,
                NoValueOverwritten, HoldsPut, Unresolved, SlotsFill, Done
  <2> QED
    BY <2>1, <2>2, <2>3, <2>4 DEF QueueNext
<1> QED
  BY QueueInitInv, <1>1, PTL DEF QueueSpec

\* Type correctness (Queue).
THEOREM QueueTypeCorrect == QueueSpec => []QueueTypeOK
<1>1. QueueInv => QueueTypeOK
  BY DEF QueueInv
<1> QED
  BY QueueInvariance, <1>1, PTL

\* No consume replaces the promise of another value (get, consume).
THEOREM ConsumesOnlyItsOwn == QueueSpec => []OnlyTheCurrentIsOpen
<1>1. QueueInv => OnlyTheCurrentIsOpen
  BY DEF QueueInv
<1> QED
  BY QueueInvariance, <1>1, PTL

\* No put overwrites the value of another (put).
THEOREM ValuesSurvive == QueueSpec => []NoValueOverwritten
<1>1. QueueInv => NoValueOverwritten
  BY DEF QueueInv
<1> QED
  BY QueueInvariance, <1>1, PTL

-----------------------------------------------------------------------------
(* The queue implements the handover of one value at a time *)

Resolved(s) == {p \in Put : s[p] # 0}
UpTo(s, p)  == {q \in Resolved(s) : s[q] <= s[p]}
InOrder(s)  == [i \in 1..Cardinality(Resolved(s)) |->
                  CHOOSE p \in Resolved(s) : Cardinality(UpTo(s, p)) = i]

\* The puts that have resolved the first n promises, each put one of them.
Fills(s, n) ==
    /\ \A p \in Resolved(s) : s[p] \in 1..n
    /\ \A i \in 1..n : \E p \in Resolved(s) : s[p] = i
    /\ \A p, q \in Resolved(s) : s[p] = s[q] => p = q

\* Puts are counted by the promises that they have resolved.
LEMMA Counting ==
  ASSUME NEW S, NEW s, NEW n \in Nat,
         \A p \in S : s[p] \in 1..n, \A i \in 1..n : \E p \in S : s[p] = i,
         \A p, q \in S : s[p] = s[q] => p = q
  PROVE  Cardinality(S) = n
<1> DEFINE f == [p \in S |-> s[p]]
<1>1. /\ f \in [S -> 1..n] /\ \A p, q \in S : f[p] = f[q] => p = q
      /\ \A i \in 1..n : \E p \in S : f[p] = i
  OBVIOUS
<1> HIDE DEF f
<1>2. f \in Bijection(S, 1..n)
  BY <1>1 DEF Bijection, Injection, IsInjective, Surjection
<1>3. f \in Injection(S, 1..n) /\ f \in Surjection(S, 1..n)
  BY <1>2 DEF Bijection
<1>4. IsFiniteSet(1..n) /\ Cardinality(1..n) = n
  BY FS_Interval
<1>5. IsFiniteSet(S)
  BY <1>3, <1>4, FS_Injection
<1> QED
  BY <1>2, <1>4, <1>5, FS_Bijection DEF ExistsBijection

\* The order of acceptance is that of the promises.
LEMMA OrderOfPromises ==
  ASSUME NEW s \in [Put -> Nat], NEW n \in Nat, Fills(s, n)
  PROVE  /\ Cardinality(Resolved(s)) = n
         /\ InOrder(s) \in [1..n -> Put]
         /\ \A i \in 1..n, p \in Put : s[p] = i <=> InOrder(s)[i] = p
<1>1. Cardinality(Resolved(s)) = n
  BY Counting DEF Fills
<1>2. \A p \in Resolved(s) : Cardinality(UpTo(s, p)) = s[p]
  <2> SUFFICES ASSUME NEW p \in Resolved(s) PROVE Cardinality(UpTo(s, p)) = s[p]
    OBVIOUS
  <2>1. s[p] \in 1..n
    BY DEF Fills
  <2>2. \A q \in UpTo(s, p) : s[q] \in 1..s[p]
    BY <2>1 DEF UpTo, Fills
  <2>3. \A i \in 1..s[p] : \E q \in UpTo(s, p) : s[q] = i
    BY <2>1 DEF UpTo, Fills
  <2>4. \A q, r \in UpTo(s, p) : s[q] = s[r] => q = r
    BY DEF UpTo, Fills
  <2> QED
    BY <2>1, <2>2, <2>3, <2>4, Counting
<1>3. ASSUME NEW i \in 1..n
      PROVE  InOrder(s)[i] \in Put /\ \A p \in Put : s[p] = i <=> InOrder(s)[i] = p
  <2>1. PICK q \in Resolved(s) : s[q] = i
    BY DEF Fills
  <2>2. \A p \in Resolved(s) : Cardinality(UpTo(s, p)) = i <=> p = q
    BY <1>2, <2>1 DEF Fills
  <2>3. (CHOOSE p \in Resolved(s) : Cardinality(UpTo(s, p)) = i) = q
    BY <2>2
  <2>4. InOrder(s)[i] = q
    BY <1>1, <2>3 DEF InOrder
  <2>5. \A p \in Put : s[p] = i => p \in Resolved(s)
    BY DEF Resolved
  <2> QED
    BY <2>1, <2>4, <2>5 DEF Fills, Resolved
<1>4. InOrder(s) \in [1..n -> Put]
  BY <1>1, <1>3 DEF InOrder
<1> QED
  BY <1>1, <1>3, <1>4

LEMMA AppendIs ==
  ASSUME NEW S, NEW n \in Nat, NEW s \in [1..n -> S], NEW t \in [1..(n + 1) -> S], NEW m \in S,
         t[n + 1] = m, \A i \in 1..n : t[i] = s[i]
  PROVE  t = Append(s, m)
<1>1. s \in Seq(S) /\ Len(s) = n /\ t \in Seq(S) /\ Len(t) = n + 1
  OBVIOUS
<1>2. Append(s, m) \in Seq(S) /\ Len(Append(s, m)) = n + 1 /\ Append(s, m)[n + 1] = m
  BY <1>1
<1>3. \A i \in 1..n : Append(s, m)[i] = s[i]
  BY <1>1
<1>4. \A i \in 1..(n + 1) : Append(s, m)[i] = t[i]
  <2>1. \A i \in 1..(n + 1) : i \in 1..n \/ i = n + 1
    OBVIOUS
  <2> QED
    BY <1>2, <1>3, <2>1
<1> QED
  BY <1>1, <1>2, <1>4

\* As long as the current promise is not resolved, the others are.
LEMMA SlotsFilled ==
  ASSUME QueueInv
  PROVE  /\ ~Done(current) => Fills(slot, current - 1)
         /\ Done(current) => Fills(slot, current)
<1>1. slot \in [Put -> 0..current] /\ current \in Nat \ {0}
  BY DEF QueueInv, QueueTypeOK
<1>2. \A p, q \in Resolved(slot) : slot[p] = slot[q] => p = q
  BY DEF QueueInv, NoValueOverwritten, Resolved
<1>3. \A i \in Nat \ {0} : Done(i) <=> \E p \in Resolved(slot) : slot[p] = i
  BY DEF Done, Resolved
<1>4. \A p \in Resolved(slot) : slot[p] \in 1..current
  BY <1>1 DEF Resolved
<1>5. ASSUME ~Done(current) PROVE Fills(slot, current - 1)
  <2>1. \A p \in Resolved(slot) : slot[p] # current
    BY <1>1, <1>3, <1>5
  <2> QED
    BY <1>1, <1>2, <1>3, <1>4, <2>1 DEF Fills, QueueInv, SlotsFill
<1>6. ASSUME Done(current) PROVE Fills(slot, current)
  <2>1. \A i \in 1..current : Done(i)
    BY <1>1, <1>6 DEF QueueInv, SlotsFill
  <2> QED
    BY <1>1, <1>2, <1>3, <1>4, <2>1 DEF Fills
<1> QED
  BY <1>5, <1>6

LEMMA TakenIs == ASSUME QueueInv PROVE Cardinality(consumed) = current - 1
  BY FS_Interval DEF QueueInv, QueueTypeOK, OnlyTheCurrentIsOpen

LEMMA InitHandsOver == QueueInit => H!Init
<1> SUFFICES ASSUME QueueInit PROVE H!Init
  OBVIOUS
<1>1. {p \in Put : slot[p] # 0} = {} /\ Cardinality({}) = 0
  BY FS_EmptySet DEF QueueInit
<1>2. Accepted = <<>>
  <2>1. slot \in [Put -> Nat] /\ Fills(slot, 0)
    BY <1>1 DEF QueueInit, Fills, Resolved
  <2>2. Accepted \in [1..0 -> Put]
    BY <2>1, OrderOfPromises DEF Accepted, InOrder, Resolved, UpTo
  <2> QED
    BY <2>2
<1> QED
  BY <1>1, <1>2 DEF QueueInit, H!Init

\* A put that resolves its promise is accepted as the last.
LEMMA ResolveAccepts ==
  ASSUME QueueInv, QueueInv', NEW p \in Put, put[p] # "accepted", error = "none", ~Done(current),
         Resolve(p), UNCHANGED <<current, consumed, error, readers>>
  PROVE  H!Accept(p)
<1> DEFINE n == current - 1
<1>1. slot \in [Put -> Nat] /\ slot' \in [Put -> Nat] /\ n \in Nat /\ current = n + 1
  BY DEF QueueInv, QueueTypeOK
<1>2. slot[p] = 0 /\ slot' = [slot EXCEPT ![p] = current]
  BY DEF QueueInv, Unresolved, Resolve
<1>3. Fills(slot, n)
  BY SlotsFilled
<1>4. Fills(slot', n + 1)
  <2>1. Resolved(slot') = Resolved(slot) \union {p} /\ p \notin Resolved(slot)
    BY <1>1, <1>2 DEF Resolved
  <2>2. slot'[p] = n + 1 /\ \A q \in Resolved(slot) : slot'[q] = slot[q]
    BY <1>1, <1>2, <2>1 DEF Resolved
  <2> HIDE DEF n
  <2> QED
    BY <1>1, <1>3, <2>1, <2>2 DEF Fills
<1> HIDE DEF n
<1>5. Accepted = InOrder(slot) /\ Accepted' = InOrder(slot')
  BY DEF Accepted, InOrder, Resolved, UpTo
<1>6. /\ Accepted \in [1..n -> Put] /\ \A i \in 1..n, q \in Put : slot[q] = i <=> Accepted[i] = q
  BY <1>1, <1>3, <1>5, OrderOfPromises
<1>7. /\ Accepted' \in [1..(n + 1) -> Put]
      /\ \A i \in 1..(n + 1), q \in Put : slot'[q] = i <=> Accepted'[i] = q
  BY <1>1, <1>4, <1>5, OrderOfPromises
<1>8. Accepted \in Seq(Put) /\ Len(Accepted) = n
  BY <1>1, <1>6
<1>9. Accepted' = Append(Accepted, p)
  <2>1. Accepted'[n + 1] = p
    BY <1>1, <1>2, <1>7
  <2>2. \A i \in 1..n : Accepted'[i] = Accepted[i]
    <3> SUFFICES ASSUME NEW i \in 1..n PROVE Accepted'[i] = Accepted[i]
      OBVIOUS
    <3>1. Accepted[i] \in Put /\ slot[Accepted[i]] = i
      BY <1>6
    <3>2. slot'[Accepted[i]] = i
      BY <1>1, <1>2, <3>1
    <3> QED
      BY <1>1, <1>7, <3>1, <3>2
  <2> QED
    BY <1>1, <1>6, <1>7, <2>1, <2>2, AppendIs
<1>10. Cardinality(consumed) = n
  BY TakenIs DEF n
<1>11. \A i \in 1..Len(Accepted) : Accepted[i] # p
  BY <1>1, <1>2, <1>6, <1>8
<1> QED
  BY <1>8, <1>9, <1>10, <1>11 DEF H!Accept

\* A consume takes the one value that is there.
LEMMA ConsumeTakes ==
  ASSUME QueueInv, QueueInv', NEW r \in Reader, Consume(r)
  PROVE  H!Take
<1>1. /\ current' = current + 1 /\ slot' = slot /\ error' = error /\ readAt[r] = current
      /\ current \in Nat \ {0} /\ slot \in [Put -> Nat]
  BY DEF Consume, QueueInv, QueueTypeOK, OnlyTheCurrentIsOpen, HoldsPut
<1>2. Cardinality(consumed) = current - 1 /\ Cardinality(consumed') = current
  <2>1. consumed' = 1..current /\ consumed = 1..(current - 1)
    BY <1>1 DEF QueueInv, OnlyTheCurrentIsOpen, QueueTypeOK
  <2> QED
    BY <1>1, <2>1, FS_Interval
<1>3. Done(current)
  BY <1>1 DEF Consume, QueueInv, HoldsPut
<1>4. Fills(slot, current)
  BY <1>3, SlotsFilled
<1>5. Accepted = InOrder(slot) /\ Accepted' = Accepted
  BY <1>1 DEF Accepted, InOrder, Resolved, UpTo
<1>6. Accepted \in [1..current -> Put]
  BY <1>1, <1>4, <1>5, OrderOfPromises
<1>7. Len(Accepted) = current
  BY <1>1, <1>6
<1> QED
  BY <1>1, <1>2, <1>5, <1>7 DEF H!Take

\* HandsOver: whatever producers and readers do, the queue hands over one value
\* at a time, each once and in the order of its acceptance.
THEOREM QueueImplementsHandover == QueueSpec => HandsOver
<1> DEFINE handed == <<Accepted, Cardinality(consumed), IF error = "raised" THEN "yes" ELSE "no">>
<1>1. QueueInv /\ QueueInv' /\ [QueueNext]_queueVars => [H!Next]_handed
  <2> SUFFICES ASSUME QueueInv, QueueInv', [QueueNext]_queueVars PROVE H!Next \/ UNCHANGED handed
    OBVIOUS
  <2>1. ASSUME UNCHANGED <<slot, consumed, error>> PROVE UNCHANGED handed
    BY <2>1 DEF Accepted
  <2>2. ASSUME NEW p \in Put, put[p] # "accepted", Try(p) PROVE H!Next \/ UNCHANGED handed
    <3>1. CASE error = "raised" /\ Reject(p)
      BY <2>1, <2>2, <3>1 DEF Try, Reject
    <3>2. CASE error = "none" /\ Done(current) /\ Await(p)
      BY <2>1, <2>2, <3>2 DEF Try, Await
    <3>3. CASE error = "none" /\ ~Done(current) /\ Resolve(p)
      BY <2>2, <3>3, ResolveAccepts DEF Try, H!Next
    <3> QED
      BY <2>2, <3>1, <3>2, <3>3 DEF Try
  <2>3. ASSUME NEW p \in Put, PutStep(p) PROVE H!Next \/ UNCHANGED handed
    BY <2>2, <2>3 DEF PutStep, StartPut, WakePut, Woken
  <2>4. ASSUME NEW r \in Reader, GetStep(r) PROVE H!Next \/ UNCHANGED handed
    <3>1. CASE Consume(r)
      BY <3>1, ConsumeTakes DEF H!Next
    <3>2. CASE ~Consume(r)
      BY <2>1, <2>4, <3>2 DEF GetStep, StartGet, WakeGet, ConsumeStale, Drop
    <3> QED
      BY <3>1, <3>2
  <2>5. CASE RaiseError
    BY <2>5 DEF RaiseError, Accepted, H!Next, H!Close
  <2>6. CASE UNCHANGED queueVars
    BY <2>1, <2>6 DEF queueVars
  <2> QED
    BY <2>3, <2>4, <2>5, <2>6 DEF QueueNext
<1> QED
  BY <1>1, InitHandsOver, QueueInvariance, PTL DEF QueueSpec, HandsOver, H!Spec

-----------------------------------------------------------------------------
(* Transaction: the invariant *)

\* The changes among some messages.
ChangesIn(s) == {s[i].change : i \in {j \in DOMAIN s : s[j].type = "reflected"}}

\* Their order.
Ordered(s) ==
    \A i, j \in DOMAIN s :
        i < j /\ s[i].type = "reflected" /\ s[j].type = "reflected" => s[i].change < s[j].change

\* How many acknowledgements are among some requests.
AckPositions(s) == {i \in DOMAIN s : s[i] = "ack"}
Acks(s) == Cardinality(AckPositions(s))

\* The changes that the loop is done with, and one it may be looking at.
Acked(d) == Acks(toServer[d])
Handled(d) == Acked(d) + (IF running[d] = 0 THEN 0 ELSE 1)

\* The server keeps changes of others, in the order of its log.
UnackedFits(d) ==
    /\ \A i \in DOMAIN unacked[d] :
        unacked[d][i] \in DOMAIN log /\ log[unacked[d][i]] # d
    /\ \A i, j \in DOMAIN unacked[d] : i < j => unacked[d][i] < unacked[d][j]

\* It keeps first what was processed and is acknowledged right now, then what is
\* being looked at, then what the loop has not looked at.
HandledFits(d) ==
    /\ Handled(d) <= Len(unacked[d])
    /\ \A i \in 1..Acked(d) : unacked[d][i] \in Processed(d)
    /\ running[d] # 0 => unacked[d][Acked(d) + 1] = running[d]

Waiting(d) == ChangesIn(backlog[d]) \union ChangesIn(taskBacklog[d]) \union ChangesIn(toDevice[d])

WaitingFits(d) == Waiting(d) = {unacked[d][i] : i \in Handled(d) + 1 .. Len(unacked[d])}

Before(S, T) == \A m \in S, n \in T : m < n

\* The two backlogs and the queue hold them in order, one after the other.
WaitingInOrder(d) ==
    /\ Ordered(backlog[d]) /\ Ordered(taskBacklog[d]) /\ Ordered(toDevice[d])
    /\ Before(ChangesIn(backlog[d]), ChangesIn(taskBacklog[d]))
    /\ Before(ChangesIn(backlog[d]), ChangesIn(toDevice[d]))
    /\ Before(ChangesIn(taskBacklog[d]), ChangesIn(toDevice[d]))

Missed(d) ==
    \A n \in 1..Len(log) : log[n] # d => n \in Processed(d) \/ n \in Kept(d)

\* No change of another device is processed before an older one.
ProcessedPrefix(d) ==
    /\ nonces[d] \subseteq Processed(d) /\ Processed(d) \subseteq DOMAIN log
    /\ \A m, n \in 1..Len(log) :
        m < n /\ log[m] # d /\ log[n] # d /\ n \in Processed(d) => m \in Processed(d)

\* What a task asks for, and whether it is under way.
Asks(p) ==
    CASE p = "begun" -> "begin" [] p = "executing" -> "reflect" [] p = "committing" -> "commit"
      [] OTHER -> "nothing"
Asking(d) == {i \in DOMAIN toServer[d] : toServer[d][i] # "ack"}
Answering(d) == {i \in DOMAIN toDevice[d] : toDevice[d][i].type \notin {"reflected", "ended"}}

\* A running transaction has one request or one answer under way, and no
\* answer is in a backlog.
OneRequest(d) ==
    /\ \A i \in Asking(d) : toServer[d][i] = Asks(pc[d])
    /\ \A i \in Answering(d) :
        /\ pc[d] \in {"begun", "executing", "committing"}
        /\ toDevice[d][i].type \in Expected[pc[d]]
        /\ pc[d] = "executing" => /\ toDevice[d][i].change \in DOMAIN log
                                  /\ log[toDevice[d][i].change] = d
    /\ \A i, j \in Asking(d) : i = j
    /\ \A i, j \in Answering(d) : i = j
    /\ Asking(d) = {} \/ Answering(d) = {}

Unasked(s) == \A i \in DOMAIN s : s[i].type \in {"reflected", "ended"}

BacklogFits(d) ==
    /\ pc[d] # "begun" => taskBacklog[d] = <<>>
    /\ Unasked(backlog[d]) /\ Unasked(taskBacklog[d])
    /\ own[d] # 0 => pc[d] = "committing" /\ own[d] \in DOMAIN log /\ log[own[d]] = d

LogFits(d) ==
    /\ UnackedFits(d) /\ HandledFits(d) /\ WaitingFits(d) /\ WaitingInOrder(d)
    /\ Missed(d) /\ ProcessedPrefix(d)

TaskFits(d) == OneRequest(d) /\ BacklogFits(d)

TransactionInv == TypeOK /\ \A d \in Device : LogFits(d) /\ TaskFits(d)

-----------------------------------------------------------------------------
(* Messages and requests in sequences *)

LEMMA ChangesAppend ==
  ASSUME NEW s \in Seq(Message), NEW m \in Message
  PROVE  /\ m.type = "reflected" => ChangesIn(Append(s, m)) = ChangesIn(s) \union {m.change}
         /\ m.type # "reflected" => ChangesIn(Append(s, m)) = ChangesIn(s)
<1> DEFINE t == Append(s, m)
<1>1. DOMAIN t = 1..Len(s) + 1 /\ DOMAIN s = 1..Len(s) /\ t[Len(s) + 1] = m
  OBVIOUS
<1>2. \A i \in DOMAIN s : t[i] = s[i]
  OBVIOUS
<1> HIDE DEF t
<1>3. CASE m.type = "reflected"
  <2>1. {i \in DOMAIN t : t[i].type = "reflected"}
          = {i \in DOMAIN s : s[i].type = "reflected"} \union {Len(s) + 1}
    BY <1>1, <1>2, <1>3
  <2>2. ChangesIn(t) = ChangesIn(s) \union {m.change}
    BY <2>1, <1>1, <1>2 DEF ChangesIn
  <2> QED
    BY <1>3, <2>2 DEF t
<1>4. CASE m.type # "reflected"
  <2>1. {i \in DOMAIN t : t[i].type = "reflected"} = {i \in DOMAIN s : s[i].type = "reflected"}
    BY <1>1, <1>2, <1>4
  <2>2. ChangesIn(t) = ChangesIn(s)
    BY <2>1, <1>1, <1>2 DEF ChangesIn
  <2> QED
    BY <1>4, <2>2 DEF t
<1> QED
  BY <1>3, <1>4

LEMMA ChangesTail ==
  ASSUME NEW s \in Seq(Message), s # <<>>
  PROVE  /\ Head(s).type = "reflected" =>
             ChangesIn(s) = {Head(s).change} \union ChangesIn(Tail(s))
         /\ Head(s).type # "reflected" => ChangesIn(s) = ChangesIn(Tail(s))
<1>1. /\ DOMAIN s = 1..Len(s) /\ Len(s) \in Nat /\ Len(s) >= 1 /\ Head(s) = s[1]
      /\ DOMAIN Tail(s) = 1..Len(s) - 1 /\ \A i \in 1..Len(s) - 1 : Tail(s)[i] = s[i + 1]
  OBVIOUS
<1>2. ASSUME NEW n PROVE n \in ChangesIn(Tail(s)) <=>
            \E i \in 2..Len(s) : s[i].type = "reflected" /\ s[i].change = n
  <2>1. ASSUME n \in ChangesIn(Tail(s))
        PROVE  \E i \in 2..Len(s) : s[i].type = "reflected" /\ s[i].change = n
    <3>1. PICK j \in 1..Len(s) - 1 : Tail(s)[j].type = "reflected" /\ Tail(s)[j].change = n
      BY <2>1, <1>1 DEF ChangesIn
    <3>2. j + 1 \in 2..Len(s) /\ s[j + 1] = Tail(s)[j]
      BY <1>1
    <3> QED
      BY <3>1, <3>2
  <2>2. ASSUME NEW i \in 2..Len(s), s[i].type = "reflected", s[i].change = n
        PROVE  n \in ChangesIn(Tail(s))
    <3>1. i - 1 \in DOMAIN Tail(s) /\ Tail(s)[i - 1] = s[i]
      BY <1>1
    <3> QED
      BY <3>1, <2>2 DEF ChangesIn
  <2> QED
    BY <2>1, <2>2
<1>3. ASSUME NEW n PROVE n \in ChangesIn(s) <=>
            \E i \in 1..Len(s) : s[i].type = "reflected" /\ s[i].change = n
  BY <1>1 DEF ChangesIn
<1>4. \A n : n \in ChangesIn(s) <=> \/ s[1].type = "reflected" /\ n = s[1].change
                                    \/ n \in ChangesIn(Tail(s))
  <2>1. \A i : i \in 1..Len(s) <=> i = 1 \/ i \in 2..Len(s)
    BY <1>1
  <2> QED
    BY <1>2, <1>3, <2>1
<1> QED
  BY <1>1, <1>4

LEMMA NoChanges == ChangesIn(<<>>) = {} /\ Ordered(<<>>) /\ Unasked(<<>>)
  BY DEF ChangesIn, Ordered, Unasked

LEMMA OrderedAppend ==
  ASSUME NEW s \in Seq(Message), NEW m \in Message, Ordered(s),
         m.type = "reflected" => \A n \in ChangesIn(s) : n < m.change
  PROVE  Ordered(Append(s, m))
<1> DEFINE t == Append(s, m)
<1>1. DOMAIN t = 1..Len(s) + 1 /\ DOMAIN s = 1..Len(s) /\ t[Len(s) + 1] = m /\ Len(s) \in Nat
  OBVIOUS
<1>2. \A i \in DOMAIN s : t[i] = s[i]
  OBVIOUS
<1> HIDE DEF t
<1>3. SUFFICES ASSUME NEW i \in DOMAIN t, NEW j \in DOMAIN t, i < j,
                      t[i].type = "reflected", t[j].type = "reflected"
               PROVE  t[i].change < t[j].change
  BY DEF Ordered, t
<1>4. i \in DOMAIN s
  BY <1>1, <1>3
<1>5. CASE j \in DOMAIN s
  BY <1>2, <1>3, <1>4, <1>5 DEF Ordered
<1>6. CASE j = Len(s) + 1
  <2>1. t[i].change \in ChangesIn(s)
    BY <1>2, <1>3, <1>4 DEF ChangesIn
  <2> QED
    BY <2>1, <1>1, <1>3, <1>6
<1> QED
  BY <1>1, <1>5, <1>6

LEMMA OrderedTail ==
  ASSUME NEW s \in Seq(Message), s # <<>>, Ordered(s)
  PROVE  /\ Ordered(Tail(s))
         /\ Head(s).type = "reflected" => \A n \in ChangesIn(Tail(s)) : Head(s).change < n
<1>1. /\ DOMAIN s = 1..Len(s) /\ Len(s) \in Nat /\ Len(s) >= 1 /\ Head(s) = s[1]
      /\ DOMAIN Tail(s) = 1..Len(s) - 1 /\ \A i \in 1..Len(s) - 1 : Tail(s)[i] = s[i + 1]
  OBVIOUS
<1>2. Ordered(Tail(s))
  BY <1>1 DEF Ordered
<1>3. ASSUME Head(s).type = "reflected", NEW n \in ChangesIn(Tail(s)) PROVE Head(s).change < n
  <2>1. PICK j \in 1..Len(s) - 1 : Tail(s)[j].type = "reflected" /\ Tail(s)[j].change = n
    BY <1>1, <1>3 DEF ChangesIn
  <2>2. j + 1 \in DOMAIN s /\ 1 \in DOMAIN s /\ 1 < j + 1 /\ s[j + 1] = Tail(s)[j]
    BY <1>1
  <2> QED
    BY <2>1, <2>2, <1>1, <1>3 DEF Ordered
<1> QED
  BY <1>2, <1>3

LEMMA NoAcks == Acks(<<>>) = 0
<1>1. AckPositions(<<>>) = {}
  BY DEF AckPositions
<1> QED
  BY <1>1, FS_EmptySet DEF Acks

LEMMA AcksFinite ==
  ASSUME NEW s \in Seq(Request)
  PROVE  IsFiniteSet(AckPositions(s)) /\ Acks(s) \in Nat
<1>1. AckPositions(s) \subseteq 1..Len(s) /\ Len(s) \in Nat
  BY DEF AckPositions
<1>2. IsFiniteSet(1..Len(s))
  BY <1>1, FS_Interval
<1> QED
  BY <1>1, <1>2, FS_Subset, FS_CardinalityType DEF Acks

LEMMA AcksAppend ==
  ASSUME NEW s \in Seq(Request), NEW r \in Request
  PROVE  Acks(Append(s, r)) = IF r = "ack" THEN Acks(s) + 1 ELSE Acks(s)
<1>1. Len(s) \in Nat /\ DOMAIN s = 1..Len(s) /\ DOMAIN Append(s, r) = 1..Len(s) + 1
  OBVIOUS
<1>2. \A i \in 1..Len(s) : Append(s, r)[i] = s[i]
  OBVIOUS
<1>3. Append(s, r)[Len(s) + 1] = r
  OBVIOUS
<1>4. AckPositions(Append(s, r)) =
        IF r = "ack" THEN AckPositions(s) \union {Len(s) + 1} ELSE AckPositions(s)
  BY <1>1, <1>2, <1>3 DEF AckPositions
<1>5. Len(s) + 1 \notin AckPositions(s)
  BY <1>1 DEF AckPositions
<1> QED
  BY <1>4, <1>5, AcksFinite, FS_AddElement DEF Acks

LEMMA AcksTail ==
  ASSUME NEW s \in Seq(Request), s # <<>>
  PROVE  Acks(s) = IF Head(s) = "ack" THEN Acks(Tail(s)) + 1 ELSE Acks(Tail(s))
<1>1. /\ DOMAIN s = 1..Len(s) /\ Len(s) \in Nat /\ Len(s) >= 1 /\ Head(s) = s[1]
      /\ DOMAIN Tail(s) = 1..Len(s) - 1 /\ \A i \in 1..Len(s) - 1 : Tail(s)[i] = s[i + 1]
      /\ Tail(s) \in Seq(Request)
  OBVIOUS
<1> DEFINE A == AckPositions(Tail(s))
           B == {i \in 2..Len(s) : s[i] = "ack"}
           f == [i \in A |-> i + 1]
<1>2. A = {i \in 1..Len(s) - 1 : s[i + 1] = "ack"}
  BY <1>1 DEF AckPositions
<1>3. f \in Bijection(A, B)
  <2>1. f \in [A -> B]
    BY <1>1, <1>2
  <2>2. \A i, j \in A : f[i] = f[j] => i = j
    BY <1>2
  <2>3. \A i \in B : i - 1 \in A /\ f[i - 1] = i
    BY <1>1, <1>2
  <2> HIDE DEF f, A, B
  <2>4. f \in Injection(A, B)
    BY <2>1, <2>2 DEF Injection, IsInjective
  <2>5. f \in Surjection(A, B)
    BY <2>1, <2>3 DEF Surjection
  <2> QED
    BY <2>4, <2>5 DEF Bijection
<1>4. IsFiniteSet(A) /\ IsFiniteSet(B) /\ Cardinality(B) = Cardinality(A)
  <2>1. IsFiniteSet(A)
    BY <1>1, AcksFinite
  <2> QED
    BY <1>3, <2>1, FS_Bijection DEF ExistsBijection
<1>5. AckPositions(s) = IF Head(s) = "ack" THEN B \union {1} ELSE B
  BY <1>1 DEF AckPositions
<1>6. 1 \notin B
  OBVIOUS
<1> QED
  BY <1>4, <1>5, <1>6, FS_AddElement DEF Acks

-----------------------------------------------------------------------------
(* One queue of many *)

LEMMA TailAt ==
  ASSUME NEW S, NEW f \in [Device -> Seq(S)], NEW d \in Device, f[d] # <<>>,
         NEW g, g = [f EXCEPT ![d] = Tail(@)]
  PROVE  /\ g \in [Device -> Seq(S)] /\ g[d] = Tail(f[d])
         /\ \A e \in Device : e # d => g[e] = f[e]
<1>1. Tail(f[d]) \in Seq(S)
  OBVIOUS
<1> QED
  BY <1>1

LEMMA AppendAt ==
  ASSUME NEW S, NEW f \in [Device -> Seq(S)], NEW d \in Device, NEW m \in S,
         NEW g, g = [f EXCEPT ![d] = Append(@, m)]
  PROVE  /\ g \in [Device -> Seq(S)] /\ g[d] = Append(f[d], m)
         /\ \A e \in Device : e # d => g[e] = f[e]
<1>1. Append(f[d], m) \in Seq(S)
  OBVIOUS
<1> QED
  BY <1>1

LEMMA SameAt ==
  ASSUME NEW S, NEW f \in [Device -> S], NEW d \in Device
  PROVE  f = [f EXCEPT ![d] = f[d]]
OBVIOUS

-----------------------------------------------------------------------------
(* What a step leaves alone *)

\* The part of the invariant about the log looks at the changes only.
LEMMA LogKept ==
  ASSUME NEW d \in Device, LogFits(d), log' = log, unacked'[d] = unacked[d],
         Acked(d)' = Acked(d), running'[d] = running[d], applied'[d] = applied[d],
         discarded'[d] = discarded[d], nonces'[d] = nonces[d],
         Waiting(d)' = Waiting(d), WaitingInOrder(d)'
  PROVE  LogFits(d)'
<1>1. Processed(d)' = Processed(d)
  BY DEF Processed
<1> QED
  BY <1>1 DEF LogFits, UnackedFits, HandledFits, WaitingFits, Handled, Missed, Kept, ProcessedPrefix

\* Answers come and go without a change.
LEMMA QueueKept ==
  ASSUME TypeOK, NEW d \in Device, WaitingInOrder(d),
         backlog'[d] = backlog[d], taskBacklog'[d] = taskBacklog[d],
         \/ toDevice'[d] = toDevice[d]
         \/ \E m \in Message : m.type # "reflected" /\ toDevice'[d] = Append(toDevice[d], m)
         \/ /\ toDevice[d] # <<>> /\ Head(toDevice[d]).type # "reflected"
            /\ toDevice'[d] = Tail(toDevice[d])
  PROVE  Waiting(d)' = Waiting(d) /\ WaitingInOrder(d)'
<1>1. toDevice[d] \in Seq(Message)
  BY DEF TypeOK
<1>2. ChangesIn(toDevice'[d]) = ChangesIn(toDevice[d]) /\ Ordered(toDevice'[d])
  <2>1. Ordered(toDevice[d])
    BY DEF WaitingInOrder
  <2>2. CASE toDevice'[d] = toDevice[d]
    BY <2>1, <2>2
  <2>3. ASSUME NEW m \in Message, m.type # "reflected", toDevice'[d] = Append(toDevice[d], m)
        PROVE  ChangesIn(toDevice'[d]) = ChangesIn(toDevice[d]) /\ Ordered(toDevice'[d])
    BY <1>1, <2>1, <2>3, ChangesAppend, OrderedAppend
  <2>4. CASE /\ toDevice[d] # <<>> /\ Head(toDevice[d]).type # "reflected"
             /\ toDevice'[d] = Tail(toDevice[d])
    BY <1>1, <2>1, <2>4, ChangesTail, OrderedTail
  <2> QED
    BY <2>2, <2>3, <2>4
<1> QED
  BY <1>2 DEF Waiting, WaitingInOrder

\* The transaction of a device does not look at what is reflected, nor at the
\* end of that of another.
LEMMA TaskKept ==
  ASSUME TypeOK, NEW d \in Device, TaskFits(d),
         log' = log \/ \E e \in Device : log' = Append(log, e),
         pc'[d] = pc[d], own'[d] = own[d], toServer'[d] = toServer[d],
         backlog'[d] = backlog[d], taskBacklog'[d] = taskBacklog[d],
         \/ toDevice'[d] = toDevice[d]
         \/ \E m \in Message : /\ m.type \in {"reflected", "ended"}
                               /\ toDevice'[d] = Append(toDevice[d], m)
  PROVE  TaskFits(d)'
<1>1. /\ toDevice[d] \in Seq(Message) /\ log \in Seq(Device) 
  BY DEF TypeOK
<1>2. /\ DOMAIN log \subseteq DOMAIN log' /\ \A k \in DOMAIN log : log'[k] = log[k]
      /\ DOMAIN log = 1..Len(log)
  <2>1. CASE log' = log
    BY <1>1, <2>1
  <2>2. ASSUME NEW e \in Device, log' = Append(log, e)
        PROVE  DOMAIN log \subseteq DOMAIN log' /\ \A k \in DOMAIN log : log'[k] = log[k]
    BY <1>1, <2>2
  <2> QED
    BY <1>1, <2>1, <2>2
<1>3. BacklogFits(d)'
  BY <1>1, <1>2 DEF TaskFits, BacklogFits
<1>4. /\ Answering(d)' = Answering(d)
      /\ \A i \in Answering(d) : toDevice'[d][i] = toDevice[d][i]
  <2>1. CASE toDevice'[d] = toDevice[d]
    BY <2>1 DEF Answering
  <2>2. ASSUME NEW m \in Message, m.type \in {"reflected", "ended"},
               toDevice'[d] = Append(toDevice[d], m)
        PROVE  /\ Answering(d)' = Answering(d)
               /\ \A i \in Answering(d) : toDevice'[d][i] = toDevice[d][i]
    <3>1. /\ DOMAIN toDevice'[d] = 1..Len(toDevice[d]) + 1
          /\ DOMAIN toDevice[d] = 1..Len(toDevice[d]) /\ Len(toDevice[d]) \in Nat
          /\ toDevice'[d][Len(toDevice[d]) + 1] = m
      BY <1>1, <2>2
    <3>2. \A i \in DOMAIN toDevice[d] : toDevice'[d][i] = toDevice[d][i]
      BY <1>1, <2>2
    <3> QED
      BY <2>2, <3>1, <3>2 DEF Answering
  <2> QED
    BY <2>1, <2>2
<1>5. Asking(d)' = Asking(d)
  BY DEF Asking
<1>6. OneRequest(d)'
  BY <1>2, <1>4, <1>5 DEF TaskFits, OneRequest, Asks, Expected
<1> QED
  BY <1>3, <1>6 DEF TaskFits

\* A step of one device is at most told to another as the end of a transaction.
LEMMA OtherKept ==
  ASSUME TransactionInv, NEW d \in Device, log' = log, unacked'[d] = unacked[d],
         toServer'[d] = toServer[d], pc'[d] = pc[d], own'[d] = own[d],
         backlog'[d] = backlog[d], taskBacklog'[d] = taskBacklog[d],
         running'[d] = running[d], applied'[d] = applied[d], discarded'[d] = discarded[d],
         nonces'[d] = nonces[d],
         toDevice'[d] = toDevice[d] \/ toDevice'[d] = Append(toDevice[d], Msg("ended", 0))
  PROVE  LogFits(d)' /\ TaskFits(d)'
<1>1. Msg("ended", 0) \in Message /\ Msg("ended", 0).type = "ended"
  BY DEF Msg, Message, Answers
<1>2. Waiting(d)' = Waiting(d) /\ WaitingInOrder(d)'
  BY <1>1, QueueKept DEF TransactionInv, LogFits
<1>3. LogFits(d)'
  BY <1>2, LogKept DEF TransactionInv, Acked
<1>4. TaskFits(d)'
  BY <1>1, TaskKept DEF TransactionInv
<1> QED
  BY <1>3, <1>4

-----------------------------------------------------------------------------
(* Requests and answers *)

\* The server takes the request of a task and answers it.
LEMMA Answered ==
  ASSUME TypeOK, NEW d \in Device, TaskFits(d),
         log' = log \/ \E e \in Device : log' = Append(log, e),
         toServer[d] # <<>>, Head(toServer[d]) # "ack", toServer'[d] = Tail(toServer[d]),
         NEW m \in Message, toDevice'[d] = Append(toDevice[d], m),
         pc[d] \in {"begun", "executing", "committing"} => m.type \in Expected[pc[d]],
         pc[d] = "executing" => m.change \in DOMAIN log' /\ log'[m.change] = d,
         pc'[d] = pc[d], own'[d] = own[d],
         backlog'[d] = backlog[d], taskBacklog'[d] = taskBacklog[d]
  PROVE  TaskFits(d)'
<1>1. /\ toDevice[d] \in Seq(Message) /\ toServer[d] \in Seq(Request) /\ log \in Seq(Device)
  BY DEF TypeOK
<1>2. BacklogFits(d)'
  <2>1. own[d] # 0 => own[d] \in DOMAIN log' /\ log'[own[d]] = log[own[d]]
    <3>1. CASE log' = log
      BY <3>1 DEF TaskFits, BacklogFits
    <3>2. ASSUME NEW e \in Device, log' = Append(log, e), own[d] # 0
          PROVE  own[d] \in DOMAIN log' /\ log'[own[d]] = log[own[d]]
      <4>1. own[d] \in 1..Len(log) /\ Len(log) \in Nat
        BY <1>1, <3>2 DEF TaskFits, BacklogFits
      <4> QED
        BY <1>1, <3>2, <4>1
    <3> QED
      BY <3>1, <3>2
  <2> QED
    BY <2>1 DEF TaskFits, BacklogFits
<1>3. 1 \in DOMAIN toServer[d] /\ toServer[d][1] # "ack"
  BY <1>1
<1>4. 1 \in Asking(d) /\ Answering(d) = {} /\ pc[d] \in {"begun", "executing", "committing"}
  <2>1. 1 \in Asking(d)
    BY <1>3 DEF Asking
  <2>2. toServer[d][1] \in Request /\ toServer[d][1] = Asks(pc[d])
    BY <1>1, <1>3, <2>1 DEF TaskFits, OneRequest
  <2>3. pc[d] \in {"begun", "executing", "committing"}
    BY <2>2 DEF Asks, Request
  <2> QED
    BY <2>1, <2>3 DEF TaskFits, OneRequest
<1>5. Asking(d)' = {}
  <2> SUFFICES ASSUME NEW i \in Asking(d)' PROVE FALSE
    OBVIOUS
  <2>1. i + 1 \in Asking(d) /\ i \in Nat /\ i >= 1
    BY <1>1 DEF Asking
  <2> QED
    BY <2>1, <1>4 DEF TaskFits, OneRequest
<1>6. Answering(d)' \subseteq {Len(toDevice[d]) + 1} /\ toDevice'[d][Len(toDevice[d]) + 1] = m
  <2>1. /\ DOMAIN toDevice'[d] = 1..Len(toDevice[d]) + 1
        /\ DOMAIN toDevice[d] = 1..Len(toDevice[d]) /\ Len(toDevice[d]) \in Nat
        /\ toDevice'[d][Len(toDevice[d]) + 1] = m
    BY <1>1
  <2>2. \A i \in DOMAIN toDevice[d] : toDevice'[d][i] = toDevice[d][i]
    BY <1>1
  <2> QED
    BY <1>4, <2>1, <2>2 DEF Answering
<1>7. OneRequest(d)'
  BY <1>4, <1>5, <1>6 DEF OneRequest, Expected
<1> QED
  BY <1>2, <1>7 DEF TaskFits

\* A task reads its answer from the queue, never from the backlog it took over.
LEMMA AnswerRead ==
  ASSUME TypeOK, NEW d \in Device, TaskFits(d), Busy(d), HasMessage(d),
         Upcoming(d).type \in Expected[pc[d]]
  PROVE  /\ taskBacklog[d] = <<>> /\ Rest(d) = <<>> /\ ~FromBacklog(d)
         /\ toDevice[d] # <<>> /\ Upcoming(d) = Head(toDevice[d])
         /\ Asking(d) = {} /\ Unasked(Tail(toDevice[d]))
         /\ Head(toDevice[d]).type # "reflected"
<1>1. /\ toDevice[d] \in Seq(Message) /\ toServer[d] \in Seq(Request)
      /\ taskBacklog[d] \in Seq(Message)
      /\ pc[d] \in {"begun", "rejected", "executing", "committing"}
  BY DEF TypeOK, Busy, Expected
<1>2. taskBacklog[d] = <<>>
  <2> SUFFICES ASSUME taskBacklog[d] # <<>> PROVE FALSE
    OBVIOUS
  <2>1. pc[d] = "begun" /\ Upcoming(d) = taskBacklog[d][1] /\ 1 \in DOMAIN taskBacklog[d]
    BY <1>1 DEF TaskFits, BacklogFits, Upcoming, FromBacklog
  <2> QED
    BY <2>1 DEF TaskFits, BacklogFits, Unasked, Expected
<1>3. toDevice[d] # <<>> /\ Upcoming(d) = Head(toDevice[d]) /\ Rest(d) = <<>> /\ ~FromBacklog(d)
  BY <1>2 DEF HasMessage, Upcoming, FromBacklog, Rest
<1>4. 1 \in DOMAIN toDevice[d] /\ Head(toDevice[d]) = toDevice[d][1]
  BY <1>1, <1>3
<1>5. CASE pc[d] = "rejected"
  <2>1. Answering(d) = {} /\ Asking(d) = {}
    BY <1>1, <1>5 DEF TaskFits, OneRequest, Asks, Asking, Request
  <2>2. Unasked(Tail(toDevice[d]))
    BY <1>1, <1>3, <2>1 DEF Unasked, Answering
  <2> QED
    BY <1>2, <1>3, <1>5, <2>1, <2>2 DEF Expected
<1>6. CASE pc[d] # "rejected"
  <2>1. 1 \in Answering(d)
    BY <1>1, <1>3, <1>4, <1>6 DEF Answering, Expected
  <2>2. Asking(d) = {}
    BY <2>1 DEF TaskFits, OneRequest
  <2>3. Unasked(Tail(toDevice[d]))
    <3> SUFFICES ASSUME NEW i \in DOMAIN Tail(toDevice[d]),
                        Tail(toDevice[d])[i].type \notin {"reflected", "ended"}
                 PROVE  FALSE
      BY DEF Unasked
    <3>1. i + 1 \in Answering(d) /\ i \in Nat /\ i >= 1
      BY <1>1, <1>3 DEF Answering
    <3> QED
      BY <2>1, <3>1 DEF TaskFits, OneRequest
  <2> QED
    BY <1>1, <1>2, <1>3, <1>6, <2>2, <2>3 DEF Expected
<1> QED
  BY <1>5, <1>6

\* With nothing under way a task goes on, and may send the request of its new state.
LEMMA TaskGoesOn ==
  ASSUME TypeOK, NEW d \in Device, Asking(d) = {}, Unasked(toDevice'[d]), BacklogFits(d)',
         \/ toServer'[d] = toServer[d]
         \/ \E r \in Request : r = Asks(pc'[d]) /\ toServer'[d] = Append(toServer[d], r)
  PROVE  TaskFits(d)'
<1>1. Answering(d)' = {}
  BY DEF Answering, Unasked
<1>2. \A i, j \in Asking(d)' : i = j /\ toServer'[d][i] = Asks(pc'[d])
  <2>1. CASE toServer'[d] = toServer[d]
    BY <2>1 DEF Asking
  <2>2. ASSUME NEW r \in Request, r = Asks(pc'[d]), toServer'[d] = Append(toServer[d], r)
        PROVE  \A i, j \in Asking(d)' : i = j /\ toServer'[d][i] = Asks(pc'[d])
    <3>1. toServer[d] \in Seq(Request)
      BY DEF TypeOK
    <3>2. /\ DOMAIN toServer'[d] = 1..Len(toServer[d]) + 1 /\ Len(toServer[d]) \in Nat
          /\ DOMAIN toServer[d] = 1..Len(toServer[d]) /\ toServer'[d][Len(toServer[d]) + 1] = r
      BY <2>2, <3>1
    <3>3. \A i \in DOMAIN toServer[d] : toServer'[d][i] = toServer[d][i]
      BY <2>2, <3>1
    <3>4. Asking(d)' \subseteq {Len(toServer[d]) + 1}
      BY <3>2, <3>3 DEF Asking
    <3> QED
      BY <2>2, <3>2, <3>4
  <2> QED
    BY <2>1, <2>2
<1>3. OneRequest(d)'
  BY <1>1, <1>2 DEF OneRequest
<1> QED
  BY <1>3 DEF TaskFits

\* Acknowledgements are sent and received besides.
LEMMA AckKept ==
  ASSUME TypeOK, NEW d \in Device, TaskFits(d), log' = log, pc'[d] = pc[d], own'[d] = own[d],
         backlog'[d] = backlog[d], taskBacklog'[d] = taskBacklog[d], toDevice'[d] = toDevice[d],
         \/ toServer'[d] = Append(toServer[d], "ack")
         \/ /\ toServer[d] # <<>> /\ Head(toServer[d]) = "ack"
            /\ toServer'[d] = Tail(toServer[d])
  PROVE  TaskFits(d)'
<1>1. toServer[d] \in Seq(Request) /\ "ack" \in Request
  BY DEF TypeOK, Request
<1>2. Answering(d)' = Answering(d) /\ BacklogFits(d)'
  BY DEF Answering, TaskFits, BacklogFits
<1>3. CASE toServer'[d] = Append(toServer[d], "ack")
  <2>1. /\ DOMAIN toServer'[d] = 1..Len(toServer[d]) + 1 /\ Len(toServer[d]) \in Nat
        /\ DOMAIN toServer[d] = 1..Len(toServer[d]) /\ toServer'[d][Len(toServer[d]) + 1] = "ack"
    BY <1>1, <1>3
  <2>2. \A i \in DOMAIN toServer[d] : toServer'[d][i] = toServer[d][i]
    BY <1>1, <1>3
  <2>3. Asking(d)' = Asking(d)
    BY <2>1, <2>2 DEF Asking
  <2>4. OneRequest(d)'
    BY <1>2, <2>2, <2>3 DEF TaskFits, OneRequest, Asking, Asks, Expected
  <2> QED
    BY <1>2, <2>4 DEF TaskFits
<1>4. CASE /\ toServer[d] # <<>> /\ Head(toServer[d]) = "ack"
           /\ toServer'[d] = Tail(toServer[d])
  <2>1. \A i \in Asking(d)' : /\ i \in Nat /\ i + 1 \in Asking(d)
                              /\ toServer'[d][i] = toServer[d][i + 1]
    BY <1>1, <1>4 DEF Asking
  <2>2. OneRequest(d)'
    <3>1. \A i \in Asking(d)' : toServer'[d][i] = Asks(pc'[d])
      BY <2>1 DEF TaskFits, OneRequest
    <3>2. \A i, j \in Asking(d)' : i = j
      <4> SUFFICES ASSUME NEW i \in Asking(d)', NEW j \in Asking(d)' PROVE i = j
        OBVIOUS
      <4>1. i + 1 = j + 1 /\ i \in Nat /\ j \in Nat
        BY <2>1 DEF TaskFits, OneRequest
      <4> QED
        BY <4>1
    <3>3. Asking(d)' = {} \/ Answering(d)' = {}
      BY <1>2, <2>1 DEF TaskFits, OneRequest
    <3> QED
      BY <1>2, <3>1, <3>2, <3>3 DEF TaskFits, OneRequest, Expected
  <2> QED
    BY <1>2, <2>2 DEF TaskFits
<1> QED
  BY <1>3, <1>4

\* The request of a device tells where its task is.
LEMMA Requested ==
  ASSUME TypeOK, NEW d \in Device, TaskFits(d), toServer[d] # <<>>, Head(toServer[d]) # "ack"
  PROVE  /\ Head(toServer[d]) = "begin" => pc[d] = "begun"
         /\ Head(toServer[d]) = "reflect" => pc[d] = "executing"
         /\ Head(toServer[d]) = "commit" => pc[d] = "committing"
<1>1. toServer[d] \in Seq(Request) /\ Head(toServer[d]) = toServer[d][1] /\ 1 \in DOMAIN toServer[d]
  BY DEF TypeOK
<1>2. Head(toServer[d]) = Asks(pc[d])
  BY <1>1 DEF TaskFits, OneRequest, Asking
<1> QED
  BY <1>2 DEF Asks

\* Only acknowledgements count.
LEMMA AckedKept ==
  ASSUME TypeOK, NEW d \in Device,
         \/ toServer'[d] = toServer[d]
         \/ \E r \in Request : r # "ack" /\ toServer'[d] = Append(toServer[d], r)
         \/ /\ toServer[d] # <<>> /\ Head(toServer[d]) # "ack"
            /\ toServer'[d] = Tail(toServer[d])
  PROVE  Acked(d)' = Acked(d)
<1>1. toServer[d] \in Seq(Request)
  BY DEF TypeOK
<1>2. CASE toServer'[d] = toServer[d]
  BY <1>2 DEF Acked
<1>3. ASSUME NEW r \in Request, r # "ack", toServer'[d] = Append(toServer[d], r)
      PROVE  Acked(d)' = Acked(d)
  BY <1>1, <1>3, AcksAppend DEF Acked
<1>4. CASE /\ toServer[d] # <<>> /\ Head(toServer[d]) # "ack"
           /\ toServer'[d] = Tail(toServer[d])
  BY <1>1, <1>4, AcksTail DEF Acked
<1> QED
  BY <1>2, <1>3, <1>4

-----------------------------------------------------------------------------
(* The server *)

LEMMA InitInvariant == Init => TransactionInv
<1> SUFFICES ASSUME Init PROVE TransactionInv
  OBVIOUS
<1>1. Len(log) = 0 /\ log \in Seq(Device) /\ DOMAIN log = {}
  BY DEF Init
<1>2. TypeOK
  BY <1>1, TransactionAssumption DEF Init, TypeOK
<1>3. ASSUME NEW d \in Device PROVE LogFits(d) /\ TaskFits(d)
  <2>1. /\ unacked[d] = <<>> /\ toServer[d] = <<>> /\ toDevice[d] = <<>> /\ backlog[d] = <<>>
        /\ taskBacklog[d] = <<>> /\ pc[d] = "idle" /\ own[d] = 0 /\ running[d] = 0
        /\ Processed(d) = {} /\ nonces[d] = {}
    BY DEF Init, Processed
  <2>2. Acked(d) = 0 /\ Handled(d) = 0 /\ Waiting(d) = {}
    BY <2>1, NoAcks, NoChanges DEF Acked, Handled, Waiting
  <2>3. UnackedFits(d) /\ HandledFits(d) /\ WaitingFits(d)
    BY <2>1, <2>2 DEF UnackedFits, HandledFits, WaitingFits
  <2>4. WaitingInOrder(d)
    BY <2>1, NoChanges DEF WaitingInOrder, Before
  <2>5. Missed(d) /\ ProcessedPrefix(d)
    BY <1>1, <2>1 DEF Missed, ProcessedPrefix
  <2>6. TaskFits(d)
    BY <2>1, NoChanges DEF TaskFits, OneRequest, BacklogFits, Asking, Answering
  <2> QED
    BY <2>3, <2>4, <2>5, <2>6 DEF LogFits
<1> QED
  BY <1>2, <1>3 DEF TransactionInv

LEMMA ServeBeginStep ==
  ASSUME TransactionInv, NEW d \in Device, ServeBegin(d)
  PROVE  TransactionInv'
<1>1. PICK m \in Message : /\ m.type \in {"beginAck", "rejected"}
                           /\ toDevice' = [toDevice EXCEPT ![d] = Append(@, m)]
  BY DEF ServeBegin, Msg, Message, Answers
<1>2. /\ toServer[d] # <<>> /\ Head(toServer[d]) = "begin"
      /\ toServer' = [toServer EXCEPT ![d] = Tail(@)]
      /\ UNCHANGED <<log, unacked, task, backlog, model, changes, faults>>
      /\ lock' = lock \/ lock' = d
  BY DEF ServeBegin, Receive
<1>a. /\ toServer' \in [Device -> Seq(Request)] /\ toServer'[d] = Tail(toServer[d])
      /\ \A e \in Device : e # d => toServer'[e] = toServer[e]
  BY <1>2, TailAt DEF TransactionInv, TypeOK
<1>b. /\ toDevice' \in [Device -> Seq(Message)] /\ toDevice'[d] = Append(toDevice[d], m)
      /\ \A e \in Device : e # d => toDevice'[e] = toDevice[e]
  BY <1>1, AppendAt DEF TransactionInv, TypeOK
<1>3. TypeOK'
  BY <1>2, <1>a, <1>b DEF TransactionInv, TypeOK, task, model
<1>4. ASSUME NEW e \in Device, e # d PROVE LogFits(e)' /\ TaskFits(e)'
  <2>1. toServer'[e] = toServer[e] /\ toDevice'[e] = toDevice[e]
    BY <1>a, <1>b, <1>4
  <2> QED
    BY <1>2, <2>1, OtherKept DEF task, model
<1>5. toServer'[d] = Tail(toServer[d]) /\ toDevice'[d] = Append(toDevice[d], m)
  BY <1>1, <1>2 DEF TransactionInv, TypeOK
<1>6. TaskFits(d)'
  <2>1. pc[d] = "begun"
    BY <1>2, Requested DEF TransactionInv
  <2> QED
    BY <1>1, <1>2, <1>5, <2>1, Answered DEF TransactionInv, Expected, task
<1>7. LogFits(d)'
  <2>1. Waiting(d)' = Waiting(d) /\ WaitingInOrder(d)'
    BY <1>1, <1>2, <1>5, QueueKept DEF TransactionInv, LogFits, task
  <2>2. Acked(d)' = Acked(d)
    BY <1>2, <1>5, AckedKept DEF TransactionInv
  <2> QED
    BY <1>2, <2>1, <2>2, LogKept DEF TransactionInv, model
<1> QED
  BY <1>3, <1>4, <1>6, <1>7 DEF TransactionInv

LEMMA ServeCommitStep ==
  ASSUME TransactionInv, NEW d \in Device, ServeCommit(d)
  PROVE  TransactionInv'
<1> DEFINE m == Msg("commitAck", 0)
<1>1. m \in Message /\ m.type = "commitAck" /\ Msg("ended", 0) \in Message
  BY DEF Msg, Message, Answers
<1>2. /\ toServer[d] # <<>> /\ Head(toServer[d]) = "commit"
      /\ toServer' = [toServer EXCEPT ![d] = Tail(@)]
      /\ UNCHANGED <<log, unacked, task, backlog, model, changes, faults>>
      /\ lock' = NoDevice
  BY DEF ServeCommit, Receive
<1>3. /\ toDevice' \in [Device -> Seq(Message)]
      /\ toDevice'[d] = Append(toDevice[d], m)
      /\ \A e \in Device \ {d} : toDevice'[e] = Append(toDevice[e], Msg("ended", 0))
  <2>1. toDevice' = [e \in Device |-> IF e = d THEN Append(toDevice[e], m)
                                      ELSE Append(toDevice[e], Msg("ended", 0))]
    BY DEF ServeCommit, Broadcast
  <2>2. \A e \in Device : toDevice[e] \in Seq(Message)
    BY DEF TransactionInv, TypeOK
  <2> HIDE DEF m
  <2> QED
    BY <1>1, <2>1, <2>2
<1> HIDE DEF m
<1>a. /\ toServer' \in [Device -> Seq(Request)] /\ toServer'[d] = Tail(toServer[d])
      /\ \A e \in Device : e # d => toServer'[e] = toServer[e]
  BY <1>2, TailAt DEF TransactionInv, TypeOK
<1>4. TypeOK'
  BY <1>2, <1>3, <1>a DEF TransactionInv, TypeOK, task, model
<1>5. ASSUME NEW e \in Device, e # d PROVE LogFits(e)' /\ TaskFits(e)'
  <2>1. toServer'[e] = toServer[e] /\ toDevice'[e] = Append(toDevice[e], Msg("ended", 0))
    BY <1>3, <1>a, <1>5
  <2> QED
    BY <1>2, <2>1, OtherKept DEF task, model
<1>6. toServer'[d] = Tail(toServer[d])
  BY <1>a
<1>7. TaskFits(d)'
  <2>1. pc[d] = "committing"
    BY <1>2, Requested DEF TransactionInv
  <2> QED
    BY <1>1, <1>2, <1>3, <1>6, <2>1, Answered DEF TransactionInv, Expected, task
<1>8. LogFits(d)'
  <2>1. Waiting(d)' = Waiting(d) /\ WaitingInOrder(d)'
    BY <1>1, <1>2, <1>3, QueueKept DEF TransactionInv, LogFits, task
  <2>2. Acked(d)' = Acked(d)
    BY <1>2, <1>6, AckedKept DEF TransactionInv
  <2> QED
    BY <1>2, <2>1, <2>2, LogKept DEF TransactionInv, model
<1> QED
  BY <1>4, <1>5, <1>7, <1>8 DEF TransactionInv

\* The device that reflects a change does not get it back.
LEMMA LogGrows ==
  ASSUME TypeOK, NEW d \in Device, LogFits(d), log' = Append(log, d),
         unacked'[d] = unacked[d], Acked(d)' = Acked(d), running'[d] = running[d],
         Processed(d)' = Processed(d), nonces'[d] = nonces[d],
         Waiting(d)' = Waiting(d), WaitingInOrder(d)'
  PROVE  LogFits(d)'
<1>1. /\ log \in Seq(Device) /\ unacked[d] \in Seq(Nat) /\ Len(log) \in Nat
      /\ Processed(d) \subseteq 1..Len(log) /\ DOMAIN log = 1..Len(log)
  <2>1. log \in Seq(Device) /\ unacked[d] \in Seq(Nat)
    BY DEF TypeOK
  <2> QED
    BY <2>1 DEF LogFits, ProcessedPrefix
<1>2. Len(log') = Len(log) + 1 /\ log'[Len(log) + 1] = d /\ \A k \in 1..Len(log) : log'[k] = log[k]
  BY <1>1
<1>3. UnackedFits(d)'
  <2>1. \A i \in DOMAIN unacked[d] : unacked[d][i] \in 1..Len(log)
    BY <1>1 DEF LogFits, UnackedFits
  <2>2. DOMAIN log' = 1..Len(log) + 1
    BY <1>1
  <2> QED
    BY <1>1, <1>2, <2>1, <2>2 DEF LogFits, UnackedFits
<1>4. HandledFits(d)' /\ WaitingFits(d)'
  <2>1. Handled(d)' = Handled(d)
    BY DEF Handled
  <2>2. WaitingFits(d)'
    BY <2>1 DEF LogFits, WaitingFits
  <2>3. HandledFits(d)'
    BY <2>1 DEF LogFits, HandledFits
  <2> QED
    BY <2>2, <2>3
<1>5. Missed(d)'
  <2>1. Kept(d)' = Kept(d) /\ \A n \in 1..Len(log') : n \in 1..Len(log) \/ n = Len(log) + 1
    BY <1>1, <1>2 DEF Kept
  <2> QED
    BY <1>2, <2>1 DEF LogFits, Missed
<1>6. ProcessedPrefix(d)'
  <2>1. nonces[d] \subseteq Processed(d) /\ Processed(d) \subseteq DOMAIN log'
    BY <1>1, <1>2 DEF LogFits, ProcessedPrefix
  <2>2. ASSUME NEW m \in 1..Len(log'), NEW n \in 1..Len(log'), m < n,
               log'[m] # d, log'[n] # d, n \in Processed(d)
        PROVE  m \in Processed(d)
    <3>1. m \in 1..Len(log) /\ n \in 1..Len(log) /\ log[m] # d /\ log[n] # d
      BY <1>1, <1>2, <2>2
    <3> QED
      BY <2>2, <3>1 DEF LogFits, ProcessedPrefix
  <2> QED
    BY <2>1, <2>2 DEF ProcessedPrefix
<1> QED
  BY <1>3, <1>4, <1>5, <1>6 DEF LogFits

\* Everybody else does, after all that was reflected before.
LEMMA LogReceived ==
  ASSUME TypeOK, NEW d \in Device, NEW e \in Device, e # d, LogFits(d),
         log' = Append(log, e), unacked'[d] = Append(unacked[d], Len(log) + 1),
         toDevice'[d] = Append(toDevice[d], Msg("reflected", Len(log) + 1)),
         backlog'[d] = backlog[d], taskBacklog'[d] = taskBacklog[d],
         Acked(d)' = Acked(d), running'[d] = running[d],
         Processed(d)' = Processed(d), nonces'[d] = nonces[d]
  PROVE  LogFits(d)'
<1> DEFINE n == Len(log) + 1
           u == unacked[d]
           l == Len(u)
           m == Msg("reflected", n)
<1>1. /\ log \in Seq(Device) /\ u \in Seq(Nat) /\ Len(log) \in Nat /\ l \in Nat
      /\ Processed(d) \subseteq 1..Len(log) /\ toDevice[d] \in Seq(Message)
      /\ DOMAIN u = 1..l /\ DOMAIN log = 1..Len(log) /\ \A i \in 1..l : u[i] \in 1..Len(log)
  <2>1. log \in Seq(Device) /\ u \in Seq(Nat) /\ toDevice[d] \in Seq(Message)
    BY DEF TypeOK
  <2>2. DOMAIN log = 1..Len(log) /\ DOMAIN u = 1..l /\ Len(log) \in Nat /\ l \in Nat
    BY <2>1
  <2> QED
    BY <2>1, <2>2 DEF LogFits, ProcessedPrefix, UnackedFits
<1>2. Len(log') = n /\ DOMAIN log' = 1..n /\ log'[n] = e /\ \A k \in 1..Len(log) : log'[k] = log[k]
  BY <1>1
<1>3. /\ DOMAIN unacked'[d] = 1..(l + 1) /\ unacked'[d][l + 1] = n /\ Len(unacked'[d]) = l + 1
      /\ \A i \in 1..l : unacked'[d][i] = u[i]
  BY <1>1
<1>4. m \in Message /\ m.type = "reflected" /\ m.change = n
  BY <1>1 DEF Msg, Message, Reflected
<1>5. Acked(d) \in Nat /\ Handled(d) \in Nat /\ Handled(d)' = Handled(d) /\ Handled(d) <= l
      /\ Acked(d) <= Handled(d)
  <2>1. Acked(d) \in Nat
    BY AcksFinite DEF Acked, TypeOK
  <2> QED
    BY <2>1 DEF LogFits, HandledFits, Handled
<1>6. UnackedFits(d)'
  <2>1. \A i \in 1..l : log[u[i]] # d
    BY <1>1 DEF LogFits, UnackedFits
  <2>2. \A i \in 1..(l + 1) : unacked'[d][i] \in DOMAIN log' /\ log'[unacked'[d][i]] # d
    <3> SUFFICES ASSUME NEW i \in 1..(l + 1)
                 PROVE  unacked'[d][i] \in DOMAIN log' /\ log'[unacked'[d][i]] # d
      OBVIOUS
    <3>1. CASE i = l + 1
      BY <1>1, <1>2, <1>3, <3>1
    <3>2. CASE i # l + 1
      <4>1. i \in 1..l
        BY <1>1, <3>2
      <4>2. u[i] \in 1..Len(log) /\ log[u[i]] # d
        BY <1>1, <2>1, <4>1
      <4>3. unacked'[d][i] = u[i]
        BY <1>3, <4>1
      <4>4. log'[u[i]] = log[u[i]] /\ u[i] \in DOMAIN log'
        <5>1. 1..Len(log) \subseteq DOMAIN log'
          BY <1>1, <1>2
        <5> QED
          BY <1>2, <4>2, <5>1
      <4> QED
        BY <4>2, <4>3, <4>4
    <3> QED
      BY <3>1, <3>2
  <2>3. \A i, j \in 1..(l + 1) : i < j => unacked'[d][i] < unacked'[d][j]
    <3> SUFFICES ASSUME NEW i \in 1..(l + 1), NEW j \in 1..(l + 1), i < j
                 PROVE  unacked'[d][i] < unacked'[d][j]
      OBVIOUS
    <3>1. i \in 1..l
      BY <1>1
    <3>2. CASE j = l + 1
      BY <1>1, <1>3, <3>1, <3>2
    <3>3. CASE j \in 1..l
      <4>1. u[i] < u[j]
        BY <1>1, <3>1, <3>3 DEF LogFits, UnackedFits
      <4> QED
        BY <1>3, <3>1, <3>3, <4>1
    <3> QED
      BY <1>1, <3>2, <3>3
  <2> QED
    BY <1>3, <2>2, <2>3 DEF UnackedFits
<1>7. HandledFits(d)'
  <2>1. /\ \A i \in 1..Acked(d) : u[i] \in Processed(d) /\ Handled(d) <= l
        /\ running[d] # 0 => u[Acked(d) + 1] = running[d] /\ Handled(d) = Acked(d) + 1
    BY <1>5 DEF LogFits, HandledFits, Handled
  <2>2. \A i \in 1..Acked(d) : unacked'[d][i] \in Processed(d)'
    <3> SUFFICES ASSUME NEW i \in 1..Acked(d) PROVE unacked'[d][i] \in Processed(d)'
      OBVIOUS
    <3>1. i \in 1..l
      BY <1>1, <1>5
    <3> QED
      BY <1>3, <2>1, <3>1
  <2>3. running'[d] # 0 => unacked'[d][Acked(d)' + 1] = running'[d]
    <3> SUFFICES ASSUME running[d] # 0 PROVE unacked'[d][Acked(d) + 1] = running[d]
      OBVIOUS
    <3>1. Acked(d) + 1 \in 1..l
      BY <1>1, <1>5, <2>1
    <3> QED
      BY <1>3, <2>1, <3>1
  <2>4. Handled(d)' <= Len(unacked'[d])
    BY <1>1, <1>3, <1>5
  <2> QED
    BY <2>2, <2>3, <2>4 DEF HandledFits
<1>8. Waiting(d) \subseteq 1..Len(log)
  <2>1. Waiting(d) = {u[i] : i \in Handled(d) + 1 .. l}
    BY DEF LogFits, WaitingFits
  <2>2. \A i \in Handled(d) + 1 .. l : u[i] \in 1..Len(log)
    <3>1. \A i \in 1..l : u[i] \in 1..Len(log)
      BY <1>1
    <3>2. Handled(d) \in Nat /\ l \in Nat
      BY <1>1, <1>5
    <3> HIDE DEF n, l, u, m
    <3>3. Handled(d) + 1 .. l \subseteq 1..l
      BY <3>2
    <3> QED
      BY <3>1, <3>3, Zenon
  <2> HIDE DEF n, l, u, m
  <2> QED
    BY <2>1, <2>2, Zenon
<1>9. ChangesIn(toDevice'[d]) = ChangesIn(toDevice[d]) \union {n}
  BY <1>1, <1>4, ChangesAppend
<1>10. WaitingFits(d)'
  <2>1. Waiting(d)' = Waiting(d) \union {n}
    BY <1>9 DEF Waiting
  <2>2. {unacked'[d][i] : i \in Handled(d) + 1 .. l + 1}
          = {u[i] : i \in Handled(d) + 1 .. l} \union {n}
    <3>1. \A i : i \in Handled(d) + 1 .. l + 1 <=> i \in Handled(d) + 1 .. l \/ i = l + 1
      <4>1. Handled(d) \in Nat /\ l \in Nat /\ Handled(d) <= l
        BY <1>1, <1>5
      <4> HIDE DEF l
      <4> QED
        BY <4>1
    <3>2. \A i \in Handled(d) + 1 .. l : unacked'[d][i] = u[i]
      BY <1>1, <1>3, <1>5
    <3> HIDE DEF n, l, u
    <3> QED
      BY <1>3, <3>1, <3>2
  <2> QED
    BY <1>3, <1>5, <2>1, <2>2 DEF LogFits, WaitingFits
<1>11. WaitingInOrder(d)'
  <2>1. Ordered(toDevice[d]) /\ \A k \in ChangesIn(toDevice[d]) : k < n
    BY <1>1, <1>8 DEF LogFits, WaitingInOrder, Waiting
  <2>2. Ordered(toDevice'[d])
    BY <1>1, <1>4, <2>1, OrderedAppend
  <2>3. \A k \in ChangesIn(backlog[d]) \union ChangesIn(taskBacklog[d]) : k < n
    BY <1>1, <1>8 DEF Waiting
  <2> QED
    BY <1>9, <2>2, <2>3 DEF LogFits, WaitingInOrder, Before
<1>12. Missed(d)'
  <2>1. Kept(d)' = Kept(d) \union {n}
    <3>1. \A i : i \in 1..(l + 1) <=> i \in 1..l \/ i = l + 1
      BY <1>1
    <3>2. Kept(d) = {u[i] : i \in 1..l} /\ Kept(d)' = {unacked'[d][i] : i \in 1..(l + 1)}
      BY <1>1, <1>3 DEF Kept
    <3> HIDE DEF n, l, u
    <3>3. ASSUME NEW k \in Kept(d)' PROVE k \in Kept(d) \union {n}
      BY <1>3, <3>1, <3>2, <3>3
    <3>4. n \in Kept(d)' /\ \A k \in Kept(d) : k \in Kept(d)'
      BY <1>3, <3>1, <3>2
    <3> QED
      BY <3>3, <3>4
  <2> QED
    BY <1>1, <1>2, <2>1 DEF LogFits, Missed
<1>13. ProcessedPrefix(d)'
  BY <1>1, <1>2 DEF LogFits, ProcessedPrefix
<1> QED
  BY <1>6, <1>7, <1>10, <1>11, <1>12, <1>13 DEF LogFits

LEMMA ServeReflectStep ==
  ASSUME TransactionInv, NEW d \in Device, ServeReflect(d)
  PROVE  TransactionInv'
<1> DEFINE n == Len(log) + 1
           m == Msg("reflectAck", n)
           r == Msg("reflected", n)
<1>1. /\ n \in Nat /\ m \in Message /\ m.type = "reflectAck" /\ m.change = n
      /\ r \in Message /\ r.type = "reflected"
  BY DEF TransactionInv, TypeOK, Msg, Message, Answers, Reflected
<1>2. /\ toServer[d] # <<>> /\ Head(toServer[d]) = "reflect"
      /\ toServer' = [toServer EXCEPT ![d] = Tail(@)]
      /\ log' = Append(log, d)
      /\ UNCHANGED <<lock, task, backlog, model, changes, faults>>
  BY DEF ServeReflect, Receive
<1>3. /\ toDevice' = [e \in Device |-> IF e = d THEN Append(toDevice[e], m)
                                       ELSE Append(toDevice[e], r)]
      /\ unacked' = [e \in Device |-> IF e = d THEN unacked[e] ELSE Append(unacked[e], n)]
  BY DEF ServeReflect, Broadcast
<1>4. Len(log') = n /\ log'[n] = d /\ n \in DOMAIN log' /\ log' \in Seq(Device) /\ Len(log) \in Nat
  <2>1. log \in Seq(Device)
    BY DEF TransactionInv, TypeOK
  <2> QED
    BY <1>2, <2>1
<1> HIDE DEF n, m, r
<1>a. /\ toServer' \in [Device -> Seq(Request)] /\ toServer'[d] = Tail(toServer[d])
      /\ \A e \in Device : e # d => toServer'[e] = toServer[e]
  BY <1>2, TailAt DEF TransactionInv, TypeOK
<1>5. TypeOK'
  <2>2. unacked' \in [Device -> Seq(Nat)]
    BY <1>1, <1>3 DEF TransactionInv, TypeOK
  <2>3. toDevice' \in [Device -> Seq(Message)]
    BY <1>1, <1>3 DEF TransactionInv, TypeOK
  <2> QED
    BY <1>2, <1>4, <1>a, <2>2, <2>3 DEF TransactionInv, TypeOK, task, model
<1>6. ASSUME NEW e \in Device, e # d PROVE LogFits(e)' /\ TaskFits(e)'
  <2>1. /\ toServer'[e] = toServer[e] /\ toDevice'[e] = Append(toDevice[e], r)
        /\ unacked'[e] = Append(unacked[e], n)
    BY <1>3, <1>a, <1>6
  <2>2. TaskFits(e)'
    BY <1>1, <1>2, <2>1, TaskKept DEF TransactionInv, task
  <2>3. Acked(e)' = Acked(e)
    BY <2>1 DEF Acked
  <2>4. LogFits(e)'
    BY <1>2, <1>6, <2>1, <2>3, LogReceived DEF TransactionInv, task, model, n, r, Processed
  <2> QED
    BY <2>2, <2>4
<1>7. toServer'[d] = Tail(toServer[d]) /\ toDevice'[d] = Append(toDevice[d], m)
      /\ unacked'[d] = unacked[d]
  BY <1>3, <1>a
<1>8. TaskFits(d)'
  <2>1. pc[d] = "executing" /\ Expected["executing"] = {"reflectAck"}
    BY <1>2, Requested DEF TransactionInv, Expected
  <2>2. /\ pc'[d] = pc[d] /\ own'[d] = own[d] /\ backlog'[d] = backlog[d]
        /\ taskBacklog'[d] = taskBacklog[d] /\ Head(toServer[d]) # "ack"
        /\ m.type \in Expected[pc[d]] /\ m.change \in DOMAIN log' /\ log'[m.change] = d
    BY <1>1, <1>2, <1>4, <2>1 DEF task
  <2>3. TypeOK /\ TaskFits(d) /\ log' = Append(log, d) /\ toServer[d] # <<>>
    BY <1>2 DEF TransactionInv
  <2> QED
    BY <1>1, <1>7, <2>2, <2>3, Answered
<1>9. LogFits(d)'
  <2>1. Waiting(d)' = Waiting(d) /\ WaitingInOrder(d)'
    BY <1>1, <1>2, <1>7, QueueKept DEF TransactionInv, LogFits, task
  <2>2. Acked(d)' = Acked(d)
    BY <1>2, <1>7, AckedKept DEF TransactionInv
  <2> QED
    BY <1>2, <1>7, <2>1, <2>2, LogGrows DEF TransactionInv, model, Processed
<1> QED
  BY <1>5, <1>6, <1>8, <1>9 DEF TransactionInv

LEMMA ServeAckStep ==
  ASSUME TransactionInv, NEW d \in Device, ServeAck(d)
  PROVE  TransactionInv'
<1> DEFINE u == unacked[d]
           a == Acked(d)
<1>1. /\ toServer[d] # <<>> /\ Head(toServer[d]) = "ack"
      /\ toServer' = [toServer EXCEPT ![d] = Tail(@)]
      /\ unacked' = [unacked EXCEPT ![d] = Tail(@)]
      /\ UNCHANGED <<lock, log, toDevice, task, backlog, model, changes, faults>>
  BY DEF ServeAck, Receive
<1>2. toServer'[d] = Tail(toServer[d]) /\ unacked'[d] = Tail(u)
  BY <1>1 DEF TransactionInv, TypeOK
<1>3. a = Acked(d)' + 1 /\ Acked(d)' \in Nat
  <2>1. toServer[d] \in Seq(Request) /\ Tail(toServer[d]) \in Seq(Request)
    BY <1>1 DEF TransactionInv, TypeOK
  <2> QED
    BY <1>1, <1>2, <2>1, AcksTail, AcksFinite DEF Acked
<1>4. /\ u \in Seq(Nat) /\ Len(u) \in Nat /\ a <= Len(u) /\ u # <<>>
      /\ Handled(d) <= Len(u) /\ Handled(d) = Handled(d)' + 1 /\ Handled(d)' \in Nat
      /\ Handled(d)' >= Acked(d)'
  <2>1. u \in Seq(Nat)
    BY DEF TransactionInv, TypeOK
  <2>2. Handled(d) <= Len(u) /\ running' = running
    BY <1>1 DEF TransactionInv, LogFits, HandledFits, model
  <2>3. Handled(d) = Handled(d)' + 1 /\ Handled(d)' \in Nat /\ Handled(d)' >= Acked(d)'
        /\ a <= Handled(d)
    BY <1>3, <2>2 DEF Handled
  <2>4. a >= 1 /\ Len(u) \in Nat
    BY <1>3, <2>1
  <2> HIDE DEF a
  <2>5. u # <<>> /\ a <= Len(u)
    BY <1>3, <2>1, <2>2, <2>3, <2>4
  <2> QED
    BY <2>1, <2>2, <2>3, <2>4, <2>5
<1>5. /\ Tail(u) \in Seq(Nat) /\ Len(Tail(u)) = Len(u) - 1
      /\ \A i \in 1..Len(u) - 1 : Tail(u)[i] = u[i + 1]
      /\ DOMAIN u = 1..Len(u) /\ DOMAIN Tail(u) = 1..Len(u) - 1
  BY <1>4
<1>a. /\ toServer' \in [Device -> Seq(Request)] /\ unacked' \in [Device -> Seq(Nat)]
      /\ \A e \in Device : e # d => toServer'[e] = toServer[e] /\ unacked'[e] = unacked[e]
  <2>1. /\ toServer' \in [Device -> Seq(Request)]
        /\ \A e \in Device : e # d => toServer'[e] = toServer[e]
    BY <1>1, TailAt DEF TransactionInv, TypeOK
  <2>2. /\ unacked' \in [Device -> Seq(Nat)]
        /\ \A e \in Device : e # d => unacked'[e] = unacked[e]
    BY <1>1, <1>4, TailAt DEF TransactionInv, TypeOK
  <2> QED
    BY <2>1, <2>2
<1>6. TypeOK'
  BY <1>1, <1>a DEF TransactionInv, TypeOK, task, model
<1>7. ASSUME NEW e \in Device, e # d PROVE LogFits(e)' /\ TaskFits(e)'
  <2>1. toServer'[e] = toServer[e] /\ unacked'[e] = unacked[e]
    BY <1>a, <1>7
  <2> QED
    BY <1>1, <2>1, OtherKept DEF task, model
<1>8. TaskFits(d)'
  BY <1>1, <1>2, AckKept DEF TransactionInv, task
<1>9. LogFits(d)'
  <2> HIDE DEF u, a
  <2>1. LogFits(d)
    BY DEF TransactionInv
  <2>2. UnackedFits(d)'
    <3> SUFFICES ASSUME NEW i \in 1..Len(u) - 1, NEW j \in 1..Len(u) - 1
                 PROVE  /\ Tail(u)[i] \in DOMAIN log /\ log[Tail(u)[i]] # d
                        /\ i < j => Tail(u)[i] < Tail(u)[j]
      BY <1>1, <1>2, <1>5 DEF UnackedFits
    <3>1. i + 1 \in 1..Len(u) /\ j + 1 \in 1..Len(u) /\ (i < j => i + 1 < j + 1)
      BY <1>4
    <3> QED
      BY <1>5, <2>1, <3>1 DEF LogFits, UnackedFits, u
  <2>3. HandledFits(d)'
    <3>1. Handled(d)' <= Len(unacked'[d])
      BY <1>2, <1>4, <1>5
    <3>2. ASSUME NEW i \in 1..Acked(d)' PROVE unacked'[d][i] \in Processed(d)'
      <4>1. i + 1 \in 1..a /\ i \in 1..Len(u) - 1
        BY <1>3, <1>4
      <4> QED
        BY <1>1, <1>2, <1>5, <2>1, <4>1 DEF LogFits, HandledFits, u, a, model, Processed
    <3>3. running'[d] # 0 => unacked'[d][Acked(d)' + 1] = running'[d]
      <4> SUFFICES ASSUME running'[d] # 0 PROVE unacked'[d][Acked(d)' + 1] = running'[d]
        OBVIOUS
      <4>1. Handled(d) = a + 1 /\ running[d] = running'[d]
        BY <1>1 DEF Handled, a, model
      <4>2. a \in 1..Len(u) - 1 /\ Tail(u)[a] = u[a + 1]
        BY <1>3, <1>4, <1>5, <4>1
      <4> QED
        BY <1>2, <1>3, <2>1, <4>1, <4>2 DEF LogFits, HandledFits, u, a
    <3> QED
      BY <3>1, <3>2, <3>3 DEF HandledFits
  <2>4. WaitingFits(d)'
    <3>1. Waiting(d)' = Waiting(d)
      BY <1>1 DEF Waiting, task
    <3>2. {Tail(u)[i] : i \in Handled(d)' + 1 .. Len(u) - 1} = {u[i] : i \in Handled(d) + 1 .. Len(u)}
      <4>1. \A i \in Handled(d)' + 1 .. Len(u) - 1 :
                i + 1 \in Handled(d) + 1 .. Len(u) /\ Tail(u)[i] = u[i + 1]
        BY <1>4, <1>5
      <4>2. \A i \in Handled(d) + 1 .. Len(u) :
                i - 1 \in Handled(d)' + 1 .. Len(u) - 1 /\ Tail(u)[i - 1] = u[i]
        BY <1>4, <1>5
      <4> DEFINE S == Handled(d)' + 1 .. Len(u) - 1
                 T == Handled(d) + 1 .. Len(u)
      <4>3. \A i \in S : i + 1 \in T /\ Tail(u)[i] = u[i + 1]
        BY <4>1
      <4>4. \A i \in T : i - 1 \in S /\ Tail(u)[i - 1] = u[i]
        BY <4>2
      <4> HIDE DEF S, T
      <4>5. {Tail(u)[i] : i \in S} = {u[i] : i \in T}
        <5>1. ASSUME NEW i \in S PROVE Tail(u)[i] \in {u[j] : j \in T}
          BY <4>3
        <5>2. ASSUME NEW i \in T PROVE u[i] \in {Tail(u)[j] : j \in S}
          BY <4>4
        <5> QED
          BY <5>1, <5>2
      <4> QED
        BY <4>5 DEF S, T
    <3> QED
      <4>1. unacked'[d] = Tail(u) /\ Len(unacked'[d]) = Len(u) - 1
        BY <1>2, <1>5
      <4>2. Waiting(d) = {u[i] : i \in Handled(d) + 1 .. Len(u)}
        BY <2>1 DEF LogFits, WaitingFits, u
      <4>3. Waiting(d)' = {Tail(u)[i] : i \in Handled(d)' + 1 .. Len(u) - 1}
        BY <3>1, <3>2, <4>2
      <4> QED
        BY <4>1, <4>3 DEF WaitingFits
  <2>5. WaitingInOrder(d)'
    BY <1>1, <2>1 DEF LogFits, WaitingInOrder, task
  <2>6. Missed(d)'
    <3>1. u[1] \in Processed(d)
      BY <1>3, <2>1 DEF LogFits, HandledFits, u, a
    <3>2. \A n \in Kept(d) : n = u[1] \/ n \in Kept(d)'
      <4> SUFFICES ASSUME NEW i \in 1..Len(u), i # 1 PROVE u[i] \in Kept(d)'
        BY <1>5 DEF Kept, u
      <4>1. i - 1 \in 1..Len(u) - 1 /\ Tail(u)[i - 1] = u[i]
        BY <1>4, <1>5
      <4> QED
        BY <1>2, <1>5, <4>1 DEF Kept
    <3> QED
      BY <1>1, <2>1, <3>1, <3>2 DEF LogFits, Missed, model, Processed
  <2>7. ProcessedPrefix(d)'
    BY <1>1, <2>1 DEF LogFits, ProcessedPrefix, model, Processed
  <2> QED
    BY <2>2, <2>3, <2>4, <2>5, <2>6, <2>7 DEF LogFits
<1> QED
  BY <1>6, <1>7, <1>8, <1>9 DEF TransactionInv

-----------------------------------------------------------------------------
(* The loop and the task *)

\* Without a request nothing but changes and ends is under way.
LEMMA NothingAsked ==
  ASSUME TypeOK, NEW d \in Device, TaskFits(d), pc[d] \in {"idle", "scheduled", "rejected"}
  PROVE  Asking(d) = {} /\ Unasked(toDevice[d]) /\ taskBacklog[d] = <<>> /\ own[d] = 0
<1>1. toServer[d] \in Seq(Request)
  BY DEF TypeOK
<1>2. Asking(d) = {}
  BY <1>1 DEF TaskFits, OneRequest, Asking, Asks, Request
<1>3. Unasked(toDevice[d])
  BY DEF TaskFits, OneRequest, Answering, Unasked
<1> QED
  BY <1>2, <1>3 DEF TaskFits, BacklogFits

LEMMA ScheduleStep ==
  ASSUME TransactionInv, NEW d \in Device, Schedule(d)
  PROVE  TransactionInv'
<1>1. /\ pc[d] = "idle" /\ changes < MaxChanges /\ changes' = changes + 1
      /\ pc' = [pc EXCEPT ![d] = "scheduled"]
      /\ snapshot' = [snapshot EXCEPT ![d] = version[d]]
      /\ UNCHANGED <<lock, log, unacked, toServer, toDevice, own, taskBacklog, backlog,
                     running, version, applied, discarded, nonces, faults>>
  BY DEF Schedule, server, wire, model
<1>2. TypeOK'
  <2>1. changes + 1 \in 0..MaxChanges
    BY <1>1, TransactionAssumption DEF TransactionInv, TypeOK
  <2> QED
    BY <1>1, <2>1 DEF TransactionInv, TypeOK
<1>3. ASSUME NEW e \in Device, e # d PROVE LogFits(e)' /\ TaskFits(e)'
  BY <1>1, <1>3, OtherKept
<1>4. LogFits(d)'
  BY <1>1, LogKept DEF TransactionInv, LogFits, Acked, Waiting, WaitingInOrder
<1>5. TaskFits(d)'
  <2>1. /\ pc'[d] = "scheduled" /\ Asking(d) = {} /\ Unasked(toDevice[d])
        /\ taskBacklog[d] = <<>> /\ own[d] = 0
    BY <1>1, NothingAsked DEF TransactionInv, TypeOK
  <2>2. BacklogFits(d)'
    BY <1>1, <2>1 DEF TransactionInv, TaskFits, BacklogFits
  <2> QED
    BY <1>1, <2>1, <2>2, TaskGoesOn DEF TransactionInv
<1> QED
  BY <1>2, <1>3, <1>4, <1>5 DEF TransactionInv

LEMMA StartTransactionStep ==
  ASSUME TransactionInv, NEW d \in Device, StartTransaction(d)
  PROVE  TransactionInv'
<1>1. /\ pc[d] = "scheduled" /\ pc' = [pc EXCEPT ![d] = "begun"]
      /\ taskBacklog' = [taskBacklog EXCEPT ![d] = backlog[d]]
      /\ backlog' = [backlog EXCEPT ![d] = <<>>]
      /\ toServer' = [toServer EXCEPT ![d] = Append(@, "begin")]
      /\ UNCHANGED <<lock, log, unacked, toDevice, snapshot, own,
                     running, version, applied, discarded, nonces, changes, faults>>
  BY DEF StartTransaction, Send, server, model
<1>2. /\ toServer' \in [Device -> Seq(Request)] /\ toServer'[d] = Append(toServer[d], "begin")
      /\ \A e \in Device : e # d => toServer'[e] = toServer[e]
  BY <1>1, AppendAt DEF TransactionInv, TypeOK, Request
<1>3. /\ taskBacklog'[d] = backlog[d] /\ backlog'[d] = <<>> /\ pc'[d] = "begun"
      /\ \A e \in Device : e # d => /\ taskBacklog'[e] = taskBacklog[e]
                                    /\ backlog'[e] = backlog[e] /\ pc'[e] = pc[e]
  BY <1>1 DEF TransactionInv, TypeOK
<1>4. TypeOK'
  <2>1. backlog' \in [Device -> Seq(Message)] /\ taskBacklog' \in [Device -> Seq(Message)]
    <3> DEFINE Q == Seq(Message)
    <3>1. <<>> \in Q
      OBVIOUS
    <3>2. backlog \in [Device -> Q] /\ taskBacklog \in [Device -> Q]
      BY DEF TransactionInv, TypeOK
    <3> HIDE DEF Q
    <3>3. backlog' \in [Device -> Q] /\ taskBacklog' \in [Device -> Q]
      BY <1>1, <3>1, <3>2
    <3> QED
      BY <3>3 DEF Q
  <2> QED
    BY <1>1, <1>2, <2>1 DEF TransactionInv, TypeOK
<1>5. ASSUME NEW e \in Device, e # d PROVE LogFits(e)' /\ TaskFits(e)'
  BY <1>1, <1>2, <1>3, <1>5, OtherKept
<1>6. Asking(d) = {} /\ Unasked(toDevice[d]) /\ taskBacklog[d] = <<>> /\ own[d] = 0
  BY <1>1, NothingAsked DEF TransactionInv
<1>7. LogFits(d)'
  <2>1. Acked(d)' = Acked(d)
    BY <1>2, AckedKept DEF TransactionInv, Request
  <2>2. Waiting(d)' = Waiting(d)
    BY <1>1, <1>3, <1>6, NoChanges DEF Waiting
  <2>3. WaitingInOrder(d)'
    BY <1>1, <1>3, <1>6, NoChanges DEF TransactionInv, LogFits, WaitingInOrder, Before
  <2> QED
    BY <1>1, <2>1, <2>2, <2>3, LogKept DEF TransactionInv
<1>8. TaskFits(d)'
  <2>1. BacklogFits(d)'
    BY <1>1, <1>3, <1>6, NoChanges DEF TransactionInv, TaskFits, BacklogFits
  <2>2. "begin" \in Request /\ Asks(pc'[d]) = "begin"
    BY <1>3 DEF Asks, Request
  <2> QED
    BY <1>1, <1>2, <1>6, <2>1, <2>2, TaskGoesOn DEF TransactionInv
<1> QED
  BY <1>4, <1>5, <1>7, <1>8 DEF TransactionInv

\* What the loop looks at next is what the server keeps next.
LEMMA NextChange ==
  ASSUME TypeOK, NEW d \in Device, LogFits(d), running[d] = 0, NEW n, NEW W,
         Waiting(d) = {n} \union W, \A k \in W : n < k
  PROVE  /\ Acked(d) \in Nat /\ Acked(d) + 1 <= Len(unacked[d]) /\ unacked[d][Acked(d) + 1] = n
         /\ W = {unacked[d][i] : i \in Acked(d) + 2 .. Len(unacked[d])}
<1> DEFINE u == unacked[d]
           l == Len(u)
           a == Acked(d)
<1>1. u \in Seq(Nat) /\ l \in Nat /\ a \in Nat /\ DOMAIN u = 1..l
  BY AcksFinite DEF TypeOK, Acked
<1>2. Waiting(d) = {u[i] : i \in a + 1 .. l}
  BY <1>1 DEF LogFits, WaitingFits, Handled
<1>3. \A i, j \in 1..l : /\ u[i] \in Nat
                         /\ i < j => u[i] < u[j]
  <2>1. \A i \in DOMAIN u : u[i] \in Nat
    BY <1>1
  <2>2. \A i, j \in DOMAIN u : i < j => u[i] < u[j]
    BY DEF LogFits, UnackedFits
  <2> HIDE DEF u, l
  <2> QED
    BY <1>1, <2>1, <2>2
<1> HIDE DEF u, l, a
<1>4. PICK i0 \in a + 1 .. l : u[i0] = n
  BY <1>2
<1>5. a + 1 \in 1..l /\ i0 \in 1..l /\ a + 1 \in a + 1 .. l /\ i0 >= a + 1
  BY <1>1, <1>4
<1>6. i0 = a + 1
  <2> SUFFICES ASSUME a + 1 < i0 PROVE FALSE
    BY <1>1, <1>5
  <2>1. u[a + 1] < n /\ u[a + 1] \in Waiting(d) /\ u[a + 1] \in Nat /\ n \in Nat
    BY <1>2, <1>3, <1>4, <1>5
  <2>2. u[a + 1] \in W
    BY <2>1
  <2> QED
    BY <2>1, <2>2
<1>7. W = {u[i] : i \in a + 2 .. l}
  <2>1. ASSUME NEW k \in W PROVE k \in {u[i] : i \in a + 2 .. l}
    <3>1. PICK i \in a + 1 .. l : u[i] = k
      BY <1>2, <2>1
    <3>2. n < k /\ i \in 1..l /\ u[i] \in Nat
      BY <1>1, <1>3, <2>1, <3>1
    <3>3. i # a + 1
      BY <1>4, <1>6, <3>1, <3>2
    <3>4. i \in a + 2 .. l
      BY <1>1, <3>1, <3>3
    <3> QED
      BY <3>1, <3>4
  <2>2. ASSUME NEW i \in a + 2 .. l PROVE u[i] \in W
    <3>1. i \in a + 1 .. l /\ a + 1 < i /\ i \in 1..l
      BY <1>1
    <3>2. u[i] \in Waiting(d) /\ n < u[i] /\ n \in Nat /\ u[i] \in Nat
      BY <1>2, <1>3, <1>4, <1>5, <1>6, <3>1
    <3> QED
      BY <3>2
  <2> QED
    BY <2>1, <2>2
<1> QED
  BY <1>1, <1>4, <1>5, <1>6, <1>7 DEF u, l, a

LEMMA ProcessMessageStep ==
  ASSUME TransactionInv, NEW d \in Device, ProcessMessage(d)
  PROVE  TransactionInv'
<1> DEFINE q == IF QueueIsNext(d) THEN toDevice[d] ELSE backlog[d]
           m == Head(q)
<1>1. /\ pc[d] = "idle" /\ running[d] = 0
      /\ running' = [running EXCEPT ![d] = IF m.type = "reflected" THEN m.change ELSE 0]
      /\ UNCHANGED <<lock, log, unacked, toServer, pc, snapshot, own, taskBacklog,
                     version, applied, discarded, nonces, changes, faults>>
  BY DEF ProcessMessage, Handle, server, task
<1>2. toDevice[d] \in Seq(Message) /\ backlog[d] \in Seq(Message)
  BY DEF TransactionInv, TypeOK
<1>3. q \in Seq(Message) /\ q # <<>>
  BY <1>2 DEF ProcessMessage, QueueIsNext
<1>4. m \in Message /\ m.change \in Nat
  BY <1>3 DEF Message, Reflected, Answers
<1>5. Asking(d) = {} /\ Unasked(toDevice[d]) /\ taskBacklog[d] = <<>> /\ own[d] = 0
  BY <1>1, NothingAsked DEF TransactionInv
<1>6. \/ /\ backlog[d] = <<>> /\ q = toDevice[d] /\ toDevice'[d] = Tail(q) /\ backlog' = backlog
         /\ toDevice' \in [Device -> Seq(Message)]
         /\ \A e \in Device : e # d => toDevice'[e] = toDevice[e]
      \/ /\ backlog[d] # <<>> /\ q = backlog[d] /\ backlog'[d] = Tail(q) /\ toDevice' = toDevice
         /\ backlog' \in [Device -> Seq(Message)]
         /\ \A e \in Device : e # d => backlog'[e] = backlog[e]
  <2>1. CASE QueueIsNext(d)
    <3>1. toDevice' = [toDevice EXCEPT ![d] = Tail(@)] /\ backlog' = backlog /\ toDevice[d] # <<>>
      BY <2>1 DEF ProcessMessage
    <3> QED
      BY <2>1, <3>1, TailAt DEF QueueIsNext, TransactionInv, TypeOK
  <2>2. CASE ~QueueIsNext(d)
    <3>1. backlog' = [backlog EXCEPT ![d] = Tail(@)] /\ toDevice' = toDevice /\ backlog[d] # <<>>
      BY <2>2 DEF ProcessMessage, QueueIsNext
    <3> QED
      BY <2>2, <3>1, TailAt DEF QueueIsNext, TransactionInv, TypeOK
  <2> QED
    BY <2>1, <2>2
<1> HIDE DEF q, m
<1>7. TypeOK'
  BY <1>1, <1>4, <1>6 DEF TransactionInv, TypeOK
<1>8. ASSUME NEW e \in Device, e # d PROVE LogFits(e)' /\ TaskFits(e)'
  <2>1. running'[e] = running[e] /\ toDevice'[e] = toDevice[e] /\ backlog'[e] = backlog[e]
    BY <1>1, <1>6, <1>8 DEF TransactionInv, TypeOK
  <2> QED
    BY <1>1, <2>1, OtherKept
<1>9. TaskFits(d)'
  <2>1. Unasked(toDevice'[d]) /\ Unasked(backlog'[d])
    <3>1. Unasked(Tail(q))
      BY <1>2, <1>3, <1>5, <1>6 DEF TransactionInv, TaskFits, BacklogFits, Unasked
    <3> QED
      BY <1>5, <1>6, <3>1 DEF TransactionInv, TaskFits, BacklogFits
  <2>2. BacklogFits(d)'
    BY <1>1, <1>5, <2>1 DEF TransactionInv, TaskFits, BacklogFits
  <2> QED
    BY <1>1, <1>5, <2>1, <2>2, TaskGoesOn DEF TransactionInv
<1>10. WaitingInOrder(d)'
  BY <1>1, <1>3, <1>5, <1>6, NoChanges, OrderedTail, ChangesTail
     DEF TransactionInv, LogFits, WaitingInOrder, Before
<1>11. /\ m.type # "reflected" => Waiting(d)' = Waiting(d)
       /\ m.type = "reflected" => /\ Waiting(d) = {m.change} \union Waiting(d)'
                                  /\ \A k \in Waiting(d)' : m.change < k
  <2>1. /\ Ordered(q)
        /\ m.type # "reflected" => ChangesIn(Tail(q)) = ChangesIn(q)
        /\ m.type = "reflected" => /\ ChangesIn(q) = {m.change} \union ChangesIn(Tail(q))
                                   /\ \A k \in ChangesIn(Tail(q)) : m.change < k
    BY <1>3, <1>6, OrderedTail, ChangesTail DEF TransactionInv, LogFits, WaitingInOrder, m
  <2>2. CASE backlog[d] = <<>>
    BY <1>1, <1>5, <1>6, <2>1, <2>2, NoChanges DEF Waiting
  <2>3. CASE backlog[d] # <<>>
    <3>1. m.type = "reflected" => \A k \in ChangesIn(toDevice[d]) : m.change < k
      BY <1>6, <2>1, <2>3 DEF TransactionInv, LogFits, WaitingInOrder, Before
    <3> QED
      BY <1>1, <1>5, <1>6, <2>1, <2>3, <3>1, NoChanges DEF Waiting
  <2> QED
    BY <2>2, <2>3
<1>12. LogFits(d)'
  <2>1. Acked(d)' = Acked(d)
    BY <1>1 DEF Acked
  <2>2. CASE m.type # "reflected"
    <3>1. running'[d] = running[d]
      BY <1>1, <2>2 DEF TransactionInv, TypeOK
    <3> QED
      BY <1>1, <1>10, <1>11, <2>1, <2>2, <3>1, LogKept DEF TransactionInv
  <2>3. CASE m.type = "reflected"
    <3>1. running'[d] = m.change
      BY <1>1, <2>3 DEF TransactionInv, TypeOK
    <3>2. /\ Acked(d) \in Nat /\ Acked(d) + 1 <= Len(unacked[d])
          /\ unacked[d][Acked(d) + 1] = m.change
          /\ Waiting(d)' = {unacked[d][i] : i \in Acked(d) + 2 .. Len(unacked[d])}
      BY <1>1, <1>11, <2>3, NextChange DEF TransactionInv
    <3>3. unacked[d] \in Seq(Nat) /\ log \in Seq(Device)
      BY DEF TransactionInv, TypeOK
    <3>4. m.change # 0
      <4>1. unacked[d][Acked(d) + 1] \in DOMAIN log
        <5>1. Acked(d) + 1 \in DOMAIN unacked[d]
          BY <3>2, <3>3
        <5> QED
          BY <5>1 DEF TransactionInv, LogFits, UnackedFits
      <4> QED
        BY <3>2, <3>3, <4>1
    <3>5. Handled(d)' = Acked(d) + 1
      BY <2>1, <3>1, <3>4 DEF Handled
    <3>6. HandledFits(d)'
      BY <1>1, <2>1, <3>1, <3>2, <3>5 DEF TransactionInv, LogFits, HandledFits, Processed
    <3>7. WaitingFits(d)'
      <4>1. Handled(d)' + 1 = Acked(d) + 2
        BY <3>2, <3>5
      <4> QED
        BY <1>1, <3>2, <4>1 DEF WaitingFits
    <3>8. UnackedFits(d)' /\ Missed(d)' /\ ProcessedPrefix(d)'
      BY <1>1 DEF TransactionInv, LogFits, UnackedFits, Missed, Kept, ProcessedPrefix, Processed
    <3> QED
      BY <1>10, <3>6, <3>7, <3>8 DEF LogFits
  <2> QED
    BY <2>2, <2>3
<1> QED
  BY <1>7, <1>8, <1>9, <1>12 DEF TransactionInv

-----------------------------------------------------------------------------
(* Passive tasks *)

\* All that precedes the change being looked at has been processed.
LEMMA RunningNext ==
  ASSUME TypeOK, NEW d \in Device, LogFits(d), running[d] # 0, log' = log,
         nonces'[d] \subseteq Processed(d)', Processed(d) \subseteq Processed(d)',
         Processed(d)' \subseteq Processed(d) \union {running[d]}
  PROVE  ProcessedPrefix(d)'
<1> DEFINE u == unacked[d]
           r == running[d]
           a == Acked(d)
<1>1. /\ log \in Seq(Device) /\ u \in Seq(Nat) /\ a \in Nat /\ r \in Nat /\ DOMAIN u = 1..Len(u)
      /\ DOMAIN log = 1..Len(log) /\ Len(log) \in Nat /\ Len(u) \in Nat
  <2>1. log \in Seq(Device) /\ u \in Seq(Nat) /\ r \in Nat
    BY DEF TypeOK
  <2>2. a \in Nat
    BY AcksFinite DEF TypeOK, Acked
  <2> QED
    BY <2>1, <2>2
<1>2. a + 1 \in 1..Len(u) /\ u[a + 1] = r /\ \A i \in 1..a : u[i] \in Processed(d)
  BY <1>1 DEF LogFits, HandledFits, Handled
<1>3. /\ \A i \in 1..Len(u) : u[i] \in 1..Len(log)
      /\ \A i, j \in 1..Len(u) : i < j => u[i] < u[j]
  BY <1>1 DEF LogFits, UnackedFits
<1> HIDE DEF u, r, a
<1>4. r \in 1..Len(log)
  BY <1>2, <1>3
<1>5. ASSUME NEW m \in 1..Len(log), m < r, log[m] # d PROVE m \in Processed(d)
  <2> SUFFICES ASSUME m \in Kept(d) PROVE m \in Processed(d)
    BY <1>5 DEF LogFits, Missed
  <2>1. PICK i \in 1..Len(u) : u[i] = m
    BY <1>1 DEF Kept, u
  <2>2. ~(a + 1 < i) /\ i # a + 1
    BY <1>1, <1>2, <1>3, <1>4, <1>5, <2>1
  <2>3. i \in 1..a
    BY <1>1, <2>1, <2>2
  <2> QED
    BY <1>2, <2>1, <2>3
<1>6. Processed(d)' \subseteq DOMAIN log
  BY <1>1, <1>4 DEF LogFits, ProcessedPrefix, r
<1>7. \A m, n \in 1..Len(log) :
        m < n /\ log[m] # d /\ log[n] # d /\ n \in Processed(d)' => m \in Processed(d)'
  <2> SUFFICES ASSUME NEW m \in 1..Len(log), NEW n \in 1..Len(log),
                      m < n, log[m] # d, log[n] # d, n \in Processed(d)'
               PROVE  m \in Processed(d)
    OBVIOUS
  <2>1. CASE n = r
    BY <1>5, <2>1
  <2>2. CASE n \in Processed(d)
    BY <2>2 DEF LogFits, ProcessedPrefix
  <2> QED
    BY <2>1, <2>2 DEF r
<1> QED
  BY <1>6, <1>7 DEF ProcessedPrefix

LEMMA UnionAt ==
  ASSUME NEW f \in [Device -> SUBSET Nat], NEW d \in Device, NEW n \in Nat,
         NEW g, g = f \/ g = [f EXCEPT ![d] = @ \union {n}]
  PROVE  /\ g \in [Device -> SUBSET Nat] /\ \A e \in Device : e # d => g[e] = f[e]
         /\ g = f \/ g[d] = f[d] \union {n}
<1> DEFINE S == SUBSET Nat
<1>1. f[d] \union {n} \in S /\ f \in [Device -> S]
  OBVIOUS
<1> HIDE DEF S
<1>2. g \in [Device -> S] /\ \A e \in Device : e # d => g[e] = f[e]
  BY <1>1
<1>3. g = f \/ g[d] = f[d] \union {n}
  BY <1>1
<1> QED
  BY <1>2, <1>3 DEF S

\* A change that was looked at is processed: applied or discarded.
LEMMA LookedAt ==
  ASSUME TransactionInv, NEW d \in Device, running[d] # 0, Process(d) \/ Known(d) \/ Discard(d)
  PROVE  /\ version' \in [Device -> Nat] /\ applied' \in [Device -> SUBSET Nat]
         /\ discarded' \in [Device -> SUBSET Nat] /\ nonces' \in [Device -> SUBSET Nat]
         /\ faults' \in 0..MaxFaults
         /\ \A e \in Device : e # d => /\ applied'[e] = applied[e] /\ nonces'[e] = nonces[e]
                                       /\ discarded'[e] = discarded[e]
         /\ running[d] \in Processed(d)' /\ Processed(d) \subseteq Processed(d)'
         /\ Processed(d)' \subseteq Processed(d) \union {running[d]}
         /\ nonces'[d] \subseteq Processed(d)'
<1> DEFINE r == running[d]
<1>1. /\ r \in Nat /\ version \in [Device -> Nat] /\ applied \in [Device -> SUBSET Nat]
      /\ discarded \in [Device -> SUBSET Nat] /\ nonces \in [Device -> SUBSET Nat]
      /\ faults \in 0..MaxFaults
  BY DEF TransactionInv, TypeOK
<1>2. nonces[d] \subseteq applied[d] \union discarded[d]
  BY DEF TransactionInv, LogFits, ProcessedPrefix, Processed
<1> HIDE DEF r
<1>3. /\ version' = version \/ version' = [version EXCEPT ![d] = r]
      /\ applied' = applied \/ applied' = [applied EXCEPT ![d] = @ \union {r}]
      /\ discarded' = discarded \/ discarded' = [discarded EXCEPT ![d] = @ \union {r}]
      /\ nonces' = nonces \/ nonces' = [nonces EXCEPT ![d] = @ \union {r}]
      /\ faults' = faults \/ (faults < MaxFaults /\ faults' = faults + 1)
  BY DEF Process, Known, Discard, Apply, CommitNonce, r
<1>4. version' \in [Device -> Nat] /\ faults' \in 0..MaxFaults
  BY <1>1, <1>3, TransactionAssumption
<1>5. /\ applied' \in [Device -> SUBSET Nat] /\ \A e \in Device : e # d => applied'[e] = applied[e]
      /\ applied' = applied \/ applied'[d] = applied[d] \union {r}
  BY <1>1, <1>3, UnionAt
<1>6. /\ discarded' \in [Device -> SUBSET Nat]
      /\ \A e \in Device : e # d => discarded'[e] = discarded[e]
      /\ discarded' = discarded \/ discarded'[d] = discarded[d] \union {r}
  BY <1>1, <1>3, UnionAt
<1>7. /\ nonces' \in [Device -> SUBSET Nat] /\ \A e \in Device : e # d => nonces'[e] = nonces[e]
      /\ nonces' = nonces \/ nonces'[d] = nonces[d] \union {r}
  BY <1>1, <1>3, UnionAt
<1>8. r \in applied'[d] \union discarded'[d]
  <2>1. CASE Process(d)
    BY <1>1, <2>1 DEF Process, Apply, r
  <2>2. CASE Known(d)
    BY <1>2, <2>2 DEF Known, r
  <2>3. CASE Discard(d)
    BY <1>1, <2>3 DEF Discard, r
  <2> QED
    BY <2>1, <2>2, <2>3
<1>9. /\ r \in Processed(d)' /\ Processed(d) \subseteq Processed(d)'
      /\ Processed(d)' \subseteq Processed(d) \union {r} /\ nonces'[d] \subseteq Processed(d)'
  BY <1>2, <1>5, <1>6, <1>7, <1>8 DEF Processed
<1> QED
  BY <1>4, <1>5, <1>6, <1>7, <1>9 DEF r

LEMMA FinishPassiveStep ==
  ASSUME TransactionInv, NEW d \in Device, FinishPassive(d)
  PROVE  TransactionInv'
<1> DEFINE r == running[d]
           u == unacked[d]
<1>1. /\ r # 0 /\ toServer' = [toServer EXCEPT ![d] = Append(@, "ack")]
      /\ running' = [running EXCEPT ![d] = 0]
      /\ UNCHANGED <<lock, log, unacked, toDevice, pc, snapshot, own, taskBacklog, backlog,
                     changes>>
      /\ Process(d) \/ Known(d) \/ Discard(d)
  BY DEF FinishPassive, Send, server, task
<1>2. /\ toServer' \in [Device -> Seq(Request)] /\ toServer'[d] = Append(toServer[d], "ack")
      /\ \A e \in Device : e # d => toServer'[e] = toServer[e]
  BY <1>1, AppendAt DEF TransactionInv, TypeOK, Request
<1>a. /\ version' \in [Device -> Nat] /\ applied' \in [Device -> SUBSET Nat]
      /\ discarded' \in [Device -> SUBSET Nat] /\ nonces' \in [Device -> SUBSET Nat]
      /\ faults' \in 0..MaxFaults
      /\ \A e \in Device : e # d => /\ applied'[e] = applied[e] /\ nonces'[e] = nonces[e]
                                    /\ discarded'[e] = discarded[e]
      /\ r \in Processed(d)' /\ Processed(d) \subseteq Processed(d)'
      /\ Processed(d)' \subseteq Processed(d) \union {r} /\ nonces'[d] \subseteq Processed(d)'
  BY <1>1, LookedAt
<1>3. /\ running' \in [Device -> Nat] /\ running'[d] = 0
      /\ \A e \in Device : e # d => running'[e] = running[e]
  BY <1>1 DEF TransactionInv, TypeOK
<1>4. TypeOK'
  BY <1>1, <1>2, <1>3, <1>a DEF TransactionInv, TypeOK
<1>5. ASSUME NEW e \in Device, e # d PROVE LogFits(e)' /\ TaskFits(e)'
  BY <1>1, <1>2, <1>3, <1>a, <1>5, OtherKept
<1>6. TaskFits(d)'
  BY <1>1, <1>2, AckKept DEF TransactionInv
<1>7. LogFits(d)'
  <2>1. Acked(d) \in Nat /\ Acked(d)' = Acked(d) + 1 /\ Handled(d)' = Handled(d)
        /\ Handled(d) = Acked(d) + 1
    <3>1. toServer[d] \in Seq(Request) /\ "ack" \in Request
      BY DEF TransactionInv, TypeOK, Request
    <3>2. Acked(d) \in Nat /\ Acked(d)' = Acked(d) + 1
      BY <1>2, <3>1, AcksFinite, AcksAppend DEF Acked
    <3> QED
      BY <1>1, <1>3, <3>2 DEF Handled
  <2>2. UnackedFits(d)'
    BY <1>1 DEF TransactionInv, LogFits, UnackedFits
  <2>3. HandledFits(d)'
    <3>1. u[Acked(d) + 1] = r /\ \A i \in 1..Acked(d) : u[i] \in Processed(d)
      BY <1>1 DEF TransactionInv, LogFits, HandledFits
    <3>2. \A i \in 1..Acked(d) + 1 : u[i] \in Processed(d)'
      <4>1. \A i \in 1..Acked(d) + 1 : i \in 1..Acked(d) \/ i = Acked(d) + 1
        BY <2>1
      <4> QED
        BY <1>a, <3>1, <4>1
    <3> QED
      BY <1>1, <1>3, <2>1, <3>2 DEF TransactionInv, LogFits, HandledFits
  <2>4. WaitingFits(d)'
    BY <1>1, <2>1 DEF TransactionInv, LogFits, WaitingFits, Waiting
  <2>5. WaitingInOrder(d)' /\ Missed(d)'
    BY <1>1, <1>a DEF TransactionInv, LogFits, WaitingInOrder, Missed, Kept
  <2>6. ProcessedPrefix(d)'
    BY <1>1, <1>a, RunningNext DEF TransactionInv
  <2> QED
    BY <2>2, <2>3, <2>4, <2>5, <2>6 DEF LogFits
<1> QED
  BY <1>4, <1>5, <1>6, <1>7 DEF TransactionInv

-----------------------------------------------------------------------------
(* What the task does not expect *)

LEMMA BypassOrBacklogStep ==
  ASSUME TransactionInv, NEW d \in Device, BypassOrBacklog(d)
  PROVE  TransactionInv'
<1> DEFINE q == IF FromBacklog(d) THEN taskBacklog[d] ELSE toDevice[d]
           m == Head(q)
<1>1. /\ taskBacklog[d] \in Seq(Message) /\ toDevice[d] \in Seq(Message)
      /\ backlog[d] \in Seq(Message)
  BY DEF TransactionInv, TypeOK
<1>2. /\ q \in Seq(Message) /\ q # <<>> /\ m \in Message /\ m = q[1] /\ 1 \in DOMAIN q
      /\ Upcoming(d) = m
  <2>1. q \in Seq(Message) /\ q # <<>>
    BY <1>1 DEF BypassOrBacklog, HasMessage, FromBacklog
  <2> QED
    BY <2>1 DEF Upcoming
<1>3. /\ Busy(d) /\ m.type \notin Expected[pc[d]]
      /\ UNCHANGED <<lock, log, unacked, toServer, snapshot, own, running, version, applied,
                     discarded, nonces, changes, faults>>
      /\ pc' = [pc EXCEPT ![d] = pc[d]]
      /\ taskBacklog' = [taskBacklog EXCEPT ![d] = Rest(d)]
      /\ toDevice' = IF FromBacklog(d) THEN toDevice ELSE [toDevice EXCEPT ![d] = Tail(@)]
      /\ backlog' = IF pc[d] = "rejected" /\ m.type = "rejected" THEN backlog
                    ELSE [backlog EXCEPT ![d] = Append(@, m)]
  BY <1>2 DEF BypassOrBacklog, Continue, TakeUpcoming, server, model
<1>4. pc' = pc /\ pc[d] \in {"begun", "rejected", "executing", "committing"}
  BY <1>3 DEF TransactionInv, TypeOK, Busy, Expected
<1>5. m.type \in {"reflected", "ended"}
  <2>1. CASE FromBacklog(d)
    BY <1>2, <2>1 DEF TransactionInv, TaskFits, BacklogFits, Unasked
  <2>2. CASE ~FromBacklog(d)
    <3> SUFFICES ASSUME m.type \notin {"reflected", "ended"} PROVE FALSE
      OBVIOUS
    <3>1. 1 \in Answering(d)
      BY <1>2, <2>2 DEF Answering
    <3> QED
      BY <1>2, <1>3, <2>2, <3>1 DEF TransactionInv, TaskFits, OneRequest
  <2> QED
    BY <2>1, <2>2
<1>6. /\ backlog' \in [Device -> Seq(Message)] /\ backlog'[d] = Append(backlog[d], m)
      /\ \A e \in Device : e # d => backlog'[e] = backlog[e]
  <2>1. backlog' = [backlog EXCEPT ![d] = Append(@, m)]
    BY <1>3, <1>5
  <2> HIDE DEF m
  <2> QED
    BY <1>2, <2>1, AppendAt DEF TransactionInv, TypeOK
<1>7. \/ /\ q = taskBacklog[d] /\ pc[d] = "begun" /\ toDevice' = toDevice
         /\ taskBacklog' \in [Device -> Seq(Message)] /\ taskBacklog'[d] = Tail(q)
         /\ \A e \in Device : e # d => taskBacklog'[e] = taskBacklog[e]
      \/ /\ q = toDevice[d] /\ taskBacklog[d] = <<>> /\ taskBacklog' = taskBacklog
         /\ toDevice' \in [Device -> Seq(Message)] /\ toDevice'[d] = Tail(q)
         /\ \A e \in Device : e # d => toDevice'[e] = toDevice[e]
  <2>1. CASE FromBacklog(d)
    <3>1. taskBacklog' = [taskBacklog EXCEPT ![d] = Tail(@)] /\ taskBacklog[d] # <<>>
      BY <1>3, <2>1 DEF Rest, FromBacklog, TransactionInv, TypeOK
    <3>2. pc[d] = "begun"
      BY <3>1 DEF TransactionInv, TaskFits, BacklogFits
    <3>3. q = taskBacklog[d] /\ toDevice' = toDevice
      BY <1>3, <2>1
    <3>4. taskBacklog \in [Device -> Seq(Message)]
      BY DEF TransactionInv, TypeOK
    <3>5. /\ taskBacklog' \in [Device -> Seq(Message)] /\ taskBacklog'[d] = Tail(taskBacklog[d])
          /\ \A e \in Device : e # d => taskBacklog'[e] = taskBacklog[e]
      BY <3>1, <3>4, TailAt
    <3> QED
      BY <3>2, <3>3, <3>5
  <2>2. CASE ~FromBacklog(d)
    <3>1. /\ toDevice' = [toDevice EXCEPT ![d] = Tail(@)] /\ toDevice[d] # <<>>
          /\ taskBacklog[d] = <<>> /\ taskBacklog' = taskBacklog
      BY <1>2, <1>3, <2>2 DEF Rest, FromBacklog, TransactionInv, TypeOK
    <3> QED
      BY <2>2, <3>1, TailAt DEF TransactionInv, TypeOK
  <2> QED
    BY <2>1, <2>2
<1> HIDE DEF q, m
<1>8. TypeOK'
  BY <1>3, <1>4, <1>6, <1>7 DEF TransactionInv, TypeOK
<1>9. ASSUME NEW e \in Device, e # d PROVE LogFits(e)' /\ TaskFits(e)'
  <2>1. toDevice'[e] = toDevice[e] /\ taskBacklog'[e] = taskBacklog[e] /\ backlog'[e] = backlog[e]
    BY <1>6, <1>7, <1>9
  <2> QED
    BY <1>3, <1>4, <2>1, OtherKept
<1>10. LogFits(d)'
  <2>1. /\ m.type = "reflected" => /\ ChangesIn(backlog'[d]) = ChangesIn(backlog[d]) \union {m.change}
                                   /\ ChangesIn(q) = {m.change} \union ChangesIn(Tail(q))
                                   /\ Ordered(q) => \A n \in ChangesIn(Tail(q)) : m.change < n
        /\ m.type # "reflected" => /\ ChangesIn(backlog'[d]) = ChangesIn(backlog[d])
                                   /\ ChangesIn(q) = ChangesIn(Tail(q))
    BY <1>1, <1>2, <1>6, ChangesAppend, ChangesTail, OrderedTail DEF m
  <2>2. Waiting(d)' = Waiting(d)
    BY <1>5, <1>7, <2>1 DEF Waiting
  <2>3. Ordered(q) /\ Ordered(Tail(q))
    BY <1>2, <1>7, OrderedTail DEF TransactionInv, LogFits, WaitingInOrder
  <2>4. m.type = "reflected" => \A n \in ChangesIn(backlog[d]) : n < m.change
    BY <1>7, <2>1 DEF TransactionInv, LogFits, WaitingInOrder, Before
  <2>5. Ordered(backlog'[d])
    BY <1>1, <1>2, <1>6, <2>4, OrderedAppend DEF TransactionInv, LogFits, WaitingInOrder
  <2>6. WaitingInOrder(d)'
    <3>1. CASE q = taskBacklog[d] /\ toDevice' = toDevice /\ taskBacklog'[d] = Tail(q)
      BY <2>1, <2>3, <2>5, <3>1 DEF TransactionInv, LogFits, WaitingInOrder, Before
    <3>2. CASE q = toDevice[d] /\ toDevice'[d] = Tail(q) /\ taskBacklog[d] = <<>>
               /\ taskBacklog' = taskBacklog
      BY <2>1, <2>3, <2>5, <3>2, NoChanges DEF TransactionInv, LogFits, WaitingInOrder, Before
    <3> QED
      BY <1>7, <3>1, <3>2
  <2> QED
    BY <1>3, <2>2, <2>6, LogKept DEF TransactionInv, Acked
<1>11. TaskFits(d)'
  <2>1. Unasked(backlog'[d])
    <3>1. /\ DOMAIN backlog'[d] = 1..Len(backlog[d]) + 1 /\ Len(backlog[d]) \in Nat
          /\ DOMAIN backlog[d] = 1..Len(backlog[d]) /\ backlog'[d][Len(backlog[d]) + 1] = m
      BY <1>1, <1>2, <1>6
    <3>2. \A i \in DOMAIN backlog[d] : backlog'[d][i] = backlog[d][i]
      BY <1>1, <1>2, <1>6
    <3> QED
      BY <1>5, <3>1, <3>2 DEF TransactionInv, TaskFits, BacklogFits, Unasked
  <2>2. Unasked(taskBacklog'[d])
    <3>1. Unasked(taskBacklog[d])
      BY DEF TransactionInv, TaskFits, BacklogFits
    <3>2. CASE q = taskBacklog[d] /\ taskBacklog'[d] = Tail(q)
      <4>1. \A i \in DOMAIN Tail(q) : i + 1 \in DOMAIN q /\ Tail(q)[i] = q[i + 1]
        BY <1>2
      <4> QED
        BY <3>1, <3>2, <4>1 DEF Unasked
    <3> QED
      BY <1>7, <3>1, <3>2
  <2>3. BacklogFits(d)'
    BY <1>3, <1>4, <1>7, <2>1, <2>2 DEF TransactionInv, TaskFits, BacklogFits
  <2>4. Asking(d)' = Asking(d)
    BY <1>3 DEF Asking
  <2>5. CASE toDevice' = toDevice
    BY <1>3, <1>4, <2>3, <2>4, <2>5 DEF TransactionInv, TaskFits, OneRequest, Answering, Asks, Expected
  <2>6. CASE q = toDevice[d] /\ toDevice'[d] = Tail(q)
    <3>1. \A i \in Answering(d)' : /\ i \in Nat /\ i + 1 \in Answering(d)
                                   /\ toDevice'[d][i] = toDevice[d][i + 1]
      BY <1>1, <1>2, <2>6 DEF Answering
    <3>2. \A i, j \in Answering(d)' : i = j
      <4> SUFFICES ASSUME NEW i \in Answering(d)', NEW j \in Answering(d)' PROVE i = j
        OBVIOUS
      <4>1. i + 1 = j + 1 /\ i \in Nat /\ j \in Nat
        BY <3>1 DEF TransactionInv, TaskFits, OneRequest
      <4> QED
        BY <4>1
    <3>3. \A i \in Asking(d)' : toServer'[d][i] = Asks(pc'[d])
      BY <1>3, <1>4, <2>4 DEF TransactionInv, TaskFits, OneRequest
    <3>4. \A i, j \in Asking(d)' : i = j
      BY <2>4 DEF TransactionInv, TaskFits, OneRequest
    <3>5. Asking(d)' = {} \/ Answering(d)' = {}
      BY <2>4, <3>1 DEF TransactionInv, TaskFits, OneRequest
    <3>6. \A i \in Answering(d)' :
            /\ pc'[d] \in {"begun", "executing", "committing"}
            /\ toDevice'[d][i].type \in Expected[pc'[d]]
            /\ pc'[d] = "executing" => /\ toDevice'[d][i].change \in DOMAIN log'
                                       /\ log'[toDevice'[d][i].change] = d
      <4>1. OneRequest(d) /\ log' = log /\ pc' = pc
        BY <1>3, <1>4 DEF TransactionInv, TaskFits
      <4> SUFFICES ASSUME NEW i \in Answering(d)'
                   PROVE  /\ pc[d] \in {"begun", "executing", "committing"}
                          /\ toDevice[d][i + 1].type \in Expected[pc[d]]
                          /\ pc[d] = "executing" => /\ toDevice[d][i + 1].change \in DOMAIN log
                                                    /\ log[toDevice[d][i + 1].change] = d
        BY <3>1, <4>1
      <4> QED
        BY <3>1, <4>1 DEF OneRequest
    <3>7. OneRequest(d)'
      BY <3>2, <3>3, <3>4, <3>5, <3>6 DEF OneRequest, Expected
    <3> QED
      BY <2>3, <3>7 DEF TaskFits
  <2> QED
    BY <1>7, <2>5, <2>6
<1> QED
  BY <1>8, <1>9, <1>10, <1>11 DEF TransactionInv

-----------------------------------------------------------------------------
(* What the task expects *)

\* A device may always apply its own changes.
LEMMA OwnApplied ==
  ASSUME TypeOK, NEW d \in Device, LogFits(d), log' = log, unacked'[d] = unacked[d],
         Acked(d)' = Acked(d), running'[d] = running[d], nonces'[d] = nonces[d],
         Waiting(d)' = Waiting(d), WaitingInOrder(d)', discarded'[d] = discarded[d],
         \/ applied'[d] = applied[d]
         \/ /\ own[d] \in DOMAIN log /\ log[own[d]] = d
            /\ applied'[d] = applied[d] \union {own[d]}
  PROVE  LogFits(d)'
<1>1. CASE applied'[d] = applied[d]
  BY <1>1, LogKept
<1>2. CASE /\ own[d] \in DOMAIN log /\ log[own[d]] = d
           /\ applied'[d] = applied[d] \union {own[d]}
  <2>0. Processed(d)' = Processed(d) \union {own[d]}
    BY <1>2 DEF Processed
  <2>1. UnackedFits(d)' /\ Missed(d)'
    BY <1>2, <2>0 DEF LogFits, UnackedFits, Missed, Kept
  <2>2. ProcessedPrefix(d)'
    BY <1>2, <2>0 DEF LogFits, ProcessedPrefix
  <2>3. Handled(d)' = Handled(d)
    BY DEF Handled
  <2>4. WaitingFits(d)'
    BY <2>3 DEF LogFits, WaitingFits
  <2>5. HandledFits(d)'
    BY <2>0, <2>3 DEF LogFits, HandledFits
  <2> QED
    BY <2>1, <2>2, <2>4, <2>5 DEF LogFits
<1> QED
  BY <1>1, <1>2

\* A task reads its answer, goes on or ends, and may send the next request.
LEMMA TaskReads ==
  ASSUME TransactionInv, NEW d \in Device, NEW type, Busy(d), type \in Expected[pc[d]], Read(d, type),
         NEW p \in {"idle", "begun", "rejected", "executing", "committing"},
         pc' = [pc EXCEPT ![d] = p],
         NEW n \in Nat, own' = [own EXCEPT ![d] = n],
         n # 0 => p = "committing" /\ n \in DOMAIN log /\ log[n] = d,
         \/ taskBacklog' = [taskBacklog EXCEPT ![d] = Rest(d)]
         \/ taskBacklog' = [taskBacklog EXCEPT ![d] = <<>>],
         \/ backlog' = backlog
         \/ backlog' = [backlog EXCEPT ![d] = Rest(d) \o @],
         \/ toServer' = toServer
         \/ \E r \in Request : /\ r # "ack" /\ r = Asks(p)
                               /\ toServer' = [toServer EXCEPT ![d] = Append(@, r)],
         \/ version' = version /\ applied' = applied
         \/ own[d] # 0 /\ Apply(d, own[d]),
         UNCHANGED <<lock, log, unacked, snapshot, running, discarded, nonces, changes, faults>>
  PROVE  TransactionInv'
<1>1. /\ taskBacklog[d] = <<>> /\ Rest(d) = <<>> /\ ~FromBacklog(d) /\ toDevice[d] # <<>>
      /\ Asking(d) = {} /\ Unasked(Tail(toDevice[d])) /\ Head(toDevice[d]).type # "reflected"
  BY AnswerRead DEF TransactionInv, Read
<1>2. /\ toDevice' \in [Device -> Seq(Message)] /\ toDevice'[d] = Tail(toDevice[d])
      /\ \A e \in Device : e # d => toDevice'[e] = toDevice[e]
  <2>1. toDevice' = [toDevice EXCEPT ![d] = Tail(@)]
    BY <1>1 DEF Read, TakeUpcoming
  <2> QED
    BY <1>1, <2>1, TailAt DEF TransactionInv, TypeOK
<1>3. taskBacklog' = taskBacklog
  <2>1. taskBacklog' = [taskBacklog EXCEPT ![d] = taskBacklog[d]]
    BY <1>1
  <2> QED
    BY <2>1, SameAt DEF TransactionInv, TypeOK
<1>4. backlog' = backlog
  <2>1. backlog[d] \in Seq(Message) /\ backlog \in [Device -> Seq(Message)]
    BY DEF TransactionInv, TypeOK
  <2>2. <<>> \o backlog[d] = backlog[d]
    BY <2>1
  <2>3. CASE backlog' = [backlog EXCEPT ![d] = Rest(d) \o @]
    <3>1. backlog' = [backlog EXCEPT ![d] = backlog[d]]
      BY <1>1, <2>2, <2>3
    <3> QED
      BY <2>1, <3>1
  <2> QED
    BY <2>3
<1>5. /\ toServer' \in [Device -> Seq(Request)]
      /\ \A e \in Device : e # d => toServer'[e] = toServer[e]
      /\ \/ toServer'[d] = toServer[d]
         \/ \E r \in Request : r # "ack" /\ r = Asks(p) /\ toServer'[d] = Append(toServer[d], r)
  <2>1. CASE toServer' = toServer
    BY <2>1 DEF TransactionInv, TypeOK
  <2>2. ASSUME NEW r \in Request, r # "ack", r = Asks(p),
               toServer' = [toServer EXCEPT ![d] = Append(@, r)]
        PROVE  /\ toServer' \in [Device -> Seq(Request)]
               /\ \A e \in Device : e # d => toServer'[e] = toServer[e]
               /\ toServer'[d] = Append(toServer[d], r)
    BY <2>2, AppendAt DEF TransactionInv, TypeOK
  <2> QED
    BY <2>1, <2>2
<1>6. /\ pc'[d] = p /\ own'[d] = n
      /\ \A e \in Device : e # d => pc'[e] = pc[e] /\ own'[e] = own[e] /\ applied'[e] = applied[e]
  <2>1. /\ pc'[d] = p /\ own'[d] = n
        /\ \A e \in Device : e # d => pc'[e] = pc[e] /\ own'[e] = own[e]
    BY DEF TransactionInv, TypeOK
  <2>2. \A e \in Device : e # d => applied'[e] = applied[e]
    BY DEF TransactionInv, TypeOK, Apply
  <2> QED
    BY <2>1, <2>2
<1>7. \/ applied'[d] = applied[d]
      \/ own[d] # 0 /\ applied'[d] = applied[d] \union {own[d]}
  BY DEF TransactionInv, TypeOK, Apply
<1>8. TypeOK'
  <2>1. version' \in [Device -> Nat] /\ applied' \in [Device -> SUBSET Nat]
    <3> DEFINE S == SUBSET Nat
    <3>1. own[d] \in Nat /\ version \in [Device -> Nat] /\ applied \in [Device -> S]
      BY DEF TransactionInv, TypeOK
    <3>2. applied[d] \union {own[d]} \in S
      BY <3>1
    <3> HIDE DEF S
    <3>3. version' \in [Device -> Nat] /\ applied' \in [Device -> S]
      BY <3>1, <3>2 DEF Apply
    <3> QED
      BY <3>3 DEF S
  <2>2. pc' \in [Device -> {"idle", "scheduled", "begun", "rejected", "executing", "committing"}]
    BY DEF TransactionInv, TypeOK
  <2>3. own' \in [Device -> Nat]
    BY DEF TransactionInv, TypeOK
  <2> QED
    BY <1>2, <1>3, <1>4, <1>5, <2>1, <2>2, <2>3 DEF TransactionInv, TypeOK
<1>9. ASSUME NEW e \in Device, e # d PROVE LogFits(e)' /\ TaskFits(e)'
  BY <1>2, <1>3, <1>4, <1>5, <1>6, <1>9, OtherKept
<1>10. LogFits(d)'
  <2>1. Waiting(d)' = Waiting(d) /\ WaitingInOrder(d)'
    BY <1>1, <1>2, <1>3, <1>4, QueueKept DEF TransactionInv, LogFits
  <2>2. Acked(d)' = Acked(d)
    BY <1>5, AckedKept DEF TransactionInv
  <2>3. own[d] # 0 => own[d] \in DOMAIN log /\ log[own[d]] = d
    BY DEF TransactionInv, TaskFits, BacklogFits
  <2> QED
    BY <1>7, <2>1, <2>2, <2>3, OwnApplied DEF TransactionInv
<1>11. TaskFits(d)'
  <2>1. BacklogFits(d)'
    <3>1. BacklogFits(d)
      BY DEF TransactionInv, TaskFits
    <3>2. taskBacklog'[d] = <<>> /\ backlog'[d] = backlog[d] /\ Unasked(taskBacklog'[d])
      BY <1>1, <1>3, <1>4, NoChanges
    <3>3. own'[d] # 0 => pc'[d] = "committing" /\ own'[d] \in DOMAIN log' /\ log'[own'[d]] = d
      BY <1>6, <3>1 DEF BacklogFits
    <3> QED
      BY <3>1, <3>2, <3>3 DEF BacklogFits
  <2>2. TypeOK /\ Asking(d) = {} /\ Unasked(toDevice'[d])
    BY <1>1, <1>2 DEF TransactionInv
  <2>3. \/ toServer'[d] = toServer[d]
        \/ \E r \in Request : r = Asks(pc'[d]) /\ toServer'[d] = Append(toServer[d], r)
    BY <1>5, <1>6
  <2> QED
    BY <2>1, <2>2, <2>3, TaskGoesOn
<1> QED
  BY <1>8, <1>9, <1>10, <1>11 DEF TransactionInv

LEMMA TaskStepKeeps ==
  ASSUME TransactionInv, NEW d \in Device,
         Rejected(d) \/ Retry(d) \/ Abort(d) \/ Open(d) \/ Commit(d) \/ Committed(d)
  PROVE  TransactionInv'
<1>1. own \in [Device -> Nat] /\ own = [own EXCEPT ![d] = own[d]]
  BY SameAt DEF TransactionInv, TypeOK
<1>2. pc[d] # "committing" => own = [own EXCEPT ![d] = 0]
  BY <1>1 DEF TransactionInv, TaskFits, BacklogFits
<1>3. CASE Rejected(d)
  <2>1. /\ pc[d] = "begun" /\ Read(d, "rejected") /\ pc' = [pc EXCEPT ![d] = "rejected"]
        /\ taskBacklog' = [taskBacklog EXCEPT ![d] = Rest(d)] /\ own' = own
        /\ UNCHANGED <<toServer, backlog, version, applied>>
        /\ UNCHANGED <<lock, log, unacked, snapshot, running, discarded, nonces, changes, faults>>
    BY <1>3 DEF Rejected, Continue, server, model
  <2>2. Busy(d) /\ "rejected" \in Expected[pc[d]]
    BY <2>1 DEF Busy, Expected
  <2> QED
    BY <1>2, <2>1, <2>2, TaskReads
<1>4. CASE Retry(d)
  <2>1. /\ pc[d] = "rejected" /\ Read(d, "ended") /\ pc' = [pc EXCEPT ![d] = "begun"]
        /\ taskBacklog' = [taskBacklog EXCEPT ![d] = Rest(d)] /\ own' = own
        /\ toServer' = [toServer EXCEPT ![d] = Append(@, "begin")]
        /\ UNCHANGED <<backlog, version, applied>>
        /\ UNCHANGED <<lock, log, unacked, snapshot, running, discarded, nonces, changes, faults>>
    BY <1>4 DEF Retry, Continue, Send, server, model
  <2>2. /\ Busy(d) /\ "ended" \in Expected[pc[d]]
        /\ "begin" \in Request /\ "begin" = Asks("begun")
    BY <2>1 DEF Busy, Expected, Asks, Request
  <2> QED
    BY <1>2, <2>1, <2>2, TaskReads
<1>5. CASE Abort(d)
  <2>1. /\ pc[d] = "rejected" /\ Read(d, "ended") /\ pc' = [pc EXCEPT ![d] = "idle"]
        /\ taskBacklog' = [taskBacklog EXCEPT ![d] = <<>>]
        /\ own' = [own EXCEPT ![d] = 0]
        /\ backlog' = [backlog EXCEPT ![d] = Rest(d) \o @]
        /\ UNCHANGED <<toServer, version, applied>>
        /\ UNCHANGED <<lock, log, unacked, snapshot, running, discarded, nonces, changes, faults>>
    BY <1>5 DEF Abort, EndTask, server, model
  <2>2. Busy(d) /\ "ended" \in Expected[pc[d]]
    BY <2>1 DEF Busy, Expected
  <2> QED
    BY <2>1, <2>2, TaskReads
<1>6. CASE Open(d)
  <2>1. /\ pc[d] = "begun" /\ Read(d, "beginAck")
        /\ taskBacklog' = [taskBacklog EXCEPT ![d] = Rest(d)] /\ own' = own
        /\ UNCHANGED <<backlog, version, applied>>
        /\ UNCHANGED <<lock, log, unacked, snapshot, running, discarded, nonces, changes, faults>>
    BY <1>6 DEF Open, Continue, server, model
  <2>2. \/ /\ pc' = [pc EXCEPT ![d] = "executing"]
           /\ toServer' = [toServer EXCEPT ![d] = Append(@, "reflect")]
        \/ /\ pc' = [pc EXCEPT ![d] = "committing"]
           /\ toServer' = [toServer EXCEPT ![d] = Append(@, "commit")]
    BY <1>6 DEF Open, Continue, Send
  <2>3. /\ Busy(d) /\ "beginAck" \in Expected[pc[d]]
        /\ "reflect" \in Request /\ "reflect" = Asks("executing")
        /\ "commit" \in Request /\ "commit" = Asks("committing")
    BY <2>1 DEF Busy, Expected, Asks, Request
  <2> QED
    BY <1>2, <2>1, <2>2, <2>3, TaskReads
<1>7. CASE Commit(d)
  <2> DEFINE n == Upcoming(d).change
  <2>1. /\ pc[d] = "executing" /\ Read(d, "reflectAck") /\ pc' = [pc EXCEPT ![d] = "committing"]
        /\ taskBacklog' = [taskBacklog EXCEPT ![d] = Rest(d)] /\ own' = [own EXCEPT ![d] = n]
        /\ toServer' = [toServer EXCEPT ![d] = Append(@, "commit")]
        /\ UNCHANGED <<backlog, version, applied>>
        /\ UNCHANGED <<lock, log, unacked, snapshot, running, discarded, nonces, changes, faults>>
    BY <1>7 DEF Commit, Continue, Send, server, model
  <2>2. /\ Busy(d) /\ "reflectAck" \in Expected[pc[d]]
        /\ "commit" \in Request /\ "commit" = Asks("committing")
    BY <2>1 DEF Busy, Expected, Asks, Request
  <2>3. /\ HasMessage(d) /\ Upcoming(d).type = "reflectAck"
    BY <2>1 DEF Read
  <2>4. Upcoming(d) = Head(toDevice[d]) /\ toDevice[d] # <<>> /\ toDevice[d] \in Seq(Message)
    <3>1. toDevice[d] \in Seq(Message)
      BY DEF TransactionInv, TypeOK
    <3> QED
      BY <2>2, <2>3, <3>1, AnswerRead DEF TransactionInv
  <2>5. 1 \in Answering(d) /\ toDevice[d][1] = Upcoming(d) /\ n \in Nat
    BY <2>3, <2>4 DEF Answering, Message, Reflected, Answers
  <2>6. n \in DOMAIN log /\ log[n] = d
    BY <2>1, <2>5 DEF TransactionInv, TaskFits, OneRequest
  <2> HIDE DEF n
  <2> QED
    BY <2>1, <2>2, <2>5, <2>6, TaskReads
<1>8. CASE Committed(d)
  <2>1. /\ pc[d] = "committing" /\ Read(d, "commitAck") /\ pc' = [pc EXCEPT ![d] = "idle"]
        /\ taskBacklog' = [taskBacklog EXCEPT ![d] = <<>>]
        /\ own' = [own EXCEPT ![d] = 0]
        /\ backlog' = [backlog EXCEPT ![d] = Rest(d) \o @]
        /\ toServer' = toServer
        /\ \/ version' = version /\ applied' = applied
           \/ own[d] # 0 /\ Apply(d, own[d])
        /\ UNCHANGED <<lock, log, unacked, snapshot, running, discarded, nonces, changes, faults>>
    BY <1>8 DEF Committed, EndTask, server
  <2>2. Busy(d) /\ "commitAck" \in Expected[pc[d]]
    BY <2>1 DEF Busy, Expected
  <2> QED
    BY <2>1, <2>2, TaskReads
<1> QED
  BY <1>3, <1>4, <1>5, <1>6, <1>7, <1>8

-----------------------------------------------------------------------------
(* A lost connection *)

LEMMA ReconnectStep ==
  ASSUME TransactionInv, NEW d \in Device, Reconnect(d)
  PROVE  TransactionInv'
<1> DEFINE u == unacked[d]
           t == [i \in 1..Len(u) |-> Msg("reflected", u[i])]
           r == running[d]
<1>1. /\ faults < MaxFaults /\ faults' = faults + 1
      /\ pc' = [pc EXCEPT ![d] = "idle"] /\ own' = [own EXCEPT ![d] = 0]
      /\ backlog' = [backlog EXCEPT ![d] = <<>>]
      /\ taskBacklog' = [taskBacklog EXCEPT ![d] = <<>>]
      /\ toServer' = [toServer EXCEPT ![d] = <<>>]
      /\ lock' \in {NoDevice, lock}
      /\ running' = [running EXCEPT ![d] = 0]
      /\ \/ r # 0 /\ r \notin discarded[d] /\ Apply(d, r)
         \/ UNCHANGED <<version, applied>>
      /\ UNCHANGED <<log, unacked, snapshot, discarded, nonces, changes>>
  BY DEF Reconnect
<1>2. /\ u \in Seq(Nat) /\ Len(u) \in Nat /\ DOMAIN u = 1..Len(u) /\ r \in Nat
      /\ \A i \in 1..Len(u) : u[i] \in Nat
  <2>1. u \in Seq(Nat) /\ r \in Nat
    BY DEF TransactionInv, TypeOK
  <2> QED
    BY <2>1
<1>3. /\ t \in Seq(Message) /\ DOMAIN t = 1..Len(u)
      /\ \A i \in 1..Len(u) : t[i].type = "reflected" /\ t[i].change = u[i]
  <2>1. \A i \in 1..Len(u) : /\ Msg("reflected", u[i]) \in Message
                             /\ Msg("reflected", u[i]).type = "reflected"
                             /\ Msg("reflected", u[i]).change = u[i]
    BY <1>2 DEF Msg, Message, Reflected
  <2> HIDE DEF u
  <2> QED
    BY <1>2, <2>1
<1>4. /\ toDevice' \in [Device -> Seq(Message)] /\ toDevice'[d] = t
      /\ \A e \in Device : e # d => \/ toDevice'[e] = toDevice[e]
                                    \/ toDevice'[e] = Append(toDevice[e], Msg("ended", 0))
  <2> DEFINE f == IF lock = d THEN Broadcast(d, Msg("ended", 0)) ELSE toDevice
  <2>1. toDevice' = [f EXCEPT ![d] = t]
    BY DEF Reconnect
  <2>2. \A e \in Device : toDevice[e] \in Seq(Message) /\ Msg("ended", 0) \in Message
    BY DEF TransactionInv, TypeOK, Msg, Message, Answers
  <2>3. /\ f \in [Device -> Seq(Message)]
        /\ \A e \in Device : e # d => \/ f[e] = toDevice[e]
                                      \/ f[e] = Append(toDevice[e], Msg("ended", 0))
    <3>1. CASE lock = d
      <4>1. \A e \in Device : Append(toDevice[e], Msg("ended", 0)) \in Seq(Message)
        BY <2>2
      <4>2. f = [e \in Device |-> IF e = d THEN toDevice[e] ELSE Append(toDevice[e], Msg("ended", 0))]
        BY <3>1 DEF Broadcast
      <4> HIDE DEF f
      <4> QED
        BY <2>2, <4>1, <4>2
    <3>2. CASE lock # d
      BY <3>2 DEF TransactionInv, TypeOK
    <3> QED
      BY <3>1, <3>2
  <2> DEFINE Q == Seq(Message)
  <2>4. f \in [Device -> Q] /\ t \in Q
    BY <1>3, <2>3
  <2> HIDE DEF f, t, Q
  <2>5. toDevice' \in [Device -> Q] /\ toDevice'[d] = t /\ \A e \in Device : e # d => toDevice'[e] = f[e]
    BY <2>1, <2>4
  <2> QED
    BY <2>3, <2>5 DEF Q
<1> HIDE DEF t
<1>5. /\ pc'[d] = "idle" /\ own'[d] = 0 /\ backlog'[d] = <<>> /\ taskBacklog'[d] = <<>>
      /\ toServer'[d] = <<>> /\ running'[d] = 0
      /\ \A e \in Device : e # d =>
            /\ pc'[e] = pc[e] /\ own'[e] = own[e] /\ backlog'[e] = backlog[e]
            /\ taskBacklog'[e] = taskBacklog[e] /\ toServer'[e] = toServer[e]
            /\ running'[e] = running[e] /\ applied'[e] = applied[e]
  BY <1>1 DEF TransactionInv, TypeOK, Apply
<1>6. /\ Processed(d) \subseteq Processed(d)'
      /\ \/ Processed(d)' = Processed(d)
         \/ r # 0 /\ Processed(d)' \subseteq Processed(d) \union {r}
  <2>1. \/ applied'[d] = applied[d]
        \/ r # 0 /\ applied'[d] = applied[d] \union {r}
    BY <1>1 DEF TransactionInv, TypeOK, Apply
  <2> HIDE DEF r
  <2> QED
    BY <1>1, <2>1 DEF Processed
<1>7. TypeOK'
  <2>1. /\ version' \in [Device -> Nat] /\ applied' \in [Device -> SUBSET Nat]
        /\ running' \in [Device -> Nat]
    <3> DEFINE S == SUBSET Nat
    <3>1. /\ r \in Nat /\ version \in [Device -> Nat] /\ applied \in [Device -> S]
          /\ running \in [Device -> Nat]
      BY DEF TransactionInv, TypeOK
    <3>2. applied[d] \union {r} \in S
      BY <3>1
    <3> HIDE DEF S, r
    <3>3. version' \in [Device -> Nat] /\ applied' \in [Device -> S] /\ running' \in [Device -> Nat]
      BY <1>1, <3>1, <3>2 DEF Apply
    <3> QED
      BY <3>3 DEF S
  <2>2. /\ backlog' \in [Device -> Seq(Message)] /\ taskBacklog' \in [Device -> Seq(Message)]
        /\ toServer' \in [Device -> Seq(Request)]
    <3> DEFINE Q == Seq(Message)
               R == Seq(Request)
    <3>1. <<>> \in Q /\ <<>> \in R
      OBVIOUS
    <3>2. backlog \in [Device -> Q] /\ taskBacklog \in [Device -> Q] /\ toServer \in [Device -> R]
      BY DEF TransactionInv, TypeOK
    <3> HIDE DEF Q, R
    <3>3. backlog' \in [Device -> Q] /\ taskBacklog' \in [Device -> Q] /\ toServer' \in [Device -> R]
      BY <1>1, <3>1, <3>2
    <3> QED
      BY <3>3 DEF Q, R
  <2>3. /\ lock' \in Device \union {NoDevice} /\ faults' \in 0..MaxFaults
        /\ pc' \in [Device -> {"idle", "scheduled", "begun", "rejected", "executing", "committing"}]
        /\ own' \in [Device -> Nat]
    <3>1. lock' \in Device \union {NoDevice} /\ faults' \in 0..MaxFaults
      <4>1. lock \in Device \union {NoDevice} /\ faults \in 0..MaxFaults
        BY DEF TransactionInv, TypeOK
      <4> QED
        BY <1>1, <4>1, TransactionAssumption
    <3>2. /\ pc \in [Device -> {"idle", "scheduled", "begun", "rejected", "executing", "committing"}]
          /\ own \in [Device -> Nat]
      BY DEF TransactionInv, TypeOK
    <3> QED
      BY <1>1, <3>1, <3>2
  <2> QED
    BY <1>1, <1>4, <2>1, <2>2, <2>3 DEF TransactionInv, TypeOK
<1>8. ASSUME NEW e \in Device, e # d PROVE LogFits(e)' /\ TaskFits(e)'
  BY <1>1, <1>4, <1>5, <1>8, OtherKept
<1>9. LogFits(d)'
  <2>1. LogFits(d)
    BY DEF TransactionInv
  <2>2. Acked(d)' = 0 /\ Handled(d)' = 0
    BY <1>5, NoAcks DEF Acked, Handled
  <2>3. ChangesIn(t) = {u[i] : i \in 1..Len(u)}
    <3>1. {j \in DOMAIN t : t[j].type = "reflected"} = 1..Len(u)
      BY <1>3
    <3> HIDE DEF u
    <3> QED
      BY <1>3, <3>1 DEF ChangesIn
  <2>4. Ordered(t)
    BY <1>2, <1>3, <2>1 DEF Ordered, LogFits, UnackedFits
  <2>5. UnackedFits(d)' /\ Missed(d)'
    BY <1>1, <1>6, <2>1 DEF LogFits, UnackedFits, Missed, Kept
  <2>6. HandledFits(d)'
    BY <1>1, <1>2, <1>5, <2>2 DEF HandledFits
  <2>7. WaitingFits(d)'
    <3>1. Waiting(d)' = ChangesIn(t)
      <4>1. ChangesIn(backlog'[d]) = {} /\ ChangesIn(taskBacklog'[d]) = {}
        BY <1>5, NoChanges
      <4>2. ChangesIn(toDevice'[d]) = ChangesIn(t)
        BY <1>4
      <4> QED
        BY <4>1, <4>2 DEF Waiting
    <3>2. unacked'[d] = u
      BY <1>1
    <3> HIDE DEF u
    <3>3. Waiting(d)' = {unacked'[d][i] : i \in Handled(d)' + 1 .. Len(unacked'[d])}
      BY <2>2, <2>3, <3>1, <3>2
    <3> QED
      BY <3>3 DEF WaitingFits
  <2>8. WaitingInOrder(d)'
    BY <1>4, <1>5, <2>4, NoChanges DEF WaitingInOrder, Before
  <2>9. ProcessedPrefix(d)'
    <3>1. nonces'[d] \subseteq Processed(d)'
      BY <1>1, <1>6, <2>1 DEF LogFits, ProcessedPrefix
    <3>2. CASE Processed(d)' = Processed(d)
      BY <1>1, <2>1, <3>2 DEF LogFits, ProcessedPrefix
    <3>3. CASE r # 0 /\ Processed(d)' \subseteq Processed(d) \union {r}
      BY <1>1, <1>6, <2>1, <3>1, <3>3, RunningNext DEF TransactionInv
    <3> QED
      BY <1>6, <3>2, <3>3
  <2> QED
    BY <2>5, <2>6, <2>7, <2>8, <2>9 DEF LogFits
<1>10. TaskFits(d)'
  <2>1. Asking(d)' = {} /\ Answering(d)' = {}
    BY <1>3, <1>4, <1>5 DEF Asking, Answering
  <2>2. BacklogFits(d)'
    BY <1>5, NoChanges DEF BacklogFits
  <2> QED
    BY <2>1, <2>2 DEF TaskFits, OneRequest
<1> QED
  BY <1>7, <1>8, <1>9, <1>10 DEF TransactionInv

-----------------------------------------------------------------------------
(* The invariant *)

LEMMA StutterStep == ASSUME TransactionInv, UNCHANGED vars PROVE TransactionInv'
<1>1. /\ UNCHANGED <<lock, log, unacked, toServer, toDevice, pc, snapshot, own, taskBacklog,
                     backlog, running, version, applied, discarded, nonces, changes, faults>>
  BY DEF vars, server, wire, task, model
<1>2. TypeOK'
  BY <1>1 DEF TransactionInv, TypeOK
<1>3. ASSUME NEW d \in Device PROVE LogFits(d)' /\ TaskFits(d)'
  BY <1>1, OtherKept
<1> QED
  BY <1>2, <1>3 DEF TransactionInv

LEMMA NextInvariant == TransactionInv /\ [Next]_vars => TransactionInv'
<1> SUFFICES ASSUME TransactionInv, [Next]_vars PROVE TransactionInv'
  OBVIOUS
<1>1. CASE UNCHANGED vars
  BY <1>1, StutterStep
<1>2. ASSUME NEW d \in Device, Serve(d) PROVE TransactionInv'
  BY <1>2, ServeBeginStep, ServeReflectStep, ServeCommitStep, ServeAckStep DEF Serve
<1>3. ASSUME NEW d \in Device, Schedule(d) PROVE TransactionInv'
  BY <1>3, ScheduleStep
<1>4. ASSUME NEW d \in Device, TaskStep(d) PROVE TransactionInv'
  BY <1>4, StartTransactionStep, TaskStepKeeps DEF TaskStep
<1>5. ASSUME NEW d \in Device, LoopStep(d) PROVE TransactionInv'
  BY <1>5, ProcessMessageStep, FinishPassiveStep, BypassOrBacklogStep DEF LoopStep
<1>6. ASSUME NEW d \in Device, Reconnect(d) PROVE TransactionInv'
  BY <1>6, ReconnectStep
<1> QED
  BY <1>1, <1>2, <1>3, <1>4, <1>5, <1>6 DEF Next

\* Whatever is lost, rejected or put off, the queues of a device hold the changes
\* that the server keeps for it, in the order of the server's log.
THEOREM TransactionInvariance == Spec => []TransactionInv
<1>1. Init => TransactionInv
  BY InitInvariant
<1>2. TransactionInv /\ [Next]_vars => TransactionInv'
  BY NextInvariant
<1> QED
  BY <1>1, <1>2, PTL DEF Spec

\* The transaction of a device has its type.
THEOREM TransactionTypeCorrect == Spec => []TypeOK
<1>1. TransactionInv => TypeOK
  BY DEF TransactionInv
<1> QED
  BY <1>1, TransactionInvariance, PTL

\* NoChangeMissed: a lost connection loses no change, and what the server no longer
\* keeps was applied or discarded.
THEOREM NothingMissed == Spec => []NoChangeMissed
<1>1. TransactionInv => NoChangeMissed
  BY DEF TransactionInv, LogFits, Missed, NoChangeMissed
<1> QED
  BY <1>1, TransactionInvariance, PTL

\* The server's log only grows.
LEMMA LogExtends ==
  ASSUME TransactionInv, [Next]_vars
  PROVE  \A k \in DOMAIN log : k \in DOMAIN log' /\ log'[k] = log[k]
<1>1. log \in Seq(Device)
  BY DEF TransactionInv, TypeOK
<1>2. CASE log' = log
  BY <1>2
<1>3. ASSUME NEW d \in Device, log' = Append(log, d)
      PROVE  \A k \in DOMAIN log : k \in DOMAIN log' /\ log'[k] = log[k]
  BY <1>1, <1>3
<1>4. log' = log \/ \E d \in Device : log' = Append(log, d)
  BY DEF Next, Serve, ServeBegin, ServeReflect, ServeCommit, ServeAck, Schedule, TaskStep,
         StartTransaction, Rejected, Retry, Abort, Open, Commit, Committed, LoopStep,
         ProcessMessage, FinishPassive, BypassOrBacklog, Reconnect, vars, server
<1> QED
  BY <1>2, <1>3, <1>4

\* A change of another device is not applied once it was discarded.
LEMMA NewlyApplied ==
  ASSUME TransactionInv, [Next]_vars, NEW d \in Device, NEW n \in applied'[d] \ applied[d],
         log[n] # d
  PROVE  n \notin discarded[d]
<1>1. applied \in [Device -> SUBSET Nat]
  BY DEF TransactionInv, TypeOK
<1>2. applied' # applied
  OBVIOUS
<1>3. PICK e \in Device : FinishPassive(e) \/ Reconnect(e) \/ Committed(e)
  <2>1. PICK e \in Device : Serve(e) \/ Schedule(e) \/ TaskStep(e) \/ LoopStep(e) \/ Reconnect(e)
    BY <1>2 DEF Next, vars, model
  <2>2. ~(ServeBegin(e) \/ ServeReflect(e) \/ ServeCommit(e) \/ ServeAck(e) \/ Schedule(e))
    BY <1>2 DEF ServeBegin, ServeReflect, ServeCommit, ServeAck, Schedule, model
  <2>3. ~(StartTransaction(e) \/ Rejected(e) \/ Retry(e) \/ Open(e) \/ Commit(e) \/ Abort(e))
    BY <1>2 DEF StartTransaction, Rejected, Retry, Open, Commit, Abort, model
  <2>4. ~(ProcessMessage(e) \/ BypassOrBacklog(e))
    BY <1>2 DEF ProcessMessage, BypassOrBacklog, model
  <2> QED
    BY <2>1, <2>2, <2>3, <2>4 DEF Serve, TaskStep, LoopStep
<1>4. CASE Process(e) \/ Reconnect(e)
  <2>1. applied' = [applied EXCEPT ![e] = @ \union {running[e]}] /\ running[e] \notin discarded[e]
    BY <1>2, <1>4 DEF Process, Reconnect, Apply
  <2>2. e = d /\ n = running[e]
    BY <1>1, <2>1
  <2> QED
    BY <2>1, <2>2
<1>5. CASE Committed(e)
  <2>1. applied' = [applied EXCEPT ![e] = @ \union {own[e]}] /\ own[e] # 0
    BY <1>2, <1>5 DEF Committed, Apply
  <2>2. e = d /\ n = own[e]
    BY <1>1, <2>1
  <2>3. log[own[e]] = e
    BY <2>1 DEF TransactionInv, TaskFits, BacklogFits
  <2> QED
    BY <2>2, <2>3
<1> QED
  BY <1>2, <1>3, <1>4, <1>5 DEF FinishPassive, Known, Discard

\* AppliedInOrder: a change of another device is never applied for the first time
\* after a younger one.
THEOREM OrderKept == Spec => AppliedInOrder
<1> DEFINE Older == \A d \in Device : \A n \in applied'[d] \ applied[d] :
                         log'[n] # d => \A k \in applied[d] : log[k] # d => k < n
<1>1. TransactionInv /\ [Next]_vars => Older
  <2> SUFFICES ASSUME TransactionInv, [Next]_vars, NEW d \in Device, NEW n \in applied'[d] \ applied[d],
                      log'[n] # d, NEW k \in applied[d], log[k] # d
               PROVE  k < n
    OBVIOUS
  <2>1. TransactionInv'
    BY NextInvariant
  <2>2. /\ log \in Seq(Device) /\ log' \in Seq(Device) /\ n \in DOMAIN log' /\ k \in DOMAIN log
    BY <2>1 DEF TransactionInv, TypeOK, LogFits, ProcessedPrefix, Processed
  <2>3. n \in Nat /\ n >= 1 /\ k \in 1..Len(log) /\ Len(log) \in Nat
    BY <2>2
  <2> SUFFICES ASSUME n < k PROVE FALSE
    BY <2>3
  <2>4. n \in 1..Len(log) /\ n \in DOMAIN log
    BY <2>2, <2>3
  <2>5. log[n] # d
    BY <2>4, LogExtends
  <2>6. n \in discarded[d]
    <3>1. k \in 1..Len(log) /\ k \in Processed(d)
      BY <2>3 DEF Processed
    <3>2. n \in Processed(d)
      BY <2>4, <2>5, <3>1 DEF TransactionInv, LogFits, ProcessedPrefix
    <3> QED
      BY <3>2 DEF Processed
  <2>7. n \notin discarded[d]
    BY <2>5, NewlyApplied
  <2> QED
    BY <2>6, <2>7
<1>2. TransactionInv /\ [Next]_vars => [Older]_vars
  BY <1>1
<1> QED
  BY <1>2, TransactionInvariance, PTL DEF Spec, AppliedInOrder

-----------------------------------------------------------------------------
(* What the devices share *)

LEMMA InitShared == Init => Log!Init
  BY DEF Init, Log!Init

\* The change that is being looked at is the oldest one that is not acknowledged.
LEMMA RunningIsNext ==
  ASSUME TransactionInv, NEW d \in Device, running[d] # 0
  PROVE  running[d] \in Log!NextOf(d)
<1> DEFINE u == unacked[d]
           i == Acked(d) + 1
<1>1. u \in Seq(Nat) /\ DOMAIN u = 1..Len(u) /\ Len(u) \in Nat
  <2>1. u \in Seq(Nat)
    BY DEF TransactionInv, TypeOK
  <2> QED
    BY <2>1
<1>2. Acked(d) \in Nat
  BY AcksFinite DEF TransactionInv, TypeOK, Acked
<1>3. /\ i <= Len(u) /\ u[i] = running[d]
      /\ \A j \in 1..Acked(d) : u[j] \in applied[d] \union discarded[d]
  BY DEF TransactionInv, LogFits, HandledFits, Handled, Processed
<1>4. i \in DOMAIN u /\ 1..(i - 1) = 1..Acked(d)
  BY <1>1, <1>2, <1>3
<1> HIDE DEF i
<1>5. \A j \in 1..(i - 1) : u[j] \in Log!Processed(d)
  BY <1>3, <1>4 DEF Log!Processed
<1> QED
  BY <1>3, <1>4, <1>5 DEF Log!NextOf

\* What is acknowledged was processed.
LEMMA DropsProcessed ==
  ASSUME TransactionInv, NEW d \in Device, ServeAck(d)
  PROVE  Log!Drop(d)
<1> DEFINE u == unacked[d]
           s == toServer[d]
<1>1. /\ s # <<>> /\ Head(s) = "ack" /\ unacked' = [unacked EXCEPT ![d] = Tail(@)]
      /\ UNCHANGED <<log, applied, discarded>>
  BY DEF ServeAck, Receive, model
<1>2. u \in Seq(Nat) /\ s \in Seq(Request)
  BY DEF TransactionInv, TypeOK
<1>3. Acked(d) \in Nat /\ Acked(d) >= 1
  <2>1. Tail(s) \in Seq(Request)
    BY <1>1, <1>2
  <2>2. Acks(s) = Acks(Tail(s)) + 1 /\ Acks(Tail(s)) \in Nat
    BY <1>1, <1>2, <2>1, AcksTail, AcksFinite
  <2> HIDE DEF s
  <2>3. Acks(s) \in Nat /\ Acks(s) >= 1
    BY <2>2
  <2> QED
    BY <2>3 DEF s, Acked
<1>4. u[1] \in Processed(d) /\ Acked(d) <= Len(u)
  <2>1. Handled(d) <= Len(u) /\ \A i \in 1..Acked(d) : u[i] \in Processed(d)
    BY DEF TransactionInv, LogFits, HandledFits
  <2>2. Acked(d) <= Handled(d) /\ Handled(d) \in Nat
    BY <1>3 DEF Handled
  <2>3. 1 \in 1..Acked(d) /\ Len(u) \in Nat
    BY <1>2, <1>3
  <2> HIDE DEF u
  <2> QED
    BY <1>3, <2>1, <2>2, <2>3
<1>5. u # <<>> /\ Head(u) = u[1]
  BY <1>2, <1>3, <1>4
<1> QED
  BY <1>1, <1>4, <1>5 DEF Log!Drop, Log!Processed, Processed

LEMMA StepShared == TransactionInv /\ [Next]_vars => [Log!Next]_Log!vars
<1> SUFFICES ASSUME TransactionInv, [Next]_vars, ~UNCHANGED <<log, unacked, applied, discarded>>
             PROVE  Log!Next
  BY DEF Log!vars
<1>1. PICK d \in Device : ServeReflect(d) \/ ServeAck(d) \/ FinishPassive(d) \/ Committed(d)
                          \/ Reconnect(d)
  <2>1. ~UNCHANGED vars
    BY DEF vars, server, model
  <2>2. PICK d \in Device : Serve(d) \/ Schedule(d) \/ TaskStep(d) \/ LoopStep(d) \/ Reconnect(d)
    BY <2>1 DEF Next
  <2>3. ~(ServeBegin(d) \/ ServeCommit(d) \/ Schedule(d))
    BY DEF ServeBegin, ServeCommit, Schedule, server, model
  <2>4. ~(StartTransaction(d) \/ Rejected(d) \/ Retry(d) \/ Open(d) \/ Commit(d) \/ Abort(d))
    BY DEF StartTransaction, Rejected, Retry, Open, Commit, Abort, server, model
  <2>5. ~(ProcessMessage(d) \/ BypassOrBacklog(d))
    BY DEF ProcessMessage, BypassOrBacklog, server, model
  <2> QED
    BY <2>2, <2>3, <2>4, <2>5 DEF Serve, TaskStep, LoopStep
<1>2. CASE ServeReflect(d)
  <2>1. Log!Write(d)
    BY <1>2 DEF ServeReflect, model, Log!Write
  <2> QED
    BY <2>1 DEF Log!Next
<1>3. CASE ServeAck(d)
  BY <1>3, DropsProcessed DEF Log!Next
<1>4. CASE FinishPassive(d) \/ Reconnect(d)
  <2>1. UNCHANGED <<log, unacked>>
    BY <1>4 DEF FinishPassive, Reconnect, server
  <2>2. CASE Process(d) \/ Reconnect(d)
    <3>1. /\ running[d] # 0 /\ running[d] \notin discarded[d] /\ UNCHANGED discarded
          /\ applied' = [applied EXCEPT ![d] = @ \union {running[d]}]
      BY <1>4, <2>1, <2>2 DEF FinishPassive, Process, Reconnect, Apply
    <3>2. Log!ApplyNext(d)
      BY <2>1, <3>1, RunningIsNext DEF Log!ApplyNext, Log!Record
    <3> QED
      BY <3>2 DEF Log!Next
  <2>3. CASE FinishPassive(d) /\ Discard(d)
    <3>1. /\ running[d] # 0 /\ UNCHANGED applied
          /\ discarded' = [discarded EXCEPT ![d] = @ \union {running[d]}]
      BY <2>3 DEF FinishPassive, Discard
    <3>2. Log!DiscardNext(d)
      BY <2>1, <3>1, RunningIsNext DEF Log!DiscardNext
    <3> QED
      BY <3>2 DEF Log!Next
  <2> QED
    BY <1>4, <2>1, <2>2, <2>3 DEF FinishPassive, Known
<1>5. CASE Committed(d)
  <2>1. own[d] # 0 /\ UNCHANGED <<log, unacked, discarded>>
        /\ applied' = [applied EXCEPT ![d] = @ \union {own[d]}]
    BY <1>5 DEF Committed, Apply, server
  <2>2. own[d] \in DOMAIN log /\ log[own[d]] = d
    BY <2>1 DEF TransactionInv, TaskFits, BacklogFits
  <2>3. Log!ApplyOwn(d)
    BY <2>1, <2>2 DEF Log!ApplyOwn, Log!Record
  <2> QED
    BY <2>3 DEF Log!Next
<1> QED
  BY <1>1, <1>2, <1>3, <1>4, <1>5

\* The devices of a user share a log: whatever becomes of transactions and
\* connections, every device processes the changes of the others in order, leaving
\* out none, and the server keeps what is not processed yet (ReflectedTask,
\* TaskCodec.transaction and the backlogs of the task manager).
THEOREM TransactionImplementsLog == Spec => ImplementsLog
  BY InitShared, StepShared, TransactionInvariance, PTL DEF Spec, ImplementsLog, Log!Spec

=============================================================================
