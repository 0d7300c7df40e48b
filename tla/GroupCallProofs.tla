--------------------------- MODULE GroupCallProofs ---------------------------
(***************************************************************************)
(* Proofs about CallParticipants for any participants, and about GroupCall *)
(* for any calls.                                                          *)
(*                                                                         *)
(* A joiner is locked out because it gets no key before it was added and   *)
(* the key in use only moves on.  A leaver is locked out because between   *)
(* its removal and an epoch it does not know there is always something     *)
(* that leads there: the removal that is not finished, a stale or a new    *)
(* pending epoch, or a job that makes one.                                 *)
(*                                                                         *)
(* A context is refreshed again because at each step one of three holds: a *)
(* job waits or runs, the timer is set, or there is no call.  The ongoing  *)
(* call stays known because the job that adds it is never dropped and the  *)
(* step that may remove a call has noted which one is ongoing.             *)
(***************************************************************************)
EXTENDS CallParticipants, GroupCall, FiniteSetTheorems, WellFoundedInduction, TLAPS

Joining(p) == [do |-> "joined", of |-> p]

\* p was not added yet: it is out, or the job that adds it waits.
Waits(p) == \E n \in DOMAIN queue : queue[n] = Joining(p) /\ (n = 1 => step # "joining")
Newcomer(p) == sfu[p] = "out" \/ Waits(p)

HasEpoch == \E n \in DOMAIN queue : queue[n].do = "epoch"

After(k, l) == k.epoch > l.epoch \/ (k.epoch = l.epoch /\ k.ratchet > l.ratchet)

\* The holder of the lock is at a step of its job.
StepFits ==
    /\ step = "joining" => queue[1].do = "joined"
    /\ step \in {"removing", "removed"} =>
           queue[1].do \in {"left", "abort"} /\ queue[1].of \in Participants

\* A participant is added once.
Once ==
    \A p \in Participants :
        /\ sfu[p] = "out" => \A n \in DOMAIN queue : queue[n] # Joining(p)
        /\ \A m, n \in DOMAIN queue :
              queue[m] = Joining(p) /\ queue[n] = Joining(p) => m = n

NewcomerHasNothing ==
    \A p \in Participants : Newcomer(p) =>
        given[p] = {} /\ remote[p] = "none" /\ before[p] = NoKey

\* The key in use only moves on, and nobody has one beyond the pending epoch.
KeyMovesOn == \A p \in Participants : before[p].epoch # None => After(key, before[p])

NoneBeyond ==
    /\ timer => pending.epoch # None
    /\ \A p \in Participants : \A g \in given[p] :
          g.epoch <= key.epoch \/ g.epoch = pending.epoch

\* What leads to an epoch that a removed participant does not know.
OnTheWay ==
    \A p \in Participants : remote[p] = "none" /\ ~aborted =>
        \/ \A g \in given[p] : g.epoch < key.epoch
        \/ pending.epoch # None /\ \A g \in given[p] : g.epoch <= key.epoch
        \/ pending.epoch # None /\ pending.stale
        \/ HasEpoch
        \/ step = "removed"

\* HearsUnlessQueued from the auth message on.
HearsSoon ==
    \A p \in Participants : remote[p] \in {"auth", "done"} =>
        /\ Derives(given[p], key) \/ key.epoch \in queued[p]
        /\ pending.epoch # None =>
               \/ Derives(given[p], [epoch |-> pending.epoch, ratchet |-> 0])
               \/ pending.epoch \in queued[p]

IInv ==
    /\ TypeOK /\ StepFits /\ Once /\ NewcomerHasNothing /\ KeyMovesOn
    /\ NoneBeyond /\ OnTheWay /\ HearsSoon /\ JoinerLockedOut

\* The invariant holds initially.
THEOREM InitInvariant == Init => IInv
<1> SUFFICES ASSUME Init PROVE IInv
  OBVIOUS
<1> USE CallParticipantsAssumption DEF Init
<1>1. TypeOK
  <2>1. key \in Key /\ key.epoch = 1 /\ NoKey \in Key \cup {NoKey}
    BY DEF Key
  <2>2. sending \in BOOLEAN /\ loner \in BOOLEAN /\ aborted \in BOOLEAN
    OBVIOUS
  <2>3. queue \in Seq(Job) /\ pending \in [epoch : Nat, stale : BOOLEAN] /\ pending.epoch = None
    BY DEF None
  <2>4. /\ sfu \in [Participants -> {"out", "in", "hello", "auth", "gone"}]
        /\ remote \in [Participants -> {"none", "hello", "auth", "done"}]
        /\ given \in [Participants -> SUBSET Key] /\ queued \in [Participants -> SUBSET Nat]
        /\ before \in [Participants -> Key \cup {NoKey}]
    BY <2>1
  <2> QED
    BY <2>1, <2>2, <2>3, <2>4 DEF TypeOK
<1>2. StepFits /\ Once /\ NewcomerHasNothing
  BY DEF StepFits, Once, NewcomerHasNothing, Newcomer, Waits
<1>3. KeyMovesOn /\ NoneBeyond /\ OnTheWay /\ HearsSoon /\ JoinerLockedOut
  BY DEF KeyMovesOn, NoneBeyond, OnTheWay, HearsSoon, JoinerLockedOut, NoKey, None
<1> QED
  BY <1>1, <1>2, <1>3 DEF IInv

-----------------------------------------------------------------------------
\* The queue: r is q without its first k jobs, and perhaps with j at its end.

Comes(q, r, k, j) ==
    /\ r \in Seq(Job)
    /\ \A n \in DOMAIN r : n \in Nat /\ n > 0 /\ (r[n] = j \/ (n + k \in DOMAIN q /\ r[n] = q[n + k]))
    /\ \A n \in DOMAIN q : n > k => n - k \in DOMAIN r /\ r[n - k] = q[n]

LEMMA QueueChanges ==
  ASSUME NEW q \in Seq(Job), NEW j \in Job
  PROVE  /\ Comes(q, q, 0, j) /\ Comes(q, Append(q, j), 0, j)
         /\ q # <<>> => Comes(q, Tail(q), 1, j) /\ Comes(q, Append(Tail(q), j), 1, j)
<1>1. Comes(q, q, 0, j) /\ Comes(q, Append(q, j), 0, j)
  BY DEF Comes
<1>2. ASSUME q # <<>> PROVE Comes(q, Tail(q), 1, j)
  BY <1>2 DEF Comes
<1>3. ASSUME q # <<>> PROVE Comes(q, Append(Tail(q), j), 1, j)
  <2> DEFINE t == Tail(q)
             r == Append(t, j)
  <2>1. t \in Seq(Job) /\ Len(t) = Len(q) - 1 /\ \A n \in 1..Len(t) : t[n] = q[n + 1]
    BY <1>3
  <2> HIDE DEF t
  <2>2. r \in Seq(Job) /\ DOMAIN r = 1..(Len(t) + 1)
        /\ \A n \in DOMAIN r : r[n] = IF n = Len(t) + 1 THEN j ELSE t[n]
    BY <2>1
  <2> HIDE DEF r
  <2>3. Comes(q, r, 1, j)
    <3>1. Len(q) \in Nat /\ Len(t) \in Nat /\ DOMAIN q = 1..Len(q) /\ Len(q) = Len(t) + 1
      BY <2>1
    <3>2. ASSUME NEW n \in DOMAIN r
          PROVE  n \in Nat /\ n > 0 /\ (r[n] = j \/ (n + 1 \in DOMAIN q /\ r[n] = q[n + 1]))
      BY <2>1, <2>2, <3>1
    <3>3. ASSUME NEW n \in DOMAIN q, n > 1 PROVE n - 1 \in DOMAIN r /\ r[n - 1] = q[n]
      <4>1. n - 1 \in 1..Len(t) /\ (n - 1) + 1 = n
        BY <3>1, <3>3
      <4> QED
        BY <2>1, <2>2, <3>1, <4>1
    <3> QED
      BY <2>2, <3>2, <3>3 DEF Comes
  <2> QED
    BY <2>3 DEF r, t
<1> QED
  BY <1>1, <1>2, <1>3

\* Raising the abort event of a participant.
LEMMA RaiseComes ==
  ASSUME TypeOK, NEW p \in Participants
  PROVE  LET j == [do |-> "abort", of |-> p]
         IN  /\ j \in Job /\ Comes(queue, RaiseOn(queue, p), 0, j)
             /\ queue # <<>> => Comes(queue, RaiseOn(Tail(queue), p), 1, j)
             /\ queue # <<>> => RaiseOn(queue, p) # <<>>
<1> DEFINE j == [do |-> "abort", of |-> p]
<1>1. j \in Job /\ queue \in Seq(Job)
  BY DEF Job, TypeOK
<1>2. queue # <<>> => Append(queue, j) # <<>>
  BY <1>1
<1> HIDE DEF j
<1>3. /\ Comes(queue, RaiseOn(queue, p), 0, j)
      /\ queue # <<>> => Comes(queue, RaiseOn(Tail(queue), p), 1, j)
  BY <1>1, QueueChanges DEF RaiseOn, j
<1>4. queue # <<>> => RaiseOn(queue, p) # <<>>
  BY <1>2 DEF RaiseOn, j
<1> QED
  BY <1>1, <1>3, <1>4 DEF j

\* No participant is added a second time, and who was added stays so.
LEMMA NobodyNew ==
  ASSUME TypeOK, Once, NEW k \in {0, 1}, NEW j \in Job, j.do # "joined",
         Comes(queue, queue', k, j),
         \A p \in Participants : sfu'[p] = "out" => sfu[p] = "out",
         k = 0 /\ step = "joining" => step' = "joining"
  PROVE  /\ Once' /\ \A p \in Participants : Newcomer(p)' => Newcomer(p)
         /\ (k = 0 \/ queue[1].do # "epoch") /\ HasEpoch => HasEpoch'
         /\ k = 0 /\ queue # <<>> => queue'[1] = queue[1]
<1>1. \A p : j # Joining(p)
  BY DEF Joining
<1>2. /\ \A n \in DOMAIN queue' : n \in Nat /\ n > 0
            /\ (queue'[n] = j \/ (n + k \in DOMAIN queue /\ queue'[n] = queue[n + k]))
      /\ \A n \in DOMAIN queue : n > k => n - k \in DOMAIN queue' /\ queue'[n - k] = queue[n]
  BY DEF Comes
<1>3. ASSUME NEW p \in Participants, NEW n \in DOMAIN queue', queue'[n] = Joining(p)
      PROVE  n \in Nat /\ n > 0 /\ n + k \in DOMAIN queue /\ queue[n + k] = Joining(p)
  BY <1>1, <1>2, <1>3
<1>4. Once'
  BY <1>3 DEF Once
<1>5. ASSUME NEW p \in Participants, Waits(p)' PROVE Waits(p)
  <2>1. PICK n \in DOMAIN queue' : queue'[n] = Joining(p) /\ (n = 1 => step' # "joining")
    BY <1>5 DEF Waits, Joining
  <2>2. n \in Nat /\ n > 0 /\ n + k \in DOMAIN queue /\ queue[n + k] = Joining(p)
    BY <1>3, <2>1
  <2>3. n + k = 1 => step # "joining"
    BY <2>1, <2>2
  <2> QED
    BY <2>2, <2>3 DEF Waits
<1>6. \A p \in Participants : Newcomer(p)' => Newcomer(p)
  BY <1>5 DEF Newcomer
<1>7. ASSUME k = 0 \/ queue[1].do # "epoch", HasEpoch PROVE HasEpoch'
  <2>1. PICK n \in DOMAIN queue : queue[n].do = "epoch"
    BY <1>7 DEF HasEpoch
  <2>2. n \in Nat /\ n > 0
    BY DEF TypeOK
  <2>3. n > k
    BY <1>7, <2>1, <2>2
  <2> QED
    BY <1>2, <2>1, <2>3 DEF HasEpoch
<1>8. ASSUME k = 0, queue # <<>> PROVE queue'[1] = queue[1]
  <2>1. 1 \in DOMAIN queue
    BY <1>8 DEF TypeOK
  <2> QED
    BY <1>2, <1>8, <2>1
<1> QED
  BY <1>4, <1>6, <1>7, <1>8

-----------------------------------------------------------------------------
\* A step in which no key is made or given.
LEMMA NoKeyStep ==
  ASSUME IInv, TypeOK', StepFits', Once',
         \A p \in Participants : Newcomer(p)' => Newcomer(p),
         HasEpoch => HasEpoch',
         UNCHANGED <<key, pending, timer, given, queued, before>>,
         aborted => aborted', step = "removed" => step' = "removed",
         \A p \in Participants : \/ remote'[p] = remote[p]
                                 \/ remote[p] = "auth" /\ remote'[p] = "done"
                                 \/ step' = "removed" /\ remote'[p] = "none"
  PROVE  IInv'
<1> USE DEF IInv
<1>1. NewcomerHasNothing'
  BY DEF NewcomerHasNothing
<1>2. KeyMovesOn' /\ NoneBeyond' /\ JoinerLockedOut'
  BY DEF KeyMovesOn, After, NoneBeyond, JoinerLockedOut
<1>3. OnTheWay'
  BY DEF OnTheWay
<1>4. HearsSoon'
  BY DEF HearsSoon, Derives
<1> QED
  BY <1>1, <1>2, <1>3, <1>4

\* The auth message: the participant gets the key in use and the pending one.
LEMMA AuthStep ==
  ASSUME IInv, TypeOK', StepFits', Once', NEW p \in Participants,
         \A q \in Participants : Newcomer(q)' => Newcomer(q),
         HasEpoch => HasEpoch', remote[p] = "hello", SendAuth(p),
         UNCHANGED <<key, pending, timer, queued, before, aborted, step>>
  PROVE  IInv'
<1> USE DEF IInv
<1> DEFINE late == {[epoch |-> e, ratchet |-> 0] : e \in {pending.epoch} \ {None}}
<1>1. /\ given'[p] = given[p] \cup {key} \cup late /\ remote'[p] = "auth"
      /\ \A q \in Participants \ {p} : given'[q] = given[q] /\ remote'[q] = remote[q]
  BY DEF SendAuth, TypeOK
<1>2. /\ \A g \in late : g.epoch = pending.epoch /\ g.ratchet = 0 /\ g.epoch = key.epoch + 1
      /\ pending.epoch # None => [epoch |-> pending.epoch, ratchet |-> 0] \in late
      /\ key.epoch \in Nat /\ key.ratchet \in Nat /\ pending.epoch \in Nat
  BY DEF TypeOK, Key
<1> HIDE DEF late
<1>3. NewcomerHasNothing'
  BY <1>1 DEF NewcomerHasNothing
<1>4. KeyMovesOn' /\ NoneBeyond'
  BY <1>1, <1>2 DEF KeyMovesOn, After, NoneBeyond
<1>5. JoinerLockedOut'
  <2> SUFFICES ASSUME NEW q \in Participants, before[q].epoch # None, NEW g \in given'[q]
               PROVE  After(g, before[q])
    BY DEF JoinerLockedOut, After
  <2>1. CASE g \in given[q]
    BY <2>1 DEF JoinerLockedOut, After
  <2>2. CASE q = p /\ g \in late
    <3>1. before[q].epoch \in Nat /\ before[q].epoch <= key.epoch
      BY <1>2 DEF TypeOK, KeyMovesOn, After, Key, NoKey, None
    <3> QED
      BY <2>2, <3>1, <1>2 DEF After
  <2>3. CASE g = key
    BY <2>3 DEF KeyMovesOn
  <2> QED
    BY <1>1, <2>1, <2>2, <2>3
<1>6. OnTheWay'
  BY <1>1 DEF OnTheWay
<1>7. HearsSoon'
  <2> SUFFICES ASSUME NEW q \in Participants, remote'[q] \in {"auth", "done"}
               PROVE  /\ Derives(given'[q], key) \/ key.epoch \in queued[q]
                      /\ pending.epoch # None =>
                           \/ Derives(given'[q], [epoch |-> pending.epoch, ratchet |-> 0])
                           \/ pending.epoch \in queued[q]
    BY DEF HearsSoon, Derives
  <2>1. CASE q = p
    BY <2>1, <1>1, <1>2 DEF Derives
  <2>2. CASE q # p
    BY <2>2, <1>1 DEF HearsSoon
  <2> QED
    BY <2>1, <2>2
<1> QED
  BY <1>3, <1>4, <1>5, <1>6, <1>7

\* The next epoch: it is new to everybody, or the pending one is made stale.
LEMMA EpochStep ==
  ASSUME IInv, TypeOK', StepFits', Once', NextEpoch,
         \A q \in Participants : Newcomer(q)' => Newcomer(q),
         UNCHANGED <<key, remote, before, aborted>>, step' = "idle"
  PROVE  IInv'
<1> USE DEF IInv
<1>1. CASE pending.epoch # None
  <2>1. UNCHANGED <<timer, given, queued>> /\ pending'.epoch = pending.epoch /\ pending'.stale
    BY <1>1 DEF NextEpoch, TypeOK
  <2>2. NewcomerHasNothing' /\ KeyMovesOn' /\ NoneBeyond' /\ JoinerLockedOut'
    BY <2>1 DEF NewcomerHasNothing, KeyMovesOn, After, NoneBeyond, JoinerLockedOut
  <2>3. OnTheWay' /\ HearsSoon'
    BY <1>1, <2>1 DEF OnTheWay, HearsSoon, Derives
  <2> QED
    BY <2>2, <2>3
<1>2. CASE pending.epoch = None
  <2> DEFINE e == key.epoch + 1
             new == [epoch |-> e, ratchet |-> 0]
  <2>1. /\ pending' = [epoch |-> e, stale |-> FALSE] /\ timer'
        /\ \A q \in Participants :
             /\ given'[q] = IF remote[q] = "done" THEN given[q] \cup {new} ELSE given[q]
             /\ queued'[q] = IF remote[q] \in {"hello", "auth"} THEN queued[q] \cup {e} ELSE queued[q]
        /\ key.epoch \in Nat /\ key.epoch > 0
    BY <1>2 DEF NextEpoch, TypeOK, Key
  <2>2. NewcomerHasNothing' /\ KeyMovesOn'
    BY <2>1 DEF NewcomerHasNothing, KeyMovesOn, After
  <2>3. \A q \in Participants : \A g \in given[q] : g.epoch \in Nat /\ g.epoch > 0 /\ g.epoch <= key.epoch
    <3> SUFFICES ASSUME NEW q \in Participants, NEW g \in given[q]
                 PROVE  g.epoch \in Nat /\ g.epoch > 0 /\ g.epoch <= key.epoch
      OBVIOUS
    <3>1. g \in Key
      BY DEF TypeOK
    <3>2. g.epoch \in Nat /\ g.epoch # 0
      BY <3>1 DEF Key
    <3>3. g.epoch <= key.epoch \/ g.epoch = pending.epoch
      BY DEF NoneBeyond
    <3> QED
      BY <1>2, <3>2, <3>3 DEF None
  <2>4. /\ \A q \in Participants : given'[q] \subseteq given[q] \cup {new}
        /\ new.epoch = e /\ pending'.epoch = e /\ key' = key
    BY <2>1
  <2>5. NoneBeyond'
    <3> HIDE DEF new
    <3>1. \A q \in Participants : \A g \in given'[q] : g.epoch <= key'.epoch \/ g.epoch = pending'.epoch
      BY <2>3, <2>4
    <3>2. pending'.epoch # None
      BY <2>1, <2>4 DEF None
    <3> QED
      BY <3>1, <3>2 DEF NoneBeyond
  <2>6. JoinerLockedOut'
    <3> SUFFICES ASSUME NEW q \in Participants, before[q].epoch # None, NEW g \in given'[q]
                 PROVE  After(g, before[q])
      BY DEF JoinerLockedOut, After
    <3>1. CASE g \in given[q]
      BY <3>1 DEF JoinerLockedOut, After
    <3>2. CASE g = new
      <4>1. before[q].epoch \in Nat /\ before[q].epoch <= key.epoch
        BY <2>1 DEF TypeOK, KeyMovesOn, After, Key, NoKey, None
      <4> QED
        BY <3>2, <4>1, <2>1 DEF After
    <3> HIDE DEF new
    <3>3. given'[q] \subseteq given[q] \cup {new}
      BY <2>1
    <3> QED
      BY <3>1, <3>2, <3>3
  <2>7. OnTheWay'
    <3> HIDE DEF new
    <3>1. \A q \in Participants : remote[q] = "none" => given'[q] = given[q]
      BY <2>1
    <3>2. pending'.epoch # None
      BY <2>1, <2>4 DEF None
    <3> QED
      BY <2>3, <2>4, <3>1, <3>2 DEF OnTheWay
  <2>8. HearsSoon'
    <3> SUFFICES ASSUME NEW q \in Participants, remote[q] \in {"auth", "done"}
                 PROVE  /\ Derives(given'[q], key) \/ key.epoch \in queued'[q]
                        /\ Derives(given'[q], new) \/ e \in queued'[q]
      BY <2>1 DEF HearsSoon, Derives
    <3>1. Derives(given[q], key) \/ key.epoch \in queued[q]
      BY DEF HearsSoon
    <3>2. given[q] \subseteq given'[q] /\ queued[q] \subseteq queued'[q]
      BY <2>1
    <3>3. Derives(given'[q], key) \/ key.epoch \in queued'[q]
      BY <3>1, <3>2 DEF Derives
    <3>4. CASE remote[q] = "done"
      <4>1. new \in given'[q] /\ new.epoch = e /\ new.ratchet = 0
        BY <2>1, <3>4
      <4>2. Derives(given'[q], new)
        <5> HIDE DEF new
        <5> QED
          BY <4>1 DEF Derives
      <4> QED
        BY <3>3, <4>2
    <3>5. CASE remote[q] = "auth"
      BY <2>1, <3>3, <3>5
    <3> QED
      BY <3>4, <3>5
  <2> QED
    BY <2>2, <2>5, <2>6, <2>7, <2>8
<1> QED
  BY <1>1, <1>2

-----------------------------------------------------------------------------
LEMMA HelloStep ==
  ASSUME IInv, NEW p \in Participants, HandleHello(p)
  PROVE  IInv'
<1> USE DEF IInv
<1> DEFINE j == [do |-> "abort", of |-> p]
<1>1. /\ j \in Job /\ queue \in Seq(Job) /\ queue # <<>> /\ queue[1].do = "hello" /\ step = "idle"
      /\ UNCHANGED <<sfu, step, keyvars, queued, before, sending, loner, aborted>>
  BY RaiseComes DEF HandleHello, Doing, TypeOK
<1>2. Comes(queue, queue', 1, j)
  BY <1>1, QueueChanges, RaiseComes DEF HandleHello
<1>3. /\ Once' /\ \A q \in Participants : Newcomer(q)' => Newcomer(q)
      /\ HasEpoch => HasEpoch'
  BY <1>1, <1>2, NobodyNew
<1>4. StepFits' /\ queue' \in Seq(Job)
  BY <1>1, <1>2 DEF StepFits, Comes
<1>5. CASE remote[p] = "hello" /\ SendAuth(p) /\ UNCHANGED <<raised, backlog>>
  <2>1. TypeOK'
    <3>1. {[epoch |-> e, ratchet |-> 0] : e \in {pending.epoch} \ {None}} \subseteq Key
          /\ key \in Key
      BY DEF TypeOK, Key, None
    <3>2. given' \in [Participants -> SUBSET Key]
      BY <1>5, <3>1 DEF SendAuth, TypeOK
    <3>3. remote' \in [Participants -> {"none", "hello", "auth", "done"}]
      BY <1>5 DEF SendAuth, TypeOK
    <3> QED
      BY <1>1, <1>4, <1>5, <3>2, <3>3 DEF TypeOK, keyvars
  <2> QED
    BY <1>1, <1>3, <1>4, <1>5, <2>1, AuthStep DEF keyvars
<1>6. CASE UNCHANGED <<given, remote>>
  <2>1. raised' \subseteq Participants /\ backlog' \subseteq Participants
    BY DEF HandleHello, TypeOK
  <2>2. TypeOK'
    BY <1>1, <1>4, <1>6, <2>1 DEF TypeOK, keyvars
  <2> QED
    BY <1>1, <1>3, <1>4, <1>6, <2>2, NoKeyStep DEF keyvars
<1> QED
  BY <1>5, <1>6 DEF HandleHello

LEMMA HandleAuthStep ==
  ASSUME IInv, NEW p \in Participants, HandleAuth(p)
  PROVE  IInv'
<1> USE DEF IInv
<1> DEFINE j == [do |-> "abort", of |-> p]
<1>1. /\ j \in Job /\ queue \in Seq(Job) /\ queue # <<>> /\ queue[1].do = "auth" /\ step = "idle"
      /\ UNCHANGED <<sfu, step, backlog, keyvars, given, queued, before, loner>>
  BY RaiseComes DEF HandleAuth, Doing, TypeOK
<1>2. Comes(queue, queue', 1, j)
  BY <1>1, QueueChanges, RaiseComes DEF HandleAuth
<1>3. /\ Once' /\ \A q \in Participants : Newcomer(q)' => Newcomer(q)
      /\ HasEpoch => HasEpoch'
  BY <1>1, <1>2, NobodyNew
<1>4. StepFits' /\ queue' \in Seq(Job)
  BY <1>1, <1>2 DEF StepFits, Comes
<1>5. /\ raised' \subseteq Participants /\ sending' \in BOOLEAN
      /\ aborted' \in BOOLEAN /\ (aborted => aborted')
      /\ remote' = remote \/ (remote[p] = "auth" /\ remote' = [remote EXCEPT ![p] = "done"])
  <2>1. CASE remote[p] = "auth" /\ Authenticate(p) /\ UNCHANGED raised
    BY <2>1 DEF Authenticate, Designated, TypeOK
  <2>2. CASE raised' = raised \cup {p} /\ UNCHANGED <<remote, sending, aborted>>
    BY <2>2 DEF TypeOK
  <2>3. CASE UNCHANGED <<remote, sending, raised, aborted>>
    BY <2>3 DEF TypeOK
  <2> QED
    BY <2>1, <2>2, <2>3 DEF HandleAuth
<1>6. TypeOK'
  <2>1. remote' \in [Participants -> {"none", "hello", "auth", "done"}]
    BY <1>5 DEF TypeOK
  <2> QED
    BY <1>1, <1>4, <1>5, <2>1 DEF TypeOK, keyvars
<1>7. \A q \in Participants : remote'[q] = remote[q] \/ (remote[q] = "auth" /\ remote'[q] = "done")
  BY <1>5 DEF TypeOK
<1> QED
  BY <1>1, <1>3, <1>4, <1>5, <1>6, <1>7, NoKeyStep DEF keyvars

LEMMA JoinedStep ==
  ASSUME IInv, Joined
  PROVE  IInv'
<1> USE DEF IInv
<1>1. /\ queue \in Seq(Job) /\ queue # <<>> /\ queue[1].do = "joined" /\ 1 \in DOMAIN queue
      /\ step' = "idle" /\ queue' = Tail(queue) /\ loner' \in BOOLEAN
      /\ UNCHANGED <<sfu, remote, raised, backlog, keyvars, given, queued, before,
                     sending, aborted>>
  BY DEF Joined, TypeOK, StepFits
<1>2. PICK j \in Job : j.do = "epoch"
  <2>1. [do |-> "epoch", of |-> Local] \in Job
    BY DEF Job
  <2> QED
    BY <2>1
<1>3. Comes(queue, queue', 1, j)
  BY <1>1, QueueChanges
<1>4. /\ Once' /\ \A q \in Participants : Newcomer(q)' => Newcomer(q)
      /\ HasEpoch => HasEpoch'
  BY <1>1, <1>2, <1>3, NobodyNew DEF Joined
<1>5. StepFits' /\ TypeOK'
  BY <1>1, <1>3 DEF StepFits, TypeOK, Comes, keyvars
<1> QED
  BY <1>1, <1>4, <1>5, NoKeyStep DEF keyvars, Joined

LEMMA HandleLeftStep ==
  ASSUME IInv, NEW p \in Participants, HandleLeft(p)
  PROVE  IInv'
<1> USE DEF IInv
<1> DEFINE j == [do |-> "abort", of |-> p]
<1>1. /\ j \in Job /\ queue \in Seq(Job) /\ queue # <<>> /\ step = "idle"
      /\ queue[1].do \in {"left", "abort"} /\ queue[1].of = p
      /\ UNCHANGED <<sfu, remote, backlog, keyvars, given, queued, before, sending,
                     loner, aborted>>
  BY RaiseComes DEF HandleLeft, Doing, TypeOK
<1>2. CASE queue' = Tail(queue) /\ UNCHANGED <<step, raised>>
  <2>1. Comes(queue, queue', 1, j)
    BY <1>1, <1>2, QueueChanges
  <2>2. /\ Once' /\ \A q \in Participants : Newcomer(q)' => Newcomer(q)
        /\ HasEpoch => HasEpoch'
    BY <1>1, <2>1, NobodyNew
  <2>3. StepFits' /\ TypeOK'
    BY <1>1, <1>2, <2>1 DEF StepFits, TypeOK, Comes, keyvars
  <2> QED
    BY <1>1, <1>2, <2>2, <2>3, NoKeyStep DEF keyvars
<1>3. CASE step' = "removing" /\ raised' = raised \cup {p} /\ queue' = RaiseOn(queue, p)
  <2>1. Comes(queue, queue', 0, j) /\ queue' # <<>>
    BY <1>1, <1>3, RaiseComes
  <2>2. /\ Once' /\ \A q \in Participants : Newcomer(q)' => Newcomer(q)
        /\ HasEpoch => HasEpoch' /\ queue'[1] = queue[1]
    BY <1>1, <2>1, NobodyNew
  <2>3. StepFits' /\ TypeOK'
    BY <1>1, <1>3, <2>1, <2>2 DEF StepFits, TypeOK, Comes, keyvars
  <2> QED
    BY <1>1, <1>3, <2>2, <2>3, NoKeyStep DEF keyvars
<1> QED
  BY <1>2, <1>3 DEF HandleLeft

LEMMA RemoveStep ==
  ASSUME IInv, Remove
  PROVE  IInv'
<1> USE DEF IInv
<1>1. /\ step = "removing" /\ step' = "removed" /\ queue \in Seq(Job) /\ queue # <<>>
      /\ remote' = [remote EXCEPT ![queue[1].of] = "none"] /\ queue[1].of \in Participants
      /\ UNCHANGED <<sfu, queue, raised, backlog, keyvars, given, queued, before,
                     sending, loner, aborted>>
  <2>1. step = "removing" /\ queue \in Seq(Job) /\ queue # <<>>
    BY DEF Remove, TypeOK
  <2>2. Head(queue) = queue[1]
    BY <2>1
  <2>3. queue[1].of \in Participants
    BY <2>1 DEF StepFits
  <2> QED
    BY <2>1, <2>2, <2>3 DEF Remove
<1>2. Once' /\ HasEpoch' = HasEpoch /\ \A q \in Participants : Newcomer(q)' => Newcomer(q)
  BY <1>1 DEF Once, HasEpoch, Newcomer, Waits
<1>3. StepFits' /\ TypeOK'
  BY <1>1 DEF StepFits, TypeOK, keyvars
<1>4. \A q \in Participants : remote'[q] = remote[q] \/ remote'[q] = "none"
  BY <1>1 DEF TypeOK
<1> QED
  BY <1>1, <1>2, <1>3, <1>4, NoKeyStep DEF keyvars

\* What NextEpoch makes is well-formed.
LEMMA NextEpochTypes ==
  ASSUME TypeOK, NextEpoch, key' = key
  PROVE  /\ pending' \in [epoch : Nat, stale : BOOLEAN] /\ timer' \in BOOLEAN
         /\ pending'.epoch \in {None, key'.epoch + 1}
         /\ given' \in [Participants -> SUBSET Key]
         /\ queued' \in [Participants -> SUBSET Nat]
<1>1. key.epoch \in Nat /\ key.epoch + 1 \in Nat /\ [epoch |-> key.epoch + 1, ratchet |-> 0] \in Key
  BY DEF TypeOK, Key
<1>2. CASE pending.epoch # None
  <2>1. /\ pending' = [pending EXCEPT !.stale = TRUE] /\ UNCHANGED <<timer, given, queued>>
        /\ pending \in [epoch : Nat, stale : BOOLEAN] /\ pending.epoch = key.epoch + 1
    BY <1>2 DEF NextEpoch, TypeOK
  <2>2. pending' \in [epoch : Nat, stale : BOOLEAN] /\ pending'.epoch = pending.epoch
    BY <2>1
  <2> QED
    BY <2>1, <2>2 DEF TypeOK
<1>3. CASE pending.epoch = None
  <2> DEFINE new == [epoch |-> key.epoch + 1, ratchet |-> 0]
  <2>1. /\ pending' = [epoch |-> key.epoch + 1, stale |-> FALSE] /\ timer' = TRUE
        /\ given' = [p \in Participants |->
                       IF remote[p] = "done" THEN given[p] \cup {new} ELSE given[p]]
        /\ queued' = [p \in Participants |->
                        IF remote[p] \in {"hello", "auth"}
                        THEN queued[p] \cup {key.epoch + 1} ELSE queued[p]]
    BY <1>3 DEF NextEpoch
  <2>2. given \in [Participants -> SUBSET Key] /\ queued \in [Participants -> SUBSET Nat] /\ new \in Key
    BY <1>1 DEF TypeOK
  <2>3. given' \in [Participants -> SUBSET Key]
    <3> HIDE DEF new
    <3> QED
      BY <2>1, <2>2
  <2>4. queued' \in [Participants -> SUBSET Nat]
    BY <1>1, <2>1, <2>2
  <2>5. pending' \in [epoch : Nat, stale : BOOLEAN] /\ pending'.epoch = key'.epoch + 1
    BY <1>1, <2>1
  <2> QED
    BY <2>1, <2>3, <2>4, <2>5
<1> QED
  BY <1>2, <1>3

LEMMA RemovedStep ==
  ASSUME IInv, Removed \/ StaleEpoch
  PROVE  IInv'
<1> USE DEF IInv
<1>1. PICK j \in Job : j.do = "epoch"
  <2>1. [do |-> "epoch", of |-> Local] \in Job
    BY DEF Job
  <2> QED
    BY <2>1
<1>2. /\ queue \in Seq(Job) /\ queue # <<>> /\ queue' = Tail(queue) /\ step' = "idle"
      /\ NextEpoch /\ UNCHANGED <<sfu, remote, raised, backlog, key, purged, before, aborted>>
      /\ sending' \in BOOLEAN /\ loner' \in BOOLEAN
  BY DEF Removed, StaleEpoch, Doing, Designated, TypeOK
<1>3. Comes(queue, queue', 1, j)
  BY <1>2, QueueChanges
<1>4. Once' /\ \A q \in Participants : Newcomer(q)' => Newcomer(q)
  BY <1>1, <1>2, <1>3, NobodyNew
<1>5. StepFits' /\ TypeOK'
  BY <1>2, <1>3, NextEpochTypes DEF StepFits, TypeOK, Comes
<1> QED
  BY <1>2, <1>4, <1>5, EpochStep

\* A participant is added: the ratchet is turned.
LEMMA HandleJoinedStep ==
  ASSUME IInv, NEW p \in Participants, HandleJoined(p)
  PROVE  IInv'
<1> USE DEF IInv
<1>1. /\ queue \in Seq(Job) /\ queue # <<>> /\ 1 \in DOMAIN queue /\ queue[1].do = "joined"
      /\ queue[1] = Joining(p) /\ step = "idle" /\ step' = "joining"
      /\ key' = [key EXCEPT !.ratchet = @ + 1]
      /\ remote' = [remote EXCEPT ![p] = "hello"] /\ before' = [before EXCEPT ![p] = key]
      /\ UNCHANGED <<sfu, queue, raised, backlog, pending, timer, purged, given, queued,
                     sending, loner, aborted>>
  <2>1. queue \in Seq(Job) /\ queue # <<>> /\ queue[1] \in Job
    BY DEF HandleJoined, Doing, TypeOK
  <2>2. queue[1].do = "joined" /\ queue[1].of = p
    BY <2>1 DEF HandleJoined, Doing
  <2> QED
    BY <2>1, <2>2 DEF HandleJoined, Doing, Joining, Job
<1>2. /\ key \in Key /\ key' \in Key /\ key'.epoch = key.epoch /\ key'.ratchet = key.ratchet + 1
      /\ key.epoch \in Nat /\ key.ratchet \in Nat
  BY <1>1 DEF TypeOK, Key
<1>3. /\ remote'[p] = "hello" /\ before'[p] = key
      /\ \A q \in Participants \ {p} : remote'[q] = remote[q] /\ before'[q] = before[q]
  BY <1>1 DEF TypeOK
<1>4. Newcomer(p) /\ sfu[p] # "out"
  BY <1>1 DEF Newcomer, Waits, Once
<1>5. given[p] = {}
  BY <1>4 DEF NewcomerHasNothing
<1>6. TypeOK' /\ StepFits' /\ Once'
  BY <1>1, <1>2 DEF TypeOK, StepFits, Once
<1>7. NewcomerHasNothing'
  <2>1. ~Newcomer(p)'
    BY <1>1, <1>4 DEF Newcomer, Waits, Once
  <2>2. \A q \in Participants : Newcomer(q)' => Newcomer(q)
    BY <1>1 DEF Newcomer, Waits
  <2> QED
    BY <1>1, <1>3, <2>1, <2>2 DEF NewcomerHasNothing
<1>8. KeyMovesOn'
  <2> SUFFICES ASSUME NEW q \in Participants, before'[q].epoch # None
               PROVE  After(key', before'[q])
    BY DEF KeyMovesOn, After
  <2>1. CASE q = p
    BY <2>1, <1>2, <1>3 DEF After
  <2>2. CASE q # p
    <3>1. After(key, before[q]) /\ before'[q] = before[q]
      BY <2>2, <1>3 DEF KeyMovesOn
    <3>2. before[q].epoch \in Nat /\ before[q].ratchet \in Nat
      BY DEF TypeOK, Key, NoKey, None
    <3> QED
      BY <3>1, <3>2, <1>2 DEF After
  <2> QED
    BY <2>1, <2>2
<1>9. NoneBeyond' /\ JoinerLockedOut'
  BY <1>1, <1>2, <1>3, <1>5 DEF NoneBeyond, JoinerLockedOut
<1>10. OnTheWay'
  BY <1>1, <1>2, <1>3 DEF OnTheWay, HasEpoch
<1>11. HearsSoon'
  <2> SUFFICES ASSUME NEW q \in Participants, remote'[q] \in {"auth", "done"}
               PROVE  /\ Derives(given[q], key') \/ key'.epoch \in queued[q]
                      /\ pending.epoch # None =>
                            \/ Derives(given[q], [epoch |-> pending.epoch, ratchet |-> 0])
                            \/ pending.epoch \in queued[q]
    BY <1>1 DEF HearsSoon, Derives
  <2>1. remote[q] \in {"auth", "done"}
    BY <1>3
  <2>2. \A g \in given[q] : g.ratchet \in Nat
    BY DEF TypeOK, Key
  <2>3. Derives(given[q], key) => Derives(given[q], key')
    BY <1>2, <2>2 DEF Derives
  <2> QED
    BY <1>2, <2>1, <2>3 DEF HearsSoon
<1> QED
  BY <1>6, <1>7, <1>8, <1>9, <1>10, <1>11

\* The pending epoch is used.
LEMMA ApplyStep ==
  ASSUME IInv, Apply
  PROVE  IInv'
<1> USE DEF IInv
<1> DEFINE j == [do |-> "epoch", of |-> Local]
<1>1. /\ j \in Job /\ queue \in Seq(Job) /\ pending.epoch # None /\ timer' = FALSE
      /\ UNCHANGED <<sfu, step, remote, raised, backlog, given, queued, before,
                     sending, loner, aborted>>
  BY DEF Apply, TypeOK, Job, NoneBeyond
<1>2. CASE aborted
  <2>1. UNCHANGED <<key, pending, purged, queue>>
    BY <1>2 DEF Apply
  <2>2. TypeOK' /\ StepFits' /\ Once'
    BY <1>1, <2>1 DEF TypeOK, StepFits, Once
  <2>3. NewcomerHasNothing' /\ KeyMovesOn' /\ NoneBeyond' /\ JoinerLockedOut'
    BY <1>1, <2>1 DEF NewcomerHasNothing, Newcomer, Waits, KeyMovesOn, After, NoneBeyond,
                      JoinerLockedOut
  <2>4. OnTheWay' /\ HearsSoon'
    BY <1>1, <1>2, <2>1 DEF OnTheWay, HearsSoon, Derives
  <2> QED
    BY <2>2, <2>3, <2>4
<1>3. CASE ~aborted
  <2>1. /\ key' = [epoch |-> pending.epoch, ratchet |-> 0]
        /\ purged' = IF key.ratchet = 0 THEN purged \cup {key.epoch} ELSE purged
        /\ pending' = [epoch |-> None, stale |-> FALSE]
        /\ queue' = IF pending.stale THEN Append(queue, j) ELSE queue
    BY <1>3 DEF Apply
  <2>2. /\ pending.epoch = key.epoch + 1 /\ key.epoch \in Nat /\ key'.epoch = key.epoch + 1
        /\ key' \in Key /\ pending'.epoch = None /\ key'.ratchet = 0
    BY <1>1, <2>1 DEF TypeOK, Key
  <2>3. Comes(queue, queue', 0, j) /\ (queue # <<>> => queue' # <<>>)
    BY <1>1, <2>1, QueueChanges
  <2>4. /\ Once' /\ \A q \in Participants : Newcomer(q)' => Newcomer(q)
        /\ HasEpoch => HasEpoch'
        /\ queue # <<>> => queue'[1] = queue[1]
    BY <1>1, <2>3, NobodyNew
  <2>5. pending.stale => HasEpoch'
    <3>1. pending.stale => Len(queue) + 1 \in DOMAIN queue' /\ queue'[Len(queue) + 1] = j
      BY <1>1, <2>1
    <3> QED
      BY <3>1 DEF HasEpoch
  <2>6. TypeOK'
    <3>1. pending' \in [epoch : Nat, stale : BOOLEAN] /\ purged' \subseteq Nat
      BY <2>1, <2>2 DEF TypeOK, None
    <3> QED
      BY <1>1, <2>2, <2>3, <3>1 DEF TypeOK, Comes
  <2>7. StepFits'
    BY <1>1, <2>4 DEF StepFits, TypeOK
  <2>8. NewcomerHasNothing'
    BY <1>1, <2>4 DEF NewcomerHasNothing
  <2>9. KeyMovesOn'
    <3> SUFFICES ASSUME NEW q \in Participants, before[q].epoch # None
                 PROVE  key'.epoch > before[q].epoch
      BY <1>1 DEF KeyMovesOn, After
    <3>1. before[q].epoch \in Nat /\ before[q].epoch <= key.epoch
      BY <2>2 DEF TypeOK, KeyMovesOn, After, Key, NoKey, None
    <3> QED
      BY <3>1, <2>2
  <2>10. \A q \in Participants : \A g \in given[q] : g.epoch \in Nat /\ g.epoch <= key.epoch + 1
    BY <2>2 DEF NoneBeyond, TypeOK, Key
  <2>11. NoneBeyond' /\ JoinerLockedOut'
    BY <1>1, <2>2, <2>10 DEF NoneBeyond, JoinerLockedOut
  <2>12. OnTheWay'
    <3> SUFFICES ASSUME NEW q \in Participants, remote[q] = "none"
                 PROVE  \/ \A g \in given[q] : g.epoch < key'.epoch
                        \/ HasEpoch' \/ step = "removed"
      BY <1>1 DEF OnTheWay
    <3>1. CASE \A g \in given[q] : g.epoch <= key.epoch
      BY <3>1, <2>2, <2>10
    <3>2. CASE \A g \in given[q] : g.epoch < key.epoch
      BY <3>2, <2>2, <2>10
    <3> QED
      BY <3>1, <3>2, <1>3, <2>4, <2>5 DEF OnTheWay
  <2>13. HearsSoon'
    <3> SUFFICES ASSUME NEW q \in Participants, remote[q] \in {"auth", "done"}
                 PROVE  Derives(given[q], key') \/ key'.epoch \in queued[q]
      BY <1>1, <2>2 DEF HearsSoon, Derives
    <3> QED
      BY <1>1, <2>1, <2>2 DEF HearsSoon
  <2> QED
    BY <2>4, <2>6, <2>7, <2>8, <2>9, <2>11, <2>12, <2>13
<1> QED
  BY <1>2, <1>3

LEMMA MemberStep ==
  ASSUME IInv, NEW p \in Participants, MemberAdded(p) \/ MemberRemoved(p)
  PROVE  IInv'
<1> USE DEF IInv
<1>1. CASE MemberAdded(p)
  <2>1. /\ remote[p] = "hello" /\ SendAuth(p) /\ backlog' = backlog \ {p}
        /\ UNCHANGED <<sfu, queue, step, raised, keyvars, queued, before, sending, loner, aborted>>
    BY <1>1 DEF MemberAdded
  <2>2. StepFits' /\ Once' /\ HasEpoch' = HasEpoch
        /\ \A q \in Participants : Newcomer(q)' => Newcomer(q)
    BY <2>1 DEF StepFits, Once, HasEpoch, Newcomer, Waits
  <2>3. TypeOK'
    <3>1. {[epoch |-> e, ratchet |-> 0] : e \in {pending.epoch} \ {None}} \subseteq Key
          /\ key \in Key
      BY DEF TypeOK, Key, None
    <3>2. given' \in [Participants -> SUBSET Key]
      BY <2>1, <3>1 DEF SendAuth, TypeOK
    <3>3. remote' \in [Participants -> {"none", "hello", "auth", "done"}]
      BY <2>1 DEF SendAuth, TypeOK
    <3> QED
      BY <2>1, <3>2, <3>3 DEF TypeOK, keyvars
  <2> QED
    BY <2>1, <2>2, <2>3, AuthStep DEF keyvars
<1>2. CASE MemberRemoved(p)
  <2> DEFINE j == [do |-> "abort", of |-> p]
  <2>1. /\ j \in Job /\ Comes(queue, queue', 0, j) /\ raised' = raised \cup {p}
        /\ (queue # <<>> => queue' # <<>>)
        /\ UNCHANGED <<sfu, step, remote, backlog, keyvars, given, queued, before,
                       sending, loner, aborted>>
    BY <1>2, RaiseComes DEF MemberRemoved
  <2>2. /\ Once' /\ \A q \in Participants : Newcomer(q)' => Newcomer(q)
        /\ HasEpoch => HasEpoch' /\ (queue # <<>> => queue'[1] = queue[1])
    BY <2>1, NobodyNew
  <2>3. StepFits' /\ TypeOK'
    BY <2>1, <2>2 DEF StepFits, TypeOK, Comes, keyvars
  <2> QED
    BY <2>1, <2>2, <2>3, NoKeyStep DEF keyvars
<1> QED
  BY <1>1, <1>2

\* Messages of a participant; only who enters is new.
LEMMA SaysStep ==
  ASSUME IInv, NEW p \in Participants, Enter(p) \/ Hello(p) \/ Auth(p) \/ Leave(p)
  PROVE  IInv'
<1> USE DEF IInv
<1>1. PICK what \in {"joined", "hello", "auth", "left"}, next \in {"in", "hello", "auth", "gone"} :
        Says(p, what, next) /\ (what = "joined" => sfu[p] = "out")
  BY DEF Enter, Hello, Auth, Leave
<1> DEFINE j == [do |-> what, of |-> p]
<1>2. /\ j \in Job /\ queue \in Seq(Job) /\ queue' = Append(queue, j)
      /\ sfu' = [sfu EXCEPT ![p] = next]
      /\ UNCHANGED <<step, remote, raised, backlog, keyvars, given, queued, before,
                     sending, loner, aborted>>
  BY <1>1 DEF Says, TypeOK, Job
<1>3. Comes(queue, queue', 0, j) /\ queue' # <<>>
  BY <1>2, QueueChanges
<1>4. sfu'[p] # "out" /\ \A q \in Participants \ {p} : sfu'[q] = sfu[q]
  BY <1>2 DEF TypeOK
<1>5. /\ Once' /\ \A q \in Participants : Newcomer(q)' => Newcomer(q)
      /\ HasEpoch => HasEpoch' /\ (queue # <<>> => queue'[1] = queue[1])
  <2>1. CASE what # "joined"
    BY <2>1, <1>2, <1>3, <1>4, NobodyNew
  <2>2. CASE what = "joined"
    <3>1. /\ DOMAIN queue' = 1..(Len(queue) + 1) /\ DOMAIN queue = 1..Len(queue)
          /\ Len(queue) \in Nat /\ queue'[Len(queue) + 1] = Joining(p)
          /\ \A n \in DOMAIN queue : queue'[n] = queue[n]
      BY <2>2, <1>2 DEF Joining
    <3>2. \A q \in Participants \ {p} : Joining(q) # Joining(p)
      BY DEF Joining
    <3>3. \A n \in DOMAIN queue : queue[n] # Joining(p)
      BY <2>2, <1>1 DEF Once
    <3>4. Once'
      <4> SUFFICES ASSUME NEW q \in Participants
                   PROVE  /\ sfu'[q] = "out" => \A n \in DOMAIN queue' : queue'[n] # Joining(q)
                          /\ \A m, n \in DOMAIN queue' :
                                queue'[m] = Joining(q) /\ queue'[n] = Joining(q) => m = n
        BY DEF Once, Joining
      <4>1. CASE q = p
        BY <4>1, <1>4, <3>1, <3>3
      <4>2. CASE q # p
        BY <4>2, <1>4, <3>1, <3>2 DEF Once
      <4> QED
        BY <4>1, <4>2
    <3>5. \A q \in Participants : Newcomer(q)' => Newcomer(q)
      <4> SUFFICES ASSUME NEW q \in Participants \ {p}, Newcomer(q)' PROVE Newcomer(q)
        BY <2>2, <1>1 DEF Newcomer
      <4>1. CASE sfu'[q] = "out"
        BY <4>1, <1>4 DEF Newcomer
      <4>2. CASE Waits(q)'
        <5>1. PICK n \in DOMAIN queue' : queue'[n] = Joining(q) /\ (n = 1 => step # "joining")
          BY <4>2, <1>2 DEF Waits, Joining
        <5> QED
          BY <5>1, <3>1, <3>2 DEF Newcomer, Waits
      <4> QED
        BY <4>1, <4>2 DEF Newcomer
    <3>6. HasEpoch => HasEpoch'
      BY <3>1 DEF HasEpoch
    <3>7. queue # <<>> => queue'[1] = queue[1]
      BY <1>2, <3>1
    <3> QED
      BY <3>4, <3>5, <3>6, <3>7
  <2> QED
    BY <2>1, <2>2
<1>6. StepFits'
  BY <1>2, <1>5 DEF StepFits, TypeOK
<1>7. TypeOK'
  <2>1. sfu' \in [Participants -> {"out", "in", "hello", "auth", "gone"}]
    BY <1>2 DEF TypeOK
  <2> QED
    BY <1>2, <1>3, <2>1 DEF TypeOK, Comes, keyvars
<1> QED
  BY <1>2, <1>5, <1>6, <1>7, NoKeyStep DEF keyvars

LEMMA AbortStep ==
  ASSUME IInv, Abort
  PROVE  IInv'
<1> USE DEF IInv
<1>1. StepFits' /\ Once' /\ HasEpoch' = HasEpoch
      /\ \A q \in Participants : Newcomer(q)' => Newcomer(q)
  BY DEF Abort, StepFits, Once, HasEpoch, Newcomer, Waits
<1>2. TypeOK'
  BY DEF Abort, TypeOK, keyvars
<1> QED
  BY <1>1, <1>2, NoKeyStep DEF Abort, keyvars

\* Every step keeps the invariant.
THEOREM NextInvariant == IInv /\ [Next]_vars => IInv'
<1> SUFFICES ASSUME IInv, [Next]_vars PROVE IInv'
  OBVIOUS
<1>1. CASE UNCHANGED vars
  <2>1. StepFits' /\ Once' /\ HasEpoch' = HasEpoch
        /\ \A q \in Participants : Newcomer(q)' => Newcomer(q)
    BY <1>1 DEF vars, IInv, StepFits, Once, HasEpoch, Newcomer, Waits
  <2>2. TypeOK'
    BY <1>1 DEF vars, keyvars, IInv, TypeOK
  <2> QED
    BY <1>1, <2>1, <2>2, NoKeyStep DEF vars, keyvars
<1>2. CASE Work
  BY <1>2, HelloStep, HandleAuthStep, HandleJoinedStep, HandleLeftStep, RemovedStep,
     JoinedStep, RemoveStep DEF Work
<1> QED
  BY <1>1, <1>2, ApplyStep, AbortStep, MemberStep, SaysStep DEF Next

\* The inductive invariant holds in every behaviour.
THEOREM Invariance == Spec => []IInv
BY InitInvariant, NextInvariant, PTL DEF Spec

\* Type correctness (CallParticipants).
THEOREM TypeCorrect == Spec => []TypeOK
<1>1. IInv => TypeOK
  BY DEF IInv
<1> QED
  BY Invariance, <1>1, PTL

\* Who is not in the call can decrypt neither what was sent before nor what is
\* sent after it was there (OngoingGroupCall, _increaseEpoch and the ratchet).
THEOREM OutsidersHaveNoKey == Spec => []OutsidersLockedOut
<1>1. IInv => OutsidersLockedOut
  <2> SUFFICES ASSUME IInv PROVE LeaverLockedOut
    BY DEF IInv, OutsidersLockedOut
  <2> SUFFICES ASSUME NEW p \in Participants, remote[p] = "none", pending.epoch = None,
                      step # "removed", ~aborted, ~HasEpoch
               PROVE  ~Derives(given[p], key)
    BY DEF LeaverLockedOut, HasEpoch
  <2>1. \A g \in given[p] : g.epoch < key.epoch
    BY DEF IInv, OnTheWay
  <2>2. key.epoch \in Nat
    BY DEF IInv, TypeOK, Key
  <2> QED
    BY <2>1, <2>2 DEF Derives
<1> QED
  BY Invariance, <1>1, PTL

\* Who was authenticated can decrypt the media of the user, unless the epoch
\* began while it shook hands (SendAuth, _increaseEpoch and the ratchet).
THEOREM AuthenticatedHaveTheKey == Spec => []HearsUnlessQueued
<1>1. IInv => HearsUnlessQueued
  BY DEF IInv, HearsSoon, HearsUnlessQueued, Authenticated
<1> QED
  BY Invariance, <1>1, PTL

-----------------------------------------------------------------------------
(* GroupCall: the invariant *)

\* The job at the head of a queue is under way, and calls are looked at again.
GoesOn(x) ==
    /\ x.step # "idle" => x.queue # <<>>
    /\ Running(x) # {} => x.timer \/ x.queue # <<>>

\* A context knows call c by a job that it has not begun, or as a running call;
\* while it peeks, as the call that it does not peek.
Knows(x, c) ==
    \/ \E n \in DOMAIN x.queue : c \in x.queue[n].add /\ (n = 1 => x.step = "idle")
    \/ c \in Running(x) /\ (x.step = "peek" => x.own = c)

OngoingIsHeld == ongoing # 0 /\ ~hangup => \E i \in Contexts : Knows(contexts[i], ongoing)

\* There is room for the context of a call that is being joined.
RoomIsLeft ==
    /\ Len(contexts) <= MaxContexts
    /\ join.at \notin {"idle", "register"} => Len(contexts) < MaxContexts
    /\ join.at = "connect" => join.call # 0

GroupInv ==
    /\ GroupTypeOK
    /\ \A i \in Contexts : GoesOn(contexts[i])
    /\ OngoingIsHeld /\ RoomIsLeft

\* The invariant, as what is said of the contexts and of the rest.
Inside ==
    /\ contexts \in Seq(Context)
    /\ mapped # 0 => mapped \in Contexts /\ ~contexts[mapped].aborted
    /\ \A i \in Contexts : GoesOn(contexts[i])
    /\ OngoingIsHeld

Outside ==
    /\ onSfu \in [Calls -> {"none", "live", "ended"}] /\ inbox \subseteq Calls
    /\ member \in BOOLEAN /\ mapped \in 0..MaxContexts
    /\ db \subseteq [call : Calls, failed : 0..MaxFailed]
    /\ chosen \in Calls \cup {0} /\ ongoing \in Calls \cup {0} /\ hangup \in BOOLEAN
    /\ join \in [at : {"idle", "token", "refresh", "refreshed", "connect", "register"},
                 call : Calls \cup {0}, create : BOOLEAN]
    /\ announced \in [Calls -> [started : Nat, ended : Nat]]

-----------------------------------------------------------------------------
(* Least and greatest numbers *)

LEMMA Least ==
  ASSUME NEW S \in SUBSET Nat, S # {}
  PROVE  \E m \in S : \A n \in S : m <= n
<1>1. PICK m \in S : \A n \in S : ~(<<n, m>> \in OpToRel(<, Nat))
  BY NatLessThanWellFounded, WFMin
<1>2. \A n \in S : ~(n < m)
  BY <1>1 DEF OpToRel
<1> QED
  BY <1>2

LEMMA Greatest ==
  ASSUME NEW S \in SUBSET Nat, S # {}, IsFiniteSet(S)
  PROVE  \E m \in S : \A n \in S : m >= n
<1> DEFINE Above(m) == {n \in S : m < n}
           T == {Cardinality(Above(m)) : m \in S}
<1>1. \A m \in S : IsFiniteSet(Above(m)) /\ Cardinality(Above(m)) \in Nat
  BY FS_Subset, FS_CardinalityType
<1>2. T \subseteq Nat /\ T # {}
  BY <1>1
<1>3. PICK m \in S : \A n \in S : Cardinality(Above(m)) <= Cardinality(Above(n))
  <2>1. PICK t \in T : \A u \in T : t <= u
    BY <1>2, Least
  <2> QED
    BY <2>1
<1>4. ASSUME NEW n \in S, m < n PROVE FALSE
  <2>1. Above(n) \subseteq Above(m) /\ n \in Above(m) /\ n \notin Above(n)
    <3>1. n \in Nat /\ m \in Nat
      OBVIOUS
    <3>2. \A k \in Nat : n < k => m < k
      BY <1>4, <3>1
    <3>3. Above(n) \subseteq Above(m)
      BY <3>2
    <3> QED
      BY <1>4, <3>1, <3>3
  <2>2. Cardinality(Above(n)) < Cardinality(Above(m))
    <3> HIDE DEF Above
    <3>1. Cardinality(Above(n)) = Cardinality(Above(m)) => Above(n) = Above(m)
      BY <1>1, <2>1, FS_Subset
    <3>2. Cardinality(Above(n)) <= Cardinality(Above(m))
      BY <1>1, <2>1, FS_Subset
    <3> QED
      BY <1>1, <2>1, <3>1, <3>2
  <2> QED
    BY <1>1, <1>3, <2>2
<1> QED
  BY <1>4

LEMMA MinMax ==
  ASSUME NEW S \in SUBSET Nat, S # {}
  PROVE  /\ Min(S) \in S /\ \A n \in S : Min(S) <= n
         /\ IsFiniteSet(S) => Max(S) \in S
<1>1. Min(S) \in S /\ \A n \in S : Min(S) <= n
  BY Least DEF Min
<1>2. IsFiniteSet(S) => Max(S) \in S
  BY Greatest DEF Max
<1> QED
  BY <1>1, <1>2

\* The call that is chosen is one of the group, if any.
LEMMA ChooseType ==
  ASSUME NEW running \in [Calls -> States]
  PROVE  Choose(running) \in Calls \cup {0}
<1> DEFINE on == {c \in Calls : running[c] \in {"peeked", "ongoing"}}
<1>1. on \subseteq Nat /\ IsFiniteSet(on)
  BY GroupCallAssumption, FS_Subset
<1> QED
  BY <1>1, MinMax DEF Choose

-----------------------------------------------------------------------------
(* One context *)

LEMMA RefreshType == Refresh \in ContextJob /\ [Refresh EXCEPT !.for = TRUE] \in ContextJob
  BY DEF Refresh, ContextJob

LEMMA JobsAre ==
  ASSUME NEW q \in Seq(ContextJob)
  PROVE  /\ q # <<>> => Head(q) \in ContextJob /\ Head(q) = q[1] /\ 1 \in DOMAIN q
         /\ \A job \in ContextJob : Append(q, job) # <<>>
<1>1. DOMAIN q = 1..Len(q) /\ Len(q) \in Nat
  OBVIOUS
<1>2. q # <<>> => Len(q) >= 1
  OBVIOUS
<1>3. q # <<>> => 1 \in DOMAIN q /\ Head(q) = q[1]
  BY <1>1, <1>2
<1>4. ASSUME NEW job \in ContextJob PROVE Append(q, job) # <<>>
  <2>1. Len(Append(q, job)) = Len(q) + 1
    OBVIOUS
  <2> QED
    BY <1>1, <2>1
<1> QED
  BY <1>1, <1>3, <1>4

LEMMA EnqueueIs ==
  ASSUME NEW x \in Context, NEW job \in ContextJob
  PROVE  /\ Enqueue(x, job) \in Context
         /\ Enqueue(x, job).aborted = x.aborted
         /\ GoesOn(x) => GoesOn(Enqueue(x, job))
         /\ \A c : Knows(x, c) => Knows(Enqueue(x, job), c)
         /\ \A c \in job.add : GoesOn(x) => Knows(Enqueue(x, job), c)
<1> DEFINE y == Enqueue(x, job)
           q == x.queue
<1>1. /\ y = [x EXCEPT !.queue = Append(q, job)]
      /\ q \in Seq(ContextJob) /\ Append(q, job) \in Seq(ContextJob)
  BY DEF Enqueue, Context
<1>2. /\ y \in Context /\ y.queue = Append(q, job) /\ y.aborted = x.aborted
      /\ y.running = x.running /\ y.step = x.step /\ y.own = x.own /\ y.timer = x.timer
  BY <1>1 DEF Context
<1>3. /\ DOMAIN y.queue = 1..Len(q) + 1 /\ DOMAIN q = 1..Len(q) /\ Len(q) \in Nat
      /\ y.queue[Len(q) + 1] = job /\ y.queue # <<>>
  BY <1>1, <1>2
<1>4. \A n \in DOMAIN q : y.queue[n] = q[n]
  BY <1>1, <1>2
<1>5. Running(y) = Running(x)
  BY <1>2 DEF Running
<1> HIDE DEF y
<1>6. GoesOn(x) => GoesOn(y)
  BY <1>2, <1>3, <1>5 DEF GoesOn
<1>7. ASSUME NEW c, Knows(x, c) PROVE Knows(y, c)
  <2>1. CASE c \in Running(x) /\ (x.step = "peek" => x.own = c)
    BY <1>2, <1>5, <2>1 DEF Knows
  <2>2. ASSUME NEW n \in DOMAIN q, c \in q[n].add, n = 1 => x.step = "idle"
        PROVE  Knows(y, c)
    <3>1. n \in DOMAIN y.queue /\ y.queue[n] = q[n]
      BY <1>3, <1>4
    <3> QED
      BY <1>2, <2>2, <3>1 DEF Knows
  <2> QED
    BY <1>7, <2>1, <2>2 DEF Knows
<1>8. ASSUME NEW c \in job.add, GoesOn(x) PROVE Knows(y, c)
  <2>1. Len(q) + 1 = 1 => x.step = "idle"
    BY <1>1, <1>3, <1>8 DEF GoesOn
  <2> QED
    BY <1>2, <1>3, <2>1 DEF Knows
<1> QED
  BY <1>2, <1>6, <1>7, <1>8 DEF y

\* The head of the queue is gone, whatever comes after it is not begun.
LEMMA DoneIs ==
  ASSUME NEW x \in Context, x.queue # <<>>
  PROVE  /\ Done(x) \in Context
         /\ Done(x).aborted = x.aborted /\ GoesOn(Done(x))
         /\ \A c \in Running(x) : Knows(Done(x), c)
         /\ \A c : \A n \in DOMAIN x.queue : n # 1 /\ c \in x.queue[n].add => Knows(Done(x), c)
<1> DEFINE y == Done(x)
           q == x.queue
<1>1. /\ q \in Seq(ContextJob) /\ Tail(q) \in Seq(ContextJob) /\ (Running(x) # {}) \in BOOLEAN
  BY DEF Context
<1>2. /\ y \in Context /\ y.queue = Tail(q) /\ y.aborted = x.aborted
      /\ y.running = x.running /\ y.step = "idle" /\ y.timer = (Running(x) # {})
  BY <1>1 DEF Done, Context
<1>3. Running(y) = Running(x)
  BY <1>2 DEF Running
<1> HIDE DEF y
<1>4. GoesOn(y)
  BY <1>2, <1>3 DEF GoesOn
<1>5. \A c \in Running(x) : Knows(y, c)
  BY <1>2, <1>3 DEF Knows
<1>6. ASSUME NEW n \in DOMAIN q, NEW c, n # 1, c \in q[n].add PROVE Knows(y, c)
  <2>1. n - 1 \in DOMAIN Tail(q) /\ Tail(q)[n - 1] = q[n]
    BY <1>1, <1>6
  <2> QED
    BY <1>2, <1>6, <2>1 DEF Knows
<1> QED
  BY <1>2, <1>4, <1>5, <1>6 DEF y

LEMMA NewContextIs ==
  ASSUME NEW now
  PROVE  NewContext(now) \in Context /\ ~NewContext(now).aborted /\ GoesOn(NewContext(now))
<1>1. <<Refresh>> \in Seq(ContextJob) /\ <<>> \in Seq(ContextJob)
  BY RefreshType
<1>2. /\ [c \in Calls |-> "no"] \in [Calls -> States]
      /\ [c \in Calls |-> 0] \in [Calls -> 0..MaxFailed]
  BY GroupCallAssumption DEF States
<1>3. NewContext(now) \in Context /\ ~NewContext(now).aborted
  BY <1>1, <1>2 DEF NewContext, Context
<1>4. Running(NewContext(now)) = {} /\ NewContext(now).step = "idle"
  BY DEF NewContext, Running
<1> QED
  BY <1>3, <1>4 DEF GoesOn

LEMMA AbandonedIs ==
  ASSUME NEW x \in Context
  PROVE  /\ Abandoned(x) \in Context /\ Abandoned(x).aborted = x.aborted
         /\ GoesOn(x) => GoesOn(Abandoned(x))
<1> DEFINE q == x.queue
           r == [n \in DOMAIN q |-> [q[n] EXCEPT !.for = FALSE]]
           y == [x EXCEPT !.queue = r]
<1>1. q \in Seq(ContextJob) /\ DOMAIN q = 1..Len(q) /\ Len(q) \in Nat
  BY DEF Context
<1>2. \A n \in DOMAIN q : [q[n] EXCEPT !.for = FALSE] \in ContextJob
  <2>1. ASSUME NEW j \in ContextJob PROVE [j EXCEPT !.for = FALSE] \in ContextJob
    BY DEF ContextJob
  <2> QED
    BY <1>1, <2>1
<1>3. r \in Seq(ContextJob) /\ DOMAIN r = DOMAIN q
  <2>1. r \in [1..Len(q) -> ContextJob]
    BY <1>1, <1>2
  <2> HIDE DEF r
  <2> QED
    BY <1>1, <2>1
<1> HIDE DEF r
<1>4. /\ y \in Context /\ y.queue = r /\ y.aborted = x.aborted /\ y.step = x.step
      /\ y.timer = x.timer /\ Running(y) = Running(x)
  BY <1>3 DEF Context, Running
<1>5. Abandoned(x) \in {x, y}
  BY DEF Abandoned, r
<1>6. GoesOn(x) => GoesOn(y)
  <2>1. q # <<>> => r # <<>>
    BY <1>1, <1>3
  <2> QED
    BY <1>4, <2>1 DEF GoesOn
<1> QED
  BY <1>4, <1>5, <1>6


-----------------------------------------------------------------------------
(* The contexts together *)

LEMMA GroupInvIs ==
  /\ GroupInv <=> Inside /\ Outside /\ RoomIsLeft
  /\ GroupInv' <=> Inside' /\ Outside' /\ RoomIsLeft'
BY DEF GroupInv, GroupTypeOK, Inside, Outside

LEMMA Untouched ==
  ASSUME GroupInv, UNCHANGED <<contexts, mapped, ongoing, hangup>>
  PROVE  Inside'
BY GroupInvIs DEF Inside, Contexts, OngoingIsHeld

\* One context changes, and keeps what it knows.
LEMMA OneContext ==
  ASSUME GroupInv, NEW i \in Contexts, NEW y \in Context,
         contexts' = [contexts EXCEPT ![i] = y], GoesOn(y),
         mapped' # 0 => mapped' = mapped /\ y.aborted = contexts[i].aborted,
         \/ UNCHANGED <<ongoing, hangup>> /\ (Knows(contexts[i], ongoing) => Knows(y, ongoing))
         \/ Knows(y, ongoing')
  PROVE  Inside' /\ Len(contexts') = Len(contexts)
<1>1. /\ contexts \in Seq(Context) /\ \A j \in Contexts : GoesOn(contexts[j])
      /\ mapped # 0 => mapped \in Contexts /\ ~contexts[mapped].aborted
      /\ OngoingIsHeld
  BY GroupInvIs DEF Inside
<1>2. contexts' \in Seq(Context) /\ Contexts' = Contexts /\ Len(contexts') = Len(contexts)
  BY <1>1 DEF Contexts
<1>3. contexts'[i] = y /\ \A j \in Contexts : j # i => contexts'[j] = contexts[j]
  BY <1>1 DEF Contexts
<1>4. \A j \in Contexts' : GoesOn(contexts'[j])
  BY <1>1, <1>2, <1>3
<1>5. mapped' # 0 => mapped' \in Contexts' /\ ~contexts'[mapped'].aborted
  BY <1>1, <1>2, <1>3
<1>6. OngoingIsHeld'
  <2>1. CASE Knows(y, ongoing')
    BY <1>2, <1>3, <2>1 DEF OngoingIsHeld
  <2>2. CASE UNCHANGED <<ongoing, hangup>> /\ (Knows(contexts[i], ongoing) => Knows(y, ongoing))
    <3>1. ASSUME ongoing' # 0, ~hangup' PROVE \E j \in Contexts' : Knows(contexts'[j], ongoing')
      <4>1. PICK j \in Contexts : Knows(contexts[j], ongoing)
        BY <1>1, <2>2, <3>1 DEF OngoingIsHeld
      <4>2. Knows(contexts'[j], ongoing)
        BY <1>3, <2>2, <4>1
      <4> QED
        BY <1>2, <2>2, <4>2
    <3> QED
      BY <3>1 DEF OngoingIsHeld
  <2> QED
    BY <2>1, <2>2
<1> QED
  BY <1>2, <1>4, <1>5, <1>6 DEF Inside

\* A context is made, and the manager has it for the group.
LEMMA OneMore ==
  ASSUME GroupInv, NEW y \in Context, contexts' = Append(contexts, y), GoesOn(y),
         ~y.aborted, mapped' = Len(contexts'), Len(contexts) < MaxContexts,
         UNCHANGED <<ongoing, hangup>> \/ Knows(y, ongoing')
  PROVE  Inside' /\ Len(contexts') = Len(contexts) + 1 /\ mapped' \in 0..MaxContexts
<1>1. /\ contexts \in Seq(Context) /\ \A j \in Contexts : GoesOn(contexts[j])
      /\ OngoingIsHeld
  BY GroupInvIs DEF Inside
<1>2. /\ contexts' \in Seq(Context) /\ Contexts' = 1..Len(contexts) + 1
      /\ Contexts = 1..Len(contexts) /\ Len(contexts) \in Nat
      /\ Len(contexts') = Len(contexts) + 1
  BY <1>1 DEF Contexts
<1>3. /\ contexts'[Len(contexts) + 1] = y
      /\ \A j \in Contexts : contexts'[j] = contexts[j]
  BY <1>1 DEF Contexts
<1>4. \A j \in Contexts' : GoesOn(contexts'[j])
  <2>1. \A j \in Contexts' : j \in Contexts \/ j = Len(contexts) + 1
    BY <1>2
  <2> QED
    BY <1>1, <1>3, <2>1
<1>5. /\ mapped' # 0 => mapped' \in Contexts' /\ ~contexts'[mapped'].aborted
      /\ mapped' \in 0..MaxContexts
  BY <1>2, <1>3, GroupCallAssumption
<1>6. OngoingIsHeld'
  <2>1. CASE Knows(y, ongoing')
    BY <1>2, <1>3, <2>1 DEF OngoingIsHeld
  <2>2. CASE UNCHANGED <<ongoing, hangup>>
    <3>1. ASSUME ongoing' # 0, ~hangup' PROVE \E j \in Contexts' : Knows(contexts'[j], ongoing')
      <4>1. PICK j \in Contexts : Knows(contexts[j], ongoing)
        BY <1>1, <2>2, <3>1 DEF OngoingIsHeld
      <4>2. Knows(contexts'[j], ongoing) /\ j \in Contexts'
        BY <1>2, <1>3, <4>1
      <4> QED
        BY <2>2, <4>2
    <3> QED
      BY <3>1 DEF OngoingIsHeld
  <2> QED
    BY <2>1, <2>2
<1> QED
  BY <1>2, <1>4, <1>5, <1>6 DEF Inside

\* All contexts change, and there is no ongoing call any more.
LEMMA AllContexts ==
  ASSUME GroupInv, NEW f, contexts' = [j \in Contexts |-> f[j]],
         \A j \in Contexts : f[j] \in Context /\ GoesOn(f[j]),
         mapped' # 0 => mapped' = mapped /\ f[mapped].aborted = contexts[mapped].aborted,
         ongoing' = 0 \/ hangup'
  PROVE  Inside' /\ Len(contexts') = Len(contexts)
<1>1. /\ contexts \in Seq(Context) /\ Contexts = 1..Len(contexts) /\ Len(contexts) \in Nat
      /\ mapped # 0 => mapped \in Contexts /\ ~contexts[mapped].aborted
  BY GroupInvIs DEF Inside, Contexts
<1>2. contexts' \in [1..Len(contexts) -> Context]
  BY <1>1
<1>3. /\ contexts' \in Seq(Context) /\ Contexts' = Contexts /\ Len(contexts') = Len(contexts)
  BY <1>1, <1>2 DEF Contexts
<1>4. \A j \in Contexts : contexts'[j] = f[j]
  OBVIOUS
<1>5. /\ \A j \in Contexts' : GoesOn(contexts'[j])
      /\ mapped' # 0 => mapped' \in Contexts' /\ ~contexts'[mapped'].aborted
  BY <1>1, <1>3, <1>4
<1>6. OngoingIsHeld'
  BY DEF OngoingIsHeld
<1> QED
  BY <1>3, <1>5, <1>6 DEF Inside

LEMMA ContextsAre ==
  ASSUME GroupInv
  PROVE  \A i \in Contexts : contexts[i] \in Context /\ GoesOn(contexts[i])
BY GroupInvIs DEF Inside, Contexts

LEMMA StoredType ==
  ASSUME NEW x \in Context
  PROVE  Stored(x) \subseteq [call : Calls, failed : 0..MaxFailed]
BY DEF Stored, Running, Context

\* What is given back to the join steps.
LEMMA ReplyIs ==
  ASSUME GroupInv, NEW i, NEW call \in Calls \cup {0}
  PROVE  /\ Reply(i, call) \in
                [at : {"idle", "token", "refresh", "refreshed", "connect", "register"},
                 call : Calls \cup {0}, create : BOOLEAN]
         /\ Reply(i, call).at \notin {"idle", "register"} => join.at \notin {"idle", "register"}
         /\ Reply(i, call).at = "connect" => Reply(i, call).call # 0
<1>1. /\ join \in [at : {"idle", "token", "refresh", "refreshed", "connect", "register"},
                   call : Calls \cup {0}, create : BOOLEAN]
      /\ join.at = "connect" => join.call # 0
  BY GroupInvIs DEF Outside, RoomIsLeft
<1>2. CASE Reply(i, call) = join
  BY <1>1, <1>2
<1>3. CASE Reply(i, call) = NoJoin
  BY <1>3 DEF NoJoin
<1>4. CASE join.at = "refresh" /\ Reply(i, call) = [join EXCEPT !.at = "refreshed", !.call = call]
  BY <1>1, <1>4
<1> QED
  BY <1>2, <1>3, <1>4 DEF Reply


-----------------------------------------------------------------------------
(* The steps of the group: registering, and the jobs of a context *)

LEMMA RegisterKeeps ==
  ASSUME GroupInv, NEW calls \in SUBSET Calls, NEW as \in {"new", "reload", "ongoing"},
         NEW now, Register(calls, as, now), mapped = 0 => Len(contexts) < MaxContexts,
         UNCHANGED <<ongoing, hangup>> \/ ongoing' \in calls
  PROVE  /\ Inside' /\ mapped' \in 0..MaxContexts /\ (db' = db \/ db' = {})
         /\ mapped # 0 => Len(contexts') = Len(contexts)
         /\ mapped = 0 => Len(contexts') = Len(contexts) + 1
<1> DEFINE job == [add |-> calls, as |-> as, for |-> as = "ongoing"]
<1>1. job \in ContextJob /\ job.add = calls
  BY DEF ContextJob
<1> HIDE DEF job
<1>2. CASE mapped # 0
  <2> DEFINE y == Enqueue(contexts[mapped], job)
  <2>1. contexts' = [contexts EXCEPT ![mapped] = y] /\ UNCHANGED <<mapped, db>>
    BY <1>2 DEF Register, job
  <2>2. /\ mapped \in Contexts /\ contexts[mapped] \in Context /\ GoesOn(contexts[mapped])
        /\ mapped \in 0..MaxContexts
    BY <1>2, GroupInvIs, ContextsAre DEF Inside, Outside
  <2>3. /\ y \in Context /\ GoesOn(y) /\ y.aborted = contexts[mapped].aborted
        /\ Knows(contexts[mapped], ongoing) => Knows(y, ongoing)
        /\ \A c \in calls : Knows(y, c)
    BY <1>1, <2>2, EnqueueIs
  <2> HIDE DEF y
  <2>4. Inside' /\ Len(contexts') = Len(contexts)
    BY <2>1, <2>2, <2>3, OneContext
  <2> QED
    BY <1>2, <2>1, <2>2, <2>4
<1>3. CASE mapped = 0
  <2> DEFINE y == Enqueue(NewContext(now), job)
  <2>1. contexts' = Append(contexts, y) /\ mapped' = Len(contexts') /\ db' = {}
    BY <1>3 DEF Register, job
  <2>2. NewContext(now) \in Context /\ ~NewContext(now).aborted /\ GoesOn(NewContext(now))
    BY NewContextIs
  <2>3. y \in Context /\ GoesOn(y) /\ ~y.aborted /\ \A c \in calls : Knows(y, c)
    BY <1>1, <2>2, EnqueueIs
  <2> HIDE DEF y
  <2>4. Inside' /\ Len(contexts') = Len(contexts) + 1 /\ mapped' \in 0..MaxContexts
    BY <1>3, <2>1, <2>3, OneMore
  <2> QED
    BY <1>3, <2>1, <2>4
<1> QED
  BY <1>2, <1>3

LEMMA ReceiveKeeps == ASSUME GroupInv, NEW c \in Calls, Receive(c) PROVE GroupInv'
<1>1. /\ mapped = 0 => Spare(join)
      /\ UNCHANGED onSfu /\ UNCHANGED member /\ UNCHANGED chosen /\ UNCHANGED ongoing
      /\ UNCHANGED hangup /\ UNCHANGED join /\ UNCHANGED announced
      /\ inbox' \subseteq inbox
  BY DEF Receive
<1>2. Outside /\ RoomIsLeft /\ Inside
  BY GroupInvIs
<1>3. Len(contexts) \in Nat
  BY <1>2 DEF Inside
<1>4. mapped = 0 => Len(contexts) < MaxContexts
  BY <1>1, <1>3, GroupCallAssumption DEF Spare
<1>5. CASE Register({c}, "new", ongoing)
  <2>1. /\ Inside' /\ mapped' \in 0..MaxContexts /\ (db' = db \/ db' = {})
        /\ mapped # 0 => Len(contexts') = Len(contexts)
        /\ mapped = 0 => Len(contexts') = Len(contexts) + 1
    BY <1>1, <1>4, <1>5, RegisterKeeps
  <2>2. Outside'
    BY <1>1, <1>2, <2>1 DEF Outside
  <2>3. RoomIsLeft'
    BY <1>1, <1>2, <1>3, <2>1, GroupCallAssumption DEF RoomIsLeft, Spare, NoJoin
  <2> QED
    BY <2>1, <2>2, <2>3, GroupInvIs
<1>6. CASE UNCHANGED <<contexts, mapped, db>>
  <2>1. Inside'
    BY <1>1, <1>6, Untouched
  <2>2. Outside' /\ RoomIsLeft'
    BY <1>1, <1>2, <1>6 DEF Outside, RoomIsLeft
  <2> QED
    BY <2>1, <2>2, GroupInvIs
<1> QED
  BY <1>5, <1>6 DEF Receive

LEMMA BeginKeeps == ASSUME GroupInv, NEW i \in Contexts, Begin(i) PROVE GroupInv'
<1> DEFINE x == contexts[i]
           job == Head(x.queue)
           new == {c \in job.add : x.running[c] = "no"}
           running == [c \in Calls |->
                IF c \in job.add /\ job.as = "ongoing" THEN "ongoing"
                ELSE IF c \in new THEN "init" ELSE x.running[c]]
           y == [x EXCEPT !.running = running, !.timer = FALSE]
           z == [y EXCEPT !.step = "token"]
<1>1. /\ x.queue # <<>> /\ x.step = "idle"
      /\ announced' = [c \in Calls |-> IF c \in new /\ job.as # "reload"
                        THEN [announced[c] EXCEPT !.started = @ + 1] ELSE announced[c]]
      /\ db' = (IF x.aborted \/ job.add = {} THEN db ELSE Stored(y))
      /\ inbox' = inbox \ job.add
      /\ IF Running(y) = {}
         THEN contexts' = [contexts EXCEPT ![i] = Done(y)] /\ join' = Reply(i, 0)
         ELSE contexts' = [contexts EXCEPT ![i] = z] /\ UNCHANGED join
      /\ UNCHANGED onSfu /\ UNCHANGED member /\ UNCHANGED mapped /\ UNCHANGED chosen
      /\ UNCHANGED ongoing /\ UNCHANGED hangup
  BY DEF Begin
<1>2. x \in Context /\ GoesOn(x) /\ Outside /\ RoomIsLeft
  BY ContextsAre, GroupInvIs
<1>3. job \in ContextJob /\ job = x.queue[1] /\ 1 \in DOMAIN x.queue
  <2>1. x.queue \in Seq(ContextJob)
    BY <1>2 DEF Context
  <2> QED
    BY <1>1, <2>1, JobsAre
<1>4. running \in [Calls -> States] /\ \A c \in Calls :
        x.running[c] # "no" \/ c \in job.add => running[c] # "no"
  BY <1>2, <1>3 DEF Context, ContextJob, States
<1> HIDE DEF running, job
<1>5. /\ y \in Context /\ y.queue = x.queue /\ y.aborted = x.aborted /\ y.running = running
      /\ z \in Context /\ z.queue = x.queue /\ z.aborted = x.aborted /\ z.running = running
      /\ z.step = "token"
  BY <1>2, <1>4 DEF Context
<1>6. Running(z) = Running(y) /\ \A c \in Calls : c \in Running(x) \cup job.add => c \in Running(y)
  BY <1>4, <1>5 DEF Running
<1>7. GoesOn(z)
  BY <1>1, <1>5 DEF GoesOn
<1> HIDE DEF y, z
<1>8. ongoing \in Calls \cup {0} /\ 0 \notin Calls /\ job.add \subseteq Calls
  BY <1>2, <1>3, GroupCallAssumption DEF Outside, ContextJob
<1>9. Knows(x, ongoing) =>
        \/ ongoing \in Running(y)
        \/ \E n \in DOMAIN y.queue : n # 1 /\ ongoing \in y.queue[n].add
  <2>1. CASE ongoing \in Running(x)
    BY <1>6, <2>1 DEF Running
  <2>2. ASSUME NEW n \in DOMAIN x.queue, ongoing \in x.queue[n].add
        PROVE  ongoing \in Running(y) \/ \E k \in DOMAIN y.queue : k # 1 /\ ongoing \in y.queue[k].add
    <3>1. CASE n = 1
      BY <1>3, <1>6, <1>8, <2>2, <3>1
    <3>2. CASE n # 1
      BY <1>5, <2>2, <3>2
    <3> QED
      BY <3>1, <3>2
  <2> QED
    BY <2>1, <2>2 DEF Knows
<1>10. announced' \in [Calls -> [started : Nat, ended : Nat]]
  <2>1. \A c \in Calls : announced[c] \in [started : Nat, ended : Nat]
    BY <1>2 DEF Outside
  <2>2. \A c \in Calls : [announced[c] EXCEPT !.started = @ + 1] \in [started : Nat, ended : Nat]
    BY <2>1
  <2> QED
    BY <1>1, <2>1, <2>2
<1>11. db' \subseteq [call : Calls, failed : 0..MaxFailed]
  BY <1>1, <1>2, <1>5, StoredType DEF Outside
<1>12. CASE Running(y) = {}
  <2>1. /\ Done(y) \in Context /\ Done(y).aborted = x.aborted /\ GoesOn(Done(y))
        /\ Knows(x, ongoing) => Knows(Done(y), ongoing)
    BY <1>1, <1>5, <1>9, DoneIs
  <2>2. Inside' /\ Len(contexts') = Len(contexts)
    BY <1>1, <1>12, <2>1, OneContext
  <2>3. Outside'
    BY <1>1, <1>2, <1>10, <1>11, <1>12, ReplyIs DEF Outside
  <2>4. RoomIsLeft'
    BY <1>1, <1>2, <1>12, <2>2, ReplyIs DEF RoomIsLeft
  <2> QED
    BY <2>2, <2>3, <2>4, GroupInvIs
<1>13. CASE Running(y) # {}
  <2>1. Knows(x, ongoing) => Knows(z, ongoing)
    BY <1>5, <1>6, <1>9 DEF Knows
  <2>2. Inside' /\ Len(contexts') = Len(contexts)
    BY <1>1, <1>5, <1>7, <1>13, <2>1, OneContext
  <2>3. Outside'
    BY <1>1, <1>2, <1>10, <1>11, <1>13 DEF Outside
  <2>4. RoomIsLeft'
    BY <1>1, <1>2, <1>13, <2>2 DEF RoomIsLeft
  <2> QED
    BY <2>2, <2>3, <2>4, GroupInvIs
<1> QED
  BY <1>12, <1>13


LEMMA TokenKeeps == ASSUME GroupInv, NEW i \in Contexts, Token(i) PROVE GroupInv'
<1> DEFINE x == contexts[i]
           y == [x EXCEPT !.step = "peek", !.own = ongoing]
<1>1. /\ x.step = "token" /\ contexts' = [contexts EXCEPT ![i] = y]
      /\ UNCHANGED onSfu /\ UNCHANGED inbox /\ UNCHANGED member /\ UNCHANGED mapped
      /\ UNCHANGED db /\ UNCHANGED chosen /\ UNCHANGED ongoing /\ UNCHANGED hangup
      /\ UNCHANGED join /\ UNCHANGED announced
  BY DEF Token
<1>2. x \in Context /\ GoesOn(x) /\ Outside /\ RoomIsLeft
  BY ContextsAre, GroupInvIs
<1>3. /\ y \in Context /\ y.aborted = x.aborted /\ y.queue = x.queue /\ y.timer = x.timer
      /\ y.step = "peek" /\ y.own = ongoing /\ Running(y) = Running(x)
  BY <1>2 DEF Context, Outside, Running
<1> HIDE DEF y
<1>4. GoesOn(y) /\ (Knows(x, ongoing) => Knows(y, ongoing))
  BY <1>1, <1>2, <1>3 DEF GoesOn, Knows
<1>5. Inside' /\ Len(contexts') = Len(contexts)
  BY <1>1, <1>3, <1>4, OneContext
<1>6. Outside' /\ RoomIsLeft'
  BY <1>1, <1>2, <1>5 DEF Outside, RoomIsLeft
<1> QED
  BY <1>5, <1>6, GroupInvIs

LEMMA TokenErrorKeeps == ASSUME GroupInv, NEW i \in Contexts, TokenError(i) PROVE GroupInv'
<1> DEFINE x == contexts[i]
<1>1. /\ x.step = "token" /\ contexts' = [contexts EXCEPT ![i] = Done(x)] /\ join' = Reply(i, 0)
      /\ UNCHANGED onSfu /\ UNCHANGED inbox /\ UNCHANGED member /\ UNCHANGED mapped
      /\ UNCHANGED db /\ UNCHANGED chosen /\ UNCHANGED ongoing /\ UNCHANGED hangup
      /\ UNCHANGED announced
  BY DEF TokenError
<1>2. x \in Context /\ GoesOn(x) /\ Outside /\ RoomIsLeft
  BY ContextsAre, GroupInvIs
<1>3. /\ Done(x) \in Context /\ Done(x).aborted = x.aborted /\ GoesOn(Done(x))
      /\ Knows(x, ongoing) => Knows(Done(x), ongoing)
  <2>1. x.queue # <<>>
    BY <1>1, <1>2 DEF GoesOn
  <2> QED
    BY <1>1, <1>2, <2>1, DoneIs DEF Knows
<1>4. Inside' /\ Len(contexts') = Len(contexts)
  BY <1>1, <1>3, OneContext
<1>5. Outside' /\ RoomIsLeft'
  BY <1>1, <1>2, <1>4, ReplyIs DEF Outside, RoomIsLeft
<1> QED
  BY <1>4, <1>5, GroupInvIs

\* The job that has looked at the calls is done, and the ongoing call is kept.
LEMMA FinishKeeps ==
  ASSUME GroupInv, NEW i \in Contexts, NEW z \in Context, Finish(i, z),
         z.queue = contexts[i].queue, z.queue # <<>>, z.aborted = contexts[i].aborted,
         Knows(contexts[i], ongoing) =>
             \/ ongoing \in Running(z)
             \/ \E n \in DOMAIN z.queue : n # 1 /\ ongoing \in z.queue[n].add,
         UNCHANGED <<onSfu, inbox, member, ongoing, hangup>>
  PROVE  GroupInv'
<1> DEFINE ended == Running(contexts[i]) \ Running(z)
           y == [Done(z) EXCEPT !.aborted = @ \/ Running(z) = {}]
<1>1. /\ announced' = [c \in Calls |-> IF c \in ended
                        THEN [announced[c] EXCEPT !.ended = @ + 1] ELSE announced[c]]
      /\ db' = (IF z.aborted THEN db ELSE Stored(z))
      /\ chosen' = Choose(z.running)
      /\ contexts' = [contexts EXCEPT ![i] = y]
      /\ mapped' = (IF ~z.aborted /\ Running(z) = {} THEN 0 ELSE mapped)
      /\ join' = (IF ~z.aborted /\ Running(z) = {} /\ join.at = "refresh"
                  THEN [join EXCEPT !.at = "refreshed", !.call = 0]
                  ELSE Reply(i, chosen'))
      /\ UNCHANGED onSfu /\ UNCHANGED inbox /\ UNCHANGED member
      /\ UNCHANGED ongoing /\ UNCHANGED hangup
  BY DEF Finish
<1> HIDE DEF ended
<1>2. Outside /\ RoomIsLeft
  BY GroupInvIs
<1>3. /\ Done(z) \in Context /\ Done(z).aborted = z.aborted /\ GoesOn(Done(z))
      /\ Knows(contexts[i], ongoing) => Knows(Done(z), ongoing)
  BY DoneIs
<1>4. /\ y \in Context /\ GoesOn(y) /\ (Knows(Done(z), ongoing) => Knows(y, ongoing))
      /\ Running(z) # {} \/ z.aborted => y.aborted = z.aborted
  <2>1. (Running(z) = {}) \in BOOLEAN
    OBVIOUS
  <2> DEFINE d == Done(z)
             e == Running(z) = {}
  <2>2. y = [d EXCEPT !.aborted = @ \/ e] /\ d \in Context /\ d.aborted = z.aborted /\ GoesOn(d)
    BY <1>3
  <2> HIDE DEF d, y
  <2>3. /\ y \in Context /\ y.queue = d.queue /\ y.step = d.step /\ y.own = d.own
        /\ y.timer = d.timer /\ y.running = d.running /\ y.aborted = (d.aborted \/ e)
    BY <2>2 DEF Context
  <2>4. Running(y) = Running(d)
    BY <2>3 DEF Running
  <2>5. GoesOn(y) /\ (Knows(d, ongoing) => Knows(y, ongoing))
    BY <2>2, <2>3, <2>4 DEF GoesOn, Knows
  <2>6. Running(z) # {} \/ z.aborted => y.aborted = z.aborted
    BY <2>2, <2>3 DEF Context
  <2> QED
    BY <2>3, <2>5, <2>6 DEF d
<1> HIDE DEF y
<1>5. Inside' /\ Len(contexts') = Len(contexts)
  <2>1. mapped' # 0 => mapped' = mapped /\ y.aborted = contexts[i].aborted
    BY <1>1, <1>4
  <2>2. Knows(contexts[i], ongoing) => Knows(y, ongoing)
    BY <1>3, <1>4
  <2> QED
    BY <1>1, <1>4, <2>1, <2>2, OneContext
<1>6. announced' \in [Calls -> [started : Nat, ended : Nat]]
  <2>1. \A c \in Calls : announced[c] \in [started : Nat, ended : Nat]
    BY <1>2 DEF Outside
  <2>2. \A c \in Calls : [announced[c] EXCEPT !.ended = @ + 1] \in [started : Nat, ended : Nat]
    BY <2>1
  <2> QED
    BY <1>1, <2>1, <2>2
<1>7. db' \subseteq [call : Calls, failed : 0..MaxFailed]
  BY <1>1, <1>2, StoredType DEF Outside
<1>8. chosen' \in Calls \cup {0}
  <2>1. z.running \in [Calls -> States]
    BY DEF Context
  <2> QED
    BY <1>1, <2>1, ChooseType
<1>9. mapped' \in 0..MaxContexts
  BY <1>1, <1>2, GroupCallAssumption DEF Outside
<1>10. CASE ~z.aborted /\ Running(z) = {} /\ join.at = "refresh"
  <2>1. join' = [join EXCEPT !.at = "refreshed", !.call = 0]
    BY <1>1, <1>10
  <2>2. /\ join' \in [at : {"idle", "token", "refresh", "refreshed", "connect", "register"},
                      call : Calls \cup {0}, create : BOOLEAN]
        /\ join'.at = "refreshed"
    BY <1>2, <2>1 DEF Outside
  <2>3. RoomIsLeft'
    BY <1>2, <1>5, <1>10, <2>2 DEF RoomIsLeft
  <2>4. Outside'
    BY <1>1, <1>2, <1>6, <1>7, <1>8, <1>9, <2>2 DEF Outside
  <2> QED
    BY <1>5, <2>3, <2>4, GroupInvIs
<1>11. CASE join' = Reply(i, chosen')
  <2>1. /\ join' \in [at : {"idle", "token", "refresh", "refreshed", "connect", "register"},
                      call : Calls \cup {0}, create : BOOLEAN]
        /\ join'.at \notin {"idle", "register"} => join.at \notin {"idle", "register"}
        /\ join'.at = "connect" => join'.call # 0
    BY <1>8, <1>11, ReplyIs
  <2>2. RoomIsLeft'
    BY <1>2, <1>5, <2>1 DEF RoomIsLeft
  <2>3. Outside'
    BY <1>1, <1>2, <1>6, <1>7, <1>8, <1>9, <2>1 DEF Outside
  <2> QED
    BY <1>5, <2>2, <2>3, GroupInvIs
<1> QED
  BY <1>1, <1>10, <1>11

LEMMA PeekedKeeps == ASSUME GroupInv, NEW i \in Contexts, Peeked(i) PROVE GroupInv'
<1> DEFINE x == contexts[i]
<1>1. x.step = "peek" /\ x \in Context /\ GoesOn(x) /\ Outside
  BY ContextsAre, GroupInvIs DEF Peeked
<1>2. PICK bad \in SUBSET (Running(x) \ {x.own}) :
      \E old \in SUBSET bad, timeouts \in SUBSET bad :
        LET failed == [c \in Calls |-> IF c \in bad \ timeouts
                THEN Min({MaxFailed, x.failed[c] + 1})
                ELSE IF c \in timeouts THEN x.failed[c] ELSE 0]
            dropped == {c \in old : failed[c] = MaxFailed}
            state(c) == IF x.running[c] = "no" \/ c \in dropped THEN "no"
                          ELSE IF c \in bad THEN "failed"
                          ELSE IF c = x.own THEN "ongoing"
                          ELSE IF onSfu[c] = "live" THEN "peeked" ELSE "no"
        IN Finish(i, [x EXCEPT !.running = [c \in Calls |-> state(c)], !.failed = failed])
  BY Zenon DEF Peeked
<1>3. PICK old \in SUBSET bad, timeouts \in SUBSET bad :
        LET failed == [c \in Calls |-> IF c \in bad \ timeouts
                THEN Min({MaxFailed, x.failed[c] + 1})
                ELSE IF c \in timeouts THEN x.failed[c] ELSE 0]
            dropped == {c \in old : failed[c] = MaxFailed}
            state(c) == IF x.running[c] = "no" \/ c \in dropped THEN "no"
                          ELSE IF c \in bad THEN "failed"
                          ELSE IF c = x.own THEN "ongoing"
                          ELSE IF onSfu[c] = "live" THEN "peeked" ELSE "no"
        IN Finish(i, [x EXCEPT !.running = [c \in Calls |-> state(c)], !.failed = failed])
  BY <1>2, Zenon
<1> DEFINE failed == [c \in Calls |-> IF c \in bad \ timeouts
                THEN Min({MaxFailed, x.failed[c] + 1})
                ELSE IF c \in timeouts THEN x.failed[c] ELSE 0]
           dropped == {c \in old : failed[c] = MaxFailed}
           state(c) == IF x.running[c] = "no" \/ c \in dropped THEN "no"
                          ELSE IF c \in bad THEN "failed"
                          ELSE IF c = x.own THEN "ongoing"
                          ELSE IF onSfu[c] = "live" THEN "peeked" ELSE "no"
           running == [c \in Calls |-> state(c)]
           z == [x EXCEPT !.running = running, !.failed = failed]
<1>4. Finish(i, z)
  BY <1>3, Zenon
<1>5. failed \in [Calls -> 0..MaxFailed]
  <2>1. \A c \in Calls : x.failed[c] \in 0..MaxFailed
    BY <1>1 DEF Context
  <2>2. ASSUME NEW c \in Calls PROVE Min({MaxFailed, x.failed[c] + 1}) \in 0..MaxFailed
    <3> DEFINE S == {MaxFailed, x.failed[c] + 1}
    <3>1. S \in SUBSET Nat /\ S # {} /\ MaxFailed \in S /\ MaxFailed \in Nat
      BY <2>1, GroupCallAssumption
    <3> HIDE DEF S
    <3>2. Min(S) \in S /\ Min(S) <= MaxFailed
      BY <3>1, MinMax
    <3>3. ASSUME NEW m \in Nat, m <= MaxFailed PROVE m \in 0..MaxFailed
      BY <3>1, <3>3
    <3>4. Min(S) \in Nat
      BY <3>1, <3>2
    <3>5. Min(S) \in 0..MaxFailed
      BY <3>2, <3>3, <3>4
    <3> QED
      BY <3>5 DEF S
  <2>3. 0 \in 0..MaxFailed
    BY GroupCallAssumption
  <2> QED
    BY <2>1, <2>2, <2>3
<1> HIDE DEF failed
<1>6. \A c \in Calls : state(c) \in States
  BY DEF States
<1>7. running \in [Calls -> States]
  BY <1>6
<1>8. \A c \in Calls \cap Running(x) : c = x.own => running[c] = "ongoing"
  <2>1. ASSUME NEW c \in Calls, x.running[c] # "no", c = x.own PROVE state(c) = "ongoing"
    <3>1. c \notin bad /\ c \notin dropped
      BY <2>1
    <3> HIDE DEF dropped
    <3> QED
      BY <2>1, <3>1
  <2> QED
    BY <2>1 DEF Running
<1> HIDE DEF running
<1>9. /\ z \in Context /\ z.queue = x.queue /\ z.aborted = x.aborted /\ z.running = running
  BY <1>1, <1>5, <1>7 DEF Context
<1> HIDE DEF z
<1>10. Knows(x, ongoing) =>
        \/ ongoing \in Running(z)
        \/ \E n \in DOMAIN z.queue : n # 1 /\ ongoing \in z.queue[n].add
  <2>1. ongoing \in Running(x) /\ x.own = ongoing => ongoing \in Running(z)
    BY <1>8, <1>9 DEF Running
  <2> QED
    BY <1>1, <1>9, <2>1 DEF Knows
<1>11. z.queue # <<>>
  BY <1>1, <1>9 DEF GoesOn
<1>12. UNCHANGED <<onSfu, inbox, member, ongoing, hangup>>
  BY DEF Peeked
<1> QED
  BY <1>4, <1>9, <1>10, <1>11, <1>12, FinishKeeps

LEMMA TimerKeeps == ASSUME GroupInv, NEW i \in Contexts, Timer(i) PROVE GroupInv'
<1> DEFINE x == contexts[i]
           z == [x EXCEPT !.timer = FALSE]
           y == Enqueue(z, Refresh)
<1>1. /\ x.queue = <<>> /\ contexts' = [contexts EXCEPT ![i] = y]
      /\ UNCHANGED onSfu /\ UNCHANGED inbox /\ UNCHANGED member /\ UNCHANGED mapped
      /\ UNCHANGED db /\ UNCHANGED chosen /\ UNCHANGED ongoing /\ UNCHANGED hangup
      /\ UNCHANGED join /\ UNCHANGED announced
  BY DEF Timer
<1>2. x \in Context /\ GoesOn(x) /\ Outside /\ RoomIsLeft
  BY ContextsAre, GroupInvIs
<1>3. /\ z \in Context /\ z.aborted = x.aborted /\ z.queue = x.queue /\ z.step = x.step
      /\ z.own = x.own /\ Running(z) = Running(x)
  BY <1>2 DEF Context, Running
<1>4. Knows(x, ongoing) => Knows(z, ongoing)
  BY <1>3 DEF Knows
<1> HIDE DEF z
<1>5. /\ y \in Context /\ y.aborted = x.aborted /\ (Knows(x, ongoing) => Knows(y, ongoing))
  BY <1>3, <1>4, EnqueueIs, RefreshType
<1>6. GoesOn(y)
  <2>1. y.queue = Append(z.queue, Refresh)
    BY <1>3 DEF Enqueue, Context
  <2>2. z.queue \in Seq(ContextJob)
    BY <1>3 DEF Context
  <2>3. y.queue # <<>>
    BY <2>1, <2>2, RefreshType, JobsAre
  <2> QED
    BY <2>3 DEF GoesOn
<1> HIDE DEF y
<1>7. Inside' /\ Len(contexts') = Len(contexts)
  BY <1>1, <1>5, <1>6, OneContext
<1>8. Outside' /\ RoomIsLeft'
  BY <1>1, <1>2, <1>7 DEF Outside, RoomIsLeft
<1> QED
  BY <1>7, <1>8, GroupInvIs


-----------------------------------------------------------------------------
(* The join steps *)

LEMMA JoinCallKeeps == ASSUME GroupInv, JoinCall PROVE GroupInv'
<1>1. /\ join.at = "idle" /\ ongoing = 0 /\ Spare(join)
      /\ join' \in [at : {"token"}, call : {0}, create : BOOLEAN]
      /\ UNCHANGED onSfu /\ UNCHANGED inbox /\ UNCHANGED member /\ UNCHANGED contexts
      /\ UNCHANGED mapped /\ UNCHANGED db /\ UNCHANGED chosen /\ UNCHANGED ongoing
      /\ UNCHANGED hangup /\ UNCHANGED announced
  BY DEF JoinCall
<1>2. Outside /\ RoomIsLeft /\ Len(contexts) \in Nat
  BY GroupInvIs DEF Inside
<1>3. Inside'
  BY <1>1, Untouched
<1>4. Outside'
  BY <1>1, <1>2 DEF Outside
<1>5. RoomIsLeft'
  BY <1>1, <1>2, GroupCallAssumption DEF RoomIsLeft, Spare
<1> QED
  BY <1>3, <1>4, <1>5, GroupInvIs

LEMMA JoinRefreshKeeps == ASSUME GroupInv, JoinRefresh PROVE GroupInv'
<1>1. /\ join.at = "token"
      /\ UNCHANGED onSfu /\ UNCHANGED inbox /\ UNCHANGED member /\ UNCHANGED mapped
      /\ UNCHANGED db /\ UNCHANGED chosen /\ UNCHANGED ongoing /\ UNCHANGED hangup
      /\ UNCHANGED announced
  BY DEF JoinRefresh
<1>2. Outside /\ RoomIsLeft
  BY GroupInvIs
<1>3. CASE mapped = 0
  <2>1. join' = [join EXCEPT !.at = "refreshed"] /\ UNCHANGED contexts
    BY <1>3 DEF JoinRefresh
  <2>2. Inside'
    BY <1>1, <2>1, Untouched
  <2>3. Outside' /\ RoomIsLeft'
    BY <1>1, <1>2, <2>1 DEF Outside, RoomIsLeft
  <2> QED
    BY <2>2, <2>3, GroupInvIs
<1>4. CASE mapped # 0
  <2> DEFINE job == [Refresh EXCEPT !.for = TRUE]
             y == Enqueue(contexts[mapped], job)
  <2>1. join' = [join EXCEPT !.at = "refresh"] /\ contexts' = [contexts EXCEPT ![mapped] = y]
    BY <1>4 DEF JoinRefresh
  <2>2. mapped \in Contexts /\ contexts[mapped] \in Context /\ GoesOn(contexts[mapped])
    BY <1>4, GroupInvIs, ContextsAre DEF Inside
  <2>3. /\ y \in Context /\ GoesOn(y) /\ y.aborted = contexts[mapped].aborted
        /\ Knows(contexts[mapped], ongoing) => Knows(y, ongoing)
    BY <2>2, RefreshType, EnqueueIs
  <2> HIDE DEF y
  <2>4. Inside' /\ Len(contexts') = Len(contexts)
    BY <1>1, <2>1, <2>2, <2>3, OneContext
  <2>5. Outside' /\ RoomIsLeft'
    BY <1>1, <1>2, <2>1, <2>4 DEF Outside, RoomIsLeft
  <2> QED
    BY <2>4, <2>5, GroupInvIs
<1> QED
  BY <1>3, <1>4

LEMMA JoinChosenKeeps == ASSUME GroupInv, JoinChosen PROVE GroupInv'
<1>1. /\ join.at = "refreshed"
      /\ join' = (IF join.call # 0 THEN [join EXCEPT !.at = "connect", !.create = FALSE]
                  ELSE IF join.create /\ Unused # {}
                  THEN [join EXCEPT !.at = "connect", !.call = Min(Unused)]
                  ELSE NoJoin)
      /\ UNCHANGED onSfu /\ UNCHANGED inbox /\ UNCHANGED member /\ UNCHANGED contexts
      /\ UNCHANGED mapped /\ UNCHANGED db /\ UNCHANGED chosen /\ UNCHANGED ongoing
      /\ UNCHANGED hangup /\ UNCHANGED announced
  BY DEF JoinChosen
<1>2. Outside /\ RoomIsLeft
  BY GroupInvIs
<1>3. Unused # {} => Min(Unused) \in Calls /\ Min(Unused) # 0
  <2>1. Unused \in SUBSET Nat /\ Unused \subseteq Calls
    BY GroupCallAssumption DEF Unused
  <2>2. Unused # {} => Min(Unused) \in Unused
    BY <2>1, MinMax
  <2> QED
    BY <2>1, <2>2, GroupCallAssumption
<1>4. Inside'
  BY <1>1, Untouched
<1>5. CASE join.call # 0
  BY <1>1, <1>2, <1>4, <1>5, GroupInvIs DEF Outside, RoomIsLeft
<1>6. CASE join.call = 0 /\ join.create /\ Unused # {}
  <2>1. join' = [join EXCEPT !.at = "connect", !.call = Min(Unused)]
    BY <1>1, <1>6
  <2>2. Outside' /\ RoomIsLeft'
    BY <1>1, <1>2, <1>3, <1>6, <2>1 DEF Outside, RoomIsLeft
  <2> QED
    BY <1>4, <2>2, GroupInvIs
<1>7. CASE join' = NoJoin
  <2>1. /\ join' \in [at : {"idle", "token", "refresh", "refreshed", "connect", "register"},
                      call : Calls \cup {0}, create : BOOLEAN]
        /\ join'.at = "idle"
    BY <1>7 DEF NoJoin
  <2>2. /\ UNCHANGED onSfu /\ UNCHANGED inbox /\ UNCHANGED member /\ UNCHANGED contexts
        /\ UNCHANGED mapped /\ UNCHANGED db /\ UNCHANGED chosen /\ UNCHANGED ongoing
        /\ UNCHANGED hangup /\ UNCHANGED announced
    BY <1>1
  <2>3. Outside'
    BY <1>2, <2>1, <2>2 DEF Outside
  <2>4. RoomIsLeft'
    BY <1>2, <2>1, <2>2 DEF RoomIsLeft
  <2> QED
    BY <1>4, <2>3, <2>4, GroupInvIs
<1> QED
  BY <1>1, <1>5, <1>6, <1>7

LEMMA ConnectKeeps == ASSUME GroupInv, Connect PROVE GroupInv'
<1> DEFINE c == join.call
<1>1. /\ join.at = "connect"
      /\ \/ /\ onSfu' = [onSfu EXCEPT ![c] = "live"] /\ ongoing' = c
            /\ join' = [join EXCEPT !.at = "register"] /\ Register({c}, "ongoing", c)
         \/ /\ join' = NoJoin /\ UNCHANGED onSfu /\ UNCHANGED ongoing /\ UNCHANGED contexts
            /\ UNCHANGED mapped /\ UNCHANGED db
      /\ UNCHANGED inbox /\ UNCHANGED member /\ UNCHANGED chosen /\ UNCHANGED hangup
      /\ UNCHANGED announced
  BY DEF Connect
<1>2. Outside /\ RoomIsLeft /\ Len(contexts) \in Nat
  BY GroupInvIs DEF Inside
<1>3. c \in Calls
  BY <1>1, <1>2 DEF Outside, RoomIsLeft
<1>4. CASE /\ onSfu' = [onSfu EXCEPT ![c] = "live"] /\ ongoing' = c
           /\ join' = [join EXCEPT !.at = "register"] /\ Register({c}, "ongoing", c)
  <2>1. Len(contexts) < MaxContexts
    BY <1>1, <1>2 DEF RoomIsLeft
  <2>2. /\ Inside' /\ mapped' \in 0..MaxContexts /\ (db' = db \/ db' = {})
        /\ Len(contexts') \in {Len(contexts), Len(contexts) + 1}
    BY <1>3, <1>4, <2>1, RegisterKeeps
  <2>3. onSfu' \in [Calls -> {"none", "live", "ended"}]
    BY <1>2, <1>4 DEF Outside
  <2>4. /\ join' \in [at : {"idle", "token", "refresh", "refreshed", "connect", "register"},
                      call : Calls \cup {0}, create : BOOLEAN]
        /\ join'.at = "register"
    BY <1>2, <1>4 DEF Outside
  <2>5. Outside'
    BY <1>1, <1>2, <1>3, <1>4, <2>2, <2>3, <2>4 DEF Outside
  <2>6. RoomIsLeft'
    BY <1>2, <2>1, <2>2, <2>4, GroupCallAssumption DEF RoomIsLeft
  <2> QED
    BY <2>2, <2>5, <2>6, GroupInvIs
<1>5. CASE /\ join' = NoJoin /\ UNCHANGED onSfu /\ UNCHANGED ongoing /\ UNCHANGED contexts
           /\ UNCHANGED mapped /\ UNCHANGED db
  <2>1. Inside'
    BY <1>1, <1>5, Untouched
  <2>2. Outside' /\ RoomIsLeft'
    BY <1>1, <1>2, <1>5 DEF Outside, RoomIsLeft, NoJoin
  <2> QED
    BY <2>1, <2>2, GroupInvIs
<1> QED
  BY <1>1, <1>4, <1>5

LEMMA GiveUpKeeps == ASSUME GroupInv, GiveUp PROVE GroupInv'
<1> DEFINE f == [i \in Contexts |-> Abandoned(contexts[i])]
<1>1. /\ hangup' = (hangup \/ ongoing # 0)
      /\ join' = (IF join.at = "register" THEN join ELSE NoJoin)
      /\ contexts' = [i \in Contexts |-> Abandoned(contexts[i])]
      /\ UNCHANGED onSfu /\ UNCHANGED inbox /\ UNCHANGED member /\ UNCHANGED mapped
      /\ UNCHANGED db /\ UNCHANGED chosen /\ UNCHANGED ongoing /\ UNCHANGED announced
  BY DEF GiveUp
<1>2. Outside /\ RoomIsLeft
  BY GroupInvIs
<1>3. \A i \in Contexts : /\ f[i] \in Context /\ GoesOn(f[i])
                          /\ f[i].aborted = contexts[i].aborted
  BY ContextsAre, AbandonedIs
<1>4. mapped # 0 => mapped \in Contexts
  BY GroupInvIs DEF Inside
<1>5. contexts' = [j \in Contexts |-> f[j]]
  BY <1>1
<1> HIDE DEF f
<1>6. Inside' /\ Len(contexts') = Len(contexts)
  <2>1. mapped' # 0 => mapped' = mapped /\ f[mapped].aborted = contexts[mapped].aborted
    BY <1>1, <1>3, <1>4
  <2>2. ongoing' = 0 \/ hangup'
    BY <1>1, <1>2 DEF Outside
  <2> QED
    BY <1>3, <1>5, <2>1, <2>2, AllContexts
<1>7. Outside'
  BY <1>1, <1>2 DEF Outside, NoJoin
<1>8. RoomIsLeft'
  BY <1>1, <1>2, <1>6 DEF RoomIsLeft, NoJoin
<1> QED
  BY <1>6, <1>7, <1>8, GroupInvIs

LEMMA HungUpKeeps == ASSUME GroupInv, HungUp PROVE GroupInv'
<1> DEFINE f == [i \in Contexts |-> IF contexts[i].aborted THEN contexts[i]
                                    ELSE Enqueue(contexts[i], Refresh)]
<1>1. /\ hangup' = FALSE /\ ongoing' = 0
      /\ contexts' = [i \in Contexts |-> IF contexts[i].aborted THEN contexts[i]
                                         ELSE Enqueue(contexts[i], Refresh)]
      /\ UNCHANGED onSfu /\ UNCHANGED inbox /\ UNCHANGED member /\ UNCHANGED mapped
      /\ UNCHANGED db /\ UNCHANGED chosen /\ UNCHANGED join /\ UNCHANGED announced
  BY DEF HungUp
<1>2. Outside /\ RoomIsLeft
  BY GroupInvIs
<1>3. \A i \in Contexts : /\ f[i] \in Context /\ GoesOn(f[i])
                          /\ f[i].aborted = contexts[i].aborted
  BY ContextsAre, EnqueueIs, RefreshType
<1>4. mapped # 0 => mapped \in Contexts
  BY GroupInvIs DEF Inside
<1>5. contexts' = [j \in Contexts |-> f[j]]
  BY <1>1
<1> HIDE DEF f
<1>6. Inside' /\ Len(contexts') = Len(contexts)
  <2>1. mapped' # 0 => mapped' = mapped /\ f[mapped].aborted = contexts[mapped].aborted
    BY <1>1, <1>3, <1>4
  <2> QED
    BY <1>1, <1>3, <1>5, <2>1, AllContexts
<1>7. Outside'
  BY <1>1, <1>2 DEF Outside
<1>8. RoomIsLeft'
  BY <1>1, <1>2, <1>6 DEF RoomIsLeft
<1> QED
  BY <1>6, <1>7, <1>8, GroupInvIs

-----------------------------------------------------------------------------
(* The group, the other members and the app *)

LEMMA OthersKeep ==
  ASSUME GroupInv, \/ \E c \in Calls : Start(c) \/ EndCall(c)
                   \/ EnterGroup
  PROVE  GroupInv'
<1>1. Outside /\ RoomIsLeft
  BY GroupInvIs
<1>2. /\ UNCHANGED contexts /\ UNCHANGED mapped /\ UNCHANGED db /\ UNCHANGED chosen
      /\ UNCHANGED ongoing /\ UNCHANGED hangup /\ UNCHANGED join /\ UNCHANGED announced
  BY DEF Start, EndCall, EnterGroup
<1>3. /\ onSfu' \in [Calls -> {"none", "live", "ended"}] /\ inbox' \subseteq Calls
      /\ member' \in BOOLEAN
  BY <1>1 DEF Start, EndCall, EnterGroup, Outside
<1>4. Inside'
  BY <1>2, Untouched
<1>5. Outside' /\ RoomIsLeft'
  BY <1>1, <1>2, <1>3 DEF Outside, RoomIsLeft
<1> QED
  BY <1>4, <1>5, GroupInvIs

LEMMA LeaveGroupKeeps == ASSUME GroupInv, LeaveGroup PROVE GroupInv'
<1> DEFINE g(i) == [Abandoned(contexts[i]) EXCEPT !.aborted = TRUE]
           f == [i \in Contexts |-> IF i = mapped THEN g(i) ELSE Abandoned(contexts[i])]
<1>1. /\ member' = FALSE /\ mapped' = 0 /\ hangup' = (ongoing # 0)
      /\ contexts' = f
      /\ join' = (IF join.at = "register" THEN join ELSE NoJoin)
      /\ UNCHANGED onSfu /\ UNCHANGED inbox /\ UNCHANGED db /\ UNCHANGED chosen
      /\ UNCHANGED ongoing /\ UNCHANGED announced
  BY DEF LeaveGroup
<1>2. Outside /\ RoomIsLeft
  BY GroupInvIs
<1>3. ASSUME NEW x \in Context, GoesOn(x)
      PROVE  [x EXCEPT !.aborted = TRUE] \in Context /\ GoesOn([x EXCEPT !.aborted = TRUE])
  <2> DEFINE y == [x EXCEPT !.aborted = TRUE]
  <2>1. /\ y \in Context /\ y.queue = x.queue /\ y.step = x.step /\ y.timer = x.timer
        /\ Running(y) = Running(x)
    BY DEF Context, Running
  <2> QED
    BY <1>3, <2>1 DEF GoesOn
<1>4. \A i \in Contexts : f[i] \in Context /\ GoesOn(f[i])
  BY <1>3, ContextsAre, AbandonedIs
<1>5. contexts' = [j \in Contexts |-> f[j]]
  BY <1>1
<1> HIDE DEF f
<1>6. Inside' /\ Len(contexts') = Len(contexts)
  <2>1. ongoing' = 0 \/ hangup'
    BY <1>1, <1>2 DEF Outside
  <2> QED
    BY <1>1, <1>4, <1>5, <2>1, AllContexts
<1>7. Outside'
  <2>1. join' \in [at : {"idle", "token", "refresh", "refreshed", "connect", "register"},
                   call : Calls \cup {0}, create : BOOLEAN]
    BY <1>1, <1>2 DEF Outside, NoJoin
  <2>2. mapped' \in 0..MaxContexts /\ hangup' \in BOOLEAN
    BY <1>1, GroupCallAssumption
  <2> QED
    BY <1>1, <1>2, <2>1, <2>2 DEF Outside
<1>8. RoomIsLeft'
  BY <1>1, <1>2, <1>6 DEF RoomIsLeft, NoJoin
<1> QED
  BY <1>6, <1>7, <1>8, GroupInvIs

LEMMA RestartKeeps == ASSUME GroupInv, Restart PROVE GroupInv'
<1> DEFINE failed == [c \in Calls |-> IF \E r \in db : r.call = c
                        THEN (CHOOSE r \in db : r.call = c).failed ELSE 0]
           x == [NewContext(0) EXCEPT !.failed = failed]
           job == [add |-> {r.call : r \in db}, as |-> "reload", for |-> FALSE]
           y == Enqueue(x, job)
<1>1. /\ chosen' = 0 /\ ongoing' = 0 /\ hangup' = FALSE /\ join' = NoJoin
      /\ \/ contexts' = <<y>> /\ mapped' = 1 /\ db' = {}
         \/ contexts' = <<>> /\ mapped' = 0 /\ UNCHANGED db
      /\ UNCHANGED onSfu /\ UNCHANGED inbox /\ UNCHANGED member /\ UNCHANGED announced
  BY Zenon DEF Restart
<1>2. Outside /\ RoomIsLeft
  BY GroupInvIs
<1>3. failed \in [Calls -> 0..MaxFailed]
  <2>1. ASSUME NEW c \in Calls, NEW r \in db, r.call = c
        PROVE  (CHOOSE q \in db : q.call = c).failed \in 0..MaxFailed
    <3>1. (CHOOSE q \in db : q.call = c) \in db
      BY <2>1
    <3> QED
      BY <1>2, <3>1 DEF Outside
  <2>2. 0 \in 0..MaxFailed
    BY GroupCallAssumption
  <2> QED
    BY <2>1, <2>2
<1> HIDE DEF failed
<1>4. job \in ContextJob
  BY <1>2 DEF ContextJob, Outside
<1> HIDE DEF job
<1>5. /\ x \in Context /\ ~x.aborted /\ GoesOn(x)
  <2> DEFINE n == NewContext(0)
  <2>1. n \in Context /\ ~n.aborted /\ GoesOn(n)
    BY NewContextIs
  <2>2. x = [n EXCEPT !.failed = failed]
    OBVIOUS
  <2> HIDE DEF n, x
  <2>3. /\ x \in Context /\ x.queue = n.queue /\ x.step = n.step /\ x.timer = n.timer
        /\ x.running = n.running /\ x.aborted = n.aborted
    BY <1>3, <2>1, <2>2 DEF Context
  <2> QED
    BY <2>1, <2>3 DEF GoesOn, Running
<1> HIDE DEF x
<1>6. y \in Context /\ ~y.aborted /\ GoesOn(y)
  BY <1>4, <1>5, EnqueueIs
<1> HIDE DEF y
<1>7. Inside' /\ Len(contexts') <= MaxContexts /\ mapped' \in 0..MaxContexts
  <2>1. CASE contexts' = <<y>> /\ mapped' = 1
    <3>1. contexts' \in Seq(Context) /\ Contexts' = {1} /\ contexts'[1] = y /\ Len(contexts') = 1
      BY <1>6, <2>1 DEF Contexts
    <3> QED
      BY <1>1, <1>6, <2>1, <3>1, GroupCallAssumption DEF Inside, OngoingIsHeld
  <2>2. CASE contexts' = <<>> /\ mapped' = 0
    <3>1. contexts' \in Seq(Context) /\ Contexts' = {} /\ Len(contexts') = 0
      BY <2>2 DEF Contexts
    <3> QED
      BY <1>1, <2>2, <3>1, GroupCallAssumption DEF Inside, OngoingIsHeld
  <2> QED
    BY <1>1, <2>1, <2>2
<1>8. Outside'
  <2>1. db' \subseteq db
    BY <1>1
  <2> QED
    BY <1>1, <1>2, <1>7, <2>1 DEF Outside, NoJoin
<1>9. RoomIsLeft'
  BY <1>1, <1>7 DEF RoomIsLeft, NoJoin
<1> QED
  BY <1>7, <1>8, <1>9, GroupInvIs

-----------------------------------------------------------------------------
(* Every behaviour *)

\* The invariant holds of every state of the group calls of a group.
THEOREM GroupCallInvariance == GroupSpec => []GroupInv
<1>1. GroupInit => GroupInv
  <2>1. ASSUME GroupInit PROVE Inside /\ Outside /\ RoomIsLeft
    <3>1. /\ contexts \in Seq(Context) /\ Contexts = {} /\ Len(contexts) = 0
      BY <2>1 DEF GroupInit, Contexts
    <3>2. Inside
      BY <2>1, <3>1 DEF Inside, OngoingIsHeld, GroupInit
    <3>3. Outside
      <4>1. announced \in [Calls -> [started : Nat, ended : Nat]]
        BY <2>1 DEF GroupInit
      <4>2. join \in [at : {"idle", "token", "refresh", "refreshed", "connect", "register"},
                      call : Calls \cup {0}, create : BOOLEAN]
        BY <2>1 DEF GroupInit, NoJoin
      <4>3. onSfu \in [Calls -> {"none", "live", "ended"}]
        BY <2>1 DEF GroupInit
      <4>4. /\ inbox = {} /\ member = TRUE /\ mapped = 0 /\ db = {} /\ chosen = 0
            /\ ongoing = 0 /\ hangup = FALSE /\ 0 \in 0..MaxContexts
        BY <2>1, GroupCallAssumption DEF GroupInit
      <4> QED
        BY <4>1, <4>2, <4>3, <4>4 DEF Outside
    <3>4. RoomIsLeft
      BY <2>1, <3>1, GroupCallAssumption DEF RoomIsLeft, GroupInit, NoJoin
    <3> QED
      BY <3>2, <3>3, <3>4
  <2> QED
    BY <2>1, GroupInvIs
<1>2. GroupInv /\ [GroupNext]_groupVars => GroupInv'
  <2> SUFFICES ASSUME GroupInv, [GroupNext]_groupVars PROVE GroupInv'
    OBVIOUS
  <2>1. ASSUME NEW i \in Contexts, ContextStep(i) \/ TokenError(i) PROVE GroupInv'
    BY <2>1, BeginKeeps, TokenKeeps, PeekedKeeps, TimerKeeps, TokenErrorKeeps DEF ContextStep
  <2>2. ASSUME NEW c \in Calls, Receive(c) PROVE GroupInv'
    BY <2>2, ReceiveKeeps
  <2>3. CASE Join
    BY <2>3, JoinRefreshKeeps, JoinChosenKeeps, ConnectKeeps DEF Join
  <2>4. CASE UNCHANGED groupVars
    <3>1. /\ UNCHANGED onSfu /\ UNCHANGED inbox /\ UNCHANGED member /\ UNCHANGED contexts
          /\ UNCHANGED mapped /\ UNCHANGED db /\ UNCHANGED chosen /\ UNCHANGED ongoing
          /\ UNCHANGED hangup /\ UNCHANGED join /\ UNCHANGED announced
      BY <2>4 DEF groupVars
    <3>2. Inside'
      BY <3>1, Untouched
    <3>3. Outside' /\ RoomIsLeft'
      BY <3>1, GroupInvIs DEF Outside, RoomIsLeft
    <3> QED
      BY <3>2, <3>3, GroupInvIs
  <2> QED
    BY <2>1, <2>2, <2>3, <2>4, JoinCallKeeps, GiveUpKeeps, HungUpKeeps, OthersKeep,
       LeaveGroupKeeps, RestartKeeps DEF GroupNext
<1> QED
  BY <1>1, <1>2, PTL DEF GroupSpec

\* Every variable of the group calls keeps its type.
THEOREM GroupTypeCorrect == GroupSpec => []GroupTypeOK
<1>1. GroupInv => GroupTypeOK
  BY DEF GroupInv
<1> QED
  BY <1>1, GroupCallInvariance, PTL

\* As long as a context has calls, it will look at them again.
THEOREM RefreshIsScheduled == GroupSpec => []RefreshGoesOn
<1>1. GroupInv => RefreshGoesOn
  BY DEF GroupInv, RefreshGoesOn, GoesOn
<1> QED
  BY <1>1, GroupCallInvariance, PTL

\* Some context knows the call that the user takes part in.
THEOREM OngoingStaysKnown == GroupSpec => []OngoingIsKnown
<1>1. GroupInv => OngoingIsKnown
  <2> SUFFICES ASSUME GroupInv, ongoing # 0, ~hangup
               PROVE  ongoing \in Pending \cup UNION {Running(contexts[i]) : i \in Contexts}
    BY DEF OngoingIsKnown
  <2>1. PICK i \in Contexts : Knows(contexts[i], ongoing)
    BY DEF GroupInv, OngoingIsHeld
  <2>2. CASE ongoing \in Running(contexts[i])
    BY <2>2
  <2>3. ASSUME NEW n \in DOMAIN contexts[i].queue, ongoing \in contexts[i].queue[n].add
        PROVE  ongoing \in Pending
    BY <2>3 DEF Pending
  <2> QED
    BY <2>1, <2>2, <2>3 DEF Knows
<1> QED
  BY <1>1, GroupCallInvariance, PTL
=============================================================================
