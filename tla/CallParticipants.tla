--------------------------- MODULE CallParticipants --------------------------
(***************************************************************************)
(* An ongoing group call: its participants, who are added, authenticated   *)
(* and removed under a lock that is held over requests to the main thread, *)
(* the key with which the user's media are encrypted, its ratchet and its  *)
(* epochs, and the two timers of the call.  The keys of an epoch are       *)
(* numbered; the ratchet derives the next key of an epoch from a key.      *)
(***************************************************************************)
EXTENDS Naturals, Sequences, FiniteSets

CONSTANTS
    Participants, \* identifiers of the other participants, numbers
    Local,        \* the identifier of the user
    Initial,      \* participants that are in the call before the user
    Lurkers       \* participants that never say hello

ASSUME CallParticipantsAssumption ==
    /\ IsFiniteSet(Participants) /\ Participants \subseteq Nat
    /\ Local \in Nat \ Participants /\ Initial \subseteq Participants
    /\ Lurkers \subseteq Participants

VARIABLES
    sfu,      \* how far each participant is: it enters, sends hello, auth, leaves
    queue,    \* what waits for the lock
    step,     \* where the holder of the lock awaits, "idle" if it is free
    remote,   \* the authentication state of each participant
    raised,   \* participants whose abort event was raised
    backlog,  \* participants whose hello waits for a change of the group
    key,      \* the key in use: epoch and ratchet counter
    pending,  \* the next epoch that is to be used soon, and whether it is stale
    timer,    \* the timer that applies the pending key is set
    given,    \* keys sent to each participant
    queued,   \* epochs that are to be sent once it is authenticated
    purged,   \* epochs whose first key was purged
    before,   \* the key in use before a participant was added
    sending,  \* the timer that sends state updates is set
    loner,    \* the timer that ends a call without participants is set
    aborted   \* the call has been aborted

keyvars == <<key, pending, timer, purged>>
vars == <<sfu, queue, step, remote, raised, backlog, keyvars, given, queued,
          before, sending, loner, aborted>>

None == 0
NoKey == [epoch |-> None, ratchet |-> 0]
Key == [epoch : Nat \ {0}, ratchet : Nat]
Job == [do : {"joined", "hello", "auth", "left", "abort", "epoch"},
        of : Participants \cup {Local}]
Present == {p \in Participants : remote[p] # "none"}
Authenticated == {p \in Participants : remote[p] = "done"}

\* Who has one of the keys can derive k.
Derives(keys, k) == \E g \in keys : g.epoch = k.epoch /\ g.ratchet <= k.ratchet

TypeOK ==
    /\ sfu \in [Participants -> {"out", "in", "hello", "auth", "gone"}]
    /\ queue \in Seq(Job)
    /\ step \in {"idle", "joining", "removing", "removed"}
    /\ step # "idle" => queue # <<>>
    /\ remote \in [Participants -> {"none", "hello", "auth", "done"}]
    /\ raised \subseteq Participants /\ backlog \subseteq Participants
    /\ key \in Key
    /\ pending \in [epoch : Nat, stale : BOOLEAN]
    /\ pending.epoch \in {None, key.epoch + 1} /\ timer \in BOOLEAN
    /\ given \in [Participants -> SUBSET Key]
    /\ queued \in [Participants -> SUBSET Nat] /\ purged \subseteq Nat
    /\ before \in [Participants -> Key \cup {NoKey}]
    /\ sending \in BOOLEAN /\ loner \in BOOLEAN /\ aborted \in BOOLEAN

Init ==
    /\ sfu = [p \in Participants |-> IF p \in Initial THEN "in" ELSE "out"]
    /\ queue = <<>> /\ step = "idle" /\ raised = {} /\ backlog = {}
    /\ remote = [p \in Participants |-> IF p \in Initial THEN "hello" ELSE "none"]
    /\ key = [epoch |-> 1, ratchet |-> 0] /\ timer = FALSE
    /\ pending = [epoch |-> None, stale |-> FALSE] /\ purged = {}
    /\ given = [p \in Participants |-> {}] /\ queued = [p \in Participants |-> {}]
    /\ before = [p \in Participants |-> NoKey]
    /\ sending = (Initial = {}) /\ loner = (Initial = {}) /\ aborted = FALSE

Doing(job, p) ==
    queue # <<>> /\ step = "idle" /\ Head(queue).do = job /\ Head(queue).of = p

\* Raising the abort event of a participant asks for the lock to remove it,
\* unless the call itself was aborted, which ends the subscription.
RaiseOn(q, p) ==
    IF p \in raised \/ aborted THEN q ELSE Append(q, [do |-> "abort", of |-> p])

-----------------------------------------------------------------------------
(* The media key *)

\* _increaseEpoch: the next epoch is distributed to the participants now and
\* used in a while; if one is pending already, the next one is due after it.
NextEpoch ==
    IF pending.epoch # None
    THEN pending' = [pending EXCEPT !.stale = TRUE] /\ UNCHANGED <<timer, given, queued>>
    ELSE /\ pending' = [epoch |-> key.epoch + 1, stale |-> FALSE] /\ timer' = TRUE
         /\ given' = [p \in Participants |->
                IF remote[p] = "done"
                THEN given[p] \cup {[epoch |-> key.epoch + 1, ratchet |-> 0]}
                ELSE given[p]]
         /\ queued' = [p \in Participants |->
                IF remote[p] \in {"hello", "auth"}
                THEN queued[p] \cup {key.epoch + 1} ELSE queued[p]]

\* Faulty variant: the process is not run again after a stale key.
ApplyOnce ==
    /\ timer /\ timer' = FALSE
    /\ IF aborted THEN UNCHANGED <<key, pending, purged, queue>>
       ELSE /\ key' = [epoch |-> pending.epoch, ratchet |-> 0]
            /\ purged' = IF key.ratchet = 0 THEN purged \cup {key.epoch} ELSE purged
            /\ pending' = [epoch |-> None, stale |-> FALSE] /\ UNCHANGED queue
    /\ UNCHANGED <<sfu, step, remote, raised, backlog, given, queued, before,
                   sending, loner, aborted>>

\* The timer, which does not take the lock.  A key that was ratcheted is a copy:
\* the first key of its epoch is not purged.
Apply ==
    /\ timer /\ timer' = FALSE
    /\ IF aborted THEN UNCHANGED <<key, pending, purged, queue>>
       ELSE /\ key' = [epoch |-> pending.epoch, ratchet |-> 0]
            /\ purged' = IF key.ratchet = 0 THEN purged \cup {key.epoch} ELSE purged
            /\ pending' = [epoch |-> None, stale |-> FALSE]
            /\ queue' = IF pending.stale
                        THEN Append(queue, [do |-> "epoch", of |-> Local]) ELSE queue
    /\ UNCHANGED <<sfu, step, remote, raised, backlog, given, queued, before,
                   sending, loner, aborted>>

StaleEpoch ==
    /\ Doing("epoch", Local) /\ queue' = Tail(queue) /\ NextEpoch
    /\ UNCHANGED <<sfu, step, remote, raised, backlog, key, purged, before,
                   sending, loner, aborted>>

-----------------------------------------------------------------------------
(* Authentication *)

\* Faulty variant: only the key in use is sent.
SendAuthCurrent(p) ==
    /\ given' = [given EXCEPT ![p] = @ \cup {key}]
    /\ remote' = [remote EXCEPT ![p] = "auth"]

\* The auth message has the key in use and the pending one.
SendAuth(p) ==
    /\ given' = [given EXCEPT ![p] = @ \cup {key} \cup
            {[epoch |-> e, ratchet |-> 0] : e \in {pending.epoch} \ {None}}]
    /\ remote' = [remote EXCEPT ![p] = "auth"]

\* A hello is answered, waits until its sender is a member, or is an error.
HandleHello(p) ==
    /\ Doing("hello", p)
    /\ \/ /\ remote[p] = "hello" /\ p \notin backlog /\ SendAuth(p)
          /\ queue' = Tail(queue) /\ UNCHANGED <<raised, backlog>>
       \/ /\ remote[p] = "hello" /\ p \notin raised /\ backlog' = backlog \cup {p}
          /\ queue' = Tail(queue) /\ UNCHANGED <<raised, given, remote>>
       \/ /\ remote[p] = "hello" /\ raised' = raised \cup {p}
          /\ queue' = RaiseOn(Tail(queue), p) /\ UNCHANGED <<backlog, given, remote>>
       \/ /\ remote[p] # "hello" /\ queue' = Tail(queue)
          /\ UNCHANGED <<raised, backlog, given, remote>>
    /\ UNCHANGED <<sfu, step, keyvars, queued, before, sending, loner, aborted>>

\* The group has changed; this does not take the lock.
MemberAdded(p) ==
    /\ p \in backlog \ raised /\ remote[p] = "hello"
    /\ backlog' = backlog \ {p} /\ SendAuth(p)
    /\ UNCHANGED <<sfu, queue, step, raised, keyvars, queued, before, sending, loner,
                   aborted>>

MemberRemoved(p) ==
    /\ remote[p] \in {"auth", "done"} /\ p \notin raised
    /\ raised' = raised \cup {p} /\ queue' = RaiseOn(queue, p)
    /\ UNCHANGED <<sfu, step, remote, backlog, keyvars, given, queued, before,
                   sending, loner, aborted>>

\* _maybeSendStateUpdates, for these authenticated participants.
Designated(authenticated) == \A p \in authenticated : Local < p

\* authenticate, in which the filter of the keys that were made meanwhile is the
\* wrong way round: a key that is not purged is not sent, one that is purged is
\* unwrapped, which throws and ends the call.
Authenticate(p) ==
    IF queued[p] \cap purged = {}
    THEN /\ remote' = [remote EXCEPT ![p] = "done"]
         /\ sending' = Designated(Authenticated \cup {p}) /\ UNCHANGED aborted
    ELSE aborted' = TRUE /\ sending' = (sending /\ aborted) /\ UNCHANGED remote

\* An auth message that cannot be decrypted, as one before the hello was
\* answered, is an error.
HandleAuth(p) ==
    /\ Doing("auth", p)
    /\ \/ /\ remote[p] = "auth" /\ Authenticate(p)
          /\ queue' = Tail(queue) /\ UNCHANGED raised
       \/ /\ remote[p] \in {"hello", "auth"} /\ raised' = raised \cup {p}
          /\ queue' = RaiseOn(Tail(queue), p)
          /\ UNCHANGED <<remote, sending, aborted>>
       \/ /\ remote[p] \in {"none", "done"} /\ queue' = Tail(queue)
          /\ UNCHANGED <<remote, sending, raised, aborted>>
    /\ UNCHANGED <<sfu, step, backlog, keyvars, given, queued, before, loner>>

-----------------------------------------------------------------------------
(* Adding and removing participants *)

\* Faulty variant: the ratchet is left as it is.
HandleJoinedPlainly(p) ==
    /\ Doing("joined", p) /\ step' = "joining"
    /\ remote' = [remote EXCEPT ![p] = "hello"] /\ before' = [before EXCEPT ![p] = key]
    /\ UNCHANGED <<sfu, queue, raised, backlog, keyvars, given, queued, sending,
                   loner, aborted>>

\* The ratchet of the key in use, not of a pending one, is turned.
HandleJoined(p) ==
    /\ Doing("joined", p) /\ step' = "joining"
    /\ key' = [key EXCEPT !.ratchet = @ + 1]
    /\ remote' = [remote EXCEPT ![p] = "hello"] /\ before' = [before EXCEPT ![p] = key]
    /\ UNCHANGED <<sfu, queue, raised, backlog, pending, timer, purged, given,
                   queued, sending, loner, aborted>>

Joined ==
    /\ step = "joining" /\ step' = "idle" /\ queue' = Tail(queue)
    /\ loner' = (loner /\ Present = {})
    /\ UNCHANGED <<sfu, remote, raised, backlog, keyvars, given, queued, before,
                   sending, aborted>>

\* A participant has left or was aborted; nothing is to do if it was removed.
HandleLeft(p) ==
    /\ Doing("left", p) \/ Doing("abort", p)
    /\ IF remote[p] = "none"
       THEN queue' = Tail(queue) /\ UNCHANGED <<step, raised>>
       ELSE /\ step' = "removing" /\ raised' = raised \cup {p}
            /\ queue' = RaiseOn(queue, p)
    /\ UNCHANGED <<sfu, remote, backlog, keyvars, given, queued, before, sending,
                   loner, aborted>>

\* Its decryptor is removed, then the main thread updates the connection.
Remove ==
    /\ step = "removing" /\ step' = "removed"
    /\ remote' = [remote EXCEPT ![Head(queue).of] = "none"]
    /\ UNCHANGED <<sfu, queue, raised, backlog, keyvars, given, queued, before,
                   sending, loner, aborted>>

Removed ==
    /\ step = "removed" /\ step' = "idle" /\ queue' = Tail(queue)
    /\ NextEpoch
    /\ sending' = Designated(Authenticated) /\ loner' = (Present = {})
    /\ UNCHANGED <<sfu, remote, raised, backlog, key, purged, before, aborted>>

-----------------------------------------------------------------------------
(* The other participants, the SFU and the user *)

Says(p, what, next) ==
    /\ sfu' = [sfu EXCEPT ![p] = next]
    /\ queue' = Append(queue, [do |-> what, of |-> p])
    /\ UNCHANGED <<step, remote, raised, backlog, keyvars, given, queued, before,
                   sending, loner, aborted>>

Enter(p) == sfu[p] = "out" /\ Says(p, "joined", "in")
Hello(p) == sfu[p] = "in" /\ p \notin Lurkers /\ Says(p, "hello", "hello")
Auth(p) ==
    /\ sfu[p] = "hello" /\ (p \in Initial \/ given[p] # {})
    /\ Says(p, "auth", "auth")
Leave(p) == sfu[p] \notin {"out", "gone"} /\ Says(p, "left", "gone")

\* The user hangs up, the connection is lost, or the user was alone for long.
Abort ==
    /\ ~aborted /\ aborted' = TRUE /\ sending' = FALSE
    /\ UNCHANGED <<sfu, queue, step, remote, raised, backlog, keyvars, given, queued,
                   before, loner>>

-----------------------------------------------------------------------------
Work == \/ \E p \in Participants : \/ HandleHello(p) \/ HandleAuth(p)
                                   \/ HandleJoined(p) \/ HandleLeft(p)
        \/ StaleEpoch \/ Joined \/ Remove \/ Removed

Next == \/ Work \/ Apply \/ Abort
        \/ \E p \in Participants : \/ MemberAdded(p) \/ MemberRemoved(p) \/ Enter(p)
                                   \/ Hello(p) \/ Auth(p) \/ Leave(p)

Spec == Init /\ [][Next]_vars

\* The main thread answers, timers fire and the lock is handed on.
Fairness == WF_vars(Work) /\ WF_vars(Apply)
FairSpec == Spec /\ Fairness

-----------------------------------------------------------------------------
(* Properties *)

\* A participant cannot derive the keys that were used before it was added.
JoinerLockedOut ==
    \A p \in Participants : before[p].epoch # None =>
        \A g \in given[p] : g.epoch > before[p].epoch
            \/ (g.epoch = before[p].epoch /\ g.ratchet > before[p].ratchet)

\* Unless the next epoch is under way, nobody who was removed has the key.
LeaverLockedOut ==
    \A p \in Participants :
        remote[p] = "none" /\ pending.epoch = None /\ step # "removed" /\ ~aborted
        /\ (\A n \in DOMAIN queue : queue[n].do # "epoch")
        => ~Derives(given[p], key)

\* Whoever is not in the call can decrypt neither what was sent before it was
\* added nor what is sent once the epoch after its removal is in use.
OutsidersLockedOut == JoinerLockedOut /\ LeaverLockedOut

\* Who was authenticated can decrypt the media of the user, now and when the
\* pending epoch is used, unless the epoch began while it shook hands.
HearsUnlessQueued ==
    \A p \in Authenticated :
        /\ Derives(given[p], key) \/ key.epoch \in queued[p]
        /\ pending.epoch # None =>
               \/ Derives(given[p], [epoch |-> pending.epoch, ratchet |-> 0])
               \/ pending.epoch \in queued[p]

\* "Send new local PCMKs (if any and only those who haven't already been
\* purged)" (webrtc/group-call.ts:1217): who was authenticated has the key.
AuthenticatedHears == \A p \in Authenticated : Derives(given[p], key)

\* Who has left will not have the key in use, however many leave at once.
LeaverForgets ==
    \A p \in Participants :
        sfu[p] = "gone" ~> aborted \/ ~Derives(given[p], key)
=============================================================================
