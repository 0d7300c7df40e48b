------------------------ MODULE OutgoingMessageProofs ------------------------
(***************************************************************************)
(* Proofs about OutgoingMessage for any receivers and any number of lost   *)
(* connections.                                                            *)
(*                                                                         *)
(* Every message that waits to be sent has as many nonces as it has        *)
(* receivers left.  They are taken for this run of the task, from a        *)
(* counter that no loss turns back, and given up from the highest          *)
(* downwards, each once its frame is acknowledged: between the server's    *)
(* acceptance and that moment one nonce is both used and waiting.          *)
(***************************************************************************)
EXTENDS OutgoingMessage, FiniteSetTheorems, SequenceTheorems, TLAPS

\* A job has a nonce up to the limit for each receiver, and at least one.
Fits(job, limit) ==
    /\ job.to \subseteq Receivers
    /\ \E first, last \in Nat :
        /\ 0 < first /\ first <= last /\ last <= limit
        /\ job.nonces = first..last
        /\ Cardinality(job.to) = last - first + 1

JobsFit == \A i \in DOMAIN jobs : Fits(jobs[i], nonce)

NoncesApart ==
    \A i, j \in DOMAIN jobs : i # j => jobs[i].nonces \cap jobs[j].nonces = {}

\* A nonce that waits is not used, but for the one that was just accepted.
UnusedNonces ==
    \A i \in DOMAIN jobs : \A m \in chat :
        m.nonce \in jobs[i].nonces =>
            i = 1 /\ at = "ack" /\ flight = "ack" /\ m.nonce = LastNonce(jobs[1])

\* From the acknowledgement of the reflection on its nonces are known.
NoncesReflected ==
    at \in {"send", "ack", "update"} \/ (at = "reflect" /\ flight = "ack") =>
        \A i \in DOMAIN jobs : jobs[i].nonces \subseteq reflected

FlightFits ==
    /\ flight # "none" => at \in {"reflect", "ack", "update"}
    /\ at \in {"ack", "update"} => flight # "none"

SendingFits ==
    at = "ack" => /\ jobs # <<>> /\ sending \subseteq jobs[1].to
                  /\ flight = "ack" => \A c \in sending :
                        \E m \in chat : m.kind = jobs[1].kind /\ m.to = c

HasMessage(c) == \E m \in chat : m.kind = "message" /\ m.to = c

\* Whoever does not have the message yet is still to get it in this run.
Covered ==
    /\ at \in {"distribute", "reflect", "send", "ack"} =>
        \A c \in Receivers :
            HasMessage(c) \/ \E i \in DOMAIN jobs :
                                jobs[i].kind = "message" /\ c \in jobs[i].to
    /\ at = "update" => jobs = <<>> /\ \A c \in Receivers : HasMessage(c)

IInv ==
    /\ TypeOK /\ JobsFit /\ NoncesApart /\ UnusedNonces /\ NoncesReflected
    /\ FlightFits /\ SendingFits /\ Covered
    /\ SentMeansQueued /\ ReflectedBeforeSent /\ NonceUsedOnce

-----------------------------------------------------------------------------
LEMMA FiniteReceivers ==
  /\ IsFiniteSet(Contacts) /\ Cardinality(Contacts) \in Nat
  /\ Receivers \subseteq Contacts
  /\ \A S \in SUBSET Contacts : /\ IsFiniteSet(S) /\ Cardinality(S) \in Nat
                                /\ Cardinality(S) <= Cardinality(Contacts)
                                /\ Cardinality(S) = 0 <=> S = {}
<1>1. IsFiniteSet(Contacts) /\ Receivers \subseteq Contacts
  BY OutgoingMessageAssumption DEF Receivers
<1>2. ASSUME NEW S \in SUBSET Contacts
      PROVE  IsFiniteSet(S) /\ Cardinality(S) \in Nat
             /\ Cardinality(S) <= Cardinality(Contacts) /\ (Cardinality(S) = 0 <=> S = {})
  BY <1>1, FS_Subset, FS_CardinalityType, FS_EmptySet
<1> QED
  BY <1>1, <1>2

\* The nonce of a job is its highest one.
LEMMA LastNonceIs ==
  ASSUME NEW job, NEW first \in Nat, NEW last \in Nat, first <= last,
         job.nonces = first..last
  PROVE  LastNonce(job) = last
<1>1. \A n \in job.nonces : n \in Nat
  OBVIOUS
<1>2. last \in job.nonces /\ \A o \in job.nonces : o <= last
  OBVIOUS
<1>3. LastNonce(job) \in job.nonces /\ \A o \in job.nonces : o <= LastNonce(job)
  BY <1>2 DEF LastNonce
<1> QED
  BY <1>1, <1>2, <1>3

\* A set of receivers as a sequence.
LEMMA AsSequence ==
  ASSUME NEW S \in SUBSET Receivers
  PROVE  /\ SetToSeq(S) \in Seq(S) /\ Len(SetToSeq(S)) = Cardinality(S)
         /\ Cardinality(S) \in Nat /\ SetToSeq(S) \in Seq(Receivers)
<1>1. IsFiniteSet(S) /\ Cardinality(S) \in Nat
  BY FiniteReceivers
<1>2. PICK f \in Bijection(1..Cardinality(S), S) : TRUE
  BY <1>1, FS_CardinalityType DEF ExistsBijection
<1>3. f \in [1..Cardinality(S) -> S] /\ IsInjective(f)
  BY <1>2 DEF Bijection, Injection
<1>4. SetToSeq(S) \in [1..Cardinality(S) -> S]
  BY <1>3 DEF SetToSeq
<1>5. SetToSeq(S) \in [1..Cardinality(S) -> Receivers]
  BY <1>4
<1> QED
  BY <1>1, <1>4, <1>5

-----------------------------------------------------------------------------
\* The invariant holds initially.
THEOREM InitInvariant == Init => IInv
<1> SUFFICES ASSUME Init PROVE IInv
  OBVIOUS
<1> USE DEF Init
<1>1. TypeOK
  BY FS_EmptySet, OutgoingMessageAssumption DEF TypeOK, NoPictures, Marks
<1>2. /\ JobsFit /\ NoncesApart /\ UnusedNonces /\ NoncesReflected
      /\ FlightFits /\ SendingFits /\ Covered
  BY DEF JobsFit, NoncesApart, UnusedNonces, NoncesReflected, FlightFits,
         SendingFits, Covered
<1>3. SentMeansQueued /\ ReflectedBeforeSent /\ NonceUsedOnce
  BY DEF SentMeansQueued, ReflectedBeforeSent, NonceUsedOnce
<1> QED
  BY <1>1, <1>2, <1>3 DEF IInv

\* A step in which the chat server takes nothing and no job is added.
LEMMA NothingSent ==
  ASSUME IInv, TypeOK', FlightFits', UNCHANGED <<nonce, chat>>,
         jobs' = jobs \/ jobs' = <<>>, reflected \subseteq reflected',
         message'.sent => message.sent, NoncesReflected', SendingFits', Covered',
         at = "ack" /\ flight = "ack" => (at' = "ack" /\ flight' = "ack") \/ jobs' = <<>>
  PROVE  IInv'
<1> USE DEF IInv
<1>1. JobsFit' /\ NoncesApart'
  BY DEF JobsFit, Fits, NoncesApart
<1>2. UnusedNonces'
  BY DEF UnusedNonces, LastNonce
<1>3. SentMeansQueued' /\ ReflectedBeforeSent' /\ NonceUsedOnce'
  BY DEF SentMeansQueued, ReflectedBeforeSent, NonceUsedOnce
<1> QED
  BY <1>1, <1>2, <1>3

LEMMA AbandonStep ==
  ASSUME IInv, Lose \/ Throw
  PROVE  IInv'
<1> USE DEF IInv
<1>1. /\ Abandon /\ losses' \in 0..MaxLosses
      /\ UNCHANGED <<message, nonce, picture, blobs, cache, reflected, chat>>
  BY OutgoingMessageAssumption DEF Lose, Throw, TypeOK
<1>2. TypeOK'
  <2>1. /\ jobs' = <<>> /\ left' = {} /\ held' = 0 /\ pictures' = NoPictures
        /\ flight' = "none" /\ sending' = {} /\ up' = FALSE /\ at' \in {"queued", "done"}
    BY <1>1 DEF Abandon
  <2>2. Cardinality(sending') = IF at' = "ack" THEN 1 ELSE 0
    BY <2>1, FS_EmptySet
  <2>3. jobs' \in Seq(Job) /\ pictures' \in [remove : SUBSET Receivers, set : SUBSET Receivers, blob : Nat]
    BY <2>1 DEF NoPictures
  <2> QED
    BY <1>1, <2>1, <2>2, <2>3 DEF TypeOK
<1>3. FlightFits' /\ NoncesReflected' /\ SendingFits' /\ Covered'
  BY <1>1 DEF Abandon, FlightFits, NoncesReflected, SendingFits, Covered, TypeOK
<1> QED
  BY <1>1, <1>2, <1>3, NothingSent DEF Abandon

LEMMA OutsideStep ==
  ASSUME IInv, Reconnect \/ Delete
  PROVE  IInv'
<1> USE DEF IInv
<1>1. /\ UNCHANGED <<at, jobs, left, held, pictures, flight, sending, nonce, picture,
                     blobs, cache, reflected, chat, losses>>
      /\ message'.sent = message.sent
  BY DEF Reconnect, Delete, TypeOK
<1>2. TypeOK'
  BY <1>1 DEF Reconnect, Delete, TypeOK
<1>3. FlightFits' /\ NoncesReflected' /\ SendingFits' /\ Covered'
  BY <1>1 DEF FlightFits, NoncesReflected, SendingFits, Covered, HasMessage
<1> QED
  BY <1>1, <1>2, <1>3, NothingSent

\* The nonces of the message are new.
LEMMA PrepareStep ==
  ASSUME IInv, at \in {"queued", "upload"}, Prepare, message'.sent = message.sent,
         message' \in [active : BOOLEAN, uploaded : BOOLEAN, sent : BOOLEAN],
         UNCHANGED <<up, flight, sending, picture, blobs, cache, reflected, chat, losses>>
  PROVE  IInv'
<1> USE FiniteReceivers DEF IInv
<1> DEFINE job == [kind |-> "message", to |-> Receivers, blob |-> 0,
                   nonces |-> nonce + 1 .. nonce + Cardinality(Receivers)]
<1>1. /\ nonce \in Nat /\ nonce' \in Nat /\ nonce' = nonce + Cardinality(Contacts)
      /\ nonce + Cardinality(Receivers) <= nonce' /\ Cardinality(Receivers) \in Nat
      /\ at' = "distribute" /\ flight = "none" /\ flight' = "none"
      /\ jobs' = IF Receivers = {} THEN <<>> ELSE <<job>>
  BY DEF Prepare, TypeOK, FlightFits
<1>2. jobs' \in Seq(Job)
  <2>1. nonce + 1 .. nonce + Cardinality(Receivers) \in SUBSET Nat
    BY <1>1
  <2>2. job \in Job
    BY <2>1 DEF Job
  <2> QED
    BY <1>1, <2>2
<1>3. TypeOK'
  <2>1. reflected' \subseteq 1..nonce' /\ \A m \in chat' : m.to \in Receivers /\ m.nonce \in 1..nonce'
    BY <1>1 DEF TypeOK
  <2> QED
    BY <1>1, <1>2, <2>1 DEF TypeOK, Prepare, NoPictures
<1>4. \A i \in DOMAIN jobs' : i = 1 /\ jobs'[i] = job /\ Receivers # {}
  BY <1>1
<1>5. JobsFit'
  <2>1. Receivers # {} => Cardinality(Receivers) > 0
    <3>1. Cardinality(Receivers) = 0 <=> Receivers = {}
      OBVIOUS
    <3> QED
      BY <1>1, <3>1
  <2>2. Receivers # {} => Fits(job, nonce')
    <3> SUFFICES ASSUME Receivers # {} PROVE Fits(job, nonce')
      OBVIOUS
    <3> DEFINE first == nonce + 1
               last == nonce + Cardinality(Receivers)
    <3>1. /\ first \in Nat /\ last \in Nat /\ 0 < first /\ first <= last /\ last <= nonce'
          /\ Cardinality(Receivers) = last - first + 1
      BY <1>1, <2>1
    <3>2. job.nonces = first..last /\ job.to = Receivers
      OBVIOUS
    <3> HIDE DEF first, last, job
    <3> QED
      BY <3>1, <3>2 DEF Fits
  <2> QED
    BY <1>4, <2>2 DEF JobsFit
<1>6. NoncesApart' /\ UnusedNonces'
  BY <1>1, <1>4 DEF NoncesApart, UnusedNonces, TypeOK
<1>7. NoncesReflected' /\ FlightFits' /\ SendingFits'
  BY <1>1 DEF NoncesReflected, FlightFits, SendingFits
<1>8. Covered'
  <2>1. Receivers # {} => 1 \in DOMAIN jobs' /\ jobs'[1] = job
    BY <1>1
  <2> QED
    BY <1>1, <2>1 DEF Covered
<1>9. SentMeansQueued' /\ ReflectedBeforeSent' /\ NonceUsedOnce'
  BY DEF SentMeansQueued, ReflectedBeforeSent, NonceUsedOnce
<1> QED
  BY <1>3, <1>5, <1>6, <1>7, <1>8, <1>9

LEMMA RunStep ==
  ASSUME IInv, Run \/ UploadBlobs
  PROVE  IInv'
<1> USE DEF IInv
<1>1. CASE Run /\ at' = "upload"
  <2>1. UNCHANGED <<up, message, jobs, left, held, pictures, flight, sending, nonce,
                    picture, blobs, cache, reflected, chat, losses>>
        /\ at = "queued"
    BY <1>1 DEF Run, Prepare
  <2>2. TypeOK'
    BY <1>1, <2>1 DEF TypeOK
  <2>3. FlightFits' /\ NoncesReflected' /\ SendingFits' /\ Covered'
    BY <1>1, <2>1 DEF FlightFits, NoncesReflected, SendingFits, Covered
  <2> QED
    BY <2>1, <2>2, <2>3, NothingSent
<1>2. CASE Run /\ at' # "upload"
  BY <1>2, PrepareStep DEF Run, TypeOK
<1>3. CASE UploadBlobs
  BY <1>3, PrepareStep DEF UploadBlobs, TypeOK
<1> QED
  BY <1>1, <1>2, <1>3

LEMMA DistributeStep ==
  ASSUME IInv, NEW c \in Contacts, Distribute(c)
  PROVE  IInv'
<1> USE DEF IInv
<1>1. /\ UNCHANGED <<up, at, message, jobs, held, flight, sending, nonce, reflected,
                     chat, losses>>
      /\ c \in left /\ left' = left \ {c}
  BY DEF Distribute
<1>2. /\ picture' \in Nat /\ blobs' \in Nat
      /\ cache' \in [Contacts -> Marks]
      /\ pictures' \in [remove : SUBSET Receivers, set : SUBSET Receivers, blob : Nat]
  <2> DEFINE blob == IF held = 0 THEN blobs + 1 ELSE held
  <2>1. blob \in Nat /\ c \in Receivers
    BY <1>1 DEF TypeOK
  <2>2. CASE UNCHANGED <<cache, pictures, picture, blobs>>
    BY <2>2 DEF TypeOK
  <2>3. CASE /\ cache' = [cache EXCEPT ![c] = [kind |-> "removed", blob |-> 0]]
             /\ pictures' = [pictures EXCEPT !.remove = @ \cup {c}]
             /\ UNCHANGED <<picture, blobs>>
    BY <2>1, <2>3 DEF TypeOK, Marks
  <2>4. CASE /\ cache' = [cache EXCEPT ![c] = [kind |-> "picture", blob |-> blob]]
             /\ pictures' = [pictures EXCEPT !.set = @ \cup {c},
                                 !.blob = IF pictures.set = {} THEN blob ELSE @]
             /\ picture' = blob
             /\ blobs' = IF held = 0 THEN blob ELSE blobs
    BY <2>1, <2>4 DEF TypeOK, Marks
  <2> QED
    BY <2>2, <2>3, <2>4 DEF Distribute
<1>3. TypeOK'
  BY <1>1, <1>2 DEF TypeOK
<1>4. FlightFits' /\ NoncesReflected' /\ SendingFits' /\ Covered'
  BY <1>1 DEF FlightFits, NoncesReflected, SendingFits, Covered, HasMessage
<1> QED
  BY <1>1, <1>3, <1>4, NothingSent

\* The jobs for the pictures come after the message, with nonces of their own.
LEMMA DistributedStep ==
  ASSUME IInv, Distributed
  PROVE  IInv'
<1> USE DEF IInv
<1> DEFINE rest == SetToSeq(pictures.remove) \o SetToSeq(pictures.set)
           new == [i \in DOMAIN rest |->
                 [kind |-> IF rest[i] \in pictures.remove THEN "remove" ELSE "set",
                  to |-> {rest[i]}, nonces |-> {nonce + i},
                  blob |-> IF rest[i] \in pictures.set THEN pictures.blob ELSE 0]]
<1> HIDE DEF rest
<1>1. rest \in Seq(Receivers) /\ Len(rest) \in Nat
  <2> DEFINE r == SetToSeq(pictures.remove)
             s == SetToSeq(pictures.set)
  <2>1. pictures.remove \in SUBSET Receivers /\ pictures.set \in SUBSET Receivers
    BY DEF TypeOK
  <2>2. r \in Seq(Receivers) /\ s \in Seq(Receivers)
    BY <2>1, AsSequence
  <2> HIDE DEF r, s
  <2>3. r \o s \in Seq(Receivers) /\ Len(r \o s) \in Nat
    BY <2>2
  <2> QED
    BY <2>3 DEF rest, r, s
<1>2. /\ jobs' = jobs \o new /\ nonce' = nonce + Len(rest) /\ at' = "reflect"
      /\ at = "distribute" /\ flight = "none"
      /\ UNCHANGED <<up, message, left, held, pictures, flight, sending, picture,
                     blobs, cache, reflected, chat, losses>>
  <2>1. at = "distribute" /\ flight = "none"
    BY DEF Distributed, FlightFits
  <2> QED
    BY <2>1 DEF Distributed, rest
<1>3. new \in Seq(Job) /\ Len(new) = Len(rest)
  <2>1. \A i \in 1..Len(rest) : rest[i] \in Contacts
    BY <1>1, FiniteReceivers
  <2>2. \A i \in 1..Len(rest) : new[i] \in Job
    BY <1>1, <2>1 DEF Job, TypeOK
  <2>3. DOMAIN new = 1..Len(rest)
    BY <1>1
  <2> QED
    BY <1>1, <2>2, <2>3
<1>4. \A i \in 1..Len(rest) :
        /\ new[i].nonces = {nonce + i} /\ new[i].to = {rest[i]} /\ rest[i] \in Receivers
  BY <1>1
<1> HIDE DEF new
<1>5. /\ DOMAIN jobs' = 1..(Len(jobs) + Len(rest)) /\ jobs' \in Seq(Job)
      /\ \A i \in DOMAIN jobs : i \in DOMAIN jobs' /\ jobs'[i] = jobs[i]
      /\ \A i \in DOMAIN jobs' \ DOMAIN jobs :
            i - Len(jobs) \in 1..Len(rest) /\ jobs'[i] = new[i - Len(jobs)]
  <2>1. jobs \in Seq(Job) /\ DOMAIN jobs = 1..Len(jobs) /\ Len(jobs) \in Nat
    BY DEF TypeOK
  <2>2. /\ jobs' \in Seq(Job) /\ Len(jobs') = Len(jobs) + Len(rest)
        /\ \A i \in 1..(Len(jobs) + Len(rest)) :
              jobs'[i] = IF i <= Len(jobs) THEN jobs[i] ELSE new[i - Len(jobs)]
    <3>1. jobs \o new \in Seq(Job) /\ Len(jobs \o new) = Len(jobs) + Len(new)
      BY <1>3, <2>1, ConcatProperties
    <3>2. \A i \in 1..(Len(jobs) + Len(new)) :
            (jobs \o new)[i] = IF i <= Len(jobs) THEN jobs[i] ELSE new[i - Len(jobs)]
      BY <1>3, <2>1, ConcatProperties
    <3> QED
      BY <1>2, <1>3, <3>1, <3>2
  <2>3. DOMAIN jobs' = 1..(Len(jobs) + Len(rest))
    BY <2>2
  <2> QED
    BY <1>1, <2>1, <2>2, <2>3
<1>6. nonce \in Nat /\ nonce' \in Nat /\ nonce <= nonce'
  BY <1>1, <1>2 DEF TypeOK
<1>7. TypeOK'
  <2>1. reflected' \subseteq 1..nonce'
        /\ \A m \in chat' : m.to \in Receivers /\ m.nonce \in 1..nonce'
    BY <1>2, <1>6 DEF TypeOK
  <2> QED
    BY <1>2, <1>5, <1>6, <2>1 DEF TypeOK
<1>8. JobsFit'
  <2> SUFFICES ASSUME NEW i \in DOMAIN jobs' PROVE Fits(jobs'[i], nonce')
    BY DEF JobsFit
  <2>1. CASE i \in DOMAIN jobs
    <3>1. Fits(jobs[i], nonce)
      BY <2>1 DEF JobsFit
    <3>2. \A last \in Nat : last <= nonce => last <= nonce'
      BY <1>6
    <3> QED
      BY <2>1, <1>5, <3>1, <3>2 DEF Fits
  <2>2. CASE i \notin DOMAIN jobs
    <3> DEFINE n == i - Len(jobs)
    <3>1. n \in 1..Len(rest) /\ jobs'[i] = new[n]
      BY <2>2, <1>5
    <3> HIDE DEF n
    <3> DEFINE first == nonce + n
    <3>2. /\ first \in Nat /\ 0 < first /\ first <= nonce'
          /\ {first} = first..first /\ 1 = first - first + 1
      BY <3>1, <1>1, <1>2, <1>6
    <3>3. new[n].nonces = {first} /\ new[n].to = {rest[n]} /\ rest[n] \in Receivers
      BY <3>1, <1>4
    <3>4. Cardinality({rest[n]}) = 1
      BY FS_Singleton
    <3>5. /\ jobs'[i].to \subseteq Receivers /\ Cardinality(jobs'[i].to) = first - first + 1
          /\ jobs'[i].nonces = first..first /\ first <= first
      BY <3>1, <3>2, <3>3, <3>4
    <3> HIDE DEF first
    <3> QED
      BY <3>2, <3>5 DEF Fits
  <2> QED
    BY <2>1, <2>2
<1>9. \A i \in DOMAIN jobs : \A n \in jobs[i].nonces : n \in Nat /\ n <= nonce
  BY <1>6 DEF JobsFit, Fits
<1>10. \A i \in DOMAIN jobs' \ DOMAIN jobs :
          jobs'[i].nonces = {nonce + (i - Len(jobs))} /\ nonce + (i - Len(jobs)) > nonce
  <2> SUFFICES ASSUME NEW i \in DOMAIN jobs', i \notin DOMAIN jobs
               PROVE  jobs'[i].nonces = {nonce + (i - Len(jobs))} /\ nonce + (i - Len(jobs)) > nonce
    OBVIOUS
  <2> DEFINE n == i - Len(jobs)
  <2>1. n \in 1..Len(rest) /\ jobs'[i] = new[n]
    BY <1>5
  <2> HIDE DEF n
  <2>2. jobs'[i].nonces = {nonce + n} /\ nonce + n > nonce
    BY <1>1, <1>4, <1>6, <2>1
  <2> QED
    BY <2>2 DEF n
<1>11. NoncesApart'
  <2> SUFFICES ASSUME NEW i \in DOMAIN jobs', NEW j \in DOMAIN jobs', i # j
               PROVE  jobs'[i].nonces \cap jobs'[j].nonces = {}
    BY DEF NoncesApart
  <2>1. CASE i \in DOMAIN jobs /\ j \in DOMAIN jobs
    BY <2>1, <1>5 DEF NoncesApart
  <2>2. CASE i \in DOMAIN jobs /\ j \notin DOMAIN jobs
    BY <2>2, <1>5, <1>6, <1>9, <1>10
  <2>3. CASE i \notin DOMAIN jobs /\ j \in DOMAIN jobs
    BY <2>3, <1>5, <1>6, <1>9, <1>10
  <2>4. CASE i \notin DOMAIN jobs /\ j \notin DOMAIN jobs
    <3>1. i \in Int /\ j \in Int /\ Len(jobs) \in Nat
      BY <1>1, <1>5 DEF TypeOK
    <3> QED
      BY <2>4, <3>1, <1>6, <1>10
  <2> QED
    BY <2>1, <2>2, <2>3, <2>4
<1>12. UnusedNonces'
  <2> SUFFICES ASSUME NEW i \in DOMAIN jobs', NEW m \in chat
               PROVE  m.nonce \notin jobs'[i].nonces
    BY <1>2 DEF UnusedNonces
  <2>1. CASE i \in DOMAIN jobs
    BY <2>1, <1>2, <1>5 DEF UnusedNonces
  <2>2. CASE i \notin DOMAIN jobs
    BY <2>2, <1>6, <1>10 DEF TypeOK
  <2> QED
    BY <2>1, <2>2
<1>13. NoncesReflected' /\ FlightFits' /\ SendingFits'
  BY <1>2 DEF NoncesReflected, FlightFits, SendingFits
<1>14. Covered'
  BY <1>2, <1>5 DEF Covered, HasMessage
<1>15. SentMeansQueued' /\ ReflectedBeforeSent' /\ NonceUsedOnce'
  BY <1>2 DEF SentMeansQueued, ReflectedBeforeSent, NonceUsedOnce
<1> QED
  BY <1>7, <1>8, <1>11, <1>12, <1>13, <1>14, <1>15

LEMMA FrameStep ==
  ASSUME IInv, Reflect \/ Reflected \/ ReflectSent \/ \E c \in Contacts : Send(c)
  PROVE  IInv'
<1> USE DEF IInv
<1>1. /\ UNCHANGED <<up, message, jobs, left, held, pictures, nonce, picture, blobs,
                     cache, reflected, chat, losses>>
      /\ ~(at = "ack" /\ flight = "ack")
  BY DEF Reflect, Reflected, ReflectSent, Send
<1>2. TypeOK'
  <2>1. CASE \E c \in Contacts : Send(c)
    <3>1. PICK c \in Contacts : Send(c)
      BY <2>1
    <3>2. jobs # <<>> /\ 1 \in DOMAIN jobs /\ c \in jobs[1].to
      BY <3>1 DEF Send, TypeOK
    <3>3. c \in Receivers /\ Cardinality({c}) = 1
      BY <3>2, FS_Singleton DEF JobsFit, Fits
    <3> QED
      BY <1>1, <3>1, <3>3 DEF Send, TypeOK
  <2>2. CASE Reflect \/ Reflected \/ ReflectSent
    BY <1>1, <2>2 DEF Reflect, Reflected, ReflectSent, TypeOK
  <2> QED
    BY <2>1, <2>2
<1>3. FlightFits'
  BY DEF FlightFits, Reflect, Reflected, ReflectSent, Send
<1>4. NoncesReflected'
  BY <1>1 DEF NoncesReflected, Reflect, Reflected, ReflectSent, Send
<1>5. SendingFits'
  <2>1. CASE \E c \in Contacts : Send(c)
    BY <1>1, <2>1 DEF SendingFits, Send
  <2>2. CASE Reflect \/ Reflected \/ ReflectSent
    BY <2>2 DEF SendingFits, Reflect, Reflected, ReflectSent
  <2> QED
    BY <2>1, <2>2
<1>6. Covered'
  BY <1>1 DEF Covered, HasMessage, Reflect, Reflected, ReflectSent, Send
<1> QED
  BY <1>1, <1>2, <1>3, <1>4, <1>5, <1>6, NothingSent

\* The receiver and the nonce are given up together; what is left of the job
\* still fits, or the job is done.
LEMMA AckedStep ==
  ASSUME IInv, Acked
  PROVE  IInv'
<1> USE DEF IInv
<1> DEFINE job == jobs[1]
           left1 == [job EXCEPT !.to = @ \ sending, !.nonces = @ \ {LastNonce(job)}]
<1>0. jobs \in Seq(Job) /\ jobs # <<>> /\ 1 \in DOMAIN jobs /\ Head(jobs) = job
  BY DEF Acked, SendingFits, TypeOK
<1>1. /\ at = "ack" /\ flight = "ack" /\ at' = "send" /\ flight' = "none" /\ sending' = {}
      /\ jobs' = IF left1.to = {} THEN Tail(jobs) ELSE <<left1>> \o Tail(jobs)
      /\ UNCHANGED <<up, message, left, held, pictures, nonce, picture, blobs, cache,
                     reflected, chat, losses>>
  BY <1>0 DEF Acked
<1>2. /\ jobs \in Seq(Job) /\ jobs # <<>> /\ 1 \in DOMAIN jobs /\ job \in Job /\ nonce \in Nat
  BY <1>1 DEF SendingFits, TypeOK
<1>3. PICK c : sending = {c} /\ c \in job.to
  <2>1. sending \subseteq Contacts /\ Cardinality(sending) = 1 /\ sending \subseteq job.to
    BY <1>1, FiniteReceivers DEF TypeOK, SendingFits
  <2> QED
    BY <2>1, FiniteReceivers, FS_Singleton
<1>4. PICK first \in Nat, last \in Nat :
        /\ 0 < first /\ first <= last /\ last <= nonce /\ job.nonces = first..last
        /\ Cardinality(job.to) = last - first + 1 /\ job.to \subseteq Receivers
  BY <1>2 DEF JobsFit, Fits
<1>5. LastNonce(job) = last
  BY <1>4, LastNonceIs
<1>6. Cardinality(job.to \ {c}) = last - first
  <2>1. IsFiniteSet(job.to)
    BY <1>4, FiniteReceivers
  <2>2. Cardinality(job.to \ {c}) = Cardinality(job.to) - 1
    BY <1>3, <2>1, FS_RemoveElement
  <2> QED
    BY <1>4, <2>2
<1>7. /\ left1 \in Job /\ left1.kind = job.kind /\ left1.to = job.to \ {c}
      /\ left1.nonces = job.nonces \ {last} /\ left1.nonces = first..(last - 1)
  <2>1. /\ left1 = [job EXCEPT !.to = job.to \ {c}, !.nonces = job.nonces \ {last}]
        /\ (first..last) \ {last} = first..(last - 1)
    BY <1>3, <1>4, <1>5
  <2> QED
    BY <2>1, <1>2, <1>4 DEF Job
<1>8. left1.to # {} => Fits(left1, nonce)
  <2> SUFFICES ASSUME left1.to # {} PROVE Fits(left1, nonce)
    OBVIOUS
  <2>1. last - first # 0
    BY <1>4, <1>6, <1>7, FiniteReceivers
  <2>2. /\ last - 1 \in Nat /\ first <= last - 1 /\ last - 1 <= nonce
        /\ last - first = (last - 1) - first + 1
    BY <2>1, <1>2, <1>4
  <2> QED
    BY <2>2, <1>4, <1>6, <1>7 DEF Fits
<1> HIDE DEF left1
\* Every job is one of before, or what is left of the first one.
<1> DEFINE old(i) == IF left1.to = {} THEN i + 1 ELSE i
<1>9. /\ jobs' \in Seq(Job)
      /\ \A i \in DOMAIN jobs' :
            /\ i \in Nat /\ old(i) \in DOMAIN jobs
            /\ IF old(i) = 1 THEN jobs'[i] = left1 /\ left1.to # {}
               ELSE jobs'[i] = jobs[old(i)]
  <2>1. CASE left1.to = {}
    BY <2>1, <1>1, <1>2
  <2>2. CASE left1.to # {}
    BY <2>2, <1>1, <1>2, <1>7
  <2> QED
    BY <2>1, <2>2
<1>10. \A i \in DOMAIN jobs' : jobs'[i].nonces \subseteq jobs[old(i)].nonces
                               /\ last \notin jobs'[i].nonces
  <2> SUFFICES ASSUME NEW i \in DOMAIN jobs'
               PROVE  jobs'[i].nonces \subseteq jobs[old(i)].nonces
                      /\ last \notin jobs'[i].nonces
    OBVIOUS
  <2>1. CASE old(i) = 1
    BY <2>1, <1>7, <1>9
  <2>2. CASE old(i) # 1
    <3>1. last \in jobs[1].nonces
      BY <1>4
    <3> QED
      BY <2>2, <3>1, <1>2, <1>9 DEF NoncesApart
  <2> QED
    BY <2>1, <2>2
<1>11. TypeOK'
  BY <1>1, <1>9, FS_EmptySet DEF TypeOK
<1>12. JobsFit'
  BY <1>1, <1>8, <1>9 DEF JobsFit
<1>13. NoncesApart'
  <2> SUFFICES ASSUME NEW i \in DOMAIN jobs', NEW j \in DOMAIN jobs', i # j
               PROVE  jobs'[i].nonces \cap jobs'[j].nonces = {}
    BY DEF NoncesApart
  <2>1. i \in Nat /\ j \in Nat /\ old(i) \in DOMAIN jobs /\ old(j) \in DOMAIN jobs
    BY <1>9
  <2>2. old(i) # old(j)
    BY <2>1
  <2> HIDE DEF old
  <2>3. jobs[old(i)].nonces \cap jobs[old(j)].nonces = {}
    BY <2>1, <2>2 DEF NoncesApart
  <2> QED
    BY <1>10, <2>3
\* The nonce that was used is gone.
<1>14. UnusedNonces'
  <2> SUFFICES ASSUME NEW i \in DOMAIN jobs', NEW m \in chat, m.nonce \in jobs'[i].nonces
               PROVE  FALSE
    BY <1>1 DEF UnusedNonces
  <2>1. old(i) \in DOMAIN jobs
    BY <1>9
  <2>2. m.nonce \in jobs[old(i)].nonces /\ m.nonce # last
    BY <1>10
  <2> HIDE DEF old
  <2>3. m.nonce = LastNonce(job)
    BY <2>1, <2>2 DEF UnusedNonces
  <2> QED
    BY <1>5, <2>2, <2>3
<1>15. NoncesReflected' /\ FlightFits' /\ SendingFits'
  BY <1>1, <1>9, <1>10 DEF NoncesReflected, FlightFits, SendingFits
<1>16. Covered'
  <2> SUFFICES ASSUME NEW d \in Receivers, ~HasMessage(d)
               PROVE  \E i \in DOMAIN jobs' : jobs'[i].kind = "message" /\ d \in jobs'[i].to
    BY <1>1 DEF Covered, HasMessage
  <2>1. PICK j \in DOMAIN jobs : jobs[j].kind = "message" /\ d \in jobs[j].to
    BY <1>1 DEF Covered
  <2>2. j = 1 => d # c
    BY <1>1, <1>3, <2>1 DEF SendingFits, HasMessage
  <2>3. CASE left1.to = {}
    <3>1. j # 1 /\ j - 1 \in DOMAIN jobs' /\ jobs'[j - 1] = jobs[j]
      BY <2>1, <2>2, <2>3, <1>1, <1>2, <1>7
    <3> QED
      BY <3>1, <2>1
  <2>4. CASE left1.to # {}
    <3>1. j \in DOMAIN jobs' /\ jobs'[j] = IF j = 1 THEN left1 ELSE jobs[j]
      BY <2>4, <1>1, <1>2
    <3> QED
      BY <3>1, <2>1, <2>2, <1>7
  <2> QED
    BY <2>3, <2>4
<1>17. SentMeansQueued' /\ ReflectedBeforeSent' /\ NonceUsedOnce'
  BY <1>1 DEF SentMeansQueued, ReflectedBeforeSent, NonceUsedOnce
<1> QED
  BY <1>11, <1>12, <1>13, <1>14, <1>15, <1>16, <1>17

LEMMA SentStep ==
  ASSUME IInv, Sent
  PROVE  IInv'
<1> USE DEF IInv
<1>1. /\ at = "update" /\ at' = "done" /\ flight' = "none" /\ jobs = <<>>
      /\ \A c \in Receivers : HasMessage(c)
      /\ UNCHANGED <<up, jobs, left, held, pictures, sending, nonce, picture, blobs,
                     cache, reflected, chat, losses>>
  BY DEF Sent, Covered
<1>2. TypeOK'
  BY <1>1 DEF Sent, TypeOK
<1>3. JobsFit' /\ NoncesApart' /\ UnusedNonces' /\ NoncesReflected' /\ SendingFits'
  BY <1>1 DEF JobsFit, NoncesApart, UnusedNonces, NoncesReflected, SendingFits
<1>4. FlightFits' /\ Covered'
  BY <1>1 DEF FlightFits, Covered
<1>5. SentMeansQueued' /\ ReflectedBeforeSent' /\ NonceUsedOnce'
  BY <1>1 DEF SentMeansQueued, ReflectedBeforeSent, NonceUsedOnce, HasMessage
<1> QED
  BY <1>2, <1>3, <1>4, <1>5

LEMMA MediatorStep ==
  ASSUME IInv, Mediator
  PROVE  IInv'
<1> USE DEF IInv
<1>1. /\ at \in {"reflect", "update"} /\ flight = "frame" /\ flight' = "ack"
      /\ UNCHANGED <<up, at, message, jobs, left, held, pictures, sending, nonce,
                     picture, blobs, cache, chat, losses>>
      /\ reflected \subseteq reflected'
      /\ reflected' \subseteq reflected \cup UNION {jobs[i].nonces : i \in DOMAIN jobs}
  BY DEF Mediator
<1>2. TypeOK'
  <2>1. \A i \in DOMAIN jobs : jobs[i].nonces \subseteq 1..nonce
    BY DEF JobsFit, Fits, TypeOK
  <2>2. reflected' \subseteq 1..nonce
    BY <1>1, <2>1 DEF TypeOK
  <2> QED
    BY <1>1, <2>2 DEF TypeOK
<1>3. NoncesReflected'
  BY <1>1 DEF NoncesReflected, Mediator, Covered
<1>4. FlightFits' /\ SendingFits' /\ Covered'
  BY <1>1 DEF FlightFits, SendingFits, Covered, HasMessage
<1> QED
  BY <1>1, <1>2, <1>3, <1>4, NothingSent

\* The server accepts a frame with the highest nonce of the first job.
LEMMA ChatServerStep ==
  ASSUME IInv, ChatServer
  PROVE  IInv'
<1> USE DEF IInv
<1>1. /\ at = "ack" /\ flight = "frame" /\ flight' = "ack"
      /\ UNCHANGED <<up, at, message, jobs, left, held, pictures, sending, nonce,
                     picture, blobs, cache, reflected, losses>>
      /\ jobs # <<>> /\ 1 \in DOMAIN jobs /\ Head(jobs) = jobs[1]
  BY DEF ChatServer, SendingFits, TypeOK
<1>2. PICK c : sending = {c} /\ c \in jobs[1].to /\ c \in Receivers
  <2>1. sending \subseteq Contacts /\ sending \subseteq Receivers
        /\ Cardinality(sending) = 1 /\ sending \subseteq jobs[1].to
    BY <1>1, FiniteReceivers DEF TypeOK, SendingFits
  <2> QED
    BY <2>1, FiniteReceivers, FS_Singleton
<1> DEFINE msg == [kind |-> jobs[1].kind, to |-> c, nonce |-> LastNonce(jobs[1]),
                   blob |-> jobs[1].blob]
<1>3. chat' = chat \cup {msg}
  BY <1>1, <1>2 DEF ChatServer
<1>4. msg.nonce \in jobs[1].nonces /\ msg.nonce \in 1..nonce
  <2>1. PICK first \in Nat, last \in Nat :
          /\ 0 < first /\ first <= last /\ last <= nonce /\ jobs[1].nonces = first..last
    BY <1>1 DEF JobsFit, Fits
  <2>2. LastNonce(jobs[1]) = last
    BY <2>1, LastNonceIs
  <2> QED
    BY <2>1, <2>2 DEF TypeOK
<1>5. TypeOK'
  BY <1>1, <1>2, <1>3, <1>4 DEF TypeOK
<1>6. JobsFit' /\ NoncesApart' /\ NoncesReflected' /\ FlightFits'
  BY <1>1 DEF JobsFit, Fits, NoncesApart, NoncesReflected, FlightFits
<1>7. UnusedNonces'
  <2> SUFFICES ASSUME NEW i \in DOMAIN jobs, NEW m \in chat', m.nonce \in jobs[i].nonces
               PROVE  i = 1 /\ m.nonce = LastNonce(jobs[1])
    BY <1>1 DEF UnusedNonces, LastNonce
  <2>1. CASE m \in chat
    BY <2>1, <1>1 DEF UnusedNonces
  <2>2. CASE m = msg
    BY <2>2, <1>1, <1>4 DEF NoncesApart
  <2> QED
    BY <2>1, <2>2, <1>3
<1>8. SendingFits'
  <2>1. msg \in chat' /\ msg.kind = jobs[1].kind /\ msg.to = c
    BY <1>3
  <2> HIDE DEF msg
  <2> QED
    BY <1>1, <1>2, <2>1 DEF SendingFits
<1>12. Covered'
  <2>1. \A d : HasMessage(d) => HasMessage(d)'
    BY <1>3 DEF HasMessage
  <2> QED
    BY <1>1, <2>1 DEF Covered
<1>9. SentMeansQueued'
  BY <1>1, <1>3 DEF SentMeansQueued
<1>10. ReflectedBeforeSent'
  BY <1>1, <1>3, <1>4 DEF ReflectedBeforeSent, NoncesReflected
<1>11. NonceUsedOnce'
  <2>1. \A m \in chat : m.nonce # msg.nonce
    BY <1>1, <1>4 DEF UnusedNonces
  <2> QED
    BY <2>1, <1>3 DEF NonceUsedOnce
<1> QED
  BY <1>5, <1>6, <1>7, <1>8, <1>9, <1>10, <1>11, <1>12

\* Every step keeps the invariant.
THEOREM NextInvariant == IInv /\ [Next]_vars => IInv'
<1> SUFFICES ASSUME IInv, [Next]_vars PROVE IInv'
  OBVIOUS
<1>1. CASE UNCHANGED vars
  <2>1. TypeOK' /\ FlightFits' /\ SendingFits' /\ Covered'
    BY <1>1 DEF vars, IInv, TypeOK, FlightFits, SendingFits, Covered, HasMessage
  <2>2. JobsFit' /\ NoncesApart' /\ UnusedNonces'
    BY <1>1 DEF vars, IInv, JobsFit, Fits, NoncesApart, UnusedNonces, LastNonce
  <2>3. NoncesReflected' /\ SentMeansQueued' /\ ReflectedBeforeSent' /\ NonceUsedOnce'
    BY <1>1 DEF vars, IInv, NoncesReflected, SentMeansQueued, ReflectedBeforeSent, NonceUsedOnce
  <2> QED
    BY <2>1, <2>2, <2>3 DEF IInv
<1>2. CASE Task
  BY <1>2, RunStep, DistributeStep, DistributedStep, FrameStep, AckedStep, SentStep
     DEF Task
<1> QED
  BY <1>1, <1>2, AbandonStep, OutsideStep, MediatorStep, ChatServerStep DEF Next

\* The inductive invariant holds in every behaviour.
THEOREM Invariance == Spec => []IInv
BY InitInvariant, NextInvariant, PTL DEF Spec

\* Type correctness (OutgoingMessage).
THEOREM TypeCorrect == Spec => []TypeOK
<1>1. IInv => TypeOK
  BY DEF IInv
<1> QED
  BY Invariance, <1>1, PTL

\* A message shown as sent is with the chat server for every receiver.
THEOREM SentIsQueued == Spec => []SentMeansQueued
<1>1. IInv => SentMeansQueued
  BY DEF IInv
<1> QED
  BY Invariance, <1>1, PTL

\* The other devices know a nonce before the chat server sees it.
THEOREM ReflectionIsFirst == Spec => []ReflectedBeforeSent
<1>1. IInv => ReflectedBeforeSent
  BY DEF IInv
<1> QED
  BY Invariance, <1>1, PTL

\* No nonce is used for two messages.
THEOREM NoncesAreFresh == Spec => []NonceUsedOnce
<1>1. IInv => NonceUsedOnce
  BY DEF IInv
<1> QED
  BY Invariance, <1>1, PTL
=============================================================================
