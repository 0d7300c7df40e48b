------------------------ MODULE IncomingMessageProofs ------------------------
(***************************************************************************)
(* Proofs about IncomingMessage for any messages and any number of         *)
(* connections.                                                            *)
(*                                                                         *)
(* A message that is delivered again may meet the task of an old           *)
(* connection.  For a text that does no harm: the old task is either       *)
(* before its nonce is registered, when it fails, or after the text was    *)
(* shown, when it commits the nonce.                                       *)
(***************************************************************************)
EXTENDS IncomingMessage, TLAPS

\* Connections are numbered in their order, and a task that outlives its
\* connection awaits a request, or a promise that is resolved.
OldTasksEnd ==
    /\ net = "up" => conn \in Conns
    /\ \A c \in Conns : c > conn => step[c] = "none"
    /\ \A c \in Conns :
        ~Live(c) => step[c] \in {"none", "lookup", "fetch", "commit", "exited"}

\* The steps of texts are not those of other messages.
KindFits ==
    \A c \in Conns :
        /\ cur[c] \in Text => step[c] \notin {"fetch", "apply"}
        /\ cur[c] \notin Text => step[c] \notin {"save", "receipt"}

\* What has been done for the message of a task that got this far.
Reached ==
    \A c \in Conns :
        /\ cur[c] \in Text /\ step[c] \in {"reflectAck", "save"} => cur[c] \in reflected
        /\ cur[c] \in Text /\ step[c] \in {"ack", "receipt", "commit", "discard"} => shown[cur[c]] > 0
        /\ step[c] \in {"ack", "receipt", "commit"} => cur[c] \in handled
        /\ step[c] = "discard" /\ holder[cur[c]] = c => cur[c] \in handled

Stored ==
    \A m \in Text :
        /\ shown[m] > 0 => m \in handled
        /\ m \in nonces => shown[m] > 0

\* Every message was sent, and once.
WasSent ==
    /\ IsInjective(sent)
    /\ inbound \union acks \subseteq Range(sent)
    /\ \A c \in Conns : cur[c] \in Message => cur[c] \in Range(sent)
    /\ \A m \in Text : shown[m] > 0 => m \in Range(sent)

\* On a connection every text is still to come, in process or shown, and what
\* is to come was sent after what is in process.
UpcomingInOrder ==
    net = "up" =>
        /\ \A m \in Text : m \in Range(sent) => m \in inbound \/ m = cur[conn] \/ shown[m] > 0
        /\ \A m \in inbound : cur[conn] \in Message => Before(cur[conn], m)

IInv ==
    /\ TypeOK
    /\ OldTasksEnd
    /\ KindFits
    /\ Reached
    /\ Stored
    /\ WasSent
    /\ UpcomingInOrder
    /\ NothingLost
    /\ ShownOnce
    /\ ShownInOrder
    /\ GuardHasOwner
    /\ CommittedIsHandled

USE DEF Message, Conns

-----------------------------------------------------------------------------
\* The order of the messages.

LEMMA BeforeIsStrict ==
  ASSUME IsInjective(sent), sent \in Seq(Message), NEW m, NEW n, Before(m, n)
  PROVE  ~Before(n, m)
<1> SUFFICES ASSUME Before(n, m) PROVE FALSE
  OBVIOUS
<1>1. PICK i, j \in DOMAIN sent : i < j /\ sent[i] = m /\ sent[j] = n
  BY DEF Before
<1>2. PICK k, l \in DOMAIN sent : k < l /\ sent[k] = n /\ sent[l] = m
  BY DEF Before
<1>3. k = j /\ l = i
  BY <1>1, <1>2 DEF IsInjective
<1> QED
  BY <1>1, <1>2, <1>3

\* What a message that arrives adds to the order.
LEMMA ArriveLemma ==
  ASSUME IsInjective(sent), sent \in Seq(Message), NEW m \in Message, m \notin Range(sent),
         sent' = Append(sent, m)
  PROVE  /\ sent' \in Seq(Message) /\ IsInjective(sent')
         /\ Range(sent') = Range(sent) \union {m}
         /\ \A n \in Range(sent) : Before(n, m)'
         /\ \A k, n : Before(k, n) => Before(k, n)'
         /\ \A k, n : Before(k, n)' /\ n # m => Before(k, n)
<1>1. /\ sent' \in Seq(Message)
      /\ DOMAIN sent = 1..Len(sent) /\ DOMAIN sent' = 1..Len(sent) + 1
      /\ \A i \in DOMAIN sent : sent'[i] = sent[i]
      /\ sent'[Len(sent) + 1] = m
      /\ Len(sent) \in Nat
  OBVIOUS
<1>2. \A i \in DOMAIN sent : sent[i] # m
  BY DEF Range
<1>3. IsInjective(sent')
  BY <1>1, <1>2 DEF IsInjective
<1>4. Range(sent') = Range(sent) \union {m}
  <2>1. ASSUME NEW x \in Range(sent') PROVE x \in Range(sent) \union {m}
    <3>1. PICK i \in DOMAIN sent' : sent'[i] = x
      BY <2>1 DEF Range
    <3>2. CASE i = Len(sent) + 1
      BY <1>1, <3>1, <3>2
    <3>3. CASE i \in DOMAIN sent
      BY <1>1, <3>1, <3>3 DEF Range
    <3> QED
      BY <1>1, <3>2, <3>3
  <2>2. ASSUME NEW x \in Range(sent) PROVE x \in Range(sent')
    <3>1. PICK i \in DOMAIN sent : sent[i] = x
      BY <2>2 DEF Range
    <3>2. i \in DOMAIN sent' /\ sent'[i] = x
      BY <1>1, <3>1
    <3> QED
      BY <3>2 DEF Range
  <2>3. m \in Range(sent')
    BY <1>1 DEF Range
  <2> QED
    BY <2>1, <2>2, <2>3
<1>5. ASSUME NEW n \in Range(sent) PROVE Before(n, m)'
  <2>1. PICK i \in DOMAIN sent : sent[i] = n
    BY DEF Range
  <2>2. i \in DOMAIN sent' /\ Len(sent) + 1 \in DOMAIN sent' /\ i < Len(sent) + 1
    BY <1>1
  <2> QED
    BY <1>1, <2>1, <2>2 DEF Before
<1>6. ASSUME NEW k, NEW n, Before(k, n) PROVE Before(k, n)'
  <2>1. PICK i, j \in DOMAIN sent : i < j /\ sent[i] = k /\ sent[j] = n
    BY <1>6 DEF Before
  <2>2. i \in DOMAIN sent' /\ j \in DOMAIN sent' /\ sent'[i] = k /\ sent'[j] = n
    BY <1>1, <2>1
  <2> QED
    BY <2>1, <2>2 DEF Before
<1>7. ASSUME NEW k, NEW n, Before(k, n)', n # m PROVE Before(k, n)
  <2>1. PICK i, j \in DOMAIN sent' : i < j /\ sent'[i] = k /\ sent'[j] = n
    BY <1>7 DEF Before
  <2>2. j \in DOMAIN sent
    BY <1>1, <1>7, <2>1
  <2>3. i \in DOMAIN sent
    BY <1>1, <2>1, <2>2
  <2> QED
    BY <1>1, <2>1, <2>2, <2>3 DEF Before
<1> QED
  BY <1>1, <1>3, <1>4, <1>5, <1>6, <1>7

-----------------------------------------------------------------------------
\* The order of the steps.

LEMMA FollowsLemma ==
  /\ \A m \in Text : Follows(m) =
        [lookup |-> "reflect", reflect |-> "reflectAck", reflectAck |-> "save",
         save |-> "ack", ack |-> "receipt", receipt |-> "commit"]
  /\ \A m \in Picture : Follows(m) =
        [lookup |-> "reflect", reflect |-> "reflectAck", reflectAck |-> "fetch",
         fetch |-> "apply", apply |-> "ack", ack |-> "commit"]
  /\ \A m \in Setup : Follows(m) =
        [lookup |-> "fetch", fetch |-> "reflect", reflect |-> "reflectAck",
         reflectAck |-> "apply", apply |-> "ack", ack |-> "commit"]
<1>1. \A m \in Text : m \notin Picture /\ m \notin Setup
  BY MessageAssumption
<1>2. \A m \in Picture : m \notin Text /\ m \notin Setup
  BY MessageAssumption
<1>3. \A m \in Setup : m \notin Picture /\ m \notin Text
  BY MessageAssumption
<1> QED
  BY <1>1, <1>2, <1>3 DEF Follows

Working == (Processing \union {"lookup"}) \ {"commit"}

\* Where a task goes on from where.
LEMMA ProceedLemma ==
  ASSUME TypeOK, KindFits, NEW c \in Conns, step[c] \in Working, Proceed(c)
  PROVE  /\ cur' = cur
         /\ step' \in [Conns -> Step]
         /\ \A d \in Conns \ {c} : step'[d] = step[d]
         /\ step'[c] \in Processing
         /\ step'[c] = "reflectAck" => step[c] = "reflect"
         /\ step'[c] = "save" => step[c] = "reflectAck"
         /\ step'[c] = "ack" => step[c] \in {"save", "apply"}
         /\ step'[c] = "receipt" => step[c] = "ack"
         /\ step'[c] = "commit" => step[c] \in {"ack", "receipt"}
         /\ KindFits'
<1>1. cur[c] \in Message
  BY DEF TypeOK, Working, Processing
<1>2. step[c] \in Step /\ step \in [Conns -> Step]
  BY DEF TypeOK
<1> DEFINE s == Follows(cur[c])[step[c]]
<1>3. CASE cur[c] \in Text
  <2>1. <<step[c], s>> \in {<<"lookup", "reflect">>, <<"reflect", "reflectAck">>,
          <<"reflectAck", "save">>, <<"save", "ack">>, <<"ack", "receipt">>, <<"receipt", "commit">>}
    BY <1>3, FollowsLemma DEF KindFits, Working, Processing
  <2>2. cur' = cur /\ step' = [step EXCEPT ![c] = s]
    BY <2>1 DEF Proceed, GoTo
  <2> QED
    BY <1>2, <1>3, <2>1, <2>2 DEF Step, Processing, KindFits
<1>4. CASE cur[c] \in Picture
  <2>0. cur[c] \notin Text
    BY <1>4, MessageAssumption
  <2>1. <<step[c], s>> \in {<<"lookup", "reflect">>, <<"reflect", "reflectAck">>,
          <<"reflectAck", "fetch">>, <<"fetch", "apply">>, <<"apply", "ack">>, <<"ack", "commit">>}
    BY <1>4, <2>0, FollowsLemma DEF KindFits, Working, Processing
  <2>2. cur' = cur /\ step' = [step EXCEPT ![c] = s]
    BY <2>1 DEF Proceed, GoTo
  <2> QED
    BY <1>2, <2>0, <2>1, <2>2 DEF Step, Processing, KindFits
<1>5. CASE cur[c] \in Setup
  <2>0. cur[c] \notin Text
    BY <1>5, MessageAssumption
  <2>1. <<step[c], s>> \in {<<"lookup", "fetch">>, <<"fetch", "reflect">>,
          <<"reflect", "reflectAck">>, <<"reflectAck", "apply">>, <<"apply", "ack">>, <<"ack", "commit">>}
    BY <1>5, <2>0, FollowsLemma DEF KindFits, Working, Processing
  <2>2. cur' = cur /\ step' = [step EXCEPT ![c] = s]
    BY <2>1 DEF Proceed, GoTo
  <2> QED
    BY <1>2, <2>0, <2>1, <2>2 DEF Step, Processing, KindFits
<1> QED
  BY <1>1, <1>3, <1>4, <1>5

-----------------------------------------------------------------------------

LEMMA InitInvariant == Init => IInv
<1> SUFFICES ASSUME Init PROVE IInv
  OBVIOUS
<1> USE DEF Init
<1>1. TypeOK
  BY MessageAssumption DEF TypeOK, Step, Processing
<1>2. OldTasksEnd /\ KindFits /\ Reached /\ Stored
  BY MessageAssumption DEF OldTasksEnd, KindFits, Reached, Stored
<1>3. WasSent /\ UpcomingInOrder
  BY MessageAssumption DEF WasSent, UpcomingInOrder, IsInjective
<1>4. NothingLost /\ ShownOnce /\ ShownInOrder
  BY DEF NothingLost, ShownOnce, ShownInOrder
<1>5. GuardHasOwner /\ CommittedIsHandled
  BY MessageAssumption DEF GuardHasOwner, CommittedIsHandled
<1> QED
  BY <1>1, <1>2, <1>3, <1>4, <1>5 DEF IInv

\* One lemma per action, or for actions that differ in what they record.

LEMMA ArrivePreserves ==
  ASSUME IInv, NEW m \in Message, Arrive(m)
  PROVE  IInv'
<1> USE DEF IInv
<1>1. /\ sent' = Append(sent, m) /\ m \notin Range(sent)
      /\ inbound' = (IF net = "up" THEN inbound \union {m} ELSE inbound)
      /\ UNCHANGED <<delivered, conn, net, acks, cur, step, holder, nonces, shown, handled,
                     reflected, receipts>>
  BY DEF Arrive, task, stored
<1>2. /\ sent' \in Seq(Message) /\ IsInjective(sent')
      /\ Range(sent') = Range(sent) \union {m}
      /\ \A n \in Range(sent) : Before(n, m)'
      /\ \A k, n : Before(k, n) => Before(k, n)'
      /\ \A k, n : Before(k, n)' /\ n # m => Before(k, n)
  BY <1>1, ArriveLemma DEF TypeOK, WasSent
<1>3. TypeOK'
  BY <1>1, <1>2 DEF TypeOK
<1>4. OldTasksEnd' /\ KindFits' /\ Reached' /\ Stored'
  BY <1>1 DEF OldTasksEnd, Live, KindFits, Reached, Stored
<1>5. WasSent'
  BY <1>1, <1>2 DEF WasSent
\* A text that has just arrived is upcoming and not shown.
<1>6. UpcomingInOrder'
  <2> SUFFICES ASSUME net = "up" PROVE UpcomingInOrder'
    BY <1>1 DEF UpcomingInOrder
  <2>1. \A n \in Text : n \in Range(sent') => n \in inbound' \/ n = cur'[conn'] \/ shown'[n] > 0
    BY <1>1, <1>2 DEF UpcomingInOrder
  <2>2. ASSUME NEW n \in inbound', cur'[conn'] \in Message PROVE Before(cur[conn], n)'
    <3>1. CASE n = m
      BY <1>1, <1>2, <2>2, <3>1 DEF WasSent, OldTasksEnd
    <3>2. CASE n \in inbound
      BY <1>1, <1>2, <2>2, <3>2 DEF UpcomingInOrder
    <3> QED
      BY <1>1, <3>1, <3>2
  <2> QED
    BY <1>1, <2>1, <2>2 DEF UpcomingInOrder
<1>7. ShownInOrder'
  BY <1>1, <1>2 DEF ShownInOrder, WasSent
<1>8. NothingLost' /\ ShownOnce' /\ GuardHasOwner' /\ CommittedIsHandled'
  BY <1>1 DEF NothingLost, ShownOnce, GuardHasOwner, CommittedIsHandled
<1> QED
  BY <1>3, <1>4, <1>5, <1>6, <1>7, <1>8

LEMMA AckArrivesPreserves ==
  ASSUME IInv, NEW m \in Message, AckArrives(m)
  PROVE  IInv'
<1> USE DEF IInv, AckArrives, link, task, stored
<1>1. TypeOK'
  BY DEF TypeOK
<1>2. OldTasksEnd' /\ KindFits' /\ Reached' /\ Stored'
  BY DEF OldTasksEnd, Live, KindFits, Reached, Stored
<1>3. WasSent' /\ UpcomingInOrder' /\ ShownInOrder'
  BY DEF WasSent, UpcomingInOrder, Before, ShownInOrder
<1>4. NothingLost'
  BY DEF NothingLost
<1>5. ShownOnce' /\ GuardHasOwner' /\ CommittedIsHandled'
  BY DEF ShownOnce, GuardHasOwner, CommittedIsHandled
<1> QED
  BY <1>1, <1>2, <1>3, <1>4, <1>5

\* The server sends what was not acknowledged: of the texts, at least those that
\* are not shown.
LEMMA ConnectPreserves ==
  ASSUME IInv, Connect
  PROVE  IInv'
<1> USE DEF IInv
<1>1. /\ net = "down" /\ net' = "up" /\ conn' = conn + 1 /\ conn' \in Conns
      /\ inbound' = Range(sent) \ delivered
      /\ step' = [step EXCEPT ![conn'] = "idle"]
      /\ UNCHANGED <<sent, delivered, acks, cur, holder, nonces, shown, handled, reflected, receipts>>
  BY MessageAssumption DEF Connect, server, stored, TypeOK
<1>2. step[conn'] = "none" /\ cur[conn'] = NoMessage
  BY <1>1 DEF OldTasksEnd, TypeOK
<1>3. Range(sent) \subseteq Message
  BY DEF TypeOK, Range
<1>4. TypeOK'
  <2>1. step' \in [Conns -> Step]
    BY <1>1 DEF TypeOK, Step
  <2>2. \A c \in Conns : cur'[c] = NoMessage <=> step'[c] \in {"none", "idle", "exited"}
    BY <1>1, <1>2 DEF TypeOK
  <2>3. holder' \in [Message -> 0..conn']
    BY <1>1 DEF TypeOK
  <2> QED
    BY <1>1, <1>3, <2>1, <2>2, <2>3 DEF TypeOK
<1>5. OldTasksEnd'
  BY <1>1 DEF OldTasksEnd, Live, TypeOK
<1>6. KindFits' /\ Reached' /\ Stored'
  BY <1>1 DEF KindFits, Reached, Stored, TypeOK
<1>7. WasSent' /\ ShownInOrder'
  BY <1>1 DEF WasSent, ShownInOrder, Before
<1>8. UpcomingInOrder'
  BY <1>1, <1>2, MessageAssumption DEF UpcomingInOrder, NothingLost, Before
<1>9. NothingLost' /\ ShownOnce' /\ CommittedIsHandled'
  BY <1>1 DEF NothingLost, ShownOnce, CommittedIsHandled
<1>10. GuardHasOwner'
  BY <1>1, <1>2, MessageAssumption DEF GuardHasOwner, Processing, TypeOK
<1> QED
  BY <1>4, <1>5, <1>6, <1>7, <1>8, <1>9, <1>10

\* The tasks that end leave no guard behind.
LEMMA ExitLemma ==
  ASSUME IInv, NEW cs \in SUBSET (1..conn), Exit(cs)
  PROVE  /\ cur' \in [Conns -> Message \union {NoMessage}]
         /\ step' \in [Conns -> Step]
         /\ holder' \in [Message -> 0..conn]
         /\ \A c \in Conns : cur'[c] = NoMessage <=> step'[c] \in {"none", "idle", "exited"}
         /\ \A c \in Conns : c \in cs => step'[c] = "exited" /\ cur'[c] = NoMessage
         /\ \A c \in Conns : c \notin cs => step'[c] = step[c] /\ cur'[c] = cur[c]
         /\ GuardHasOwner'
         /\ \A m \in Message : holder'[m] \in {0, holder[m]}
<1> USE DEF IInv, Exit
<1>1. cur' \in [Conns -> Message \union {NoMessage}] /\ step' \in [Conns -> Step]
  BY DEF TypeOK, Step
<1>2. holder' \in [Message -> 0..conn]
  BY DEF TypeOK
<1>3. \A c \in Conns : c \in cs => step'[c] = "exited" /\ cur'[c] = NoMessage
  OBVIOUS
<1>4. \A c \in Conns : c \notin cs => step'[c] = step[c] /\ cur'[c] = cur[c]
  OBVIOUS
<1>5. \A c \in Conns : cur'[c] = NoMessage <=> step'[c] \in {"none", "idle", "exited"}
  BY <1>3, <1>4 DEF TypeOK
<1>6. \A m \in Message : holder'[m] = IF holder[m] \in cs THEN 0 ELSE holder[m]
  OBVIOUS
<1>7. GuardHasOwner'
  <2> SUFFICES ASSUME NEW m \in Message, NEW c \in Conns
               PROVE  holder'[m] = c <=>
                        /\ cur'[c] = m
                        /\ step'[c] \in Processing \/ (step'[c] = "discard" /\ holder'[m] = c)
    BY DEF GuardHasOwner
  <2>1. CASE c \in cs
    BY <1>3, <1>6, <2>1, MessageAssumption DEF Processing
  <2>2. CASE c \notin cs
    BY <1>4, <1>6, <2>2 DEF GuardHasOwner
  <2> QED
    BY <2>1, <2>2
<1> QED
  BY <1>1, <1>2, <1>3, <1>4, <1>5, <1>6, <1>7

\* The connection is lost, the application crashes, or a request fails.
LEMMA GoDownPreserves ==
  ASSUME IInv, NEW cs \in SUBSET (1..conn), GoDown, Exit(cs),
         conn \in Conns,
         conn \in cs \/ step[conn] \in {"none", "lookup", "fetch", "commit", "exited"}
  PROVE  IInv'
<1> USE DEF IInv
<1>1. /\ net' = "down" /\ inbound' = {} /\ acks' = {}
      /\ UNCHANGED <<sent, delivered, conn, nonces, shown, handled, reflected, receipts>>
  BY DEF GoDown, server, stored
<1>2. TypeOK'
  BY <1>1, ExitLemma DEF TypeOK
<1>3. OldTasksEnd'
  BY <1>1, ExitLemma DEF OldTasksEnd, Live, TypeOK
<1>4. KindFits' /\ Stored'
  BY <1>1, ExitLemma, MessageAssumption DEF KindFits, Stored
<1>5. Reached'
  BY <1>1, ExitLemma DEF Reached, TypeOK
<1>6. WasSent' /\ UpcomingInOrder' /\ ShownInOrder'
  BY <1>1, ExitLemma, MessageAssumption DEF WasSent, UpcomingInOrder, ShownInOrder, Before
<1>7. NothingLost' /\ ShownOnce' /\ CommittedIsHandled'
  BY <1>1 DEF NothingLost, ShownOnce, CommittedIsHandled
<1> QED
  BY <1>2, <1>3, <1>4, <1>5, <1>6, <1>7, ExitLemma

LEMMA FailurePreserves ==
  ASSUME IInv, Lose \/ Crash \/ \E c \in Conns : RequestFails(c)
  PROVE  IInv'
<1> USE DEF IInv
<1>1. CASE Lose
  <2>1. conn \in Conns
    BY <1>1 DEF Lose, OldTasksEnd
  <2> QED
    BY <1>1, <2>1, GoDownPreserves DEF Lose
<1>2. CASE Crash
  <2>1. conn \in Conns /\ conn \in 1..conn
    BY <1>2 DEF Crash, TypeOK
  <2> QED
    BY <1>2, <2>1, GoDownPreserves DEF Crash
<1>3. ASSUME NEW c \in Conns, RequestFails(c) PROVE IInv'
  <2>1. c = conn /\ GoDown /\ Exit({c})
    BY <1>3 DEF RequestFails, At, Live
  <2>2. {c} \in SUBSET (1..conn)
    BY <2>1
  <2> QED
    BY <2>1, <2>2, GoDownPreserves
<1> QED
  BY <1>1, <1>2, <1>3

LEMMA EndStalePreserves ==
  ASSUME IInv, NEW c \in Conns, EndStale(c)
  PROVE  IInv'
<1> USE DEF IInv
<1>1. /\ ~Live(c) /\ step[c] \in {"lookup", "fetch"} /\ Exit({c})
      /\ UNCHANGED <<sent, delivered, conn, net, inbound, acks, nonces, shown, handled,
                     reflected, receipts>>
  BY DEF EndStale, server, link, stored
<1>2. {c} \in SUBSET (1..conn)
  BY <1>1 DEF OldTasksEnd, TypeOK
<1>3. TypeOK'
  BY <1>1, <1>2, ExitLemma DEF TypeOK
<1>4. OldTasksEnd'
  BY <1>1, <1>2, ExitLemma DEF OldTasksEnd, Live, TypeOK
<1>5. KindFits' /\ Stored'
  BY <1>1, <1>2, ExitLemma, MessageAssumption DEF KindFits, Stored
<1>6. Reached'
  <2> SUFFICES ASSUME NEW d \in Conns, d # c PROVE
        /\ cur'[d] \in Text /\ step'[d] \in {"reflectAck", "save"} => cur'[d] \in reflected'
        /\ cur'[d] \in Text /\ step'[d] \in {"ack", "receipt", "commit", "discard"} => shown'[cur'[d]] > 0
        /\ step'[d] \in {"ack", "receipt", "commit"} => cur'[d] \in handled'
        /\ step'[d] = "discard" /\ holder'[cur'[d]] = d => cur'[d] \in handled'
    BY <1>1, <1>2, ExitLemma, MessageAssumption DEF Reached
  <2>1. cur'[d] = cur[d] /\ step'[d] = step[d]
    BY <1>1, <1>2, ExitLemma
  <2>2. step[d] = "discard" => cur[d] \in Message
    BY DEF TypeOK
  <2>3. step[d] = "discard" /\ holder'[cur[d]] = d => holder[cur[d]] = d
    BY <1>1, <1>2, <2>2, ExitLemma
  <2> QED
    BY <1>1, <2>1, <2>3 DEF Reached
<1>7. WasSent' /\ ShownInOrder'
  BY <1>1, <1>2, ExitLemma, MessageAssumption DEF WasSent, ShownInOrder, Before
<1>8. UpcomingInOrder'
  <2>1. net = "up" => cur'[conn] = cur[conn]
    BY <1>1, <1>2, ExitLemma DEF Live, OldTasksEnd
  <2> QED
    BY <1>1, <2>1 DEF UpcomingInOrder, Before
<1>9. NothingLost' /\ ShownOnce' /\ CommittedIsHandled'
  BY <1>1 DEF NothingLost, ShownOnce, CommittedIsHandled
<1> QED
  BY <1>1, <1>2, <1>3, <1>4, <1>5, <1>6, <1>7, <1>8, <1>9, ExitLemma

\* The loop takes the oldest message there is.
LEMMA TakeMessagePreserves ==
  ASSUME IInv, NEW c \in Conns, TakeMessage(c)
  PROVE  IInv'
<1> USE DEF IInv
<1>1. PICK m \in inbound :
        /\ \A n \in inbound \ {m} : Before(m, n)
        /\ inbound' = inbound \ {m}
        /\ cur' = [cur EXCEPT ![c] = m]
  BY DEF TakeMessage
<1>2. /\ net = "up" /\ c = conn /\ step[c] = "idle"
      /\ step' = [step EXCEPT ![c] = "lookup"]
      /\ UNCHANGED <<sent, delivered, conn, net, acks, holder, nonces, shown, handled,
                     reflected, receipts>>
  BY DEF TakeMessage, At, Live, server, stored
<1>3. m \in Message /\ m # NoMessage /\ cur[c] = NoMessage
  BY <1>2, MessageAssumption DEF TypeOK
<1>4. TypeOK'
  <2>1. step' \in [Conns -> Step] /\ cur' \in [Conns -> Message \union {NoMessage}]
    BY <1>1, <1>2, <1>3 DEF TypeOK, Step
  <2>2. \A d \in Conns : cur'[d] = NoMessage <=> step'[d] \in {"none", "idle", "exited"}
    BY <1>1, <1>2, <1>3 DEF TypeOK
  <2> QED
    BY <1>1, <1>2, <2>1, <2>2 DEF TypeOK
<1>5. OldTasksEnd'
  BY <1>2 DEF OldTasksEnd, Live, TypeOK
<1>6. KindFits' /\ Stored'
  BY <1>1, <1>2 DEF KindFits, Stored, TypeOK
<1>7. Reached'
  BY <1>1, <1>2 DEF Reached, TypeOK
<1>8. WasSent' /\ ShownInOrder'
  BY <1>1, <1>2 DEF WasSent, ShownInOrder, Before, TypeOK
<1>9. UpcomingInOrder'
  <2>1. cur'[conn'] = m
    BY <1>1, <1>2 DEF TypeOK
  <2>2. \A n \in Text : n \in Range(sent) => n \in inbound' \/ n = m \/ shown[n] > 0
    BY <1>1, <1>2, <1>3, MessageAssumption DEF UpcomingInOrder
  <2> QED
    BY <1>1, <1>2, <2>1, <2>2 DEF UpcomingInOrder, Before
<1>10. NothingLost' /\ ShownOnce' /\ CommittedIsHandled'
  BY <1>2 DEF NothingLost, ShownOnce, CommittedIsHandled
<1>11. GuardHasOwner'
  BY <1>1, <1>2, <1>3, MessageAssumption DEF GuardHasOwner, Processing, TypeOK
<1> QED
  BY <1>4, <1>5, <1>6, <1>7, <1>8, <1>9, <1>10, <1>11

\* A message whose nonce was used: if it is a text, it is shown.
LEMMA UsedIsShown ==
  ASSUME IInv, NEW c \in Conns, step[c] = "lookup", cur[c] \in Text, Used(cur[c]), Live(c)
  PROVE  shown[cur[c]] > 0
<1> USE DEF IInv
<1>1. CASE cur[c] \in nonces
  BY <1>1 DEF Stored
<1>2. CASE holder[cur[c]] # 0
  <2> DEFINE d == holder[cur[c]]
  <2>1. d \in Conns
    BY <1>2, MessageAssumption DEF TypeOK
  <2>2. cur[d] = cur[c] /\ step[d] \in Processing \union {"discard"}
    BY <2>1 DEF GuardHasOwner
  <2>3. d # c
    BY <2>2 DEF Processing
  <2>4. ~Live(d)
    BY <2>3 DEF Live
  <2>5. step[d] = "commit"
    BY <2>1, <2>2, <2>4 DEF OldTasksEnd, KindFits, Processing
  <2> QED
    BY <2>1, <2>2, <2>5 DEF Reached
<1> QED
  BY <1>1, <1>2 DEF Used

\* The nonce is registered.
LEMMA RegisterPreserves ==
  ASSUME IInv, NEW c \in Conns, Decrypt(c), ~Used(cur[c])
  PROVE  IInv'
<1> USE DEF IInv
<1>1. /\ net = "up" /\ c = conn /\ step[c] = "lookup"
      /\ Proceed(c)
      /\ holder' = [holder EXCEPT ![cur[c]] = c]
      /\ UNCHANGED <<sent, delivered, conn, net, inbound, acks, nonces, shown, handled,
                     reflected, receipts>>
  BY DEF Decrypt, At, Live, server, link, stored
<1>2. cur[c] \in Message /\ holder[cur[c]] = 0
  BY <1>1 DEF TypeOK, Used
<1>3. step[c] \in Working
  BY <1>1 DEF Working
<1>4. TypeOK'
  <2>1. \A d \in Conns : cur'[d] = NoMessage <=> step'[d] \in {"none", "idle", "exited"}
    BY <1>1, <1>3, ProceedLemma DEF TypeOK, Processing
  <2>2. holder' \in [Message -> 0..conn]
    BY <1>1 DEF TypeOK
  <2> QED
    BY <1>1, <1>3, <2>1, <2>2, ProceedLemma DEF TypeOK
<1>5. OldTasksEnd'
  BY <1>1, <1>3, ProceedLemma DEF OldTasksEnd, Live, TypeOK
<1>6. KindFits' /\ Stored'
  BY <1>1, <1>3, ProceedLemma DEF Stored
<1>7. Reached'
  <2> SUFFICES ASSUME NEW d \in Conns PROVE
        /\ cur[d] \in Text /\ step'[d] \in {"reflectAck", "save"} => cur[d] \in reflected
        /\ cur[d] \in Text /\ step'[d] \in {"ack", "receipt", "commit", "discard"} => shown[cur[d]] > 0
        /\ step'[d] \in {"ack", "receipt", "commit"} => cur[d] \in handled
        /\ step'[d] = "discard" /\ holder'[cur[d]] = d => cur[d] \in handled
    BY <1>1, <1>3, ProceedLemma DEF Reached
  <2>1. CASE d = c
    BY <1>1, <1>3, <2>1, ProceedLemma DEF Processing
  <2>2. CASE d # c
    <3>1. step'[d] = step[d]
      BY <1>3, <1>1, <2>2, ProceedLemma
    <3>2. step[d] = "discard" => cur[d] \in Message
      BY DEF TypeOK
    <3>3. step[d] = "discard" /\ holder'[cur[d]] = d => holder[cur[d]] = d
      BY <1>1, <1>2, <2>2, <3>2 DEF TypeOK
    <3> QED
      BY <3>1, <3>3 DEF Reached
  <2> QED
    BY <2>1, <2>2
<1>8. WasSent' /\ UpcomingInOrder' /\ ShownInOrder'
  BY <1>1, <1>3, ProceedLemma DEF WasSent, UpcomingInOrder, ShownInOrder, Before
<1>9. NothingLost' /\ ShownOnce' /\ CommittedIsHandled'
  BY <1>1 DEF NothingLost, ShownOnce, CommittedIsHandled
<1>10. GuardHasOwner'
  <2> SUFFICES ASSUME NEW m \in Message, NEW d \in Conns
               PROVE  holder'[m] = d <=>
                        /\ cur[d] = m
                        /\ step'[d] \in Processing \/ (step'[d] = "discard" /\ holder'[m] = d)
    BY <1>1, <1>3, ProceedLemma DEF GuardHasOwner
  <2>1. CASE d = c
    <3>1. step'[c] \in Processing /\ step[c] \notin Processing \union {"discard"}
      BY <1>1, <1>3, ProceedLemma DEF Processing
    <3>2. m # cur[c] => holder'[m] = holder[m] /\ holder[m] # c
      BY <1>1, <2>1 DEF GuardHasOwner, TypeOK
    <3>3. holder'[cur[c]] = c
      BY <1>1, <1>2 DEF TypeOK
    <3> QED
      BY <2>1, <3>1, <3>2, <3>3
  <2>2. CASE d # c
    <3>1. step'[d] = step[d]
      BY <1>1, <1>3, <2>2, ProceedLemma
    <3>2. holder'[m] = d <=> holder[m] = d
      BY <1>1, <1>2, <2>2 DEF TypeOK
    <3> QED
      BY <3>1, <3>2 DEF GuardHasOwner
  <2> QED
    BY <2>1, <2>2
<1> QED
  BY <1>4, <1>5, <1>6, <1>7, <1>8, <1>9, <1>10

\* A message is about to be dropped.
LEMMA DropPreserves ==
  ASSUME IInv, NEW c \in Conns, Live(c), step[c] \in {"lookup", "save"}, GoTo(c, "discard"),
         cur[c] \in Text => shown[cur[c]] > 0,
         UNCHANGED <<server, link, acks, holder, stored, reflected, receipts>>
  PROVE  IInv'
<1> USE DEF IInv
<1>1. /\ cur' = cur /\ step' = [step EXCEPT ![c] = "discard"]
      /\ UNCHANGED <<sent, delivered, conn, net, inbound, acks, holder, nonces, shown, handled,
                     reflected, receipts>>
  BY DEF GoTo, server, link, stored
<1>2. TypeOK'
  BY <1>1 DEF TypeOK, Step
<1>3. OldTasksEnd'
  BY <1>1 DEF OldTasksEnd, Live, TypeOK
<1>4. KindFits' /\ Stored'
  BY <1>1 DEF KindFits, Stored, TypeOK
<1>5. Reached'
  <2>1. step[c] = "lookup" => holder[cur[c]] # c
    <3>1. cur[c] \in Message
      BY DEF TypeOK
    <3> QED
      BY <3>1 DEF GuardHasOwner, Processing
  <2>2. step[c] = "save" => cur[c] \in handled
    BY DEF KindFits, Stored
  <2> QED
    BY <1>1, <2>1, <2>2 DEF Reached, TypeOK
<1>6. WasSent' /\ UpcomingInOrder' /\ ShownInOrder'
  BY <1>1 DEF WasSent, UpcomingInOrder, ShownInOrder, Before
<1>7. NothingLost' /\ ShownOnce' /\ CommittedIsHandled'
  BY <1>1 DEF NothingLost, ShownOnce, CommittedIsHandled
<1>8. GuardHasOwner'
  <2> SUFFICES ASSUME NEW m \in Message, NEW d \in Conns
               PROVE  holder[m] = d <=>
                        /\ cur[d] = m
                        /\ step'[d] \in Processing \/ (step'[d] = "discard" /\ holder[m] = d)
    BY <1>1 DEF GuardHasOwner
  <2>1. CASE d = c
    <3>1. step'[c] = "discard" /\ "discard" \notin Processing
      BY <1>1 DEF TypeOK, Processing
    <3>2. holder[m] = c => cur[c] = m
      BY DEF GuardHasOwner
    <3> QED
      BY <2>1, <3>1, <3>2
  <2>2. CASE d # c
    <3>1. step'[d] = step[d]
      BY <1>1, <2>2 DEF TypeOK
    <3> QED
      BY <3>1 DEF GuardHasOwner
  <2> QED
    BY <2>1, <2>2
<1> QED
  BY <1>2, <1>3, <1>4, <1>5, <1>6, <1>7, <1>8

\* A task that has a guard does one thing for its message and keeps the guard.
LEMMA WorkPreserves ==
  ASSUME IInv, NEW c \in Conns, Live(c), step[c] \in Processing \ {"commit"},
         cur' = cur, step' \in [Conns -> Step], step'[c] \in Processing,
         \A d \in Conns \ {c} : step'[d] = step[d],
         KindFits',
         UNCHANGED <<server, link, holder, nonces>>,
         receipts' \in SUBSET Text,
         reflected \subseteq reflected', reflected' \in SUBSET Message,
         handled \subseteq handled', handled' \in SUBSET Message,
         \/ shown' = shown
         \/ /\ step[c] = "save" /\ shown[cur[c]] = 0
            /\ shown' = [shown EXCEPT ![cur[c]] = @ + 1] /\ cur[c] \in handled',
         acks' = acks \/ (step[c] = "ack" /\ acks' = acks \union {cur[c]}),
         cur[c] \in Text /\ step'[c] \in {"reflectAck", "save"} => cur[c] \in reflected',
         step'[c] \in {"ack", "receipt", "commit"} =>
            cur[c] \in handled' /\ (cur[c] \in Text => shown'[cur[c]] > 0)
  PROVE  IInv'
<1> USE DEF IInv
<1>1. UNCHANGED <<sent, delivered, conn, net, inbound, holder, nonces>>
  BY DEF server, link
<1>2. cur[c] \in Message
  BY DEF TypeOK, Processing
<1>3. /\ shown' \in [Message -> Nat]
      /\ \A m \in Message : shown[m] > 0 => shown'[m] > 0
      /\ \A m \in Message : shown'[m] > 0 => shown[m] > 0 \/ (m = cur[c] /\ step[c] = "save")
  <2>0. shown \in [Message -> Nat]
    BY DEF TypeOK
  <2>1. CASE shown' = shown
    BY <2>0, <2>1
  <2>2. CASE step[c] = "save" /\ shown[cur[c]] = 0 /\ shown' = [shown EXCEPT ![cur[c]] = @ + 1]
    <3>1. \A m \in Message : shown'[m] = IF m = cur[c] THEN 1 ELSE shown[m]
      BY <1>2, <2>0, <2>2
    <3>2. shown' \in [Message -> Nat]
      BY <1>2, <2>0, <2>2
    <3>3. \A m \in Message : shown[m] \in Nat
      BY <2>0
    <3> QED
      BY <2>2, <3>1, <3>2, <3>3
  <2> QED
    BY <2>1, <2>2
<1>4. TypeOK'
  <2>1. acks' \subseteq Message
    BY <1>2 DEF TypeOK
  <2>2. \A d \in Conns : cur'[d] = NoMessage <=> step'[d] \in {"none", "idle", "exited"}
    BY <1>2 DEF TypeOK, Processing
  <2> QED
    BY <1>1, <1>3, <2>1, <2>2 DEF TypeOK
<1>5. OldTasksEnd'
  BY <1>1 DEF OldTasksEnd, Live, TypeOK
<1>6. Stored'
  <2>1. ASSUME NEW m \in Text, shown'[m] > 0 PROVE m \in handled'
    BY <2>1, <1>2 DEF Stored, TypeOK
  <2>2. ASSUME NEW m \in Text, m \in nonces' PROVE shown'[m] > 0
    BY <2>2, <1>1, <1>3 DEF Stored
  <2> QED
    BY <2>1, <2>2 DEF Stored
<1>7. Reached'
  <2> SUFFICES ASSUME NEW d \in Conns PROVE
        /\ cur[d] \in Text /\ step'[d] \in {"reflectAck", "save"} => cur[d] \in reflected'
        /\ cur[d] \in Text /\ step'[d] \in {"ack", "receipt", "commit", "discard"} => shown'[cur[d]] > 0
        /\ step'[d] \in {"ack", "receipt", "commit"} => cur[d] \in handled'
        /\ step'[d] = "discard" /\ holder'[cur[d]] = d => cur[d] \in handled'
    BY DEF Reached
  <2>1. CASE d = c
    BY <2>1 DEF Processing
  <2>2. CASE d # c
    <3>1. step'[d] = step[d]
      BY <2>2
    <3> QED
      BY <1>1, <1>3, <3>1 DEF Reached
  <2> QED
    BY <2>1, <2>2
<1>8. WasSent'
  BY <1>1, <1>2, <1>3 DEF WasSent
<1>9. UpcomingInOrder'
  BY <1>1, <1>3 DEF UpcomingInOrder, Before
<1>10. NothingLost'
  <2>1. ASSUME NEW m \in Text, m \in delivered' \union acks' PROVE shown'[m] > 0
    <3>1. step[c] = "ack" /\ cur[c] \in Text => shown[cur[c]] > 0
      BY DEF Reached
    <3> QED
      BY <1>1, <1>3, <2>1, <3>1 DEF NothingLost
  <2>2. ASSUME NEW m \in Text, shown'[m] > 0 PROVE m \in reflected'
    <3>1. step[c] = "save" /\ cur[c] \in Text => cur[c] \in reflected
      BY DEF Reached
    <3> QED
      BY <1>3, <2>2, <3>1 DEF NothingLost
  <2> QED
    BY <2>1, <2>2 DEF NothingLost
<1>11. ShownOnce'
  BY <1>2 DEF ShownOnce, TypeOK
\* An older text is neither upcoming nor this one, so it is shown.
<1>12. ShownInOrder'
  <2> SUFFICES ASSUME NEW m \in Text, NEW n \in Text, Before(m, n), shown'[n] > 0
               PROVE  shown'[m] > 0
    BY <1>1 DEF ShownInOrder, Before
  <2>1. CASE shown[n] > 0
    BY <1>3, <2>1 DEF ShownInOrder
  <2>2. CASE n = cur[c]
    <3>1. m \in Range(sent)
      BY DEF Before, Range
    <3>2. net = "up" /\ c = conn
      BY DEF Live
    <3>3. ~Before(n, m)
      BY BeforeIsStrict DEF TypeOK, WasSent
    <3>4. m # n
      BY <3>3
    <3>5. m \notin inbound
      BY <1>2, <2>2, <3>2, <3>3 DEF UpcomingInOrder
    <3> QED
      BY <1>3, <2>2, <3>1, <3>2, <3>4, <3>5 DEF UpcomingInOrder
  <2> QED
    BY <1>3, <2>1, <2>2
<1>13. GuardHasOwner'
  <2> SUFFICES ASSUME NEW m \in Message, NEW d \in Conns
               PROVE  holder[m] = d <=>
                        /\ cur[d] = m
                        /\ step'[d] \in Processing \/ (step'[d] = "discard" /\ holder[m] = d)
    BY <1>1 DEF GuardHasOwner
  <2> QED
    BY DEF GuardHasOwner
<1>14. CommittedIsHandled'
  BY <1>1 DEF CommittedIsHandled
<1> QED
  BY <1>4, <1>5, <1>6, <1>7, <1>8, <1>9, <1>10, <1>11, <1>12, <1>13, <1>14

\* A task at work has the guard of its message; what the steps record.
LEMMA WorkingPreserves ==
  ASSUME IInv, NEW c \in Conns,
         \/ Reflect(c) \/ ReflectAcked(c) \/ Fetched(c) \/ SkipPicture(c)
         \/ (Save(c) /\ shown[cur[c]] = 0)
         \/ Apply(c) \/ Acknowledge(c) \/ SendReceipt(c)
  PROVE  IInv'
<1> USE DEF IInv
<1>1. CASE SkipPicture(c)
  <2>1. /\ Live(c) /\ step[c] = "fetch" /\ cur[c] \in Picture
        /\ cur' = cur /\ step' = [step EXCEPT ![c] = "ack"]
        /\ handled' = handled \union {cur[c]}
        /\ UNCHANGED <<server, link, acks, holder, nonces, shown, reflected, receipts>>
    BY <1>1 DEF SkipPicture, At, GoTo
  <2>2. cur[c] \notin Text
    BY <2>1, MessageAssumption
  <2>3. step' \in [Conns -> Step] /\ KindFits'
    BY <2>1, <2>2 DEF TypeOK, Step, Processing, KindFits
  <2> QED
    BY <2>1, <2>2, <2>3, WorkPreserves DEF TypeOK, Processing
<1>2. CASE \/ Reflect(c) \/ ReflectAcked(c) \/ Fetched(c)
           \/ (Save(c) /\ shown[cur[c]] = 0)
           \/ Apply(c) \/ Acknowledge(c) \/ SendReceipt(c)
  <2>1. Live(c) /\ Proceed(c) /\ step[c] \in Processing \ {"commit"}
    BY <1>2 DEF Reflect, ReflectAcked, Fetched, Save, Apply, Acknowledge, SendReceipt, At,
                Processing, TypeOK
  <2>2. step[c] \in Working
    BY <2>1 DEF Working
  <2>3. cur[c] \in Message
    BY <2>1 DEF TypeOK, Processing
  <2>4. UNCHANGED <<server, link, holder, nonces>>
    BY <1>2 DEF Reflect, ReflectAcked, Fetched, Save, Apply, Acknowledge, SendReceipt, stored
  <2>5. /\ receipts' \in SUBSET Text
        /\ reflected \subseteq reflected' /\ reflected' \in SUBSET Message
        /\ handled \subseteq handled' /\ handled' \in SUBSET Message
    <3>1. step[c] = "receipt" => cur[c] \in Text
      BY DEF KindFits
    <3> QED
      BY <1>2, <2>3, <3>1 DEF Reflect, ReflectAcked, Fetched, Save, Apply, Acknowledge, SendReceipt,
                              At, stored, TypeOK
  <2>6. \/ shown' = shown
        \/ /\ step[c] = "save" /\ shown[cur[c]] = 0
           /\ shown' = [shown EXCEPT ![cur[c]] = @ + 1] /\ cur[c] \in handled'
    BY <1>2 DEF Reflect, ReflectAcked, Fetched, Save, Apply, Acknowledge, SendReceipt, At, stored
  <2>7. acks' = acks \/ (step[c] = "ack" /\ acks' = acks \union {cur[c]})
    BY <1>2 DEF Reflect, ReflectAcked, Fetched, Save, Apply, Acknowledge, SendReceipt, At
  <2>8. /\ step[c] = "reflect" => cur[c] \in reflected'
        /\ step[c] \in {"save", "apply"} => cur[c] \in handled'
        /\ step[c] = "save" => shown'[cur[c]] > 0
    BY <1>2, <2>3 DEF Reflect, ReflectAcked, Fetched, Save, Apply, Acknowledge, SendReceipt, At,
                      TypeOK
  <2>9. cur[c] \in Text /\ step'[c] \in {"reflectAck", "save"} => cur[c] \in reflected'
    BY <2>1, <2>2, <2>5, <2>8, ProceedLemma DEF Reached
  <2>10. step'[c] \in {"ack", "receipt", "commit"} => cur[c] \in handled'
    BY <2>1, <2>2, <2>5, <2>8, ProceedLemma DEF Reached
  <2>11. step'[c] \in {"ack", "receipt", "commit"} /\ cur[c] \in Text => shown'[cur[c]] > 0
    <3>1. step[c] \in {"ack", "receipt"} /\ cur[c] \in Text => shown[cur[c]] > 0
      BY DEF Reached
    <3>2. cur[c] \in Text => step[c] # "apply"
      BY DEF KindFits
    <3> QED
      BY <2>1, <2>2, <2>6, <2>8, <3>1, <3>2, ProceedLemma
  <2>12. /\ cur' = cur /\ step' \in [Conns -> Step] /\ step'[c] \in Processing
         /\ \A d \in Conns \ {c} : step'[d] = step[d]
         /\ KindFits'
    BY <2>1, <2>2, ProceedLemma
  <2> QED
    BY <2>1, <2>4, <2>5, <2>6, <2>7, <2>9, <2>10, <2>11, <2>12, WorkPreserves
<1> QED
  BY <1>1, <1>2

\* A dropped message is acknowledged; if it is a text, it is shown.
LEMMA DiscardPreserves ==
  ASSUME IInv, NEW c \in Conns, Discard(c)
  PROVE  IInv'
<1> USE DEF IInv
<1>1. /\ Live(c) /\ step[c] = "discard"
      /\ acks' = acks \union {cur[c]}
      /\ UNCHANGED <<sent, delivered, conn, net, inbound, holder, nonces, shown, handled,
                     reflected, receipts>>
  BY DEF Discard, At, server, link, stored
<1>2. cur[c] \in Message /\ cur[c] # NoMessage
  BY <1>1, MessageAssumption DEF TypeOK
<1>3. \/ /\ holder[cur[c]] = c
         /\ cur' = cur /\ step' = [step EXCEPT ![c] = "commit"]
      \/ /\ holder[cur[c]] # c
         /\ cur' = [cur EXCEPT ![c] = NoMessage] /\ step' = [step EXCEPT ![c] = "idle"]
  BY DEF Discard, GoTo
<1>4. TypeOK'
  <2>1. step' \in [Conns -> Step] /\ cur' \in [Conns -> Message \union {NoMessage}]
    BY <1>3 DEF TypeOK, Step, Processing
  <2>2. \A d \in Conns : cur'[d] = NoMessage <=> step'[d] \in {"none", "idle", "exited"}
    BY <1>2, <1>3 DEF TypeOK
  <2> QED
    BY <1>1, <1>2, <2>1, <2>2 DEF TypeOK
<1>5. OldTasksEnd'
  BY <1>1, <1>3 DEF OldTasksEnd, Live, TypeOK
<1>6. KindFits' /\ Stored'
  <2>1. KindFits'
    BY <1>1, <1>3, MessageAssumption DEF KindFits, TypeOK
  <2>2. Stored'
    BY <1>1 DEF Stored
  <2> QED
    BY <2>1, <2>2
<1>7. cur[c] \in Text => shown[cur[c]] > 0
  BY <1>1 DEF Reached
<1>8. Reached'
  <2> SUFFICES ASSUME NEW d \in Conns PROVE
        /\ cur'[d] \in Text /\ step'[d] \in {"reflectAck", "save"} => cur'[d] \in reflected
        /\ cur'[d] \in Text /\ step'[d] \in {"ack", "receipt", "commit", "discard"} => shown[cur'[d]] > 0
        /\ step'[d] \in {"ack", "receipt", "commit"} => cur'[d] \in handled
        /\ step'[d] = "discard" /\ holder[cur'[d]] = d => cur'[d] \in handled
    BY <1>1 DEF Reached
  <2>1. CASE d = c
    <3>1. holder[cur[c]] = c => cur[c] \in handled
      BY <1>1 DEF Reached
    <3>2. step'[c] \in {"commit", "idle"} /\ (step'[c] = "commit" => cur' = cur /\ holder[cur[c]] = c)
      BY <1>3 DEF TypeOK
    <3> QED
      BY <1>7, <2>1, <3>1, <3>2
  <2>2. CASE d # c
    <3>1. step'[d] = step[d] /\ cur'[d] = cur[d]
      BY <1>3, <2>2 DEF TypeOK
    <3> QED
      BY <3>1 DEF Reached
  <2> QED
    BY <2>1, <2>2
<1>9. WasSent' /\ ShownInOrder'
  <2>1. ShownInOrder'
    BY <1>1 DEF ShownInOrder, Before
  <2>2. inbound' \union acks' \subseteq Range(sent')
    BY <1>1, <1>2 DEF WasSent
  <2>3. ASSUME NEW d \in Conns, cur'[d] \in Message PROVE cur'[d] \in Range(sent')
    <3>1. cur'[d] \in {cur[d], NoMessage}
      BY <1>3 DEF TypeOK
    <3> QED
      BY <1>1, <2>3, <3>1, MessageAssumption DEF WasSent
  <2>4. IsInjective(sent') /\ \A m \in Text : shown'[m] > 0 => m \in Range(sent')
    BY <1>1 DEF WasSent
  <2> QED
    BY <2>1, <2>2, <2>3, <2>4 DEF WasSent
<1>10. UpcomingInOrder'
  BY <1>1, <1>3, <1>7, MessageAssumption DEF UpcomingInOrder, Before, Live, TypeOK
<1>11. NothingLost' /\ ShownOnce' /\ CommittedIsHandled'
  BY <1>1, <1>7 DEF NothingLost, ShownOnce, CommittedIsHandled
<1>12. GuardHasOwner'
  <2> SUFFICES ASSUME NEW m \in Message, NEW d \in Conns
               PROVE  holder[m] = d <=>
                        /\ cur'[d] = m
                        /\ step'[d] \in Processing \/ (step'[d] = "discard" /\ holder[m] = d)
    BY <1>1 DEF GuardHasOwner
  <2>1. CASE d = c
    <3>1. holder[m] = c => cur[c] = m
      BY DEF GuardHasOwner
    <3> QED
      BY <1>2, <1>3, <2>1, <3>1, MessageAssumption DEF TypeOK, Processing
  <2>2. CASE d # c
    <3>1. step'[d] = step[d] /\ cur'[d] = cur[d]
      BY <1>3, <2>2 DEF TypeOK
    <3> QED
      BY <3>1 DEF GuardHasOwner
  <2> QED
    BY <2>1, <2>2
<1> QED
  BY <1>4, <1>5, <1>6, <1>8, <1>9, <1>10, <1>11, <1>12

\* The nonce moves from memory into the database.
LEMMA CommitNoncePreserves ==
  ASSUME IInv, NEW c \in Conns, CommitNonce(c)
  PROVE  IInv'
<1> USE DEF IInv
<1>1. /\ step[c] = "commit"
      /\ nonces' = nonces \union {cur[c]}
      /\ holder' = [holder EXCEPT ![cur[c]] = 0]
      /\ cur' = [cur EXCEPT ![c] = NoMessage]
      /\ step' = [step EXCEPT ![c] = IF Live(c) THEN "idle" ELSE "exited"]
      /\ UNCHANGED <<sent, delivered, conn, net, inbound, acks, shown, handled,
                     reflected, receipts>>
  BY DEF CommitNonce, server, link
<1>2. cur[c] \in Message /\ holder[cur[c]] = c /\ c # 0
  <2>1. cur[c] \in Message
    BY <1>1 DEF TypeOK
  <2> QED
    BY <1>1, <2>1 DEF GuardHasOwner, Processing
<1>3. cur[c] \in handled /\ (cur[c] \in Text => shown[cur[c]] > 0)
  BY <1>1 DEF Reached
<1>4. TypeOK'
  <2>1. step' \in [Conns -> Step] /\ cur' \in [Conns -> Message \union {NoMessage}]
    BY <1>1 DEF TypeOK, Step
  <2>2. \A d \in Conns : cur'[d] = NoMessage <=> step'[d] \in {"none", "idle", "exited"}
    BY <1>1 DEF TypeOK
  <2>3. holder' \in [Message -> 0..conn]
    BY <1>1 DEF TypeOK
  <2> QED
    BY <1>1, <1>2, <2>1, <2>2, <2>3 DEF TypeOK
<1>5. OldTasksEnd'
  BY <1>1 DEF OldTasksEnd, Live, TypeOK
<1>6. KindFits' /\ Stored'
  BY <1>1, <1>3, MessageAssumption DEF KindFits, Stored, TypeOK
<1>7. Reached'
  <2> SUFFICES ASSUME NEW d \in Conns, d # c PROVE
        /\ cur'[d] \in Text /\ step'[d] \in {"reflectAck", "save"} => cur'[d] \in reflected
        /\ cur'[d] \in Text /\ step'[d] \in {"ack", "receipt", "commit", "discard"} => shown[cur'[d]] > 0
        /\ step'[d] \in {"ack", "receipt", "commit"} => cur'[d] \in handled
        /\ step'[d] = "discard" /\ holder'[cur'[d]] = d => cur'[d] \in handled
    BY <1>1, MessageAssumption DEF Reached, TypeOK
  <2>1. cur'[d] = cur[d] /\ step'[d] = step[d]
    BY <1>1 DEF TypeOK
  <2>2. step[d] = "discard" => cur[d] \in Message
    BY DEF TypeOK
  <2>3. step[d] = "discard" /\ holder'[cur[d]] = d => holder[cur[d]] = d
    BY <1>1, <2>2 DEF TypeOK
  <2> QED
    BY <2>1, <2>3 DEF Reached
<1>8. WasSent' /\ ShownInOrder'
  BY <1>1, MessageAssumption DEF WasSent, ShownInOrder, Before, TypeOK
<1>9. UpcomingInOrder'
  BY <1>1, <1>3, MessageAssumption DEF UpcomingInOrder, Before, TypeOK
<1>10. NothingLost' /\ ShownOnce' /\ CommittedIsHandled'
  BY <1>1, <1>3 DEF NothingLost, ShownOnce, CommittedIsHandled
<1>11. GuardHasOwner'
  <2> SUFFICES ASSUME NEW m \in Message, NEW d \in Conns
               PROVE  holder'[m] = d <=>
                        /\ cur'[d] = m
                        /\ step'[d] \in Processing \/ (step'[d] = "discard" /\ holder'[m] = d)
    BY DEF GuardHasOwner
  <2>1. CASE d = c
    <3>1. cur'[c] # m
      BY <1>1, MessageAssumption DEF TypeOK
    <3>2. holder[m] = c => m = cur[c]
      BY DEF GuardHasOwner
    <3>3. holder'[m] # c
      BY <1>1, <1>2, <3>2 DEF TypeOK
    <3> QED
      BY <2>1, <3>1, <3>3
  <2>2. CASE d # c
    <3>1. step'[d] = step[d] /\ cur'[d] = cur[d]
      BY <1>1, <2>2 DEF TypeOK
    <3>2. holder'[m] = d <=> holder[m] = d
      BY <1>1, <1>2, <2>2 DEF TypeOK
    <3> QED
      BY <3>1, <3>2 DEF GuardHasOwner
  <2> QED
    BY <2>1, <2>2
<1> QED
  BY <1>4, <1>5, <1>6, <1>7, <1>8, <1>9, <1>10, <1>11

-----------------------------------------------------------------------------

\* The inductive invariant holds in every behaviour.
THEOREM Invariance == Spec => []IInv
<1>1. IInv /\ [Next]_vars => IInv'
  <2> SUFFICES ASSUME IInv, [Next]_vars PROVE IInv'
    OBVIOUS
  <2>1. ASSUME NEW m \in Message, Arrive(m) \/ AckArrives(m) PROVE IInv'
    BY <2>1, ArrivePreserves, AckArrivesPreserves
  <2>2. CASE Connect
    BY <2>2, ConnectPreserves
  <2>3. CASE Lose \/ Crash \/ \E c \in Conns : RequestFails(c)
    BY <2>3, FailurePreserves
  <2>4. ASSUME NEW c \in Conns, TaskStep(c) PROVE IInv'
    <3>1. CASE TakeMessage(c)
      BY <3>1, TakeMessagePreserves
    <3>2. CASE Decrypt(c)
      <4>1. CASE Used(cur[c])
        BY <3>2, <4>1, UsedIsShown, DropPreserves DEF Decrypt, At
      <4>2. CASE ~Used(cur[c])
        BY <3>2, <4>2, RegisterPreserves
      <4> QED
        BY <4>1, <4>2
    <3>3. CASE Save(c)
      <4>1. CASE shown[cur[c]] > 0
        BY <3>3, <4>1, DropPreserves DEF Save, At, stored
      <4>2. CASE ~(shown[cur[c]] > 0)
        <5>1. cur[c] \in Message
          BY <3>3 DEF Save, At, IInv, TypeOK
        <5>2. shown[cur[c]] = 0
          BY <4>2, <5>1 DEF IInv, TypeOK
        <5> QED
          BY <3>3, <5>2, WorkingPreserves
      <4> QED
        BY <4>1, <4>2
    <3>4. CASE \/ Reflect(c) \/ ReflectAcked(c) \/ Fetched(c) \/ SkipPicture(c)
               \/ Apply(c) \/ Acknowledge(c) \/ SendReceipt(c)
      BY <3>4, WorkingPreserves
    <3>5. CASE Discard(c) \/ CommitNonce(c) \/ EndStale(c)
      BY <3>5, DiscardPreserves, CommitNoncePreserves, EndStalePreserves
    <3> QED
      BY <2>4, <3>1, <3>2, <3>3, <3>4, <3>5 DEF TaskStep
  <2>5. CASE UNCHANGED vars
    <3> USE <2>5 DEF vars, server, link, task, stored, IInv
    <3>1. TypeOK'
      BY DEF TypeOK
    <3>2. OldTasksEnd' /\ KindFits' /\ Reached' /\ Stored'
      BY DEF OldTasksEnd, Live, KindFits, Reached, Stored
    <3>3. WasSent' /\ UpcomingInOrder' /\ ShownInOrder'
      BY DEF WasSent, UpcomingInOrder, Before, ShownInOrder
    <3>4. NothingLost' /\ ShownOnce' /\ GuardHasOwner' /\ CommittedIsHandled'
      BY DEF NothingLost, ShownOnce, GuardHasOwner, CommittedIsHandled
    <3> QED
      BY <3>1, <3>2, <3>3, <3>4
  <2> QED
    BY <2>1, <2>2, <2>3, <2>4, <2>5 DEF Next
<1> QED
  BY InitInvariant, <1>1, PTL DEF Spec

\* Type correctness (IncomingMessage).
THEOREM TypeCorrect == Spec => []TypeOK
<1>1. IInv => TypeOK
  BY DEF IInv
<1> QED
  BY Invariance, <1>1, PTL

\* A text that the server has discarded is in its conversation and on the other
\* devices (reflect, then save, then acknowledge in IncomingMessageTask.run).
THEOREM NoTextIsLost == Spec => []NothingLost
<1>1. IInv => NothingLost
  BY DEF IInv
<1> QED
  BY Invariance, <1>1, PTL

\* No text is added twice, and none overtakes an older one (the conversation is
\* asked whether it has the message; one loop per connection).
THEOREM ConversationIsRight == Spec => [](ShownOnce /\ ShownInOrder)
<1>1. IInv => ShownOnce /\ ShownInOrder
  BY DEF IInv
<1> QED
  BY Invariance, <1>1, PTL

\* Every registered nonce has one owner, whatever ends (NonceGuard).
THEOREM NoGuardIsLeft == Spec => []GuardHasOwner
<1>1. IInv => GuardHasOwner
  BY DEF IInv
<1> QED
  BY Invariance, <1>1, PTL

\* A committed nonce stands for a message that was handled (commit).
THEOREM CommitsAreDue == Spec => []CommittedIsHandled
<1>1. IInv => CommittedIsHandled
  BY DEF IInv
<1> QED
  BY Invariance, <1>1, PTL
-----------------------------------------------------------------------------
(* What it promises *)

LEMMA InitMapped == Init => Promise!Init
BY DEF Init, Promise!Init

\* Only four actions show outside.
LEMMA StepMapped == IInv /\ [Next]_vars => [Promise!Next]_Promise!vars
<1> SUFFICES ASSUME IInv, [Next]_vars,
                    ~UNCHANGED <<sent, reflected, shown, delivered>>
             PROVE  Promise!Next
  BY DEF Promise!vars
<1> USE DEF IInv
<1>1. PICK m \in Message : \/ Arrive(m) \/ AckArrives(m)
                           \/ \E c \in Conns : cur[c] = m /\ (Reflect(c) \/ Save(c))
  <2>1. ASSUME NEW c \in Conns, TaskStep(c)
        PROVE  (Reflect(c) \/ Save(c)) /\ cur[c] \in Message
    <3>1. Reflect(c) \/ Save(c)
      BY <2>1 DEF TaskStep, TakeMessage, Decrypt, ReflectAcked, Fetched, SkipPicture, Apply,
                  Acknowledge, Discard, SendReceipt, CommitNonce, EndStale, server, stored
    <3>2. step[c] \in {"reflect", "save"}
      BY <3>1 DEF Reflect, Save, At
    <3> QED
      BY <3>1, <3>2 DEF TypeOK
  <2>2. ~(Connect \/ Lose \/ Crash \/ UNCHANGED vars \/ \E c \in Conns : RequestFails(c))
    BY DEF Connect, Lose, Crash, RequestFails, GoDown, vars, server, stored
  <2> QED
    BY <2>1, <2>2 DEF Next
<1>2. CASE Arrive(m)
  <2>1. Promise!Arrive(m)
    BY <1>2 DEF Arrive, stored, Promise!Arrive, Range, Promise!Range
  <2> QED
    BY <2>1 DEF Promise!Next
<1>3. CASE AckArrives(m)
  <2>1. m \in Range(sent)
    BY <1>3 DEF AckArrives, WasSent
  <2>2. m \in Text => shown[m] = 1
    BY <1>3 DEF AckArrives, NothingLost, ShownOnce, TypeOK
  <2>3. Promise!Forget(m)
    BY <1>3, <2>1, <2>2 DEF AckArrives, stored, Promise!Forget, Range, Promise!Range
  <2> QED
    BY <2>3 DEF Promise!Next
<1>4. ASSUME NEW c \in Conns, cur[c] = m, Reflect(c) PROVE Promise!Next
  <2>1. m \in Range(sent)
    BY <1>4 DEF WasSent
  <2>2. Promise!Reflect(m)
    BY <1>4, <2>1 DEF Reflect, server, stored, Promise!Reflect, Range, Promise!Range
  <2> QED
    BY <2>2 DEF Promise!Next
<1>5. ASSUME NEW c \in Conns, cur[c] = m, Save(c) PROVE Promise!Next
  <2>1. /\ net = "up" /\ c = conn /\ step[c] = "save"
        /\ shown[m] = 0 /\ shown' = [shown EXCEPT ![m] = 1]
        /\ UNCHANGED <<sent, delivered, reflected>>
    <3>1. shown[m] \in Nat /\ ~(shown[m] > 0)
      BY <1>5 DEF Save, server, TypeOK
    <3> QED
      BY <1>5, <3>1 DEF Save, At, Live, server
  <2>2. m \in Text /\ m \in Range(sent) /\ m \in reflected
    BY <1>5, <2>1 DEF KindFits, WasSent, Reached
  \* What is older is neither to come nor in process.
  <2>3. ASSUME NEW n \in Text, Before(n, m) PROVE shown[n] = 1
    <3>1. n \in Range(sent)
      BY <2>3 DEF Before, Range
    <3>2. ~Before(m, n) /\ n # m
      BY <2>3, BeforeIsStrict DEF WasSent, TypeOK
    <3>3. shown[n] > 0
      BY <1>5, <2>1, <2>2, <3>1, <3>2 DEF UpcomingInOrder
    <3> QED
      BY <3>3 DEF ShownOnce, TypeOK
  <2>4. \A n \in Text : Promise!Before(n, m) => shown[n] = 1
    BY <2>3 DEF Before, Promise!Before
  <2>5. Promise!Show(m)
    BY <2>1, <2>2, <2>4 DEF Promise!Show, Range, Promise!Range
  <2> QED
    BY <2>5 DEF Promise!Next
<1> QED
  BY <1>1, <1>2, <1>3, <1>4, <1>5

\* Seen from outside the path of incoming messages is a mailbox
\* (IncomingMessageTask.run with the NonceRegistry and the loop that runs it).
THEOREM MailboxImplemented == Spec => ImplementsMailbox
<1>1. Spec => []IInv
  BY Invariance
<1> QED
  BY <1>1, InitMapped, StepMapped, PTL DEF Spec, ImplementsMailbox, Promise!Spec
=============================================================================
