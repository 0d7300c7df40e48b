--------------------------- MODULE ConnectionProofs ---------------------------
(***************************************************************************)
(* Proofs about a connection, for any tasks and any bounds: Handshake, how *)
(* it opens, and Connection, how it closes and what the manager does.      *)
(*                                                                         *)
(* Handshake.  The chat server decrypts a frame if its number is the next  *)
(* one.  Until it has the login the client has sent nothing but what the   *)
(* handshake calls for; from then on the frames under way have all numbers *)
(* from the one the server waits for up to the one the client took last,   *)
(* in this order, with the frames for the mediator server in between.      *)
(* The reflection queue comes first since the mediator says that it is dry *)
(* behind its last message, and the chat server is unblocked only by a     *)
(* leader, which the client becomes once the queue is dry.                 *)
(*                                                                         *)
(* Connection.  While the inbound pipeline is open, each close-error is    *)
(* handled or still under way to layer 4; if it settles with frames left,  *)
(* a codec threw, the event was a local one or is raised as an error now.  *)
(* A part that moves is to the manager the failure of the tasks, a close   *)
(* or nothing: what is proved of ConnectionManager holds of Connection.    *)
(***************************************************************************)
EXTENDS Handshake, Connection, FiniteSetTheorems, TLAPS

CspType == [state : {"client-hello", "server-hello", "login-ack", "complete"},
            csn : Nat, ssn : Nat]

\* What is under way to the client tells how far the chat server is.
DownFits ==
    \A i \in DOMAIN down : down[i].to = "csp" =>
        /\ chat.state # "hello"
        /\ down[i].kind = "login-ack" => chat.state = "ready"

\* The two ends of the handshake are at most one message apart.
StatesFit ==
    /\ chat.state = "hello" => csp.state \in {"client-hello", "server-hello"}
    /\ chat.state = "login" => csp.state \in {"server-hello", "login-ack"}
    /\ chat.state = "ready" => csp.state \in {"login-ack", "complete"}
    /\ csp.state \in {"client-hello", "server-hello"} => csp.csn = 0
    /\ csp.state = "login-ack" => csp.csn = 2

\* The frame of the handshake that may be under way to the chat server.
HelloFits ==
    /\ chat.state = "hello" => \A i \in DOMAIN up : up[i].to = "csp" =>
            csp.state = "server-hello" /\ up[i].kind = "client-hello" /\ up[i].n = 0
    /\ chat.state = "login" => \A i \in DOMAIN up : up[i].to = "csp" =>
            csp.state = "login-ack" /\ up[i].kind = "login" /\ up[i].n = 1
    /\ chat.state # "ready" => \A i, j \in DOMAIN up :
            up[i].to = "csp" /\ up[j].to = "csp" => i = j

\* After the login all numbers are under way, in order.
InOrder ==
    chat.state = "ready" =>
        /\ chat.csn \in Nat /\ chat.csn >= 2 /\ csp.csn >= chat.csn
        /\ \A i \in DOMAIN up : up[i].to = "csp" =>
              /\ up[i].kind \in {"payload", "unblock"}
              /\ chat.csn < up[i].n /\ up[i].n <= csp.csn
        /\ \A i, j \in DOMAIN up : up[i].to = "csp" /\ up[j].to = "csp" /\ i < j =>
              up[i].n < up[j].n
        /\ open => \A k \in chat.csn + 1 .. csp.csn :
              \E i \in DOMAIN up : up[i].to = "csp" /\ up[i].n = k

ClosedIsEmpty == ~open => up = <<>>

IInv == /\ TypeOK /\ ClosedIsEmpty /\ DownFits /\ StatesFit /\ HelloFits
        /\ InOrder /\ NoncesInStep
-----------------------------------------------------------------------------
(* Sequences of frames *)

LEMMA AppendIs ==
  ASSUME NEW s \in Seq(Frame), NEW m \in Frame
  PROVE  /\ Append(s, m) \in Seq(Frame)
         /\ Len(s) \in Nat /\ DOMAIN s = 1..Len(s)
         /\ DOMAIN Append(s, m) = 1..Len(s) + 1
         /\ \A i \in DOMAIN s : Append(s, m)[i] = s[i]
         /\ Append(s, m)[Len(s) + 1] = m
  OBVIOUS

LEMMA TailIs ==
  ASSUME NEW s \in Seq(Frame), s # <<>>
  PROVE  /\ Tail(s) \in Seq(Frame)
         /\ Head(s) \in Frame /\ Head(s) = s[1]
         /\ Len(s) \in Nat \ {0} /\ DOMAIN s = 1..Len(s)
         /\ DOMAIN Tail(s) = 1..Len(s) - 1
         /\ \A i \in DOMAIN Tail(s) : i + 1 \in DOMAIN s /\ Tail(s)[i] = s[i + 1]
  OBVIOUS

LEMMA Frames ==
  /\ \A kind \in CspKind, n \in Nat : Csp(kind, n) \in Frame /\ Csp(kind, n).to = "csp"
                                     /\ Csp(kind, n).kind = kind /\ Csp(kind, n).n = n
  /\ \A kind \in D2mKind : D2m(kind) \in Frame /\ D2m(kind).to = "d2m" /\ D2m(kind).kind = kind
BY DEF Csp, D2m, Frame

\* The invariant holds initially.
THEOREM InitInvariant == Init => IInv
<1> SUFFICES ASSUME Init PROVE IInv
  OBVIOUS
<1> USE HandshakeAssumption DEF Init
<1>1. up \in Seq(Frame) /\ down \in Seq(Frame)
  BY Frames DEF CspKind
<1>2. \A i \in DOMAIN up : up[i].to = "csp" =>
         i = 1 /\ type = "full" /\ up[i].kind = "client-hello" /\ up[i].n = 0
  BY Frames DEF CspKind
<1>3. TypeOK
  BY <1>1 DEF TypeOK, Task
<1>4. ClosedIsEmpty /\ DownFits /\ StatesFit /\ InOrder /\ NoncesInStep
  BY DEF ClosedIsEmpty, DownFits, StatesFit, InOrder, NoncesInStep
<1>5. HelloFits
  BY <1>2 DEF HelloFits
<1> QED
  BY <1>3, <1>4, <1>5 DEF IInv

-----------------------------------------------------------------------------
(* What a step may do to the frames for the chat server *)

SameChat == chat'.state = chat.state /\ chat'.csn = chat.csn /\ chat'.failed = chat.failed

\* Nothing is sent or received; the state of the client may move on.
LEMMA NothingSent ==
  ASSUME IInv, TypeOK', DownFits', StatesFit', SameChat,
         up' = up, open' = open, csp'.csn = csp.csn,
         csp'.state = csp.state \/ chat.state = "ready"
  PROVE  IInv'
<1> USE DEF IInv, SameChat
<1>1. HelloFits'
  BY DEF HelloFits
<1>2. InOrder'
  BY DEF InOrder
<1> QED
  BY <1>1, <1>2 DEF ClosedIsEmpty, NoncesInStep

\* The pipeline is closed.
LEMMA Closes ==
  ASSUME IInv, TypeOK', DownFits', StatesFit', SameChat,
         up' = <<>>, ~open', csp' = csp
  PROVE  IInv'
<1> USE DEF IInv, SameChat
<1>1. HelloFits' /\ ClosedIsEmpty'
  BY DEF HelloFits, ClosedIsEmpty
<1>2. InOrder'
  BY DEF InOrder
<1> QED
  BY <1>1, <1>2 DEF NoncesInStep

\* A frame for the mediator server is sent.
LEMMA SendsD2m ==
  ASSUME IInv, TypeOK', DownFits', StatesFit', SameChat, open, open',
         csp'.csn = csp.csn, csp'.state = csp.state,
         NEW kind \in D2mKind, up' = Append(up, D2m(kind))
  PROVE  IInv'
<1> USE DEF IInv, SameChat
<1>1. /\ Len(up) \in Nat /\ DOMAIN up = 1..Len(up) /\ DOMAIN up' = 1..Len(up) + 1
      /\ \A i \in DOMAIN up : up'[i] = up[i]
      /\ up'[Len(up) + 1].to = "d2m"
  <2>1. D2m(kind) \in Frame /\ D2m(kind).to = "d2m"
    BY Frames
  <2>2. up \in Seq(Frame)
    BY DEF TypeOK
  <2> QED
    BY <2>1, <2>2, AppendIs
<1>2. \A i \in DOMAIN up' : up'[i].to = "csp" => i \in DOMAIN up /\ up'[i] = up[i]
  BY <1>1
<1>3. HelloFits'
  BY <1>2 DEF HelloFits
<1>4. InOrder'
  BY <1>1, <1>2 DEF InOrder
<1> QED
  BY <1>3, <1>4 DEF ClosedIsEmpty, NoncesInStep

\* A frame with the next number is sent to the chat server.
LEMMA SendsCsp ==
  ASSUME IInv, TypeOK', DownFits', StatesFit', SameChat, open, open',
         csp.state = "complete", csp'.csn = csp.csn + 1, csp'.state = csp.state,
         NEW kind \in {"payload", "unblock"}, up' = Append(up, Csp(kind, csp.csn + 1))
  PROVE  IInv'
<1> USE DEF IInv, SameChat
<1>1. chat.state = "ready" /\ csp.csn \in Nat /\ kind \in CspKind
  BY DEF StatesFit, TypeOK, CspKind
<1>2. /\ Len(up) \in Nat /\ DOMAIN up = 1..Len(up) /\ DOMAIN up' = 1..Len(up) + 1
      /\ \A i \in DOMAIN up : up'[i] = up[i]
      /\ up'[Len(up) + 1].to = "csp" /\ up'[Len(up) + 1].kind = kind
      /\ up'[Len(up) + 1].n = csp.csn + 1
  <2> DEFINE f == Csp(kind, csp.csn + 1)
  <2>1. f \in Frame /\ f.to = "csp" /\ f.kind = kind /\ f.n = csp.csn + 1
    BY <1>1, Frames
  <2>2. up \in Seq(Frame) /\ up' = Append(up, f)
    BY DEF TypeOK
  <2> HIDE DEF f
  <2> QED
    BY <2>1, <2>2, AppendIs
<1>3. \A i \in DOMAIN up' : i \in DOMAIN up \/ i = Len(up) + 1
  BY <1>2
<1>4. HelloFits'
  BY <1>1 DEF HelloFits
<1>5. InOrder'
  <2>1. chat.csn \in Nat /\ chat.csn >= 2 /\ csp'.csn >= chat.csn
    BY <1>1 DEF InOrder
  <2>2. \A i \in DOMAIN up' : up'[i].to = "csp" =>
           up'[i].kind \in {"payload", "unblock"} /\ chat.csn < up'[i].n /\ up'[i].n <= csp'.csn
    <3> SUFFICES ASSUME NEW i \in DOMAIN up', up'[i].to = "csp"
                 PROVE  /\ up'[i].kind \in {"payload", "unblock"}
                        /\ chat.csn < up'[i].n /\ up'[i].n <= csp'.csn
      OBVIOUS
    <3>1. CASE i \in DOMAIN up
      <4>1. up[i] \in Frame /\ up[i].to = "csp"
        <5>1. up \in Seq(Frame)
          BY DEF TypeOK
        <5> QED
          BY <1>2, <3>1, <5>1
      <4>2. up[i].n \in Nat
        BY <4>1 DEF Frame
      <4> QED
        BY <1>1, <1>2, <3>1, <4>1, <4>2 DEF InOrder
    <3>2. CASE i = Len(up) + 1
      BY <1>1, <1>2, <3>2 DEF InOrder
    <3> QED
      BY <1>3, <3>1, <3>2
  <2>3. \A i, j \in DOMAIN up' : up'[i].to = "csp" /\ up'[j].to = "csp" /\ i < j => up'[i].n < up'[j].n
    <3> SUFFICES ASSUME NEW i \in DOMAIN up', NEW j \in DOMAIN up', i < j,
                        up'[i].to = "csp", up'[j].to = "csp"
                 PROVE  up'[i].n < up'[j].n
      OBVIOUS
    <3>1. i \in DOMAIN up /\ up'[i] = up[i]
      BY <1>2
    <3>2. CASE j \in DOMAIN up
      <4>1. up'[j] = up[j]
        BY <1>2, <3>2
      <4> QED
        BY <1>1, <3>1, <3>2, <4>1 DEF InOrder
    <3>3. CASE j = Len(up) + 1
      <4>1. up[i] \in Frame /\ up[i].to = "csp"
        <5>1. up \in Seq(Frame)
          BY DEF TypeOK
        <5> QED
          BY <3>1, <5>1
      <4>2. up[i].n \in Nat
        BY <4>1 DEF Frame
      <4>3. up[i].n <= csp.csn
        BY <1>1, <3>1, <4>1 DEF InOrder
      <4> QED
        BY <1>1, <1>2, <3>1, <3>3, <4>2, <4>3
    <3> QED
      BY <1>3, <3>2, <3>3
  <2>4. \A k \in chat.csn + 1 .. csp'.csn : \E i \in DOMAIN up' : up'[i].to = "csp" /\ up'[i].n = k
    <3> SUFFICES ASSUME NEW k \in chat.csn + 1 .. csp'.csn
                 PROVE  \E i \in DOMAIN up' : up'[i].to = "csp" /\ up'[i].n = k
      OBVIOUS
    <3>1. CASE k = csp.csn + 1
      BY <1>2, <3>1
    <3>2. CASE k # csp.csn + 1
      <4>1. k \in chat.csn + 1 .. csp.csn
        BY <1>1, <2>1, <3>2
      <4>2. PICK i \in DOMAIN up : up[i].to = "csp" /\ up[i].n = k
        BY <1>1, <4>1 DEF InOrder
      <4> QED
        BY <1>2, <4>2
    <3> QED
      BY <3>1, <3>2
  <2> QED
    BY <2>1, <2>2, <2>3, <2>4 DEF InOrder
<1> QED
  BY <1>4, <1>5 DEF ClosedIsEmpty, NoncesInStep

-----------------------------------------------------------------------------
(* Decoding *)

\* What is under way to the client only becomes less.
LEMMA Received ==
  ASSUME IInv, chat' = chat, down # <<>>, down' = Tail(down) \/ down' = <<>>
  PROVE  down' \in Seq(Frame) /\ DownFits' /\ Head(down) \in Frame /\ Head(down) = down[1]
         /\ 1 \in DOMAIN down
<1>1. down \in Seq(Frame)
  BY DEF IInv, TypeOK
<1>2. CASE down' = Tail(down)
  BY <1>1, <1>2, TailIs DEF IInv, DownFits
<1>3. CASE down' = <<>>
  BY <1>1, <1>3, TailIs DEF DownFits
<1> QED
  BY <1>2, <1>3

LEMMA ThrowStep ==
  ASSUME IInv, open, down # <<>>, Throw, down' = <<>>, UNCHANGED servers
  PROVE  IInv'
<1>1. DownFits' /\ down' \in Seq(Frame)
  BY Received DEF servers
<1>2. TypeOK'
  <2>1. up' \in Seq(Frame) /\ open' \in BOOLEAN
    <3>1. up' = <<>> /\ open' = FALSE
      BY DEF Throw
    <3>2. <<>> \in Seq(Frame)
      OBVIOUS
    <3> QED
      BY <3>1, <3>2, Zenon
  <2>2. UNCHANGED <<type, csp, d2m, conn, start, task, read, chat, med>>
    BY DEF Throw, servers
  <2> QED
    BY <1>1, <2>1, <2>2 DEF IInv, TypeOK
<1>3. StatesFit' /\ SameChat
  BY DEF IInv, StatesFit, Throw, servers, SameChat
<1> QED
  BY <1>1, <1>2, <1>3, Closes DEF Throw

LEMMA ServerHelloStep ==
  ASSUME IInv, open, open', down # <<>>, down' = Tail(down), UNCHANGED servers,
         csp.state = "server-hello", Head(down).to = "csp", HandleServerHello
  PROVE  IInv'
<1> USE DEF IInv
<1>1. DownFits' /\ down' \in Seq(Frame) /\ chat.state # "hello"
  BY Received DEF servers, DownFits
<1>2. /\ csp.csn = 0 /\ chat.state = "login" /\ chat' = chat
      /\ csp' = [csp EXCEPT !.state = "login-ack", !.ssn = @ + 1, !.csn = @ + 2]
      /\ up' = Append(up, Csp("login", 1))
      /\ Csp("login", 1) \in Frame /\ Csp("login", 1).to = "csp"
      /\ Csp("login", 1).kind = "login" /\ Csp("login", 1).n = 1
  <2>1. csp.csn = 0 /\ chat.state = "login"
    BY <1>1 DEF StatesFit, TypeOK
  <2>2. Csp("login", 1) \in Frame /\ Csp("login", 1).to = "csp"
        /\ Csp("login", 1).kind = "login" /\ Csp("login", 1).n = 1
    BY Frames DEF CspKind
  <2>3. up' = Append(up, Csp("login", 1))
    BY <2>1 DEF HandleServerHello
  <2> QED
    BY <2>1, <2>2, <2>3 DEF HandleServerHello, servers
<1>3. csp'.state = "login-ack" /\ csp'.csn = 2 /\ csp' \in CspType
  <2>1. csp \in CspType
    BY DEF TypeOK, CspType
  <2>2. csp' = [csp EXCEPT !.state = "login-ack", !.ssn = @ + 1, !.csn = @ + 2] /\ csp.csn = 0
    BY <1>2
  <2>3. csp' = [state |-> "login-ack", csn |-> csp.csn + 2, ssn |-> csp.ssn + 1]
    BY <2>1, <2>2 DEF CspType
  <2> QED
    BY <2>1, <2>2, <2>3 DEF CspType
<1>4. /\ Len(up) \in Nat /\ DOMAIN up = 1..Len(up) /\ DOMAIN up' = 1..Len(up) + 1
      /\ \A i \in DOMAIN up : up'[i] = up[i]
      /\ up'[Len(up) + 1] = Csp("login", 1) /\ up' \in Seq(Frame)
  BY <1>2, AppendIs DEF TypeOK
<1>5. \A i \in DOMAIN up : up[i].to # "csp"
  BY <1>2 DEF HelloFits
<1>6. \A i \in DOMAIN up' : up'[i].to = "csp" => i = Len(up) + 1
  BY <1>4, <1>5
<1>7. HelloFits'
  BY <1>2, <1>3, <1>4, <1>6 DEF HelloFits
<1>8. TypeOK'
  BY <1>1, <1>3, <1>4 DEF TypeOK, CspType, HandleServerHello, servers
<1>9. StatesFit' /\ InOrder' /\ ClosedIsEmpty' /\ NoncesInStep'
  BY <1>2, <1>3 DEF StatesFit, InOrder, ClosedIsEmpty, NoncesInStep
<1> QED
  BY <1>1, <1>7, <1>8, <1>9

LEMMA LoginAckStep ==
  ASSUME IInv, open, open', down # <<>>, down' = Tail(down), UNCHANGED servers,
         csp.state = "login-ack", Head(down).to = "csp", Head(down).kind = "login-ack",
         HandleLoginAck
  PROVE  IInv'
<1> USE DEF IInv
<1>1. DownFits' /\ down' \in Seq(Frame) /\ chat.state = "ready"
  BY Received DEF servers, DownFits
<1>2. /\ csp'.state = "complete" /\ csp'.csn = csp.csn
      /\ csp' \in CspType
  <2>1. csp \in CspType
    BY DEF TypeOK, CspType
  <2>2. csp' = [csp EXCEPT !.state = "complete", !.ssn = @ + 1]
    BY DEF HandleLoginAck
  <2>3. csp' = [state |-> "complete", csn |-> csp.csn, ssn |-> csp.ssn + 1]
    BY <2>1, <2>2 DEF CspType
  <2> QED
    BY <2>1, <2>3 DEF CspType
<1>3. TypeOK'
  BY <1>1, <1>2 DEF HandleLoginAck, TypeOK, CspType, ShowConnected, servers
<1>4. StatesFit' /\ SameChat
  BY <1>1, <1>2 DEF StatesFit, SameChat, servers
<1> QED
  BY <1>1, <1>2, <1>3, <1>4, NothingSent DEF HandleLoginAck

LEMMA PayloadStep ==
  ASSUME IInv, open, NEW m \in Frame, m = Head(down), m.to = "csp", CspComplete,
         down # <<>>, HandlePayload(m), open', down' = Tail(down), UNCHANGED servers
  PROVE  IInv'
<1> USE DEF IInv
<1>1. DownFits' /\ down' \in Seq(Frame) /\ SameChat /\ csp.state = "complete"
  BY Received DEF servers, SameChat, CspComplete
<1>2. /\ csp' = [csp EXCEPT !.ssn = @ + 1, !.csn = IF m.kind = "payload" THEN @ + 1 ELSE @]
      /\ up' = IF m.kind = "payload" THEN Append(up, Csp("payload", csp.csn + 1)) ELSE up
      /\ read' = IF m.kind = "message" THEN Append(read, "message") ELSE read
      /\ UNCHANGED <<type, d2m, conn, open, start, task>>
  BY DEF HandlePayload, Throw
<1>3. csp'.state = "complete"
      /\ csp' \in CspType
      /\ csp'.csn = IF m.kind = "payload" THEN csp.csn + 1 ELSE csp.csn
  <2>1. csp \in CspType
    BY DEF TypeOK, CspType
  <2>2. CASE m.kind = "payload"
    <3>1. csp' = [csp EXCEPT !.ssn = @ + 1, !.csn = @ + 1]
      BY <1>2, <2>2
    <3>2. csp' = [state |-> csp.state, csn |-> csp.csn + 1, ssn |-> csp.ssn + 1]
      BY <2>1, <3>1 DEF CspType
    <3> QED
      BY <1>1, <2>1, <2>2, <3>2 DEF CspType
  <2>3. CASE m.kind # "payload"
    <3>1. csp' = [csp EXCEPT !.ssn = @ + 1, !.csn = @]
      BY <1>2, <2>3
    <3>2. csp' = [state |-> csp.state, csn |-> csp.csn, ssn |-> csp.ssn + 1]
      BY <2>1, <3>1 DEF CspType
    <3> QED
      BY <1>1, <2>1, <2>3, <3>2 DEF CspType
  <2> QED
    BY <2>2, <2>3
<1>4. up' \in Seq(Frame)
  <2>1. Csp("payload", csp.csn + 1) \in Frame
    BY Frames DEF TypeOK, CspKind
  <2> QED
    BY <1>2, <2>1, AppendIs DEF TypeOK
<1>5. TypeOK'
  <2>1. read' \in Seq({"reflected", "message"})
    <3> DEFINE R == {"reflected", "message"}
    <3>1. read \in Seq(R) /\ "message" \in R
      BY DEF TypeOK
    <3> HIDE DEF R
    <3>2. Append(read, "message") \in Seq(R)
      BY <3>1
    <3> QED
      BY <1>2, <3>1, <3>2 DEF R
  <2>2. UNCHANGED <<type, d2m, conn, start, task, chat, med>> /\ open' = open
    BY <1>2 DEF servers
  <2> QED
    BY <1>1, <1>3, <1>4, <2>1, <2>2 DEF TypeOK, CspType
<1>6. StatesFit'
  BY <1>1, <1>3 DEF StatesFit, SameChat
<1>7. CASE m.kind = "payload"
  BY <1>1, <1>2, <1>3, <1>5, <1>6, <1>7, SendsCsp
<1>8. CASE m.kind # "payload"
  BY <1>1, <1>2, <1>3, <1>5, <1>6, <1>8, NothingSent
<1> QED
  BY <1>7, <1>8

LEMMA D2mHelloStep ==
  ASSUME IInv, open, NEW m \in Frame, HandleD2mHello(m), down # <<>>,
         open', down' = Tail(down), UNCHANGED servers
  PROVE  IInv'
<1> USE DEF IInv
<1>1. DownFits' /\ down' \in Seq(Frame) /\ SameChat
  BY Received DEF servers, SameChat
<1>2. /\ d2m' = [d2m EXCEPT !.state = "complete"]
      /\ up' = Append(up, D2m("client-hello"))
      /\ conn' \in {"connected", "partially-connected"}
      /\ UNCHANGED <<type, csp, open, start, task, read>>
  BY DEF HandleD2mHello, Throw, ShowConnected
<1>3. up' \in Seq(Frame) /\ "client-hello" \in D2mKind
  <2>1. D2m("client-hello") \in Frame /\ "client-hello" \in D2mKind
    BY Frames DEF D2mKind
  <2>2. up \in Seq(Frame)
    BY DEF TypeOK
  <2> QED
    BY <1>2, <2>1, <2>2, AppendIs
<1>4. d2m' \in [state : {"server-hello", "complete"},
                info : BOOLEAN, dry : BOOLEAN, leader : BOOLEAN]
  BY <1>2 DEF TypeOK
<1>5. StatesFit'
  BY <1>1, <1>2 DEF StatesFit, SameChat
<1>6. TypeOK'
  BY <1>1, <1>2, <1>3, <1>4 DEF TypeOK, servers
<1> QED
  BY <1>1, <1>2, <1>3, <1>5, <1>6, SendsD2m

LEMMA D2mPayloadStep ==
  ASSUME IInv, open, NEW m \in Frame, HandleD2mPayload(m), down # <<>>,
         open', down' = Tail(down), UNCHANGED servers
  PROVE  IInv'
<1> USE DEF IInv
<1>1. DownFits' /\ down' \in Seq(Frame) /\ SameChat
  BY Received DEF servers, SameChat
<1>2. /\ d2m' = [d2m EXCEPT !.info = TRUE, !.dry = @ \/ m.kind = "dry",
                            !.leader = @ \/ m.kind = "leader"]
      /\ read' = IF m.kind = "reflected" /\ type = "full" THEN Append(read, "reflected") ELSE read
      /\ UNCHANGED <<type, csp, conn, open, start, task, up>>
  BY DEF HandleD2mPayload, Throw
<1>3. d2m' \in [state : {"server-hello", "complete"},
                info : BOOLEAN, dry : BOOLEAN, leader : BOOLEAN]
  BY <1>2 DEF TypeOK
<1>4. TypeOK' /\ StatesFit'
  BY <1>1, <1>2, <1>3 DEF TypeOK, StatesFit, servers
<1> QED
  BY <1>1, <1>2, <1>4, NothingSent

LEMMA ReceiveStep == IInv /\ Receive => IInv'
<1> SUFFICES ASSUME IInv, Receive PROVE IInv'
  OBVIOUS
<1> DEFINE m == Head(down)
<1>1. open /\ down # <<>> /\ UNCHANGED servers /\ m \in Frame
      /\ down' = (IF open' THEN Tail(down) ELSE <<>>)
  <2>1. open /\ down # <<>> /\ UNCHANGED servers
        /\ down' = (IF open' THEN Tail(down) ELSE <<>>)
    BY DEF Receive
  <2> QED
    BY <2>1, TailIs DEF IInv, TypeOK
<1>2. CASE Throw
  <2>1. ~open'
    BY <1>2 DEF Throw
  <2> QED
    BY <1>1, <1>2, <2>1, ThrowStep
<1>3. CASE ~Throw /\ m.to = "csp"
  <2>1. HandleCspMessage(m) /\ ~Throw
    BY <1>3 DEF Receive
  <2>2. Readable(m) /\ \/ csp.state = "server-hello" /\ HandleServerHello
                       \/ csp.state = "login-ack" /\ HandleLoginAck
                       \/ CspComplete /\ HandlePayload(m)
    BY <2>1 DEF HandleCspMessage
  <2>3. CASE csp.state = "server-hello" /\ HandleServerHello
    <3>1. open'
      BY <1>1, <2>3 DEF HandleServerHello
    <3> QED
      BY <1>1, <1>3, <2>3, <3>1, ServerHelloStep
  <2>4. CASE csp.state = "login-ack" /\ HandleLoginAck
    <3>1. open' /\ m.kind = "login-ack"
      BY <1>1, <2>2, <2>4 DEF HandleLoginAck, Readable
    <3> QED
      BY <1>1, <1>3, <2>4, <3>1, LoginAckStep
  <2>5. CASE CspComplete /\ HandlePayload(m)
    <3>1. open'
      BY <1>1, <2>1, <2>5 DEF HandlePayload
    <3> QED
      BY <1>1, <1>3, <2>5, <3>1, PayloadStep
  <2> QED
    BY <2>2, <2>3, <2>4, <2>5
<1>4. CASE ~Throw /\ m.to # "csp"
  <2>1. HandleD2mHello(m) \/ HandleD2mPayload(m)
    BY <1>4 DEF Receive, HandleD2mMessage
  <2>2. open'
    BY <1>1, <1>4, <2>1 DEF HandleD2mHello, HandleD2mPayload
  <2> QED
    BY <1>1, <2>1, <2>2, D2mHelloStep, D2mPayloadStep
<1> QED
  BY <1>2, <1>3, <1>4
-----------------------------------------------------------------------------
(* Encoding *)

\* A frame for the chat server is sent while the client is in contact with it.
LEMMA PayloadSent ==
  ASSUME IInv, NEW kind \in {"payload", "unblock"}, SendPayload(kind),
         CspComplete, open, UNCHANGED <<type, d2m, conn, open, read, down, servers>>,
         start' \in [unblock : BOOLEAN, idle : BOOLEAN,
                     echo : {"off", "on", "cancelled"}, echoes : 0..MaxEcho],
         task' \in [Task -> {"waiting", "queued", "written", "refused"}]
  PROVE  IInv'
<1> USE DEF IInv
<1>1. csp.state = "complete" /\ csp \in CspType
  BY DEF CspComplete, TypeOK, CspType
<1>2. csp' = [csp EXCEPT !.csn = @ + 1] /\ up' = Append(up, Csp(kind, csp.csn + 1))
  BY DEF SendPayload
<1>3. csp' \in CspType /\ csp'.state = csp.state /\ csp'.csn = csp.csn + 1
  BY <1>1, <1>2 DEF CspType
<1>4. up' \in Seq(Frame)
  <2> DEFINE f == Csp(kind, csp.csn + 1)
  <2>1. f \in Frame
    BY <1>1, Frames DEF CspType, CspKind
  <2>2. up \in Seq(Frame) /\ up' = Append(up, f)
    BY <1>2 DEF TypeOK
  <2> HIDE DEF f
  <2> QED
    BY <2>1, <2>2, AppendIs
<1>5. TypeOK'
  BY <1>3, <1>4 DEF TypeOK, CspType, servers
<1>6. DownFits' /\ StatesFit' /\ SameChat
  BY <1>1, <1>3 DEF DownFits, StatesFit, SameChat, servers
<1> QED
  BY <1>1, <1>2, <1>3, <1>5, <1>6, SendsCsp

\* Nothing is sent.
LEMMA QuietStep ==
  ASSUME IInv, UNCHANGED <<type, csp, d2m, conn, open, read, up, down, servers>>,
         start' \in [unblock : BOOLEAN, idle : BOOLEAN,
                     echo : {"off", "on", "cancelled"}, echoes : 0..MaxEcho],
         task' \in [Task -> {"waiting", "queued", "written", "refused"}]
  PROVE  IInv'
<1> USE DEF IInv
<1>1. TypeOK'
  BY DEF TypeOK, servers
<1>2. DownFits' /\ StatesFit' /\ SameChat
  BY DEF DownFits, StatesFit, SameChat, servers
<1> QED
  BY <1>1, <1>2, NothingSent

LEMMA StartTypes ==
  ASSUME IInv
  PROVE  /\ start \in [unblock : BOOLEAN, idle : BOOLEAN,
                       echo : {"off", "on", "cancelled"}, echoes : 0..MaxEcho]
         /\ task \in [Task -> {"waiting", "queued", "written", "refused"}]
         /\ start.echoes \in Nat
  BY HandshakeAssumption DEF IInv, TypeOK

StartType == [unblock : BOOLEAN, idle : BOOLEAN,
              echo : {"off", "on", "cancelled"}, echoes : 0..MaxEcho]

LEMMA UnblockStep == IInv /\ Unblock => IInv'
<1> SUFFICES ASSUME IInv, Unblock PROVE IInv'
  OBVIOUS
<1>1. start' \in StartType /\ task' = task
  <2>1. start \in StartType
    BY StartTypes DEF StartType
  <2>2. start' = [start EXCEPT !.unblock = TRUE] /\ task' = task
    BY DEF Unblock
  <2> QED
    BY <2>1, <2>2 DEF StartType
<1>2. CASE open
  BY <1>1, <1>2, PayloadSent, StartTypes DEF Unblock, StartType
<1>3. CASE ~open
  BY <1>1, <1>3, QuietStep, StartTypes DEF Unblock, StartType
<1> QED
  BY <1>2, <1>3

LEMMA StartKeepAliveStep == IInv /\ StartKeepAlive => IInv'
<1> SUFFICES ASSUME IInv, StartKeepAlive PROVE IInv'
  OBVIOUS
<1>1. start' \in StartType /\ task' = task
  <2>1. start \in StartType
    BY StartTypes DEF StartType
  <2>2. start' = [start EXCEPT !.idle = TRUE, !.echo = "on"] /\ task' = task
    BY DEF StartKeepAlive
  <2>3. start' = [unblock |-> start.unblock, idle |-> TRUE, echo |-> "on", echoes |-> start.echoes]
    BY <2>1, <2>2 DEF StartType
  <2> QED
    BY <2>1, <2>2, <2>3 DEF StartType
<1>2. CASE Valid("csp")
  BY <1>1, <1>2, PayloadSent, StartTypes DEF StartKeepAlive, StartType
<1>3. CASE ~Valid("csp")
  BY <1>1, <1>3, QuietStep, StartTypes DEF StartKeepAlive, StartType
<1> QED
  BY <1>2, <1>3

LEMMA EchoTickStep == IInv /\ EchoTick => IInv'
<1> SUFFICES ASSUME IInv, EchoTick PROVE IInv'
  OBVIOUS
<1>1. start \in StartType /\ start.echoes \in Nat /\ MaxEcho \in Nat
  BY StartTypes, HandshakeAssumption DEF StartType
<1>2. CASE Valid("csp")
  <2>1. start' = [start EXCEPT !.echoes = @ + 1] /\ start.echoes < MaxEcho /\ task' = task
    BY <1>2 DEF EchoTick
  <2>2. start' \in StartType
    BY <1>1, <2>1 DEF StartType
  <2> QED
    BY <1>2, <2>1, <2>2, PayloadSent, StartTypes DEF EchoTick, StartType, Valid
<1>3. CASE ~Valid("csp")
  <2>1. start' = [start EXCEPT !.echo = "cancelled"] /\ task' = task
    BY <1>3 DEF EchoTick
  <2>2. start' \in StartType
    BY <1>1, <2>1 DEF StartType
  <2> QED
    BY <1>3, <2>1, <2>2, QuietStep, StartTypes DEF EchoTick, StartType
<1> QED
  BY <1>2, <1>3

LEMMA PassGateStep == IInv /\ (\E t \in Task : PassGate(t)) => IInv'
<1> SUFFICES ASSUME IInv, NEW t \in Task, PassGate(t) PROVE IInv'
  OBVIOUS
<1>1. task' \in [Task -> {"waiting", "queued", "written", "refused"}]
  BY StartTypes DEF PassGate
<1> QED
  BY <1>1, QuietStep, StartTypes DEF PassGate

LEMMA WriteStep == IInv /\ (\E t \in Task : Write(t)) => IInv'
<1> SUFFICES ASSUME IInv, NEW t \in Task, Write(t) PROVE IInv'
  OBVIOUS
<1> DEFINE valid == Valid(IF t \in CspTask THEN "csp" ELSE "d2m")
<1>1. open /\ UNCHANGED <<type, d2m, conn, start, read, down, servers>>
  BY DEF Write
<1>2. CASE ~valid
  <2>1. /\ task' = [task EXCEPT ![t] = "refused"]
        /\ open' = FALSE /\ up' = <<>> /\ csp' = csp
    BY <1>2 DEF Write
  <2>2. task' \in [Task -> {"waiting", "queued", "written", "refused"}]
    BY <2>1, StartTypes
  <2>3. up' \in Seq(Frame) /\ open' \in BOOLEAN
    <3>1. <<>> \in Seq(Frame)
      OBVIOUS
    <3> QED
      BY <2>1, <3>1, Zenon
  <2>4. UNCHANGED <<type, csp, d2m, conn, start, read, down, chat, med>>
    BY <1>1, <2>1 DEF servers
  <2>5. TypeOK'
    BY <2>2, <2>3, <2>4 DEF IInv, TypeOK
  <2>6. DownFits' /\ StatesFit' /\ SameChat
    BY <2>4 DEF IInv, DownFits, StatesFit, SameChat
  <2> QED
    BY <2>1, <2>5, <2>6, Closes
<1>3. CASE valid /\ t \in CspTask
  <2>1. /\ task' = [task EXCEPT ![t] = "written"] /\ SendPayload("payload") /\ open' = open
        /\ CspComplete
    BY <1>3 DEF Write, Valid
  <2>2. task' \in [Task -> {"waiting", "queued", "written", "refused"}]
    BY <2>1, StartTypes
  <2> QED
    BY <1>1, <2>1, <2>2, PayloadSent, StartTypes
<1>4. CASE valid /\ t \notin CspTask
  <2>1. /\ task' = [task EXCEPT ![t] = "written"] /\ up' = Append(up, D2m("payload"))
        /\ UNCHANGED <<csp, open>>
    BY <1>4 DEF Write
  <2>2. task' \in [Task -> {"waiting", "queued", "written", "refused"}]
    BY <2>1, StartTypes
  <2>3. "payload" \in D2mKind /\ up' \in Seq(Frame)
    <3>1. D2m("payload") \in Frame /\ "payload" \in D2mKind
      BY Frames DEF D2mKind
    <3>2. up \in Seq(Frame)
      BY DEF IInv, TypeOK
    <3> QED
      BY <2>1, <3>1, <3>2, AppendIs
  <2>4. TypeOK'
    BY <1>1, <2>1, <2>2, <2>3 DEF IInv, TypeOK, servers
  <2>5. DownFits' /\ StatesFit' /\ SameChat
    BY <1>1, <2>1 DEF IInv, DownFits, StatesFit, SameChat, servers
  <2> QED
    BY <1>1, <2>1, <2>3, <2>4, <2>5, SendsD2m
<1> QED
  BY <1>2, <1>3, <1>4

LEMMA DropDeviceStep == IInv /\ DropDevice => IInv'
<1> SUFFICES ASSUME IInv, DropDevice PROVE IInv'
  OBVIOUS
<1>1. /\ open /\ start' = [start EXCEPT !.idle = TRUE] /\ up' = Append(up, D2m("drop-device"))
      /\ UNCHANGED <<type, csp, d2m, conn, open, task, read, down, chat, med>>
  BY DEF DropDevice, servers
<1>2. start' \in StartType
  <2>1. start \in StartType
    BY StartTypes DEF StartType
  <2> QED
    BY <1>1, <2>1 DEF StartType
<1>3. "drop-device" \in D2mKind /\ up' \in Seq(Frame)
  <2>1. D2m("drop-device") \in Frame /\ "drop-device" \in D2mKind
    BY Frames DEF D2mKind
  <2>2. up \in Seq(Frame)
    BY DEF IInv, TypeOK
  <2> QED
    BY <1>1, <2>1, <2>2, AppendIs
<1>4. TypeOK'
  BY <1>1, <1>2, <1>3 DEF IInv, TypeOK, StartType
<1>5. DownFits' /\ StatesFit' /\ SameChat
  BY <1>1 DEF IInv, DownFits, StatesFit, SameChat
<1> QED
  BY <1>1, <1>3, <1>4, <1>5, SendsD2m

-----------------------------------------------------------------------------
(* The servers *)

ChatType == [state : {"hello", "login", "ready"}, csn : Nat, ssn : Nat,
             failed : BOOLEAN, unblocked : BOOLEAN,
             messages : 0..MaxMsg, echoes : 0..MaxEcho]

\* A frame is put on the way to the client.
LEMMA Arrives ==
  ASSUME IInv, NEW m \in Frame, ToClient(m), chat'.state = chat.state \/ chat'.state = "ready"
         \/ (chat.state = "hello" /\ chat'.state = "login"),
         m.to = "csp" => chat'.state # "hello" /\ (m.kind = "login-ack" => chat'.state = "ready")
  PROVE  down' \in Seq(Frame) /\ DownFits'
<1>1. down \in Seq(Frame) /\ down' = Append(down, m)
  BY DEF IInv, TypeOK, ToClient
<1>2. /\ down' \in Seq(Frame) /\ DOMAIN down' = 1..Len(down) + 1 /\ DOMAIN down = 1..Len(down)
      /\ Len(down) \in Nat
      /\ \A i \in DOMAIN down : down'[i] = down[i]
      /\ down'[Len(down) + 1] = m
  BY <1>1, AppendIs
<1>3. \A i \in DOMAIN down' : i \in DOMAIN down \/ i = Len(down) + 1
  BY <1>2
<1>4. DownFits
  BY DEF IInv
<1> QED
  BY <1>2, <1>3, <1>4 DEF DownFits

\* A server sends something and the client is not concerned.
LEMMA ServerSent ==
  ASSUME IInv, UNCHANGED <<client, up>>, down' \in Seq(Frame), DownFits', SameChat,
         chat' \in ChatType,
         med' \in [state : {"start", "hello", "ready"}, reflected : 0..MaxMsg,
                   dry : BOOLEAN, leader : BOOLEAN, faults : 0..1]
  PROVE  IInv'
<1>1. UNCHANGED <<type, csp, d2m, conn, open, start, task, read, up>>
  BY DEF client
<1>2. TypeOK'
  BY <1>1 DEF IInv, TypeOK, ChatType
<1>3. StatesFit'
  BY <1>1 DEF IInv, StatesFit, SameChat
<1> QED
  BY <1>1, <1>2, <1>3, NothingSent

\* The first frame is taken.
LEMMA Taken ==
  ASSUME IInv, up # <<>>, up' = Tail(up)
  PROVE  /\ up' \in Seq(Frame) /\ up[1] = Head(up) /\ up[1] \in Frame /\ 1 \in DOMAIN up
         /\ \A i \in DOMAIN up' : i \in Nat /\ i + 1 > 1 /\ i + 1 \in DOMAIN up /\ up'[i] = up[i + 1]
         /\ \A i \in DOMAIN up : i \in Nat /\ (i # 1 => i - 1 \in DOMAIN up' /\ up'[i - 1] = up[i])
<1>1. up \in Seq(Frame)
  BY DEF IInv, TypeOK
<1> QED
  BY <1>1, TailIs

LEMMA MediatorReceivesStep == IInv /\ MediatorReceives => IInv'
<1> SUFFICES ASSUME IInv, MediatorReceives PROVE IInv'
  OBVIOUS
<1> USE DEF IInv
<1>1. /\ open /\ up # <<>> /\ up' = Tail(up) /\ Head(up).to = "d2m"
      /\ UNCHANGED <<type, csp, d2m, conn, open, start, task, read, chat>>
  BY DEF MediatorReceives, client
<1>2. med' \in [state : {"start", "hello", "ready"}, reflected : 0..MaxMsg,
                dry : BOOLEAN, leader : BOOLEAN, faults : 0..1]
      /\ down' \in Seq(Frame) /\ DownFits'
  <2>1. CASE Head(up).kind = "client-hello"
    <3>1. med' = [med EXCEPT !.state = "ready"] /\ ToClient(D2m("server-info"))
      BY <2>1 DEF MediatorReceives
    <3>2. D2m("server-info") \in Frame /\ D2m("server-info").to = "d2m"
      BY Frames DEF D2mKind
    <3>3. down' \in Seq(Frame) /\ DownFits'
      BY <1>1, <3>1, <3>2, Arrives
    <3> QED
      BY <3>1, <3>3 DEF TypeOK
  <2>2. CASE Head(up).kind # "client-hello"
    BY <1>1, <2>2 DEF MediatorReceives, TypeOK, DownFits
  <2> QED
    BY <2>1, <2>2
<1>3. /\ up' \in Seq(Frame) /\ up[1].to = "d2m"
      /\ \A i \in DOMAIN up' : i \in Nat /\ i + 1 \in DOMAIN up /\ up'[i] = up[i + 1]
      /\ \A i \in DOMAIN up : i \in Nat /\ (i # 1 => i - 1 \in DOMAIN up' /\ up'[i - 1] = up[i])
  BY <1>1, Taken
<1>4. TypeOK'
  BY <1>1, <1>2, <1>3 DEF TypeOK
<1>5. HelloFits'
  <2>1. CASE chat.state = "hello"
    BY <1>1, <1>3, <2>1 DEF HelloFits
  <2>2. CASE chat.state = "login"
    BY <1>1, <1>3, <2>2 DEF HelloFits
  <2>3. chat.state # "ready" => \A i, j \in DOMAIN up' :
           up'[i].to = "csp" /\ up'[j].to = "csp" => i = j
    BY <1>3 DEF HelloFits
  <2> QED
    BY <1>1, <2>1, <2>2, <2>3 DEF HelloFits
<1>6. InOrder'
  <2> SUFFICES ASSUME chat.state = "ready"
               PROVE  InOrder'
    BY <1>1 DEF InOrder
  <2>1. \A i \in DOMAIN up' : up'[i].to = "csp" =>
          up'[i].kind \in {"payload", "unblock"} /\ chat.csn < up'[i].n /\ up'[i].n <= csp.csn
    BY <1>3 DEF InOrder
  <2>2. \A i, j \in DOMAIN up' : up'[i].to = "csp" /\ up'[j].to = "csp" /\ i < j => up'[i].n < up'[j].n
    <3> SUFFICES ASSUME NEW i \in DOMAIN up', NEW j \in DOMAIN up', i < j,
                        up'[i].to = "csp", up'[j].to = "csp"
                 PROVE  up'[i].n < up'[j].n
      OBVIOUS
    <3>1. i + 1 < j + 1
      BY <1>3
    <3> QED
      BY <1>3, <3>1 DEF InOrder
  <2>3. ASSUME NEW k \in chat.csn + 1 .. csp.csn
        PROVE  \E i \in DOMAIN up' : up'[i].to = "csp" /\ up'[i].n = k
    <3>1. PICK i \in DOMAIN up : up[i].to = "csp" /\ up[i].n = k
      BY <1>1 DEF InOrder
    <3>2. i # 1
      BY <1>3, <3>1
    <3> QED
      BY <1>3, <3>1, <3>2
  <2> QED
    BY <1>1, <2>1, <2>2, <2>3 DEF InOrder
<1> QED
  BY <1>1, <1>2, <1>4, <1>5, <1>6 DEF ClosedIsEmpty, StatesFit, NoncesInStep

\* What the chat server receives is what it waits for.
LEMMA NextIsExpected ==
  ASSUME IInv, open, up # <<>>, Head(up).to = "csp"
  PROVE  /\ chat.state = "hello" => Head(up).kind = "client-hello" /\ Head(up).n = 0
         /\ chat.state = "login" => Head(up).kind = "login" /\ Head(up).n = 1
         /\ chat.state = "ready" => /\ Head(up).kind \in {"payload", "unblock"}
                                    /\ Head(up).n = chat.csn + 1
<1> USE DEF IInv
<1>1. up \in Seq(Frame)
  BY DEF TypeOK
<1>2. Head(up) = up[1] /\ 1 \in DOMAIN up /\ up[1] \in Frame
      /\ \A i \in DOMAIN up : i \in Nat /\ i >= 1
  BY <1>1, TailIs
<1>3. up[1].n \in Nat
  BY <1>2 DEF Frame
<1>4. CASE chat.state = "hello"
  BY <1>2, <1>4 DEF HelloFits
<1>5. CASE chat.state = "login"
  BY <1>2, <1>5 DEF HelloFits
<1>6. CASE chat.state = "ready"
  <2>1. /\ up[1].kind \in {"payload", "unblock"} /\ chat.csn < up[1].n /\ up[1].n <= csp.csn
        /\ chat.csn \in Nat /\ csp.csn \in Nat
    BY <1>2, <1>6 DEF InOrder, TypeOK
  <2>2. chat.csn + 1 \in chat.csn + 1 .. csp.csn
    BY <1>3, <2>1
  <2>3. PICK i \in DOMAIN up : up[i].to = "csp" /\ up[i].n = chat.csn + 1
    BY <1>6, <2>2 DEF InOrder
  <2>4. i = 1
    <3> SUFFICES ASSUME 1 < i PROVE FALSE
      BY <1>2, <2>3
    <3>1. up[1].n < up[i].n
      BY <1>2, <1>6, <2>3 DEF InOrder
    <3> QED
      BY <1>3, <2>1, <2>3, <3>1
  <2> QED
    BY <1>2, <1>6, <2>1, <2>3, <2>4
<1> QED
  BY <1>4, <1>5, <1>6

LEMMA ChatReceivesStep == IInv /\ ChatReceives => IInv'
<1> SUFFICES ASSUME IInv, ChatReceives PROVE IInv'
  OBVIOUS
<1> USE DEF IInv
<1> DEFINE m == Head(up)
<1>1. /\ open /\ up # <<>> /\ up' = Tail(up) /\ m.to = "csp"
      /\ UNCHANGED <<type, csp, d2m, conn, open, start, task, read, med>>
  BY DEF ChatReceives, client
<1>2. /\ up' \in Seq(Frame) /\ up[1] = m /\ up[1] \in Frame /\ 1 \in DOMAIN up
      /\ \A i \in DOMAIN up' : i \in Nat /\ i + 1 > 1 /\ i + 1 \in DOMAIN up /\ up'[i] = up[i + 1]
      /\ \A i \in DOMAIN up : i \in Nat /\ (i # 1 => i - 1 \in DOMAIN up' /\ up'[i - 1] = up[i])
  BY <1>1, Taken
<1>3. chat \in ChatType
  BY DEF TypeOK, ChatType
<1>4. CASE chat.state = "hello"
  <2>1. chat' = [chat EXCEPT !.state = "login", !.ssn = 1] /\ ToClient(Csp("server-hello", 1))
    BY <1>1, <1>4, NextIsExpected DEF ChatReceives
  <2>2. chat' \in ChatType /\ chat'.state = "login" /\ chat'.failed = chat.failed
    <3>1. chat' = [state |-> "login", csn |-> chat.csn, ssn |-> 1, failed |-> chat.failed,
                   unblocked |-> chat.unblocked, messages |-> chat.messages, echoes |-> chat.echoes]
      BY <1>3, <2>1 DEF ChatType
    <3> QED
      BY <1>3, <3>1 DEF ChatType
  <2>3. Csp("server-hello", 1) \in Frame /\ Csp("server-hello", 1).kind = "server-hello"
    BY Frames DEF CspKind
  <2>4. down' \in Seq(Frame) /\ DownFits'
    BY <1>4, <2>1, <2>2, <2>3, Arrives
  <2>5. TypeOK'
    BY <1>1, <1>2, <2>2, <2>4 DEF TypeOK, ChatType
  <2>6. csp.state = "server-hello"
    BY <1>1, <1>2, <1>4 DEF HelloFits
  <2>7. \A i \in DOMAIN up' : up'[i].to # "csp"
    BY <1>1, <1>2, <1>4 DEF HelloFits
  <2>8. StatesFit' /\ HelloFits' /\ InOrder'
    BY <1>1, <2>2, <2>6, <2>7 DEF StatesFit, HelloFits, InOrder
  <2> QED
    BY <1>1, <2>2, <2>4, <2>5, <2>8 DEF ClosedIsEmpty, NoncesInStep
<1>5. CASE chat.state = "login"
  <2>1. /\ chat' = [chat EXCEPT !.state = "ready", !.ssn = 2, !.csn = 2]
        /\ ToClient(Csp("login-ack", 2))
    BY <1>1, <1>5, NextIsExpected DEF ChatReceives
  <2>2. chat' \in ChatType /\ chat'.state = "ready" /\ chat'.failed = chat.failed /\ chat'.csn = 2
    <3>1. chat' = [state |-> "ready", csn |-> 2, ssn |-> 2, failed |-> chat.failed,
                   unblocked |-> chat.unblocked, messages |-> chat.messages, echoes |-> chat.echoes]
      BY <1>3, <2>1 DEF ChatType
    <3> QED
      BY <1>3, <3>1 DEF ChatType
  <2>3. Csp("login-ack", 2) \in Frame
    BY Frames DEF CspKind
  <2>4. down' \in Seq(Frame) /\ DownFits'
    BY <1>5, <2>1, <2>2, <2>3, Arrives
  <2>5. TypeOK'
    BY <1>1, <1>2, <2>2, <2>4 DEF TypeOK, ChatType
  <2>6. csp.state = "login-ack" /\ csp.csn = 2
    BY <1>1, <1>2, <1>5 DEF HelloFits, StatesFit
  <2>7. \A i \in DOMAIN up' : up'[i].to # "csp"
    BY <1>1, <1>2, <1>5 DEF HelloFits
  <2>8. StatesFit' /\ HelloFits' /\ InOrder'
    BY <1>1, <2>2, <2>6, <2>7 DEF StatesFit, HelloFits, InOrder
  <2> QED
    BY <1>1, <2>2, <2>4, <2>5, <2>8 DEF ClosedIsEmpty, NoncesInStep
<1>6. CASE chat.state = "ready"
  <2>1. m.kind \in {"payload", "unblock"} /\ m.n = chat.csn + 1
    BY <1>1, <1>6, NextIsExpected
  <2>2. /\ chat' = [chat EXCEPT !.csn = @ + 1, !.unblocked = @ \/ m.kind = "unblock"]
        /\ UNCHANGED down
    BY <1>6, <2>1 DEF ChatReceives
  <2>3. chat' \in ChatType /\ chat'.state = "ready" /\ chat'.failed = chat.failed
        /\ chat'.csn = chat.csn + 1
    <3> DEFINE b == chat.unblocked \/ m.kind = "unblock"
    <3>1. chat' = [state |-> chat.state, csn |-> chat.csn + 1, ssn |-> chat.ssn,
                   failed |-> chat.failed, unblocked |-> b,
                   messages |-> chat.messages, echoes |-> chat.echoes]
      BY <1>3, <2>2 DEF ChatType
    <3>2. b \in BOOLEAN
      OBVIOUS
    <3> HIDE DEF b
    <3> QED
      BY <1>3, <1>6, <3>1, <3>2 DEF ChatType
  <2>4. DownFits' /\ down' \in Seq(Frame)
    BY <1>6, <2>2, <2>3 DEF DownFits, TypeOK
  <2>5. TypeOK'
    BY <1>1, <1>2, <2>3, <2>4 DEF TypeOK, ChatType
  <2>6. chat.csn \in Nat /\ chat.csn >= 2 /\ csp.csn >= chat.csn + 1 /\ csp.csn \in Nat
    BY <1>1, <1>2, <1>6, <2>1 DEF InOrder, TypeOK
  <2>7. \A i \in DOMAIN up' : up'[i].to = "csp" =>
          /\ up'[i].kind \in {"payload", "unblock"}
          /\ chat.csn + 1 < up'[i].n /\ up'[i].n <= csp.csn
    <3> SUFFICES ASSUME NEW i \in DOMAIN up', up'[i].to = "csp"
                 PROVE  /\ up'[i].kind \in {"payload", "unblock"}
                        /\ chat.csn + 1 < up'[i].n /\ up'[i].n <= csp.csn
      OBVIOUS
    <3>1. i + 1 \in DOMAIN up /\ 1 < i + 1 /\ up'[i] = up[i + 1]
      BY <1>2
    <3>2. up[1].n < up[i + 1].n
      BY <1>1, <1>2, <1>6, <3>1 DEF InOrder
    <3> QED
      BY <1>2, <1>6, <2>1, <3>1, <3>2 DEF InOrder
  <2>8. \A i, j \in DOMAIN up' : up'[i].to = "csp" /\ up'[j].to = "csp" /\ i < j => up'[i].n < up'[j].n
    <3> SUFFICES ASSUME NEW i \in DOMAIN up', NEW j \in DOMAIN up', i < j,
                        up'[i].to = "csp", up'[j].to = "csp"
                 PROVE  up'[i].n < up'[j].n
      OBVIOUS
    <3>1. i + 1 < j + 1
      BY <1>2
    <3> QED
      BY <1>2, <1>6, <3>1 DEF InOrder
  <2>9. ASSUME NEW k \in chat.csn + 2 .. csp.csn
        PROVE  \E i \in DOMAIN up' : up'[i].to = "csp" /\ up'[i].n = k
    <3>1. k \in chat.csn + 1 .. csp.csn /\ k # chat.csn + 1
      BY <2>6
    <3>2. PICK i \in DOMAIN up : up[i].to = "csp" /\ up[i].n = k
      BY <1>1, <1>6, <3>1 DEF InOrder
    <3>3. i # 1
      BY <1>2, <2>1, <3>1, <3>2
    <3> QED
      BY <1>2, <3>2, <3>3
  <2>10. InOrder'
    BY <1>1, <2>3, <2>6, <2>7, <2>8, <2>9 DEF InOrder
  <2>11. StatesFit' /\ HelloFits'
    BY <1>1, <1>6, <2>3 DEF StatesFit, HelloFits
  <2> QED
    BY <1>1, <2>3, <2>4, <2>5, <2>10, <2>11 DEF ClosedIsEmpty, NoncesInStep
<1> QED
  BY <1>3, <1>4, <1>5, <1>6 DEF ChatType

LEMMA ChatSendsStep == IInv /\ ChatSends => IInv'
<1> SUFFICES ASSUME IInv, ChatSends PROVE IInv'
  OBVIOUS
<1>1. chat \in ChatType /\ chat.ssn \in Nat /\ MaxEcho \in Nat /\ MaxMsg \in Nat
  BY HandshakeAssumption DEF IInv, TypeOK, ChatType
<1>2. PICK kind \in {"payload", "discarded", "message"} : ToClient(Csp(kind, chat.ssn + 1))
  BY DEF ChatSends
<1>3. chat.state = "ready" /\ UNCHANGED <<client, up, med>>
  BY DEF ChatSends
<1>4. chat' \in ChatType /\ SameChat
  <2>1. CASE chat.echoes < MaxEcho /\ chat' = [chat EXCEPT !.ssn = @ + 1, !.echoes = @ + 1]
    <3>1. chat' = [state |-> chat.state, csn |-> chat.csn, ssn |-> chat.ssn + 1,
                   failed |-> chat.failed, unblocked |-> chat.unblocked,
                   messages |-> chat.messages, echoes |-> chat.echoes + 1]
      BY <1>1, <2>1 DEF ChatType
    <3>2. chat.echoes + 1 \in 0..MaxEcho
      BY <1>1, <2>1 DEF ChatType
    <3> QED
      BY <1>1, <3>1, <3>2 DEF ChatType, SameChat
  <2>2. CASE chat.messages > 0 /\ chat' = [chat EXCEPT !.ssn = @ + 1, !.messages = @ - 1]
    <3>1. chat' = [state |-> chat.state, csn |-> chat.csn, ssn |-> chat.ssn + 1,
                   failed |-> chat.failed, unblocked |-> chat.unblocked,
                   messages |-> chat.messages - 1, echoes |-> chat.echoes]
      BY <1>1, <2>2 DEF ChatType
    <3>2. chat.messages - 1 \in 0..MaxMsg
      BY <1>1, <2>2 DEF ChatType
    <3> QED
      BY <1>1, <3>1, <3>2 DEF ChatType, SameChat
  <2> QED
    BY <2>1, <2>2 DEF ChatSends
<1>5. Csp(kind, chat.ssn + 1) \in Frame /\ Csp(kind, chat.ssn + 1).kind = kind
  BY <1>1, Frames DEF CspKind
<1>6. down' \in Seq(Frame) /\ DownFits'
  BY <1>2, <1>3, <1>4, <1>5, Arrives DEF SameChat
<1> QED
  BY <1>3, <1>4, <1>6, ServerSent DEF IInv, TypeOK

LEMMA MediatorSendsStep == IInv /\ (MediatorHello \/ MediatorSends \/ MediatorErrs) => IInv'
<1> SUFFICES ASSUME IInv, MediatorHello \/ MediatorSends \/ MediatorErrs PROVE IInv'
  OBVIOUS
<1> DEFINE MedType == [state : {"start", "hello", "ready"}, reflected : 0..MaxMsg,
                       dry : BOOLEAN, leader : BOOLEAN, faults : 0..1]
<1>1. med \in MedType /\ MaxMsg \in Nat
  BY HandshakeAssumption DEF IInv, TypeOK
<1>2. UNCHANGED <<client, up, chat>>
  BY DEF MediatorHello, MediatorSends, MediatorErrs
<1>3. PICK kind \in D2mKind : ToClient(D2m(kind))
  <2>1. {"server-hello", "old-server-hello", "reflected", "dry", "leader", "server-info"} \subseteq D2mKind
    BY DEF D2mKind
  <2> QED
    BY <2>1 DEF MediatorHello, MediatorSends, MediatorErrs
<1>4. med' \in MedType
  <2>1. \/ med' = [med EXCEPT !.state = "hello"] \/ med' = [med EXCEPT !.dry = TRUE]
        \/ med' = [med EXCEPT !.leader = TRUE] \/ med' = [med EXCEPT !.faults = 1]
        \/ (med.reflected > 0 /\ med' = [med EXCEPT !.reflected = @ - 1])
    BY DEF MediatorHello, MediatorSends, MediatorErrs
  <2>2. CASE med' = [med EXCEPT !.state = "hello"]
    BY <1>1, <2>2
  <2>3. CASE med' = [med EXCEPT !.dry = TRUE]
    BY <1>1, <2>3
  <2>4. CASE med' = [med EXCEPT !.leader = TRUE]
    BY <1>1, <2>4
  <2>5. CASE med' = [med EXCEPT !.faults = 1]
    BY <1>1, <2>5
  <2>6. CASE med.reflected > 0 /\ med' = [med EXCEPT !.reflected = @ - 1]
    <3>1. med.reflected - 1 \in 0..MaxMsg
      BY <1>1, <2>6
    <3> QED
      BY <1>1, <2>6, <3>1
  <2> QED
    BY <2>1, <2>2, <2>3, <2>4, <2>5, <2>6
<1>5. D2m(kind) \in Frame /\ D2m(kind).to = "d2m"
  BY Frames
<1>6. down' \in Seq(Frame) /\ DownFits' /\ SameChat
  BY <1>2, <1>3, <1>5, Arrives DEF SameChat
<1>7. chat' \in ChatType
  BY <1>2 DEF IInv, TypeOK, ChatType
<1> QED
  BY <1>2, <1>4, <1>6, <1>7, ServerSent

-----------------------------------------------------------------------------
\* Every step keeps the invariant.
THEOREM NextInvariant == IInv /\ [Next]_vars => IInv'
<1> SUFFICES ASSUME IInv, [Next]_vars PROVE IInv'
  OBVIOUS
<1>1. CASE UNCHANGED vars
  <2>1. UNCHANGED <<type, csp, d2m, conn, open, start, task, read, up, down, chat, med>>
    BY <1>1 DEF vars, client, servers
  <2>2. DownFits' /\ StatesFit' /\ TypeOK' /\ SameChat
    BY <2>1 DEF IInv, DownFits, StatesFit, TypeOK, SameChat
  <2> QED
    BY <2>1, <2>2, NothingSent
<1>2. CASE Servers
  BY <1>2, ChatReceivesStep, ChatSendsStep, MediatorReceivesStep, MediatorSendsStep DEF Servers
<1> QED
  BY <1>1, <1>2, ReceiveStep, UnblockStep, StartKeepAliveStep, EchoTickStep, PassGateStep,
     WriteStep, DropDeviceStep DEF Next

\* The inductive invariant holds in every behaviour.
THEOREM Invariance == Spec => []IInv
BY InitInvariant, NextInvariant, PTL DEF Spec

\* Type correctness (Handshake).
THEOREM TypeCorrect == Spec => []TypeOK
<1>1. IInv => TypeOK
  BY DEF IInv
<1> QED
  BY Invariance, <1>1, PTL

\* Every frame has the number the chat server waits for, whoever wrote it and
\* however the two handshakes overlap (Layer3Encoder, csn).
THEOREM FramesAreInStep == Spec => []NoncesInStep
<1>1. IInv => NoncesInStep
  BY DEF IInv
<1> QED
  BY Invariance, <1>1, PTL

-----------------------------------------------------------------------------
(* The reflection queue first: the invariant *)

Promoted == type = "full" /\ d2m.leader

\* The chat server sends no message before it is unblocked, and it is unblocked
\* after the promotion only.
UnblockedLate ==
    /\ \A i \in DOMAIN down : down[i].kind = "message" => chat.unblocked
    /\ \A i \in DOMAIN up : up[i].kind = "unblock" => Promoted
    /\ chat.unblocked => Promoted

\* Messages of the reflection queue that have passed layer 4, and those among
\* the first n frames of s.
Got == Cardinality({k \in DOMAIN read : read[k] = "reflected"})
Marked(s, n) == {k \in 1..n : s[k].kind = "reflected"}

\* No message of the reflection queue is lost before the promotion.
QueueCounted ==
    /\ Promoted => Got >= MaxMsg
    /\ med.dry => med.reflected = 0
    /\ type = "full" /\ open =>
        /\ Got + Cardinality(Marked(down, Len(down))) + med.reflected >= MaxMsg
        /\ \A i \in DOMAIN down : down[i].kind = "leader" =>
              Got + Cardinality(Marked(down, i)) >= MaxMsg

DryInv == UnblockedLate /\ QueueCounted /\ QueueDryFirst

-----------------------------------------------------------------------------
(* Counting *)

LEMMA MarkedIs ==
  ASSUME NEW s, NEW n \in Nat
  PROVE  IsFiniteSet(Marked(s, n)) /\ Cardinality(Marked(s, n)) \in Nat
<1>1. IsFiniteSet(1..n) /\ Marked(s, n) \subseteq 1..n
  BY FS_Interval DEF Marked
<1> QED
  BY <1>1, FS_Subset, FS_CardinalityType

LEMMA MarkedAppend ==
  ASSUME NEW s \in Seq(Frame), NEW m \in Frame
  PROVE  /\ \A n \in DOMAIN s : Marked(Append(s, m), n) = Marked(s, n)
         /\ Cardinality(Marked(Append(s, m), Len(s) + 1)) =
                Cardinality(Marked(s, Len(s))) + (IF m.kind = "reflected" THEN 1 ELSE 0)
<1> DEFINE t == Append(s, m)
           l == Len(s)
<1>1. /\ l \in Nat /\ DOMAIN s = 1..l
      /\ \A i \in 1..l : t[i] = s[i]
      /\ t[l + 1] = m
  BY AppendIs
<1> HIDE DEF t, l
<1>2. ASSUME NEW n \in 0..l PROVE Marked(t, n) = Marked(s, n)
  <2>1. \A k \in 1..n : k \in 1..l
    BY <1>1
  <2> QED
    BY <1>1, <2>1 DEF Marked
<1>3. l \in 0..l /\ l + 1 \notin Marked(s, l) /\ IsFiniteSet(Marked(s, l))
  BY <1>1, MarkedIs DEF Marked
<1>4. CASE m.kind = "reflected"
  <2>1. Marked(t, l + 1) = Marked(t, l) \cup {l + 1}
    BY <1>1, <1>4 DEF Marked
  <2>2. Marked(t, l + 1) = Marked(s, l) \cup {l + 1}
    BY <1>2, <1>3, <2>1
  <2>3. Cardinality(Marked(t, l + 1)) = Cardinality(Marked(s, l)) + 1
    BY <1>3, <2>2, FS_AddElement
  <2> QED
    BY <1>1, <1>2, <1>4, <2>3 DEF t, l
<1>5. CASE m.kind # "reflected"
  <2>1. Marked(t, l + 1) = Marked(t, l)
    BY <1>1, <1>5 DEF Marked
  <2>2. Cardinality(Marked(t, l + 1)) = Cardinality(Marked(s, l)) + 0
    BY <1>1, <1>2, <1>3, <2>1, MarkedIs
  <2> QED
    BY <1>1, <1>2, <1>5, <2>2 DEF t, l
<1> QED
  BY <1>4, <1>5

LEMMA MarkedTail ==
  ASSUME NEW s \in Seq(Frame), s # <<>>, NEW n \in DOMAIN s
  PROVE  Cardinality(Marked(s, n)) =
            Cardinality(Marked(Tail(s), n - 1)) + (IF s[1].kind = "reflected" THEN 1 ELSE 0)
<1> DEFINE t == Tail(s)
           S == Marked(s, n) \ {1}
           T == Marked(t, n - 1)
<1>1. /\ Len(s) \in Nat \ {0} /\ DOMAIN s = 1..Len(s)
      /\ \A i \in 1..Len(s) - 1 : t[i] = s[i + 1]
  BY TailIs
<1>2. n \in Nat \ {0} /\ n <= Len(s)
  BY <1>1
<1> HIDE DEF t
<1>3. \A k \in T : k \in 1..Len(s) - 1 /\ k + 1 \in S
  BY <1>1, <1>2 DEF Marked
<1>4. \A k \in S : k \in Nat /\ k - 1 \in T
  <2> SUFFICES ASSUME NEW k \in S PROVE k \in Nat /\ k - 1 \in T
    OBVIOUS
  <2>1. k \in 1..n /\ k # 1 /\ s[k].kind = "reflected"
    BY DEF Marked
  <2>2. k - 1 \in 1..n - 1 /\ k - 1 \in 1..Len(s) - 1 /\ (k - 1) + 1 = k
    BY <1>1, <1>2, <2>1
  <2>3. t[k - 1] = s[k]
    BY <1>1, <2>2
  <2> QED
    BY <2>1, <2>2, <2>3 DEF Marked
<1>5. IsFiniteSet(T) /\ Cardinality(T) \in Nat /\ IsFiniteSet(Marked(s, n))
      /\ Cardinality(Marked(s, n)) \in Nat /\ IsFiniteSet(S)
  <2>1. n - 1 \in Nat
    BY <1>2
  <2> QED
    BY <1>2, <2>1, MarkedIs, FS_RemoveElement
<1>6. Cardinality(S) = Cardinality(T)
  <2> DEFINE f == [k \in T |-> k + 1]
  <2>1. f \in [T -> S]
    BY <1>3
  <2>2. \A i, j \in T : f[i] = f[j] => i = j
    BY <1>3
  <2>3. \A k \in S : \E i \in T : f[i] = k
    <3> SUFFICES ASSUME NEW k \in S PROVE \E i \in T : f[i] = k
      OBVIOUS
    <3>1. k - 1 \in T /\ f[k - 1] = k
      BY <1>4
    <3> QED
      BY <3>1
  <2> HIDE DEF f, S, T
  <2>4. f \in Bijection(T, S)
    BY <2>1, <2>2, <2>3 DEF Bijection, Injection, Surjection, IsInjective
  <2> QED
    BY <1>5, <2>4, FS_Bijection DEF ExistsBijection
<1>7. 1 \in Marked(s, n) <=> s[1].kind = "reflected"
  BY <1>1, <1>2 DEF Marked
<1> HIDE DEF S, T
<1>8. Cardinality(S) = IF 1 \in Marked(s, n) THEN Cardinality(Marked(s, n)) - 1
                       ELSE Cardinality(Marked(s, n))
  BY <1>5, FS_RemoveElement DEF S
<1>9. Cardinality(Marked(s, n)) = Cardinality(T) + (IF s[1].kind = "reflected" THEN 1 ELSE 0)
  BY <1>5, <1>6, <1>7, <1>8
<1> QED
  BY <1>9 DEF T, t

\* A message is appended to what has passed layer 4.
LEMMA ReadIs ==
  ASSUME IInv
  PROVE  /\ Got \in Nat
         /\ \A x \in {"reflected", "message"} : read' = Append(read, x) =>
               /\ Got' = Got + (IF x = "reflected" THEN 1 ELSE 0)
               /\ QueueDryFirst /\ (x = "message" => Got >= MaxMsg) => QueueDryFirst'
<1> DEFINE R == {k \in DOMAIN read : read[k] = "reflected"}
           l == Len(read)
<1>1. read \in Seq({"reflected", "message"})
  BY DEF IInv, TypeOK
<1>2. l \in Nat /\ DOMAIN read = 1..l /\ IsFiniteSet(1..l) /\ R \subseteq 1..l
  BY <1>1, FS_Interval
<1>3. IsFiniteSet(R) /\ Cardinality(R) \in Nat
  BY <1>2, FS_Subset, FS_CardinalityType
<1>4. ASSUME NEW x \in {"reflected", "message"}, read' = Append(read, x)
      PROVE  /\ Got' = Got + (IF x = "reflected" THEN 1 ELSE 0)
             /\ QueueDryFirst /\ (x = "message" => Got >= MaxMsg) => QueueDryFirst'
  <2>1. /\ DOMAIN read' = 1..l + 1 /\ read'[l + 1] = x
        /\ \A k \in 1..l : read'[k] = read[k]
    BY <1>1, <1>2, <1>4
  <2>2. {k \in DOMAIN read' : read'[k] = "reflected"} =
            IF x = "reflected" THEN R \cup {l + 1} ELSE R
    BY <1>2, <2>1
  <2>3. l + 1 \notin R
    BY <1>2
  <2>4. Got' = Got + (IF x = "reflected" THEN 1 ELSE 0)
    <3> HIDE DEF R
    <3>1. Cardinality(R \cup {l + 1}) = Cardinality(R) + 1
      BY <1>3, <2>3, FS_AddElement
    <3>2. Got' = Cardinality(IF x = "reflected" THEN R \cup {l + 1} ELSE R)
      BY <2>2 DEF Got
    <3>3. Got = Cardinality(R)
      BY DEF Got, R
    <3> QED
      BY <1>3, <3>1, <3>2, <3>3
  <2>5. ASSUME QueueDryFirst, x = "message" => Got >= MaxMsg PROVE QueueDryFirst'
    <3> SUFFICES ASSUME NEW i \in DOMAIN read', read'[i] = "message"
                 PROVE  Cardinality({k \in 1..i : read'[k] = "reflected"}) >= MaxMsg
      BY DEF QueueDryFirst
    <3>1. CASE i \in 1..l
      <4>1. \A k \in 1..i : read'[k] = read[k]
        BY <1>2, <2>1, <3>1
      <4>2. {k \in 1..i : read'[k] = "reflected"} = {k \in 1..i : read[k] = "reflected"}
        BY <4>1
      <4> QED
        BY <1>2, <2>1, <2>5, <3>1, <4>2 DEF QueueDryFirst
    <3>2. CASE i = l + 1
      <4>1. x = "message"
        BY <2>1, <3>2
      <4>2. {k \in 1..i : read'[k] = "reflected"} = R
        BY <2>1, <2>2, <3>2, <4>1
      <4> QED
        BY <2>5, <4>1, <4>2 DEF Got
    <3> QED
      BY <1>2, <2>1, <3>1, <3>2
  <2> QED
    BY <2>4, <2>5
<1> QED
  BY <1>3, <1>4 DEF Got

-----------------------------------------------------------------------------
(* The reflection queue first: the steps *)

LEMMA DryInvIs ==
  ASSUME IInv
  PROVE  /\ up \in Seq(Frame) /\ down \in Seq(Frame) /\ d2m.leader \in BOOLEAN
         /\ med.reflected \in Nat /\ MaxMsg \in Nat
         /\ \A n \in DOMAIN down : Cardinality(Marked(down, n)) \in Nat
         /\ Cardinality(Marked(down, Len(down))) \in Nat
<1>1. /\ up \in Seq(Frame) /\ down \in Seq(Frame) /\ d2m.leader \in BOOLEAN
      /\ med.reflected \in Nat /\ MaxMsg \in Nat
  BY HandshakeAssumption DEF IInv, TypeOK
<1>2. Len(down) \in Nat /\ \A n \in DOMAIN down : n \in Nat
  BY <1>1
<1> QED
  BY <1>1, <1>2, MarkedIs

\* What is under way to the servers loses its head or gets a frame.
LEMMA UpKeeps ==
  ASSUME IInv, UnblockedLate, Promoted => Promoted',
         \/ up' = up \/ up' = <<>> \/ (up # <<>> /\ up' = Tail(up))
         \/ \E m \in Frame : up' = Append(up, m) /\ (m.kind = "unblock" => Promoted')
  PROVE  \A i \in DOMAIN up' : up'[i].kind = "unblock" => Promoted'
<1>1. up \in Seq(Frame) /\ \A i \in DOMAIN up : up[i].kind = "unblock" => Promoted'
  BY DryInvIs DEF UnblockedLate
<1>2. CASE up' = up
  BY <1>1, <1>2
<1>3. CASE up' = <<>>
  BY <1>3
<1>4. CASE up # <<>> /\ up' = Tail(up)
  BY <1>1, <1>4, TailIs
<1>5. ASSUME NEW m \in Frame, up' = Append(up, m), m.kind = "unblock" => Promoted'
      PROVE  \A i \in DOMAIN up' : up'[i].kind = "unblock" => Promoted'
  <2>1. /\ Len(up) \in Nat /\ DOMAIN up = 1..Len(up) /\ DOMAIN up' = 1..Len(up) + 1
        /\ \A i \in DOMAIN up : up'[i] = up[i]
        /\ up'[Len(up) + 1] = m
    BY <1>1, <1>5, AppendIs
  <2>2. ASSUME NEW i \in DOMAIN up', up'[i].kind = "unblock" PROVE Promoted'
    <3>1. CASE i \in 1..Len(up)
      BY <1>1, <2>1, <2>2, <3>1
    <3>2. CASE i = Len(up) + 1
      BY <1>5, <2>1, <2>2, <3>2
    <3>3. Len(up) \in Nat /\ i \in 1..Len(up) + 1
      BY <2>1
    <3>4. i \in 1..Len(up) \/ i = Len(up) + 1
      BY <3>3
    <3> QED
      BY <3>1, <3>2, <3>4
  <2> QED
    BY <2>2
<1> QED
  BY <1>2, <1>3, <1>4, <1>5

\* The client sends something, or closes.
LEMMA ClientSends ==
  ASSUME IInv, DryInv, type' = type, d2m' = d2m, read' = read, down' = down, chat' = chat,
         med' = med, open' => open,
         \/ up' = up \/ up' = <<>>
         \/ \E m \in Frame : up' = Append(up, m) /\ (m.kind = "unblock" => Promoted)
  PROVE  DryInv'
<1>1. Promoted' <=> Promoted
  BY DEF Promoted
<1>2. \A i \in DOMAIN up' : up'[i].kind = "unblock" => Promoted'
  BY <1>1, UpKeeps DEF DryInv
<1>3. UnblockedLate'
  BY <1>1, <1>2 DEF DryInv, UnblockedLate
<1>4. QueueCounted'
  BY <1>1 DEF DryInv, QueueCounted, Got, Marked
<1>5. QueueDryFirst'
  BY DEF DryInv, QueueDryFirst
<1> QED
  BY <1>3, <1>4, <1>5 DEF DryInv

\* The pipeline takes a frame and passes it on.
LEMMA Consumed ==
  ASSUME IInv, DryInv, open, open', down # <<>>, down' = Tail(down), chat' = chat,
         med' = med, type' = type, NEW m, m = down[1],
         d2m'.leader <=> d2m.leader \/ m.kind = "leader",
         read' = IF m.kind = "reflected" /\ type = "full" THEN Append(read, "reflected")
                 ELSE IF m.kind = "message" THEN Append(read, "message") ELSE read,
         \A i \in DOMAIN up' : up'[i].kind = "unblock" => Promoted'
  PROVE  DryInv'
<1> DEFINE n == Cardinality(Marked(down, Len(down)))
           one == IF m.kind = "reflected" THEN 1 ELSE 0
<1>1. /\ down \in Seq(Frame) /\ med.reflected \in Nat /\ MaxMsg \in Nat /\ Got \in Nat
      /\ n \in Nat
  BY DryInvIs, ReadIs
<1>2. /\ Len(down) \in Nat \ {0} /\ DOMAIN down = 1..Len(down) /\ 1 \in DOMAIN down
      /\ down' \in Seq(Frame) /\ DOMAIN down' = 1..Len(down) - 1 /\ Len(down') = Len(down) - 1
      /\ \A i \in DOMAIN down' : i + 1 \in DOMAIN down /\ down'[i] = down[i + 1]
  BY <1>1, TailIs
<1>3. /\ UnblockedLate /\ QueueCounted /\ QueueDryFirst
      /\ Promoted => Promoted'
      /\ Promoted' => Promoted \/ m.kind = "leader"
      /\ Promoted' => type = "full"
  BY DEF DryInv, Promoted
<1>4. UnblockedLate'
  <2>1. \A i \in DOMAIN down' : down'[i].kind = "message" => chat.unblocked
    BY <1>2, <1>3 DEF UnblockedLate
  <2>2. chat.unblocked => Promoted'
    BY <1>3 DEF UnblockedLate
  <2> QED
    BY <2>1, <2>2 DEF UnblockedLate
<1>5. m.kind = "message" => Got >= MaxMsg
  BY <1>2, <1>3 DEF UnblockedLate, QueueCounted
<1>6. /\ type = "full" => Got' = Got + one
      /\ Got' \in Nat /\ Got' >= Got
      /\ QueueDryFirst'
  <2>1. CASE m.kind = "reflected" /\ type = "full"
    BY <1>1, <1>3, <2>1, ReadIs
  <2>2. CASE m.kind = "message"
    BY <1>1, <1>3, <1>5, <2>2, ReadIs
  <2>3. CASE read' = read /\ (m.kind # "reflected" \/ type # "full")
    <3>1. Got' = Got /\ QueueDryFirst'
      BY <1>3, <2>3 DEF Got, QueueDryFirst
    <3> QED
      BY <1>1, <2>3, <3>1
  <2> QED
    BY <2>1, <2>2, <2>3
<1>7. \A i \in DOMAIN down : Cardinality(Marked(down, i)) = Cardinality(Marked(down', i - 1)) + one
  <2>1. \A i \in DOMAIN down : Cardinality(Marked(down, i)) =
            Cardinality(Marked(Tail(down), i - 1)) + (IF down[1].kind = "reflected" THEN 1 ELSE 0)
    BY <1>1, MarkedTail
  <2> QED
    BY <2>1
<1>8. \A i \in Nat : Cardinality(Marked(down', i)) \in Nat
  BY MarkedIs
<1>9. Promoted' => Got' >= MaxMsg
  <2>1. CASE Promoted
    BY <1>1, <1>3, <1>6, <2>1 DEF QueueCounted
  <2>2. CASE m.kind = "leader" /\ type = "full"
    <3>1. Got + Cardinality(Marked(down, 1)) >= MaxMsg
      BY <1>2, <1>3, <2>2 DEF QueueCounted
    <3>2. Marked(down, 1) = {}
      <4>1. \A k \in 1..1 : k = 1
        OBVIOUS
      <4> QED
        BY <2>2, <4>1 DEF Marked
    <3>3. Cardinality(Marked(down, 1)) = 0
      BY <3>2, FS_EmptySet
    <3>4. Got >= MaxMsg
      BY <1>1, <3>1, <3>3
    <3> QED
      BY <1>1, <1>6, <3>4
  <2> QED
    BY <1>3, <2>1, <2>2
<1>10. ASSUME type = "full"
       PROVE  /\ Got' + Cardinality(Marked(down', Len(down'))) + med.reflected >= MaxMsg
              /\ \A i \in DOMAIN down' : down'[i].kind = "leader" =>
                    Got' + Cardinality(Marked(down', i)) >= MaxMsg
  <2>1. one \in Nat /\ Got' = Got + one
    BY <1>6, <1>10
  <2> HIDE DEF one
  <2>2. Got' + Cardinality(Marked(down', Len(down'))) + med.reflected >= MaxMsg
    <3>1. Len(down) \in DOMAIN down /\ Len(down') \in Nat
      BY <1>2
    <3>2. Cardinality(Marked(down', Len(down'))) \in Nat
            /\ n = Cardinality(Marked(down', Len(down'))) + one
      BY <1>2, <1>7, <1>8, <3>1
    <3>3. Got + n + med.reflected >= MaxMsg
      BY <1>3, <1>10 DEF QueueCounted
    <3> HIDE DEF n
    <3> QED
      BY <1>1, <2>1, <3>2, <3>3
  <2>3. ASSUME NEW i \in DOMAIN down', down'[i].kind = "leader"
        PROVE  Got' + Cardinality(Marked(down', i)) >= MaxMsg
    <3>1. i + 1 \in DOMAIN down /\ down[i + 1].kind = "leader" /\ i \in Nat /\ (i + 1) - 1 = i
      BY <1>2, <2>3
    <3>2. Got + Cardinality(Marked(down, i + 1)) >= MaxMsg
      BY <1>3, <1>10, <3>1 DEF QueueCounted
    <3>3. Cardinality(Marked(down', i)) \in Nat
          /\ Cardinality(Marked(down, i + 1)) = Cardinality(Marked(down', i)) + one
      BY <1>7, <1>8, <3>1
    <3> QED
      BY <1>1, <2>1, <3>2, <3>3
  <2> QED
    BY <2>2, <2>3
<1>11. QueueCounted'
  <2>1. type' = "full" => Got' + Cardinality(Marked(down', Len(down'))) + med'.reflected >= MaxMsg
    BY <1>10
  <2>2. type' = "full" => \A i \in DOMAIN down' : down'[i].kind = "leader" =>
                    Got' + Cardinality(Marked(down', i)) >= MaxMsg
    BY <1>10
  <2>3. med'.dry => med'.reflected = 0
    BY <1>3 DEF QueueCounted
  <2> QED
    BY <1>9, <2>1, <2>2, <2>3 DEF QueueCounted, Marked
<1> QED
  BY <1>4, <1>6, <1>11 DEF DryInv

\* A server sends a frame.
LEMMA Sent ==
  ASSUME IInv, DryInv, type' = type, d2m' = d2m, open' = open, read' = read,
         NEW m \in Frame, down' = Append(down, m), UnblockedLate',
         med'.dry => med'.reflected = 0, med'.reflected \in Nat,
         \/ m.kind = "reflected" /\ med'.reflected >= med.reflected - 1
         \/ m.kind # "reflected" /\ med'.reflected = med.reflected,
         m.kind = "leader" => med.reflected = 0
  PROVE  DryInv'
<1> DEFINE n == Cardinality(Marked(down, Len(down)))
           one == IF m.kind = "reflected" THEN 1 ELSE 0
<1>1. /\ down \in Seq(Frame) /\ med.reflected \in Nat /\ MaxMsg \in Nat /\ Got \in Nat
      /\ n \in Nat /\ \A i \in DOMAIN down : Cardinality(Marked(down, i)) \in Nat
      /\ QueueCounted /\ QueueDryFirst
  BY DryInvIs, ReadIs DEF DryInv
<1>2. /\ Len(down) \in Nat /\ DOMAIN down = 1..Len(down) /\ DOMAIN down' = 1..Len(down) + 1
      /\ Len(down') = Len(down) + 1
      /\ \A i \in DOMAIN down : down'[i] = down[i]
      /\ down'[Len(down) + 1] = m
  BY <1>1, AppendIs
<1>3. /\ \A i \in DOMAIN down : Marked(down', i) = Marked(down, i)
      /\ Cardinality(Marked(down', Len(down) + 1)) = n + one
  BY <1>1, MarkedAppend
<1>4. (Promoted' <=> Promoted) /\ Got' = Got /\ QueueDryFirst'
  BY <1>1 DEF Promoted, Got, QueueDryFirst
<1>5. ASSUME type = "full", open
      PROVE  /\ Got + Cardinality(Marked(down', Len(down'))) + med'.reflected >= MaxMsg
             /\ \A i \in DOMAIN down' : down'[i].kind = "leader" =>
                    Got + Cardinality(Marked(down', i)) >= MaxMsg
  <2>1. Got + n + med.reflected >= MaxMsg
    BY <1>1, <1>5 DEF QueueCounted
  <2>2. one \in Nat /\ one + med'.reflected >= med.reflected
    BY <1>1
  <2> HIDE DEF n, one
  <2>3. Got + Cardinality(Marked(down', Len(down'))) + med'.reflected >= MaxMsg
    BY <1>1, <1>2, <1>3, <2>1, <2>2
  <2>4. ASSUME NEW i \in DOMAIN down', down'[i].kind = "leader"
        PROVE  Got + Cardinality(Marked(down', i)) >= MaxMsg
    <3>1. CASE i \in DOMAIN down
      <4>1. Marked(down', i) = Marked(down, i) /\ down[i].kind = "leader"
        BY <1>2, <1>3, <2>4, <3>1
      <4> QED
        BY <1>1, <1>5, <3>1, <4>1 DEF QueueCounted
    <3>2. CASE i = Len(down) + 1
      <4>1. med.reflected = 0
        BY <1>2, <2>4, <3>2
      <4> QED
        BY <1>1, <1>3, <2>1, <2>2, <3>2, <4>1
    <3> QED
      BY <1>2, <3>1, <3>2
  <2> QED
    BY <2>3, <2>4
<1>6. QueueCounted'
  <2>1. type' = "full" /\ open' =>
          Got' + Cardinality(Marked(down', Len(down'))) + med'.reflected >= MaxMsg
    BY <1>4, <1>5
  <2>2. type' = "full" /\ open' => \A i \in DOMAIN down' : down'[i].kind = "leader" =>
          Got' + Cardinality(Marked(down', i)) >= MaxMsg
    BY <1>4, <1>5
  <2>3. Promoted' => Got' >= MaxMsg
    BY <1>1, <1>4 DEF QueueCounted
  <2> QED
    BY <2>1, <2>2, <2>3 DEF QueueCounted, Marked
<1> QED
  BY <1>4, <1>6 DEF DryInv

LEMMA CspFrames ==
  ASSUME IInv, down # <<>>
  PROVE  /\ Head(down) = down[1] /\ Head(down) \in Frame
         /\ Head(down).to = "csp" => Head(down).kind \in CspKind
         /\ Head(down).to # "csp" => Head(down).kind \in D2mKind
<1>1. Head(down) = down[1] /\ Head(down) \in Frame
  BY TailIs DEF IInv, TypeOK
<1> QED
  BY <1>1 DEF Frame

LEMMA DryReceive == ASSUME IInv, DryInv, Receive PROVE DryInv'
<1> DEFINE m == Head(down)
<1>1. /\ open /\ down # <<>> /\ chat' = chat /\ med' = med
      /\ down' = (IF open' THEN Tail(down) ELSE <<>>)
      /\ m.to = "csp" => HandleCspMessage(m)
      /\ m.to # "csp" => HandleD2mMessage(m)
  BY DEF Receive, servers
<1>2. m = down[1] /\ m \in Frame
      /\ (m.to = "csp" => m.kind \in CspKind) /\ (m.to # "csp" => m.kind \in D2mKind)
  BY <1>1, CspFrames
<1>3. UnblockedLate /\ QueueCounted /\ QueueDryFirst
  BY DEF DryInv
<1>4. CASE Throw
  <2>1. /\ open' = FALSE /\ up' = <<>> /\ down' = <<>> /\ type' = type /\ d2m' = d2m
        /\ read' = read
    BY <1>1, <1>4 DEF Throw
  <2>2. (Promoted' <=> Promoted) /\ Got' = Got /\ QueueDryFirst'
    BY <1>3, <2>1 DEF Promoted, Got, QueueDryFirst
  <2>3. UnblockedLate'
    BY <1>1, <1>3, <2>1, <2>2 DEF UnblockedLate
  <2>4. QueueCounted'
    BY <1>1, <1>3, <2>1, <2>2 DEF QueueCounted
  <2> QED
    BY <2>2, <2>3, <2>4 DEF DryInv
<1>5. CASE ~Throw /\ m.to = "csp"
  <2>1. /\ type' = type /\ d2m' = d2m /\ open' = open
        /\ m.kind \in {"server-hello", "login-ack", "payload", "message", "discarded"}
        /\ read' = (IF m.kind = "message" THEN Append(read, "message") ELSE read)
        /\ \/ up' = up
           \/ up' = Append(up, Csp("login", csp.csn + 1))
           \/ up' = Append(up, Csp("payload", csp.csn + 1))
    BY <1>1, <1>5 DEF HandleCspMessage, Readable, CspComplete, HandleServerHello,
       HandleLoginAck, HandlePayload
  <2>2. csp.csn \in Nat
    BY DEF IInv, TypeOK
  <2>3. \/ up' = up
        \/ \E f \in Frame : up' = Append(up, f) /\ (f.kind = "unblock" => Promoted')
    <3>1. \A k \in {"login", "payload"} : Csp(k, csp.csn + 1) \in Frame
                                          /\ Csp(k, csp.csn + 1).kind # "unblock"
      BY <2>2, Frames DEF CspKind
    <3> QED
      BY <2>1, <3>1
  <2>4. Promoted' <=> Promoted
    BY <2>1 DEF Promoted
  <2>5. \A i \in DOMAIN up' : up'[i].kind = "unblock" => Promoted'
    BY <1>3, <2>3, <2>4, UpKeeps
  <2>6. d2m'.leader <=> d2m.leader \/ m.kind = "leader"
    BY <2>1
  <2>7. read' = IF m.kind = "reflected" /\ type = "full" THEN Append(read, "reflected")
                ELSE IF m.kind = "message" THEN Append(read, "message") ELSE read
    BY <2>1
  <2>8. open' /\ down' = Tail(down)
    BY <1>1, <2>1
  <2> HIDE DEF m
  <2> QED
    BY <1>1, <1>2, <2>1, <2>5, <2>6, <2>7, <2>8, Consumed
<1>6. CASE ~Throw /\ m.to # "csp"
  <2>1. /\ type' = type /\ open' = open
        /\ \/ /\ m.kind = "server-hello" /\ d2m' = [d2m EXCEPT !.state = "complete"]
              /\ up' = Append(up, D2m("client-hello")) /\ read' = read
           \/ /\ d2m' = [d2m EXCEPT !.info = TRUE, !.dry = @ \/ m.kind = "dry",
                                    !.leader = @ \/ m.kind = "leader"]
              /\ read' = (IF m.kind = "reflected" /\ type = "full"
                          THEN Append(read, "reflected") ELSE read)
              /\ up' = up
    BY <1>1, <1>6 DEF HandleD2mMessage, HandleD2mHello, HandleD2mPayload
  <2>2. m.kind # "message"
    BY <1>2, <1>6 DEF D2mKind
  <2>3. d2m'.leader <=> d2m.leader \/ m.kind = "leader"
    <3>1. d2m \in [state : {"server-hello", "complete"},
                   info : BOOLEAN, dry : BOOLEAN, leader : BOOLEAN]
      BY DEF IInv, TypeOK
    <3>2. CASE m.kind = "server-hello" /\ d2m' = [d2m EXCEPT !.state = "complete"]
      <4>1. d2m'.leader = d2m.leader
        BY <3>1, <3>2
      <4> QED
        BY <3>2, <4>1
    <3>3. CASE d2m' = [d2m EXCEPT !.info = TRUE, !.dry = @ \/ m.kind = "dry",
                                  !.leader = @ \/ m.kind = "leader"]
      <4>1. d2m'.leader = (d2m.leader \/ m.kind = "leader")
        BY <3>1, <3>3
      <4> QED
        BY <4>1
    <3> QED
      BY <2>1, <3>2, <3>3
  <2>4. Promoted => Promoted'
    BY <2>1, <2>3 DEF Promoted
  <2>5. \/ up' = up
        \/ \E f \in Frame : up' = Append(up, f) /\ (f.kind = "unblock" => Promoted')
    <3>1. D2m("client-hello") \in Frame /\ D2m("client-hello").kind # "unblock"
      BY Frames DEF D2mKind
    <3> QED
      BY <2>1, <3>1
  <2>6. \A i \in DOMAIN up' : up'[i].kind = "unblock" => Promoted'
    BY <1>3, <2>4, <2>5, UpKeeps
  <2>7. read' = IF m.kind = "reflected" /\ type = "full" THEN Append(read, "reflected")
                ELSE IF m.kind = "message" THEN Append(read, "message") ELSE read
    BY <2>1, <2>2
  <2>8. open' /\ down' = Tail(down)
    BY <1>1, <2>1
  <2> HIDE DEF m
  <2> QED
    BY <1>1, <1>2, <2>1, <2>3, <2>6, <2>7, <2>8, Consumed
<1> QED
  BY <1>4, <1>5, <1>6

LEMMA DryClient ==
  ASSUME IInv, DryInv,
         \/ Unblock \/ StartKeepAlive \/ EchoTick \/ DropDevice
         \/ \E t \in Task : PassGate(t) \/ Write(t)
  PROVE  DryInv'
<1>1. type' = type /\ d2m' = d2m /\ read' = read /\ down' = down /\ chat' = chat /\ med' = med
  BY DEF Unblock, StartKeepAlive, EchoTick, DropDevice, PassGate, Write, servers
<1>2. open' => open
  BY DEF Unblock, StartKeepAlive, EchoTick, DropDevice, PassGate, Write
<1>3. \/ up' = up \/ up' = <<>>
      \/ up' = Append(up, Csp("unblock", csp.csn + 1)) /\ Promoted
      \/ up' = Append(up, Csp("payload", csp.csn + 1))
      \/ up' = Append(up, D2m("payload")) \/ up' = Append(up, D2m("drop-device"))
  BY DEF Unblock, StartKeepAlive, EchoTick, DropDevice, PassGate, Write, SendPayload, Promoted
<1>4. csp.csn \in Nat
  BY DEF IInv, TypeOK
<1>5. /\ Csp("unblock", csp.csn + 1) \in Frame
      /\ Csp("payload", csp.csn + 1) \in Frame /\ Csp("payload", csp.csn + 1).kind # "unblock"
      /\ D2m("payload") \in Frame /\ D2m("payload").kind # "unblock"
      /\ D2m("drop-device") \in Frame /\ D2m("drop-device").kind # "unblock"
  BY <1>4, Frames DEF CspKind, D2mKind
<1>6. \/ up' = up \/ up' = <<>>
      \/ \E m \in Frame : up' = Append(up, m) /\ (m.kind = "unblock" => Promoted)
  BY <1>3, <1>5
<1> QED
  BY <1>1, <1>2, <1>6, ClientSends

\* What is said of the messages under way, when a server sends a frame.
LEMMA DownKeeps ==
  ASSUME IInv, UnblockedLate, NEW m \in Frame, down' = Append(down, m),
         chat.unblocked => chat'.unblocked, m.kind = "message" => chat'.unblocked
  PROVE  \A i \in DOMAIN down' : down'[i].kind = "message" => chat'.unblocked
<1>1. down \in Seq(Frame) /\ \A i \in DOMAIN down : down[i].kind = "message" => chat'.unblocked
  BY DryInvIs DEF UnblockedLate
<1>2. /\ Len(down) \in Nat /\ DOMAIN down = 1..Len(down) /\ DOMAIN down' = 1..Len(down) + 1
      /\ \A i \in DOMAIN down : down'[i] = down[i]
      /\ down'[Len(down) + 1] = m
  BY <1>1, AppendIs
<1>3. ASSUME NEW i \in DOMAIN down', down'[i].kind = "message" PROVE chat'.unblocked
  <2>1. i \in 1..Len(down) \/ i = Len(down) + 1
    BY <1>2
  <2> QED
    BY <1>1, <1>2, <1>3, <2>1
<1> QED
  BY <1>3

\* A server takes a frame and sends none.
LEMMA Unsent ==
  ASSUME IInv, DryInv, type' = type, d2m' = d2m, open' = open, read' = read, down' = down,
         UnblockedLate', med'.reflected = med.reflected, med'.dry = med.dry
  PROVE  DryInv'
<1>1. (Promoted' <=> Promoted) /\ Got' = Got /\ QueueDryFirst'
  BY DEF Promoted, Got, QueueDryFirst, DryInv
<1>2. QueueCounted'
  BY <1>1 DEF DryInv, QueueCounted, Marked
<1> QED
  BY <1>1, <1>2 DEF DryInv

LEMMA DryChatReceives == ASSUME IInv, DryInv, ChatReceives PROVE DryInv'
<1> DEFINE m == Head(up)
<1>1. /\ up # <<>> /\ up' = Tail(up) /\ type' = type /\ d2m' = d2m /\ open' = open
      /\ read' = read /\ med' = med
  BY DEF ChatReceives, client
<1>2. \/ down' = down /\ chat' = [chat EXCEPT !.failed = TRUE]
      \/ /\ chat' = [chat EXCEPT !.state = "login", !.ssn = 1]
         /\ down' = Append(down, Csp("server-hello", 1))
      \/ /\ chat' = [chat EXCEPT !.state = "ready", !.ssn = 2, !.csn = 2]
         /\ down' = Append(down, Csp("login-ack", 2))
      \/ /\ chat' = [chat EXCEPT !.csn = @ + 1, !.unblocked = @ \/ m.kind = "unblock"]
         /\ down' = down
  BY DEF ChatReceives, ToClient
<1>3. chat \in ChatType /\ chat.unblocked \in BOOLEAN
  BY DEF IInv, TypeOK, ChatType
<1>4. UnblockedLate /\ QueueCounted /\ (Promoted' <=> Promoted)
  BY <1>1 DEF DryInv, Promoted
<1>5. /\ chat.unblocked => chat'.unblocked
      /\ chat'.unblocked => chat.unblocked \/ m.kind = "unblock"
  <2>1. CASE chat' = [chat EXCEPT !.csn = @ + 1, !.unblocked = @ \/ m.kind = "unblock"]
    <3>1. chat'.unblocked = (chat.unblocked \/ m.kind = "unblock")
      BY <1>3, <2>1 DEF ChatType
    <3> QED
      BY <3>1
  <2>2. CASE chat'.unblocked = chat.unblocked
    BY <2>2
  <2> QED
    BY <1>2, <1>3, <2>1, <2>2 DEF ChatType
<1>6. m = up[1] /\ 1 \in DOMAIN up
  BY <1>1, DryInvIs, TailIs
<1>7. chat'.unblocked => Promoted'
  BY <1>4, <1>5, <1>6 DEF UnblockedLate
<1>8. \A i \in DOMAIN up' : up'[i].kind = "unblock" => Promoted'
  BY <1>1, <1>4, UpKeeps
<1> HIDE DEF m
<1>9. CASE down' = down
  <2>1. UnblockedLate'
    BY <1>4, <1>5, <1>7, <1>8, <1>9 DEF UnblockedLate
  <2> QED
    BY <1>1, <1>9, <2>1, Unsent
<1>10. ASSUME NEW f \in Frame, down' = Append(down, f),
              f.kind \in {"server-hello", "login-ack"}
       PROVE  DryInv'
  <2>1. UnblockedLate'
    <3>1. \A i \in DOMAIN down' : down'[i].kind = "message" => chat'.unblocked
      BY <1>4, <1>5, <1>10, DownKeeps
    <3> QED
      BY <1>7, <1>8, <3>1 DEF UnblockedLate
  <2>2. /\ med'.dry => med'.reflected = 0
        /\ med'.reflected \in Nat /\ med'.reflected = med.reflected
        /\ f.kind # "reflected" /\ f.kind # "leader"
    BY <1>1, <1>4, <1>10, DryInvIs DEF QueueCounted
  <2> QED
    BY <1>1, <1>10, <2>1, <2>2, Sent
<1>11. /\ Csp("server-hello", 1) \in Frame /\ Csp("server-hello", 1).kind = "server-hello"
       /\ Csp("login-ack", 2) \in Frame /\ Csp("login-ack", 2).kind = "login-ack"
  BY Frames DEF CspKind
<1> QED
  BY <1>2, <1>9, <1>10, <1>11

LEMMA DryChatSends == ASSUME IInv, DryInv, ChatSends PROVE DryInv'
<1>1. /\ up' = up /\ type' = type /\ d2m' = d2m /\ open' = open /\ read' = read /\ med' = med
  BY DEF ChatSends, client
<1>2. chat.ssn \in Nat /\ chat \in ChatType
  BY DEF IInv, TypeOK, ChatType
<1>3. /\ chat'.unblocked = chat.unblocked
      /\ \E kind \in {"payload", "discarded", "message"} :
            /\ down' = Append(down, Csp(kind, chat.ssn + 1))
            /\ kind = "message" => chat.unblocked
  BY <1>2 DEF ChatSends, ToClient, ChatType
<1>4. PICK kind \in {"payload", "discarded", "message"} :
            /\ down' = Append(down, Csp(kind, chat.ssn + 1))
            /\ kind = "message" => chat.unblocked
  BY <1>3
<1> DEFINE m == Csp(kind, chat.ssn + 1)
<1>5. m \in Frame /\ m.kind = kind
  BY <1>2, Frames DEF CspKind
<1>6. down' = Append(down, m)
  BY <1>4
<1> HIDE DEF m
<1>7. UnblockedLate /\ QueueCounted /\ (Promoted' <=> Promoted)
  BY <1>1 DEF DryInv, Promoted
<1>8. UnblockedLate'
  <2>1. \A i \in DOMAIN down' : down'[i].kind = "message" => chat'.unblocked
    BY <1>3, <1>4, <1>5, <1>6, <1>7, DownKeeps
  <2>2. \A i \in DOMAIN up' : up'[i].kind = "unblock" => Promoted'
    BY <1>1, <1>7 DEF UnblockedLate
  <2> QED
    BY <1>3, <1>7, <2>1, <2>2 DEF UnblockedLate
<1>9. /\ med'.dry => med'.reflected = 0
      /\ med'.reflected \in Nat /\ med'.reflected = med.reflected
      /\ m.kind # "reflected" /\ m.kind # "leader"
  BY <1>1, <1>5, <1>7, DryInvIs DEF QueueCounted
<1> QED
  BY <1>1, <1>5, <1>6, <1>8, <1>9, Sent

LEMMA DryMediator ==
  ASSUME IInv, DryInv, MediatorReceives \/ MediatorHello \/ MediatorSends \/ MediatorErrs
  PROVE  DryInv'
<1>1. /\ type' = type /\ d2m' = d2m /\ open' = open /\ read' = read /\ chat' = chat
      /\ up' = up \/ (up # <<>> /\ up' = Tail(up))
  BY DEF MediatorReceives, MediatorHello, MediatorSends, MediatorErrs, client
<1>2. UnblockedLate /\ QueueCounted /\ (Promoted' <=> Promoted)
  BY <1>1 DEF DryInv, Promoted
<1>3. \A i \in DOMAIN up' : up'[i].kind = "unblock" => Promoted'
  BY <1>1, <1>2, UpKeeps
<1>4. /\ med \in [state : {"start", "hello", "ready"}, reflected : 0..MaxMsg,
                  dry : BOOLEAN, leader : BOOLEAN, faults : 0..1]
      /\ med.reflected \in Nat
  BY DryInvIs DEF IInv, TypeOK
<1>5. CASE down' = down /\ med' = med
  <2>1. UnblockedLate'
    BY <1>1, <1>2, <1>3, <1>5 DEF UnblockedLate
  <2> QED
    BY <1>1, <1>5, <2>1, Unsent
<1>6. ASSUME NEW kind \in D2mKind, down' = Append(down, D2m(kind)), kind # "message",
             med'.dry => med'.reflected = 0, med'.reflected \in Nat,
             \/ kind = "reflected" /\ med'.reflected >= med.reflected - 1
             \/ kind # "reflected" /\ med'.reflected = med.reflected,
             kind = "leader" => med.reflected = 0
      PROVE  DryInv'
  <2> DEFINE m == D2m(kind)
  <2>1. m \in Frame /\ m.kind = kind /\ down' = Append(down, m)
    BY <1>6, Frames
  <2> HIDE DEF m
  <2>2. UnblockedLate'
    <3>1. \A i \in DOMAIN down' : down'[i].kind = "message" => chat'.unblocked
      BY <1>1, <1>2, <1>6, <2>1, DownKeeps
    <3> QED
      BY <1>1, <1>2, <1>3, <3>1 DEF UnblockedLate
  <2> QED
    BY <1>1, <1>6, <2>1, <2>2, Sent
<1>7. med.dry => med.reflected = 0
  BY <1>2 DEF QueueCounted
<1>8. {"server-hello", "old-server-hello", "reflected", "dry", "leader", "server-info"} \subseteq D2mKind
  BY DEF D2mKind
<1>9. CASE MediatorReceives
  <2>1. CASE down' = down /\ med' = med
    BY <1>5, <2>1
  <2>2. CASE med' = [med EXCEPT !.state = "ready"] /\ down' = Append(down, D2m("server-info"))
    <3>1. med'.dry = med.dry /\ med'.reflected = med.reflected
      BY <1>4, <2>2
    <3> QED
      BY <1>4, <1>6, <1>7, <1>8, <2>2, <3>1
  <2> QED
    BY <1>9, <2>1, <2>2 DEF MediatorReceives, ToClient
<1>10. CASE MediatorHello \/ MediatorErrs
  <2>1. med'.dry = med.dry /\ med'.reflected = med.reflected
    BY <1>4, <1>10 DEF MediatorHello, MediatorErrs
  <2>2. PICK kind \in {"server-hello", "old-server-hello", "server-info", "reflected"} :
            down' = Append(down, D2m(kind))
    BY <1>10 DEF MediatorHello, MediatorErrs, ToClient
  <2>3. med'.reflected >= med.reflected - 1
    BY <1>4, <2>1
  <2> QED
    BY <1>4, <1>6, <1>7, <1>8, <2>1, <2>2, <2>3
<1>11. CASE MediatorSends
  <2>1. CASE med.reflected > 0 /\ down' = Append(down, D2m("reflected"))
             /\ med' = [med EXCEPT !.reflected = @ - 1]
    <3>1. med'.dry = med.dry /\ med'.reflected = med.reflected - 1
      BY <1>4, <2>1
    <3>2. med'.reflected \in Nat /\ med'.reflected >= med.reflected - 1 /\ ~med.dry
      BY <1>4, <1>7, <2>1, <3>1
    <3> QED
      BY <1>6, <1>8, <2>1, <3>1, <3>2
  <2>2. CASE med.reflected = 0 /\ down' = Append(down, D2m("dry"))
             /\ med' = [med EXCEPT !.dry = TRUE]
    <3>1. med'.reflected = 0
      BY <1>4, <2>2
    <3> QED
      BY <1>6, <1>8, <2>2, <3>1
  <2>3. CASE med.dry /\ down' = Append(down, D2m("leader")) /\ med' = [med EXCEPT !.leader = TRUE]
    <3>1. med'.reflected = 0 /\ med.reflected = 0
      BY <1>4, <1>7, <2>3
    <3> QED
      BY <1>6, <1>8, <2>3, <3>1
  <2> QED
    BY <1>11, <2>1, <2>2, <2>3 DEF MediatorSends, ToClient
<1> QED
  BY <1>9, <1>10, <1>11

\* No message of the chat server passes layer 4 before the reflection queue did:
\* the server is unblocked after the promotion, and the promotion comes after
\* every message of the queue (Layer3Encoder.start, D2M reflectionQueueDry).
THEOREM ReflectionQueueFirst == Spec => []QueueDryFirst
<1>1. Init => DryInv
  <2> SUFFICES ASSUME Init PROVE DryInv
    OBVIOUS
  <2>1. UnblockedLate
    <3>1. \A i \in DOMAIN up : up[i].kind # "unblock"
      BY Frames DEF Init, CspKind
    <3> QED
      BY <3>1 DEF Init, UnblockedLate
  <2>2. QueueCounted
    <3>1. Got = 0 /\ Cardinality(Marked(down, Len(down))) = 0 /\ MaxMsg \in Nat
      <4>1. read = <<>> /\ down = <<>>
        BY DEF Init
      <4>2. {k \in DOMAIN read : read[k] = "reflected"} = {} /\ Marked(down, Len(down)) = {}
        BY <4>1 DEF Marked
      <4> QED
        BY <4>2, FS_EmptySet, HandshakeAssumption DEF Got
    <3> QED
      BY <3>1 DEF Init, QueueCounted, Promoted
  <2>3. QueueDryFirst
    BY DEF Init, QueueDryFirst
  <2> QED
    BY <2>1, <2>2, <2>3 DEF DryInv
<1>2. IInv /\ DryInv /\ [Next]_vars => DryInv'
  <2> SUFFICES ASSUME IInv, DryInv, [Next]_vars PROVE DryInv'
    OBVIOUS
  <2>1. CASE UNCHANGED vars
    <3>1. /\ type' = type /\ d2m' = d2m /\ read' = read /\ down' = down /\ chat' = chat
          /\ med' = med /\ open' = open /\ up' = up
      BY <2>1 DEF vars, client, servers
    <3> QED
      BY <3>1, ClientSends
  <2>2. CASE Servers
    BY <2>2, DryChatReceives, DryChatSends, DryMediator DEF Servers
  <2> QED
    BY <2>1, <2>2, DryReceive, DryClient DEF Next
<1>3. DryInv => QueueDryFirst
  BY DEF DryInv
<1> QED
  BY <1>1, <1>2, <1>3, Invariance, PTL DEF Spec

-----------------------------------------------------------------------------
(* The closing of a connection: the invariant *)

Kind  == {"message", "alert", "alert-stop", "bad"}
Alert == {"alert", "alert-stop"}

\* The close-errors among the frames s.
Held(s) == Cardinality({k \in DOMAIN s : s[k] \in Alert})

Remote == closed.type = "normal" /\ closed.origin = "remote"

\* Where the frames that hold close-errors are: handled or still to be decoded,
\* unless the readable side is settled and has dropped what was left.
AlertsCounted ==
    /\ alerts.handled <= alerts.sent /\ alerts.sent <= sent
    /\ readable = "open" => alerts.handled + Held(rx) = alerts.sent

\* done is resolved with the readable side or, before it, by a close that is
\* not a remote one; it is not resolved before the event is raised.
DoneFits ==
    /\ readable # "open" => done
    /\ done => closed # Closing!Open
    /\ readable = "open" /\ done => ~Remote

ClosingInv == Closing!TypeOK /\ AlertsCounted /\ DoneFits /\ AlertsHandled

LEMMA HeldNone == Held(<<>>) = 0
<1>1. {k \in DOMAIN <<>> : <<>>[k] \in Alert} = {}
  OBVIOUS
<1> QED
  BY <1>1, FS_EmptySet DEF Held

LEMMA HeldAppend ==
  ASSUME NEW s \in Seq(Kind), NEW x \in Kind
  PROVE  /\ Append(s, x) \in Seq(Kind) /\ Held(s) \in Nat
         /\ Held(Append(s, x)) = Held(s) + (IF x \in Alert THEN 1 ELSE 0)
<1> DEFINE t == Append(s, x)
           l == Len(s)
           S == {k \in DOMAIN s : s[k] \in Alert}
           T == {k \in DOMAIN t : t[k] \in Alert}
<1>1. /\ t \in Seq(Kind)
      /\ l \in Nat /\ DOMAIN s = 1..l /\ DOMAIN t = 1..l + 1
      /\ \A i \in 1..l : t[i] = s[i]
      /\ t[l + 1] = x
  OBVIOUS
<1> HIDE DEF t, l
<1>2. /\ l + 1 \notin S /\ S \subseteq 1..l
      /\ T = IF x \in Alert THEN S \cup {l + 1} ELSE S
  BY <1>1
<1>3. IsFiniteSet(S) /\ Cardinality(S) \in Nat
  <2>1. IsFiniteSet(1..l)
    BY <1>1, FS_Interval
  <2> QED
    BY <1>2, <2>1, FS_Subset, FS_CardinalityType
<1> HIDE DEF S, T
<1>4. Cardinality(T) = Cardinality(S) + (IF x \in Alert THEN 1 ELSE 0)
  <2>1. CASE x \in Alert
    BY <1>2, <1>3, <2>1, FS_AddElement
  <2>2. CASE x \notin Alert
    BY <1>2, <1>3, <2>2
  <2> QED
    BY <2>1, <2>2
<1> QED
  BY <1>1, <1>3, <1>4 DEF Held, S, T, t

LEMMA HeldTail ==
  ASSUME NEW s \in Seq(Kind), s # <<>>
  PROVE  /\ Head(s) \in Kind /\ Tail(s) \in Seq(Kind) /\ Held(Tail(s)) \in Nat
         /\ Held(s) = Held(Tail(s)) + (IF Head(s) \in Alert THEN 1 ELSE 0)
<1> DEFINE t == Tail(s)
           l == Len(s)
           S == {k \in DOMAIN s : s[k] \in Alert}
           T == {k \in DOMAIN t : t[k] \in Alert}
           R == S \ {1}
<1>1. /\ t \in Seq(Kind) /\ Head(s) \in Kind /\ Head(s) = s[1]
      /\ l \in Nat \ {0} /\ DOMAIN s = 1..l /\ DOMAIN t = 1..l - 1
      /\ \A i \in 1..l - 1 : t[i] = s[i + 1]
  OBVIOUS
<1> HIDE DEF t, l
<1>2. /\ S \subseteq 1..l /\ T \subseteq 1..l - 1
      /\ S = IF Head(s) \in Alert THEN R \cup {1} ELSE R
  BY <1>1
<1>3. IsFiniteSet(1..l) /\ IsFiniteSet(1..l - 1)
  BY <1>1, FS_Interval
<1>4. IsFiniteSet(S) /\ IsFiniteSet(T) /\ IsFiniteSet(R) /\ 1 \notin R
  BY <1>2, <1>3, FS_Subset
<1>5. Cardinality(R) = Cardinality(T)
  <2> DEFINE f == [k \in T |-> k + 1]
  <2>1. \A k \in T : k \in Nat /\ k + 1 \in R
    BY <1>1
  <2>2. \A k \in R : k - 1 \in T
    BY <1>1
  <2>3. f \in Bijection(T, R)
    <3>1. f \in [T -> R]
      BY <2>1
    <3>2. \A a, b \in T : f[a] = f[b] => a = b
      BY <2>1
    <3>3. \A b \in R : \E a \in T : f[a] = b
      <4> TAKE b \in R
      <4>1. b - 1 \in T /\ b \in Nat
        BY <1>1, <2>2
      <4> QED
        BY <4>1
    <3> HIDE DEF f, T, R
    <3> QED
      BY <3>1, <3>2, <3>3 DEF Bijection, Injection, Surjection, IsInjective
  <2> HIDE DEF f, T, R
  <2> QED
    BY <1>4, <2>3, FS_Bijection DEF ExistsBijection
<1>6. Cardinality(R) \in Nat
  BY <1>4, FS_CardinalityType
<1> HIDE DEF S, T, R
<1>7. Cardinality(S) = Cardinality(T) + (IF Head(s) \in Alert THEN 1 ELSE 0)
  <2>1. CASE Head(s) \in Alert
    BY <1>2, <1>4, <1>5, <1>6, <2>1, FS_AddElement
  <2>2. CASE Head(s) \notin Alert
    BY <1>2, <1>5, <1>6, <2>2
  <2> QED
    BY <2>1, <2>2
<1> QED
  BY <1>1, <1>5, <1>6, <1>7 DEF Held, S, T, t

-----------------------------------------------------------------------------
(* The steps of the parts *)

ErrType  == {"none", "closed", "hint", "fatal"}
Raised   == [type : {"normal", "error"}, origin : {"local", "remote", "unknown"},
             hint : BOOLEAN]

LEMMA QueuesErrored ==
  ASSUME Closing!TypeOK, NEW e \in ErrType
  PROVE  Closing!ErrorQueues(e) \in [decoder : ErrType, encoder : ErrType]
<1>1. err \in [decoder : ErrType, encoder : ErrType]
  BY DEF Closing!TypeOK, ErrType
<1> QED
  BY <1>1 DEF Closing!ErrorQueues

\* What raising the event does: only the first close counts, and done follows at
\* once unless it is a remote one.
LEMMA Raising ==
  ASSUME ClosingInv, NEW info \in Raised, NEW finished \in BOOLEAN,
         Closing!RaiseAnd(info, finished)
  PROVE  /\ err' \in [decoder : ErrType, encoder : ErrType]
         /\ closed' = (IF closed = Closing!Open THEN info ELSE closed)
         /\ closed' \in Raised /\ closed' # Closing!Open
         /\ done' \in BOOLEAN /\ (done => done')
         /\ finished => done'
         /\ done' => \/ done \/ finished
                     \/ closed = Closing!Open
                            /\ (info.origin = "local" \/ info.type = "error")
<1>1. /\ closed' = (IF closed = Closing!Open THEN info ELSE closed)
      /\ done' = \/ done \/ finished
                 \/ closed = Closing!Open
                        /\ (info.origin = "local" \/ info.type = "error")
      /\ err' = (IF closed = Closing!Open THEN Closing!ErrorQueues("closed") ELSE err)
  BY DEF Closing!RaiseAnd
<1>2. err' \in [decoder : ErrType, encoder : ErrType]
  <2>1. Closing!ErrorQueues("closed") \in [decoder : ErrType, encoder : ErrType]
    BY QueuesErrored DEF ClosingInv, ErrType
  <2> QED
    BY <1>1, <2>1 DEF ClosingInv, Closing!TypeOK, ErrType
<1>3. closed \in {Closing!Open} \cup Raised /\ Closing!Open.type = "none"
  BY DEF ClosingInv, Closing!TypeOK, Raised, Closing!Open
<1>4. \A x \in Raised : x.type # "none"
  BY DEF Raised
<1> QED
  BY <1>1, <1>2, <1>3, <1>4

LEMMA Infos ==
  /\ \A t \in {"normal", "error"}, o \in {"local", "remote", "unknown"}, h \in BOOLEAN :
        /\ Closing!Info(t, o, h) \in Raised
        /\ Closing!Info(t, o, h).type = t /\ Closing!Info(t, o, h).origin = o
  /\ \A h \in BOOLEAN :
        /\ Closing!Broken(h) \in Raised
        /\ Closing!Broken(h).type = "error"
  BY DEF Closing!Info, Closing!Broken, Raised

\* A close while the readable side goes on.
LEMMA RaisingKeeps ==
  ASSUME ClosingInv, NEW info \in Raised, Closing!Raise(info),
         UNCHANGED <<readable, alerts>>
  PROVE  DoneFits' /\ AlertsHandled'
<1>1. Closing!RaiseAnd(info, FALSE)
  BY DEF Closing!Raise
<1>2. /\ closed' = (IF closed = Closing!Open THEN info ELSE closed)
      /\ closed' # Closing!Open /\ (done => done')
      /\ done' => \/ done
                  \/ closed = Closing!Open
                        /\ (info.origin = "local" \/ info.type = "error")
  BY <1>1, Raising
<1>3. info.origin = "local" \/ info.type = "error" =>
        ~(info.type = "normal" /\ info.origin = "remote")
  OBVIOUS
<1>4. DoneFits'
  BY <1>2, <1>3 DEF ClosingInv, DoneFits, Remote
<1>5. AlertsHandled'
  BY <1>2, <1>3 DEF ClosingInv, DoneFits, Remote, AlertsHandled, Closing!AlertsHandled
<1> QED
  BY <1>4, <1>5

\* A step that does not touch what the invariant is about.
LEMMA Untouched ==
  ASSUME ClosingInv, UNCHANGED <<rx, sent, readable, closed, done, alerts>>
  PROVE  AlertsCounted' /\ DoneFits' /\ AlertsHandled'
<1>1. AlertsCounted'
  BY DEF ClosingInv, AlertsCounted
<1>2. DoneFits' /\ AlertsHandled'
  BY DEF ClosingInv, DoneFits, Remote, AlertsHandled, Closing!AlertsHandled
<1> QED
  BY <1>1, <1>2

\* The readable side settles: what is still to be decoded is lost, which matters
\* only if the other side has closed and no codec threw.
LEMMA Settling ==
  ASSUME ClosingInv, NEW outcome \in {"resolved", "rejected"},
         Closing!SettleReadable(outcome), sent' = sent,
         alerts' \in [sent : 0..MaxFrames, handled : 0..MaxFrames, threw : BOOLEAN],
         alerts'.sent = alerts.sent, alerts'.handled = alerts.handled,
         alerts.threw => alerts'.threw,
         readable = "open" =>
            \/ alerts'.threw \/ rx = <<>> \/ done \/ closed = Closing!Open
  PROVE  /\ AlertsCounted' /\ DoneFits' /\ AlertsHandled'
         /\ rx' \in Seq(Kind) /\ put' \in BOOLEAN /\ delayed' \in BOOLEAN
         /\ readable' \in {"open", "resolved", "rejected"}
         /\ err' \in [decoder : ErrType, encoder : ErrType]
         /\ closed' \in Raised /\ done' \in BOOLEAN
<1>1. /\ readable' = outcome /\ rx' = <<>> /\ put' = FALSE /\ delayed' = FALSE
      /\ Closing!RaiseAnd(Closing!Broken(FALSE), TRUE)
  BY DEF Closing!SettleReadable
<1>2. Closing!Broken(FALSE) \in Raised /\ Closing!Broken(FALSE).type = "error"
  BY Infos
<1>3. /\ closed' = (IF closed = Closing!Open THEN Closing!Broken(FALSE) ELSE closed)
      /\ closed' # Closing!Open /\ done'
      /\ err' \in [decoder : ErrType, encoder : ErrType]
      /\ closed' \in Raised /\ done' \in BOOLEAN
  BY <1>1, <1>2, Raising
<1>4. AlertsCounted'
  BY <1>1 DEF ClosingInv, AlertsCounted
<1>5. DoneFits'
  BY <1>1, <1>3 DEF DoneFits
<1>6. AlertsHandled'
  <2>1. CASE closed = Closing!Open
    BY <1>2, <1>3, <2>1 DEF AlertsHandled, Closing!AlertsHandled
  <2>2. CASE alerts'.threw
    BY <2>2 DEF AlertsHandled, Closing!AlertsHandled
  <2>3. CASE closed # Closing!Open /\ ~alerts'.threw /\ done
    BY <1>3, <2>3 DEF ClosingInv, AlertsHandled, Closing!AlertsHandled
  <2>4. CASE closed # Closing!Open /\ ~alerts'.threw /\ ~done
    <3>1. readable = "open" /\ rx = <<>>
      BY <2>4 DEF ClosingInv, DoneFits
    <3>2. alerts.handled + Held(<<>>) = alerts.sent
      BY <3>1 DEF ClosingInv, AlertsCounted
    <3>3. alerts.handled \in Nat
      BY DEF ClosingInv, Closing!TypeOK
    <3>4. alerts.handled = alerts.sent
      BY <3>2, <3>3, HeldNone
    <3> QED
      BY <3>4 DEF AlertsHandled, Closing!AlertsHandled
  <2> QED
    BY <2>1, <2>2, <2>3, <2>4
<1>7. rx' \in Seq(Kind)
  <2>1. <<>> \in Seq(Kind)
    OBVIOUS
  <2> QED
    BY <1>1, <2>1
<1>8. put' \in BOOLEAN /\ delayed' \in BOOLEAN
  BY <1>1
<1>9. readable' \in {"open", "resolved", "rejected"}
  BY <1>1
<1> QED
  BY <1>3, <1>4, <1>5, <1>6, <1>7, <1>8, <1>9

\* The websocket, which only a stream or the network closes.
LEMMA SocketIs ==
  ASSUME ClosingInv
  PROVE  Closing!CloseSocket => ws' \in {"open", "closing", "closed"}
  BY DEF ClosingInv, Closing!TypeOK, Closing!CloseSocket

LEMMA ServerSendsStep == ClosingInv /\ Closing!ServerSends => ClosingInv'
<1> SUFFICES ASSUME ClosingInv, Closing!ServerSends PROVE ClosingInv'
  OBVIOUS
<1>1. /\ sent < MaxFrames /\ readable = "open" /\ sent' = sent + 1
      /\ UNCHANGED <<ws, put, full, loop, failure, readable, writable, delayed,
                     closed, done, err>>
  BY DEF Closing!ServerSends, Closing!pipes, Closing!event
<1>2. PICK k \in Kind : /\ rx' = Append(rx, k)
                        /\ alerts' = IF k \in Alert THEN [alerts EXCEPT !.sent = @ + 1] ELSE alerts
  BY DEF Closing!ServerSends, Kind, Alert
<1>3. /\ rx \in Seq(Kind)
      /\ alerts \in [sent : 0..MaxFrames, handled : 0..MaxFrames, threw : BOOLEAN]
      /\ MaxFrames \in Nat /\ sent \in Nat /\ alerts.sent <= sent
      /\ alerts.handled <= alerts.sent /\ alerts.handled + Held(rx) = alerts.sent
  BY <1>1, ConnectionAssumption DEF ClosingInv, Closing!TypeOK, AlertsCounted, Kind
<1>4. /\ rx' \in Seq(Kind) /\ Held(rx) \in Nat
      /\ Held(rx') = Held(rx) + (IF k \in Alert THEN 1 ELSE 0)
  BY <1>2, <1>3, HeldAppend
<1>5. /\ alerts'.sent = alerts.sent + (IF k \in Alert THEN 1 ELSE 0)
      /\ alerts'.handled = alerts.handled /\ alerts'.threw = alerts.threw
      /\ alerts' = [sent |-> alerts'.sent, handled |-> alerts'.handled,
                    threw |-> alerts'.threw]
  BY <1>2, <1>3
<1>6. AlertsCounted'
  BY <1>1, <1>3, <1>4, <1>5 DEF AlertsCounted
<1>7. alerts' \in [sent : 0..MaxFrames, handled : 0..MaxFrames, threw : BOOLEAN]
  <2>1. alerts'.sent \in 0..MaxFrames /\ alerts'.handled \in 0..MaxFrames
    BY <1>1, <1>3, <1>5
  <2> QED
    BY <1>3, <1>5, <2>1
<1>8. Closing!TypeOK'
  BY <1>1, <1>3, <1>4, <1>7 DEF ClosingInv, Closing!TypeOK, Kind
<1>9. DoneFits'
  BY <1>1 DEF ClosingInv, DoneFits, Remote
<1>10. AlertsHandled'
  BY <1>1 DEF ClosingInv, DoneFits, Remote, AlertsHandled, Closing!AlertsHandled
<1> QED
  BY <1>6, <1>8, <1>9, <1>10 DEF ClosingInv

\* What is left of the type invariant once the parts of a step are typed.
LEMMA Typed ==
  ASSUME ClosingInv,
         ws' \in {"open", "closing", "closed"}, rx' \in Seq(Kind), sent' = sent,
         put' \in BOOLEAN, full' \in BOOLEAN,
         err' \in [decoder : ErrType, encoder : ErrType],
         loop' \in {"idle", "busy", "stopped"}, failure' \in {"none", "hint", "fatal"},
         readable' \in {"open", "resolved", "rejected"}, writable' \in {"open", "rejected"},
         delayed' \in BOOLEAN, closed' \in {Closing!Open} \cup Raised, done' \in BOOLEAN,
         alerts' \in [sent : 0..MaxFrames, handled : 0..MaxFrames, threw : BOOLEAN]
  PROVE  Closing!TypeOK'
  BY DEF ClosingInv, Closing!TypeOK, Kind, ErrType, Raised, Closing!Open

LEMMA Types ==
  ASSUME ClosingInv
  PROVE  /\ ws \in {"open", "closing", "closed"} /\ rx \in Seq(Kind)
         /\ put \in BOOLEAN /\ full \in BOOLEAN
         /\ err \in [decoder : ErrType, encoder : ErrType]
         /\ loop \in {"idle", "busy", "stopped"} /\ failure \in {"none", "hint", "fatal"}
         /\ readable \in {"open", "resolved", "rejected"} /\ writable \in {"open", "rejected"}
         /\ delayed \in BOOLEAN /\ closed \in {Closing!Open} \cup Raised /\ done \in BOOLEAN
         /\ alerts \in [sent : 0..MaxFrames, handled : 0..MaxFrames, threw : BOOLEAN]
  BY DEF ClosingInv, Closing!TypeOK, Kind, ErrType, Raised, Closing!Open

\* A close while the inbound pipeline goes on, whatever becomes of the outbound
\* one: the disconnect, the close event and the encoder's error.
LEMMA ClosesWhileReading ==
  ASSUME ClosingInv, NEW info \in Raised, Closing!Raise(info),
         ws' \in {"open", "closing", "closed"}, writable' \in {"open", "rejected"},
         UNCHANGED <<rx, sent, put, full, loop, failure, readable, delayed, alerts>>
  PROVE  ClosingInv'
<1>1. /\ err' \in [decoder : ErrType, encoder : ErrType]
      /\ closed' \in Raised /\ done' \in BOOLEAN
  BY Raising DEF Closing!Raise
<1>2. Closing!TypeOK'
  BY <1>1, Types, Typed
<1>3. AlertsCounted'
  BY DEF ClosingInv, AlertsCounted
<1> QED
  BY <1>2, <1>3, RaisingKeeps DEF ClosingInv

LEMMA SocketClosesStep == ClosingInv /\ Closing!SocketCloses => ClosingInv'
<1>1. Closing!Info("normal", "remote", FALSE) \in Raised
  BY Infos
<1> QED
  BY <1>1, ClosesWhileReading DEF Closing!SocketCloses

LEMMA DisconnectStep ==
  ASSUME ClosingInv, NEW origin \in {"local", "remote", "unknown"},
         Closing!Disconnect(origin),
         UNCHANGED <<rx, sent, put, full, loop, failure, readable, writable, delayed, alerts>>
  PROVE  ClosingInv'
<1>1. Closing!Info("normal", origin, FALSE) \in Raised
  BY Infos
<1> QED
  BY <1>1, Types, SocketIs, ClosesWhileReading DEF Closing!Disconnect

LEMMA SocketErrorsStep == ClosingInv /\ Closing!SocketErrors => ClosingInv'
<1> SUFFICES ASSUME ClosingInv, Closing!SocketErrors PROVE ClosingInv'
  OBVIOUS
<1>1. /\ ws' = "closed" /\ writable' = "rejected"
      /\ alerts' = [alerts EXCEPT !.threw = TRUE]
      /\ UNCHANGED <<sent, full, loop, failure>>
  BY DEF Closing!SocketErrors
<1>2. alerts \in [sent : 0..MaxFrames, handled : 0..MaxFrames, threw : BOOLEAN]
  BY Types
<1>3. /\ alerts' \in [sent : 0..MaxFrames, handled : 0..MaxFrames, threw : BOOLEAN]
      /\ alerts'.sent = alerts.sent /\ alerts'.handled = alerts.handled /\ alerts'.threw
  BY <1>1, <1>2
<1>4. CASE readable = "open"
  <2>1. Closing!SettleReadable("rejected")
    BY <1>4 DEF Closing!SocketErrors
  <2>2. /\ AlertsCounted' /\ DoneFits' /\ AlertsHandled'
        /\ rx' \in Seq(Kind) /\ put' \in BOOLEAN /\ delayed' \in BOOLEAN
        /\ readable' \in {"open", "resolved", "rejected"}
        /\ err' \in [decoder : ErrType, encoder : ErrType]
        /\ closed' \in Raised /\ done' \in BOOLEAN
    BY <1>1, <1>3, <2>1, Settling
  <2>3. Closing!TypeOK'
    BY <1>1, <1>3, <2>2, Types, Typed
  <2> QED
    BY <2>2, <2>3 DEF ClosingInv
<1>5. CASE readable # "open"
  <2>1. Closing!Raise(Closing!Broken(FALSE)) /\ UNCHANGED <<readable, put, delayed, rx>>
    BY <1>5 DEF Closing!SocketErrors
  <2>2. Closing!Broken(FALSE) \in Raised
    BY Infos
  <2>3. /\ err' \in [decoder : ErrType, encoder : ErrType]
        /\ closed' = (IF closed = Closing!Open THEN Closing!Broken(FALSE) ELSE closed)
        /\ closed' # Closing!Open /\ (done => done')
        /\ closed' \in Raised /\ done' \in BOOLEAN
    BY <2>1, <2>2, Raising DEF Closing!Raise
  <2>4. Closing!TypeOK'
    BY <1>1, <1>3, <2>1, <2>3, Types, Typed
  <2>5. AlertsCounted'
    BY <1>1, <1>3, <1>5, <2>1 DEF ClosingInv, AlertsCounted
  <2>6. DoneFits'
    BY <1>5, <2>1, <2>3 DEF ClosingInv, DoneFits
  <2>7. AlertsHandled'
    BY <1>3 DEF AlertsHandled, Closing!AlertsHandled
  <2> QED
    BY <2>4, <2>5, <2>6, <2>7 DEF ClosingInv
<1> QED
  BY <1>4, <1>5

LEMMA EncoderFailsStep == ClosingInv /\ Closing!EncoderFails => ClosingInv'
<1> SUFFICES ASSUME ClosingInv, Closing!EncoderFails PROVE ClosingInv'
  OBVIOUS
<1>1. /\ writable' = "rejected" /\ Closing!CloseSocket
      /\ UNCHANGED <<rx, sent, put, full, loop, failure, readable, delayed, alerts>>
  BY DEF Closing!EncoderFails
<1>2. ws' \in {"open", "closing", "closed"}
  BY <1>1, SocketIs
<1>3. CASE err.encoder = "closed"
  <2>1. UNCHANGED <<closed, done, err>>
    BY <1>3 DEF Closing!EncoderFails, Closing!event
  <2>2. Closing!TypeOK'
    BY <1>1, <1>2, <2>1, Types, Typed
  <2> QED
    BY <1>1, <2>1, <2>2, Untouched DEF ClosingInv
<1>4. CASE err.encoder # "closed"
  <2>1. Closing!Raise(Closing!Broken(err.encoder = "hint"))
    BY <1>4 DEF Closing!EncoderFails
  <2>2. Closing!Broken(err.encoder = "hint") \in Raised
    <3>1. (err.encoder = "hint") \in BOOLEAN
      OBVIOUS
    <3> QED
      BY <3>1, Infos
  <2> QED
    BY <1>1, <1>2, <2>1, <2>2, ClosesWhileReading
<1> QED
  BY <1>3, <1>4

\* The inbound pipeline settles with an error and cancels its source.
LEMMA Cancels ==
  ASSUME ClosingInv, NEW outcome \in {"resolved", "rejected"},
         Closing!SettleReadable(outcome), ws' \in {"open", "closing", "closed"},
         UNCHANGED <<sent, full, loop, failure, writable>>,
         alerts' \in [sent : 0..MaxFrames, handled : 0..MaxFrames, threw : BOOLEAN],
         alerts'.sent = alerts.sent, alerts'.handled = alerts.handled,
         alerts.threw => alerts'.threw,
         readable = "open" =>
            \/ alerts'.threw \/ rx = <<>> \/ done \/ closed = Closing!Open
  PROVE  ClosingInv'
<1>1. /\ AlertsCounted' /\ DoneFits' /\ AlertsHandled'
      /\ rx' \in Seq(Kind) /\ put' \in BOOLEAN /\ delayed' \in BOOLEAN
      /\ readable' \in {"open", "resolved", "rejected"}
      /\ err' \in [decoder : ErrType, encoder : ErrType]
      /\ closed' \in Raised /\ done' \in BOOLEAN
  BY Settling
<1>2. Closing!TypeOK'
  BY <1>1, Types, Typed
<1> QED
  BY <1>1, <1>2 DEF ClosingInv

\* A close-error passes layer 4: one less under way, one more handled.
LEMMA AlertStep ==
  ASSUME ClosingInv, readable = "open", rx # <<>>, Head(rx) \in Alert,
         rx' = Tail(rx), alerts' = [alerts EXCEPT !.handled = @ + 1],
         UNCHANGED <<sent, readable>>
  PROVE  /\ AlertsCounted' /\ rx' \in Seq(Kind)
         /\ alerts' \in [sent : 0..MaxFrames, handled : 0..MaxFrames, threw : BOOLEAN]
<1>1. /\ rx \in Seq(Kind)
      /\ alerts \in [sent : 0..MaxFrames, handled : 0..MaxFrames, threw : BOOLEAN]
      /\ alerts.handled + Held(rx) = alerts.sent /\ alerts.sent <= sent
      /\ MaxFrames \in Nat
  BY Types, ConnectionAssumption DEF ClosingInv, AlertsCounted
<1>2. /\ rx' \in Seq(Kind) /\ Held(rx') \in Nat /\ Held(rx) = Held(rx') + 1
  BY <1>1, HeldTail
<1>3. /\ alerts'.handled = alerts.handled + 1
      /\ alerts'.sent = alerts.sent /\ alerts'.threw = alerts.threw
      /\ alerts' = [sent |-> alerts.sent, handled |-> alerts.handled + 1,
                    threw |-> alerts.threw]
  BY <1>1
<1>4. /\ alerts.sent \in 0..MaxFrames /\ alerts.handled \in 0..MaxFrames
      /\ alerts.threw \in BOOLEAN
  BY <1>1
<1>5. alerts.handled + 1 \in 0..MaxFrames /\ alerts.handled + 1 <= alerts.sent
  BY <1>1, <1>2, <1>4
<1>6. AlertsCounted'
  BY <1>1, <1>2, <1>3, <1>4, <1>5 DEF AlertsCounted
<1> QED
  BY <1>2, <1>3, <1>4, <1>5, <1>6

LEMMA DecodeStep == ClosingInv /\ Closing!Decode => ClosingInv'
<1> SUFFICES ASSUME ClosingInv, Closing!Decode PROVE ClosingInv'
  OBVIOUS
<1>1. /\ readable = "open" /\ rx # <<>> /\ ~put
      /\ UNCHANGED <<sent, full, loop, failure, writable>>
  BY DEF Closing!Decode
<1>2. rx \in Seq(Kind) /\ Head(rx) \in Kind /\ Tail(rx) \in Seq(Kind)
  BY <1>1, Types, HeldTail
<1>3. CASE Head(rx) = "message"
  <2>1. /\ put' = TRUE /\ rx' = Tail(rx)
        /\ UNCHANGED <<ws, alerts, readable, delayed, closed, done, err>>
    BY <1>3 DEF Closing!Decode, Closing!event
  <2>2. /\ alerts \in [sent : 0..MaxFrames, handled : 0..MaxFrames, threw : BOOLEAN]
        /\ Held(Tail(rx)) \in Nat /\ Held(rx) = Held(Tail(rx)) + 0
    BY <1>1, <1>2, <1>3, Types, HeldTail DEF Alert
  <2>3. AlertsCounted'
    BY <1>1, <2>1, <2>2 DEF ClosingInv, AlertsCounted
  <2>4. Closing!TypeOK'
    BY <1>1, <1>2, <2>1, Types, Typed
  <2>5. DoneFits' /\ AlertsHandled'
    BY <2>1 DEF ClosingInv, DoneFits, Remote, AlertsHandled, Closing!AlertsHandled
  <2> QED
    BY <2>3, <2>4, <2>5 DEF ClosingInv
<1>4. CASE Head(rx) \in Alert
  <2>1. /\ rx' = Tail(rx) /\ alerts' = [alerts EXCEPT !.handled = @ + 1]
        /\ UNCHANGED <<put, readable, delayed>>
        /\ IF Head(rx) = "alert-stop" THEN Closing!Disconnect("remote")
           ELSE UNCHANGED <<ws, closed, done, err>>
    BY <1>4 DEF Closing!Decode, Closing!event, Alert
  <2>2. /\ AlertsCounted' /\ rx' \in Seq(Kind)
        /\ alerts' \in [sent : 0..MaxFrames, handled : 0..MaxFrames, threw : BOOLEAN]
    BY <1>1, <1>4, <2>1, AlertStep
  <2>3. CASE Head(rx) = "alert-stop"
    <3>1. /\ Closing!CloseSocket
          /\ Closing!RaiseAnd(Closing!Info("normal", "remote", FALSE), FALSE)
      BY <2>1, <2>3 DEF Closing!Disconnect, Closing!Raise
    <3>2. /\ Closing!Info("normal", "remote", FALSE) \in Raised
          /\ Closing!Info("normal", "remote", FALSE).type = "normal"
          /\ Closing!Info("normal", "remote", FALSE).origin = "remote"
      BY Infos
    <3>3. /\ err' \in [decoder : ErrType, encoder : ErrType]
          /\ closed' = (IF closed = Closing!Open
                        THEN Closing!Info("normal", "remote", FALSE) ELSE closed)
          /\ closed' \in Raised /\ closed' # Closing!Open
          /\ done' \in BOOLEAN /\ (done <=> done')
      BY <3>1, <3>2, Raising
    <3>4. Closing!TypeOK'
      BY <1>1, <2>1, <2>2, <3>1, <3>3, Types, SocketIs, Typed
    <3>5. DoneFits' /\ (done' => ~Remote')
      BY <1>1, <2>1, <3>3 DEF ClosingInv, DoneFits, Remote
    <3>6. AlertsHandled'
      BY <3>5 DEF Remote, AlertsHandled, Closing!AlertsHandled
    <3> QED
      BY <2>2, <3>4, <3>5, <3>6 DEF ClosingInv
  <2>4. CASE Head(rx) # "alert-stop"
    <3>1. UNCHANGED <<ws, closed, done, err>>
      BY <2>1, <2>4
    <3>2. Closing!TypeOK'
      BY <1>1, <2>1, <2>2, <3>1, Types, Typed
    <3>3. DoneFits' /\ (done' => ~Remote')
      BY <1>1, <2>1, <3>1 DEF ClosingInv, DoneFits, Remote
    <3>4. AlertsHandled'
      BY <3>3 DEF Remote, AlertsHandled, Closing!AlertsHandled
    <3> QED
      BY <2>2, <3>2, <3>3, <3>4 DEF ClosingInv
  <2> QED
    BY <2>3, <2>4
<1>5. CASE Head(rx) = "bad"
  <2>1. /\ alerts' = [alerts EXCEPT !.threw = TRUE]
        /\ Closing!SettleReadable("rejected") /\ Closing!CloseSocket
    BY <1>5 DEF Closing!Decode
  <2>2. alerts \in [sent : 0..MaxFrames, handled : 0..MaxFrames, threw : BOOLEAN]
    BY Types
  <2>3. /\ alerts' \in [sent : 0..MaxFrames, handled : 0..MaxFrames, threw : BOOLEAN]
        /\ alerts'.sent = alerts.sent /\ alerts'.handled = alerts.handled
        /\ alerts'.threw
    BY <2>1, <2>2
  <2> QED
    BY <1>1, <2>1, <2>3, SocketIs, Cancels
<1> QED
  BY <1>2, <1>3, <1>4, <1>5 DEF Kind, Alert

LEMMA InboundStep == ClosingInv /\ Closing!Inbound => ClosingInv'
<1> SUFFICES ASSUME ClosingInv, Closing!Inbound PROVE ClosingInv'
  OBVIOUS
<1>1. CASE Closing!PutDone
  <2>1. /\ put' = FALSE /\ full' = TRUE
        /\ UNCHANGED <<ws, rx, sent, loop, failure, readable, writable, delayed,
                       closed, done, err, alerts>>
    BY <1>1 DEF Closing!PutDone, Closing!pipes, Closing!event
  <2>2. Closing!TypeOK'
    <3>1. /\ ws' \in {"open", "closing", "closed"} /\ rx' \in Seq(Kind) /\ sent' = sent
          /\ put' \in BOOLEAN /\ full' \in BOOLEAN
          /\ err' \in [decoder : ErrType, encoder : ErrType]
          /\ loop' \in {"idle", "busy", "stopped"} /\ failure' \in {"none", "hint", "fatal"}
      BY <2>1, Types
    <3>2. /\ readable' \in {"open", "resolved", "rejected"} /\ writable' \in {"open", "rejected"}
          /\ delayed' \in BOOLEAN /\ closed' \in {Closing!Open} \cup Raised /\ done' \in BOOLEAN
          /\ alerts' \in [sent : 0..MaxFrames, handled : 0..MaxFrames, threw : BOOLEAN]
      BY <2>1, Types
    <3> QED
      BY <3>1, <3>2, Typed
  <2> QED
    BY <2>1, <2>2, Untouched DEF ClosingInv
<1>2. CASE Closing!PutFails
  <2>1. UNCHANGED <<sent, full, loop, failure, writable, alerts>>
    BY <1>2 DEF Closing!PutFails
  <2>2. CASE closed # Closing!Open
    <3>1. /\ put' = FALSE /\ delayed' = TRUE
          /\ UNCHANGED <<ws, rx, readable, closed, done, err>>
      BY <1>2, <2>2 DEF Closing!PutFails, Closing!event
    <3>2. Closing!TypeOK'
      <4>1. /\ ws' \in {"open", "closing", "closed"} /\ rx' \in Seq(Kind) /\ sent' = sent
            /\ put' \in BOOLEAN /\ full' \in BOOLEAN
            /\ err' \in [decoder : ErrType, encoder : ErrType]
            /\ loop' \in {"idle", "busy", "stopped"} /\ failure' \in {"none", "hint", "fatal"}
        BY <2>1, <3>1, Types
      <4>2. /\ readable' \in {"open", "resolved", "rejected"} /\ writable' \in {"open", "rejected"}
            /\ delayed' \in BOOLEAN /\ closed' \in {Closing!Open} \cup Raised /\ done' \in BOOLEAN
            /\ alerts' \in [sent : 0..MaxFrames, handled : 0..MaxFrames, threw : BOOLEAN]
        BY <2>1, <3>1, Types
      <4> QED
        BY <4>1, <4>2, Typed
    <3> QED
      BY <2>1, <3>1, <3>2, Untouched DEF ClosingInv
  <2>3. CASE closed = Closing!Open
    <3>1. Closing!SettleReadable("rejected") /\ Closing!CloseSocket
      BY <1>2, <2>3 DEF Closing!PutFails
    <3> QED
      BY <2>1, <2>3, <3>1, Types, SocketIs, Cancels
  <2> QED
    BY <2>2, <2>3
<1>3. CASE Closing!DelayedError
  <2>1. /\ done /\ Closing!SettleReadable("rejected") /\ Closing!CloseSocket
        /\ UNCHANGED <<sent, full, loop, failure, writable, alerts>>
    BY <1>3 DEF Closing!DelayedError
  <2> QED
    BY <2>1, Types, SocketIs, Cancels
<1>4. CASE Closing!EndOfStream
  <2>1. /\ rx = <<>> /\ Closing!SettleReadable("resolved")
        /\ UNCHANGED <<ws, sent, full, loop, failure, writable, alerts>>
    BY <1>4 DEF Closing!EndOfStream
  <2> QED
    BY <2>1, Types, Cancels
<1> QED
  BY <1>1, <1>2, <1>3, <1>4, DecodeStep DEF Closing!Inbound

\* The task manager: it takes messages and errors its queues.
LEMMA TasksStep ==
  ClosingInv /\ (Closing!TakeMessage \/ Closing!TaskEnds \/ Closing!TaskFails \/ Closing!LoopStops)
      => ClosingInv'
<1> SUFFICES ASSUME ClosingInv, \/ Closing!TakeMessage \/ Closing!TaskEnds
                                \/ Closing!TaskFails \/ Closing!LoopStops
             PROVE  ClosingInv'
  OBVIOUS
<1>1. UNCHANGED <<ws, rx, sent, put, readable, writable, delayed, closed, done, alerts>>
  BY DEF Closing!TakeMessage, Closing!TaskEnds, Closing!TaskFails, Closing!LoopStops,
         Closing!pipes, Closing!event
<1>2. /\ full' \in BOOLEAN /\ loop' \in {"idle", "busy", "stopped"}
      /\ failure' \in {"none", "hint", "fatal"}
  BY Types DEF Closing!TakeMessage, Closing!TaskEnds, Closing!TaskFails, Closing!LoopStops
<1>3. err' \in [decoder : ErrType, encoder : ErrType]
  <2>1. CASE Closing!TakeMessage \/ Closing!TaskEnds
    BY <2>1, Types DEF Closing!TakeMessage, Closing!TaskEnds, Closing!event
  <2>2. CASE Closing!TaskFails
    <3>1. PICK e \in {"hint", "fatal"} : err' = Closing!ErrorQueues(e)
      BY <2>2 DEF Closing!TaskFails
    <3>2. e \in ErrType
      BY DEF ErrType
    <3> QED
      BY <3>1, <3>2, QueuesErrored DEF ClosingInv
  <2>3. CASE Closing!LoopStops
    <3>1. err' = Closing!ErrorQueues(err.decoder)
      BY <2>3 DEF Closing!LoopStops
    <3>2. err.decoder \in ErrType
      BY Types
    <3> QED
      BY <3>1, <3>2, QueuesErrored DEF ClosingInv
  <2> QED
    BY <2>1, <2>2, <2>3
<1>4. Closing!TypeOK'
  BY <1>1, <1>2, <1>3, Types, Typed
<1> QED
  BY <1>1, <1>4, Untouched DEF ClosingInv

-----------------------------------------------------------------------------
(* Every connection of the manager *)

LEMMA ConnectionKept == ClosingInv /\ UNCHANGED connection => ClosingInv'
<1> SUFFICES ASSUME ClosingInv, UNCHANGED connection PROVE ClosingInv'
  OBVIOUS
<1>1. UNCHANGED <<ws, rx, sent, put, full, err, loop, failure, readable, writable,
                  delayed, closed, done, alerts>>
  BY DEF connection
<1>2. Closing!TypeOK'
  BY <1>1, Types, Typed
<1> QED
  BY <1>1, <1>2, Untouched DEF ClosingInv

LEMMA ConnectionStarts == Closing!Init => ClosingInv
<1> SUFFICES ASSUME Closing!Init PROVE ClosingInv
  OBVIOUS
<1>1. rx \in Seq({"message", "alert", "alert-stop", "bad"})
  BY DEF Closing!Init
<1>2. 0 \in 0..MaxFrames
  BY ConnectionAssumption
<1>3. alerts \in [sent : 0..MaxFrames, handled : 0..MaxFrames, threw : BOOLEAN]
  BY <1>2 DEF Closing!Init
<1>4. Closing!TypeOK
  BY <1>1, <1>2, <1>3 DEF Closing!Init, Closing!TypeOK
<1>5. Held(rx) = 0
  BY HeldNone DEF Closing!Init
<1>6. AlertsCounted
  BY <1>5 DEF Closing!Init, AlertsCounted
<1>7. DoneFits /\ AlertsHandled
  BY DEF Closing!Init, DoneFits, AlertsHandled, Closing!AlertsHandled
<1> QED
  BY <1>4, <1>6, <1>7 DEF ClosingInv

LEMMA FreshStep == Fresh => ClosingInv'
<1>1. Fresh => Closing!Init'
  BY DEF Fresh, Closing!Init, Closing!Open
<1> QED
  BY <1>1, ConnectionStarts, PTL

LEMMA HandleClosedStep == ClosingInv /\ HandleClosed => ClosingInv'
  BY ConnectionKept, DisconnectStep DEF HandleClosed

LEMMA LocalDisconnectStep == ClosingInv /\ Closing!LocalDisconnect => ClosingInv'
  BY DisconnectStep DEF Closing!LocalDisconnect, Closing!pipes

LEMMA ClosingInvariance ==
  ASSUME ClosingInv, [ConnectionNext]_connectionVars
  PROVE  ClosingInv'
<1>1. CASE UNCHANGED connectionVars
  BY <1>1, ConnectionKept DEF connectionVars
<1>2. CASE Quiet /\ ConnectionNext
  BY <1>2, ConnectionKept DEF Quiet
<1>3. CASE Loop
  <2>1. CASE Create
    BY <2>1, FreshStep, ConnectionKept DEF Create, Quiet
  <2>2. CASE Reset
    BY <2>2, FreshStep DEF Reset
  <2>3. CASE Dismiss
    BY <2>3, HandleClosedStep DEF Dismiss
  <2>4. CASE Quiet
    BY <2>4, ConnectionKept DEF Quiet
  <2> QED
    BY <1>3, <2>1, <2>2, <2>3, <2>4 DEF Loop
<1>4. CASE Unlink
  <2>1. CASE StartFallback
    BY <2>1, HandleClosedStep DEF StartFallback
  <2>2. CASE Quiet
    BY <2>2, ConnectionKept DEF Quiet
  <2> QED
    BY <1>4, <2>1, <2>2 DEF Unlink
<1>5. CASE Disable
  BY <1>5, HandleClosedStep DEF Disable
<1>6. CASE \/ Closing!ServerSends \/ Closing!SocketCloses \/ Closing!SocketErrors
           \/ Closing!LocalDisconnect \/ Closing!Inbound \/ Closing!EncoderFails
           \/ Closing!TakeMessage \/ Closing!TaskEnds \/ Closing!TaskFails
           \/ Closing!LoopStops
  BY <1>6, ServerSendsStep, SocketClosesStep, SocketErrorsStep, LocalDisconnectStep,
     InboundStep, EncoderFailsStep, TasksStep
<1> QED
  BY <1>1, <1>2, <1>3, <1>4, <1>5, <1>6 DEF ConnectionNext, Part

\* The parts of every connection keep the invariant of the closing sequence.
THEOREM ClosingCorrect == ConnectionSpec => []ClosingInv
<1>1. ConnectionInit => ClosingInv
  BY ConnectionStarts DEF ConnectionInit
<1>2. ClosingInv /\ [ConnectionNext]_connectionVars => ClosingInv'
  BY ClosingInvariance
<1> QED
  BY <1>1, <1>2, PTL DEF ConnectionSpec

\* No close-error is lost by a remote close (PipelineTransformer, closing.done).
THEOREM CloseErrorsHandled == ConnectionSpec => []AlertsHandled
<1>1. ClosingInv => AlertsHandled
  BY DEF ClosingInv
<1> QED
  BY <1>1, ClosingCorrect, PTL

-----------------------------------------------------------------------------
(* What the manager sees of it: the refinement *)

SomePart ==
    \/ Closing!ServerSends \/ Closing!SocketCloses \/ Closing!SocketErrors
    \/ Closing!LocalDisconnect \/ Closing!Inbound \/ Closing!EncoderFails
    \/ Closing!TakeMessage \/ Closing!TaskEnds \/ Closing!TaskFails
    \/ Closing!LoopStops

\* A part raises the closed event, once, or ends the loop of the tasks, for good
\* and with the event as it was.
LEMMA PartMoves ==
  ASSUME SomePart
  PROVE  /\ closed # Closing!Open => closed' = closed
         /\ loop = "stopped" => loop' = "stopped"
         /\ loop # "stopped" /\ loop' = "stopped" => closed' = closed
<1>1. \A info, finished : Closing!RaiseAnd(info, finished) =>
        (closed # Closing!Open => closed' = closed)
  BY DEF Closing!RaiseAnd
<1>2. \A info : Closing!Raise(info) => (closed # Closing!Open => closed' = closed)
  BY <1>1 DEF Closing!Raise
<1>3. \A outcome : Closing!SettleReadable(outcome) =>
        (closed # Closing!Open => closed' = closed)
  BY <1>1 DEF Closing!SettleReadable
<1>4. \A origin : Closing!Disconnect(origin) =>
        (closed # Closing!Open => closed' = closed)
  BY <1>2 DEF Closing!Disconnect
<1>5. CASE Closing!Decode
  BY <1>3, <1>4, <1>5 DEF Closing!Decode, Closing!event
<1>6. CASE Closing!PutDone \/ Closing!PutFails \/ Closing!DelayedError \/ Closing!EndOfStream
  BY <1>3, <1>6 DEF Closing!PutDone, Closing!PutFails, Closing!DelayedError,
     Closing!EndOfStream, Closing!event
<1>7. CASE \/ Closing!ServerSends \/ Closing!TakeMessage \/ Closing!TaskEnds
           \/ Closing!TaskFails \/ Closing!LoopStops
  BY <1>7 DEF Closing!ServerSends, Closing!TakeMessage, Closing!TaskEnds,
     Closing!TaskFails, Closing!LoopStops, Closing!event
<1>8. CASE Closing!SocketCloses \/ Closing!SocketErrors
  BY <1>2, <1>3, <1>8 DEF Closing!SocketCloses, Closing!SocketErrors
<1>9. CASE Closing!LocalDisconnect \/ Closing!EncoderFails
  BY <1>2, <1>4, <1>9 DEF Closing!LocalDisconnect, Closing!EncoderFails, Closing!event
<1> QED
  BY <1>5, <1>6, <1>7, <1>8, <1>9 DEF SomePart, Closing!Inbound

\* To the manager a part that moves is the failure of the tasks, the close of
\* the transport or nothing at all.
LEMMA PartSeen ==
  ASSUME made, made' = made, kick # "fallback", SomePart,
         UNCHANGED <<run, autoConnect, inner, state, handle, skip, kick>>,
         NEW c \in Manager!Code,
         code' = IF closed = Closing!Open /\ closed' # Closing!Open THEN c ELSE code
  PROVE  Manager!TasksFail \/ Manager!Closing \/ UNCHANGED Manager!vars
<1>1. /\ Seen  = (IF closed # Closing!Open THEN "closing"
                  ELSE IF loop = "stopped" THEN "failing" ELSE "open")
      /\ Seen' = (IF closed' # Closing!Open THEN "closing"
                  ELSE IF loop' = "stopped" THEN "failing" ELSE "open")
  BY DEF Seen, Closing!Open
<1>2. CASE closed = Closing!Open /\ closed' # Closing!Open
  <2>1. Seen \in {"open", "failing"} /\ Seen' = "closing" /\ code' = c
    BY <1>1, <1>2
  <2> QED
    BY <2>1 DEF Manager!Closing, Manager!Turn, Manager!store
<1>3. CASE closed # Closing!Open
  <2>1. Seen' = Seen /\ code' = code
    BY <1>1, <1>3, PartMoves
  <2> QED
    BY <2>1 DEF Manager!vars, Manager!store
<1>4. CASE closed = Closing!Open /\ closed' = Closing!Open
  <2>1. code' = code
    BY <1>4
  <2>2. CASE loop # "stopped" /\ loop' = "stopped"
    <3>1. Seen = "open" /\ Seen' = "failing"
      BY <1>1, <1>4, <2>2
    <3> QED
      BY <2>1, <3>1 DEF Manager!TasksFail, Manager!Turn, Manager!store
  <2>3. CASE ~(loop # "stopped" /\ loop' = "stopped")
    <3>1. Seen' = Seen
      BY <1>1, <1>4, <2>3, PartMoves
    <3> QED
      BY <2>1, <3>1 DEF Manager!vars, Manager!store
  <2> QED
    BY <2>2, <2>3
<1> QED
  BY <1>2, <1>3, <1>4

LEMMA ManagerStep ==
  ASSUME [ConnectionNext]_connectionVars
  PROVE  [Manager!Next]_(Manager!vars)
<1>1. CASE UNCHANGED connectionVars
  <2>1. UNCHANGED <<made, run, autoConnect, inner, state, handle, code, skip, kick,
                    loop, closed>>
    BY <1>1 DEF connectionVars, manager, connection
  <2>2. Seen' = Seen
    BY <2>1 DEF Seen, Closing!Open
  <2> QED
    BY <2>1, <2>2 DEF Manager!vars, Manager!store
<1>2. CASE Loop
  BY <1>2 DEF Loop, Create, Reset, Dismiss, Manager!Next, Manager!Run
<1>3. CASE Unlink
  BY <1>3 DEF Unlink, StartFallback, Manager!Next
<1>4. CASE Disable
  BY <1>4 DEF Disable, Manager!Next
<1>5. CASE Quiet /\ Manager!Enable
  BY <1>5 DEF Manager!Next
<1>6. CASE /\ made /\ kick # "fallback" /\ SomePart
           /\ UNCHANGED <<made, run, autoConnect, inner, state, handle, skip, kick>>
           /\ \E c \in Manager!Code :
                code' = IF closed = Closing!Open /\ closed' # Closing!Open THEN c ELSE code
  <2>1. Manager!TasksFail \/ Manager!Closing \/ UNCHANGED Manager!vars
    BY <1>6, PartSeen
  <2> QED
    BY <2>1 DEF Manager!Next
<1>7. ConnectionNext =>
        \/ Loop \/ Unlink \/ Disable \/ (Quiet /\ Manager!Enable)
        \/ /\ made /\ kick # "fallback" /\ SomePart
           /\ UNCHANGED <<made, run, autoConnect, inner, state, handle, skip, kick>>
           /\ \E c \in Manager!Code :
                code' = IF closed = Closing!Open /\ closed' # Closing!Open THEN c ELSE code
  BY DEF ConnectionNext, Part, SomePart
<1> QED
  BY <1>1, <1>2, <1>3, <1>4, <1>5, <1>6, <1>7

\* Every connection with all its parts is one of those that the manager was
\* written for (ConnectionManager._run, Connection.disconnect and the closed event).
THEOREM ManagerImplemented == ConnectionSpec => ImplementsManager
<1>1. ConnectionInit => Manager!Init
  BY DEF ConnectionInit, Manager!Init, Seen
<1>2. [ConnectionNext]_connectionVars => [Manager!Next]_(Manager!vars)
  BY ManagerStep
<1> QED
  BY <1>1, <1>2, PTL DEF ConnectionSpec, ImplementsManager, Manager!Spec

-----------------------------------------------------------------------------
(* The reconnect loop: proved of the manager, whatever its connections do *)

\* Whatever the assertions of the loop look at is as they expect, up to a D2M-only
\* connection that failed and has reset what belongs to the loop.
LoopFits ==
    /\ run \in {"await", "dialog", "sleeping"} => inner = "disconnected"
    /\ run \in {"creating", "up"} => inner = "connected" \/ kick = "rejected"
    /\ run = "creating" => state = "connecting" \/ kick = "rejected"
    /\ run = "dead" => (code = "fatal" /\ Seen = "none") \/ kick = "rejected"

LEMMA RunStep ==
  ASSUME LoopFits, Manager!Run
  PROVE  LoopFits'
<1>1. CASE Manager!Attempt
  BY <1>1 DEF LoopFits, Manager!Attempt
<1>2. CASE Manager!CreateFails
  BY <1>2 DEF LoopFits, Manager!CreateFails, Manager!Pause
<1>3. CASE Manager!CreateSucceeds
  BY <1>3 DEF LoopFits, Manager!CreateSucceeds
<1>4. CASE Manager!Closed
  BY <1>4 DEF LoopFits, Manager!Closed, Manager!Pause
<1>5. CASE Manager!Confirm
  BY <1>5 DEF LoopFits, Manager!Confirm, Manager!store
<1>6. CASE Manager!Dismiss
  BY <1>6 DEF LoopFits, Manager!Dismiss, Manager!CloseHandle, Manager!Pause
<1>7. CASE Manager!SleepEnds
  BY <1>7 DEF LoopFits, Manager!SleepEnds, Manager!store
<1> QED
  BY <1>1, <1>2, <1>3, <1>4, <1>5, <1>6, <1>7 DEF Manager!Run

LEMMA LoopInvariance ==
  ASSUME LoopFits, [Manager!Next]_(Manager!vars)
  PROVE  LoopFits'
<1>1. CASE UNCHANGED Manager!vars
  BY <1>1 DEF LoopFits, Manager!vars, Manager!store
<1>2. CASE Manager!StartFallback
  BY <1>2 DEF LoopFits, Manager!StartFallback, Manager!CloseHandle
<1>3. CASE Manager!Enable
  BY <1>3 DEF LoopFits, Manager!Enable
<1>4. CASE Manager!Disable
  BY <1>4 DEF LoopFits, Manager!Disable, Manager!CloseHandle
<1>5. CASE Manager!TasksFail \/ Manager!Closing
  BY <1>5 DEF LoopFits, Manager!TasksFail, Manager!Closing, Manager!store
<1>6. CASE Manager!Unlink
  <2>1. CASE Manager!D2mFails
    BY <2>1 DEF LoopFits, Manager!D2mFails
  <2>2. CASE \/ Manager!ScheduleKick \/ Manager!Dropped \/ Manager!D2mCreated
             \/ Manager!D2mClosed
    BY <2>2 DEF LoopFits, Manager!ScheduleKick, Manager!Dropped, Manager!D2mCreated,
       Manager!D2mClosed, Manager!store
  <2> QED
    BY <1>6, <2>1, <2>2 DEF Manager!Unlink
<1> QED
  BY <1>1, <1>2, <1>3, <1>4, <1>5, <1>6, RunStep DEF Manager!Next

\* The loop throws for a fatal close code and for nothing else, unless a D2M-only
\* connection failed (_run, assertUnreachable in start).
THEOREM LoopGoesOn == ConnectionSpec => []LoopSurvives
<1>1. Manager!Init => LoopFits
  BY DEF Manager!Init, LoopFits
<1>2. LoopFits /\ [Manager!Next]_(Manager!vars) => LoopFits'
  BY LoopInvariance
<1>3. LoopFits => LoopSurvives
  BY DEF LoopFits, LoopSurvives, Manager!LoopSurvives
<1> QED
  BY <1>1, <1>2, <1>3, ManagerImplemented, PTL DEF ImplementsManager, Manager!Spec

LEMMA ManagerTyped ==
  ASSUME Manager!TypeOK, [Manager!Next]_(Manager!vars)
  PROVE  Manager!TypeOK'
<1> USE DEF Manager!TypeOK, Manager!Loop, Manager!Code, Manager!Kick
<1>1. Seen' \in Manager!Main
  BY DEF Seen, Manager!Main
<1>2. CASE UNCHANGED Manager!vars
  BY <1>1, <1>2 DEF Manager!vars, Manager!store
<1>3. CASE Manager!StartFallback \/ Manager!Enable \/ Manager!Disable
  BY <1>1, <1>3 DEF Manager!StartFallback, Manager!Enable, Manager!Disable,
     Manager!CloseHandle
<1>4. CASE Manager!TasksFail \/ Manager!Closing
  BY <1>1, <1>4 DEF Manager!TasksFail, Manager!Closing, Manager!store
<1>5. CASE Manager!Attempt \/ Manager!CreateFails \/ Manager!CreateSucceeds
  BY <1>1, <1>5 DEF Manager!Attempt, Manager!CreateFails, Manager!CreateSucceeds,
     Manager!Pause
<1>6. CASE Manager!Closed
  BY <1>1, <1>6 DEF Manager!Closed, Manager!Pause
<1>7. CASE Manager!Confirm \/ Manager!Dismiss \/ Manager!SleepEnds
  BY <1>1, <1>7 DEF Manager!Confirm, Manager!Dismiss, Manager!SleepEnds, Manager!Pause,
     Manager!CloseHandle, Manager!store
<1>8. CASE Manager!Unlink
  BY <1>1, <1>8 DEF Manager!Unlink, Manager!ScheduleKick, Manager!Dropped,
     Manager!D2mCreated, Manager!D2mFails, Manager!D2mClosed, Manager!store
<1> QED
  BY <1>2, <1>3, <1>4, <1>5, <1>6, <1>7, <1>8 DEF Manager!Next, Manager!Run

MadeOK == made \in BOOLEAN

\* Type correctness of Connection.
THEOREM ConnectionTypeCorrect == ConnectionSpec => []ConnectionTypeOK
<1>1. ConnectionInit => MadeOK
  BY DEF ConnectionInit, MadeOK
<1>2. MadeOK /\ [ConnectionNext]_connectionVars => MadeOK'
  BY DEF MadeOK, ConnectionNext, Loop, Create, Reset, Dismiss, Unlink, StartFallback, Disable,
     Quiet, Part, connectionVars
<1>3. Manager!Init => Manager!TypeOK
  BY DEF Manager!Init, Manager!TypeOK, Manager!Loop, Manager!Main, Manager!Code,
     Manager!Kick
<1>4. Manager!TypeOK /\ [Manager!Next]_(Manager!vars) => Manager!TypeOK'
  BY ManagerTyped
<1>5. ClosingInv /\ MadeOK /\ Manager!TypeOK => ConnectionTypeOK
  BY DEF ClosingInv, ConnectionTypeOK, MadeOK
<1>6. ConnectionSpec => []MadeOK
  BY <1>1, <1>2, PTL DEF ConnectionSpec
<1>7. ConnectionSpec => []Manager!TypeOK
  <2>1. Manager!Spec => []Manager!TypeOK
    BY <1>3, <1>4, PTL DEF Manager!Spec
  <2> QED
    BY <2>1, ManagerImplemented DEF ImplementsManager
<1> QED
  BY <1>5, <1>6, <1>7, ClosingCorrect, PTL
=============================================================================
