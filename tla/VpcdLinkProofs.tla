--------------------------- MODULE VpcdLinkProofs ---------------------------
(***************************************************************************)
(* Proofs about VpcdLink, for any number of callers and connections.       *)
(*                                                                         *)
(* Linked is the inductive invariant that the theorems share: the types,   *)
(* the holder of the lock, and LinkInv, which says what may be on the wire *)
(* and in the card while a caller waits.  OnceInv adds how often the card  *)
(* has executed a command, DeadInv that an exchange only fails on a dead   *)
(* connection, PowerInv what the card has done for a power up or a reset.  *)
(* Beyond the types they need that messages arrive whole (~Short) and that *)
(* calls exclude each other: by a lock that works or by a host that calls  *)
(* one handler at a time (CallsExcluded).                                  *)
(***************************************************************************)
EXTENDS VpcdLink, TLAPS

-----------------------------------------------------------------------------
\* Messages and byte streams.

LEMMA BodyLens == \A m : BodyLen(m) \in {1, 2}
BY DEF BodyLen

LEMMA Wires == ASSUME NEW m \in Messages
               PROVE Wire(m) \in Seq(Bytes) /\ Len(Wire(m)) = BodyLen(m) + 2
<1>1. BodyLen(m) + 2 \in Nat /\ BodyLen(m) + 2 <= 4
  BY BodyLens
<1>2. \A i \in 1 .. BodyLen(m) + 2 : <<m, i>> \in Bytes
  BY <1>1 DEF Bytes
<1>. QED
  BY <1>1, <1>2 DEF Wire

LEMMA Pieces == ASSUME NEW s \in Seq(Bytes), NEW k \in Nat, k <= Len(s)
                PROVE Take(s, k) \in Seq(Bytes) /\ Len(Take(s, k)) = k /\ Drop(s, k) \in Seq(Bytes)
BY DEF Take, Drop

LEMMA LengthsOfBytes == \A s : Lengths(s) \subseteq 0 .. 2
BY BodyLens DEF Lengths

LEMMA CommandsTyped ==
  ASSUME NEW t \in Threads, seq \in [Threads -> Numbers], NEW kind \in CommandKinds
  PROVE Cmd(t, kind) \in Commands
BY DEF Cmd, Commands

LEMMA RequestsTyped ==
  ASSUME NEW t \in Threads, seq \in [Threads -> Numbers]
  PROVE Request(t) \in Commands /\ PowerRequest(t) \in Commands
BY CommandsTyped DEF Request, PowerRequest, CommandKinds, ControlKinds

LEMMA AnswersTyped ==
  ASSUME NEW kind \in AnswerKinds, NEW m \in Commands \cup {NoMsg}, NEW pw \in Commands \cup {NoMsg}
  PROVE Answer(kind, m, pw) \in Answers
BY DEF Answer, Answers

-----------------------------------------------------------------------------
\* Connections.

LEMMA ConnsTyped ==
  /\ NoConn \in ConnType /\ NewConn \in ConnType
  /\ \A k \in ConnType : ClosePcd(k) \in ConnType /\ CloseIcc(k) \in ConnType
  /\ \A k \in ConnType : [k EXCEPT !.backlog = FALSE] \in ConnType
  /\ \A k \in ConnType : [k EXCEPT !.rst = TRUE] \in ConnType
  /\ \A k \in ConnType, s \in Seq(Bytes) : /\ [k EXCEPT !.toIcc = s] \in ConnType
                                          /\ [k EXCEPT !.toPcd = s] \in ConnType
  /\ \A k \in ConnType : k.toIcc \in Seq(Bytes) /\ k.toPcd \in Seq(Bytes)
<1>. DEFINE E == <<>>
<1>1. E \in Seq(Bytes)
  OBVIOUS
<1>2. NoConn \in ConnType /\ NewConn \in ConnType
  BY <1>1 DEF NoConn, NewConn, ConnType
<1>3. ASSUME NEW k \in ConnType PROVE ClosePcd(k) \in ConnType /\ CloseIcc(k) \in ConnType
  BY <1>1, <1>2, LinkAssumption, ZenonT(60) DEF ClosePcd, CloseIcc, ConnType
<1>. QED
  BY <1>2, <1>3 DEF ConnType

Networks == [Conns -> ConnType]

LEMMA EjectTyped ==
  ASSUME NEW k \in Networks, Eject(k), client_sock \in SockType
  PROVE client_sock' \in SockType /\ conn' \in Networks
BY ConnsTyped DEF Eject, Networks, SockType

LEMMA ConnectTyped ==
  ASSUME conn \in Networks, client_sock \in SockType, ConnectSock \/ WaitForClient
  PROVE client_sock' \in SockType /\ conn' \in Networks
BY ConnsTyped DEF ConnectSock, WaitForClient, FreeConns, Backlog, Networks, SockType

LEMMA SendTyped ==
  ASSUME conn \in Networks, NEW m \in Messages, SendOk(m)
  PROVE conn' \in Networks
<1>. DEFINE s == conn[client_sock].toIcc \o Wire(m)
<1>1. client_sock \in Conns /\ conn[client_sock] \in ConnType
  BY DEF SendOk, Networks
<1>2. s \in Seq(Bytes)
  BY <1>1, Wires, ConnsTyped
<1>3. [conn[client_sock] EXCEPT !.toIcc = s] \in ConnType
  BY <1>1, <1>2, ConnsTyped
<1>. QED
  BY <1>3 DEF SendOk, Networks

LEMMA ClosedTyped ==
  /\ conn \in Networks => PcdClosed \in Networks
  /\ \A k \in Networks : IccClosed(k) \in Networks
BY ConnsTyped DEF PcdClosed, IccClosed, Networks

-----------------------------------------------------------------------------
\* The types of the whole state.

\* A card process that is at work has a connection, and one that replies has
\* an answer.
CardOK == /\ vpicc.pc \in {"hdr", "body", "reply"} => vpicc.conn \in Conns
          /\ vpicc.pc = "reply" => vpicc.ans \in Answers

CtxOK  == /\ open \in BOOLEAN
          /\ client_sock \in SockType
          /\ io_lock \in Threads \cup {NoThread}
NetOK  == conn \in Networks
CallOK == /\ pc \in [Threads -> PCs]
          /\ op \in [Threads -> IfdOps]
          /\ seq \in [Threads -> Numbers]
          /\ sock \in [Threads -> SockType]
          /\ need \in [Threads -> 0 .. 2]
          /\ got \in [Threads -> Seq(Bytes)]
          /\ r \in [Threads -> -1 .. 3]
          /\ res \in [Threads -> [code : Codes, data : Contents, powered : BOOLEAN]]
IccOK  == /\ vpicc \in CardType
          /\ lastPower \in Commands \cup {NoMsg}
          /\ execs \in [Threads -> 0 .. 2]

Inv == CtxOK /\ NetOK /\ CallOK /\ IccOK /\ CardOK

\* What never changes.
HostOK == reversed \in BOOLEAN /\ OpsOf \in Hosts

LEMMA InvTypes == Inv /\ HostOK => TypeOK
BY DEF HostOK, Inv, CtxOK, NetOK, CallOK, IccOK, TypeOK, Networks

LEMMA InvInit == Init => Inv /\ HostOK
<1>1. ASSUME Init PROVE CtxOK /\ NetOK
  BY <1>1, ConnsTyped DEF Init, CtxOK, NetOK, Networks, SockType
<1>3. DownCard \in CardType /\ DownCard.pc = "down"
  <2>1. 0 \in 0 .. 2
    OBVIOUS
  <2>. QED
    BY <2>1 DEF DownCard, CardWith, CardType, CardPCs
<1>4. ASSUME Init PROVE IccOK /\ CardOK
  BY <1>3, <1>4 DEF Init, IccOK, CardOK
<1>2. ASSUME Init PROVE CallOK
  BY <1>2 DEF Init, CallOK, PCs, IfdOps, Numbers, SockType, NoRes, Codes, Contents
<1>5. ASSUME Init PROVE HostOK
  BY <1>5, LinkAssumption DEF Init, HostOK
<1>. QED
  BY <1>1, <1>2, <1>4, <1>5 DEF Inv

LEMMA ReturnTyped ==
  ASSUME CallOK, NEW t \in Threads, NEW code \in Codes, NEW data \in Contents,
         NEW powered \in BOOLEAN, Return(t, code, data, powered)
  PROVE CallOK'
<1>1. <<>> \in Seq(Bytes) /\ INVALID_SOCKET \in SockType
  BY DEF SockType
<1>. QED
  BY <1>1 DEF CallOK, Return, PCs

LEMMA ReturnTransmitTyped ==
  ASSUME CallOK, NEW t \in Threads, ReturnTransmit(t) PROVE CallOK'
<1>1. CodeOf(t, r[t], got[t]) \in Codes
  BY DEF CodeOf, Codes
<1>2. Content(t, got[t]) \in Contents /\ "none" \in Contents
  BY DEF Content, Contents
<1>3. Powered(t, got[t]) \in BOOLEAN
  BY DEF Powered
<1>. QED
  BY <1>1, <1>2, <1>3, ReturnTyped DEF ReturnTransmit

\* Creating, closing and losing the context.
LEMMA ChannelSteps ==
  ASSUME Inv, CreateChannel \/ CloseChannel \/ PcdDies PROVE Inv'
<1>. USE DEF Inv
<1>1. CASE CreateChannel
  <2>1. client_sock' \in SockType /\ conn' \in Networks
    BY <1>1, ConnectTyped DEF CreateChannel, CtxOK, NetOK, SockType
  <2>. QED
    BY <1>1, <2>1 DEF CreateChannel, CtxOK, NetOK, CallOK, IccOK, CardOK, callVars, cardVars
<1>2. CASE CloseChannel
  BY <1>2, ClosedTyped DEF CloseChannel, CtxOK, NetOK, CallOK, IccOK, CardOK, callVars,
                           cardVars, SockType
<1>3. CASE PcdDies
  <2>1. CallOK'
    BY <1>3 DEF PcdDies, CallOK, PCs, SockType, NoRes, Codes, Contents
  <2>. QED
    BY <1>3, <2>1, ClosedTyped DEF PcdDies, CtxOK, NetOK, IccOK, CardOK, cardVars, SockType
<1>. QED
  BY <1>1, <1>2, <1>3

\* The calls up to the first message.
LEMMA EnteringSteps ==
  ASSUME Inv, OpsOf \in Hosts, NEW t \in Threads,
         (\E o \in OpsOf[t] : Call(t, o)) \/ Connect(t) \/ Lock(t)
  PROVE Inv'
<1>. USE LinkAssumption DEF Inv
<1>1. ASSUME NEW o \in OpsOf[t], Call(t, o) PROVE Inv'
  <2>1. o \in IfdOps /\ Unused(t) \subseteq Numbers
    BY DEF Unused
  <2>. QED
    BY <1>1, <2>1 DEF Call, CtxOK, NetOK, CallOK, IccOK, CardOK, ctxVars, Goto, PCs, NoRes,
                      Codes, Contents
<1>2. CASE Connect(t)
  <2>1. client_sock' \in SockType /\ conn' \in Networks
    BY <1>2, ConnectTyped DEF Connect, CtxOK, NetOK
  <2>2. CallOK'
    <3>1. CASE client_sock' = INVALID_SOCKET
      BY <1>2, <3>1, ReturnTyped DEF Connect, Codes, Contents
    <3>2. CASE client_sock' # INVALID_SOCKET
      BY <1>2, <3>2 DEF Connect, CallOK, Goto, PCs
    <3>. QED
      BY <3>1, <3>2
  <2>. QED
    BY <1>2, <2>1, <2>2 DEF Connect, CtxOK, NetOK, IccOK, CardOK, cardVars
<1>3. CASE Lock(t)
  BY <1>3 DEF Lock, CtxOK, NetOK, CallOK, IccOK, CardOK, cardVars, Goto, PCs
<1>. QED
  BY <1>1, <1>2, <1>3

\* Messages are sent.
LEMMA SendingSteps ==
  ASSUME Inv, NEW t \in Threads, PowerSend(t) \/ PowerUnlock(t) \/ Send(t)
  PROVE Inv'
<1>. USE DEF Inv
<1>1. Request(t) \in Messages /\ PowerRequest(t) \in Messages
  BY RequestsTyped DEF CallOK, Messages
<1>2. CASE PowerSend(t)
  <2>1. client_sock' \in SockType /\ conn' \in Networks
    BY <1>1, <1>2, SendTyped, EjectTyped DEF PowerSend, CtxOK, NetOK
  <2>. QED
    BY <1>2, <2>1 DEF PowerSend, CtxOK, NetOK, CallOK, IccOK, CardOK, cardVars, Goto, PCs
<1>3. CASE PowerUnlock(t)
  <2>1. CallOK'
    <3>1. CASE Return(t, "COMM_ERROR", "none", FALSE) \/ Return(t, "SUCCESS", "none", FALSE)
      BY <3>1, ReturnTyped DEF Codes, Contents
    <3>2. CASE Goto(t, "lock") /\ UNCHANGED <<op, seq, sock, need, got, r, res>>
      BY <3>2 DEF CallOK, Goto, PCs
    <3>. QED
      BY <1>3, <3>1, <3>2 DEF PowerUnlock
  <2>. QED
    BY <1>3, <2>1 DEF PowerUnlock, Unlocked, CtxOK, NetOK, IccOK, CardOK, cardVars
<1>4. CASE Send(t)
  <2>1. client_sock' \in SockType /\ conn' \in Networks
    BY <1>1, <1>4, SendTyped, EjectTyped DEF Send, CtxOK, NetOK
  <2>2. CallOK'
    <3>1. /\ \E l \in {"recv1", "unlock"} : Goto(t, l)
          /\ r' = r \/ r' = [r EXCEPT ![t] = -1]
          /\ UNCHANGED <<op, seq, sock, need, got, res>>
      BY <1>4 DEF Send
    <3>2. pc' \in [Threads -> PCs]
      BY <3>1 DEF CallOK, Goto, PCs
    <3>3. r' \in [Threads -> -1 .. 3]
      <4>1. r \in [Threads -> -1 .. 3] /\ -1 \in -1 .. 3
        BY DEF CallOK
      <4>. QED
        BY <3>1, <4>1
    <3>. QED
      BY <3>1, <3>2, <3>3 DEF CallOK
  <2>. QED
    BY <1>4, <2>1, <2>2 DEF Send, CtxOK, NetOK, IccOK, CardOK, cardVars
<1>. QED
  BY <1>2, <1>3, <1>4

\* Messages are received.
LEMMA ReceivingSteps ==
  ASSUME Inv, NEW t \in Threads, RecvCall(t) \/ RecvHeader(t) \/ RecvBody(t)
  PROVE Inv'
<1>. USE DEF Inv
<1>1. INVALID_SOCKET \in SockType /\ -1 \in -1 .. 3
  BY DEF SockType
<1>2. CASE RecvCall(t)
  BY <1>2 DEF RecvCall, CtxOK, NetOK, CallOK, IccOK, CardOK, ctxVars, cardVars, Goto, PCs
<1>3. ASSUME sock[t] \in Conns
      PROVE /\ Stream(t) \in Seq(Bytes)
            /\ \A k \in Nat : k <= Len(Stream(t)) /\ Consume(t, k) => conn' \in Networks
  <2>1. conn[sock[t]] \in ConnType
    BY <1>3 DEF NetOK, Networks
  <2>2. Stream(t) \in Seq(Bytes)
    BY <2>1, ConnsTyped DEF Stream
  <2>3. ASSUME NEW k \in Nat, k <= Len(Stream(t)), Consume(t, k) PROVE conn' \in Networks
    <3>1. [conn[sock[t]] EXCEPT !.toPcd = Drop(Stream(t), k)] \in ConnType
      BY <2>1, <2>2, <2>3, Pieces, ConnsTyped
    <3>. QED
      BY <2>3, <3>1 DEF Consume, Stream, NetOK, Networks
  <2>. QED
    BY <2>2, <2>3
<1>4. ASSUME Discard(t) PROVE conn' \in Networks
  <2>1. <<>> \in Seq(Bytes)
    OBVIOUS
  <2>. QED
    BY <1>4, <2>1, ConnsTyped DEF Discard, NetOK, Networks
<1>5. need[t] \in 0 .. 2
  BY DEF CallOK
<1>8. ASSUME EofRecv(t) PROVE Len(Stream(t)) \in -1 .. 3
  <2>1. Stream(t) \in Seq(Bytes)
    BY <1>3, <1>8 DEF EofRecv
  <2>2. Len(Stream(t)) \in Nat
    BY <2>1
  <2>3. Len(Stream(t)) < need[t]
    BY <1>8 DEF EofRecv
  <2>4. \A i \in Nat, j \in 0 .. 2 : i < j => i \in -1 .. 3
    OBVIOUS
  <2>. QED
    BY <1>5, <2>2, <2>3, <2>4
<1>6. CASE RecvHeader(t)
  <2>1. conn' \in Networks
    <3>1. CASE WholeRecv(t) /\ Consume(t, need[t])
      BY <1>3, <1>5, <3>1 DEF WholeRecv
    <3>2. CASE EofRecv(t) /\ Consume(t, Len(Stream(t)))
      BY <1>3, <3>2 DEF EofRecv
    <3>3. CASE Discard(t)
      BY <1>4, <3>3
    <3>. QED
      BY <1>6, <3>1, <3>2, <3>3 DEF RecvHeader
  <2>2. need' \in [Threads -> 0 .. 2]
    <3>1. \E k \in 0 .. 2 : need' = [need EXCEPT ![t] = k] \/ need' = need
      BY <1>6, LengthsOfBytes DEF RecvHeader
    <3>. QED
      BY <3>1 DEF CallOK
  <2>3. r' \in [Threads -> -1 .. 3]
    <3>1. CASE EofRecv(t) /\ r' = [r EXCEPT ![t] = Len(Stream(t))]
      BY <1>8, <3>1 DEF CallOK
    <3>2. CASE r' = r
      BY <3>2 DEF CallOK
    <3>. QED
      BY <1>6, <3>1, <3>2 DEF RecvHeader
  <2>4. pc' \in [Threads -> PCs] /\ sock' \in [Threads -> SockType]
    BY <1>1, <1>6 DEF RecvHeader, CallOK, Goto, PCs
  <2>. QED
    BY <1>6, <2>1, <2>2, <2>3, <2>4
    DEF RecvHeader, CtxOK, NetOK, CallOK, IccOK, CardOK, ctxVars, cardVars
<1>7. CASE RecvBody(t)
  <2>1. conn' \in Networks
    <3>1. CASE WholeRecv(t) /\ Consume(t, need[t])
      BY <1>3, <1>5, <3>1 DEF WholeRecv
    <3>2. CASE EofRecv(t) /\ Consume(t, Len(Stream(t)))
      BY <1>3, <3>2 DEF EofRecv
    <3>3. CASE Discard(t)
      BY <1>4, <3>3
    <3>. QED
      BY <1>7, <3>1, <3>2, <3>3 DEF RecvBody
  <2>2. got' \in [Threads -> Seq(Bytes)]
    <3>1. CASE WholeRecv(t) /\ got' = [got EXCEPT ![t] = Take(Stream(t), need[t])]
      <4>1. Take(Stream(t), need[t]) \in Seq(Bytes)
        BY <1>3, <1>5, <3>1, Pieces DEF WholeRecv
      <4>. QED
        BY <3>1, <4>1 DEF CallOK
    <3>2. CASE EofRecv(t) /\ got' = [got EXCEPT ![t] = Stream(t)]
      BY <1>3, <3>2 DEF EofRecv, CallOK
    <3>3. CASE got' = got
      BY <3>3 DEF CallOK
    <3>. QED
      BY <1>7, <3>1, <3>2, <3>3 DEF RecvBody
  <2>3. r' \in [Threads -> -1 .. 3]
    <3>1. \E v \in -1 .. 3 : r' = [r EXCEPT ![t] = v]
      <4>1. CASE EofRecv(t) /\ r' = [r EXCEPT ![t] = Len(Stream(t))]
        BY <1>8, <4>1
      <4>2. CASE r' = [r EXCEPT ![t] = need[t]] \/ r' = [r EXCEPT ![t] = -1]
        BY <1>5, <4>2
      <4>. QED
        BY <1>7, <4>1, <4>2 DEF RecvBody
    <3>. QED
      BY <3>1 DEF CallOK
  <2>4. pc' \in [Threads -> PCs] /\ sock' \in [Threads -> SockType]
    BY <1>1, <1>7 DEF RecvBody, CallOK, Goto, PCs
  <2>. QED
    BY <1>7, <2>1, <2>2, <2>3, <2>4
    DEF RecvBody, CtxOK, NetOK, CallOK, IccOK, CardOK, ctxVars, cardVars
<1>. QED
  BY <1>2, <1>6, <1>7

\* The lock is left, and a failed exchange ejects.
LEMMA LeavingSteps ==
  ASSUME Inv, NEW t \in Threads, Unlock(t) \/ LateEject(t) PROVE Inv'
<1>. USE DEF Inv
<1>1. CASE Unlock(t)
  <2>1. CallOK'
    <3>1. CASE ReturnTransmit(t)
      BY <3>1, ReturnTransmitTyped
    <3>2. CASE Goto(t, "eject") /\ UNCHANGED <<op, seq, sock, need, got, r, res>>
      BY <3>2 DEF CallOK, Goto, PCs
    <3>. QED
      BY <1>1, <3>1, <3>2 DEF Unlock
  <2>. QED
    BY <1>1, <2>1 DEF Unlock, Unlocked, CtxOK, NetOK, IccOK, CardOK, cardVars
<1>2. CASE LateEject(t)
  <2>1. CallOK'
    BY <1>2, ReturnTransmitTyped DEF LateEject
  <2>2. client_sock' \in SockType /\ conn' \in Networks
    BY <1>2, EjectTyped DEF LateEject, CtxOK, NetOK
  <2>. QED
    BY <1>2, <2>1, <2>2 DEF LateEject, CtxOK, NetOK, IccOK, CardOK, cardVars
<1>. QED
  BY <1>1, <1>2
-----------------------------------------------------------------------------
\* The card process.

CardState == vpicc \in CardType /\ CardOK

LEMMA CardStates ==
  /\ DownCard \in CardType
  /\ \A c \in Conns : CardWith(c, "hdr") \in CardType /\ CardWith(c, "hdr").conn = c
  /\ CardWith(INVALID_SOCKET, "accept") \in CardType
  /\ DownCard.pc = "down" /\ CardWith(INVALID_SOCKET, "accept").pc = "accept"
  /\ \A c \in Conns : CardWith(c, "hdr").pc = "hdr"
<1>1. 0 \in 0 .. 2
  OBVIOUS
<1>. QED
  BY <1>1 DEF DownCard, CardWith, CardType, CardPCs

\* Whatever ends the connection or the process leaves types in order.
LEMMA EndsTyped ==
  ASSUME Inv, NEW k \in Networks, CardEnds(k) PROVE conn' \in Networks /\ CardState'
BY ClosedTyped, CardStates DEF CardEnds, CardState, CardOK

LEMMA HangupTyped ==
  ASSUME Inv, Hangup PROVE conn' \in Networks /\ CardState'
<1>1. CASE CardEnds(conn)
  BY <1>1, EndsTyped DEF Inv, NetOK
<1>2. CASE Disconnected /\ ~CardEnds(conn)
  <2>1. vpicc' = CardWith(INVALID_SOCKET, "accept") /\ conn' = [conn EXCEPT ![vpicc.conn] = CloseIcc(@)]
    BY <1>2 DEF Disconnected
  <2>2. \A c \in Conns : CloseIcc(conn[c]) \in ConnType
    BY ConnsTyped DEF Inv, NetOK, Networks
  <2>3. conn' \in Networks
    BY <2>1, <2>2 DEF Inv, NetOK, Networks
  <2>. QED
    BY <2>1, <2>3, CardStates DEF CardState, CardOK
<1>. QED
  BY <1>1, <1>2 DEF Hangup

LEMMA ConsumedTyped ==
  ASSUME Inv, vpicc.conn \in Conns, NEW k \in Nat, k <= Len(Arrived), CardConsumes(k)
  PROVE conn' \in Networks
<1>1. conn[vpicc.conn] \in ConnType
  BY DEF Inv, NetOK, Networks
<1>2. Arrived \in Seq(Bytes)
  BY <1>1, ConnsTyped DEF Arrived
<1>3. [conn[vpicc.conn] EXCEPT !.toIcc = Drop(Arrived, k)] \in ConnType
  BY <1>1, <1>2, Pieces, ConnsTyped
<1>. QED
  BY <1>3 DEF CardConsumes, Arrived, Inv, NetOK, Networks

LEMMA CountsTyped ==
  ASSUME Inv, vpicc.conn \in Conns, NEW n \in Nat, NEW k \in RecvCounts(n)
  PROVE k \in Nat /\ k <= Len(Arrived)
<1>1. Arrived \in Seq(Bytes)
  BY ConnsTyped DEF Arrived, Inv, NetOK, Networks
<1>2. Len(Arrived) \in Nat
  BY <1>1
<1>. QED
  BY <1>2 DEF RecvCounts, Least

\* A card process starts, accepts or dies.
LEMMA LifeSteps ==
  ASSUME Inv, CardStarts \/ CardAccepts \/ CardDies PROVE Inv'
<1>. USE DEF Inv
<1>1. CASE CardStarts
  <2>1. conn' \in Networks /\ CardState'
    BY <1>1, ConnsTyped, CardStates
    DEF CardStarts, FreeConns, NetOK, Networks, CardState, CardOK
  <2>. QED
    BY <1>1, <2>1 DEF CardStarts, CtxOK, NetOK, CallOK, IccOK, CardState, ctxVars, callVars
<1>2. CASE CardAccepts
  <2>1. conn' \in Networks /\ CardState'
    BY <1>2, ConnsTyped, CardStates DEF CardAccepts, Backlog, NetOK, Networks, CardState, CardOK
  <2>. QED
    BY <1>2, <2>1 DEF CardAccepts, CtxOK, NetOK, CallOK, IccOK, CardState, ctxVars, callVars
<1>3. CASE CardDies
  <2>1. conn' \in Networks /\ CardState'
    <3>1. CASE CardEnds(conn)
      BY <3>1, EndsTyped DEF NetOK
    <3>2. ASSUME vpicc.pc = "reply", NEW k \in Cuts,
                 CardEnds([conn EXCEPT ![vpicc.conn].toPcd = @ \o Take(Wire(vpicc.ans), k)])
          PROVE conn' \in Networks /\ CardState'
      <4>1. vpicc.conn \in Conns /\ vpicc.ans \in Messages /\ BodyLen(vpicc.ans) = 2
        BY <3>2 DEF CardOK, Messages, Answers, BodyLen, AnswerKinds, ControlKinds
      <4>2. Take(Wire(vpicc.ans), k) \in Seq(Bytes)
        BY <4>1, Wires, Pieces, LinkAssumption
      <4>3. conn[vpicc.conn] \in ConnType /\ conn[vpicc.conn].toPcd \in Seq(Bytes)
        BY <4>1, ConnsTyped DEF NetOK, Networks
      <4>4. [conn[vpicc.conn] EXCEPT !.toPcd = conn[vpicc.conn].toPcd \o Take(Wire(vpicc.ans), k)] \in ConnType
        <5>. DEFINE s == conn[vpicc.conn].toPcd \o Take(Wire(vpicc.ans), k)
        <5>1. s \in Seq(Bytes)
          BY <4>2, <4>3
        <5>. HIDE DEF s
        <5>2. [conn[vpicc.conn] EXCEPT !.toPcd = s] \in ConnType
          BY <4>3, <5>1, ConnsTyped
        <5>. QED
          BY <5>2 DEF s
      <4>5. [conn EXCEPT ![vpicc.conn].toPcd = @ \o Take(Wire(vpicc.ans), k)] \in Networks
        BY <4>4 DEF NetOK, Networks
      <4>. QED
        BY <3>2, <4>5, EndsTyped
    <3>. QED
      BY <1>3, <3>1, <3>2 DEF CardDies
  <2>. QED
    BY <1>3, <2>1 DEF CardDies, CtxOK, NetOK, CallOK, IccOK, CardState, ctxVars, callVars
<1>. QED
  BY <1>1, <1>2, <1>3
\* The card process receives a command and answers it.
LEMMA WorkSteps ==
  ASSUME Inv, CardRecvLength \/ CardRecvBody \/ CardReplies PROVE Inv'
<1>. USE DEF Inv
<1>1. CASE CardRecvLength
  <2>1. vpicc.conn \in Conns
    BY <1>1 DEF CardRecvLength, CardOK
  <2>2. conn' \in Networks /\ CardState'
    <3>1. CASE Hangup
      BY <3>1, HangupTyped
    <3>2. CASE CardEnds(conn)
      BY <3>2, EndsTyped DEF NetOK
    <3>3. ASSUME CardConsumes(2), 2 \in RecvCounts(2), NEW size \in 0 .. 2,
                 vpicc' = [vpicc EXCEPT !.pc = IF size = 0 THEN "hdr" ELSE "body", !.size = size]
          PROVE conn' \in Networks /\ CardState'
      <4>1. conn' \in Networks
        BY <2>1, <3>3, CountsTyped, ConsumedTyped
      <4>. QED
        BY <2>1, <3>3, <4>1 DEF IccOK, CardType, CardPCs, CardState, CardOK
    <3>4. ASSUME NEW k \in RecvCounts(2), k # 1 PROVE k = 2 \/ Arrived = <<>>
      <4>1. Arrived \in Seq(Bytes)
        BY <2>1, ConnsTyped DEF Arrived, NetOK, Networks
      <4>. QED
        BY <3>4, <4>1 DEF RecvCounts, Least
    <3>. QED
      BY <1>1, <3>1, <3>2, <3>3, <3>4, LengthsOfBytes DEF CardRecvLength
  <2>. QED
    BY <1>1, <2>2 DEF CardRecvLength, CtxOK, NetOK, CallOK, IccOK, CardState, ctxVars, callVars
<1>2. CASE CardRecvBody
  <2>1. vpicc.conn \in Conns /\ vpicc \in CardType /\ vpicc.size \in Nat
    BY <1>2 DEF CardRecvBody, CardOK, IccOK, CardType
  <2>0. 0 \in 0 .. 2
    OBVIOUS
  <2>2. ASSUME NEW a \in Answers, ToReply(a) PROVE CardState'
    BY <2>0, <2>1, <2>2 DEF ToReply, CardType, CardPCs, CardState, CardOK
  <2>3. ASSUME NoReply PROVE CardState'
    BY <2>0, <2>1, <2>3 DEF NoReply, CardType, CardPCs, CardState, CardOK
  <2>4. CASE Hangup /\ UNCHANGED <<lastPower, execs>>
    <3>. QED
      BY <1>2, <2>4, HangupTyped
      DEF CardRecvBody, CtxOK, NetOK, CallOK, IccOK, CardState, ctxVars, callVars
  <2>5. ASSUME NEW k \in RecvCounts(vpicc.size), NEW m \in Commands \cup {NoMsg},
               CardConsumes(k), DoControl(m) \/ DoApdu(m)
        PROVE Inv'
    <3>1. conn' \in Networks
      BY <2>1, <2>5, CountsTyped, ConsumedTyped
    <3>2. /\ CardState'
          /\ lastPower' \in Commands \cup {NoMsg}
          /\ execs' \in [Threads -> 0 .. 2]
      <4>1. CASE DoControl(m)
        <5>1. CASE ToReply(Answer("R-ATR", m, lastPower))
          <6>1. Answer("R-ATR", m, lastPower) \in Answers
            BY AnswersTyped DEF AnswerKinds, IccOK
          <6>. QED
            BY <2>2, <4>1, <5>1, <6>1 DEF DoControl, IccOK
        <5>2. CASE NoReply
          BY <2>3, <4>1, <5>2 DEF DoControl, IccOK
        <5>. QED
          BY <4>1, <5>1, <5>2 DEF DoControl
      <4>2. CASE DoApdu(m)
        <5>1. Answer("R-JUNK", NoMsg, NoMsg) \in Answers /\ Answer("R-APDU", m, NoMsg) \in Answers
          BY AnswersTyped DEF AnswerKinds
        <5>2. \A i \in 0 .. 2 : Least(i + 1, 2) \in 0 .. 2
          BY DEF Least
        <5>3. CardState'
          BY <2>2, <4>2, <5>1 DEF DoApdu
        <5>4. execs' \in [Threads -> 0 .. 2]
          BY <4>2, <5>2 DEF DoApdu, IccOK
        <5>. QED
          BY <4>2, <5>3, <5>4 DEF DoApdu, IccOK
      <4>. QED
        BY <2>5, <4>1, <4>2
    <3>. QED
      BY <1>2, <3>1, <3>2
      DEF CardRecvBody, CtxOK, NetOK, CallOK, IccOK, CardState, ctxVars, callVars
  <2>6. \A b : Meant(b) \in Commands \cup {NoMsg}
    BY DEF Meant
  <2>. QED
    BY <1>2, <2>4, <2>5, <2>6 DEF CardRecvBody
<1>3. CASE CardReplies
  <2>1. vpicc.conn \in Conns /\ vpicc.ans \in Messages /\ vpicc \in CardType
    BY <1>3 DEF CardReplies, CardOK, IccOK, Messages
  <2>2. conn[vpicc.conn] \in ConnType /\ conn[vpicc.conn].toPcd \in Seq(Bytes)
    BY <2>1, ConnsTyped DEF NetOK, Networks
  <2>. DEFINE s == conn[vpicc.conn].toPcd \o Wire(vpicc.ans)
  <2>3. [conn[vpicc.conn] EXCEPT !.toPcd = s] \in ConnType
    <3>1. s \in Seq(Bytes)
      BY <2>1, <2>2, Wires
    <3>. HIDE DEF s
    <3>. QED
      BY <2>2, <3>1, ConnsTyped
  <2>4. [conn EXCEPT ![vpicc.conn].toPcd = @ \o Wire(vpicc.ans)] \in Networks
    BY <2>3 DEF NetOK, Networks
  <2>5. [conn EXCEPT ![vpicc.conn].rst = TRUE] \in Networks
    BY <2>2, ConnsTyped DEF NetOK, Networks
  <2>6. ASSUME vpicc' = [vpicc EXCEPT !.pc = "hdr", !.ans = NoMsg] PROVE CardState'
    BY <2>1, <2>6 DEF CardType, CardPCs, CardState, CardOK
  <2>7. conn' \in Networks /\ CardState'
    <3>1. CASE CardEnds(conn)
      BY <3>1, EndsTyped DEF NetOK
    <3>. QED
      BY <1>3, <2>4, <2>5, <2>6, <3>1 DEF CardReplies
  <2>. QED
    BY <1>3, <2>7 DEF CardReplies, CtxOK, NetOK, CallOK, IccOK, CardState, ctxVars, callVars
<1>. QED
  BY <1>1, <1>2, <1>3

-----------------------------------------------------------------------------
LEMMA InvStep == Inv /\ HostOK /\ [Next]_vars => Inv' /\ HostOK'
<1>. SUFFICES ASSUME Inv, HostOK, [Next]_vars PROVE Inv' /\ HostOK'
  OBVIOUS
<1>1. CASE UNCHANGED vars
  BY <1>1 DEF Inv, vars, linkVars, ctxVars, callVars, cardVars, CtxOK, NetOK, CallOK, IccOK, CardOK,
              HostOK
<1>2. CASE Next
  <2>1. HostOK' /\ OpsOf \in Hosts
    BY <1>2 DEF Next, HostOK
  <2>. QED
    BY <1>2, <2>1, ChannelSteps, EnteringSteps, SendingSteps, ReceivingSteps, LeavingSteps, LifeSteps,
       WorkSteps
    DEF Next, Step, CardStep
<1>. QED
  BY <1>1, <1>2

\* TypeOK holds for any number of callers and connections and any choice of
\* their operations: the state of the context, of the wire and of the card
\* process keeps its shape, and no return value leaves -1 .. 3.
THEOREM LinkTypesHold == Spec => []TypeOK
BY InvTypes, InvInit, InvStep, PTL DEF Spec
-----------------------------------------------------------------------------
\* The lock.

\* Where a caller holds io_lock.
Inside == {"psend", "punlock", "send", "recv1", "in1", "recv2", "in2", "unlock"}

HolderInside == LockWorks => \A t \in Threads : pc[t] \in Inside <=> io_lock = t

LEMMA HolderInit == Init => HolderInside
BY LinkAssumption DEF Init, HolderInside, Inside

LEMMA HolderStep == Inv /\ HolderInside /\ [Next]_vars => HolderInside'
<1>. SUFFICES ASSUME LockWorks, Inv, HolderInside, [Next]_vars PROVE HolderInside'
  BY DEF HolderInside
<1>. USE LinkAssumption DEF HolderInside, Inside
<1>0. pc \in [Threads -> PCs]
  BY DEF Inv, CallOK
<1>1. CASE CreateChannel \/ CloseChannel
  BY <1>1 DEF CreateChannel, CloseChannel, callVars
<1>2. CASE PcdDies
  BY <1>2 DEF PcdDies
<1>3. ASSUME NEW t \in Threads, \E o \in OpsOf[t] : Call(t, o) PROVE HolderInside'
  BY <1>0, <1>3 DEF Call, Goto, ctxVars
<1>4. ASSUME NEW t \in Threads, Connect(t) PROVE HolderInside'
  BY <1>0, <1>4 DEF Connect, Goto, Return
<1>5. ASSUME NEW t \in Threads, Lock(t) PROVE HolderInside'
  BY <1>0, <1>5 DEF Lock, Goto
<1>6. ASSUME NEW t \in Threads, PowerSend(t) PROVE HolderInside'
  BY <1>0, <1>6 DEF PowerSend, Goto
<1>7. ASSUME NEW t \in Threads, PowerUnlock(t) PROVE HolderInside'
  BY <1>0, <1>7 DEF PowerUnlock, Unlocked, Goto, Return
<1>8. ASSUME NEW t \in Threads, Send(t) PROVE HolderInside'
  BY <1>0, <1>8 DEF Send, Goto
<1>9. ASSUME NEW t \in Threads, RecvCall(t) \/ RecvHeader(t) \/ RecvBody(t) PROVE HolderInside'
  BY <1>0, <1>9 DEF RecvCall, RecvHeader, RecvBody, Goto, ctxVars
<1>10. ASSUME NEW t \in Threads, Unlock(t) PROVE HolderInside'
  BY <1>0, <1>10 DEF Unlock, Unlocked, Goto, ReturnTransmit, Return
<1>11. ASSUME NEW t \in Threads, LateEject(t) PROVE HolderInside'
  BY <1>0, <1>11 DEF LateEject, ReturnTransmit, Return
<1>12. CASE CardStep \/ CardStarts \/ CardDies
  BY <1>12 DEF CardStep, CardAccepts, CardRecvLength, CardRecvBody, CardReplies, CardStarts,
               CardDies, ctxVars, callVars
<1>13. CASE UNCHANGED vars
  BY <1>13 DEF vars, linkVars, ctxVars, callVars
<1>. QED
  BY <1>1, <1>2, <1>3, <1>4, <1>5, <1>6, <1>7, <1>8, <1>9, <1>10, <1>11, <1>12, <1>13
  DEF Next, Step

\* With a lock that works (lock.c on Windows) no two callers are between lock
\* and unlock in vpcd.c, whatever fails there and however they leave.
THEOREM OneInside ==
  LockWorks => (Spec => [](\A t, u \in Threads : pc[t] \in Inside /\ pc[u] \in Inside => t = u))
<1>. DEFINE One == \A t, u \in Threads : pc[t] \in Inside /\ pc[u] \in Inside => t = u
<1>. SUFFICES ASSUME LockWorks PROVE Spec => []One
  OBVIOUS
<1>1. Init => Inv /\ HostOK /\ HolderInside
  BY InvInit, HolderInit
<1>2. Inv /\ HostOK /\ HolderInside /\ [Next]_vars => (Inv /\ HostOK /\ HolderInside)'
  BY InvStep, HolderStep
<1>3. HolderInside => One
  BY DEF HolderInside
<1>. QED
  BY <1>1, <1>2, <1>3, PTL DEF Spec

-----------------------------------------------------------------------------
\* What is on a connection.

\* The commands the card answers.
Asks(m) == m.kind \in {"ATR", "APDU"}

\* The bytes of whole commands follow each other, whatever has been taken from
\* the front.
InOrder(s) ==
  \A i \in 1 .. Len(s) :
    LET m == s[i][1]  last == BodyLen(m) + 2
    IN /\ m \in Commands
       /\ s[i][2] <= last
       /\ s[i][2] < last => i < Len(s) /\ s[i + 1] = <<m, s[i][2] + 1>>
       /\ s[i][2] = last /\ i < Len(s) => s[i + 1][2] = 1

\* No byte waits for the card that it would answer.
Silent(s) == \A i \in 1 .. Len(s) : ~Asks(s[i][1])

\* If there is a command that is answered, it is q, and the last one.
AskedLast(q, s) ==
  \A i \in 1 .. Len(s) :
    Asks(s[i][1]) => s[i][1] = q /\ i + BodyLen(q) + 2 = Len(s) + s[i][2]


LEMMA Dropped ==
  ASSUME NEW s \in Seq(Bytes), NEW k \in Nat, k <= Len(s)
  PROVE /\ Drop(s, k) \in Seq(Bytes)
        /\ Len(Drop(s, k)) = Len(s) - k
        /\ \A i \in 1 .. Len(s) - k : Drop(s, k)[i] = s[i + k]
BY DEF Drop

LEMMA Taken ==
  ASSUME NEW s \in Seq(Bytes), NEW k \in Nat, k <= Len(s)
  PROVE /\ Take(s, k) \in Seq(Bytes)
        /\ Len(Take(s, k)) = k
        /\ \A i \in 1 .. k : Take(s, k)[i] = s[i]
BY DEF Take

LEMMA NotEmpty ==
  ASSUME NEW s \in Seq(Bytes) PROVE Len(s) \in Nat /\ (s # <<>> => Len(s) >= 1)
OBVIOUS

LEMMA Elements ==
  ASSUME NEW s \in Seq(Bytes), NEW i \in 1 .. Len(s)
  PROVE s[i][1] \in Messages /\ s[i][2] \in 1 .. 4 /\ s[i] = <<s[i][1], s[i][2]>>
BY DEF Bytes

LEMMA Joined ==
  ASSUME NEW s \in Seq(Bytes), NEW m \in Messages
  PROVE LET w == s \o Wire(m)
        IN /\ w \in Seq(Bytes)
           /\ Len(w) = Len(s) + BodyLen(m) + 2
           /\ \A i \in 1 .. Len(s) : w[i] = s[i]
           /\ \A i \in Len(s) + 1 .. Len(w) : w[i] = <<m, i - Len(s)>>
<1>1. Wire(m) \in Seq(Bytes) /\ Len(Wire(m)) = BodyLen(m) + 2 /\ BodyLen(m) \in {1, 2}
  BY Wires, BodyLens
<1>2. \A i \in 1 .. BodyLen(m) + 2 : Wire(m)[i] = <<m, i>>
  BY DEF Wire
<1>. QED
  BY <1>1, <1>2

LEMMA OrderJoined ==
  ASSUME NEW s \in Seq(Bytes), NEW m \in Commands, InOrder(s)
  PROVE InOrder(s \o Wire(m))
<1>. DEFINE w == s \o Wire(m)
<1>1. m \in Messages /\ BodyLen(m) \in {1, 2}
  BY BodyLens DEF Messages
<1>2. /\ w \in Seq(Bytes)
      /\ Len(w) = Len(s) + BodyLen(m) + 2
      /\ \A i \in 1 .. Len(s) : w[i] = s[i]
      /\ \A i \in Len(s) + 1 .. Len(w) : w[i] = <<m, i - Len(s)>>
  BY <1>1, Joined
<1>. HIDE DEF w
<1>3. ASSUME NEW i \in 1 .. Len(w)
      PROVE /\ w[i][1] \in Commands
            /\ w[i][2] <= BodyLen(w[i][1]) + 2
            /\ w[i][2] < BodyLen(w[i][1]) + 2 => i < Len(w) /\ w[i + 1] = <<w[i][1], w[i][2] + 1>>
            /\ w[i][2] = BodyLen(w[i][1]) + 2 /\ i < Len(w) => w[i + 1][2] = 1
  <2>1. CASE i \in 1 .. Len(s)
    <3>1. w[i] = s[i] /\ Len(s) \in Nat /\ s[i][2] \in 1 .. 4
      BY <1>2, <2>1, Elements
    <3>2. CASE i < Len(s)
      <4>1. i + 1 \in 1 .. Len(s)
        BY <2>1, <3>1, <3>2
      <4>2. w[i + 1] = s[i + 1] /\ i < Len(w)
        BY <1>1, <1>2, <3>1, <3>2, <4>1
      <4>. QED
        BY <2>1, <3>1, <3>2, <4>2 DEF InOrder
    <3>3. CASE i = Len(s)
      BY <1>1, <1>2, <3>1, <3>3 DEF InOrder
    <3>. QED
      BY <2>1, <3>2, <3>3
  <2>2. CASE i \in Len(s) + 1 .. Len(w)
    <3>1. w[i] = <<m, i - Len(s)>> /\ Len(s) \in Nat /\ Len(w) \in Nat
      BY <1>2, <2>2
    <3>2. i < Len(w) => w[i + 1] = <<m, i + 1 - Len(s)>>
      BY <1>2, <2>2, <3>1
    <3>. QED
      BY <1>1, <1>2, <2>2, <3>1, <3>2
  <2>. QED
    BY <1>2, <2>1, <2>2
<1>. QED
  BY <1>3 DEF InOrder, w

LEMMA OrderDropped ==
  ASSUME NEW s \in Seq(Bytes), InOrder(s), NEW k \in Nat, k <= Len(s)
  PROVE InOrder(Drop(s, k))
<1>. DEFINE w == Drop(s, k)
<1>1. w \in Seq(Bytes) /\ Len(w) = Len(s) - k /\ \A i \in 1 .. Len(s) - k : w[i] = s[i + k]
  BY Dropped
<1>. HIDE DEF w
<1>2. ASSUME NEW i \in 1 .. Len(w)
      PROVE /\ i + k \in 1 .. Len(s) /\ w[i] = s[i + k]
            /\ i < Len(w) <=> i + k < Len(s)
            /\ i < Len(w) => w[i + 1] = s[(i + k) + 1]
  <2>1. Len(s) \in Nat /\ Len(w) \in Nat
    BY <1>1
  <2>2. i + k \in 1 .. Len(s) /\ w[i] = s[i + k] /\ (i < Len(w) <=> i + k < Len(s))
    BY <1>1, <2>1
  <2>3. CASE i < Len(w)
    <3>1. i + 1 \in 1 .. Len(s) - k /\ (i + 1) + k = (i + k) + 1
      BY <1>1, <2>1, <2>3
    <3>. QED
      BY <1>1, <2>2, <3>1
  <2>. QED
    BY <2>2, <2>3
<1>. QED
  BY <1>1, <1>2 DEF InOrder, w

LEMMA FirstHeader ==
  ASSUME NEW s \in Seq(Bytes), InOrder(s), s # <<>>, s[1][2] = 1
  PROVE LET m == s[1][1]
        IN /\ m \in Commands
           /\ Len(s) >= BodyLen(m) + 2
           /\ Lengths(Take(s, 2)) = {BodyLen(m)}
           /\ s[1] = <<m, 1>> /\ s[2] = <<m, 2>> /\ s[3] = <<m, 3>>
           /\ BodyLen(m) = 2 => s[4] = <<m, 4>>
<1>. DEFINE m == s[1][1]
<1>1. Len(s) \in Nat /\ 1 \in 1 .. Len(s) /\ BodyLen(m) \in {1, 2} /\ s[1] = <<m, 1>> /\ m \in Commands
  BY BodyLens, Elements DEF InOrder
<1>2. 2 \in 1 .. Len(s) /\ s[2] = <<m, 2>>
  BY <1>1 DEF InOrder
<1>3. 3 \in 1 .. Len(s) /\ s[3] = <<m, 3>>
  BY <1>1, <1>2 DEF InOrder
<1>4. BodyLen(m) = 2 => 4 \in 1 .. Len(s) /\ s[4] = <<m, 4>>
  BY <1>1, <1>3 DEF InOrder
<1>5. Lengths(Take(s, 2)) = {BodyLen(m)}
  <2>1. Len(Take(s, 2)) = 2 /\ Take(s, 2)[1] = <<m, 1>> /\ Take(s, 2)[2] = <<m, 2>>
    <3>1. 2 \in Nat /\ 2 <= Len(s) /\ 1 \in 1 .. 2 /\ 2 \in 1 .. 2
      BY <1>2
    <3>. QED
      BY <1>1, <1>2, <3>1, Taken
  <2>. QED
    BY <2>1 DEF Lengths, IsHeader
<1>. QED
  BY <1>1, <1>2, <1>3, <1>4, <1>5

LEMMA FirstBody ==
  ASSUME NEW s \in Seq(Bytes), InOrder(s), s # <<>>, s[1][2] = 3
  PROVE LET m == s[1][1]
        IN /\ m \in Commands
           /\ Len(s) >= BodyLen(m)
           /\ Take(s, BodyLen(m)) = Body(m)
           /\ Meant(Take(s, BodyLen(m))) = m
           /\ \A i \in 1 .. BodyLen(m) : s[i] = <<m, i + 2>>
           /\ Len(s) > BodyLen(m) => s[BodyLen(m) + 1][2] = 1
<1>. DEFINE m == s[1][1]
<1>1. Len(s) \in Nat /\ 1 \in 1 .. Len(s) /\ BodyLen(m) \in {1, 2} /\ s[1] = <<m, 3>> /\ m \in Commands
  BY BodyLens, Elements DEF InOrder
<1>2. BodyLen(m) = 2 => 2 \in 1 .. Len(s) /\ s[2] = <<m, 4>>
  BY <1>1 DEF InOrder
<1>3. \A i \in 1 .. BodyLen(m) : s[i] = <<m, i + 2>> /\ i <= Len(s)
  BY <1>1, <1>2
<1>4. Len(s) > BodyLen(m) => s[BodyLen(m) + 1][2] = 1
  BY <1>1, <1>2, <1>3 DEF InOrder
<1>5. Take(s, BodyLen(m)) = Body(m)
  <2>1. BodyLen(m) \in Nat /\ BodyLen(m) <= Len(s)
    BY <1>1, <1>3
  <2>2. Take(s, BodyLen(m)) = [i \in 1 .. BodyLen(m) |-> s[i]]
    BY <2>1 DEF Take
  <2>. QED
    BY <1>3, <2>2 DEF Body
<1>6. Meant(Take(s, BodyLen(m))) = m
  <2>1. Body(m)[1] = <<m, 3>>
    BY <1>1 DEF Body
  <2>. QED
    BY <1>1, <1>5, <2>1 DEF Meant
<1>. QED
  BY <1>1, <1>3, <1>4, <1>5, <1>6
AtWork      == vpicc.pc \in {"hdr", "body", "reply"}
Replying(c) == vpicc.pc = "reply" /\ vpicc.conn = c
InBody(c)   == vpicc.pc = "body" /\ vpicc.conn = c

\* Nothing is on connection c that anyone would take for an answer.
Quiet(c) == Silent(conn[c].toIcc) /\ conn[c].toPcd = <<>> /\ ~Replying(c)


\* Bytes b are the beginning of an answer to t, or of its body.
AnswerTo(t, b) == /\ b # <<>> /\ b[1][1] \in Answers /\ b[1][1].to = Request(t)
                  /\ Len(b) <= 4 /\ \A i \in 1 .. Len(b) : b[i] = <<b[1][1], i>>
BodyTo(t, b)   == /\ b # <<>> /\ b[1][1] \in Answers /\ b[1][1].to = Request(t)
                  /\ Len(b) <= 2 /\ \A i \in 1 .. Len(b) : b[i] = <<b[1][1], i + 2>>

\* Nothing is on its connection but what t asks, or its answer.
AwaitsHeader(t, c) ==
  \/ conn[c].toPcd = <<>> /\ ~Replying(c) /\ AskedLast(Request(t), conn[c].toIcc)
  \/ conn[c].toPcd = <<>> /\ Replying(c) /\ vpicc.ans.to = Request(t) /\ Silent(conn[c].toIcc)
  \/ AnswerTo(t, conn[c].toPcd) /\ ~Replying(c) /\ Silent(conn[c].toIcc)

\* ... or what is left of it when the length has been read.
AwaitsBody(t, c) ==
  /\ ~Replying(c) /\ Silent(conn[c].toIcc)
  /\ conn[c].toPcd # <<>> => need[t] = 2 /\ BodyTo(t, conn[c].toPcd)

Listens(t) == pc[t] \in {"recv1", "in1", "recv2", "in2"}
Hears(t, c) == Listens(t) /\ c = IF InRecv(t) THEN sock[t] ELSE client_sock

-----------------------------------------------------------------------------
\* The parts of the invariant.

Alone == \A t, u \in Threads : pc[t] \in Inside /\ pc[u] \in Inside => t = u

\* Both ends of each connection.
EndsOK(c) ==
  LET k == conn[c]
  IN /\ k.pcd => c = client_sock \/ (k.backlog /\ ~reversed)
     /\ c = client_sock => k.pcd /\ (k.backlog => reversed)
     /\ k.backlog /\ ~reversed => k.pcd /\ k.toIcc = <<>> /\ k.toPcd = <<>> /\ ~Replying(c)
     /\ k.backlog /\ reversed => k.icc
     /\ ~k.icc => k.toIcc = <<>>
     /\ ~k.icc /\ ~k.pcd => k = NoConn

\* The ends of the connections belong to the context and to the card.
NetInv == /\ \A c \in Conns : EndsOK(c)
          /\ AtWork => conn[vpicc.conn].icc
          /\ vpicc.pc = "accept" => reversed
          /\ ~open => client_sock = INVALID_SOCKET

\* The card reads whole commands from the start.
FramesInv ==
  /\ \A c \in Conns : LET s == conn[c].toIcc
                      IN InOrder(s) /\ (s # <<>> => s[1][2] = IF InBody(c) THEN 3 ELSE 1)
  /\ vpicc.pc = "body" => LET s == conn[vpicc.conn].toIcc
                          IN s # <<>> /\ vpicc.size = BodyLen(s[1][1])

\* What may arrive is what is waited for.
AnswersInv ==
  /\ \A t \in Threads, c \in Conns :
       Hears(t, c) => IF pc[t] \in {"recv1", "in1"} THEN AwaitsHeader(t, c) ELSE AwaitsBody(t, c)
  /\ \A c \in Conns : c = client_sock /\ (\A t \in Threads : ~Hears(t, c)) => Quiet(c)

\* What a caller has received is its own.
GotInv ==
  \A t \in Threads :
    /\ pc[t] = "in1" => need[t] = 2
    /\ got[t] # <<>> => pc[t] \in {"unlock", "eject"} /\ BodyTo(t, got[t])
    /\ res[t].data # "foreign"

-----------------------------------------------------------------------------
LEMMA NothingSent == Silent(<<>>) /\ InOrder(<<>>)
BY DEF Silent, InOrder

LEMMA SilentAsks == \A q, s : Silent(s) => AskedLast(q, s)
BY DEF Silent, AskedLast

LEMMA SilentJoined ==
  ASSUME NEW s \in Seq(Bytes), NEW m \in Messages, Silent(s)
  PROVE /\ ~Asks(m) => Silent(s \o Wire(m))
        /\ AskedLast(m, s \o Wire(m))
<1>. DEFINE w == s \o Wire(m)
<1>0. Len(s) \in Nat /\ BodyLen(m) \in {1, 2}
  BY BodyLens
<1>1. /\ Len(w) = Len(s) + BodyLen(m) + 2
      /\ \A i \in 1 .. Len(s) : w[i] = s[i]
      /\ \A i \in Len(s) + 1 .. Len(w) : w[i] = <<m, i - Len(s)>>
  BY Joined
<1>. HIDE DEF w
<1>2. ASSUME NEW i \in 1 .. Len(w)
      PROVE \/ i \in 1 .. Len(s) /\ w[i] = s[i] /\ ~Asks(w[i][1])
            \/ w[i][1] = m /\ i = Len(s) + w[i][2]
  <2>1. CASE i \in 1 .. Len(s)
    BY <1>1, <2>1 DEF Silent
  <2>2. CASE i \in Len(s) + 1 .. Len(w)
    BY <1>0, <1>1, <2>2
  <2>. QED
    BY <1>0, <1>1, <2>1, <2>2
<1>3. ~Asks(m) => Silent(w)
  BY <1>2 DEF Silent
<1>4. AskedLast(m, w)
  <2>1. \A i, p \in Int : i = Len(s) + p => i + BodyLen(m) + 2 = Len(w) + p
    BY <1>0, <1>1
  <2>2. \A i \in 1 .. Len(w) : Asks(w[i][1]) => w[i][1] = m /\ i = Len(s) + w[i][2] /\ w[i][2] \in Int
    <3>1. \A i \in 1 .. Len(w) : w[i] \in Bytes
      BY Joined DEF w
    <3>. QED
      BY <1>2, <3>1 DEF Bytes
  <2>. QED
    BY <2>1, <2>2 DEF AskedLast
<1>. QED
  BY <1>3, <1>4 DEF w

LEMMA AskedDropped ==
  ASSUME NEW s \in Seq(Bytes), NEW k \in Nat, k <= Len(s)
  PROVE /\ Silent(s) => Silent(Drop(s, k))
        /\ \A q \in Commands : AskedLast(q, s) => AskedLast(q, Drop(s, k))
<1>. DEFINE w == Drop(s, k)
<1>1. w \in Seq(Bytes) /\ Len(w) = Len(s) - k /\ (\A i \in 1 .. Len(s) - k : w[i] = s[i + k]) /\ Len(s) \in Nat
  BY Dropped
<1>. HIDE DEF w
<1>2. \A i \in 1 .. Len(w) : i + k \in 1 .. Len(s) /\ w[i] = s[i + k]
  BY <1>1
<1>3. Silent(s) => Silent(w)
  BY <1>1, <1>2 DEF Silent
<1>4. ASSUME NEW q \in Commands, AskedLast(q, s) PROVE AskedLast(q, w)
  <2>1. ASSUME NEW i \in 1 .. Len(w), Asks(w[i][1])
        PROVE w[i][1] = q /\ i + BodyLen(q) + 2 = Len(w) + w[i][2]
    <3>1. i + k \in 1 .. Len(s) /\ w[i] = s[i + k] /\ s[i + k][2] \in 1 .. 4
      BY <1>2, Elements
    <3>2. s[i + k][1] = q /\ (i + k) + BodyLen(q) + 2 = Len(s) + s[i + k][2]
      BY <1>4, <2>1, <3>1 DEF AskedLast
    <3>3. w[i][1] = q /\ (i + k) + BodyLen(q) + 2 = Len(s) + w[i][2]
      BY <3>1, <3>2
    <3>7. BodyLen(q) \in Int
      BY BodyLens
    <3>8. Len(s) \in Int
      OBVIOUS
    <3>9. w[i][2] \in Int
      BY <3>1
    <3>4. PICK b, l, p \in Int : b = BodyLen(q) /\ l = Len(s) /\ p = w[i][2]
      BY <3>7, <3>8, <3>9
    <3>5. (i + k) + b + 2 = l + p
      BY <3>3, <3>4
    <3>6. i + b + 2 = (l - k) + p
      BY <3>5
    <3>. QED
      BY <1>1, <3>3, <3>4, <3>6
  <2>. QED
    BY <2>1 DEF AskedLast
<1>. QED
  BY <1>3, <1>4 DEF w

LEMMA AskedFirst ==
  ASSUME NEW s \in Seq(Bytes), s # <<>>, s[1][2] = 3, Asks(s[1][1]), NEW q \in Commands, AskedLast(q, s)
  PROVE s[1][1] = q /\ Drop(s, BodyLen(q)) = <<>>
<1>1. Len(s) \in Nat /\ 1 \in 1 .. Len(s)
  OBVIOUS
<1>2. s[1][1] = q /\ 1 + BodyLen(q) + 2 = Len(s) + 3
  BY <1>1 DEF AskedLast
<1>3. BodyLen(q) = Len(s)
  BY <1>1, <1>2, BodyLens
<1>4. Drop(s, BodyLen(q)) \in Seq(Bytes) /\ Len(Drop(s, BodyLen(q))) = 0
  BY <1>1, <1>3, Dropped
<1>. QED
  BY <1>2, <1>4

-----------------------------------------------------------------------------
LEMMA ConnFields ==
  /\ ~NoConn.backlog /\ ~NoConn.pcd /\ ~NoConn.icc /\ NoConn.toIcc = <<>> /\ NoConn.toPcd = <<>>
  /\ NewConn.backlog /\ NewConn.pcd /\ NewConn.icc /\ NewConn.toIcc = <<>> /\ NewConn.toPcd = <<>>
BY DEF NoConn, NewConn

LEMMA PcdClosedFields ==
  ASSUME NEW k \in ConnType, reversed \in BOOLEAN
  PROVE LET d == ClosePcd(k)
        IN /\ ~k.icc => d = NoConn
           /\ k.icc => ~d.pcd /\ d.icc /\ d.toPcd = <<>> /\ d.toIcc = k.toIcc
                         /\ (d.backlog <=> k.backlog /\ reversed)
BY DEF ClosePcd, ConnType

LEMMA IccClosedFields ==
  ASSUME NEW k \in ConnType, reversed \in BOOLEAN
  PROVE LET d == CloseIcc(k)
        IN /\ ~k.pcd => d = NoConn
           /\ k.pcd => d.pcd /\ ~d.icc /\ d.toPcd = k.toPcd /\ d.toIcc = <<>>
                         /\ (d.backlog <=> k.backlog /\ ~reversed)
BY DEF CloseIcc, ConnType

LEMMA QuietIsAwaited ==
  ASSUME NEW t \in Threads, NEW c \in Conns, Quiet(c)
  PROVE AwaitsHeader(t, c) /\ AwaitsBody(t, c)
BY SilentAsks DEF Quiet, AwaitsHeader, AwaitsBody

-----------------------------------------------------------------------------
\* What the steps have in common.

\* Calls are made on an open channel only.
ClosedIsIdle == ~open => AllIdle

LinkInv == NetInv /\ FramesInv /\ AnswersInv /\ GotInv
Sound   == Inv /\ HostOK /\ ClosedIsIdle /\ Alone /\ LinkInv

\* Nothing new has come to connection c.
NothingNew(c) ==
  /\ conn'[c].toIcc \in {conn[c].toIcc, <<>>}
  /\ conn'[c].toPcd \in {conn[c].toPcd, <<>>}
  /\ Replying(c)' => Replying(c) /\ vpicc'.ans = vpicc.ans

LEMMA StillAwaited ==
  ASSUME NEW t \in Threads, NEW c \in Conns, NothingNew(c), Request(t)' = Request(t), need'[t] = need[t]
  PROVE /\ AwaitsHeader(t, c) => AwaitsHeader(t, c)'
        /\ AwaitsBody(t, c) => AwaitsBody(t, c)'
        /\ Quiet(c) => Quiet(c)'
<1>1. Silent(conn[c].toIcc) => Silent(conn'[c].toIcc)
  BY NothingSent DEF NothingNew
<1>2. AskedLast(Request(t), conn[c].toIcc) => AskedLast(Request(t), conn'[c].toIcc)
  BY NothingSent, SilentAsks DEF NothingNew
<1>3. Silent(conn'[c].toIcc) => AskedLast(Request(t), conn'[c].toIcc)
  BY SilentAsks
<1>4. ASSUME AwaitsHeader(t, c) PROVE AwaitsHeader(t, c)'
  BY <1>1, <1>2, <1>3, <1>4 DEF AwaitsHeader, NothingNew, AnswerTo
<1>5. ASSUME AwaitsBody(t, c) PROVE AwaitsBody(t, c)'
  BY <1>1, <1>5 DEF AwaitsBody, NothingNew, BodyTo
<1>6. ASSUME Quiet(c) PROVE Quiet(c)'
  BY <1>1, <1>6 DEF Quiet, NothingNew
<1>. QED
  BY <1>4, <1>5, <1>6

LEMMA SameRequests ==
  ASSUME NEW t \in Threads, op'[t] = op[t], seq'[t] = seq[t]
  PROVE Request(t)' = Request(t)
BY DEF Request, Cmd

\* A caller moves where it does not listen, and the connections stay as they are.
LEMMA ElsewhereKeepsAnswers ==
  ASSUME Sound, NEW t \in Threads, NEW l \in PCs \ {"recv1", "in1", "recv2", "in2"},
         ~Listens(t), Goto(t, l),
         \A u \in Threads \ {t} : op'[u] = op[u] /\ seq'[u] = seq[u] /\ need'[u] = need[u] /\ sock'[u] = sock[u],
         UNCHANGED <<client_sock, conn, vpicc>>
  PROVE AnswersInv'
<1>1. pc \in [Threads -> PCs] /\ \A u \in Threads : u # t => pc'[u] = pc[u]
  BY DEF Sound, Inv, CallOK, Goto
<1>2. pc'[t] = l
  BY <1>1 DEF Goto
<1>3. \A u \in Threads, c \in Conns : Hears(u, c)' => u # t /\ Hears(u, c) /\ pc'[u] = pc[u]
  BY <1>1, <1>2 DEF Hears, Listens, InRecv
<1>4. \A u \in Threads, c \in Conns : Hears(u, c) => u # t /\ Hears(u, c)'
  BY <1>1, <1>2 DEF Hears, Listens, InRecv
<1>5. \A c \in Conns : NothingNew(c)
  BY DEF NothingNew, Replying
<1>6. \A u \in Threads \ {t} : Request(u)' = Request(u)
  BY SameRequests
<1>7. ASSUME NEW u \in Threads, NEW c \in Conns, Hears(u, c)'
      PROVE IF pc'[u] \in {"recv1", "in1"} THEN AwaitsHeader(u, c)' ELSE AwaitsBody(u, c)'
  BY <1>3, <1>5, <1>6, <1>7, StillAwaited DEF Sound, LinkInv, AnswersInv
<1>8. ASSUME NEW c \in Conns, c = client_sock', \A u \in Threads : ~Hears(u, c)' PROVE Quiet(c)'
  BY <1>4, <1>5, <1>6, <1>8 DEF Sound, LinkInv, AnswersInv, Quiet, Replying
<1>. QED
  BY <1>7, <1>8 DEF AnswersInv

LEMMA SameNet ==
  ASSUME Sound, UNCHANGED <<reversed, open, client_sock, conn, vpicc>> PROVE NetInv' /\ FramesInv'
BY DEF Sound, LinkInv, NetInv, FramesInv, EndsOK, AtWork, Replying, InBody

-----------------------------------------------------------------------------
\* Steps of a caller that touch no connection.

LEMMA CallStep ==
  ASSUME Sound, NEW t \in Threads, NEW o \in IfdOps, Call(t, o), reversed' = reversed PROVE LinkInv'
<1>1. /\ pc[t] = "idle" /\ pc \in [Threads -> PCs]
      /\ \E l \in {"connect", "plock", "lock"} : Goto(t, l)
      /\ \A u \in Threads : u # t => op'[u] = op[u] /\ seq'[u] = seq[u] /\ res'[u] = res[u]
      /\ UNCHANGED <<open, client_sock, conn, sock, need, got, r, vpicc>>
      /\ res'[t] = NoRes
  BY DEF Call, ctxVars, Sound, Inv, CallOK
<1>2. NetInv' /\ FramesInv'
  BY <1>1, SameNet
<1>3. AnswersInv'
  BY <1>1, ElsewhereKeepsAnswers DEF Listens, PCs
<1>4. GotInv'
  <2>1. ASSUME NEW u \in Threads, u # t
        PROVE /\ pc'[u] = "in1" => need'[u] = 2
              /\ got'[u] # <<>> => pc'[u] \in {"unlock", "eject"} /\ BodyTo(u, got[u])'
              /\ res'[u].data # "foreign"
    <3>1. Request(u)' = Request(u) /\ pc'[u] = pc[u]
      BY <1>1, <2>1, SameRequests DEF Goto
    <3>. QED
      BY <1>1, <2>1, <3>1 DEF Sound, LinkInv, GotInv, BodyTo
  <2>2. got'[t] = <<>> /\ pc'[t] # "in1" /\ res'[t].data # "foreign"
    BY <1>1 DEF Sound, LinkInv, GotInv, Goto, NoRes
  <2>. QED
    BY <2>1, <2>2 DEF GotInv
<1>. QED
  BY <1>2, <1>3, <1>4 DEF LinkInv

LEMMA GotKept ==
  ASSUME Sound, NEW t \in Threads, pc[t] \notin {"unlock", "eject"},
         pc'[t] = "in1" => need'[t] = 2,
         \A u \in Threads \ {t} : pc'[u] = pc[u] /\ need'[u] = need[u],
         UNCHANGED <<op, seq, got, res>>
  PROVE GotInv'
<1>1. \A u \in Threads : Request(u)' = Request(u)
  BY SameRequests
<1>2. \A u \in Threads : BodyTo(u, got[u]) => BodyTo(u, got[u])'
  BY <1>1 DEF BodyTo
<1>3. ASSUME NEW u \in Threads, u # t
      PROVE /\ pc'[u] = "in1" => need'[u] = 2
            /\ got'[u] # <<>> => pc'[u] \in {"unlock", "eject"} /\ BodyTo(u, got[u])'
            /\ res'[u].data # "foreign"
  BY <1>2, <1>3 DEF Sound, LinkInv, GotInv
<1>4. got'[t] = <<>> /\ res'[t].data # "foreign"
  BY DEF Sound, LinkInv, GotInv
<1>. QED
  BY <1>3, <1>4 DEF GotInv

\* A caller that is inside and does not listen has the connection to itself.
LEMMA NobodyListens ==
  ASSUME Sound, NEW t \in Threads, pc[t] \in {"psend", "punlock", "send", "unlock"}
  PROVE /\ \A u \in Threads : ~Listens(u)
        /\ \A c \in Conns : c = client_sock => Quiet(c)
<1>1. \A u \in Threads : ~Listens(u)
  BY DEF Sound, Alone, Inside, Listens
<1>. QED
  BY <1>1 DEF Sound, LinkInv, AnswersInv, Hears

LEMMA LockStep ==
  ASSUME Sound, NEW t \in Threads, Lock(t), reversed' = reversed PROVE LinkInv'
<1>1. /\ pc[t] \in {"lock", "plock"} /\ pc \in [Threads -> PCs]
      /\ \E l \in {"send", "psend"} : Goto(t, l)
      /\ UNCHANGED <<open, client_sock, conn, op, seq, sock, need, got, r, res, vpicc>>
  BY DEF Lock, cardVars, Sound, Inv, CallOK
<1>2. pc'[t] \in {"send", "psend"} /\ \A u \in Threads \ {t} : pc'[u] = pc[u]
  BY <1>1 DEF Goto
<1>3. NetInv' /\ FramesInv'
  BY <1>1, SameNet
<1>4. AnswersInv'
  BY <1>1, ElsewhereKeepsAnswers DEF Listens, PCs
<1>5. GotInv'
  BY <1>1, <1>2, GotKept
<1>. QED
  BY <1>3, <1>4, <1>5 DEF LinkInv

LEMMA BodyBytes ==
  ASSUME NEW a \in Answers
  PROVE /\ BodyLen(a) = 2 /\ a \in Messages
        /\ Body(a) \in Seq(Bytes) /\ Len(Body(a)) = 2 /\ \A i \in 1 .. 2 : Body(a)[i] = <<a, i + 2>>
<1>1. BodyLen(a) = 2 /\ a \in Messages
  BY DEF BodyLen, Answers, AnswerKinds, ControlKinds, Messages
<1>2. \A i \in 1 .. 2 : <<a, i + 2>> \in Bytes
  BY <1>1 DEF Bytes
<1>3. Body(a) = [i \in 1 .. 2 |-> <<a, i + 2>>]
  BY <1>1 DEF Body
<1>. QED
  BY <1>1, <1>2, <1>3

\* What is handed to the application is its own.
LEMMA ContentIsOwn ==
  ASSUME NEW t \in Threads, NEW b \in Seq(Bytes), b # <<>> => BodyTo(t, b)
  PROVE Content(t, b) # "foreign" /\ (b # <<>> => Content(t, b) \in {"own", "cut"})
<1>1. CASE b = <<>>
  BY <1>1 DEF Content
<1>2. CASE b # <<>>
  <2>1. PICK a : a = b[1][1] /\ a \in Answers /\ a.to = Request(t)
    BY <1>2 DEF BodyTo
  <2>0. PICK n \in Nat : n = Len(b) /\ n >= 1
    BY <1>2, NotEmpty
  <2>2. n = Len(b) /\ n \in 1 .. 2
    <3>1. n <= 2
      BY <1>2, <2>0 DEF BodyTo
    <3>. QED
      BY <2>0, <3>1
  <2>3. \A i \in 1 .. n : b[i] = <<a, i + 2>>
    BY <1>2, <2>1, <2>2 DEF BodyTo
  <2>4. PICK d : d = Body(a) /\ d \in Seq(Bytes) /\ Len(d) = 2 /\ \A i \in 1 .. 2 : d[i] = <<a, i + 2>>
    BY <2>1, BodyBytes
  <2>5. Take(d, n) = b
    <3>0. Len(d) = 2
      BY <2>4
    <3>5. n <= 2
      BY <2>2
    <3>1. n \in Nat /\ n <= Len(d)
      BY <2>0, <3>0, <3>5
    <3>2. Take(d, n) \in Seq(Bytes) /\ Len(Take(d, n)) = n /\ \A i \in 1 .. n : Take(d, n)[i] = d[i]
      BY <2>4, <3>1, Taken
    <3>4. \A i \in 1 .. n : i \in 1 .. 2
      BY <2>2
    <3>3. \A i \in 1 .. n : Take(d, n)[i] = b[i]
      BY <2>3, <2>4, <3>2, <3>4
    <3>. QED
      BY <2>2, <3>2, <3>3
  <2>. QED
    BY <1>2, <2>1, <2>2, <2>4, <2>5 DEF Content
<1>. QED
  BY <1>1, <1>2

LEMMA ReturnKeepsGot ==
  ASSUME Sound, NEW t \in Threads, NEW code, NEW data, NEW powered,
         data # "foreign", Return(t, code, data, powered)
  PROVE GotInv'
<1>1. /\ pc \in [Threads -> PCs] /\ got \in [Threads -> Seq(Bytes)]
      /\ res \in [Threads -> [code : Codes, data : Contents, powered : BOOLEAN]]
      /\ need \in [Threads -> 0 .. 2]
  BY DEF Sound, Inv, CallOK
<1>2. /\ pc'[t] = "idle" /\ got'[t] = <<>> /\ res'[t].data # "foreign"
      /\ \A u \in Threads \ {t} : pc'[u] = pc[u] /\ got'[u] = got[u] /\ res'[u] = res[u] /\ need'[u] = need[u]
      /\ UNCHANGED <<op, seq>>
  BY <1>1 DEF Return
<1>3. \A u \in Threads : Request(u)' = Request(u)
  BY <1>2, SameRequests
<1>4. \A u \in Threads \ {t} : got'[u] = got[u] /\ (BodyTo(u, got[u]) => BodyTo(u, got[u])')
  BY <1>2, <1>3 DEF BodyTo
<1>5. ASSUME NEW u \in Threads, u # t
      PROVE /\ pc'[u] = "in1" => need'[u] = 2
            /\ got'[u] # <<>> => pc'[u] \in {"unlock", "eject"} /\ BodyTo(u, got[u])'
            /\ res'[u].data # "foreign"
  BY <1>2, <1>4, <1>5 DEF Sound, LinkInv, GotInv
<1>. QED
  BY <1>2, <1>5 DEF GotInv

LEMMA TransmitReturnsOwn ==
  ASSUME Sound, NEW t \in Threads, ReturnTransmit(t) PROVE GotInv'
<1>1. got[t] \in Seq(Bytes)
  BY DEF Sound, Inv, CallOK
<1>2. Content(t, got[t]) # "foreign"
  BY <1>1, ContentIsOwn DEF Sound, LinkInv, GotInv
<1>. QED
  BY <1>2, ReturnKeepsGot DEF ReturnTransmit

LEMMA ReturnMoves ==
  ASSUME Sound, NEW t \in Threads, NEW code, NEW data, NEW powered, Return(t, code, data, powered)
  PROVE /\ Goto(t, "idle") /\ UNCHANGED <<op, seq>>
        /\ \A u \in Threads \ {t} : op'[u] = op[u] /\ seq'[u] = seq[u] /\ need'[u] = need[u] /\ sock'[u] = sock[u]
<1>1. need \in [Threads -> 0 .. 2] /\ sock \in [Threads -> SockType]
  BY DEF Sound, Inv, CallOK
<1>. QED
  BY <1>1 DEF Return, Goto

LEMMA PowerUnlockStep ==
  ASSUME Sound, NEW t \in Threads, PowerUnlock(t), reversed' = reversed PROVE LinkInv'
<1>1. /\ pc[t] = "punlock" /\ pc \in [Threads -> PCs] /\ ~Listens(t)
      /\ UNCHANGED <<open, client_sock, conn, vpicc>>
  BY DEF PowerUnlock, cardVars, Sound, Inv, CallOK, Listens
<1>2. NetInv' /\ FramesInv'
  BY <1>1, SameNet
<1>3. CASE \E code : Return(t, code, "none", FALSE)
  <2>1. AnswersInv'
    BY <1>1, <1>3, ReturnMoves, ElsewhereKeepsAnswers DEF PCs
  <2>. QED
    BY <1>2, <1>3, <2>1, ReturnKeepsGot DEF LinkInv
<1>4. CASE Goto(t, "lock") /\ UNCHANGED <<op, seq, sock, need, got, r, res>>
  <2>1. AnswersInv'
    BY <1>1, <1>4, ElsewhereKeepsAnswers DEF PCs
  <2>2. pc'[t] = "lock" /\ \A u \in Threads \ {t} : pc'[u] = pc[u]
    BY <1>1, <1>4 DEF Goto
  <2>3. GotInv'
    BY <1>1, <1>4, <2>2, GotKept
  <2>. QED
    BY <1>2, <2>1, <2>3 DEF LinkInv
<1>. QED
  BY <1>3, <1>4 DEF PowerUnlock

LEMMA UnlockStep ==
  ASSUME Sound, NEW t \in Threads, Unlock(t), reversed' = reversed PROVE LinkInv'
<1>1. /\ pc[t] = "unlock" /\ pc \in [Threads -> PCs] /\ ~Listens(t)
      /\ UNCHANGED <<open, client_sock, conn, vpicc>>
  BY DEF Unlock, cardVars, Sound, Inv, CallOK, Listens
<1>2. NetInv' /\ FramesInv'
  BY <1>1, SameNet
<1>3. CASE ReturnTransmit(t)
  <2>1. AnswersInv'
    BY <1>1, <1>3, ReturnMoves, ElsewhereKeepsAnswers DEF PCs, ReturnTransmit
  <2>. QED
    BY <1>2, <1>3, <2>1, TransmitReturnsOwn DEF LinkInv
<1>4. CASE Goto(t, "eject") /\ UNCHANGED <<op, seq, sock, need, got, r, res>>
  <2>1. AnswersInv'
    BY <1>1, <1>4, ElsewhereKeepsAnswers DEF PCs
  <2>2. pc'[t] = "eject" /\ \A u \in Threads \ {t} : pc'[u] = pc[u]
    BY <1>1, <1>4 DEF Goto
  <2>3. \A u \in Threads : Request(u)' = Request(u)
    BY <1>4, SameRequests
  <2>4. GotInv'
    BY <1>1, <1>4, <2>2, <2>3 DEF Sound, LinkInv, GotInv, BodyTo
  <2>. QED
    BY <1>2, <2>1, <2>4 DEF LinkInv
<1>. QED
  BY <1>3, <1>4 DEF Unlock

LEMMA RecvCallStep ==
  ASSUME Sound, NEW t \in Threads, RecvCall(t), reversed' = reversed PROVE LinkInv'
<1>1. /\ pc[t] \in {"recv1", "recv2"} /\ pc \in [Threads -> PCs]
      /\ sock \in [Threads -> SockType] /\ need \in [Threads -> 0 .. 2]
      /\ UNCHANGED <<open, client_sock, conn, vpicc, op, seq, got, res>>
  BY DEF RecvCall, ctxVars, cardVars, Sound, Inv, CallOK
<1>2. /\ pc'[t] = IF pc[t] = "recv1" THEN "in1" ELSE "in2"
      /\ sock'[t] = client_sock
      /\ need'[t] = IF pc[t] = "recv1" THEN 2 ELSE need[t]
      /\ \A u \in Threads \ {t} : pc'[u] = pc[u] /\ sock'[u] = sock[u] /\ need'[u] = need[u]
  BY <1>1 DEF RecvCall, Goto
<1>3. NetInv' /\ FramesInv'
  BY <1>1, SameNet
<1>4. GotInv'
  BY <1>1, <1>2, GotKept
<1>5. \A u \in Threads, c \in Conns : Hears(u, c)' <=> Hears(u, c)
  BY <1>1, <1>2 DEF Hears, Listens, InRecv
<1>6. \A u \in Threads : Request(u)' = Request(u)
  BY <1>1, SameRequests
<1>7. \A u \in Threads : pc'[u] \in {"recv1", "in1"} <=> pc[u] \in {"recv1", "in1"}
  BY <1>1, <1>2
<1>8. \A u \in Threads, c \in Conns : AwaitsHeader(u, c)' <=> AwaitsHeader(u, c)
  BY <1>1, <1>6 DEF AwaitsHeader, AnswerTo, Replying
<1>9. \A u \in Threads, c \in Conns : pc[u] \notin {"recv1", "in1"} => (AwaitsBody(u, c)' <=> AwaitsBody(u, c))
  BY <1>1, <1>2, <1>6 DEF AwaitsBody, BodyTo, Replying
<1>10. AnswersInv'
  BY <1>1, <1>5, <1>7, <1>8, <1>9 DEF Sound, LinkInv, AnswersInv, Quiet, Replying
<1>. QED
  BY <1>3, <1>4, <1>10 DEF LinkInv

-----------------------------------------------------------------------------
\* Messages are sent.

LEMMA SendEffect ==
  ASSUME Sound, NEW m \in Commands, SendOk(m)
  PROVE /\ client_sock \in Conns
        /\ \A c \in Conns :
             /\ conn'[c].pcd = conn[c].pcd /\ conn'[c].icc = conn[c].icc
             /\ conn'[c].backlog = conn[c].backlog /\ conn'[c].toPcd = conn[c].toPcd
             /\ conn'[c].toIcc = IF c = client_sock /\ conn[c].icc
                                 THEN conn[c].toIcc \o Wire(m) ELSE conn[c].toIcc
             /\ ~conn[c].icc => conn'[c] = conn[c]
<1>1. conn \in Networks
  BY DEF Sound, Inv, NetOK
<1>. QED
  BY <1>1 DEF SendOk, Networks, ConnType

LEMMA Streams ==
  ASSUME Sound, NEW c \in Conns
  PROVE conn[c] \in ConnType /\ conn[c].toIcc \in Seq(Bytes) /\ conn[c].toPcd \in Seq(Bytes)
BY ConnsTyped DEF Sound, Inv, NetOK, Networks

LEMMA SendKeepsNet ==
  ASSUME Sound, NEW m \in Commands, SendOk(m), UNCHANGED <<reversed, open, client_sock, vpicc>>
  PROVE NetInv' /\ FramesInv'
<1>1. NetInv'
  BY SendEffect DEF Sound, LinkInv, NetInv, EndsOK, AtWork, Replying, NoConn, Inv, CardOK
<1>2. ASSUME NEW c \in Conns
      PROVE LET s == conn'[c].toIcc
            IN InOrder(s) /\ (s # <<>> => s[1][2] = IF InBody(c) THEN 3 ELSE 1)
  <2>1. CASE c = client_sock /\ conn[c].icc
    <3>. DEFINE s == conn[c].toIcc
    <3>. DEFINE w == s \o Wire(m)
    <3>1. s \in Seq(Bytes) /\ m \in Messages /\ Len(s) \in Nat /\ InOrder(s)
      BY Streams DEF Messages, Sound, LinkInv, FramesInv
    <3>2. InOrder(w) /\ conn'[c].toIcc = w
      BY <2>1, <3>1, SendEffect, OrderJoined
    <3>3. CASE s = <<>>
      <4>1. w[1] = <<m, 1>>
        <5>1. Wire(m) \in Seq(Bytes) /\ Len(Wire(m)) >= 1 /\ Wire(m)[1] = <<m, 1>>
          BY <3>1, Wires, BodyLens DEF Wire
        <5>. QED
          BY <3>3, <5>1
      <4>2. ~InBody(c)
        BY <3>3 DEF Sound, LinkInv, FramesInv, InBody
      <4>. QED
        BY <3>2, <4>1, <4>2
    <3>4. CASE s # <<>>
      <4>1. 1 \in 1 .. Len(s) /\ w[1] = s[1]
        BY <3>1, <3>4, Joined
      <4>. QED
        BY <3>2, <3>4, <4>1 DEF Sound, LinkInv, FramesInv
    <3>. QED
      BY <3>3, <3>4
  <2>2. CASE ~(c = client_sock /\ conn[c].icc)
    BY <2>2, SendEffect DEF Sound, LinkInv, FramesInv
  <2>. QED
    BY <2>1, <2>2
<1>3. vpicc.pc = "body" =>
        LET s == conn'[vpicc.conn].toIcc IN s # <<>> /\ vpicc.size = BodyLen(s[1][1])
  <2>. SUFFICES ASSUME vpicc.pc = "body"
                PROVE LET s == conn'[vpicc.conn].toIcc IN s # <<>> /\ vpicc.size = BodyLen(s[1][1])
    OBVIOUS
  <2>. DEFINE c == vpicc.conn
  <2>. DEFINE s == conn[c].toIcc
  <2>1. c \in Conns /\ s # <<>> /\ vpicc.size = BodyLen(s[1][1])
    BY DEF Sound, LinkInv, FramesInv, Inv, CardOK
  <2>2. s \in Seq(Bytes) /\ 1 \in 1 .. Len(s) /\ m \in Messages
    BY <2>1, Streams DEF Messages
  <2>3. (s \o Wire(m))[1] = s[1] /\ s \o Wire(m) # <<>>
    BY <2>1, <2>2, Joined, Wires
  <2>. QED
    BY <2>1, <2>3, SendEffect
<1>. QED
  BY <1>1, <1>2, <1>3 DEF FramesInv, InBody

LEMMA RequestKinds ==
  ASSUME NEW t \in Threads
  PROVE ~Asks(PowerRequest(t))
BY DEF Asks, PowerRequest, Cmd

LEMMA CommandsOf ==
  ASSUME Sound, NEW t \in Threads PROVE Request(t) \in Commands /\ PowerRequest(t) \in Commands
BY RequestsTyped DEF Sound, Inv, CallOK

-----------------------------------------------------------------------------
\* The reader gives a connection up.

LEMMA EjectEffect ==
  ASSUME Sound, Eject(conn)
  PROVE /\ client_sock' = INVALID_SOCKET /\ client_sock' \notin Conns
        /\ \A c \in Conns :
             /\ c # client_sock => conn'[c] = conn[c]
             /\ c = client_sock => /\ ~conn'[c].pcd /\ conn'[c].toPcd = <<>>
                                   /\ conn'[c].backlog <=> conn[c].icc /\ conn[c].backlog /\ reversed
             /\ (conn'[c].icc <=> conn[c].icc) /\ conn'[c].toIcc = conn[c].toIcc
             /\ ~conn[c].icc => conn'[c] = IF c = client_sock THEN NoConn ELSE conn[c]
<1>1. client_sock' = INVALID_SOCKET /\ client_sock' \notin Conns
  BY LinkAssumption DEF Eject
<1>2. \A c \in Conns : conn'[c] = IF c = client_sock THEN ClosePcd(conn[c]) ELSE conn[c]
  BY DEF Eject, Sound, Inv, NetOK, Networks
<1>3. \A c \in Conns : ~conn[c].icc => conn[c].toIcc = <<>>
  BY DEF Sound, LinkInv, NetInv, EndsOK
<1>4. ASSUME NEW c \in Conns, c = client_sock
      PROVE /\ ~conn'[c].pcd /\ conn'[c].toPcd = <<>>
            /\ conn'[c].backlog <=> conn[c].icc /\ conn[c].backlog /\ reversed
            /\ (conn'[c].icc <=> conn[c].icc) /\ conn'[c].toIcc = conn[c].toIcc
            /\ ~conn[c].icc => conn'[c] = NoConn
  <2>1. conn'[c] = ClosePcd(conn[c]) /\ conn[c] \in ConnType /\ reversed \in BOOLEAN
    BY <1>2, <1>4, Streams DEF Sound, HostOK
  <2>3. CASE conn[c].icc
    BY <2>1, <2>3, PcdClosedFields
  <2>4. CASE ~conn[c].icc
    <3>1. conn'[c] = NoConn /\ conn[c].toIcc = <<>>
      BY <1>3, <2>1, <2>4, PcdClosedFields
    <3>. QED
      BY <2>4, <3>1, ConnFields
  <2>. QED
    BY <2>3, <2>4
<1>. QED
  BY <1>1, <1>2, <1>4

LEMMA EjectKeepsNet ==
  ASSUME Sound, Eject(conn), UNCHANGED <<reversed, open, vpicc>> PROVE NetInv' /\ FramesInv'
<1>1. FramesInv'
  BY EjectEffect DEF Sound, LinkInv, FramesInv, InBody, Inv, CardOK
<1>2. NetInv'
  <2>1. ASSUME NEW c \in Conns PROVE EndsOK(c)'
    BY EjectEffect, ConnFields DEF Sound, LinkInv, NetInv, EndsOK, Replying
  <2>. QED
    BY <2>1, EjectEffect DEF Sound, LinkInv, NetInv, AtWork, Inv, CardOK
<1>. QED
  BY <1>1, <1>2

LEMMA EjectKeepsAnswers ==
  ASSUME Sound, Eject(conn), UNCHANGED <<vpicc>>, NEW t \in Threads, ~Listens(t),
         NEW l \in PCs \ {"recv1", "in1", "recv2", "in2"}, Goto(t, l),
         \A u \in Threads \ {t} : op'[u] = op[u] /\ seq'[u] = seq[u] /\ need'[u] = need[u] /\ sock'[u] = sock[u]
  PROVE AnswersInv'
<1>1. pc \in [Threads -> PCs] /\ pc'[t] = l /\ \A u \in Threads : u # t => pc'[u] = pc[u]
  BY DEF Sound, Inv, CallOK, Goto
<1>2. \A u \in Threads, c \in Conns : Hears(u, c)' => u # t /\ Hears(u, c) /\ pc'[u] = pc[u]
  BY <1>1, EjectEffect DEF Hears, Listens, InRecv
<1>3. \A c \in Conns : NothingNew(c)
  BY EjectEffect DEF NothingNew, Replying
<1>4. \A u \in Threads \ {t} : Request(u)' = Request(u)
  BY SameRequests
<1>5. ASSUME NEW u \in Threads, NEW c \in Conns, Hears(u, c)'
      PROVE IF pc'[u] \in {"recv1", "in1"} THEN AwaitsHeader(u, c)' ELSE AwaitsBody(u, c)'
  BY <1>2, <1>3, <1>4, <1>5, StillAwaited DEF Sound, LinkInv, AnswersInv
<1>. QED
  BY <1>5, EjectEffect DEF AnswersInv

LEMMA PowerSendStep ==
  ASSUME Sound, NEW t \in Threads, PowerSend(t), reversed' = reversed PROVE LinkInv'
<1>1. /\ pc[t] = "psend" /\ pc \in [Threads -> PCs] /\ ~Listens(t) /\ Goto(t, "punlock")
      /\ UNCHANGED <<open, vpicc, op, seq, sock, need, got, res>>
  BY DEF PowerSend, cardVars, Sound, Inv, CallOK, Listens
<1>2. pc'[t] = "punlock" /\ \A u \in Threads \ {t} : pc'[u] = pc[u]
  BY <1>1 DEF Goto
<1>3. GotInv'
  BY <1>1, <1>2, GotKept
<1>4. CASE SendOk(PowerRequest(t)) /\ UNCHANGED client_sock
  <2>1. PowerRequest(t) \in Commands /\ PowerRequest(t) \in Messages /\ ~Asks(PowerRequest(t))
    BY CommandsOf, RequestKinds DEF Messages
  <2>2. \A u \in Threads : ~Listens(u)'
    BY <1>1, <1>2, NobodyListens DEF Listens
  <2>3. ASSUME NEW c \in Conns, c = client_sock PROVE Quiet(c)'
    <3>1. Quiet(c)
      BY <1>1, <2>3, NobodyListens
    <3>2. conn[c].toIcc \in Seq(Bytes) /\ Silent(conn[c].toIcc)
      BY <3>1, Streams DEF Quiet
    <3>3. Silent(conn[c].toIcc \o Wire(PowerRequest(t)))
      BY <2>1, <3>2, SilentJoined
    <3>. QED
      BY <1>1, <1>4, <2>1, <3>1, <3>2, <3>3, SendEffect DEF Quiet, Replying
  <2>4. AnswersInv'
    BY <1>4, <2>2, <2>3 DEF AnswersInv, Hears
  <2>. QED
    BY <1>1, <1>3, <1>4, <2>1, <2>4, SendKeepsNet DEF LinkInv
<1>5. CASE Eject(conn)
  <2>1. AnswersInv'
    BY <1>1, <1>5, EjectKeepsAnswers DEF PCs
  <2>. QED
    BY <1>1, <1>3, <1>5, <2>1, EjectKeepsNet DEF LinkInv
<1>. QED
  BY <1>4, <1>5 DEF PowerSend

LEMMA SendStep ==
  ASSUME Sound, NEW t \in Threads, Send(t), reversed' = reversed PROVE LinkInv'
<1>1. /\ pc[t] = "send" /\ pc \in [Threads -> PCs] /\ ~Listens(t)
      /\ UNCHANGED <<open, vpicc, op, seq, sock, need, got, res>>
  BY DEF Send, cardVars, Sound, Inv, CallOK, Listens
<1>2. \E l \in {"recv1", "unlock"} : Goto(t, l)
  BY DEF Send
<1>3. pc'[t] \in {"recv1", "unlock"} /\ \A u \in Threads \ {t} : pc'[u] = pc[u]
  BY <1>1, <1>2 DEF Goto
<1>4. GotInv'
  BY <1>1, <1>3, GotKept
<1>5. \A u \in Threads : u # t => ~Listens(u)'
  BY <1>1, <1>3, NobodyListens DEF Listens
<1>6. CASE Goto(t, "recv1") /\ UNCHANGED client_sock /\ (SendOk(Request(t)) \/ UNCHANGED conn)
  <2>0. pc'[t] = "recv1"
    BY <1>1, <1>6 DEF Goto
  <2>1. Request(t) \in Commands /\ Request(t) \in Messages /\ Request(t)' = Request(t)
    BY <1>1, CommandsOf, SameRequests DEF Messages
  <2>2. ASSUME NEW c \in Conns, c = client_sock PROVE AwaitsHeader(t, c)'
    <3>1. Quiet(c)
      BY <1>1, <2>2, NobodyListens
    <3>2. conn[c].toIcc \in Seq(Bytes) /\ Silent(conn[c].toIcc)
      BY <3>1, Streams DEF Quiet
    <3>3. /\ AskedLast(Request(t), conn[c].toIcc \o Wire(Request(t)))
          /\ AskedLast(Request(t), conn[c].toIcc)
      BY <2>1, <3>2, SilentJoined, SilentAsks
    <3>4. /\ conn'[c].toPcd = conn[c].toPcd
          /\ conn'[c].toIcc \in {conn[c].toIcc, conn[c].toIcc \o Wire(Request(t))}
      BY <1>6, <2>1, SendEffect
    <3>. QED
      BY <1>1, <2>1, <3>1, <3>3, <3>4 DEF AwaitsHeader, Quiet, Replying
  <2>3. \A u \in Threads, c \in Conns : Hears(u, c)' => u = t /\ c = client_sock
    BY <1>5, <1>6, <2>0 DEF Hears, InRecv
  <2>5. \A c \in Conns : c = client_sock => Hears(t, c)'
    BY <1>6, <2>0 DEF Hears, Listens, InRecv
  <2>4. AnswersInv'
    BY <1>6, <2>0, <2>2, <2>3, <2>5 DEF AnswersInv
  <2>6. CASE SendOk(Request(t))
    BY <1>1, <1>4, <1>6, <2>1, <2>4, <2>6, SendKeepsNet DEF LinkInv
  <2>7. CASE UNCHANGED conn
    BY <1>1, <1>4, <1>6, <2>4, <2>7, SameNet DEF LinkInv
  <2>. QED
    BY <1>6, <2>6, <2>7
<1>7. CASE Goto(t, "unlock") /\ Eject(conn)
  <2>1. AnswersInv'
    BY <1>1, <1>7, EjectKeepsAnswers DEF PCs
  <2>. QED
    BY <1>1, <1>4, <1>7, <2>1, EjectKeepsNet DEF LinkInv
<1>8. CASE Goto(t, "unlock") /\ UNCHANGED <<client_sock, conn>>
  <2>1. AnswersInv'
    BY <1>1, <1>8, ElsewhereKeepsAnswers DEF PCs
  <2>. QED
    BY <1>1, <1>4, <1>8, <2>1, SameNet DEF LinkInv
<1>. QED
  BY <1>6, <1>7, <1>8 DEF Send

LEMMA LateEjectStep ==
  ASSUME Sound, NEW t \in Threads, LateEject(t), reversed' = reversed PROVE LinkInv'
<1>1. /\ pc[t] = "eject" /\ ~Listens(t) /\ Eject(conn) /\ ReturnTransmit(t)
      /\ UNCHANGED <<open, vpicc>>
  BY DEF LateEject, cardVars, Listens
<1>2. AnswersInv'
  BY <1>1, ReturnMoves, EjectKeepsAnswers DEF PCs, ReturnTransmit
<1>. QED
  BY <1>1, <1>2, EjectKeepsNet, TransmitReturnsOwn DEF LinkInv

LEMMA ReadEffect ==
  ASSUME Sound, NEW t \in Threads,
         \/ sock[t] \in Conns /\ \E k \in Nat : k <= Len(Stream(t)) /\ Consume(t, k)
         \/ Discard(t)
  PROVE \A c \in Conns :
          /\ conn'[c].pcd = conn[c].pcd /\ conn'[c].icc = conn[c].icc
          /\ conn'[c].backlog = conn[c].backlog /\ conn'[c].toIcc = conn[c].toIcc
          /\ c # sock[t] => conn'[c] = conn[c]
          /\ conn[c].toPcd = <<>> => conn'[c] = conn[c]
<1>. SUFFICES ASSUME NEW c \in Conns
              PROVE /\ conn'[c].pcd = conn[c].pcd /\ conn'[c].icc = conn[c].icc
                    /\ conn'[c].backlog = conn[c].backlog /\ conn'[c].toIcc = conn[c].toIcc
                    /\ c # sock[t] => conn'[c] = conn[c]
                    /\ conn[c].toPcd = <<>> => conn'[c] = conn[c]
  OBVIOUS
<1>0. conn \in Networks /\ conn[c] \in ConnType /\ conn[c].toPcd \in Seq(Bytes)
  BY Streams DEF Sound, Inv, NetOK
<1>1. ASSUME NEW s, conn'[c] = [conn[c] EXCEPT !.toPcd = s], conn[c].toPcd = <<>> => s = <<>>,
             c = sock[t] \/ conn'[c] = conn[c]
      PROVE /\ conn'[c].pcd = conn[c].pcd /\ conn'[c].icc = conn[c].icc
            /\ conn'[c].backlog = conn[c].backlog /\ conn'[c].toIcc = conn[c].toIcc
            /\ c # sock[t] => conn'[c] = conn[c]
            /\ conn[c].toPcd = <<>> => conn'[c] = conn[c]
  BY <1>0, <1>1 DEF ConnType
<1>2. CASE conn'[c] = conn[c]
  BY <1>2
<1>3. CASE Discard(t)
  <2>1. CASE c = sock[t] /\ conn[c].pcd
    <3>1. conn' = [conn EXCEPT ![c].toPcd = <<>>]
      BY <1>3, <2>1 DEF Discard
    <3>2. conn'[c] = [conn[c] EXCEPT !.toPcd = <<>>]
      BY <1>0, <3>1 DEF Networks
    <3>. QED
      BY <1>1, <2>1, <3>2
  <2>2. CASE ~(c = sock[t] /\ conn[c].pcd)
    <3>1. conn'[c] = conn[c]
      BY <1>0, <1>3, <2>2 DEF Discard, Networks
    <3>. QED
      BY <1>2, <3>1
  <2>. QED
    BY <2>1, <2>2
<1>4. ASSUME sock[t] \in Conns, NEW k \in Nat, k <= Len(Stream(t)), Consume(t, k)
      PROVE conn'[c] = conn[c] \/ \E s : /\ c = sock[t] /\ conn'[c] = [conn[c] EXCEPT !.toPcd = s]
                                         /\ conn[c].toPcd = <<>> => s = <<>>
  <2>1. CASE c # sock[t]
    BY <1>0, <1>4, <2>1 DEF Consume, Networks
  <2>2. CASE c = sock[t]
    <3>1. PICK s : s = Drop(conn[c].toPcd, k)
      OBVIOUS
    <3>2. conn'[c] = [conn[c] EXCEPT !.toPcd = s]
      BY <1>0, <1>4, <2>2, <3>1 DEF Consume, Networks
    <3>3. ASSUME conn[c].toPcd = <<>> PROVE s = <<>>
      <4>1. k = 0
        BY <1>4, <2>2, <3>3 DEF Stream
      <4>. QED
        BY <3>1, <3>3, <4>1 DEF Drop
    <3>. QED
      BY <2>2, <3>2, <3>3
  <2>. QED
    BY <2>1, <2>2
<1>. QED
  BY <1>1, <1>2, <1>3, <1>4

LEMMA ReadKeepsNet ==
  ASSUME Sound, NEW t \in Threads, UNCHANGED <<reversed, open, client_sock, vpicc>>,
         \A c \in Conns :
          /\ conn'[c].pcd = conn[c].pcd /\ conn'[c].icc = conn[c].icc
          /\ conn'[c].backlog = conn[c].backlog /\ conn'[c].toIcc = conn[c].toIcc
          /\ conn[c].toPcd = <<>> => conn'[c] = conn[c]
  PROVE NetInv' /\ FramesInv'
<1>1. \A c \in Conns : EndsOK(c)'
  BY ConnFields DEF Sound, LinkInv, NetInv, EndsOK, Replying
<1>2. NetInv'
  BY <1>1 DEF Sound, LinkInv, NetInv, AtWork, Inv, CardOK
<1>3. FramesInv'
  BY DEF Sound, LinkInv, FramesInv, InBody, Inv, CardOK
<1>. QED
  BY <1>2, <1>3

LEMMA OneListens ==
  ASSUME Sound, NEW t \in Threads, Listens(t)
  PROVE /\ \A u \in Threads : Listens(u) => u = t
        /\ \A c \in Conns : c = client_sock /\ ~Hears(t, c) => Quiet(c)
<1>1. \A u \in Threads : Listens(u) => u = t
  BY DEF Sound, Alone, Inside, Listens
<1>. QED
  BY <1>1 DEF Sound, LinkInv, AnswersInv, Hears

\* The connection of the context, when its card has closed.
LEMMA DeadIsSilent ==
  ASSUME Sound, NEW c \in Conns, ~conn[c].icc PROVE conn[c].toIcc = <<>> /\ ~Replying(c)
BY DEF Sound, LinkInv, NetInv, EndsOK, AtWork, Replying

LEMMA HeaderIsRead ==
  ASSUME NEW t \in Threads, NEW b \in Seq(Bytes), AnswerTo(t, b), Len(b) >= 2
  PROVE /\ Lengths(Take(b, 2)) = {2}
        /\ Drop(b, 2) # <<>> => BodyTo(t, Drop(b, 2))
<1>1. PICK a : a = b[1][1] /\ a \in Answers /\ a.to = Request(t)
  BY DEF AnswerTo
<1>0. PICK n \in Nat : n = Len(b)
  BY NotEmpty
<1>2. n = Len(b) /\ n \in 2 .. 4
  <2>1. n <= 4 /\ n >= 2
    BY <1>0 DEF AnswerTo
  <2>. QED
    BY <1>0, <2>1
<1>3. BodyLen(a) = 2
  BY <1>1, BodyBytes
<1>4. \A i \in 1 .. n : b[i] = <<a, i>>
  BY <1>1, <1>2 DEF AnswerTo
<1>5. Lengths(Take(b, 2)) = {2}
  <2>1. 2 \in Nat /\ 2 <= Len(b) /\ 1 \in 1 .. 2 /\ 2 \in 1 .. 2 /\ 1 \in 1 .. n /\ 2 \in 1 .. n
    BY <1>2
  <2>2. Len(Take(b, 2)) = 2 /\ Take(b, 2)[1] = <<a, 1>> /\ Take(b, 2)[2] = <<a, 2>>
    BY <1>4, <2>1, Taken
  <2>3. IsHeader(Take(b, 2)) /\ Take(b, 2)[1][1] = a
    BY <2>2 DEF IsHeader
  <2>4. Lengths(Take(b, 2)) = {BodyLen(Take(b, 2)[1][1])}
    BY <2>3 DEF Lengths
  <2>5. BodyLen(Take(b, 2)[1][1]) = 2
    BY <1>3, <2>3
  <2>. QED
    BY <2>4, <2>5
<1>6. ASSUME Drop(b, 2) # <<>> PROVE BodyTo(t, Drop(b, 2))
  <2>1. PICK d : d = Drop(b, 2)
    OBVIOUS
  <2>2. d \in Seq(Bytes) /\ Len(d) = n - 2 /\ \A i \in 1 .. n - 2 : d[i] = b[i + 2]
    <3>1. 2 \in Nat /\ 2 <= Len(b)
      BY <1>2
    <3>2. /\ Drop(b, 2) \in Seq(Bytes) /\ Len(Drop(b, 2)) = Len(b) - 2
          /\ \A i \in 1 .. Len(b) - 2 : Drop(b, 2)[i] = b[i + 2]
      BY <3>1, Dropped
    <3>. QED
      BY <1>2, <2>1, <3>2
  <2>3. \A i \in 1 .. n - 2 : i + 2 \in 1 .. n
    BY <1>2
  <2>6. \A i \in 1 .. n - 2 : d[i] = <<a, i + 2>>
    BY <1>4, <2>2, <2>3
  <2>4. n - 2 \in 1 .. 2
    <3>1. Len(d) >= 1 /\ Len(d) = n - 2
      BY <1>6, <2>1, <2>2, NotEmpty
    <3>. QED
      BY <1>2, <3>1
  <2>5. d[1] = <<a, 3>>
    BY <2>4, <2>6
  <2>. QED
    BY <1>1, <1>6, <2>1, <2>2, <2>6, <2>4, <2>5 DEF BodyTo
<1>. QED
  BY <1>5, <1>6

LEMMA BodyIsRead ==
  ASSUME NEW t \in Threads, NEW b \in Seq(Bytes), BodyTo(t, b), Len(b) >= 2
  PROVE Take(b, 2) = b /\ Drop(b, 2) = <<>>
<1>1. Len(b) = 2
  <2>1. PICK n \in Nat : n = Len(b)
    BY NotEmpty
  <2>2. n <= 2
    BY <2>1 DEF BodyTo
  <2>3. n >= 2
    BY <2>1
  <2>. QED
    BY <2>1, <2>2, <2>3
<1>2. Take(b, 2) \in Seq(Bytes) /\ Len(Take(b, 2)) = 2 /\ \A i \in 1 .. 2 : Take(b, 2)[i] = b[i]
  BY <1>1, Taken
<1>3. Drop(b, 2) \in Seq(Bytes) /\ Len(Drop(b, 2)) = 0
  <2>1. 2 \in Nat /\ 2 <= Len(b)
    BY <1>1
  <2>2. Drop(b, 2) \in Seq(Bytes) /\ Len(Drop(b, 2)) = Len(b) - 2
    BY <2>1, Dropped
  <2>. QED
    BY <1>1, <2>2
<1>. QED
  BY <1>1, <1>2, <1>3

LEMMA AnswersAfterRead ==
  ASSUME Sound, NEW t \in Threads, InRecv(t), NEW l \in {"recv2", "unlock"}, Goto(t, l),
         sock' = [sock EXCEPT ![t] = INVALID_SOCKET],
         UNCHANGED <<client_sock, vpicc>>,
         \A c \in Conns : conn'[c].toIcc = conn[c].toIcc /\ (c # sock[t] => conn'[c] = conn[c]),
         \A c \in Conns : c = client_sock /\ c = sock[t] => IF l = "recv2" THEN AwaitsBody(t, c)' ELSE Quiet(c)'
  PROVE AnswersInv'
<1>0. pc \in [Threads -> PCs] /\ sock \in [Threads -> SockType]
  BY DEF Sound, Inv, CallOK
<1>1. pc'[t] = l /\ \A u \in Threads \ {t} : pc'[u] = pc[u]
  BY <1>0 DEF Goto
<1>2. Listens(t)
  BY DEF InRecv, Listens
<1>3. \A u \in Threads : u # t => ~Listens(u)'
  BY <1>1, <1>2, OneListens DEF Listens
<1>4. ASSUME NEW c \in Conns, c = client_sock, c # sock[t] PROVE Quiet(c)'
  <2>1. Quiet(c)
    BY <1>2, <1>4, OneListens DEF Hears
  <2>. QED
    BY <1>4, <2>1 DEF Quiet, Replying
<1>5. \A c \in Conns : Quiet(c)' => AwaitsBody(t, c)'
  BY DEF Quiet, AwaitsBody
<1>6. CASE l = "recv2"
  <2>1. \A c \in Conns : Hears(t, c)' <=> c = client_sock
    BY <1>1, <1>6 DEF Hears, Listens, InRecv
  <2>2. \A c \in Conns : c = client_sock => AwaitsBody(t, c)'
    BY <1>4, <1>5, <1>6
  <2>3. \A u \in Threads, c \in Conns : Hears(u, c)' => u = t
    BY <1>3 DEF Hears
  <2>. QED
    BY <1>1, <1>6, <2>1, <2>2, <2>3 DEF AnswersInv
<1>7. CASE l = "unlock"
  <2>1. \A u \in Threads : ~Listens(u)'
    BY <1>1, <1>3, <1>7 DEF Listens
  <2>2. \A c \in Conns : c = client_sock => Quiet(c)'
    BY <1>4, <1>7
  <2>. QED
    BY <2>1, <2>2 DEF AnswersInv, Hears
<1>. QED
  BY <1>6, <1>7

LEMMA Heard ==
  ASSUME Sound, NEW t \in Threads, InRecv(t), sock[t] \in Conns
  PROVE /\ pc[t] = "in1" => AwaitsHeader(t, sock[t])
        /\ pc[t] = "in2" => AwaitsBody(t, sock[t])
<1>1. Hears(t, sock[t])
  BY DEF Hears, Listens, InRecv
<1>. QED
  BY <1>1 DEF Sound, LinkInv, AnswersInv

\* A stream that is consumed or discarded.
LEMMA StreamRead ==
  ASSUME Sound, NEW t \in Threads, sock[t] \in Conns
  PROVE /\ Stream(t) \in Seq(Bytes) /\ Stream(t) = conn[sock[t]].toPcd
        /\ \A k : Consume(t, k) => conn'[sock[t]].toPcd = Drop(Stream(t), k)
        /\ Drop(Stream(t), Len(Stream(t))) = <<>>
        /\ Discard(t) /\ conn[sock[t]].pcd => conn'[sock[t]].toPcd = <<>>
<1>1. Stream(t) \in Seq(Bytes) /\ Stream(t) = conn[sock[t]].toPcd
  BY Streams DEF Stream
<1>2. conn \in Networks /\ conn[sock[t]] \in ConnType
  BY Streams DEF Sound, Inv, NetOK
<1>3. \A k : Consume(t, k) => conn'[sock[t]].toPcd = Drop(Stream(t), k)
  BY <1>2 DEF Consume, Stream, Networks, ConnType
<1>4. Drop(Stream(t), Len(Stream(t))) = <<>>
  <2>1. PICK s \in Seq(Bytes) : s = Stream(t)
    BY <1>1
  <2>2. Len(s) \in Nat /\ Len(s) <= Len(s)
    OBVIOUS
  <2>3. Drop(s, Len(s)) \in Seq(Bytes) /\ Len(Drop(s, Len(s))) = Len(s) - Len(s)
    BY <2>2, Dropped
  <2>4. Len(Drop(s, Len(s))) = 0
    BY <2>2, <2>3
  <2>. QED
    BY <2>1, <2>3, <2>4
<1>5. Discard(t) /\ conn[sock[t]].pcd => conn'[sock[t]].toPcd = <<>>
  <2>1. PICK c \in Conns : c = sock[t]
    OBVIOUS
  <2>2. ASSUME Discard(t), conn[c].pcd PROVE conn'[c].toPcd = <<>>
    <3>1. conn' = [conn EXCEPT ![c].toPcd = <<>>]
      BY <2>1, <2>2 DEF Discard
    <3>. QED
      BY <1>2, <2>1, <3>1 DEF Networks, ConnType
  <2>. QED
    BY <2>1, <2>2
<1>. QED
  BY <1>1, <1>3, <1>4, <1>5

\* The reader's descriptor is open, so an error means that the card is gone.
LEMMA ErrorMeansDead ==
  ASSUME Sound, NEW t \in Threads, ErrorRecv(t), sock[t] \in Conns, sock[t] = client_sock
  PROVE conn[sock[t]].pcd /\ ~conn[sock[t]].icc
BY DEF ErrorRecv, Sound, LinkInv, NetInv, EndsOK

LEMMA RecvReads ==
  ASSUME Sound, NEW t \in Threads, RecvHeader(t) \/ RecvBody(t)
  PROVE \A c \in Conns :
          /\ conn'[c].pcd = conn[c].pcd /\ conn'[c].icc = conn[c].icc
          /\ conn'[c].backlog = conn[c].backlog /\ conn'[c].toIcc = conn[c].toIcc
          /\ c # sock[t] => conn'[c] = conn[c]
          /\ conn[c].toPcd = <<>> => conn'[c] = conn[c]
<1>1. CASE Discard(t)
  BY <1>1, ReadEffect
<1>2. CASE sock[t] \in Conns /\ \E k \in Nat : k <= Len(Stream(t)) /\ Consume(t, k)
  BY <1>2, ReadEffect
<1>3. ASSUME WholeRecv(t), Consume(t, need[t])
      PROVE sock[t] \in Conns /\ \E k \in Nat : k <= Len(Stream(t)) /\ Consume(t, k)
  <2>1. need[t] \in 0 .. 2 /\ sock[t] \in Conns /\ Len(Stream(t)) >= need[t] /\ Len(Stream(t)) \in Nat
    BY <1>3, StreamRead, NotEmpty DEF WholeRecv, Sound, Inv, CallOK
  <2>2. need[t] \in Nat /\ need[t] <= Len(Stream(t))
    BY <2>1
  <2>. QED
    BY <1>3, <2>1, <2>2
<1>4. ASSUME EofRecv(t), Consume(t, Len(Stream(t)))
      PROVE sock[t] \in Conns /\ \E k \in Nat : k <= Len(Stream(t)) /\ Consume(t, k)
  <2>1. sock[t] \in Conns /\ Len(Stream(t)) \in Nat
    BY <1>4, StreamRead, NotEmpty DEF EofRecv
  <2>2. Len(Stream(t)) <= Len(Stream(t))
    BY <2>1
  <2>. QED
    BY <1>4, <2>1, <2>2
<1>. QED
  BY <1>1, <1>2, <1>3, <1>4 DEF RecvHeader, RecvBody

LEMMA RecvHeaderStep ==
  ASSUME Sound, NEW t \in Threads, RecvHeader(t), reversed' = reversed PROVE LinkInv'
<1>1. /\ pc[t] = "in1" /\ pc \in [Threads -> PCs] /\ need \in [Threads -> 0 .. 2]
      /\ InRecv(t) /\ need[t] = 2
      /\ sock' = [sock EXCEPT ![t] = INVALID_SOCKET]
      /\ UNCHANGED <<open, client_sock, vpicc, op, seq, got, res>>
  BY DEF RecvHeader, ctxVars, cardVars, Sound, Inv, CallOK, LinkInv, GotInv, InRecv
<1>2. \A c \in Conns :
        /\ conn'[c].pcd = conn[c].pcd /\ conn'[c].icc = conn[c].icc
        /\ conn'[c].backlog = conn[c].backlog /\ conn'[c].toIcc = conn[c].toIcc
        /\ c # sock[t] => conn'[c] = conn[c]
        /\ conn[c].toPcd = <<>> => conn'[c] = conn[c]
  BY RecvReads
<1>3. NetInv' /\ FramesInv'
  BY <1>1, <1>2, ReadKeepsNet
<1>4. \E l \in {"recv2", "unlock"} : Goto(t, l)
  BY DEF RecvHeader
<1>5. pc'[t] \in {"recv2", "unlock"} /\ \A u \in Threads \ {t} : pc'[u] = pc[u]
  BY <1>1, <1>4 DEF Goto
<1>6. \A u \in Threads \ {t} : need'[u] = need[u]
  BY <1>1 DEF RecvHeader
<1>7. GotInv'
  BY <1>1, <1>5, <1>6, GotKept
<1>8. CASE WholeRecv(t) /\ Consume(t, need[t]) /\ Goto(t, "recv2")
           /\ need' \in {[need EXCEPT ![t] = k] : k \in Lengths(Take(Stream(t), need[t]))}
  <2>1. ASSUME NEW c \in Conns, c = client_sock, c = sock[t] PROVE AwaitsBody(t, c)'
    <3>. DEFINE s == conn[c].toPcd
    <3>1. s \in Seq(Bytes) /\ s = Stream(t) /\ conn'[c].toPcd = Drop(s, 2)
      BY <1>1, <1>8, <2>1, StreamRead
    <3>2. Len(s) >= 2
      BY <1>1, <1>8, <3>1 DEF WholeRecv
    <3>3. AnswerTo(t, s) /\ ~Replying(c) /\ Silent(conn[c].toIcc)
      <4>1. s # <<>>
        BY <3>2
      <4>. QED
        BY <1>1, <2>1, <4>1, Heard DEF AwaitsHeader
    <3>4. Lengths(Take(s, 2)) = {2} /\ (Drop(s, 2) # <<>> => BodyTo(t, Drop(s, 2)))
      BY <3>1, <3>2, <3>3, HeaderIsRead
    <3>5. need'[t] = 2
      BY <1>1, <1>8, <3>1, <3>4
    <3>6. Request(t)' = Request(t)
      BY <1>1, SameRequests
    <3>7. BodyTo(t, Drop(s, 2)) => BodyTo(t, conn[c].toPcd)'
      BY <3>1, <3>6 DEF BodyTo
    <3>. QED
      BY <1>1, <1>2, <3>1, <3>3, <3>4, <3>5, <3>7 DEF AwaitsBody, Replying
  <2>2. AnswersInv'
    BY <1>1, <1>2, <1>8, <2>1, AnswersAfterRead, ZenonT(60)
  <2>. QED
    BY <1>3, <1>7, <2>2 DEF LinkInv
<1>9. CASE EofRecv(t) /\ Consume(t, Len(Stream(t))) /\ Goto(t, "unlock")
  <2>1. ASSUME NEW c \in Conns, c = client_sock, c = sock[t] PROVE Quiet(c)'
    <3>1. conn[c].toIcc = <<>> /\ ~Replying(c)
      BY <1>9, <2>1, DeadIsSilent DEF EofRecv
    <3>2. conn'[c].toPcd = <<>>
      BY <1>9, <2>1, StreamRead
    <3>. QED
      BY <1>1, <1>2, <3>1, <3>2, NothingSent DEF Quiet, Replying
  <2>2. AnswersInv'
    BY <1>1, <1>2, <1>9, <2>1, AnswersAfterRead
  <2>. QED
    BY <1>3, <1>7, <2>2 DEF LinkInv
<1>10. CASE ErrorRecv(t) /\ Goto(t, "recv2") /\ Discard(t)
  <2>1. ASSUME NEW c \in Conns, c = client_sock, c = sock[t] PROVE AwaitsBody(t, c)'
    <3>1. conn[c].pcd /\ ~conn[c].icc
      BY <1>10, <2>1, ErrorMeansDead
    <3>2. conn[c].toIcc = <<>> /\ ~Replying(c)
      BY <3>1, DeadIsSilent
    <3>3. conn'[c].toPcd = <<>>
      BY <1>10, <2>1, <3>1, StreamRead
    <3>. QED
      BY <1>1, <1>2, <3>2, <3>3, NothingSent DEF AwaitsBody, Replying
  <2>2. AnswersInv'
    BY <1>1, <1>2, <1>10, <2>1, AnswersAfterRead, ZenonT(60)
  <2>. QED
    BY <1>3, <1>7, <2>2 DEF LinkInv
<1>. QED
  BY <1>8, <1>9, <1>10 DEF RecvHeader

LEMMA RecvBodyStep ==
  ASSUME Sound, NEW t \in Threads, RecvBody(t), reversed' = reversed PROVE LinkInv'
<1>1. /\ pc[t] = "in2" /\ pc \in [Threads -> PCs] /\ need[t] \in 0 .. 2 /\ got \in [Threads -> Seq(Bytes)]
      /\ InRecv(t) /\ got[t] = <<>> /\ Goto(t, "unlock")
      /\ sock' = [sock EXCEPT ![t] = INVALID_SOCKET]
      /\ UNCHANGED <<open, client_sock, vpicc, op, seq, need, res>>
  BY DEF RecvBody, ctxVars, cardVars, Sound, Inv, CallOK, LinkInv, GotInv, InRecv
<1>2. \A c \in Conns :
        /\ conn'[c].pcd = conn[c].pcd /\ conn'[c].icc = conn[c].icc
        /\ conn'[c].backlog = conn[c].backlog /\ conn'[c].toIcc = conn[c].toIcc
        /\ c # sock[t] => conn'[c] = conn[c]
        /\ conn[c].toPcd = <<>> => conn'[c] = conn[c]
  BY RecvReads
<1>3. NetInv' /\ FramesInv'
  BY <1>1, <1>2, ReadKeepsNet
<1>5. pc'[t] = "unlock" /\ \A u \in Threads \ {t} : pc'[u] = pc[u]
  BY <1>1 DEF Goto
<1>6. \A u \in Threads : Request(u)' = Request(u)
  BY <1>1, SameRequests
<1>7. ASSUME got'[t] # <<>> => BodyTo(t, got'[t]), \A u \in Threads \ {t} : got'[u] = got[u]
      PROVE GotInv'
  <2>1. got'[t] # <<>> => BodyTo(t, got[t])'
    BY <1>6, <1>7 DEF BodyTo
  <2>2. \A u \in Threads \ {t} : BodyTo(u, got[u]) => BodyTo(u, got[u])'
    BY <1>6, <1>7 DEF BodyTo
  <2>. QED
    BY <1>1, <1>5, <1>7, <2>1, <2>2 DEF Sound, LinkInv, GotInv
<1>8. ASSUME sock[t] \in Conns
      PROVE /\ ~Replying(sock[t]) /\ Silent(conn[sock[t]].toIcc)
            /\ Stream(t) # <<>> => need[t] = 2 /\ BodyTo(t, Stream(t))
            /\ Stream(t) \in Seq(Bytes)
  BY <1>1, <1>8, Heard, StreamRead DEF AwaitsBody
<1>9. ASSUME \A c \in Conns : c = client_sock /\ c = sock[t] => conn'[c].toPcd = <<>> PROVE AnswersInv'
  <2>1. \A c \in Conns : c = client_sock /\ c = sock[t] => Quiet(c)'
    BY <1>1, <1>2, <1>8, <1>9 DEF Quiet, Replying
  <2>. QED
    BY <1>1, <1>2, <2>1, AnswersAfterRead
<1>10. CASE WholeRecv(t) /\ Consume(t, need[t]) /\ got' = [got EXCEPT ![t] = Take(Stream(t), need[t])]
  <2>1. PICK s \in Seq(Bytes) : s = Stream(t) /\ sock[t] \in Conns /\ Len(s) >= need[t]
    BY <1>8, <1>10 DEF WholeRecv
  <2>2. got'[t] = Take(s, need[t]) /\ \A u \in Threads \ {t} : got'[u] = got[u]
    BY <1>1, <1>10, <2>1
  <2>3. conn'[sock[t]].toPcd = Drop(s, need[t])
    BY <1>10, <2>1, StreamRead
  <2>4. (Take(s, need[t]) # <<>> => BodyTo(t, Take(s, need[t]))) /\ Drop(s, need[t]) = <<>>
    <3>1. CASE s # <<>>
      BY <1>8, <2>1, <3>1, BodyIsRead
    <3>2. CASE s = <<>>
      <4>1. need[t] = 0
        BY <1>1, <2>1, <3>2
      <4>. QED
        BY <3>2, <4>1 DEF Take, Drop
    <3>. QED
      BY <3>1, <3>2
  <2>. QED
    BY <1>3, <1>7, <1>9, <2>2, <2>3, <2>4 DEF LinkInv
<1>11. CASE EofRecv(t) /\ Consume(t, Len(Stream(t))) /\ got' = [got EXCEPT ![t] = Stream(t)]
  <2>1. sock[t] \in Conns
    BY <1>11 DEF EofRecv
  <2>2. got'[t] = Stream(t) /\ \A u \in Threads \ {t} : got'[u] = got[u]
    BY <1>1, <1>11
  <2>3. conn'[sock[t]].toPcd = <<>>
    BY <1>11, <2>1, StreamRead
  <2>. QED
    BY <1>3, <1>7, <1>8, <1>9, <2>1, <2>2, <2>3 DEF LinkInv
<1>12. CASE ErrorRecv(t) /\ Discard(t) /\ UNCHANGED got
  <2>1. \A c \in Conns : c = client_sock /\ c = sock[t] => conn'[c].toPcd = <<>>
    BY <1>12, ErrorMeansDead, StreamRead
  <2>. QED
    BY <1>1, <1>3, <1>7, <1>9, <1>12, <2>1 DEF LinkInv
<1>. QED
  BY <1>10, <1>11, <1>12 DEF RecvBody

-----------------------------------------------------------------------------
\* The reader gets a connection, or loses all.

LEMMA AnswersOnNew ==
  ASSUME Sound, client_sock \notin Conns, UNCHANGED vpicc,
         \A c \in Conns : c = client_sock' => Quiet(c)',
         \A c \in Conns : c # client_sock' => conn'[c] = conn[c],
         \A u \in Threads : Listens(u)' => /\ pc'[u] = pc[u] /\ op'[u] = op[u] /\ seq'[u] = seq[u]
                                           /\ need'[u] = need[u] /\ sock'[u] = sock[u]
  PROVE AnswersInv'
<1>1. \A u \in Threads, c \in Conns : Hears(u, c)' /\ c # client_sock' => Hears(u, c) /\ pc'[u] = pc[u]
  BY DEF Hears, Listens, InRecv
<1>2. \A c \in Conns : c # client_sock' => NothingNew(c)
  BY DEF NothingNew, Replying
<1>3. ASSUME NEW u \in Threads, NEW c \in Conns, Hears(u, c)', c # client_sock'
      PROVE IF pc'[u] \in {"recv1", "in1"} THEN AwaitsHeader(u, c)' ELSE AwaitsBody(u, c)'
  <2>1. Listens(u)'
    BY <1>3 DEF Hears
  <2>2. Request(u)' = Request(u) /\ need'[u] = need[u]
    BY <2>1, SameRequests
  <2>. QED
    BY <1>1, <1>2, <1>3, <2>2, StillAwaited DEF Sound, LinkInv, AnswersInv
<1>4. ASSUME NEW u \in Threads, NEW c \in Conns, c = client_sock'
      PROVE AwaitsHeader(u, c)' /\ AwaitsBody(u, c)'
  <2>1. Quiet(c)'
    BY <1>4
  <2>2. AskedLast(Request(u)', conn'[c].toIcc)
    BY <2>1, SilentAsks DEF Quiet
  <2>. QED
    BY <2>1, <2>2 DEF Quiet, AwaitsHeader, AwaitsBody
<1>. QED
  BY <1>3, <1>4 DEF AnswersInv

\* A free connection becomes the reader's.
LEMMA NewKeepsNet ==
  ASSUME Sound, reversed, open', client_sock \notin Conns, NEW c \in Conns, conn[c] = NoConn,
         conn' = [conn EXCEPT ![c] = NewConn], client_sock' = c, UNCHANGED <<reversed, vpicc>>
  PROVE NetInv' /\ FramesInv' /\ Quiet(c)'
<1>1. conn'[c] = NewConn /\ \A d \in Conns : d # c => conn'[d] = conn[d]
  BY DEF Sound, Inv, NetOK, Networks
<1>2. ~Replying(c) /\ ~InBody(c) /\ ~(AtWork /\ vpicc.conn = c)
  BY ConnFields DEF Sound, LinkInv, NetInv, AtWork, Replying, InBody
<1>3. \A d \in Conns : EndsOK(d)'
  BY <1>1, <1>2, ConnFields DEF Sound, LinkInv, NetInv, EndsOK, Replying
<1>4. NetInv'
  BY <1>1, <1>2, <1>3 DEF Sound, LinkInv, NetInv, AtWork, Inv, CardOK
<1>5. FramesInv'
  BY <1>1, <1>2, ConnFields, NothingSent DEF Sound, LinkInv, FramesInv, InBody, Inv, CardOK
<1>. QED
  BY <1>1, <1>2, <1>4, <1>5, ConnFields, NothingSent DEF Quiet, Replying

\* A card that has connected is accepted.
LEMMA AcceptKeepsNet ==
  ASSUME Sound, ~reversed, open', client_sock \notin Conns, NEW c \in Conns, conn[c].backlog,
         conn' = [conn EXCEPT ![c].backlog = FALSE], client_sock' = c, UNCHANGED <<reversed, vpicc>>
  PROVE NetInv' /\ FramesInv' /\ Quiet(c)'
<1>1. /\ \A d \in Conns : d # c => conn'[d] = conn[d]
      /\ conn'[c].pcd = conn[c].pcd /\ conn'[c].icc = conn[c].icc /\ ~conn'[c].backlog
      /\ conn'[c].toIcc = conn[c].toIcc /\ conn'[c].toPcd = conn[c].toPcd
  BY DEF Sound, Inv, NetOK, Networks, ConnType
<1>2. conn[c].pcd /\ conn[c].toIcc = <<>> /\ conn[c].toPcd = <<>> /\ ~Replying(c)
  BY DEF Sound, LinkInv, NetInv, EndsOK
<1>3. \A d \in Conns : EndsOK(d)'
  BY <1>1, <1>2, ConnFields DEF Sound, LinkInv, NetInv, EndsOK, Replying
<1>4. NetInv'
  BY <1>1, <1>3 DEF Sound, LinkInv, NetInv, AtWork, Inv, CardOK
<1>5. FramesInv'
  BY <1>1 DEF Sound, LinkInv, FramesInv, InBody, Inv, CardOK
<1>. QED
  BY <1>1, <1>2, <1>4, <1>5, NothingSent DEF Quiet, Replying

LEMMA SocketKeepsNet ==
  ASSUME Sound, open', client_sock \notin Conns, client_sock' \notin Conns,
         UNCHANGED <<reversed, conn, vpicc>>
  PROVE NetInv' /\ FramesInv'
BY DEF Sound, LinkInv, NetInv, FramesInv, EndsOK, AtWork, Replying, InBody

LEMMA ConnectEffect ==
  ASSUME Sound, client_sock = INVALID_SOCKET, open', UNCHANGED <<reversed, vpicc>>,
         IF reversed THEN ConnectSock ELSE WaitForClient
  PROVE /\ NetInv' /\ FramesInv'
        /\ \A c \in Conns : c = client_sock' => Quiet(c)'
        /\ \A c \in Conns : c # client_sock' => conn'[c] = conn[c]
<1>0. client_sock \notin Conns /\ STALE \notin Conns
  BY LinkAssumption
<1>1. ASSUME reversed, NEW c \in FreeConns, conn' = [conn EXCEPT ![c] = NewConn], client_sock' = c
      PROVE /\ NetInv' /\ FramesInv' /\ Quiet(c)'
            /\ \A d \in Conns : d # client_sock' => conn'[d] = conn[d]
  <2>1. c \in Conns /\ conn[c] = NoConn
    BY DEF FreeConns
  <2>. QED
    BY <1>0, <1>1, <2>1, NewKeepsNet DEF Sound, Inv, NetOK, Networks
<1>2. ASSUME ~reversed, NEW c \in Backlog, conn' = [conn EXCEPT ![c].backlog = FALSE], client_sock' = c
      PROVE /\ NetInv' /\ FramesInv' /\ Quiet(c)'
            /\ \A d \in Conns : d # client_sock' => conn'[d] = conn[d]
  <2>1. c \in Conns /\ conn[c].backlog
    BY DEF Backlog
  <2>. QED
    BY <1>0, <1>2, <2>1, AcceptKeepsNet DEF Sound, Inv, NetOK, Networks
<1>3. CASE client_sock' \notin Conns /\ UNCHANGED conn
  BY <1>0, <1>3, SocketKeepsNet
<1>4. CASE reversed
  BY <1>0, <1>1, <1>3, <1>4 DEF ConnectSock
<1>5. CASE ~reversed
  BY <1>0, <1>2, <1>3, <1>5 DEF WaitForClient
<1>. QED
  BY <1>4, <1>5

LEMMA ConnectStep ==
  ASSUME Sound, NEW t \in Threads, Connect(t), reversed' = reversed PROVE LinkInv'
<1>1. /\ pc[t] = "connect" /\ pc \in [Threads -> PCs] /\ ~Listens(t) /\ open /\ open'
      /\ UNCHANGED vpicc
  BY DEF Connect, cardVars, Sound, Inv, CallOK, Listens, ClosedIsIdle, AllIdle
<1>2. CASE Return(t, "NOT_PRESENT", "none", FALSE)
  <2>1. GotInv' /\ Goto(t, "idle") /\ UNCHANGED <<op, seq>>
        /\ \A u \in Threads \ {t} : op'[u] = op[u] /\ seq'[u] = seq[u] /\ need'[u] = need[u] /\ sock'[u] = sock[u]
    BY <1>2, ReturnKeepsGot, ReturnMoves
  <2>2. \A u \in Threads : Listens(u)' => u # t /\ pc'[u] = pc[u]
    BY <1>1, <2>1 DEF Goto, Listens
  <2>3. CASE client_sock = INVALID_SOCKET
    <3>1. IF reversed THEN ConnectSock ELSE WaitForClient
      BY <2>3 DEF Connect
    <3>2. AnswersInv'
      BY <1>1, <2>1, <2>2, <2>3, <3>1, LinkAssumption, ConnectEffect, AnswersOnNew
    <3>. QED
      BY <1>1, <2>1, <2>3, <3>1, <3>2, ConnectEffect DEF LinkInv
  <2>4. CASE UNCHANGED <<client_sock, conn>>
    <3>1. AnswersInv'
      BY <1>1, <2>1, <2>4, ElsewhereKeepsAnswers DEF PCs
    <3>. QED
      BY <1>1, <2>1, <2>4, <3>1, SameNet DEF LinkInv
  <2>. QED
    BY <2>3, <2>4 DEF Connect
<1>3. CASE Goto(t, "lock") /\ UNCHANGED <<op, seq, sock, need, got, r, res>>
  <2>1. pc'[t] = "lock" /\ \A u \in Threads \ {t} : pc'[u] = pc[u]
    BY <1>1, <1>3 DEF Goto
  <2>2. GotInv'
    BY <1>1, <1>3, <2>1, GotKept
  <2>3. \A u \in Threads : Listens(u)' => u # t /\ pc'[u] = pc[u]
    BY <2>1 DEF Listens
  <2>4. CASE client_sock = INVALID_SOCKET
    <3>1. IF reversed THEN ConnectSock ELSE WaitForClient
      BY <2>4 DEF Connect
    <3>2. AnswersInv'
      BY <1>1, <1>3, <2>3, <2>4, <3>1, LinkAssumption, ConnectEffect, AnswersOnNew
    <3>. QED
      BY <1>1, <2>2, <2>4, <3>1, <3>2, ConnectEffect DEF LinkInv
  <2>5. CASE UNCHANGED <<client_sock, conn>>
    <3>1. AnswersInv'
      BY <1>1, <1>3, <2>5, ElsewhereKeepsAnswers DEF PCs
    <3>. QED
      BY <1>1, <2>2, <2>5, <3>1, SameNet DEF LinkInv
  <2>. QED
    BY <2>4, <2>5 DEF Connect
<1>. QED
  BY <1>2, <1>3 DEF Connect

LEMMA GotUnchanged ==
  ASSUME Sound, UNCHANGED callVars PROVE GotInv'
<1>1. \A u \in Threads : Request(u)' = Request(u)
  BY SameRequests DEF callVars
<1>. QED
  BY <1>1 DEF Sound, LinkInv, GotInv, BodyTo, callVars

LEMMA CreateChannelStep ==
  ASSUME Sound, CreateChannel, reversed' = reversed PROVE LinkInv'
<1>1. /\ client_sock = INVALID_SOCKET /\ client_sock \notin Conns /\ open'
      /\ UNCHANGED <<vpicc, pc, op, seq, sock, need>> /\ UNCHANGED callVars
  BY LinkAssumption DEF CreateChannel, callVars, cardVars, Sound, LinkInv, NetInv
<1>2. CASE reversed
  <2>1. ConnectSock
    BY <1>2 DEF CreateChannel
  <2>2. /\ NetInv' /\ FramesInv'
        /\ \A c \in Conns : c = client_sock' => Quiet(c)'
        /\ \A c \in Conns : c # client_sock' => conn'[c] = conn[c]
    BY <1>1, <1>2, <2>1, ConnectEffect
  <2>3. AnswersInv'
    BY <1>1, <2>2, AnswersOnNew
  <2>. QED
    BY <1>1, <2>2, <2>3, GotUnchanged DEF LinkInv
<1>3. CASE ~reversed
  <2>1. client_sock' = INVALID_SOCKET /\ UNCHANGED conn
    BY <1>3 DEF CreateChannel
  <2>2. AnswersInv'
    BY <1>1, <2>1, AnswersOnNew
  <2>. QED
    BY <1>1, <2>1, <2>2, SocketKeepsNet, GotUnchanged DEF LinkInv
<1>. QED
  BY <1>2, <1>3

\* The descriptors of the reader are closed.
LEMMA ClosedKeepsNet ==
  ASSUME Sound, conn' = PcdClosed, client_sock' = INVALID_SOCKET, UNCHANGED <<reversed, vpicc>>
  PROVE NetInv' /\ FramesInv'
<1>0. client_sock' \notin Conns
  BY LinkAssumption
<1>1. \A c \in Conns : conn'[c] = IF conn[c].pcd THEN ClosePcd(conn[c]) ELSE conn[c]
  BY DEF PcdClosed
<1>2. ASSUME NEW c \in Conns
      PROVE /\ (conn'[c].icc <=> conn[c].icc) /\ ~conn'[c].pcd /\ conn'[c].toIcc = conn[c].toIcc
            /\ conn'[c].backlog => conn[c].backlog /\ reversed
            /\ ~conn[c].icc => conn'[c] = NoConn
  <2>1. conn[c] \in ConnType /\ reversed \in BOOLEAN /\ EndsOK(c)
    BY Streams DEF Sound, HostOK, LinkInv, NetInv
  <2>2. CASE conn[c].pcd /\ conn[c].icc
    BY <1>1, <2>1, <2>2, PcdClosedFields
  <2>3. CASE conn[c].pcd /\ ~conn[c].icc
    BY <1>1, <2>1, <2>3, PcdClosedFields, ConnFields DEF EndsOK
  <2>4. CASE ~conn[c].pcd
    BY <1>1, <2>1, <2>4, ConnFields DEF EndsOK
  <2>. QED
    BY <2>2, <2>3, <2>4
<1>3. \A c \in Conns : EndsOK(c)'
  BY <1>0, <1>2 DEF Sound, LinkInv, NetInv, EndsOK
<1>4. NetInv'
  BY <1>2, <1>3 DEF Sound, LinkInv, NetInv, AtWork, Inv, CardOK
<1>5. FramesInv'
  BY <1>2 DEF Sound, LinkInv, FramesInv, InBody, Inv, CardOK
<1>. QED
  BY <1>4, <1>5

LEMMA CloseChannelStep ==
  ASSUME Sound, CloseChannel, reversed' = reversed PROVE LinkInv'
<1>1. /\ client_sock' = INVALID_SOCKET /\ client_sock' \notin Conns /\ conn' = PcdClosed
      /\ UNCHANGED vpicc /\ UNCHANGED callVars /\ \A u \in Threads : ~Listens(u)'
  BY LinkAssumption DEF CloseChannel, callVars, cardVars, AllIdle, Listens
<1>2. AnswersInv'
  BY <1>1 DEF AnswersInv, Hears
<1>. QED
  BY <1>1, <1>2, ClosedKeepsNet, GotUnchanged DEF LinkInv

LEMMA PcdDiesStep ==
  ASSUME Sound, PcdDies, reversed' = reversed PROVE LinkInv'
<1>1. /\ client_sock' = INVALID_SOCKET /\ client_sock' \notin Conns /\ conn' = PcdClosed
      /\ UNCHANGED vpicc /\ \A u \in Threads : ~Listens(u)'
      /\ \A u \in Threads : pc'[u] = "idle" /\ got'[u] = <<>> /\ res'[u].data # "foreign"
  BY LinkAssumption DEF PcdDies, cardVars, Listens, NoRes
<1>2. AnswersInv' /\ GotInv'
  BY <1>1 DEF AnswersInv, Hears, GotInv
<1>. QED
  BY <1>1, <1>2, ClosedKeepsNet DEF LinkInv

-----------------------------------------------------------------------------
\* The card process.

\* What is on connection c is as calm as it was.
Calm(c) ==
  /\ Silent(conn[c].toIcc) => Silent(conn'[c].toIcc)
  /\ \A q \in Commands : AskedLast(q, conn[c].toIcc) => AskedLast(q, conn'[c].toIcc)
  /\ conn'[c].toPcd \in {conn[c].toPcd, <<>>}
  /\ Replying(c)' => Replying(c) /\ vpicc'.ans = vpicc.ans

\* Everything that is heard on connection c is awaited.
Awaited(c) ==
  /\ \A t \in Threads : Hears(t, c) => IF pc[t] \in {"recv1", "in1"} THEN AwaitsHeader(t, c)
                                       ELSE AwaitsBody(t, c)
  /\ c = client_sock /\ (\A t \in Threads : ~Hears(t, c)) => Quiet(c)

LEMMA AwaitedAll == AnswersInv <=> \A c \in Conns : Awaited(c)
BY DEF AnswersInv, Awaited

LEMMA CallersRest ==
  ASSUME Sound, UNCHANGED <<client_sock, pc, op, seq, need, sock>>
  PROVE /\ \A t \in Threads : Request(t)' = Request(t) /\ Request(t) \in Commands
        /\ \A t \in Threads, c \in Conns : Hears(t, c)' <=> Hears(t, c)
BY SameRequests, CommandsOf DEF Hears, Listens, InRecv

LEMMA CalmIsAwaited ==
  ASSUME Sound, UNCHANGED <<client_sock, pc, op, seq, need, sock>>, NEW c \in Conns, Calm(c)
  PROVE Awaited(c)'
<1>1. Awaited(c)
  BY AwaitedAll DEF Sound, LinkInv
<1>2. \A t \in Threads : Silent(conn[c].toIcc) => AskedLast(Request(t), conn'[c].toIcc)
  BY SilentAsks DEF Calm
<1>3. ASSUME NEW t \in Threads, AwaitsHeader(t, c) PROVE AwaitsHeader(t, c)'
  BY <1>2, <1>3, CallersRest DEF Calm, AwaitsHeader, AnswerTo
<1>4. ASSUME NEW t \in Threads, AwaitsBody(t, c) PROVE AwaitsBody(t, c)'
  BY <1>4, CallersRest DEF Calm, AwaitsBody, BodyTo
<1>5. ASSUME Quiet(c) PROVE Quiet(c)'
  BY <1>5 DEF Calm, Quiet
<1>. QED
  BY <1>1, <1>3, <1>4, <1>5, CallersRest DEF Awaited

LEMMA NothingNewIsCalm ==
  ASSUME NEW c \in Conns, NothingNew(c) PROVE Calm(c)
BY NothingSent, SilentAsks DEF NothingNew, Calm

\* Whoever hears the connection of a card that replies awaits that reply.
LEMMA ReplyIsAwaited ==
  ASSUME Sound, NEW c \in Conns, Replying(c)
  PROVE /\ \A t \in Threads : Hears(t, c) => /\ pc[t] \in {"recv1", "in1"} /\ conn[c].toPcd = <<>>
                                             /\ vpicc.ans.to = Request(t) /\ Silent(conn[c].toIcc)
        /\ ~(c = client_sock /\ \A t \in Threads : ~Hears(t, c))
        /\ conn[c].pcd => c = client_sock
<1>1. Awaited(c)
  BY AwaitedAll DEF Sound, LinkInv
<1>. QED
  BY <1>1 DEF Awaited, AwaitsHeader, AwaitsBody, Quiet, Sound, LinkInv, NetInv, EndsOK

LEMMA AnswerBytes ==
  ASSUME NEW a \in Answers
  PROVE /\ a \in Messages
        /\ Wire(a) \in Seq(Bytes) /\ Len(Wire(a)) = 4 /\ \A i \in 1 .. 4 : Wire(a)[i] = <<a, i>>
<1>1. BodyLen(a) = 2 /\ a \in Messages
  BY BodyBytes
<1>2. Wire(a) = [i \in 1 .. 4 |-> <<a, i>>]
  BY <1>1 DEF Wire
<1>3. \A i \in 1 .. 4 : <<a, i>> \in Bytes
  BY <1>1 DEF Bytes
<1>. QED
  BY <1>1, <1>2, <1>3

\* A reply, or the part of it that was sent, is an answer.
LEMMA RepliesAnswer ==
  ASSUME NEW t \in Threads, NEW a \in Answers, a.to = Request(t), NEW k \in 0 .. 4
  PROVE LET b == Take(Wire(a), k) IN b = <<>> \/ AnswerTo(t, b)
<1>1. PICK w : w = Wire(a) /\ w \in Seq(Bytes) /\ Len(w) = 4 /\ \A i \in 1 .. 4 : w[i] = <<a, i>>
  BY AnswerBytes
<1>2. k \in Nat /\ k <= Len(w)
  <2>1. Len(w) = 4
    BY <1>1
  <2>. QED
    BY <2>1
<1>3. PICK b : b = Take(w, k)
  OBVIOUS
<1>4. b \in Seq(Bytes) /\ Len(b) = k /\ \A i \in 1 .. k : b[i] = w[i]
  BY <1>1, <1>2, <1>3, Taken
<1>5. \A i \in 1 .. k : i \in 1 .. 4
  OBVIOUS
<1>6. \A i \in 1 .. k : b[i] = <<a, i>>
  BY <1>1, <1>4, <1>5
<1>7. ASSUME b # <<>> PROVE AnswerTo(t, b)
  <2>1. k >= 1
    BY <1>4, <1>7, NotEmpty
  <2>2. b[1] = <<a, 1>>
    BY <1>6, <2>1
  <2>. QED
    BY <1>4, <1>6, <1>7, <2>2 DEF AnswerTo
<1>. QED
  BY <1>1, <1>3, <1>7

LEMMA NewAnswerIsAwaited ==
  ASSUME Sound, UNCHANGED <<client_sock, pc, op, seq, need, sock>>, NEW c \in Conns,
         Replying(c), ~Replying(c)', NEW k \in 0 .. 4,
         conn'[c].toPcd = conn[c].toPcd \o Take(Wire(vpicc.ans), k),
         conn'[c].toIcc \in {conn[c].toIcc, <<>>}
  PROVE Awaited(c)'
<1>1. vpicc.ans \in Answers
  BY DEF Replying, Sound, Inv, CardOK
<1>2. ASSUME NEW t \in Threads, Hears(t, c) PROVE pc[t] \in {"recv1", "in1"} /\ AwaitsHeader(t, c)'
  <2>1. /\ pc[t] \in {"recv1", "in1"} /\ conn[c].toPcd = <<>>
        /\ vpicc.ans.to = Request(t) /\ Silent(conn[c].toIcc)
    BY <1>2, ReplyIsAwaited
  <2>2. PICK b : b = Take(Wire(vpicc.ans), k)
    OBVIOUS
  <2>3. b \in Seq(Bytes) /\ (b = <<>> \/ AnswerTo(t, b))
    <3>1. Len(Wire(vpicc.ans)) = 4 /\ Wire(vpicc.ans) \in Seq(Bytes)
      BY <1>1, AnswerBytes
    <3>2. k \in Nat /\ k <= Len(Wire(vpicc.ans))
      BY <3>1
    <3>. QED
      BY <1>1, <2>1, <2>2, <3>1, <3>2, Taken, RepliesAnswer
  <2>4. conn'[c].toPcd = b
    BY <2>1, <2>2, <2>3
  <2>5. Silent(conn'[c].toIcc) /\ AskedLast(Request(t), conn'[c].toIcc)
    BY <2>1, NothingSent, SilentAsks
  <2>6. Request(t)' = Request(t)
    BY CallersRest
  <2>. QED
    BY <2>1, <2>3, <2>4, <2>5, <2>6 DEF AwaitsHeader, AnswerTo
<1>3. ~(c = client_sock /\ \A t \in Threads : ~Hears(t, c))
  BY ReplyIsAwaited
<1>. QED
  BY <1>2, <1>3, CallersRest DEF Awaited

-----------------------------------------------------------------------------
\* The card process ends, or its connection does.

\* All connections of the card are closed; k is what they were before.
LEMMA CardEndsKeepsNet ==
  ASSUME Sound, NEW k \in Networks, CardEnds(k), UNCHANGED <<reversed, open, client_sock>>,
         \A c \in Conns : /\ (k[c].pcd <=> conn[c].pcd) /\ (k[c].icc <=> conn[c].icc)
                          /\ k[c].backlog <=> conn[c].backlog
                          /\ k[c].toPcd = conn[c].toPcd \/ Replying(c)
                          /\ ~conn[c].icc => k[c] = conn[c]
  PROVE /\ NetInv' /\ FramesInv'
        /\ \A c \in Conns : /\ conn'[c].toIcc = <<>> /\ ~Replying(c)'
                            /\ conn'[c].toPcd = k[c].toPcd \/ (~conn[c].pcd /\ conn'[c].toPcd = <<>>)
<1>0. vpicc' = DownCard /\ vpicc'.pc = "down"
  BY CardStates DEF CardEnds
<1>1. \A c \in Conns : conn'[c] = IF k[c].icc THEN CloseIcc(k[c]) ELSE k[c]
  BY DEF CardEnds, IccClosed
<1>2. ASSUME NEW c \in Conns
      PROVE /\ conn'[c].toIcc = <<>> /\ ~conn'[c].icc
            /\ conn'[c].toPcd = k[c].toPcd \/ (~conn[c].pcd /\ conn'[c].toPcd = <<>>)
            /\ conn'[c].pcd <=> conn[c].pcd
            /\ conn'[c].pcd => (conn'[c].backlog <=> conn[c].backlog /\ ~reversed)
            /\ ~conn'[c].pcd => conn'[c] = NoConn
  <2>1. k[c] \in ConnType /\ conn[c] \in ConnType /\ reversed \in BOOLEAN /\ EndsOK(c)
    BY Streams DEF Sound, HostOK, LinkInv, NetInv, Networks
  <2>2. CASE conn[c].icc /\ conn[c].pcd
    <3>1. conn'[c] = CloseIcc(k[c]) /\ k[c].pcd
      BY <1>1, <2>1, <2>2
    <3>. QED
      BY <2>1, <2>2, <3>1, IccClosedFields
  <2>3. CASE conn[c].icc /\ ~conn[c].pcd
    <3>1. conn'[c] = NoConn
      BY <1>1, <2>1, <2>3, IccClosedFields
    <3>. QED
      BY <2>1, <2>3, <3>1, ConnFields
  <2>4. CASE ~conn[c].icc
    <3>1. conn'[c] = conn[c] /\ k[c] = conn[c]
      BY <1>1, <2>1, <2>4
    <3>. QED
      BY <2>1, <2>4, <3>1 DEF EndsOK
  <2>. QED
    BY <2>2, <2>3, <2>4
<1>3. \A c \in Conns : EndsOK(c)'
  <2>. SUFFICES ASSUME NEW c \in Conns PROVE EndsOK(c)'
    OBVIOUS
  <2>1. EndsOK(c) /\ ~Replying(c)'
    BY <1>0 DEF Sound, LinkInv, NetInv, Replying
  <2>2. conn[c].backlog /\ ~reversed => conn'[c].toPcd = <<>>
    BY <1>2, <2>1 DEF EndsOK
  <2>. QED
    BY <1>2, <2>1, <2>2, ConnFields DEF EndsOK
<1>4. NetInv'
  BY <1>0, <1>3 DEF Sound, LinkInv, NetInv, AtWork
<1>5. FramesInv'
  BY <1>0, <1>2, NothingSent DEF FramesInv
<1>. QED
  BY <1>0, <1>2, <1>4, <1>5 DEF Replying

LEMMA CardEndsStep ==
  ASSUME Sound, CardEnds(conn), UNCHANGED <<reversed, ctxVars, callVars>> PROVE LinkInv'
<1>0. UNCHANGED <<open, client_sock, pc, op, seq, need, sock>>
  BY DEF ctxVars, callVars
<1>1. /\ NetInv' /\ FramesInv'
      /\ \A c \in Conns : conn'[c].toIcc = <<>> /\ conn'[c].toPcd \in {conn[c].toPcd, <<>>} /\ ~Replying(c)'
  BY <1>0, CardEndsKeepsNet DEF Sound, Inv, NetOK
<1>2. AnswersInv'
  <2>1. \A c \in Conns : NothingNew(c)
    BY <1>1 DEF NothingNew
  <2>2. \A c \in Conns : Awaited(c)'
    BY <1>0, <2>1, NothingNewIsCalm, CalmIsAwaited
  <2>. QED
    BY <2>2 DEF AnswersInv, Awaited
<1>. QED
  BY <1>1, <1>2, GotUnchanged DEF LinkInv

LEMMA CardDiesStep ==
  ASSUME Sound, CardDies, reversed' = reversed PROVE LinkInv'
<1>0. UNCHANGED <<reversed, ctxVars, callVars>> /\ UNCHANGED <<open, client_sock, pc, op, seq, need, sock>>
  BY DEF CardDies, ctxVars, callVars
<1>1. CASE CardEnds(conn)
  BY <1>0, <1>1, CardEndsStep
<1>2. ASSUME vpicc.pc = "reply", conn[vpicc.conn].pcd, NEW n \in Cuts,
             CardEnds([conn EXCEPT ![vpicc.conn].toPcd = @ \o Take(Wire(vpicc.ans), n)])
      PROVE LinkInv'
  <2>0. PICK v \in Conns : v = vpicc.conn
    BY <1>2 DEF Sound, Inv, CardOK
  <2>. DEFINE b == Take(Wire(vpicc.ans), n)
  <2>. DEFINE k == [conn EXCEPT ![v].toPcd = @ \o b]
  <2>1. Replying(v) /\ conn[v].icc /\ vpicc.ans \in Answers /\ n \in 0 .. 4
    BY <1>2, <2>0, LinkAssumption DEF Replying, Sound, Inv, CardOK, LinkInv, NetInv, AtWork
  <2>2. b \in Seq(Bytes)
    <3>1. Wire(vpicc.ans) \in Seq(Bytes) /\ Len(Wire(vpicc.ans)) = 4
      BY <2>1, AnswerBytes
    <3>2. n \in Nat /\ n <= Len(Wire(vpicc.ans))
      BY <2>1, <3>1
    <3>. QED
      BY <3>1, <3>2, Taken
  <2>3. conn \in Networks /\ \A c \in Conns : conn[c] \in ConnType /\ conn[c].toPcd \in Seq(Bytes)
    BY Streams DEF Sound, Inv, NetOK
  <2>. HIDE DEF b
  <2>4. conn[v].toPcd \o b \in Seq(Bytes)
    BY <2>1, <2>2, <2>3
  <2>5. /\ k \in Networks
        /\ k[v] = [conn[v] EXCEPT !.toPcd = conn[v].toPcd \o b]
        /\ \A c \in Conns : c # v => k[c] = conn[c]
    <3>1. [conn[v] EXCEPT !.toPcd = conn[v].toPcd \o b] \in ConnType
      BY <2>1, <2>3, <2>4, ConnsTyped
    <3>. QED
      BY <2>1, <2>3, <3>1 DEF Networks
  <2>6. /\ (k[v].pcd <=> conn[v].pcd) /\ (k[v].icc <=> conn[v].icc)
        /\ (k[v].backlog <=> conn[v].backlog) /\ k[v].toPcd = conn[v].toPcd \o b
    BY <2>1, <2>3, <2>5 DEF ConnType
  <2>7. CardEnds(k)
    BY <1>2, <2>0 DEF b
  <2>. HIDE DEF k
  <2>8. \A c \in Conns : /\ (k[c].pcd <=> conn[c].pcd) /\ (k[c].icc <=> conn[c].icc)
                         /\ k[c].backlog <=> conn[c].backlog
                         /\ k[c].toPcd = conn[c].toPcd \/ Replying(c)
                         /\ ~conn[c].icc => k[c] = conn[c]
    BY <2>1, <2>5, <2>6
  <2>9. /\ NetInv' /\ FramesInv'
        /\ \A c \in Conns : /\ conn'[c].toIcc = <<>> /\ ~Replying(c)'
                            /\ conn'[c].toPcd = k[c].toPcd \/ (~conn[c].pcd /\ conn'[c].toPcd = <<>>)
    BY <1>0, <2>5, <2>7, <2>8, CardEndsKeepsNet
  <2>10. \A c \in Conns : Awaited(c)'
    <3>1. ASSUME NEW c \in Conns, c # v PROVE Awaited(c)'
      <4>1. NothingNew(c)
        BY <2>5, <2>9, <3>1 DEF NothingNew
      <4>. QED
        BY <1>0, <4>1, NothingNewIsCalm, CalmIsAwaited
    <3>2. Awaited(v)'
      <4>1. conn'[v].toPcd = conn[v].toPcd \o Take(Wire(vpicc.ans), n)
        BY <1>2, <2>0, <2>6, <2>9 DEF b
      <4>. QED
        BY <1>0, <2>1, <2>9, <4>1, NewAnswerIsAwaited
    <3>. QED
      BY <3>1, <3>2
  <2>11. AnswersInv'
    BY <2>10 DEF AnswersInv, Awaited
  <2>. QED
    BY <1>0, <2>9, <2>11, GotUnchanged DEF LinkInv
<1>. QED
  BY <1>1, <1>2 DEF CardDies

\* A card process without a connection, in reversed mode.
LEMMA CardWaits ==
  ASSUME Sound, reversed, vpicc' = CardWith(INVALID_SOCKET, "accept"), UNCHANGED <<reversed, ctxVars, callVars>>,
         \/ UNCHANGED conn /\ vpicc.pc = "down"
         \/ AtWork /\ conn' = [conn EXCEPT ![vpicc.conn] = CloseIcc(@)]
  PROVE LinkInv'
<1>0. UNCHANGED <<open, client_sock, pc, op, seq, need, sock>> /\ vpicc'.pc = "accept"
  BY CardStates DEF ctxVars, callVars
<1>1. ASSUME NEW c \in Conns
      PROVE \/ conn'[c] = conn[c] /\ (~InBody(c))
            \/ /\ conn[c].icc /\ ~conn'[c].icc /\ conn'[c].toIcc = <<>>
               /\ conn'[c].toPcd \in {conn[c].toPcd, <<>>}
               /\ conn'[c].pcd <=> conn[c].pcd
               /\ ~conn'[c].backlog
               /\ ~conn'[c].pcd => conn'[c] = NoConn
  <2>0. conn[c] \in ConnType /\ reversed \in BOOLEAN
    BY Streams DEF Sound
  <2>1. CASE UNCHANGED conn /\ vpicc.pc = "down"
    BY <2>1 DEF InBody
  <2>2. CASE AtWork /\ conn' = [conn EXCEPT ![vpicc.conn] = CloseIcc(@)]
    <3>1. CASE c = vpicc.conn
      <4>1. conn'[c] = CloseIcc(conn[c]) /\ conn[c].icc
        BY <2>2, <3>1 DEF Sound, Inv, NetOK, Networks, LinkInv, NetInv
      <4>2. CASE conn[c].pcd
        BY <2>0, <4>1, <4>2, IccClosedFields
      <4>3. CASE ~conn[c].pcd
        <5>1. conn'[c] = NoConn
          BY <2>0, <4>1, <4>3, IccClosedFields
        <5>. QED
          BY <4>1, <4>3, <5>1, ConnFields
      <4>. QED
        BY <4>2, <4>3
    <3>2. CASE c # vpicc.conn
      BY <2>2, <3>2 DEF Sound, Inv, NetOK, Networks, InBody
    <3>. QED
      BY <3>1, <3>2
  <2>. QED
    BY <2>1, <2>2
<1>2. \A c \in Conns : EndsOK(c)'
  BY <1>0, <1>1, ConnFields DEF Sound, LinkInv, NetInv, EndsOK, Replying
<1>3. NetInv'
  BY <1>0, <1>2 DEF Sound, LinkInv, NetInv, AtWork
<1>4. FramesInv'
  BY <1>0, <1>1, NothingSent DEF Sound, LinkInv, FramesInv, InBody
<1>5. AnswersInv'
  <2>1. \A c \in Conns : NothingNew(c)
    BY <1>0, <1>1 DEF NothingNew, Replying
  <2>2. \A c \in Conns : Awaited(c)'
    BY <1>0, <2>1, NothingNewIsCalm, CalmIsAwaited
  <2>. QED
    BY <2>2 DEF AnswersInv, Awaited
<1>. QED
  BY <1>3, <1>4, <1>5, GotUnchanged DEF LinkInv

LEMMA HangupStep ==
  ASSUME Sound, AtWork, Hangup, UNCHANGED <<reversed, ctxVars, callVars>> PROVE LinkInv'
BY CardEndsStep, CardWaits DEF Hangup, Disconnected

LEMMA CardStartsStep ==
  ASSUME Sound, CardStarts, reversed' = reversed PROVE LinkInv'
<1>0. /\ UNCHANGED <<reversed, ctxVars, callVars>> /\ UNCHANGED <<open, client_sock, pc, op, seq, need, sock>>
      /\ vpicc.pc = "down"
  BY DEF CardStarts, ctxVars, callVars
<1>1. CASE reversed
  BY <1>0, <1>1, CardWaits DEF CardStarts
<1>2. ASSUME ~reversed, NEW c \in FreeConns, conn' = [conn EXCEPT ![c] = NewConn],
             vpicc' = CardWith(c, "hdr")
      PROVE LinkInv'
  <2>1. /\ c \in Conns /\ conn[c] = NoConn /\ conn'[c] = NewConn
        /\ \A d \in Conns : d # c => conn'[d] = conn[d]
        /\ vpicc'.pc = "hdr" /\ vpicc'.conn = c
    BY <1>2, CardStates DEF FreeConns, Sound, Inv, NetOK, Networks
  <2>2. \A d \in Conns : EndsOK(d)'
    BY <1>0, <1>2, <2>1, ConnFields DEF Sound, LinkInv, NetInv, EndsOK, Replying
  <2>3. NetInv'
    BY <1>0, <1>2, <2>1, <2>2, ConnFields DEF Sound, LinkInv, NetInv, AtWork
  <2>4. FramesInv'
    BY <1>0, <2>1, ConnFields, NothingSent DEF Sound, LinkInv, FramesInv, InBody
  <2>5. \A d \in Conns : NothingNew(d)
    BY <2>1, ConnFields DEF NothingNew, Replying
  <2>6. AnswersInv'
    <3>1. \A d \in Conns : Awaited(d)'
      BY <1>0, <2>5, NothingNewIsCalm, CalmIsAwaited
    <3>. QED
      BY <3>1 DEF AnswersInv, Awaited
  <2>. QED
    BY <1>0, <2>3, <2>4, <2>6, GotUnchanged DEF LinkInv
<1>. QED
  BY <1>1, <1>2 DEF CardStarts

LEMMA CardAcceptsStep ==
  ASSUME Sound, CardAccepts, reversed' = reversed PROVE LinkInv'
<1>0. /\ UNCHANGED <<reversed, ctxVars, callVars>> /\ UNCHANGED <<open, client_sock, pc, op, seq, need, sock>>
      /\ vpicc.pc = "accept" /\ reversed
  BY DEF CardAccepts, ctxVars, callVars, Sound, LinkInv, NetInv
<1>1. PICK c \in Backlog : conn' = [conn EXCEPT ![c].backlog = FALSE] /\ vpicc' = CardWith(c, "hdr")
  BY DEF CardAccepts
<1>2. /\ c \in Conns /\ conn[c].backlog /\ conn[c].icc
      /\ \A d \in Conns : d # c => conn'[d] = conn[d]
      /\ (conn'[c].pcd <=> conn[c].pcd) /\ (conn'[c].icc <=> conn[c].icc) /\ ~conn'[c].backlog
      /\ conn'[c].toIcc = conn[c].toIcc /\ conn'[c].toPcd = conn[c].toPcd
      /\ vpicc'.pc = "hdr" /\ vpicc'.conn = c
  BY <1>0, <1>1, CardStates DEF Backlog, Sound, Inv, NetOK, Networks, ConnType, LinkInv, NetInv, EndsOK
<1>3. \A d \in Conns : EndsOK(d)'
  BY <1>0, <1>2, ConnFields DEF Sound, LinkInv, NetInv, EndsOK, Replying
<1>4. NetInv'
  BY <1>0, <1>2, <1>3 DEF Sound, LinkInv, NetInv, AtWork
<1>5. FramesInv'
  BY <1>0, <1>2 DEF Sound, LinkInv, FramesInv, InBody
<1>6. \A d \in Conns : NothingNew(d)
  BY <1>2 DEF NothingNew, Replying
<1>7. AnswersInv'
  <2>1. \A d \in Conns : Awaited(d)'
    BY <1>0, <1>6, NothingNewIsCalm, CalmIsAwaited
  <2>. QED
    BY <2>1 DEF AnswersInv, Awaited
<1>. QED
  BY <1>0, <1>4, <1>5, <1>7, GotUnchanged DEF LinkInv

LEMMA CardRepliesStep ==
  ASSUME Sound, CardReplies, reversed' = reversed PROVE LinkInv'
<1>0. /\ UNCHANGED <<reversed, ctxVars, callVars>> /\ UNCHANGED <<open, client_sock, pc, op, seq, need, sock>>
      /\ vpicc.pc = "reply"
  BY DEF CardReplies, ctxVars, callVars
<1>1. CASE CardEnds(conn)
  BY <1>0, <1>1, CardEndsStep
<1>2. PICK c \in Conns : c = vpicc.conn /\ Replying(c) /\ conn[c].icc /\ vpicc.ans \in Answers
  BY <1>0 DEF Replying, Sound, Inv, CardOK, LinkInv, NetInv, AtWork
<1>3. ASSUME vpicc' = [vpicc EXCEPT !.pc = "hdr", !.ans = NoMsg]
      PROVE vpicc'.pc = "hdr" /\ vpicc'.conn = c
  BY <1>2, <1>3 DEF Sound, Inv, IccOK, CardType
<1>4. ASSUME vpicc'.pc = "hdr", vpicc'.conn = c,
             \A d \in Conns : /\ (conn'[d].pcd <=> conn[d].pcd) /\ (conn'[d].icc <=> conn[d].icc)
                              /\ (conn'[d].backlog <=> conn[d].backlog) /\ conn'[d].toIcc = conn[d].toIcc
                              /\ d # c => conn'[d] = conn[d],
             Awaited(c)'
      PROVE LinkInv'
  <2>1. \A d \in Conns : EndsOK(d)'
    BY <1>0, <1>2, <1>4 DEF Sound, LinkInv, NetInv, EndsOK, Replying
  <2>2. NetInv'
    BY <1>0, <1>2, <1>4, <2>1 DEF Sound, LinkInv, NetInv, AtWork
  <2>3. FramesInv'
    BY <1>0, <1>4 DEF Sound, LinkInv, FramesInv, InBody
  <2>4. AnswersInv'
    <3>1. ASSUME NEW d \in Conns, d # c PROVE Awaited(d)'
      <4>1. NothingNew(d)
        BY <1>4, <3>1 DEF NothingNew, Replying
      <4>. QED
        BY <1>0, <4>1, NothingNewIsCalm, CalmIsAwaited
    <3>. QED
      BY <1>4, <3>1 DEF AnswersInv, Awaited
  <2>. QED
    BY <1>0, <2>2, <2>3, <2>4, GotUnchanged DEF LinkInv
<1>5. conn \in Networks /\ conn[c] \in ConnType
  BY Streams DEF Sound, Inv, NetOK
<1>6. CASE conn' = [conn EXCEPT ![c].rst = TRUE] /\ vpicc' = [vpicc EXCEPT !.pc = "hdr", !.ans = NoMsg]
  <2>1. \A d \in Conns : /\ (conn'[d].pcd <=> conn[d].pcd) /\ (conn'[d].icc <=> conn[d].icc)
                         /\ (conn'[d].backlog <=> conn[d].backlog) /\ conn'[d].toIcc = conn[d].toIcc
                         /\ d # c => conn'[d] = conn[d]
                         /\ conn'[d].toPcd = conn[d].toPcd
    BY <1>5, <1>6 DEF Networks, ConnType
  <2>2. NothingNew(c)
    BY <1>3, <1>6, <2>1 DEF NothingNew, Replying
  <2>3. Awaited(c)'
    BY <1>0, <2>2, NothingNewIsCalm, CalmIsAwaited
  <2>. QED
    BY <1>3, <1>4, <1>6, <2>1, <2>3
<1>7. CASE /\ conn' = [conn EXCEPT ![c].toPcd = @ \o Wire(vpicc.ans)]
           /\ vpicc' = [vpicc EXCEPT !.pc = "hdr", !.ans = NoMsg]
  <2>1. /\ \A d \in Conns : /\ (conn'[d].pcd <=> conn[d].pcd) /\ (conn'[d].icc <=> conn[d].icc)
                            /\ (conn'[d].backlog <=> conn[d].backlog) /\ conn'[d].toIcc = conn[d].toIcc
                            /\ d # c => conn'[d] = conn[d]
        /\ conn'[c].toPcd = conn[c].toPcd \o Wire(vpicc.ans)
    BY <1>5, <1>7 DEF Networks, ConnType
  <2>2. Take(Wire(vpicc.ans), 4) = Wire(vpicc.ans)
    <3>1. PICK w : w = Wire(vpicc.ans) /\ w \in Seq(Bytes) /\ Len(w) = 4
      BY <1>2, AnswerBytes
    <3>2. 4 \in Nat /\ 4 <= Len(w)
      BY <3>1
    <3>3. Take(w, 4) \in Seq(Bytes) /\ Len(Take(w, 4)) = 4 /\ \A i \in 1 .. 4 : Take(w, 4)[i] = w[i]
      BY <3>1, <3>2, Taken
    <3>. QED
      BY <3>1, <3>3
  <2>3. Awaited(c)'
    <3>1. ~Replying(c)' /\ 4 \in 0 .. 4
      BY <1>3, <1>7 DEF Replying
    <3>. QED
      BY <1>0, <1>2, <2>1, <2>2, <3>1, NewAnswerIsAwaited
  <2>. QED
    BY <1>3, <1>4, <1>7, <2>1, <2>3
<1>. QED
  BY <1>1, <1>2, <1>6, <1>7 DEF CardReplies

\* A recv() of the card returns what is asked for, if it has arrived.
LEMMA WholeCount ==
  ASSUME ~Short, NEW s \in Seq(Bytes), s = Arrived, NEW n \in Nat, n <= Len(s)
  PROVE RecvCounts(n) = {n}
<1>1. Len(s) \in Nat
  BY NotEmpty
<1>2. Least(n, Len(s)) = n
  BY <1>1 DEF Least
<1>. QED
  BY <1>2 DEF RecvCounts

\* Bytes are taken from what the card of connection c reads.
LEMMA ConsumedEffect ==
  ASSUME Sound, NEW c \in Conns, c = vpicc.conn, NEW k \in Nat, k <= Len(conn[c].toIcc), CardConsumes(k)
  PROVE /\ conn'[c].toIcc = Drop(conn[c].toIcc, k)
        /\ InOrder(conn'[c].toIcc)
        /\ \A d \in Conns : /\ (conn'[d].pcd <=> conn[d].pcd) /\ (conn'[d].icc <=> conn[d].icc)
                            /\ (conn'[d].backlog <=> conn[d].backlog) /\ conn'[d].toPcd = conn[d].toPcd
                            /\ d # c => conn'[d] = conn[d]
<1>1. conn \in Networks /\ conn[c] \in ConnType /\ conn[c].toIcc \in Seq(Bytes)
  BY Streams DEF Sound, Inv, NetOK
<1>2. InOrder(Drop(conn[c].toIcc, k))
  BY <1>1, OrderDropped DEF Sound, LinkInv, FramesInv
<1>3. conn' = [conn EXCEPT ![c].toIcc = Drop(conn[c].toIcc, k)]
  BY DEF CardConsumes
<1>4. PICK s : s = Drop(conn[c].toIcc, k)
  OBVIOUS
<1>5. conn'[c].toIcc = s /\ \A d \in Conns :
         /\ (conn'[d].pcd <=> conn[d].pcd) /\ (conn'[d].icc <=> conn[d].icc)
         /\ (conn'[d].backlog <=> conn[d].backlog) /\ conn'[d].toPcd = conn[d].toPcd
         /\ d # c => conn'[d] = conn[d]
  BY <1>1, <1>3, <1>4 DEF Networks, ConnType
<1>. QED
  BY <1>2, <1>4, <1>5

\* The connection of a card that has something to read is in use.
LEMMA ConsumedKeepsEnds ==
  ASSUME Sound, NEW c \in Conns, c = vpicc.conn, AtWork, AtWork', vpicc'.conn = c, conn[c].toIcc # <<>>,
         UNCHANGED <<reversed, open, client_sock>>,
         \A d \in Conns : /\ (conn'[d].pcd <=> conn[d].pcd) /\ (conn'[d].icc <=> conn[d].icc)
                          /\ (conn'[d].backlog <=> conn[d].backlog) /\ conn'[d].toPcd = conn[d].toPcd
                          /\ d # c => conn'[d] = conn[d]
  PROVE NetInv'
<1>1. conn[c].icc /\ ~(conn[c].backlog /\ ~reversed)
  BY DEF Sound, LinkInv, NetInv, EndsOK
<1>2. ASSUME NEW d \in Conns PROVE EndsOK(d)'
  <2>1. CASE d = c
    BY <1>1, <2>1 DEF Sound, LinkInv, NetInv, EndsOK
  <2>2. CASE d # c
    <3>1. ~Replying(d)'
      BY <2>2 DEF Replying
    <3>. QED
      BY <2>2, <3>1 DEF Sound, LinkInv, NetInv, EndsOK
  <2>. QED
    BY <2>1, <2>2
<1>. QED
  BY <1>1, <1>2 DEF Sound, LinkInv, NetInv, AtWork

LEMMA CardRecvLengthStep ==
  ASSUME ~Short, Sound, CardRecvLength, reversed' = reversed PROVE LinkInv'
<1>0. /\ UNCHANGED <<reversed, ctxVars, callVars>>
      /\ UNCHANGED <<reversed, open, client_sock>> /\ UNCHANGED <<client_sock, pc, op, seq, need, sock>>
      /\ vpicc.pc = "hdr" /\ AtWork
  BY DEF CardRecvLength, ctxVars, callVars, AtWork
<1>1. CASE Hangup
  BY <1>0, <1>1, HangupStep
<1>2. CASE ~Hangup
  <2>1. PICK c \in Conns : c = vpicc.conn
    BY <1>0 DEF Sound, Inv, CardOK
  <2>2. PICK s \in Seq(Bytes) : s = conn[c].toIcc /\ s = Arrived /\ s # <<>> /\ InOrder(s) /\ s[1][2] = 1
    BY <1>0, <1>2, <2>1, Streams DEF CardRecvLength, Arrived, Sound, LinkInv, FramesInv, InBody
  <2>3. PICK m \in Commands : /\ Len(s) >= BodyLen(m) + 2 /\ Lengths(Take(s, 2)) = {BodyLen(m)}
                              /\ s[3] = <<m, 3>>
    BY <2>2, FirstHeader
  <2>4. PICK n \in Nat : n = Len(s) /\ n >= 3
    <3>1. PICK l, j \in Nat : l = Len(s) /\ j = BodyLen(m) /\ j >= 1
      BY BodyLens, NotEmpty
    <3>2. l >= 3
      BY <2>3, <3>1
    <3>. QED
      BY <3>1, <3>2
  <2>5. RecvCounts(2) = {2}
    <3>1. 2 \in Nat /\ 2 <= Len(s)
      BY <2>4
    <3>. QED
      BY <2>2, <3>1, WholeCount
  <2>6. BodyLen(m) \in {1, 2} /\ BodyLen(m) # 0
    BY BodyLens
  <2>7. CardConsumes(2) /\ vpicc' = [vpicc EXCEPT !.pc = "body", !.size = BodyLen(m)]
    <3>1. Lengths(Take(Arrived, 2)) = {BodyLen(m)}
      BY <2>2, <2>3
    <3>2. PICK k \in RecvCounts(2) :
            IF k = 1 THEN CardEnds(conn)
            ELSE /\ CardConsumes(2)
                 /\ \E size \in Lengths(Take(Arrived, 2)) :
                      vpicc' = [vpicc EXCEPT !.pc = IF size = 0 THEN "hdr" ELSE "body", !.size = size]
      BY <1>2 DEF CardRecvLength
    <3>3. k # 1
      BY <2>5
    <3>4. CardConsumes(2)
      BY <3>2, <3>3
    <3>5. PICK size \in Lengths(Take(Arrived, 2)) :
            vpicc' = [vpicc EXCEPT !.pc = IF size = 0 THEN "hdr" ELSE "body", !.size = size]
      BY <3>2, <3>3
    <3>6. size = BodyLen(m)
      BY <3>1
    <3>. QED
      BY <2>6, <3>4, <3>5, <3>6
  <2>8. vpicc'.pc = "body" /\ vpicc'.conn = c /\ vpicc'.size = BodyLen(m) /\ AtWork'
    BY <2>1, <2>7 DEF Sound, Inv, IccOK, CardType, AtWork
  <2>9. 2 \in Nat /\ 2 <= Len(conn[c].toIcc)
    BY <2>2, <2>4
  <2>10. /\ conn'[c].toIcc = Drop(s, 2) /\ InOrder(conn'[c].toIcc)
         /\ \A d \in Conns : /\ (conn'[d].pcd <=> conn[d].pcd) /\ (conn'[d].icc <=> conn[d].icc)
                             /\ (conn'[d].backlog <=> conn[d].backlog) /\ conn'[d].toPcd = conn[d].toPcd
                             /\ d # c => conn'[d] = conn[d]
    <3>1. CardConsumes(2) /\ 2 \in Nat /\ 2 <= Len(conn[c].toIcc)
      BY <2>7, <2>9
    <3>2. PICK k \in Nat : k = 2 /\ k <= Len(conn[c].toIcc) /\ CardConsumes(k)
      BY <3>1
    <3>3. /\ conn'[c].toIcc = Drop(conn[c].toIcc, k) /\ InOrder(conn'[c].toIcc)
          /\ \A d \in Conns : /\ (conn'[d].pcd <=> conn[d].pcd) /\ (conn'[d].icc <=> conn[d].icc)
                              /\ (conn'[d].backlog <=> conn[d].backlog) /\ conn'[d].toPcd = conn[d].toPcd
                              /\ d # c => conn'[d] = conn[d]
      BY <2>1, <3>2, ConsumedEffect
    <3>. QED
      BY <2>2, <3>2, <3>3
  <2>11. Drop(s, 2) # <<>> /\ Drop(s, 2)[1] = <<m, 3>>
    <3>1. Drop(s, 2) \in Seq(Bytes) /\ Len(Drop(s, 2)) = n - 2 /\ \A i \in 1 .. n - 2 : Drop(s, 2)[i] = s[i + 2]
      BY <2>2, <2>4, <2>9, Dropped
    <3>2. n - 2 >= 1 /\ 1 \in 1 .. n - 2
      BY <2>4
    <3>3. Drop(s, 2)[1] = s[1 + 2]
      BY <3>1, <3>2
    <3>4. Drop(s, 2) # <<>>
      BY <3>1, <3>2
    <3>. QED
      BY <2>3, <3>3, <3>4
  <2>12. NetInv'
    BY <1>0, <2>1, <2>2, <2>8, <2>10, ConsumedKeepsEnds
  <2>13. FramesInv'
    BY <1>0, <2>8, <2>10, <2>11 DEF Sound, LinkInv, FramesInv, InBody
  <2>14. ASSUME NEW d \in Conns PROVE Awaited(d)'
    <3>1. Calm(d)
      <4>1. CASE d = c
        <5>1. Silent(s) => Silent(Drop(s, 2))
          BY <2>2, <2>9, AskedDropped
        <5>2. \A q \in Commands : AskedLast(q, s) => AskedLast(q, Drop(s, 2))
          BY <2>2, <2>9, AskedDropped
        <5>. QED
          BY <2>2, <2>8, <2>10, <4>1, <5>1, <5>2 DEF Calm, Replying
      <4>2. CASE d # c
        BY <2>8, <2>10, <4>2 DEF Calm, Replying
      <4>. QED
        BY <4>1, <4>2
    <3>. QED
      BY <1>0, <3>1, CalmIsAwaited
  <2>15. AnswersInv'
    BY <2>14 DEF AnswersInv, Awaited
  <2>. QED
    BY <1>0, <2>12, <2>13, <2>15, GotUnchanged DEF LinkInv
<1>. QED
  BY <1>1, <1>2

\* The card runs a command: it answers those that ask.
LEMMA CommandEffect ==
  ASSUME Sound, NEW m \in Commands, AtWork,
         IF BodyLen(m) = 1 THEN DoControl(m) ELSE DoApdu(m)
  PROVE /\ vpicc'.conn = vpicc.conn /\ AtWork'
        /\ ~Asks(m) => vpicc'.pc = "hdr"
        /\ Asks(m) => vpicc'.pc = "reply" /\ vpicc'.ans.to = m
<1>1. m # NoMsg /\ m.kind \in CommandKinds
  BY LinkAssumption DEF Messages, Commands
<1>2. BodyLen(m) = 1 <=> m.kind \in ControlKinds
  BY DEF BodyLen
<1>3. \A a : ToReply(a) => vpicc'.pc = "reply" /\ vpicc'.conn = vpicc.conn /\ vpicc'.ans = a
  BY DEF ToReply, Sound, Inv, IccOK, CardType
<1>4. NoReply => vpicc'.pc = "hdr" /\ vpicc'.conn = vpicc.conn
  BY DEF NoReply, Sound, Inv, IccOK, CardType
<1>5. \A kind, pw : Answer(kind, m, pw).to = m
  BY DEF Answer
<1>6. CASE BodyLen(m) = 1
  <2>1. Controls(m) = {m.kind} /\ DoControl(m)
    BY <1>1, <1>6 DEF Controls
  <2>. QED
    BY <1>2, <1>3, <1>4, <1>5, <1>6, <2>1 DEF DoControl, Asks, AtWork, ControlKinds
<1>7. CASE BodyLen(m) # 1
  <2>1. ToReply(Answer("R-APDU", m, NoMsg)) /\ m.kind = "APDU"
    BY <1>1, <1>2, <1>7 DEF DoApdu, CommandKinds
  <2>. QED
    BY <1>3, <1>5, <2>1 DEF Asks, AtWork
<1>. QED
  BY <1>6, <1>7

\* What CardRecvBody does when no connection ends.
LEMMA CommandReceived ==
  ASSUME ~Short, Sound, CardRecvBody, ~Hangup
  PROVE \E m \in Commands, c \in Conns :
          /\ c = vpicc.conn /\ conn[c].toIcc # <<>>
          /\ conn[c].toIcc[1][1] = m /\ conn[c].toIcc[1][2] = 3
          /\ vpicc.size = BodyLen(m) /\ BodyLen(m) <= Len(conn[c].toIcc)
          /\ CardConsumes(BodyLen(m))
          /\ IF BodyLen(m) = 1 THEN DoControl(m) ELSE DoApdu(m)
<1>1. PICK c \in Conns : c = vpicc.conn
  BY DEF CardRecvBody, Sound, Inv, CardOK
<1>2. PICK s \in Seq(Bytes) : /\ s = conn[c].toIcc /\ s = Arrived /\ s # <<>> /\ InOrder(s) /\ s[1][2] = 3
                              /\ vpicc.size = BodyLen(s[1][1])
  BY <1>1, Streams DEF CardRecvBody, Arrived, Sound, LinkInv, FramesInv, InBody
<1>3. PICK m \in Commands : /\ m = s[1][1] /\ Len(s) >= BodyLen(m)
                            /\ Meant(Take(s, BodyLen(m))) = m
  BY <1>2, FirstBody
<1>4. PICK n \in Nat : n = BodyLen(m) /\ n <= Len(s)
  <2>1. PICK l, j \in Nat : l = Len(s) /\ j = BodyLen(m)
    BY BodyLens, NotEmpty
  <2>2. j <= l
    BY <1>3, <2>1
  <2>. QED
    BY <2>1, <2>2
<1>5. RecvCounts(n) = {n} /\ vpicc.size = n
  BY <1>2, <1>3, <1>4, WholeCount
<1>6. CardConsumes(n) /\ IF n = 1 THEN DoControl(m) ELSE DoApdu(m)
  BY <1>2, <1>3, <1>4, <1>5 DEF CardRecvBody
<1>. QED
  BY <1>1, <1>2, <1>3, <1>4, <1>6

LEMMA CardRecvBodyStep ==
  ASSUME ~Short, Sound, CardRecvBody, reversed' = reversed PROVE LinkInv'
<1>0. /\ UNCHANGED <<reversed, ctxVars, callVars>>
      /\ UNCHANGED <<reversed, open, client_sock>> /\ UNCHANGED <<client_sock, pc, op, seq, need, sock>>
      /\ vpicc.pc = "body" /\ AtWork
  BY DEF CardRecvBody, ctxVars, callVars, AtWork
<1>1. CASE Hangup
  BY <1>0, <1>1, HangupStep
<1>2. CASE ~Hangup
  <2>1. PICK m \in Commands, c \in Conns :
          /\ c = vpicc.conn /\ conn[c].toIcc # <<>>
          /\ conn[c].toIcc[1][1] = m /\ conn[c].toIcc[1][2] = 3
          /\ vpicc.size = BodyLen(m) /\ BodyLen(m) <= Len(conn[c].toIcc)
          /\ CardConsumes(BodyLen(m))
          /\ IF BodyLen(m) = 1 THEN DoControl(m) ELSE DoApdu(m)
    BY <1>2, CommandReceived
  <2>2. PICK s \in Seq(Bytes) : s = conn[c].toIcc /\ InOrder(s)
    BY Streams DEF Sound, LinkInv, FramesInv
  <2>3. PICK k \in Nat : k = BodyLen(m) /\ k <= Len(s)
    <3>1. BodyLen(m) \in Nat
      BY BodyLens
    <3>. QED
      BY <2>1, <2>2, <3>1
  <2>4. /\ vpicc'.conn = c /\ AtWork'
        /\ ~Asks(m) => vpicc'.pc = "hdr"
        /\ Asks(m) => vpicc'.pc = "reply" /\ vpicc'.ans.to = m
    BY <1>0, <2>1, CommandEffect
  <2>5. /\ conn'[c].toIcc = Drop(s, k) /\ InOrder(conn'[c].toIcc)
        /\ \A d \in Conns : /\ (conn'[d].pcd <=> conn[d].pcd) /\ (conn'[d].icc <=> conn[d].icc)
                            /\ (conn'[d].backlog <=> conn[d].backlog) /\ conn'[d].toPcd = conn[d].toPcd
                            /\ d # c => conn'[d] = conn[d]
    BY <2>1, <2>2, <2>3, ConsumedEffect
  <2>6. NetInv'
    BY <1>0, <2>1, <2>4, <2>5, ConsumedKeepsEnds
  <2>7. Drop(s, k) # <<>> => Drop(s, k)[1][2] = 1
    <3>. SUFFICES ASSUME Drop(s, k) # <<>> PROVE Drop(s, k)[1][2] = 1
      OBVIOUS
    <3>1. PICK n \in Nat : n = Len(s)
      BY NotEmpty
    <3>2. /\ Drop(s, k) \in Seq(Bytes) /\ Len(Drop(s, k)) = n - k
          /\ \A i \in 1 .. n - k : Drop(s, k)[i] = s[i + k]
      BY <2>3, <3>1, Dropped
    <3>3. n - k >= 1 /\ 1 \in 1 .. n - k
      BY <3>1, <3>2, NotEmpty
    <3>4. Drop(s, k)[1] = s[1 + k]
      BY <3>2, <3>3
    <3>5. s[k + 1][2] = 1
      <4>1. Len(s) > BodyLen(m) => s[BodyLen(m) + 1][2] = 1
        BY <2>1, <2>2, FirstBody
      <4>2. n > k
        BY <3>3
      <4>. QED
        BY <2>3, <3>1, <4>1, <4>2
    <3>6. 1 + k = k + 1
      OBVIOUS
    <3>. QED
      BY <3>4, <3>5, <3>6
  <2>8. FramesInv'
    <3>1. vpicc'.pc # "body"
      BY <2>4
    <3>. QED
      BY <1>0, <2>1, <2>5, <2>7, <3>1 DEF Sound, LinkInv, FramesInv, InBody
  <2>9. /\ Silent(s) => Silent(Drop(s, k))
        /\ \A q \in Commands : AskedLast(q, s) => AskedLast(q, Drop(s, k))
    BY <2>3, AskedDropped
  <2>10. ASSUME NEW d \in Conns, d # c PROVE Awaited(d)'
    <3>1. Calm(d)
      BY <2>4, <2>5, <2>10 DEF Calm, Replying
    <3>. QED
      BY <1>0, <3>1, CalmIsAwaited
  <2>11. CASE ~Asks(m)
    <3>1. Calm(c)
      BY <2>2, <2>4, <2>5, <2>9, <2>11 DEF Calm, Replying
    <3>2. Awaited(c)'
      BY <1>0, <3>1, CalmIsAwaited
    <3>3. AnswersInv'
      BY <2>10, <3>2 DEF AnswersInv, Awaited
    <3>. QED
      BY <1>0, <2>6, <2>8, <3>3, GotUnchanged DEF LinkInv
  <2>12. CASE Asks(m)
    <3>1. ~Silent(s)
      <4>1. 1 \in 1 .. Len(s)
        BY <2>1, <2>2, NotEmpty
      <4>. QED
        BY <2>1, <2>2, <2>12, <4>1 DEF Silent
    <3>2. Awaited(c)
      BY AwaitedAll DEF Sound, LinkInv
    <3>3. ~(c = client_sock /\ \A u \in Threads : ~Hears(u, c))
      BY <2>2, <3>1, <3>2 DEF Awaited, Quiet
    <3>4. ASSUME NEW u \in Threads, Hears(u, c) PROVE pc[u] \in {"recv1", "in1"} /\ AwaitsHeader(u, c)'
      <4>1. /\ pc[u] \in {"recv1", "in1"} /\ conn[c].toPcd = <<>> /\ AskedLast(Request(u), s)
        BY <2>2, <3>1, <3>2, <3>4 DEF Awaited, AwaitsHeader, AwaitsBody
      <4>2. Request(u)' = Request(u) /\ Request(u) \in Commands
        BY <1>0, CallersRest
      <4>3. m = Request(u) /\ Drop(s, BodyLen(Request(u))) = <<>>
        BY <2>1, <2>2, <2>12, <4>1, <4>2, AskedFirst
      <4>4. conn'[c].toIcc = <<>> /\ conn'[c].toPcd = <<>>
        BY <2>3, <2>5, <4>1, <4>3
      <4>5. Replying(c)' /\ vpicc'.ans.to = Request(u)
        BY <2>4, <2>12, <4>3 DEF Replying
      <4>. QED
        BY <4>1, <4>2, <4>4, <4>5, NothingSent DEF AwaitsHeader
    <3>5. Awaited(c)'
      BY <1>0, <3>3, <3>4, CallersRest DEF Awaited
    <3>6. AnswersInv'
      BY <2>10, <3>5 DEF AnswersInv, Awaited
    <3>. QED
      BY <1>0, <2>6, <2>8, <3>6, GotUnchanged DEF LinkInv
  <2>. QED
    BY <2>11, <2>12
<1>. QED
  BY <1>1, <1>2

-----------------------------------------------------------------------------
\* All steps together.

\* Either the lock works, or no process hosts the driver in which two callers
\* meet: pcscd calls the handlers of a slot one at a time.
CallsExcluded ==
  LockWorks \/ \A o \in Hosts : \A t, u \in Threads : o[t] # {} /\ o[u] # {} => t = u

CallersInv == \A t \in Threads : OpsOf[t] = {} => pc[t] = "idle"

\* How callers move.
LEMMA CallerMoves ==
  ASSUME Inv, Next
  PROVE \/ \E t \in Threads : /\ \/ pc[t] # "idle"
                                 \/ OpsOf[t] # {} /\ open
                              /\ \E l \in PCs : Goto(t, l)
                              /\ UNCHANGED open
        \/ AllIdle /\ UNCHANGED pc
        \/ \A u \in Threads : pc'[u] = "idle"
        \/ UNCHANGED <<pc, open>>
<1>1. CASE CreateChannel \/ CloseChannel
  BY <1>1 DEF CreateChannel, CloseChannel, callVars
<1>2. CASE PcdDies
  BY <1>2 DEF PcdDies
<1>3. ASSUME NEW t \in Threads, NEW o \in OpsOf[t], Call(t, o)
      PROVE OpsOf[t] # {} /\ open /\ (\E l \in PCs : Goto(t, l)) /\ UNCHANGED open
  BY <1>3 DEF Call, ctxVars, PCs
<1>4. ASSUME NEW t \in Threads, Step(t)
      PROVE pc[t] # "idle" /\ (\E l \in PCs : Goto(t, l)) /\ UNCHANGED open
  <2>1. CASE Connect(t)
    BY <2>1 DEF Connect, Return, Goto, PCs
  <2>2. CASE Lock(t)
    BY <2>2 DEF Lock, PCs
  <2>3. CASE PowerSend(t) \/ PowerUnlock(t)
    BY <2>3 DEF PowerSend, PowerUnlock, Return, Goto, PCs
  <2>4. CASE Send(t)
    BY <2>4 DEF Send, PCs
  <2>5. CASE RecvCall(t) \/ RecvHeader(t) \/ RecvBody(t)
    BY <2>5 DEF RecvCall, RecvHeader, RecvBody, ctxVars, PCs
  <2>6. CASE Unlock(t) \/ LateEject(t)
    BY <2>6 DEF Unlock, LateEject, ReturnTransmit, Return, Goto, PCs
  <2>. QED
    BY <1>4, <2>1, <2>2, <2>3, <2>4, <2>5, <2>6 DEF Step
<1>5. CASE CardStep \/ CardStarts \/ CardDies
  BY <1>5 DEF CardStep, CardAccepts, CardRecvLength, CardRecvBody, CardReplies, CardStarts,
              CardDies, ctxVars, callVars
<1>. QED
  BY <1>1, <1>2, <1>3, <1>4, <1>5 DEF Next

LEMMA CallersStep ==
  ASSUME Inv, CallersInv, ClosedIsIdle, [Next]_vars PROVE CallersInv' /\ ClosedIsIdle'
<1>0. pc \in [Threads -> PCs]
  BY DEF Inv, CallOK
<1>1. CASE UNCHANGED vars
  BY <1>1 DEF vars, linkVars, ctxVars, callVars, CallersInv, ClosedIsIdle, AllIdle
<1>2. CASE Next
  <2>0. OpsOf' = OpsOf
    BY <1>2 DEF Next
  <2>1. ASSUME NEW t \in Threads, pc[t] # "idle" \/ (OpsOf[t] # {} /\ open), NEW l \in PCs, Goto(t, l),
               UNCHANGED open
        PROVE CallersInv' /\ ClosedIsIdle'
    <3>1. open /\ OpsOf[t] # {} /\ \A u \in Threads : u # t => pc'[u] = pc[u]
      BY <1>0, <2>1 DEF ClosedIsIdle, AllIdle, CallersInv, Goto
    <3>. QED
      BY <2>0, <2>1, <3>1 DEF ClosedIsIdle, CallersInv
  <2>2. CASE AllIdle /\ UNCHANGED pc
    BY <2>2 DEF AllIdle, ClosedIsIdle, CallersInv
  <2>3. CASE \A u \in Threads : pc'[u] = "idle"
    BY <2>3 DEF AllIdle, ClosedIsIdle, CallersInv
  <2>4. CASE UNCHANGED <<pc, open>>
    BY <2>0, <2>4 DEF AllIdle, ClosedIsIdle, CallersInv
  <2>. QED
    BY <1>2, <2>1, <2>2, <2>3, <2>4, CallerMoves
<1>. QED
  BY <1>1, <1>2

LEMMA CallersAlone ==
  ASSUME CallsExcluded, HostOK, HolderInside, CallersInv PROVE Alone
<1>1. CASE LockWorks
  BY <1>1 DEF HolderInside, Alone
<1>2. CASE \A o \in Hosts : \A t, u \in Threads : o[t] # {} /\ o[u] # {} => t = u
  BY <1>2 DEF HostOK, CallersInv, Alone, Inside
<1>. QED
  BY <1>1, <1>2 DEF CallsExcluded

LEMMA LinkInvStep ==
  ASSUME ~Short, Sound, Next PROVE LinkInv'
<1>1. reversed' = reversed
  BY DEF Next
<1>2. CASE CreateChannel \/ CloseChannel \/ PcdDies
  BY <1>1, <1>2, CreateChannelStep, CloseChannelStep, PcdDiesStep
<1>3. ASSUME NEW t \in Threads, NEW o \in IfdOps, Call(t, o) PROVE LinkInv'
  BY <1>1, <1>3, CallStep
<1>4. ASSUME NEW t \in Threads, Step(t) PROVE LinkInv'
  BY <1>1, <1>4, ConnectStep, LockStep, PowerSendStep, PowerUnlockStep, SendStep, RecvCallStep,
     RecvHeaderStep, RecvBodyStep, UnlockStep, LateEjectStep DEF Step
<1>5. CASE CardStep \/ CardStarts \/ CardDies
  BY <1>1, <1>5, CardAcceptsStep, CardRecvLengthStep, CardRecvBodyStep, CardRepliesStep,
     CardStartsStep, CardDiesStep DEF CardStep
<1>6. ASSUME NEW t \in Threads, NEW o \in OpsOf[t], Call(t, o) PROVE LinkInv'
  <2>1. o \in {"present", "transmit", "big", "empty", "atr", "up", "reset", "down"}
    BY <1>6, LinkAssumption DEF Sound, HostOK, IfdOps
  <2>. QED
    BY <1>3, <1>6, <2>1 DEF IfdOps
<1>. QED
  BY <1>2, <1>4, <1>5, <1>6 DEF Next

LEMMA LinkInvInit == Init => LinkInv /\ CallersInv /\ ClosedIsIdle
<1>. SUFFICES ASSUME Init PROVE LinkInv /\ CallersInv /\ ClosedIsIdle
  OBVIOUS
<1>1. vpicc.pc = "down" /\ client_sock \notin Conns
  BY CardStates, LinkAssumption DEF Init
<1>2. \A c \in Conns : conn[c] = NoConn
  BY DEF Init
<1>3. NetInv
  BY <1>1, <1>2, ConnFields DEF NetInv, EndsOK, AtWork, Replying, Init
<1>4. FramesInv
  BY <1>1, <1>2, ConnFields, NothingSent DEF FramesInv, InBody
<1>5. AnswersInv
  BY <1>1 DEF AnswersInv, Hears, Listens, Init
<1>6. GotInv
  BY DEF GotInv, Init, NoRes
<1>. QED
  BY <1>3, <1>4, <1>5, <1>6 DEF LinkInv, CallersInv, ClosedIsIdle, AllIdle, Init

\* What holds of a link whose calls do not overlap.
Linked == Inv /\ HostOK /\ HolderInside /\ CallersInv /\ ClosedIsIdle /\ LinkInv

LEMMA LinkedIsSound == ASSUME CallsExcluded, Linked PROVE Sound
BY CallersAlone DEF Linked, Sound

LEMMA LinkedInit == Init => Linked
BY InvInit, HolderInit, LinkInvInit DEF Linked

LEMMA LinkedStep ==
  ASSUME ~Short, CallsExcluded, Linked, [Next]_vars PROVE Linked'
<1>1. Inv' /\ HostOK' /\ HolderInside' /\ CallersInv' /\ ClosedIsIdle'
  BY InvStep, HolderStep, CallersStep DEF Linked
<1>2. LinkInv'
  <2>1. CASE Next
    BY <2>1, LinkedIsSound, LinkInvStep
  <2>2. CASE UNCHANGED vars
    <3>1. Sound /\ UNCHANGED <<reversed, ctxVars, callVars, conn, vpicc>>
      BY <2>2, LinkedIsSound DEF vars, linkVars, cardVars
    <3>2. UNCHANGED <<reversed, open, client_sock, conn, vpicc>> /\ UNCHANGED callVars
          /\ UNCHANGED <<client_sock, pc, op, seq, need, sock>>
      BY <3>1 DEF ctxVars, callVars
    <3>3. \A c \in Conns : NothingNew(c)
      BY <3>2 DEF NothingNew, Replying
    <3>4. \A c \in Conns : Awaited(c)'
      BY <3>1, <3>2, <3>3, NothingNewIsCalm, CalmIsAwaited
    <3>. QED
      BY <3>1, <3>2, <3>4, SameNet, GotUnchanged DEF LinkInv, AnswersInv, Awaited
  <2>. QED
    BY <2>1, <2>2
<1>. QED
  BY <1>1, <1>2 DEF Linked

\* AnswerIsOwn, for any number of callers and connections: where messages
\* arrive whole and calls are excluded, no application gets bytes of anything
\* but the answer to its own command.
THEOREM EveryAnswerIsOwn ==
  ~Short /\ CallsExcluded => (Spec => []AnswerIsOwn)
<1>. SUFFICES ASSUME ~Short, CallsExcluded PROVE Spec => []AnswerIsOwn
  OBVIOUS
<1>1. Linked /\ [Next]_vars => Linked'
  BY LinkedStep
<1>2. Linked => AnswerIsOwn
  BY DEF Linked, LinkInv, GotInv, AnswerIsOwn
<1>. QED
  BY <1>1, <1>2, LinkedInit, PTL DEF Spec

\* NoAnswerLeft: between exchanges the connection holds nothing that the next
\* one would take for its answer, because what may be unread is always awaited.
THEOREM NothingIsLeft ==
  ~Short /\ CallsExcluded => (Spec => []NoAnswerLeft)
<1>. SUFFICES ASSUME ~Short, CallsExcluded PROVE Spec => []NoAnswerLeft
  OBVIOUS
<1>1. Linked /\ [Next]_vars => Linked'
  BY LinkedStep
<1>2. Linked => NoAnswerLeft
  BY DEF Linked, LinkInv, AnswersInv, NoAnswerLeft, AllIdle, Hears, Listens, Quiet, Replying
<1>. QED
  BY <1>1, <1>2, LinkedInit, PTL DEF Spec

-----------------------------------------------------------------------------
\* An APDU is executed at most once.

\* The APDU that t sends in the call it is in.
Mine(t, m) == m.kind = "APDU" /\ m.by = t /\ m.n = seq[t]

\* Some of it is on its way to a card.
OnWire(t) == \E c \in Conns : \E i \in 1 .. Len(conn[c].toIcc) : Mine(t, conn[c].toIcc[i][1])

\* It is there once: its bytes keep their distances.
SentOnce(t) ==
  \A c, d \in Conns : \A i \in 1 .. Len(conn[c].toIcc), j \in 1 .. Len(conn[d].toIcc) :
    Mine(t, conn[c].toIcc[i][1]) /\ Mine(t, conn[d].toIcc[j][1])
      => c = d /\ i - conn[c].toIcc[i][2] = j - conn[d].toIcc[j][2]

\* An answer to t is being sent, or received.
Answering(t) == \E c \in Conns : Hears(t, c) /\ (Replying(c) \/ conn[c].toPcd # <<>>)

\* Nothing of vicc_transmit has been sent.
Early == {"connect", "plock", "psend", "punlock", "lock", "send"}

OnceFor(t) ==
  /\ execs[t] < 2
  /\ pc[t] \in Early => execs[t] = 0
  /\ OnWire(t) => op[t] = "transmit" /\ pc[t] \notin Early /\ execs[t] = 0
  /\ SentOnce(t)
  /\ op[t] = "transmit" /\ (got[t] # <<>> \/ Answering(t)) => execs[t] = 1

OnceInv == \A t \in Threads : pc[t] # "idle" => OnceFor(t)

LEMMA WireShrinks ==
  ASSUME NEW t \in Threads, seq'[t] = seq[t], \A c \in Conns : conn'[c].toIcc \in {conn[c].toIcc, <<>>}
  PROVE (OnWire(t)' => OnWire(t)) /\ (SentOnce(t) => SentOnce(t)')
<1>1. \A c \in Conns : \A i \in 1 .. Len(conn'[c].toIcc) :
        i \in 1 .. Len(conn[c].toIcc) /\ conn'[c].toIcc[i] = conn[c].toIcc[i]
  <2>1. Len(<<>>) = 0
    OBVIOUS
  <2>. QED
    BY <2>1
<1>2. \A m : Mine(t, m)' <=> Mine(t, m)
  BY DEF Mine
<1>3. OnWire(t)' => OnWire(t)
  BY <1>1, <1>2 DEF OnWire, Mine
<1>4. ASSUME SentOnce(t) PROVE SentOnce(t)'
  <2>1. ASSUME NEW c \in Conns, NEW d \in Conns,
               NEW i \in 1 .. Len(conn'[c].toIcc), NEW j \in 1 .. Len(conn'[d].toIcc),
               Mine(t, conn[c].toIcc[i][1])', Mine(t, conn[d].toIcc[j][1])'
        PROVE c = d /\ i - conn'[c].toIcc[i][2] = j - conn'[d].toIcc[j][2]
    <3>1. /\ i \in 1 .. Len(conn[c].toIcc) /\ conn'[c].toIcc[i] = conn[c].toIcc[i]
          /\ j \in 1 .. Len(conn[d].toIcc) /\ conn'[d].toIcc[j] = conn[d].toIcc[j]
      BY <1>1
    <3>2. Mine(t, conn[c].toIcc[i][1]) /\ Mine(t, conn[d].toIcc[j][1])
      BY <2>1, <3>1 DEF Mine
    <3>. QED
      BY <1>4, <3>1, <3>2 DEF SentOnce
  <2>. QED
    BY <2>1 DEF SentOnce
<1>. QED
  BY <1>3, <1>4

LEMMA OnceStays ==
  ASSUME OnceInv, NEW u \in Threads, pc[u] # "idle",
         op'[u] = op[u], seq'[u] = seq[u], execs'[u] = execs[u],
         pc'[u] \in Early => pc[u] \in Early,
         \A c \in Conns : conn'[c].toIcc \in {conn[c].toIcc, <<>>},
         got'[u] # <<>> => got[u] # <<>> \/ Answering(u),
         Answering(u)' => Answering(u)
  PROVE OnceFor(u)'
<1>1. OnceFor(u)
  BY DEF OnceInv
<1>2. (OnWire(u)' => OnWire(u)) /\ (SentOnce(u) => SentOnce(u)')
  BY WireShrinks
<1>. QED
  BY <1>1, <1>2 DEF OnceFor

\* A caller moves, and what it hears is no more than before.
LEMMA OnceMoves ==
  ASSUME Sound, OnceInv, NEW t \in Threads, pc[t] # "idle", NEW l \in PCs, Goto(t, l),
         l \in Early => pc[t] \in Early,
         UNCHANGED <<op, seq, execs>>, \A u \in Threads \ {t} : got'[u] = got[u],
         l # "idle" => (got'[t] # <<>> => got[t] # <<>> \/ Answering(t)),
         \A c \in Conns : conn'[c].toIcc \in {conn[c].toIcc, <<>>},
         \A u \in Threads : u # t \/ l # "idle" => (Answering(u)' => Answering(u))
  PROVE OnceInv'
<1>1. pc \in [Threads -> PCs] /\ pc'[t] = l /\ \A u \in Threads \ {t} : pc'[u] = pc[u]
  BY DEF Sound, Inv, CallOK, Goto
<1>2. ASSUME NEW u \in Threads, pc'[u] # "idle" PROVE OnceFor(u)'
  BY <1>1, <1>2, OnceStays
<1>. QED
  BY <1>2 DEF OnceInv

LEMMA OnceCall ==
  ASSUME Sound, OnceInv, NEW t \in Threads, NEW o \in IfdOps, Call(t, o) PROVE OnceInv'
<1>1. /\ pc[t] = "idle" /\ pc \in [Threads -> PCs] /\ op \in [Threads -> IfdOps]
      /\ seq \in [Threads -> Numbers] /\ execs \in [Threads -> 0 .. 2]
      /\ UNCHANGED <<client_sock, conn, vpicc, sock, got>>
      /\ \E l \in {"connect", "plock", "lock"} : Goto(t, l)
  BY DEF Call, ctxVars, Sound, Inv, CallOK, IccOK
<1>2. /\ pc'[t] \in {"connect", "plock", "lock"} /\ execs'[t] = 0
      /\ \E k \in Unused(t) : seq'[t] = k
      /\ \A u \in Threads \ {t} : /\ pc'[u] = pc[u] /\ op'[u] = op[u] /\ seq'[u] = seq[u]
                                  /\ execs'[u] = execs[u]
  BY <1>1 DEF Call, Goto
<1>3. got'[t] = <<>>
  BY <1>1 DEF Sound, LinkInv, GotInv
<1>4. ~OnWire(t)'
  <2>. SUFFICES ASSUME NEW c \in Conns, NEW i \in 1 .. Len(conn[c].toIcc), Mine(t, conn[c].toIcc[i][1])'
                PROVE FALSE
    BY <1>1 DEF OnWire
  <2>. DEFINE m == conn[c].toIcc[i][1]
  <2>1. m \in Commands /\ m.kind \in CommandKinds /\ m # NoMsg
    BY LinkAssumption DEF Sound, LinkInv, FramesInv, InOrder, Commands, Messages
  <2>2. m \in UnderWay
    BY DEF UnderWay, Carried
  <2>3. m \notin Answers
    BY <2>1 DEF Answers, AnswerKinds, CommandKinds, ControlKinds
  <2>4. \A k \in Unused(t) : m.by = t => m.n # k
    BY <2>1, <2>2, <2>3 DEF Unused, AboutOf
  <2>5. m.by = t /\ m.n = seq'[t]
    BY <1>1 DEF Mine
  <2>. QED
    BY <1>2, <2>4, <2>5
<1>5. ~Answering(t)'
  BY <1>2 DEF Answering, Hears, Listens
<1>6. OnceFor(t)'
  <2>1. SentOnce(t)'
    BY <1>4 DEF SentOnce, OnWire
  <2>. QED
    BY <1>2, <1>3, <1>4, <1>5, <2>1 DEF OnceFor
<1>7. ASSUME NEW u \in Threads, u # t, pc'[u] # "idle" PROVE OnceFor(u)'
  <2>1. Answering(u)' => Answering(u)
    BY <1>1, <1>2, <1>7 DEF Answering, Replying, Hears, Listens, InRecv
  <2>. QED
    BY <1>1, <1>2, <1>7, <2>1, OnceStays
<1>. QED
  BY <1>6, <1>7 DEF OnceInv

\* Steps of a caller that leave the connections alone.
LEMMA OnceElsewhere ==
  ASSUME Sound, OnceInv, NEW t \in Threads,
         Lock(t) \/ PowerUnlock(t) \/ RecvCall(t) \/ Unlock(t)
  PROVE OnceInv'
<1>0. /\ pc \in [Threads -> PCs] /\ sock \in [Threads -> SockType] /\ got \in [Threads -> Seq(Bytes)]
      /\ UNCHANGED <<client_sock, conn, vpicc, op, seq, execs>>
  BY DEF Lock, PowerUnlock, RecvCall, Unlock, ctxVars, cardVars, Return, ReturnTransmit,
         Sound, Inv, CallOK
<1>1. PICK l \in PCs : /\ Goto(t, l)
                       /\ l \in Early => pc[t] \in Early
                       /\ pc[t] # "idle"
                       /\ \A u \in Threads \ {t} : got'[u] = got[u] /\ sock'[u] = sock[u]
                       /\ l # "idle" => got'[t] = got[t]
                       /\ pc[t] = "recv1" => l = "in1" /\ sock'[t] = client_sock
                       /\ pc[t] = "recv2" => l = "in2" /\ sock'[t] = client_sock
                       /\ pc[t] \notin {"recv1", "recv2"} => l \notin {"recv1", "in1", "recv2", "in2"}
  <2>1. CASE Lock(t)
    BY <2>1 DEF Lock, Early, PCs
  <2>2. CASE PowerUnlock(t)
    BY <1>0, <2>2 DEF PowerUnlock, Return, Goto, Early, PCs
  <2>3. CASE RecvCall(t)
    BY <1>0, <2>3 DEF RecvCall, Early, PCs
  <2>4. CASE Unlock(t)
    BY <1>0, <2>4 DEF Unlock, ReturnTransmit, Return, Goto, Early, PCs
  <2>. QED
    BY <2>1, <2>2, <2>3, <2>4
<1>2. pc'[t] = l /\ \A u \in Threads \ {t} : pc'[u] = pc[u]
  BY <1>0, <1>1 DEF Goto
<1>3. \A u \in Threads, c \in Conns : Hears(u, c)' => Hears(u, c)
  BY <1>0, <1>1, <1>2 DEF Hears, Listens, InRecv
<1>4. \A u \in Threads : Answering(u)' => Answering(u)
  BY <1>0, <1>3 DEF Answering, Replying
<1>. QED
  BY <1>0, <1>1, <1>4, OnceMoves

LEMMA OnceConnect ==
  ASSUME Sound, OnceInv, NEW t \in Threads, Connect(t), reversed' = reversed PROVE OnceInv'
<1>0. /\ pc[t] = "connect" /\ pc \in [Threads -> PCs] /\ open /\ open'
      /\ sock \in [Threads -> SockType] /\ got \in [Threads -> Seq(Bytes)]
      /\ UNCHANGED <<reversed, vpicc, op, seq, execs>>
  BY DEF Connect, Return, cardVars, Sound, Inv, CallOK, ClosedIsIdle, AllIdle
<1>1. PICK l \in {"idle", "lock"} : /\ Goto(t, l)
                                    /\ l # "idle" => got'[t] = got[t]
                                    /\ \A u \in Threads \ {t} : got'[u] = got[u] /\ sock'[u] = sock[u]
  BY <1>0 DEF Connect, Return, Goto
<1>2. pc'[t] = l /\ \A u \in Threads \ {t} : pc'[u] = pc[u]
  BY <1>0, <1>1 DEF Goto
<1>3. \A c \in Conns : /\ conn'[c].toIcc \in {conn[c].toIcc, <<>>}
                       /\ c # client_sock' => conn'[c] = conn[c]
                       /\ Quiet(c)' \/ client_sock' = client_sock \/ c # client_sock'
                       /\ client_sock' = client_sock => conn'[c] = conn[c]
  <2>1. CASE UNCHANGED <<client_sock, conn>>
    BY <2>1
  <2>2. CASE client_sock = INVALID_SOCKET /\ IF reversed THEN ConnectSock ELSE WaitForClient
    <3>1. /\ \A c \in Conns : c = client_sock' => Quiet(c)'
          /\ \A c \in Conns : c # client_sock' => conn'[c] = conn[c]
      BY <1>0, <2>2, ConnectEffect
    <3>2. ASSUME NEW c \in Conns, c = client_sock' PROVE conn'[c].toIcc \in {conn[c].toIcc, <<>>}
      <4>1. CASE reversed
        BY <1>0, <2>2, <3>2, <4>1, ConnFields, LinkAssumption
        DEF ConnectSock, FreeConns, Sound, Inv, NetOK, Networks
      <4>2. CASE ~reversed
        BY <1>0, <2>2, <3>2, <4>2, LinkAssumption
        DEF WaitForClient, Backlog, Sound, Inv, NetOK, Networks, ConnType
      <4>. QED
        BY <4>1, <4>2
    <3>3. INVALID_SOCKET \notin Conns
      BY LinkAssumption
    <3>4. client_sock' = client_sock => \A c \in Conns : conn'[c] = conn[c]
      BY <2>2, <3>1, <3>3
    <3>. QED
      BY <3>1, <3>2, <3>4
  <2>. QED
    BY <2>1, <2>2 DEF Connect
<1>4. ASSUME NEW u \in Threads, u # t \/ l # "idle", Answering(u)' PROVE Answering(u)
  <2>1. PICK c \in Conns : Hears(u, c)' /\ (Replying(c)' \/ conn'[c].toPcd # <<>>)
    BY <1>4 DEF Answering
  <2>2. ~Quiet(c)'
    BY <2>1 DEF Quiet
  <2>3. u # t /\ Listens(u)
    BY <1>1, <1>2, <2>1 DEF Hears, Listens
  <2>4. Hears(u, c) /\ conn'[c] = conn[c]
    BY <1>1, <1>2, <1>3, <2>1, <2>2, <2>3 DEF Hears, Listens, InRecv
  <2>. QED
    BY <1>0, <2>1, <2>4 DEF Answering, Replying
<1>. QED
  BY <1>0, <1>1, <1>3, <1>4, OnceMoves DEF PCs, Early

\* A connection is given up: the callers hear less.
LEMMA OnceEject ==
  ASSUME Sound, OnceInv, NEW t \in Threads, pc[t] # "idle", ~Listens(t), Eject(conn), UNCHANGED <<vpicc, op, seq, execs>>,
         NEW l \in PCs \ {"recv1", "in1", "recv2", "in2"}, Goto(t, l), l \in Early => pc[t] \in Early,
         \A u \in Threads \ {t} : got'[u] = got[u] /\ sock'[u] = sock[u],
         l # "idle" => got'[t] = got[t]
  PROVE OnceInv'
<1>1. pc \in [Threads -> PCs] /\ pc'[t] = l /\ \A u \in Threads \ {t} : pc'[u] = pc[u]
  BY DEF Sound, Inv, CallOK, Goto
<1>2. \A u \in Threads, c \in Conns : Hears(u, c)' => Hears(u, c)
  BY <1>1, EjectEffect DEF Hears, Listens, InRecv
<1>3. \A c \in Conns : conn'[c].toIcc = conn[c].toIcc /\ conn'[c].toPcd \in {conn[c].toPcd, <<>>}
  BY EjectEffect
<1>4. \A u \in Threads : Answering(u)' => Answering(u)
  BY <1>2, <1>3 DEF Answering, Replying
<1>. QED
  BY <1>3, <1>4, OnceMoves

LEMMA OnceLateEject ==
  ASSUME Sound, OnceInv, NEW t \in Threads, LateEject(t) PROVE OnceInv'
<1>1. sock \in [Threads -> SockType] /\ got \in [Threads -> Seq(Bytes)]
  BY DEF Sound, Inv, CallOK
<1>2. /\ pc[t] = "eject" /\ ~Listens(t) /\ Eject(conn) /\ Goto(t, "idle")
      /\ UNCHANGED <<vpicc, op, seq, execs>>
      /\ \A u \in Threads \ {t} : got'[u] = got[u] /\ sock'[u] = sock[u]
  BY <1>1 DEF LateEject, ReturnTransmit, Return, Goto, cardVars, Listens
<1>. QED
  BY <1>2, OnceEject DEF PCs, Early

LEMMA WireGrows ==
  ASSUME Sound, NEW u \in Threads, seq'[u] = seq[u], NEW m \in Messages, ~Mine(u, m),
         \A c \in Conns : conn'[c].toIcc \in {conn[c].toIcc, conn[c].toIcc \o Wire(m)}
  PROVE (OnWire(u)' => OnWire(u)) /\ (SentOnce(u) => SentOnce(u)')
<1>1. ASSUME NEW c \in Conns, NEW i \in 1 .. Len(conn'[c].toIcc), Mine(u, conn[c].toIcc[i][1])'
      PROVE /\ i \in 1 .. Len(conn[c].toIcc) /\ conn'[c].toIcc[i] = conn[c].toIcc[i]
            /\ Mine(u, conn[c].toIcc[i][1])
  <2>1. PICK s \in Seq(Bytes) : s = conn[c].toIcc
    BY Streams
  <2>2. CASE conn'[c].toIcc = s
    BY <1>1, <2>1, <2>2 DEF Mine
  <2>3. CASE conn'[c].toIcc = s \o Wire(m)
    <3>1. PICK w : w = s \o Wire(m)
      OBVIOUS
    <3>2. /\ Len(w) = Len(s) + BodyLen(m) + 2
          /\ \A j \in 1 .. Len(s) : w[j] = s[j]
          /\ \A j \in Len(s) + 1 .. Len(w) : w[j] = <<m, j - Len(s)>>
      BY <3>1, Joined
    <3>3. Mine(u, w[i][1]) /\ i \in 1 .. Len(w)
      BY <1>1, <2>3, <3>1 DEF Mine
    <3>4. CASE i \in 1 .. Len(s)
      BY <2>1, <2>3, <3>1, <3>2, <3>3, <3>4
    <3>5. CASE i \in Len(s) + 1 .. Len(w)
      <4>1. w[i][1] = m
        BY <3>2, <3>5
      <4>. QED
        BY <3>3, <4>1
    <3>6. PICK l, n \in Nat : l = Len(s) /\ n = Len(w)
      <4>1. Len(s) \in Nat /\ BodyLen(m) \in {1, 2}
        BY BodyLens, NotEmpty
      <4>. QED
        BY <3>2, <4>1
    <3>7. i \in 1 .. l \/ i \in l + 1 .. n
      BY <3>3, <3>6
    <3>. QED
      BY <3>4, <3>5, <3>6, <3>7
  <2>. QED
    BY <2>1, <2>2, <2>3
<1>2. OnWire(u)' => OnWire(u)
  BY <1>1 DEF OnWire
<1>3. ASSUME SentOnce(u) PROVE SentOnce(u)'
  <2>1. ASSUME NEW c \in Conns, NEW d \in Conns,
               NEW i \in 1 .. Len(conn'[c].toIcc), NEW j \in 1 .. Len(conn'[d].toIcc),
               Mine(u, conn[c].toIcc[i][1])', Mine(u, conn[d].toIcc[j][1])'
        PROVE c = d /\ i - conn'[c].toIcc[i][2] = j - conn'[d].toIcc[j][2]
    <3>1. /\ i \in 1 .. Len(conn[c].toIcc) /\ conn'[c].toIcc[i] = conn[c].toIcc[i]
          /\ j \in 1 .. Len(conn[d].toIcc) /\ conn'[d].toIcc[j] = conn[d].toIcc[j]
          /\ Mine(u, conn[c].toIcc[i][1]) /\ Mine(u, conn[d].toIcc[j][1])
      BY <1>1, <2>1
    <3>. QED
      BY <1>3, <3>1 DEF SentOnce
  <2>. QED
    BY <2>1 DEF SentOnce
<1>. QED
  BY <1>2, <1>3

\* A card that reads leaves the distances as they are.
LEMMA WireRead ==
  ASSUME Sound, NEW u \in Threads, seq'[u] = seq[u], NEW v \in Conns, NEW k \in Nat, k <= Len(conn[v].toIcc),
         conn'[v].toIcc = Drop(conn[v].toIcc, k), \A c \in Conns : c # v => conn'[c] = conn[c]
  PROVE /\ OnWire(u)' => OnWire(u)
        /\ SentOnce(u) => SentOnce(u)'
        /\ \A c \in Conns : \A i \in 1 .. Len(conn'[c].toIcc) : Mine(u, conn[c].toIcc[i][1])' =>
             LET j == IF c = v THEN i + k ELSE i
             IN /\ j \in 1 .. Len(conn[c].toIcc) /\ conn'[c].toIcc[i] = conn[c].toIcc[j]
                /\ Mine(u, conn[c].toIcc[j][1]) /\ conn[c].toIcc[j][2] \in 1 .. 4
<1>1. ASSUME NEW c \in Conns, NEW i \in 1 .. Len(conn'[c].toIcc), Mine(u, conn[c].toIcc[i][1])'
      PROVE LET j == IF c = v THEN i + k ELSE i
            IN /\ j \in 1 .. Len(conn[c].toIcc) /\ conn'[c].toIcc[i] = conn[c].toIcc[j]
               /\ Mine(u, conn[c].toIcc[j][1]) /\ conn[c].toIcc[j][2] \in 1 .. 4
  <2>1. PICK s \in Seq(Bytes) : s = conn[c].toIcc
    BY Streams
  <2>2. CASE c = v
    <3>1. PICK w : w = Drop(s, k) /\ w = conn'[c].toIcc
      BY <2>1, <2>2
    <3>2. PICK n \in Nat : n = Len(s) /\ k <= n
      BY <2>1, <2>2, NotEmpty
    <3>3. Len(w) = n - k /\ \A j \in 1 .. n - k : w[j] = s[j + k]
      <4>1. k <= Len(s)
        BY <3>2
      <4>2. /\ Len(Drop(s, k)) = Len(s) - k
            /\ \A j \in 1 .. Len(s) - k : Drop(s, k)[j] = s[j + k]
        BY <4>1, Dropped
      <4>. QED
        BY <3>1, <3>2, <4>2
    <3>4. i + k \in 1 .. n /\ w[i] = s[i + k]
      BY <3>1, <3>2, <3>3
    <3>5. Mine(u, s[i + k][1])
      BY <1>1, <3>1, <3>4 DEF Mine
    <3>. QED
      BY <2>1, <2>2, <3>1, <3>2, <3>4, <3>5, Elements
  <2>3. CASE c # v
    BY <1>1, <2>1, <2>3, Elements DEF Mine
  <2>. QED
    BY <2>2, <2>3
<1>2. OnWire(u)' => OnWire(u)
  BY <1>1 DEF OnWire
<1>3. ASSUME SentOnce(u) PROVE SentOnce(u)'
  <2>1. ASSUME NEW c \in Conns, NEW d \in Conns,
               NEW i \in 1 .. Len(conn'[c].toIcc), NEW j \in 1 .. Len(conn'[d].toIcc),
               Mine(u, conn[c].toIcc[i][1])', Mine(u, conn[d].toIcc[j][1])'
        PROVE c = d /\ i - conn'[c].toIcc[i][2] = j - conn'[d].toIcc[j][2]
    <3>1. PICK a, b : a = (IF c = v THEN i + k ELSE i) /\ b = (IF d = v THEN j + k ELSE j)
      OBVIOUS
    <3>2. /\ a \in 1 .. Len(conn[c].toIcc) /\ conn'[c].toIcc[i] = conn[c].toIcc[a]
          /\ Mine(u, conn[c].toIcc[a][1]) /\ conn[c].toIcc[a][2] \in 1 .. 4
          /\ b \in 1 .. Len(conn[d].toIcc) /\ conn'[d].toIcc[j] = conn[d].toIcc[b]
          /\ Mine(u, conn[d].toIcc[b][1]) /\ conn[d].toIcc[b][2] \in 1 .. 4
      <4>1. /\ a \in 1 .. Len(conn[c].toIcc) /\ conn'[c].toIcc[i] = conn[c].toIcc[a]
            /\ Mine(u, conn[c].toIcc[a][1]) /\ conn[c].toIcc[a][2] \in 1 .. 4
        BY <1>1, <2>1, <3>1
      <4>2. /\ b \in 1 .. Len(conn[d].toIcc) /\ conn'[d].toIcc[j] = conn[d].toIcc[b]
            /\ Mine(u, conn[d].toIcc[b][1]) /\ conn[d].toIcc[b][2] \in 1 .. 4
        BY <1>1, <2>1, <3>1
      <4>. QED
        BY <4>1, <4>2
    <3>3. c = d /\ a - conn[c].toIcc[a][2] = b - conn[d].toIcc[b][2]
      BY <1>3, <3>2 DEF SentOnce
    <3>4. PICK p, q \in Int : p = conn[c].toIcc[a][2] /\ q = conn[d].toIcc[b][2]
      <4>1. \A x \in 1 .. 4 : x \in Int
        OBVIOUS
      <4>2. conn[c].toIcc[a][2] \in Int /\ conn[d].toIcc[b][2] \in Int
        BY <3>2, <4>1
      <4>. QED
        BY <4>2, Zenon
    <3>5. a - p = b - q => i - p = j - q
      BY <3>1, <3>3
    <3>. QED
      BY <3>2, <3>3, <3>4, <3>5
  <2>. QED
    BY <2>1 DEF SentOnce
<1>. QED
  BY <1>1, <1>2, <1>3

\* What goes on for a caller, whatever happens on the wire.
LEMMA OnceGoesOn ==
  ASSUME OnceInv, NEW u \in Threads, pc[u] # "idle",
         op'[u] = op[u], seq'[u] = seq[u], execs'[u] = execs[u],
         pc'[u] \in Early => pc[u] \in Early,
         OnWire(u)' => OnWire(u), SentOnce(u) => SentOnce(u)',
         got'[u] # <<>> => got[u] # <<>> \/ Answering(u),
         op[u] = "transmit" /\ Answering(u)' => Answering(u)
  PROVE OnceFor(u)'
<1>1. OnceFor(u)
  BY DEF OnceInv
<1>. QED
  BY <1>1 DEF OnceFor

LEMMA OncePowerSend ==
  ASSUME Sound, OnceInv, NEW t \in Threads, PowerSend(t) PROVE OnceInv'
<1>1. /\ pc[t] = "psend" /\ pc \in [Threads -> PCs] /\ ~Listens(t) /\ Goto(t, "punlock")
      /\ UNCHANGED <<vpicc, op, seq, execs, sock, got>>
  BY DEF PowerSend, cardVars, Sound, Inv, CallOK, Listens
<1>2. pc'[t] = "punlock" /\ \A u \in Threads \ {t} : pc'[u] = pc[u]
  BY <1>1 DEF Goto
<1>3. CASE Eject(conn)
  BY <1>1, <1>3, OnceEject DEF PCs, Early
<1>4. CASE SendOk(PowerRequest(t))
  <2>1. /\ PowerRequest(t) \in Commands /\ PowerRequest(t) \in Messages
        /\ \A u \in Threads : ~Mine(u, PowerRequest(t))
    BY CommandsOf DEF Messages, PowerRequest, Cmd, Mine
  <2>2. \A c \in Conns : conn'[c].toIcc \in {conn[c].toIcc, conn[c].toIcc \o Wire(PowerRequest(t))}
    BY <1>4, <2>1, SendEffect
  <2>3. \A u \in Threads : (OnWire(u)' => OnWire(u)) /\ (SentOnce(u) => SentOnce(u)')
    BY <1>1, <2>1, <2>2, WireGrows
  <2>4. \A u \in Threads : ~Answering(u)'
    BY <1>1, <1>2, NobodyListens DEF Answering, Hears, Listens
  <2>5. ASSUME NEW u \in Threads, pc'[u] # "idle" PROVE OnceFor(u)'
    <3>1. pc[u] # "idle" /\ (pc'[u] \in Early => pc[u] \in Early)
      BY <1>1, <1>2, <2>5 DEF Early
    <3>. QED
      BY <1>1, <2>3, <2>4, <3>1, OnceGoesOn
  <2>. QED
    BY <2>5 DEF OnceInv
<1>. QED
  BY <1>3, <1>4 DEF PowerSend

\* The APDU of t goes out, once.
LEMMA SentNow ==
  ASSUME Sound, NEW t \in Threads, ~OnWire(t), seq'[t] = seq[t], NEW m \in Commands, SendOk(m)
  PROVE SentOnce(t)'
<1>. USE DEF Mine
<1>1. client_sock \in Conns /\ m \in Messages
  BY SendEffect DEF Messages
<1>2. PICK s \in Seq(Bytes) : s = conn[client_sock].toIcc
  BY <1>1, Streams
<1>3. PICK n \in Nat : n = Len(s)
  BY NotEmpty
<1>4. ASSUME NEW c \in Conns, NEW i \in 1 .. Len(conn'[c].toIcc), Mine(t, conn[c].toIcc[i][1])'
      PROVE c = client_sock /\ i - conn'[c].toIcc[i][2] = n
  <2>1. CASE conn'[c].toIcc = conn[c].toIcc
    BY <1>4, <2>1 DEF OnWire
  <2>2. CASE c = client_sock /\ conn'[c].toIcc = s \o Wire(m)
    <3>1. PICK w : w = s \o Wire(m)
      OBVIOUS
    <3>2. /\ Len(w) = n + BodyLen(m) + 2
          /\ \A j \in 1 .. n : w[j] = s[j]
          /\ \A j \in n + 1 .. Len(w) : w[j] = <<m, j - n>>
      BY <1>1, <1>3, <3>1, Joined
    <3>3. PICK l \in Nat : l = Len(w)
      BY <3>2, BodyLens
    <3>4. i \in 1 .. n \/ i \in n + 1 .. l
      BY <2>2, <3>1, <3>3
    <3>5. ~(i \in 1 .. n)
      <4>1. ASSUME i \in 1 .. n PROVE FALSE
        <5>1. w[i] = s[i] /\ Mine(t, s[i][1])
          BY <1>4, <2>2, <3>1, <3>2, <4>1
        <5>. QED
          BY <1>1, <1>2, <1>3, <4>1, <5>1 DEF OnWire
      <4>. QED
        BY <4>1
    <3>6. w[i] = <<m, i - n>>
      BY <3>2, <3>3, <3>4, <3>5
    <3>7. i - (i - n) = n
      BY <3>3
    <3>8. conn'[c].toIcc[i][2] = i - n
      BY <2>2, <3>1, <3>6
    <3>. QED
      BY <2>2, <3>7, <3>8
  <2>. QED
    BY <1>1, <1>2, <2>1, <2>2, SendEffect
<1>. QED
  BY <1>4 DEF SentOnce

LEMMA OnceSend ==
  ASSUME Sound, OnceInv, NEW t \in Threads, Send(t) PROVE OnceInv'
<1>1. /\ pc[t] = "send" /\ pc \in [Threads -> PCs] /\ ~Listens(t)
      /\ UNCHANGED <<vpicc, op, seq, execs, sock, got>>
  BY DEF Send, cardVars, Sound, Inv, CallOK, Listens
<1>2. \E l \in {"recv1", "unlock"} : Goto(t, l)
  BY DEF Send
<1>3. pc'[t] \in {"recv1", "unlock"} /\ \A u \in Threads \ {t} : pc'[u] = pc[u]
  BY <1>1, <1>2 DEF Goto
<1>4. CASE Goto(t, "unlock") /\ Eject(conn)
  BY <1>1, <1>4, OnceEject DEF PCs, Early
<1>5. CASE UNCHANGED client_sock /\ (SendOk(Request(t)) \/ UNCHANGED conn)
  <2>1. Request(t) \in Commands /\ Request(t) \in Messages /\ Request(t).by = t
        /\ (Request(t).kind = "APDU" => op[t] = "transmit")
    BY CommandsOf DEF Messages, Request, Cmd
  <2>2. \A c \in Conns : /\ conn'[c].toIcc \in {conn[c].toIcc, conn[c].toIcc \o Wire(Request(t))}
                         /\ conn'[c].toPcd = conn[c].toPcd
    BY <1>5, <2>1, SendEffect
  <2>3. \A u \in Threads : ~Answering(u)'
    <3>1. ASSUME NEW u \in Threads, NEW c \in Conns, Hears(u, c)' PROVE c = client_sock
      <4>1. u = t
        BY <1>1, <1>3, <3>1, NobodyListens DEF Hears, Listens
      <4>2. ~InRecv(t)'
        BY <1>3 DEF InRecv
      <4>. QED
        BY <1>5, <3>1, <4>1, <4>2 DEF Hears
    <3>2. \A c \in Conns : c = client_sock => conn'[c].toPcd = <<>> /\ ~Replying(c)'
      BY <1>1, <2>2, NobodyListens DEF Quiet, Replying
    <3>. QED
      BY <3>1, <3>2 DEF Answering
  <2>4. OnceFor(t)'
    <3>1. OnceFor(t) /\ pc[t] \in Early /\ pc'[t] \notin Early
      BY <1>1, <1>3 DEF OnceInv, Early
    <3>2. CASE Mine(t, Request(t)) /\ SendOk(Request(t))
      <4>1. SentOnce(t)'
        BY <1>1, <2>1, <3>1, <3>2, SentNow DEF OnceFor
      <4>2. op[t] = "transmit" /\ execs[t] = 0 /\ got[t] = <<>>
        BY <1>1, <2>1, <3>1, <3>2 DEF OnceFor, Mine, Sound, LinkInv, GotInv
      <4>. QED
        BY <1>1, <2>3, <3>1, <4>1, <4>2 DEF OnceFor
    <3>3. CASE ~Mine(t, Request(t)) \/ UNCHANGED conn
      <4>1. (OnWire(t)' => OnWire(t)) /\ (SentOnce(t) => SentOnce(t)')
        <5>1. CASE UNCHANGED conn
          BY <1>1, <5>1, WireShrinks
        <5>2. CASE ~Mine(t, Request(t))
          BY <1>1, <2>1, <2>2, <5>2, WireGrows
        <5>. QED
          BY <3>3, <5>1, <5>2
      <4>. QED
        BY <1>1, <2>3, <3>1, <4>1, OnceGoesOn
    <3>. QED
      BY <1>5, <3>2, <3>3
  <2>5. ASSUME NEW u \in Threads, u # t, pc'[u] # "idle" PROVE OnceFor(u)'
    <3>1. (OnWire(u)' => OnWire(u)) /\ (SentOnce(u) => SentOnce(u)')
      <4>1. ~Mine(u, Request(t))
        BY <2>1, <2>5 DEF Mine
      <4>. QED
        BY <1>1, <2>1, <2>2, <4>1, WireGrows
    <3>2. pc'[u] = pc[u]
      BY <1>3, <2>5
    <3>. QED
      BY <1>1, <2>3, <2>5, <3>1, <3>2, OnceGoesOn
  <2>. QED
    BY <2>4, <2>5 DEF OnceInv
<1>6. CASE Goto(t, "unlock") /\ UNCHANGED <<client_sock, conn>>
  BY <1>5, <1>6
<1>. QED
  BY <1>4, <1>5 DEF Send

\* Received bytes are bytes that were sent.
LEMMA OnceReceive ==
  ASSUME Sound, OnceInv, NEW t \in Threads, RecvHeader(t) \/ RecvBody(t) PROVE OnceInv'
<1>1. /\ pc[t] \in {"in1", "in2"} /\ pc \in [Threads -> PCs] /\ InRecv(t) /\ Listens(t)
      /\ sock \in [Threads -> SockType] /\ got \in [Threads -> Seq(Bytes)] /\ need[t] \in 0 .. 2
      /\ UNCHANGED <<client_sock, vpicc, op, seq, execs>>
  BY DEF RecvHeader, RecvBody, ctxVars, cardVars, Sound, Inv, CallOK, InRecv, Listens
<1>2. \E l \in {"recv2", "unlock"} : Goto(t, l)
  BY DEF RecvHeader, RecvBody
<1>3. pc'[t] \in {"recv2", "unlock"} /\ \A u \in Threads \ {t} : pc'[u] = pc[u]
  BY <1>1, <1>2 DEF Goto
<1>4. \A c \in Conns : conn'[c].toIcc = conn[c].toIcc /\ (conn[c].toPcd = <<>> => conn'[c].toPcd = <<>>)
  BY RecvReads
<1>5. \A u \in Threads \ {t} : ~Listens(u)'
  BY <1>1, <1>3, OneListens DEF Listens
<1>6. \A u \in Threads : Answering(u)' => Answering(u)
  <2>1. ASSUME NEW c \in Conns, Hears(t, c)', Replying(c)' \/ conn'[c].toPcd # <<>> PROVE Hears(t, c)
    <3>1. c = client_sock
      BY <1>1, <1>3, <2>1 DEF Hears, InRecv
    <3>2. ~Quiet(c)
      BY <1>1, <1>4, <2>1 DEF Quiet, Replying
    <3>. QED
      BY <1>1, <3>1, <3>2, OneListens
  <2>. QED
    BY <1>1, <1>4, <1>5, <2>1 DEF Answering, Replying, Hears
<1>7. \A u \in Threads \ {t} : got'[u] = got[u]
  BY <1>1 DEF RecvHeader, RecvBody
<1>8. got'[t] # <<>> => got[t] # <<>> \/ Answering(t)
  <2>1. ASSUME sock[t] \in Conns, Stream(t) # <<>> PROVE Answering(t)
    <3>1. Hears(t, sock[t])
      BY <1>1, <2>1 DEF Hears
    <3>. QED
      BY <2>1, <3>1 DEF Answering, Stream
  <2>2. CASE sock[t] \in Conns /\ got'[t] = Take(Stream(t), need[t]) /\ WholeRecv(t)
    <3>1. ASSUME Stream(t) = <<>> PROVE Take(Stream(t), need[t]) = <<>>
      <4>1. need[t] = 0
        <5>1. Len(<<>>) >= need[t]
          BY <2>2, <3>1 DEF WholeRecv
        <5>. QED
          BY <1>1, <5>1
      <4>. QED
        BY <3>1, <4>1 DEF Take
    <3>. QED
      BY <2>1, <2>2, <3>1
  <2>3. CASE sock[t] \in Conns /\ got'[t] = Stream(t)
    BY <2>1, <2>3
  <2>4. CASE got'[t] = got[t]
    BY <2>4
  <2>. QED
    BY <1>1, <2>2, <2>3, <2>4 DEF RecvHeader, RecvBody, WholeRecv, EofRecv
<1>9. ASSUME NEW u \in Threads, pc'[u] # "idle" PROVE OnceFor(u)'
  <2>1. pc[u] # "idle" /\ (pc'[u] \in Early => pc[u] \in Early)
    BY <1>1, <1>3, <1>9 DEF Early
  <2>2. got'[u] # <<>> => got[u] # <<>> \/ Answering(u)
    BY <1>7, <1>8
  <2>. QED
    BY <1>1, <1>4, <1>6, <2>1, <2>2, OnceStays
<1>. QED
  BY <1>9 DEF OnceInv

\* Steps of the card other than the execution of a command.
LEMMA OnceCard ==
  ASSUME Sound, OnceInv, UNCHANGED <<client_sock, callVars, execs>>,
         \A c \in Conns : conn'[c].toIcc \in {conn[c].toIcc, <<>>},
         \A c \in Conns : Replying(c)' \/ conn'[c].toPcd # <<>> => Replying(c) \/ conn[c].toPcd # <<>>
  PROVE OnceInv'
<1>1. UNCHANGED <<pc, op, seq, sock, need, got>>
  BY DEF callVars
<1>2. \A u \in Threads : Answering(u)' => Answering(u)
  BY <1>1, CallersRest DEF Answering
<1>3. ASSUME NEW u \in Threads, pc'[u] # "idle" PROVE OnceFor(u)'
  BY <1>1, <1>2, <1>3, OnceStays
<1>. QED
  BY <1>3 DEF OnceInv

LEMMA OnceEnds ==
  ASSUME Sound, OnceInv, NEW k \in Networks, CardEnds(k), UNCHANGED <<ctxVars, callVars, execs>>,
         \A c \in Conns : /\ (k[c].icc <=> conn[c].icc) /\ k[c].toIcc = conn[c].toIcc
                          /\ k[c].toPcd # <<>> => Replying(c) \/ conn[c].toPcd # <<>>
  PROVE OnceInv'
<1>1. \A c \in Conns : conn'[c] = IF k[c].icc THEN CloseIcc(k[c]) ELSE k[c]
  BY DEF CardEnds, IccClosed
<1>2. \A c \in Conns : conn'[c].toIcc \in {k[c].toIcc, <<>>} /\ conn'[c].toPcd \in {k[c].toPcd, <<>>}
  <2>. SUFFICES ASSUME NEW c \in Conns
                PROVE conn'[c].toIcc \in {k[c].toIcc, <<>>} /\ conn'[c].toPcd \in {k[c].toPcd, <<>>}
    OBVIOUS
  <2>1. k[c] \in ConnType /\ reversed \in BOOLEAN
    BY DEF Networks, Sound, HostOK
  <2>2. CASE k[c].icc /\ k[c].pcd
    BY <1>1, <2>1, <2>2, IccClosedFields
  <2>3. CASE k[c].icc /\ ~k[c].pcd
    <3>1. conn'[c] = NoConn
      BY <1>1, <2>1, <2>3, IccClosedFields
    <3>. QED
      BY <3>1, ConnFields
  <2>4. CASE ~k[c].icc
    BY <1>1, <2>4
  <2>. QED
    BY <2>2, <2>3, <2>4
<1>3. \A c \in Conns : ~Replying(c)'
  BY CardStates DEF CardEnds, Replying
<1>. QED
  BY <1>2, <1>3, OnceCard DEF ctxVars

LEMMA OnceEndsHere ==
  ASSUME Sound, OnceInv, CardEnds(conn), UNCHANGED <<ctxVars, callVars, execs>> PROVE OnceInv'
BY OnceEnds DEF Sound, Inv, NetOK

LEMMA OnceHangup ==
  ASSUME Sound, OnceInv, AtWork, Hangup, UNCHANGED <<ctxVars, callVars, execs>> PROVE OnceInv'
<1>1. CASE CardEnds(conn)
  BY <1>1, OnceEndsHere
<1>2. CASE /\ vpicc' = CardWith(INVALID_SOCKET, "accept")
           /\ conn' = [conn EXCEPT ![vpicc.conn] = CloseIcc(@)]
  <2>1. PICK v \in Conns : v = vpicc.conn /\ conn[v].icc /\ conn[v] \in ConnType /\ reversed \in BOOLEAN
    BY Streams DEF AtWork, Sound, Inv, CardOK, HostOK, LinkInv, NetInv
  <2>2. conn'[v] = CloseIcc(conn[v]) /\ \A c \in Conns : c # v => conn'[c] = conn[c]
    BY <1>2, <2>1 DEF Sound, Inv, NetOK, Networks
  <2>3. conn'[v].toIcc = <<>> /\ conn'[v].toPcd \in {conn[v].toPcd, <<>>}
    <3>1. CASE conn[v].pcd
      BY <2>1, <2>2, <3>1, IccClosedFields
    <3>2. CASE ~conn[v].pcd
      <4>1. conn'[v] = NoConn
        BY <2>1, <2>2, <3>2, IccClosedFields
      <4>. QED
        BY <4>1, ConnFields
    <3>. QED
      BY <3>1, <3>2
  <2>4. \A c \in Conns : ~Replying(c)'
    BY <1>2, CardStates DEF Replying
  <2>. QED
    BY <2>2, <2>3, <2>4, OnceCard DEF ctxVars
<1>. QED
  BY <1>1, <1>2 DEF Hangup, Disconnected

LEMMA OnceStarts ==
  ASSUME Sound, OnceInv, CardStarts \/ CardAccepts PROVE OnceInv'
<1>1. UNCHANGED <<client_sock, callVars, execs>> /\ \A c \in Conns : ~Replying(c)'
  <2>1. vpicc'.pc \in {"accept", "hdr"}
    BY CardStates DEF CardStarts, CardAccepts, FreeConns, Backlog
  <2>. QED
    BY <2>1 DEF CardStarts, CardAccepts, ctxVars, Replying
<1>2. CASE UNCHANGED conn
  BY <1>1, <1>2, OnceCard
<1>3. ASSUME NEW v \in FreeConns, conn' = [conn EXCEPT ![v] = NewConn] PROVE OnceInv'
  <2>1. /\ v \in Conns /\ conn[v] = NoConn /\ conn'[v] = NewConn
        /\ \A c \in Conns : c # v => conn'[c] = conn[c]
    BY <1>3 DEF FreeConns, Sound, Inv, NetOK, Networks
  <2>. QED
    BY <1>1, <2>1, ConnFields, OnceCard
<1>4. ASSUME NEW v \in Backlog, conn' = [conn EXCEPT ![v].backlog = FALSE] PROVE OnceInv'
  <2>1. \A c \in Conns : conn'[c].toIcc = conn[c].toIcc /\ conn'[c].toPcd = conn[c].toPcd
    BY <1>4 DEF Sound, Inv, NetOK, Networks, ConnType
  <2>. QED
    BY <1>1, <2>1, OnceCard
<1>. QED
  BY <1>2, <1>3, <1>4 DEF CardStarts, CardAccepts

LEMMA OnceReplies ==
  ASSUME Sound, OnceInv, CardReplies PROVE OnceInv'
<1>1. /\ UNCHANGED <<ctxVars, callVars, execs>> /\ UNCHANGED <<client_sock, callVars, execs>>
      /\ \A c \in Conns : c = vpicc.conn => Replying(c)
  BY DEF CardReplies, ctxVars, Replying
<1>2. CASE CardEnds(conn)
  BY <1>1, <1>2, OnceEndsHere
<1>3. CASE /\ vpicc' = [vpicc EXCEPT !.pc = "hdr", !.ans = NoMsg]
           /\ \/ conn' = [conn EXCEPT ![vpicc.conn].rst = TRUE]
              \/ conn' = [conn EXCEPT ![vpicc.conn].toPcd = @ \o Wire(vpicc.ans)]
  <2>1. \A c \in Conns : conn'[c].toIcc = conn[c].toIcc /\ (c # vpicc.conn => conn'[c] = conn[c])
    BY <1>3 DEF Sound, Inv, NetOK, Networks, ConnType
  <2>2. \A c \in Conns : ~Replying(c)'
    BY <1>3 DEF Replying, Sound, Inv, IccOK, CardType
  <2>. QED
    BY <1>1, <2>1, <2>2, OnceCard
<1>. QED
  BY <1>2, <1>3 DEF CardReplies

LEMMA OnceDies ==
  ASSUME Sound, OnceInv, CardDies PROVE OnceInv'
<1>1. UNCHANGED <<ctxVars, callVars, execs>>
  BY DEF CardDies
<1>2. CASE CardEnds(conn)
  BY <1>1, <1>2, OnceEndsHere
<1>3. ASSUME vpicc.pc = "reply", NEW n \in Cuts,
             CardEnds([conn EXCEPT ![vpicc.conn].toPcd = @ \o Take(Wire(vpicc.ans), n)])
      PROVE OnceInv'
  <2>1. PICK v \in Conns : v = vpicc.conn /\ Replying(v) /\ vpicc.ans \in Answers
    BY <1>3 DEF Replying, Sound, Inv, CardOK
  <2>2. PICK b \in Seq(Bytes) : b = Take(Wire(vpicc.ans), n)
    <3>1. PICK w \in Seq(Bytes) : w = Wire(vpicc.ans) /\ Len(w) = 4
      BY <2>1, AnswerBytes
    <3>2. n \in Nat /\ n <= Len(w)
      BY <3>1, LinkAssumption
    <3>. QED
      BY <3>1, <3>2, Taken
  <2>3. PICK s \in Seq(Bytes) : s = conn[v].toPcd \o b
    <3>1. conn[v].toPcd \in Seq(Bytes)
      BY Streams
    <3>2. conn[v].toPcd \o b \in Seq(Bytes)
      BY <3>1
    <3>. QED
      BY <3>2
  <2>4. PICK k : k = [conn EXCEPT ![v].toPcd = s]
    OBVIOUS
  <2>5. conn \in Networks /\ conn[v] \in ConnType /\ [conn[v] EXCEPT !.toPcd = s] \in ConnType
    BY Streams, ConnsTyped DEF Sound, Inv, NetOK
  <2>6. k \in Networks /\ CardEnds(k)
    <3>1. k \in Networks
      BY <2>4, <2>5 DEF Networks
    <3>2. k = [conn EXCEPT ![vpicc.conn].toPcd = @ \o Take(Wire(vpicc.ans), n)]
      BY <2>1, <2>2, <2>3, <2>4
    <3>. QED
      BY <1>3, <3>1, <3>2
  <2>7. \A c \in Conns : (k[c].icc <=> conn[c].icc) /\ k[c].toIcc = conn[c].toIcc
                         /\ (c # v => k[c] = conn[c])
    BY <2>4, <2>5 DEF Networks, ConnType
  <2>. QED
    BY <1>1, <2>1, <2>6, <2>7, OnceEnds
<1>. QED
  BY <1>2, <1>3 DEF CardDies

LEMMA OnceLength ==
  ASSUME Sound, OnceInv, CardRecvLength PROVE OnceInv'
<1>1. /\ UNCHANGED <<ctxVars, callVars, execs>> /\ UNCHANGED <<client_sock, callVars, execs>>
      /\ UNCHANGED <<pc, op, seq, sock, need, got>>
      /\ vpicc.pc = "hdr" /\ AtWork
  BY DEF CardRecvLength, ctxVars, callVars, AtWork
<1>2. CASE Hangup
  BY <1>1, <1>2, OnceHangup
<1>3. CASE CardEnds(conn)
  BY <1>1, <1>3, OnceEndsHere
<1>4. CASE ~Hangup /\ ~CardEnds(conn)
  <2>1. PICK v \in Conns, s \in Seq(Bytes) : v = vpicc.conn /\ s = Arrived /\ s = conn[v].toIcc /\ s # <<>>
    BY <1>1, <1>4, Streams DEF CardRecvLength, Arrived, Sound, Inv, CardOK
  <2>2. PICK count \in RecvCounts(2) : count # 1
    BY <1>4 DEF CardRecvLength
  <2>3. 2 <= Len(s)
    <3>1. PICK n \in Nat : n = Len(s) /\ n >= 1
      BY <2>1, NotEmpty
    <3>. QED
      BY <2>1, <2>2, <3>1 DEF RecvCounts, Least
  <2>4. CardConsumes(2)
    BY <1>4 DEF CardRecvLength
  <2>5. PICK k \in Nat : k = 2 /\ k <= Len(conn[v].toIcc) /\ CardConsumes(k)
    BY <2>1, <2>3, <2>4
  <2>6. conn'[v].toIcc = Drop(conn[v].toIcc, k)
        /\ \A c \in Conns : conn'[c].toPcd = conn[c].toPcd /\ (c # v => conn'[c] = conn[c])
    BY <2>1, <2>5, ConsumedEffect
  <2>7. \A c \in Conns : ~Replying(c)'
    BY <1>4 DEF CardRecvLength, Replying, Sound, Inv, IccOK, CardType
  <2>8. \A u \in Threads : Answering(u)' => Answering(u)
    BY <1>1, <2>6, <2>7, CallersRest DEF Answering
  <2>9. \A u \in Threads : (OnWire(u)' => OnWire(u)) /\ (SentOnce(u) => SentOnce(u)')
    BY <1>1, <2>5, <2>6, WireRead
  <2>10. ASSUME NEW u \in Threads, pc'[u] # "idle" PROVE OnceFor(u)'
    BY <1>1, <2>8, <2>9, <2>10, OnceGoesOn
  <2>. QED
    BY <2>10 DEF OnceInv
<1>. QED
  BY <1>2, <1>3, <1>4

\* A command that the card runs and answers is the one that is waited for.
LEMMA RunsWhatIsAsked ==
  ASSUME Sound, NEW c \in Conns, conn[c].toIcc # <<>>, conn[c].toIcc[1][2] = 3, Asks(conn[c].toIcc[1][1]),
         NEW u \in Threads, Hears(u, c)
  PROVE conn[c].toIcc[1][1] = Request(u)
<1>1. PICK s \in Seq(Bytes) : s = conn[c].toIcc
  BY Streams
<1>2. ~Silent(s)
  <2>1. 1 \in 1 .. Len(s)
    BY <1>1, NotEmpty
  <2>. QED
    BY <1>1, <2>1 DEF Silent
<1>3. Awaited(c) /\ Request(u) \in Commands
  BY AwaitedAll, CommandsOf DEF Sound, LinkInv
<1>4. AskedLast(Request(u), s)
  BY <1>1, <1>2, <1>3 DEF Awaited, AwaitsHeader, AwaitsBody
<1>. QED
  BY <1>1, <1>3, <1>4, AskedFirst

\* The bytes of an APDU that the card takes are all there is of it.
LEMMA TakenWhole ==
  ASSUME Sound, NEW t \in Threads, SentOnce(t), seq'[t] = seq[t], NEW v \in Conns,
         conn[v].toIcc # <<>>, Mine(t, conn[v].toIcc[1][1]), conn[v].toIcc[1][2] = 3,
         NEW k \in Nat, k = 2, k <= Len(conn[v].toIcc),
         conn'[v].toIcc = Drop(conn[v].toIcc, k), \A c \in Conns : c # v => conn'[c] = conn[c]
  PROVE ~OnWire(t)'
<1>1. PICK s \in Seq(Bytes) : s = conn[v].toIcc /\ InOrder(s)
  BY Streams DEF Sound, LinkInv, FramesInv
<1>2. 1 \in 1 .. Len(s)
  BY <1>1, NotEmpty
<1>. SUFFICES ASSUME NEW c \in Conns, NEW i \in 1 .. Len(conn'[c].toIcc), Mine(t, conn[c].toIcc[i][1])'
              PROVE FALSE
  BY DEF OnWire
<1>3. PICK j : j = (IF c = v THEN i + k ELSE i)
  OBVIOUS
<1>4. /\ j \in 1 .. Len(conn[c].toIcc) /\ Mine(t, conn[c].toIcc[j][1])
      /\ conn[c].toIcc[j][2] \in 1 .. 4
  <2>1. \A d \in Conns : d # v => conn'[d] = conn[d]
    OBVIOUS
  <2>2. \A d \in Conns : \A h \in 1 .. Len(conn'[d].toIcc) : Mine(t, conn[d].toIcc[h][1])' =>
          LET g == IF d = v THEN h + k ELSE h
          IN /\ g \in 1 .. Len(conn[d].toIcc) /\ conn'[d].toIcc[h] = conn[d].toIcc[g]
             /\ Mine(t, conn[d].toIcc[g][1]) /\ conn[d].toIcc[g][2] \in 1 .. 4
    BY <2>1, WireRead, SMTT(60)
  <2>. QED
    BY <1>3, <2>2
<1>5. c = v /\ j - conn[c].toIcc[j][2] = 1 - conn[v].toIcc[1][2]
  BY <1>1, <1>2, <1>4 DEF SentOnce
<1>6. PICK p \in 1 .. 4 : p = s[j][2]
  BY <1>1, <1>4, <1>5
<1>7. j = i + 2 /\ i \in Nat /\ i >= 1
  BY <1>3, <1>5
<1>8. j - p = 1 - 3
  BY <1>1, <1>5, <1>6
<1>. QED
  BY <1>6, <1>7, <1>8

LEMMA OnceBody ==
  ASSUME ~Short, Sound, OnceInv, CardRecvBody PROVE OnceInv'
<1>1. /\ UNCHANGED <<ctxVars, callVars>>
      /\ UNCHANGED <<client_sock, pc, op, seq, sock, need, got>>
      /\ vpicc.pc = "body" /\ AtWork
  BY DEF CardRecvBody, ctxVars, callVars, AtWork
<1>2. CASE Hangup /\ UNCHANGED execs
  BY <1>1, <1>2, OnceHangup
<1>3. CASE ~Hangup
  <2>1. PICK m \in Commands, v \in Conns :
          /\ v = vpicc.conn /\ conn[v].toIcc # <<>>
          /\ conn[v].toIcc[1][1] = m /\ conn[v].toIcc[1][2] = 3
          /\ BodyLen(m) <= Len(conn[v].toIcc)
          /\ CardConsumes(BodyLen(m))
          /\ IF BodyLen(m) = 1 THEN DoControl(m) ELSE DoApdu(m)
    BY <1>3, CommandReceived
  <2>2. PICK k \in Nat : k = BodyLen(m) /\ k <= Len(conn[v].toIcc) /\ CardConsumes(k)
    <3>1. BodyLen(m) \in Nat
      BY BodyLens
    <3>. QED
      BY <2>1, <3>1
  <2>3. conn'[v].toIcc = Drop(conn[v].toIcc, k)
        /\ \A c \in Conns : conn'[c].toPcd = conn[c].toPcd /\ (c # v => conn'[c] = conn[c])
    BY <2>1, <2>2, ConsumedEffect
  <2>4. \A u \in Threads : (OnWire(u)' => OnWire(u)) /\ (SentOnce(u) => SentOnce(u)')
    BY <1>1, <2>2, <2>3, WireRead
  <2>5. vpicc'.conn = v /\ (~Asks(m) => ~Replying(v)') /\ \A c \in Conns : c # v => ~Replying(c)'
    BY <1>1, <2>1, CommandEffect DEF Replying
  <2>6. ASSUME NEW u \in Threads, Answering(u)', ~Answering(u) PROVE m = Request(u)
    <3>1. PICK c \in Conns : Hears(u, c)' /\ (Replying(c)' \/ conn'[c].toPcd # <<>>)
      BY <2>6 DEF Answering
    <3>2. Hears(u, c)
      BY <1>1, <3>1, CallersRest
    <3>3. c = v /\ Replying(v)'
      BY <2>3, <2>5, <2>6, <3>1, <3>2 DEF Answering
    <3>. QED
      BY <2>1, <2>5, <3>2, <3>3, RunsWhatIsAsked
  <2>7. m.kind \in CommandKinds /\ m.by \in Threads /\ (BodyLen(m) = 1 <=> m.kind \in ControlKinds)
        /\ m # NoMsg
    BY LinkAssumption DEF Commands, Messages, BodyLen
  <2>8. \A u \in Threads : m = Request(u) /\ op[u] = "transmit" => Mine(u, m)
    BY DEF Request, Cmd, Mine
  <2>9. ASSUME NEW u \in Threads, pc'[u] # "idle", ~Mine(u, m) PROVE OnceFor(u)'
    <3>1. execs'[u] = execs[u]
      <4>1. CASE BodyLen(m) = 1
        BY <2>1, <4>1 DEF DoControl
      <4>2. CASE BodyLen(m) # 1
        <5>1. m.kind = "APDU"
          BY <2>7, <4>2 DEF CommandKinds
        <5>2. execs \in [Threads -> 0 .. 2]
          BY DEF Sound, Inv, IccOK
        <5>. QED
          BY <2>1, <2>7, <2>9, <4>2, <5>1, <5>2 DEF DoApdu, Mine
      <4>. QED
        BY <4>1, <4>2
    <3>2. op[u] = "transmit" /\ Answering(u)' => Answering(u)
      BY <2>6, <2>8, <2>9
    <3>. QED
      BY <1>1, <2>4, <2>9, <3>1, <3>2, OnceGoesOn
  <2>10. ASSUME NEW u \in Threads, pc'[u] # "idle", Mine(u, m) PROVE OnceFor(u)'
    <3>1. OnceFor(u) /\ OnWire(u)
      <4>1. PICK s \in Seq(Bytes) : s = conn[v].toIcc
        BY Streams
      <4>2. 1 \in 1 .. Len(s)
        BY <2>1, <4>1, NotEmpty
      <4>. QED
        BY <1>1, <2>1, <2>10, <4>1, <4>2 DEF OnceInv, OnWire
    <3>2. op[u] = "transmit" /\ pc[u] \notin Early /\ execs[u] = 0 /\ SentOnce(u)
      BY <3>1 DEF OnceFor
    <3>3. m.kind = "APDU" /\ m.by = u /\ m.n = seq[u] /\ BodyLen(m) = 2
      BY <2>10 DEF Mine, BodyLen, ControlKinds
    <3>4. execs'[u] = 1
      <4>1. execs \in [Threads -> 0 .. 2]
        BY DEF Sound, Inv, IccOK
      <4>2. DoApdu(m)
        BY <2>1, <3>3
      <4>3. Least(0 + 1, 2) = 1
        BY DEF Least
      <4>. QED
        BY <2>7, <3>2, <3>3, <4>1, <4>2, <4>3 DEF DoApdu
    <3>5. ~OnWire(u)'
      BY <1>1, <2>1, <2>2, <2>3, <2>10, <3>2, <3>3, TakenWhole
    <3>6. SentOnce(u)'
      BY <2>4, <3>2
    <3>. QED
      BY <1>1, <3>2, <3>4, <3>5, <3>6 DEF OnceFor
  <2>. QED
    BY <2>9, <2>10 DEF OnceInv
<1>. QED
  BY <1>2, <1>3 DEF CardRecvBody, Hangup, Arrived

LEMMA OnceInit == Init => OnceInv
BY DEF Init, OnceInv

LEMMA OnceStep ==
  ASSUME ~Short, Sound, OnceInv, [Next]_vars PROVE OnceInv'
<1>1. CASE CreateChannel \/ CloseChannel \/ PcdDies
  <2>1. \A t \in Threads : pc'[t] = "idle"
    BY <1>1 DEF CreateChannel, CloseChannel, PcdDies, AllIdle, callVars
  <2>. QED
    BY <2>1 DEF OnceInv
<1>2. ASSUME NEW t \in Threads, NEW o \in OpsOf[t], Call(t, o) PROVE OnceInv'
  <2>1. o \in IfdOps
    BY LinkAssumption DEF Sound, HostOK
  <2>. QED
    BY <1>2, <2>1, OnceCall
<1>3. ASSUME NEW t \in Threads, Step(t), reversed' = reversed PROVE OnceInv'
  BY <1>3, OnceConnect, OnceElsewhere, OncePowerSend, OnceSend, OnceReceive, OnceLateEject DEF Step
<1>4. CASE CardStep \/ CardStarts \/ CardDies
  BY <1>4, OnceStarts, OnceLength, OnceBody, OnceReplies, OnceDies DEF CardStep
<1>5. CASE UNCHANGED vars
  <2>1. UNCHANGED <<client_sock, callVars, execs>> /\ UNCHANGED <<conn, vpicc>>
    BY <1>5 DEF vars, linkVars, ctxVars, cardVars
  <2>. QED
    BY <2>1, OnceCard DEF Replying
<1>. QED
  BY <1>1, <1>2, <1>3, <1>4, <1>5 DEF Next

-----------------------------------------------------------------------------
\* The link implements the channel of CardChannel.

\* One caller's part of the channel changes in a way the channel allows.
Allowed(t) ==
  \/ Stage(t) = "none" /\ Stage(t)' = "sent" /\ Outcome(t)' = "none"
  \/ Stage(t) = "none" /\ Stage(t)' = "none" /\ Outcome(t)' = "none"
  \/ Stage(t) = "sent" /\ Stage(t)' = "executed" /\ Outcome(t)' = Outcome(t)
  \/ Stage(t) = "executed" /\ Stage(t)' = "none" /\ Outcome(t)' = "own"
  \/ Stage(t) # "none" /\ Stage(t)' = "none" /\ Outcome(t)' = "failed"
  \/ Stage(t)' = Stage(t) /\ Outcome(t)' = Outcome(t)

Rests(t) == Stage(t)' = Stage(t) /\ Outcome(t)' = Outcome(t)

LEMMA OneMoves ==
  ASSUME NEW t \in Threads, Allowed(t), \A u \in Threads \ {t} : Rests(u)
  PROVE [Channel!Next]_(Channel!vars)
<1>. DEFINE stage == [u \in Threads |-> Stage(u)]
<1>. DEFINE answer == [u \in Threads |-> Outcome(u)]
<1>1. ASSUME NEW x, Stage(t)' = x PROVE stage' = [stage EXCEPT ![t] = x]
  BY <1>1 DEF Rests
<1>2. ASSUME NEW x, Outcome(t)' = x PROVE answer' = [answer EXCEPT ![t] = x]
  BY <1>2 DEF Rests
<1>3. stage[t] = Stage(t) /\ answer[t] = Outcome(t)
  OBVIOUS
<1>4. Stage(t)' = Stage(t) => stage' = stage
  BY DEF Rests
<1>5. Outcome(t)' = Outcome(t) => answer' = answer
  BY DEF Rests
<1>. HIDE DEF stage, answer
<1>6. \/ stage[t] = "none" /\ stage' = [stage EXCEPT ![t] = "sent"] /\ answer' = [answer EXCEPT ![t] = "none"]
      \/ stage[t] = "none" /\ answer' = [answer EXCEPT ![t] = "none"] /\ stage' = stage
      \/ stage[t] = "sent" /\ stage' = [stage EXCEPT ![t] = "executed"] /\ answer' = answer
      \/ stage[t] = "executed" /\ stage' = [stage EXCEPT ![t] = "none"] /\ answer' = [answer EXCEPT ![t] = "own"]
      \/ stage[t] # "none" /\ stage' = [stage EXCEPT ![t] = "none"] /\ answer' = [answer EXCEPT ![t] = "failed"]
      \/ stage' = stage /\ answer' = answer
  BY <1>1, <1>2, <1>3, <1>4, <1>5 DEF Allowed
<1>. QED
  BY <1>6 DEF Channel!Next, Channel!vars, Channel!Submit, Channel!Forget, Channel!Execute,
              Channel!Answered, Channel!Failed, stage, answer

LEMMA NoneMoves ==
  ASSUME \A u \in Threads : Rests(u) PROVE [Channel!Next]_(Channel!vars)
BY DEF Rests, Channel!vars

\* Who neither enters nor leaves a call, and is not served, rests.
LEMMA Resting ==
  ASSUME NEW u \in Threads, op'[u] = op[u], res'[u] = res[u], execs'[u] = execs[u],
         pc'[u] = "idle" <=> pc[u] = "idle"
  PROVE Rests(u)
BY DEF Rests, Stage, Outcome, Transmits

LEMMA RefineCall ==
  ASSUME Sound, NEW t \in Threads, NEW o, Call(t, o) PROVE [Channel!Next]_(Channel!vars)
<1>1. /\ pc \in [Threads -> PCs] /\ op \in [Threads -> IfdOps] /\ execs \in [Threads -> 0 .. 2]
      /\ res \in [Threads -> [code : Codes, data : Contents, powered : BOOLEAN]]
  BY DEF Sound, Inv, CallOK, IccOK
<1>2. /\ pc[t] = "idle" /\ pc'[t] # "idle" /\ op'[t] = o /\ execs'[t] = 0 /\ res'[t] = NoRes
      /\ \A u \in Threads \ {t} : pc'[u] = pc[u] /\ op'[u] = op[u] /\ execs'[u] = execs[u] /\ res'[u] = res[u]
  BY <1>1 DEF Call, Goto
<1>3. Outcome(t)' = "none" /\ Stage(t) = "none" /\ Stage(t)' \in {"none", "sent"}
  BY <1>2 DEF Outcome, Stage, Transmits, NoRes
<1>4. Allowed(t)
  BY <1>3 DEF Allowed
<1>5. \A u \in Threads \ {t} : Rests(u)
  BY <1>2, Resting
<1>. QED
  BY <1>4, <1>5, OneMoves

\* A call returns: with an answer only if the card has executed the APDU.
LEMMA RefineReturn ==
  ASSUME Sound, OnceInv, NEW t \in Threads, pc[t] # "idle", UNCHANGED execs,
         NEW code, NEW data, NEW powered, Return(t, code, data, powered),
         code # "none", data \in {"none", "empty", "own", "cut"},
         data \in {"own", "cut"} => got[t] # <<>>
  PROVE [Channel!Next]_(Channel!vars)
<1>1. pc \in [Threads -> PCs]
      /\ res \in [Threads -> [code : Codes, data : Contents, powered : BOOLEAN]]
  BY DEF Sound, Inv, CallOK
<1>2. /\ pc'[t] = "idle" /\ res'[t].code = code /\ res'[t].data = data /\ UNCHANGED op
      /\ \A u \in Threads \ {t} : pc'[u] = pc[u] /\ res'[u] = res[u]
  BY <1>1 DEF Return
<1>3. \A u \in Threads \ {t} : Rests(u)
  BY <1>2, Resting
<1>4. Stage(t)' = "none"
  BY <1>2 DEF Stage, Transmits
<1>5. CASE op[t] # "transmit"
  <2>1. Stage(t) = "none" /\ Outcome(t)' = "none"
    BY <1>2, <1>5 DEF Stage, Transmits, Outcome
  <2>. QED
    BY <1>3, <1>4, <2>1, OneMoves DEF Allowed
<1>6. CASE op[t] = "transmit" /\ data \in {"own", "cut"}
  <2>1. execs[t] = 1
    BY <1>6 DEF OnceInv, OnceFor
  <2>2. Stage(t) = "executed" /\ Outcome(t)' = "own"
    BY <1>2, <1>6, <2>1 DEF Stage, Transmits, Outcome
  <2>. QED
    BY <1>3, <1>4, <2>2, OneMoves DEF Allowed
<1>7. CASE op[t] = "transmit" /\ data \in {"none", "empty"}
  <2>1. Stage(t) # "none" /\ Outcome(t)' = "failed"
    BY <1>2, <1>7 DEF Stage, Transmits, Outcome
  <2>. QED
    BY <1>3, <1>4, <2>1, OneMoves DEF Allowed
<1>. QED
  BY <1>5, <1>6, <1>7

LEMMA RefineTransmit ==
  ASSUME Sound, OnceInv, NEW t \in Threads, pc[t] # "idle", UNCHANGED execs, ReturnTransmit(t)
  PROVE [Channel!Next]_(Channel!vars)
<1>1. PICK code, data, powered :
        /\ Return(t, code, data, powered) /\ code = CodeOf(t, r[t], got[t])
        /\ data = IF code \in {"SUCCESS", "PRESENT"} THEN Content(t, got[t]) ELSE "none"
  BY DEF ReturnTransmit
<1>2. code # "none"
  BY <1>1 DEF CodeOf
<1>3. got[t] \in Seq(Bytes) /\ (got[t] # <<>> => BodyTo(t, got[t]))
  BY DEF Sound, Inv, CallOK, LinkInv, GotInv
<1>4. Content(t, got[t]) \in {"empty", "own", "cut"} /\ (got[t] = <<>> => Content(t, got[t]) = "empty")
  BY <1>3, ContentIsOwn DEF Content
<1>. QED
  BY <1>1, <1>2, <1>4, RefineReturn

\* A caller moves inside its call.
LEMMA RefineMove ==
  ASSUME Sound, NEW t \in Threads, pc[t] # "idle", NEW l \in PCs \ {"idle"}, Goto(t, l),
         UNCHANGED <<op, res, execs>>
  PROVE [Channel!Next]_(Channel!vars)
<1>1. pc \in [Threads -> PCs] /\ \A u \in Threads : pc'[u] = "idle" <=> pc[u] = "idle"
  BY DEF Sound, Inv, CallOK, Goto
<1>. QED
  BY <1>1, Resting, NoneMoves

LEMMA RefineStep ==
  ASSUME Sound, OnceInv, NEW t \in Threads, Step(t) PROVE [Channel!Next]_(Channel!vars)
<1>1. UNCHANGED execs /\ pc[t] # "idle"
  BY DEF Step, Connect, Lock, PowerSend, PowerUnlock, Send, RecvCall, RecvHeader, RecvBody, Unlock,
         LateEject, cardVars
<1>2. CASE ReturnTransmit(t)
  BY <1>1, <1>2, RefineTransmit
<1>3. CASE \E code \in {"NOT_PRESENT", "COMM_ERROR", "SUCCESS"} : Return(t, code, "none", FALSE)
  BY <1>1, <1>3, RefineReturn
<1>4. CASE (\E l \in PCs \ {"idle"} : Goto(t, l)) /\ UNCHANGED <<op, res>>
  BY <1>1, <1>4, RefineMove
<1>5. CASE Connect(t) \/ PowerUnlock(t)
  BY <1>3, <1>4, <1>5 DEF Connect, PowerUnlock, PCs
<1>6. CASE Unlock(t) \/ LateEject(t)
  BY <1>2, <1>4, <1>6 DEF Unlock, LateEject, PCs
<1>7. CASE Lock(t) \/ PowerSend(t) \/ RecvCall(t) \/ RecvBody(t)
  BY <1>4, <1>7 DEF Lock, PowerSend, RecvCall, RecvBody, PCs
<1>8. CASE Send(t) \/ RecvHeader(t)
  BY <1>4, <1>8 DEF Send, RecvHeader, PCs
<1>. QED
  BY <1>5, <1>6, <1>7, <1>8 DEF Step

\* The card executes the APDU of a caller whose APDU was not executed yet.
LEMMA Executes ==
  ASSUME ~Short, Sound, OnceInv, CardRecvBody
  PROVE \/ UNCHANGED execs
        \/ \E u \in Threads : /\ \A x \in Threads \ {u} : execs'[x] = execs[x]
                              /\ pc[u] # "idle" => op[u] = "transmit" /\ execs[u] = 0 /\ execs'[u] = 1
<1>1. CASE Hangup /\ UNCHANGED execs
  BY <1>1
<1>2. CASE ~Hangup
  <2>1. PICK m \in Commands, v \in Conns :
          /\ conn[v].toIcc # <<>> /\ conn[v].toIcc[1][1] = m
          /\ IF BodyLen(m) = 1 THEN DoControl(m) ELSE DoApdu(m)
    BY <1>2, CommandReceived
  <2>2. CASE BodyLen(m) = 1
    BY <2>1, <2>2 DEF DoControl
  <2>3. CASE BodyLen(m) # 1
    <3>1. m.kind = "APDU" /\ m.by \in Threads /\ m # NoMsg /\ DoApdu(m) /\ execs \in [Threads -> 0 .. 2]
      BY <2>1, <2>3, LinkAssumption
      DEF Commands, CommandKinds, BodyLen, Messages, Sound, Inv, IccOK
    <3>2. CASE m.n # seq[m.by]
      BY <3>1, <3>2 DEF DoApdu
    <3>3. CASE m.n = seq[m.by]
      <4>1. execs' = [execs EXCEPT ![m.by] = Least(@ + 1, 2)] /\ Mine(m.by, m)
        BY <3>1, <3>3 DEF DoApdu, Mine
      <4>2. OnWire(m.by)
        <5>1. PICK s \in Seq(Bytes) : s = conn[v].toIcc
          BY Streams
        <5>2. 1 \in 1 .. Len(s)
          BY <2>1, <5>1, NotEmpty
        <5>. QED
          BY <2>1, <4>1, <5>1, <5>2 DEF OnWire
      <4>3. pc[m.by] # "idle" => op[m.by] = "transmit" /\ execs[m.by] = 0
        BY <3>1, <4>2 DEF OnceInv, OnceFor
      <4>4. Least(0 + 1, 2) = 1
        BY DEF Least
      <4>. QED
        BY <3>1, <4>1, <4>3, <4>4
    <3>. QED
      BY <3>2, <3>3
  <2>. QED
    BY <2>2, <2>3
<1>. QED
  BY <1>1, <1>2 DEF CardRecvBody, Hangup, Arrived

LEMMA RefineCard ==
  ASSUME ~Short, Sound, OnceInv, CardStep \/ CardStarts \/ CardDies \/ UNCHANGED vars
  PROVE [Channel!Next]_(Channel!vars)
<1>1. UNCHANGED <<pc, op, res>>
  BY DEF CardStep, CardAccepts, CardRecvLength, CardRecvBody, CardReplies, CardStarts, CardDies,
         callVars, vars, linkVars
<1>2. CASE UNCHANGED execs
  BY <1>1, <1>2, Resting, NoneMoves
<1>3. ASSUME NEW u \in Threads, \A x \in Threads \ {u} : execs'[x] = execs[x],
             pc[u] # "idle" => op[u] = "transmit" /\ execs[u] = 0 /\ execs'[u] = 1
      PROVE [Channel!Next]_(Channel!vars)
  <2>1. \A x \in Threads \ {u} : Rests(x)
    BY <1>1, <1>3, Resting
  <2>2. Outcome(u)' = Outcome(u)
    BY <1>1 DEF Outcome
  <2>3. CASE pc[u] = "idle"
    BY <1>1, <2>1, <2>2, <2>3, OneMoves DEF Allowed, Stage, Transmits
  <2>4. CASE pc[u] # "idle"
    <3>1. Stage(u) = "sent" /\ Stage(u)' = "executed"
      BY <1>1, <1>3, <2>4 DEF Stage, Transmits
    <3>. QED
      BY <2>1, <2>2, <3>1, OneMoves DEF Allowed
  <2>. QED
    BY <2>3, <2>4
<1>4. CASE CardRecvBody
  BY <1>2, <1>3, <1>4, Executes
<1>5. CASE ~CardRecvBody
  <2>1. UNCHANGED execs
    BY <1>5 DEF CardStep, CardAccepts, CardRecvLength, CardReplies, CardStarts, CardDies,
                vars, linkVars, cardVars
  <2>. QED
    BY <1>2, <2>1
<1>. QED
  BY <1>4, <1>5

LEMMA RefineContext ==
  ASSUME CreateChannel \/ CloseChannel \/ PcdDies PROVE [Channel!Next]_(Channel!vars)
<1>1. CASE CreateChannel \/ CloseChannel
  <2>1. UNCHANGED <<pc, op, res, execs>>
    BY <1>1 DEF CreateChannel, CloseChannel, callVars, cardVars
  <2>. QED
    BY <2>1, Resting, NoneMoves
<1>2. CASE PcdDies
  <2>1. \A u \in Threads : Stage(u)' = "none" /\ Outcome(u)' = "none"
    BY <1>2 DEF PcdDies, Stage, Transmits, Outcome, NoRes
  <2>2. Channel!Gone
    BY <2>1 DEF Channel!Gone
  <2>. QED
    BY <2>2 DEF Channel!Next
<1>. QED
  BY <1>1, <1>2

\* The link implements CardChannel for any number of callers and connections,
\* where messages arrive whole and calls are excluded: an APDU is executed at
\* most once, whatever is lost or torn down, and an answer that is handed out
\* is the answer to an APDU that was executed in the same call.
THEOREM LinkImplementsChannel ==
  ~Short /\ CallsExcluded => (Spec => ImplementsChannel)
<1>. SUFFICES ASSUME ~Short, CallsExcluded PROVE Spec => ImplementsChannel
  OBVIOUS
<1>1. Init => Channel!Init
  BY DEF Init, Channel!Init, Stage, Transmits, Outcome, NoRes
<1>2. Linked /\ OnceInv /\ [Next]_vars => (Linked /\ OnceInv)'
  BY LinkedIsSound, LinkedStep, OnceStep
<1>3. Linked /\ OnceInv /\ [Next]_vars => [Channel!Next]_(Channel!vars)
  <2>. SUFFICES ASSUME Sound, OnceInv, [Next]_vars PROVE [Channel!Next]_(Channel!vars)
    BY LinkedIsSound
  <2>. QED
    BY RefineCall, RefineStep, RefineCard, RefineContext DEF Next
<1>. QED
  BY <1>1, <1>2, <1>3, LinkedInit, OnceInit, PTL DEF Spec, ImplementsChannel, Channel!Spec
-----------------------------------------------------------------------------
\* Only dead connections are dropped.

\* The card behind the connection of the context has closed it, if there is one.
Gone == client_sock \in Conns => ~conn[client_sock].icc

\* An exchange that failed has found its connection dead: it reads from the
\* connection of the context, and only a dead one gives it nothing.
DeadFor(t) ==
  /\ InRecv(t) => sock[t] = client_sock
  /\ pc[t] \in {"recv2", "in2"} /\ need[t] = 0 => Gone
  /\ pc[t] \in {"unlock", "eject"} /\ r[t] <= 0 /\ op[t] # "big" => Gone
  /\ pc[t] = "eject" => r[t] <= 0

DeadInv == \A t \in Threads : DeadFor(t)

\* The other end of a connection was closed.
LEMMA HangupEnds ==
  ASSUME Hangup PROVE CardEnds(conn) \/ \E d : conn' = [conn EXCEPT ![d] = CloseIcc(@)]
BY DEF Hangup, Disconnected

\* A card process that ends closes its end of every connection, and no other.
LEMMA CardEndsEnds ==
  ASSUME Sound, NEW k \in Networks, CardEnds(k), NEW c \in Conns, k[c].pcd
  PROVE conn'[c].pcd /\ ~conn'[c].icc /\ conn'[c].toPcd = k[c].toPcd /\ vpicc'.pc = "down"
<1>1. k[c] \in ConnType /\ conn'[c] = IF k[c].icc THEN CloseIcc(k[c]) ELSE k[c]
  BY DEF CardEnds, IccClosed, Networks
<1>2. vpicc'.pc = "down"
  BY CardStates DEF CardEnds
<1>. QED
  BY <1>1, <1>2, IccClosedFields DEF Sound, HostOK

\* A card process that is killed has sent a part of its reply.
LEMMA CutReply ==
  ASSUME Sound, vpicc.pc = "reply", NEW n \in Cuts
  PROVE \E k \in Networks, v \in Conns :
          /\ k = [conn EXCEPT ![vpicc.conn].toPcd = @ \o Take(Wire(vpicc.ans), n)]
          /\ v = vpicc.conn /\ vpicc.ans \in Answers /\ n \in 0 .. 4
          /\ k[v].toPcd = conn[v].toPcd \o Take(Wire(vpicc.ans), n)
          /\ k[v].pcd = conn[v].pcd /\ \A c \in Conns : c # v => k[c] = conn[c]
<1>1. PICK v \in Conns : v = vpicc.conn
  BY DEF Sound, Inv, CardOK
<1>2. vpicc.ans \in Answers /\ n \in 0 .. 4
  BY LinkAssumption DEF Sound, Inv, CardOK
<1>. DEFINE b == Take(Wire(vpicc.ans), n)
<1>3. b \in Seq(Bytes)
  <2>1. Wire(vpicc.ans) \in Seq(Bytes) /\ Len(Wire(vpicc.ans)) = 4
    BY <1>2, AnswerBytes
  <2>2. n \in Nat /\ n <= Len(Wire(vpicc.ans))
    BY <1>2, <2>1
  <2>. QED
    BY <2>1, <2>2, Taken
<1>. HIDE DEF b
<1>4. conn \in Networks /\ conn[v] \in ConnType /\ conn[v].toPcd \in Seq(Bytes)
  BY Streams DEF Sound, Inv, NetOK
<1>5. conn[v].toPcd \o b \in Seq(Bytes)
  BY <1>3, <1>4
<1>6. [conn[v] EXCEPT !.toPcd = conn[v].toPcd \o b] \in ConnType
  BY <1>4, <1>5, ConnsTyped
<1>7. PICK k : k = [conn EXCEPT ![v].toPcd = @ \o b]
  OBVIOUS
<1>8. /\ k \in Networks /\ k[v] = [conn[v] EXCEPT !.toPcd = conn[v].toPcd \o b]
      /\ \A c \in Conns : c # v => k[c] = conn[c]
  BY <1>4, <1>6, <1>7 DEF Networks
<1>9. k[v].pcd = conn[v].pcd /\ k[v].toPcd = conn[v].toPcd \o b
  BY <1>4, <1>8 DEF ConnType
<1>. QED
  BY <1>1, <1>2, <1>7, <1>8, <1>9 DEF b

\* The card side never closes the reader's end, and opens no connection the
\* reader has open.
LEMMA CardKeepsReader ==
  ASSUME Sound, CardStep \/ CardStarts \/ CardDies, NEW c \in Conns, conn[c].pcd
  PROVE conn'[c].pcd /\ (conn'[c].icc => conn[c].icc)
<1>0. conn \in Networks /\ conn[c] \in ConnType /\ reversed \in BOOLEAN
  BY Streams DEF Sound, HostOK, Inv, NetOK
<1>1. ASSUME NEW k \in ConnType, k.pcd PROVE CloseIcc(k).pcd /\ ~CloseIcc(k).icc
  BY <1>0, <1>1, IccClosedFields
<1>2. ASSUME NEW k \in Networks, CardEnds(k), k[c].pcd PROVE conn'[c].pcd /\ ~conn'[c].icc
  BY <1>2, CardEndsEnds
<1>3. CASE CardEnds(conn)
  BY <1>0, <1>2, <1>3
<1>4. CASE \E d : conn' = [conn EXCEPT ![d] = CloseIcc(@)]
  BY <1>0, <1>1, <1>4 DEF Networks
<1>5. CASE Hangup
  BY <1>3, <1>4, <1>5, HangupEnds
<1>6. CASE \E d \in FreeConns : conn' = [conn EXCEPT ![d] = NewConn]
  BY <1>0, <1>6, ConnFields DEF Networks, FreeConns
<1>7. ASSUME NEW d, \/ conn' = [conn EXCEPT ![d].backlog = FALSE]
                    \/ conn' = [conn EXCEPT ![d].rst = TRUE]
                    \/ \E b : conn' = [conn EXCEPT ![d].toPcd = b]
                    \/ \E b : conn' = [conn EXCEPT ![d].toIcc = b]
      PROVE conn'[c].pcd /\ (conn'[c].icc => conn[c].icc)
  BY <1>0, <1>7 DEF Networks, ConnType
<1>8. CASE CardStarts
  BY <1>6, <1>8 DEF CardStarts
<1>9. CASE CardAccepts
  BY <1>7, <1>9 DEF CardAccepts
<1>10. CASE CardRecvLength
  <2>1. Hangup \/ CardEnds(conn) \/ CardConsumes(2)
    BY <1>10 DEF CardRecvLength
  <2>. QED
    BY <1>3, <1>5, <1>7, <2>1 DEF CardConsumes
<1>11. CASE CardRecvBody
  <2>1. Hangup \/ \E k : CardConsumes(k)
    BY <1>11 DEF CardRecvBody
  <2>. QED
    BY <1>5, <1>7, <2>1 DEF CardConsumes
<1>12. CASE CardReplies
  BY <1>3, <1>7, <1>12 DEF CardReplies
<1>13. CASE CardDies
  <2>1. CASE CardEnds(conn)
    BY <1>3, <2>1
  <2>2. ASSUME vpicc.pc = "reply", NEW n \in Cuts,
               CardEnds([conn EXCEPT ![vpicc.conn].toPcd = @ \o Take(Wire(vpicc.ans), n)])
        PROVE conn'[c].pcd /\ (conn'[c].icc => conn[c].icc)
    <3>1. PICK k \in Networks : CardEnds(k) /\ k[c].pcd
      BY <2>2, CutReply
    <3>. QED
      BY <1>2, <3>1
  <2>. QED
    BY <1>13, <2>1, <2>2 DEF CardDies
<1>. QED
  BY <1>8, <1>9, <1>10, <1>11, <1>12, <1>13 DEF CardStep

\* When calls do not overlap, everyone but the caller of a step is idle.
LEMMA OthersIdle ==
  ASSUME OneCaller, CallersInv, NEW t \in Threads, pc[t] # "idle", NEW u \in Threads, u # t
  PROVE pc[u] = "idle"
BY DEF OneCaller, CallersInv

LEMMA StepMoves ==
  ASSUME NEW t \in Threads, Step(t) PROVE \E l : Goto(t, l)
<1>1. CASE Connect(t) \/ PowerUnlock(t) \/ Unlock(t) \/ LateEject(t)
  BY <1>1 DEF Connect, PowerUnlock, Unlock, LateEject, ReturnTransmit, Return, Goto
<1>2. CASE Lock(t) \/ PowerSend(t) \/ RecvCall(t) \/ RecvBody(t)
  BY <1>2 DEF Lock, PowerSend, RecvCall, RecvBody
<1>3. CASE Send(t) \/ RecvHeader(t)
  BY <1>3 DEF Send, RecvHeader
<1>. QED
  BY <1>1, <1>2, <1>3 DEF Step

LEMMA IdleIsDeadFor ==
  ASSUME NEW t \in Threads, pc'[t] = "idle" PROVE DeadFor(t)'
BY DEF DeadFor, InRecv

\* A caller that has not received anything yet.
LEMMA EarlyIsDeadFor ==
  ASSUME NEW t \in Threads, pc'[t] \in {"connect", "plock", "psend", "punlock", "lock", "send", "recv1"}
  PROVE DeadFor(t)'
BY DEF DeadFor, InRecv

LEMMA DeadSend ==
  ASSUME Sound, NEW t \in Threads, Send(t) PROVE DeadFor(t)'
<1>1. pc \in [Threads -> PCs] /\ r \in [Threads -> -1 .. 3]
  BY DEF Sound, Inv, CallOK
<1>2. CASE Goto(t, "recv1")
  BY <1>1, <1>2, EarlyIsDeadFor DEF Goto
<1>3. CASE SendFails /\ Eject(conn) /\ r' = [r EXCEPT ![t] = -1] /\ Goto(t, "unlock")
  <2>1. pc'[t] = "unlock" /\ client_sock' \notin Conns
    BY <1>1, <1>3, EjectEffect DEF Goto
  <2>. QED
    BY <2>1 DEF DeadFor, InRecv, Gone
<1>4. CASE op[t] = "big" /\ Goto(t, "unlock") /\ UNCHANGED op
  BY <1>1, <1>4 DEF Goto, DeadFor, InRecv
<1>. QED
  BY <1>2, <1>3, <1>4 DEF Send

LEMMA DeadRecvCall ==
  ASSUME Sound, DeadInv, NEW t \in Threads, RecvCall(t) PROVE DeadFor(t)'
<1>1. pc \in [Threads -> PCs] /\ sock \in [Threads -> SockType] /\ need \in [Threads -> 0 .. 2]
  BY DEF Sound, Inv, CallOK
<1>2. UNCHANGED <<client_sock, conn>> /\ sock'[t] = client_sock /\ DeadFor(t)
  BY <1>1 DEF RecvCall, ctxVars, DeadInv
<1>3. \/ pc'[t] = "in1"
      \/ pc[t] = "recv2" /\ pc'[t] = "in2" /\ need'[t] = need[t]
  BY <1>1 DEF RecvCall, Goto
<1>. QED
  BY <1>2, <1>3 DEF DeadFor, InRecv, Gone

LEMMA DeadHeader ==
  ASSUME Sound, DeadInv, NEW t \in Threads, RecvHeader(t) PROVE DeadFor(t)'
<1>1. /\ pc[t] = "in1" /\ pc \in [Threads -> PCs] /\ need \in [Threads -> 0 .. 2]
      /\ r \in [Threads -> -1 .. 3] /\ InRecv(t) /\ need[t] = 2
      /\ sock[t] = client_sock /\ UNCHANGED <<client_sock, op>>
  BY DEF RecvHeader, ctxVars, Sound, Inv, CallOK, LinkInv, GotInv, InRecv, DeadInv, DeadFor
<1>2. \A c \in Conns : conn'[c].icc = conn[c].icc
  BY RecvReads
<1>3. CASE WholeRecv(t) /\ Goto(t, "recv2")
           /\ need' \in {[need EXCEPT ![t] = k] : k \in Lengths(Take(Stream(t), need[t]))}
  <2>1. PICK s \in Seq(Bytes) : s = Stream(t) /\ sock[t] \in Conns /\ Len(s) >= 2
    BY <1>1, <1>3, StreamRead DEF WholeRecv
  <2>2. AnswerTo(t, s)
    <3>1. conn[sock[t]].toPcd # <<>>
      BY <2>1, StreamRead
    <3>. QED
      BY <1>1, <2>1, <3>1, Heard, StreamRead DEF AwaitsHeader
  <2>3. Lengths(Take(s, 2)) = {2}
    BY <2>1, <2>2, HeaderIsRead
  <2>4. need'[t] = 2 /\ pc'[t] = "recv2"
    BY <1>1, <1>3, <2>1, <2>3 DEF Goto
  <2>. QED
    BY <2>4 DEF DeadFor, InRecv
<1>4. CASE EofRecv(t) /\ Goto(t, "unlock")
  <2>1. pc'[t] = "unlock" /\ Gone'
    BY <1>1, <1>2, <1>4 DEF Goto, EofRecv, Gone
  <2>. QED
    BY <2>1 DEF DeadFor, InRecv
<1>5. CASE ErrorRecv(t) /\ Goto(t, "recv2")
  <2>1. pc'[t] = "recv2" /\ Gone'
    BY <1>1, <1>2, <1>5, ErrorMeansDead DEF Goto, Gone
  <2>. QED
    BY <2>1 DEF DeadFor, InRecv
<1>. QED
  BY <1>3, <1>4, <1>5 DEF RecvHeader

LEMMA DeadBody ==
  ASSUME Sound, DeadInv, NEW t \in Threads, RecvBody(t) PROVE DeadFor(t)'
<1>1. /\ pc[t] = "in2" /\ pc \in [Threads -> PCs] /\ need[t] \in 0 .. 2 /\ DeadFor(t)
      /\ r \in [Threads -> -1 .. 3] /\ sock[t] = client_sock /\ UNCHANGED <<client_sock, op>>
      /\ Goto(t, "unlock")
  BY DEF RecvBody, ctxVars, Sound, Inv, CallOK, InRecv, DeadInv, DeadFor
<1>2. \A c \in Conns : conn'[c].icc = conn[c].icc
  BY RecvReads
<1>3. pc'[t] = "unlock"
  BY <1>1 DEF Goto
<1>4. CASE r' = [r EXCEPT ![t] = need[t]]
  <2>1. r'[t] <= 0 => need[t] = 0
    BY <1>1, <1>4
  <2>2. need[t] = 0 => Gone'
    BY <1>1, <1>2 DEF DeadFor, Gone
  <2>. QED
    BY <1>3, <2>1, <2>2 DEF DeadFor, InRecv
<1>5. CASE EofRecv(t) \/ ErrorRecv(t)
  <2>1. Gone'
    BY <1>1, <1>2, <1>5, ErrorMeansDead DEF EofRecv, Gone
  <2>. QED
    BY <1>3, <2>1 DEF DeadFor, InRecv
<1>. QED
  BY <1>4, <1>5 DEF RecvBody

LEMMA DeadUnlock ==
  ASSUME Sound, DeadInv, NEW t \in Threads, Unlock(t) PROVE DeadFor(t)'
<1>1. pc \in [Threads -> PCs] /\ pc[t] = "unlock" /\ DeadFor(t)
      /\ UNCHANGED <<client_sock, conn, op>>
  BY DEF Unlock, ReturnTransmit, Return, Sound, Inv, CallOK, DeadInv
<1>2. CASE r[t] <= 0 /\ Goto(t, "eject") /\ UNCHANGED r
  <2>1. pc'[t] = "eject"
    BY <1>1, <1>2 DEF Goto
  <2>. QED
    BY <1>1, <1>2, <2>1 DEF DeadFor, InRecv, Gone
<1>3. CASE ReturnTransmit(t)
  BY <1>1, <1>3, IdleIsDeadFor DEF ReturnTransmit, Return
<1>. QED
  BY <1>2, <1>3 DEF Unlock

LEMMA DeadStep ==
  ASSUME Sound, CallersInv, OneCaller, DeadInv, [Next]_vars PROVE DeadInv'
<1>0. pc \in [Threads -> PCs]
  BY DEF Sound, Inv, CallOK
<1>1. CASE UNCHANGED <<callVars, client_sock>>
           /\ (client_sock \in Conns => (conn'[client_sock].icc => conn[client_sock].icc))
  BY <1>1 DEF callVars, DeadInv, DeadFor, InRecv, Gone
<1>2. CASE \A t \in Threads : pc'[t] = "idle"
  BY <1>2, IdleIsDeadFor DEF DeadInv
<1>3. CASE UNCHANGED vars
  BY <1>1, <1>3 DEF vars, linkVars, ctxVars
<1>4. CASE CreateChannel \/ CloseChannel \/ PcdDies
  BY <1>2, <1>4 DEF CreateChannel, CloseChannel, PcdDies, AllIdle, callVars
<1>5. CASE CardStep \/ CardStarts \/ CardDies
  <2>1. UNCHANGED <<callVars, client_sock>>
    BY <1>5 DEF CardStep, CardAccepts, CardRecvLength, CardRecvBody, CardReplies, CardStarts,
                CardDies, ctxVars
  <2>2. client_sock \in Conns => conn[client_sock].pcd
    BY DEF Sound, LinkInv, NetInv, EndsOK
  <2>. QED
    BY <1>1, <1>5, <2>1, <2>2, CardKeepsReader
<1>6. ASSUME NEW t \in Threads, NEW o \in OpsOf[t], Call(t, o) PROVE DeadInv'
  <2>1. UNCHANGED <<client_sock, conn, sock, need, r>> /\ \A u \in Threads \ {t} : op'[u] = op[u] /\ pc'[u] = pc[u]
    BY <1>6 DEF Call, ctxVars, Goto
  <2>2. DeadFor(t)'
    BY <1>0, <1>6, EarlyIsDeadFor DEF Call, Goto
  <2>3. \A u \in Threads \ {t} : DeadFor(u)'
    BY <2>1 DEF DeadInv, DeadFor, InRecv, Gone
  <2>. QED
    BY <2>2, <2>3 DEF DeadInv
<1>7. ASSUME NEW t \in Threads, Step(t) PROVE DeadInv'
  <2>1. pc[t] # "idle"
    BY <1>7 DEF Step, Connect, Lock, PowerSend, PowerUnlock, Send, RecvCall, RecvHeader, RecvBody,
                Unlock, LateEject
  <2>2. \A u \in Threads \ {t} : pc'[u] = pc[u]
    <3>1. PICK l : Goto(t, l)
      BY <1>7, StepMoves
    <3>. QED
      BY <3>1 DEF Goto
  <2>3. \A u \in Threads \ {t} : DeadFor(u)'
    BY <2>1, <2>2, OthersIdle, IdleIsDeadFor
  <2>4. CASE Connect(t) \/ Lock(t) \/ PowerSend(t) \/ PowerUnlock(t)
    <3>1. pc'[t] = "idle" \/ pc'[t] \in {"lock", "send", "psend", "punlock"}
      BY <1>0, <2>4 DEF Connect, Lock, PowerSend, PowerUnlock, Return, Goto
    <3>. QED
      BY <2>3, <3>1, IdleIsDeadFor, EarlyIsDeadFor DEF DeadInv
  <2>5. CASE LateEject(t)
    <3>1. pc'[t] = "idle"
      BY <1>0, <2>5 DEF LateEject, ReturnTransmit, Return
    <3>. QED
      BY <2>3, <3>1, IdleIsDeadFor DEF DeadInv
  <2>. QED
    BY <1>7, <2>3, <2>4, <2>5, DeadSend, DeadRecvCall, DeadHeader, DeadBody, DeadUnlock DEF Step, DeadInv
<1>. QED
  BY <1>3, <1>4, <1>5, <1>6, <1>7 DEF Next

LEMMA ConnectKeepsReader ==
  ASSUME Sound, ConnectSock \/ WaitForClient, NEW c \in Conns, conn[c].pcd PROVE conn'[c].pcd
<1>1. conn \in Networks /\ conn[c] \in ConnType
  BY Streams DEF Sound, Inv, NetOK
<1>2. CASE \E d \in FreeConns : conn' = [conn EXCEPT ![d] = NewConn]
  BY <1>1, <1>2, ConnFields DEF Networks, FreeConns
<1>3. ASSUME NEW d, conn' = [conn EXCEPT ![d].backlog = FALSE] PROVE conn'[c].pcd
  BY <1>1, <1>3 DEF Networks, ConnType
<1>. QED
  BY <1>2, <1>3 DEF ConnectSock, WaitForClient

LEMMA OnlyDeadIsDropped ==
  ASSUME Sound, DeadInv, [Next]_vars, open, open', NEW c \in Conns, conn[c].pcd, ~conn'[c].pcd
  PROVE ~conn[c].icc \/ \E t \in Threads : pc[t] = "eject" /\ op[t] = "big"
<1>1. conn'[c] # conn[c] /\ ~(UNCHANGED vars)
  BY DEF vars, linkVars
<1>2. PICK t \in Threads : Step(t)
  <2>1. ~(CreateChannel \/ CloseChannel \/ PcdDies)
    BY DEF CreateChannel, CloseChannel, PcdDies
  <2>2. ~(CardStep \/ CardStarts \/ CardDies)
    BY CardKeepsReader
  <2>3. \A t \in Threads : \A o \in OpsOf[t] : ~Call(t, o)
    BY <1>1 DEF Call
  <2>. QED
    BY <1>1, <2>1, <2>2, <2>3 DEF Next
<1>3. ~Connect(t)
  BY <1>1, ConnectKeepsReader DEF Connect
<1>4. \A m \in Commands : ~SendOk(m)
  BY SendEffect
<1>5. Request(t) \in Commands /\ PowerRequest(t) \in Commands
  BY RequestsTyped DEF Sound, Inv, CallOK
<1>6. \/ SendFails /\ Eject(conn)
      \/ LateEject(t)
  <2>1. ~(RecvHeader(t) \/ RecvBody(t))
    BY RecvReads
  <2>2. ~(Lock(t) \/ PowerUnlock(t) \/ RecvCall(t) \/ Unlock(t))
    BY <1>1 DEF Lock, PowerUnlock, RecvCall, Unlock
  <2>. QED
    BY <1>1, <1>2, <1>3, <1>4, <1>5, <2>1, <2>2 DEF Step, PowerSend, Send
<1>7. CASE SendFails /\ Eject(conn)
  <2>1. c = client_sock
    BY <1>1, <1>7, EjectEffect
  <2>. QED
    BY <1>7, <2>1 DEF SendFails
<1>8. CASE LateEject(t)
  <2>1. c = client_sock
    BY <1>1, <1>8, EjectEffect DEF LateEject
  <2>2. pc[t] = "eject" /\ DeadFor(t)
    BY <1>8 DEF LateEject, DeadInv
  <2>. QED
    BY <2>1, <2>2 DEF DeadFor, Gone
<1>. QED
  BY <1>6, <1>7, <1>8

\* EjectOnlyDead: where messages arrive whole and calls do not overlap, the
\* reader drops a connection only when the card has left it, or to refuse a
\* message that is too long.  An answer that is not empty ends in a return
\* value above zero, so the eject of vicc_transmit never hits a living card.
THEOREM OnlyDeadIsEjected ==
  ~Short /\ CallsExcluded => (Spec => EjectOnlyDead)
<1>. SUFFICES ASSUME ~Short, CallsExcluded PROVE Spec => EjectOnlyDead
  OBVIOUS
<1>. DEFINE Holds == Linked /\ (OneCaller => DeadInv)
<1>1. Init => Holds
  <2>1. Init => DeadInv
    BY DEF Init, DeadInv, DeadFor, InRecv
  <2>. QED
    BY <2>1, LinkedInit
<1>2. Holds /\ [Next]_vars => Holds'
  <2>1. [Next]_vars => (OneCaller' <=> OneCaller)
    BY DEF Next, vars, OneCaller
  <2>2. Linked => Sound /\ CallersInv
    BY LinkedIsSound DEF Linked
  <2>. QED
    BY <2>1, <2>2, LinkedStep, DeadStep
<1>3. Holds /\ [Next]_vars =>
        [OneCaller =>
           \A c \in Conns : conn[c].pcd /\ ~conn'[c].pcd /\ open' /\ open
             => \/ ~conn[c].icc
                \/ \E t \in Threads : pc[t] = "eject" /\ op[t] = "big"]_vars
  BY LinkedIsSound, OnlyDeadIsDropped
<1>. QED
  BY <1>1, <1>2, <1>3, PTL DEF Spec, EjectOnlyDead
-----------------------------------------------------------------------------
\* A power up or reset reaches the card that sends the ATR.

Powers(m)  == m.kind \in {"OFF", "ON", "RESET"}
NoPower(s) == \A i \in 1 .. Len(s) : ~Powers(s[i][1])

\* The last power command in s is p.
LastPower(p, s) ==
  \E i \in 1 .. Len(s) : /\ s[i][1] = p
                         /\ \A j \in i .. Len(s) : Powers(s[j][1]) => s[j][1] = p

\* The card on connection c answers the next request when its last power
\* command is p: it waits for the card, or the card has executed it.
PowerLast(p, c) ==
  \/ LastPower(p, conn[c].toIcc)
  \/ NoPower(conn[c].toIcc) /\ AtWork /\ vpicc.conn = c /\ lastPower = p

\* What comes from the card was made when it had executed t's power command.
TellsPower(t) ==
  \A c \in Conns : c = client_sock =>
    /\ Replying(c) => vpicc.ans.pw = PowerRequest(t)
    /\ conn[c].toPcd # <<>> => conn[c].toPcd[1][1].pw = PowerRequest(t)

AfterPower(t) == \/ pc[t] \in {"lock", "send", "recv1", "in1"}
                 \/ pc[t] = "punlock" /\ r[t] >= 0

PowerFor(t) ==
  /\ pc[t] # "connect"
  /\ AfterPower(t) => \A c \in Conns : c = client_sock /\ conn[c].icc => PowerLast(PowerRequest(t), c)
  /\ Listens(t) => TellsPower(t)
  /\ got[t] # <<>> => got[t][1][1].pw = PowerRequest(t)
  /\ res[t].code = "SUCCESS" => res[t].powered

PowerInv == \A t \in Threads : op[t] \in {"up", "reset"} => PowerFor(t)

LEMMA PowerAppended ==
  ASSUME NEW s \in Seq(Bytes), NEW m \in Messages
  PROVE /\ LastPower(m, s \o Wire(m))
        /\ ~Powers(m) => /\ NoPower(s) => NoPower(s \o Wire(m))
                         /\ \A p : LastPower(p, s) => LastPower(p, s \o Wire(m))
<1>. DEFINE w == s \o Wire(m)
<1>1. PICK n \in Nat, l \in Nat : n = Len(s) /\ l = BodyLen(m) + 2 /\ l >= 3
  BY BodyLens
<1>2. /\ Len(w) = n + l
      /\ \A i \in 1 .. n : w[i] = s[i]
      /\ \A i \in n + 1 .. n + l : w[i] = <<m, i - n>>
  <2>1. /\ Len(w) = Len(s) + BodyLen(m) + 2
        /\ \A i \in 1 .. Len(s) : w[i] = s[i]
        /\ \A i \in Len(s) + 1 .. Len(w) : w[i] = <<m, i - Len(s)>>
    BY Joined
  <2>2. Len(w) = n + l
    BY <1>1, <2>1, BodyLens
  <2>. HIDE DEF w
  <2>. QED
    BY <1>1, <2>1, <2>2
<1>. HIDE DEF w
<1>3. LastPower(m, w)
  <2>1. n + 1 \in 1 .. Len(w) /\ w[n + 1][1] = m /\ \A j \in n + 1 .. Len(w) : w[j][1] = m
    BY <1>1, <1>2
  <2>. QED
    BY <2>1 DEF LastPower
<1>4. ASSUME ~Powers(m), NoPower(s) PROVE NoPower(w)
  <2>1. \A i \in 1 .. n + l : i \in 1 .. n \/ i \in n + 1 .. n + l
    BY <1>1
  <2>2. \A i \in n + 1 .. n + l : w[i][1] = m
    BY <1>2
  <2>3. \A i \in 1 .. n : ~Powers(w[i][1])
    BY <1>1, <1>2, <1>4 DEF NoPower
  <2>4. \A i \in 1 .. n + l : ~Powers(w[i][1])
    BY <1>4, <2>1, <2>2, <2>3
  <2>. QED
    BY <1>2, <2>4 DEF NoPower
<1>5. ASSUME ~Powers(m), NEW p, LastPower(p, s) PROVE LastPower(p, w)
  <2>1. PICK i \in 1 .. n : s[i][1] = p /\ \A j \in i .. n : Powers(s[j][1]) => s[j][1] = p
    BY <1>1, <1>5 DEF LastPower
  <2>2. \A j \in i .. n + l : j \in i .. n \/ j \in n + 1 .. n + l
    BY <1>1
  <2>3. \A j \in i .. n : j \in 1 .. n
    BY <1>1
  <2>4. i \in 1 .. n + l /\ w[i][1] = p
    BY <1>1, <1>2, <2>1
  <2>5. \A j \in i .. n + l : Powers(w[j][1]) => w[j][1] = p
    BY <1>2, <1>5, <2>1, <2>2, <2>3
  <2>. QED
    BY <1>2, <2>4, <2>5 DEF LastPower
<1>. QED
  BY <1>3, <1>4, <1>5 DEF w

LEMMA PowerDropped ==
  ASSUME NEW s \in Seq(Bytes), NEW k \in Nat, k <= Len(s)
  PROVE /\ NoPower(s) => NoPower(Drop(s, k))
        /\ \A p : LastPower(p, s) => LastPower(p, Drop(s, k)) \/ NoPower(Drop(s, k))
        /\ \A p : LastPower(p, s) /\ (\A i \in 1 .. k : s[i][1] # p) => LastPower(p, Drop(s, k))
<1>. DEFINE w == Drop(s, k)
<1>1. PICK n \in Nat : n = Len(s) /\ k <= n
  OBVIOUS
<1>2. Len(w) = n - k /\ \A i \in 1 .. n - k : w[i] = s[i + k]
  BY <1>1, Dropped
<1>. HIDE DEF w
<1>3. \A i \in 1 .. n - k : i + k \in 1 .. n
  BY <1>1
<1>4. ASSUME NoPower(s) PROVE NoPower(w)
  BY <1>1, <1>2, <1>3, <1>4 DEF NoPower
<1>5. ASSUME NEW p, NEW i \in 1 .. n, s[i][1] = p, \A j \in i .. n : Powers(s[j][1]) => s[j][1] = p,
             i > k
      PROVE LastPower(p, w)
  <2>1. i - k \in 1 .. n - k /\ (i - k) + k = i
    BY <1>1, <1>5
  <2>2. \A j \in i - k .. n - k : j \in 1 .. n - k /\ j + k \in i .. n
    BY <1>1, <1>5
  <2>3. w[i - k][1] = p /\ \A j \in i - k .. n - k : Powers(w[j][1]) => w[j][1] = p
    BY <1>2, <1>5, <2>1, <2>2
  <2>. QED
    BY <1>2, <2>1, <2>3 DEF LastPower
<1>6. ASSUME NEW p, LastPower(p, s), \A i \in 1 .. k : s[i][1] # p PROVE LastPower(p, w)
  <2>1. PICK i \in 1 .. n : s[i][1] = p /\ \A j \in i .. n : Powers(s[j][1]) => s[j][1] = p
    BY <1>1, <1>6 DEF LastPower
  <2>2. i > k
    BY <1>1, <1>6, <2>1
  <2>. QED
    BY <1>5, <2>1, <2>2
<1>7. ASSUME NEW p, LastPower(p, s), ~NoPower(w) PROVE LastPower(p, w)
  <2>1. PICK i \in 1 .. n : s[i][1] = p /\ \A j \in i .. n : Powers(s[j][1]) => s[j][1] = p
    BY <1>1, <1>7 DEF LastPower
  <2>2. CASE i > k
    BY <1>5, <2>1, <2>2
  <2>3. CASE ~(i > k)
    <3>1. PICK h \in 1 .. n - k : Powers(w[h][1])
      BY <1>2, <1>7 DEF NoPower
    <3>2. \A j \in h .. n - k : j \in 1 .. n - k /\ j + k \in i .. n
      BY <1>1, <2>3, <3>1
    <3>3. h \in h .. n - k
      BY <1>1, <3>1
    <3>4. \A j \in h .. n - k : Powers(w[j][1]) => w[j][1] = p
      <4>1. \A j \in h .. n - k : w[j] = s[j + k]
        BY <1>2, <3>2
      <4>2. \A j \in h .. n - k : Powers(s[j + k][1]) => s[j + k][1] = p
        BY <2>1, <3>2
      <4>. QED
        BY <4>1, <4>2
    <3>. QED
      BY <1>2, <3>1, <3>3, <3>4 DEF LastPower
  <2>. QED
    BY <2>2, <2>3
<1>. QED
  BY <1>4, <1>6, <1>7 DEF w

\* The length of a command is taken: its body still says what it was.
LEMMA PowerHeader ==
  ASSUME NEW s \in Seq(Bytes), InOrder(s), s # <<>>, s[1][2] = 1, NEW p, Powers(p), LastPower(p, s)
  PROVE LastPower(p, Drop(s, 2))
<1>1. PICK m, n : /\ n \in Nat /\ n = Len(s) /\ n >= 3 /\ s[1] = <<m, 1>> /\ s[2] = <<m, 2>> /\ s[3] = <<m, 3>>
  <2>1. PICK l \in Nat : l = BodyLen(s[1][1]) /\ l >= 1
    BY BodyLens
  <2>2. Len(s) >= l + 2 /\ s[1] = <<s[1][1], 1>> /\ s[2] = <<s[1][1], 2>> /\ s[3] = <<s[1][1], 3>>
    BY <2>1, FirstHeader
  <2>3. Len(s) \in Nat /\ Len(s) >= 3
    BY <2>1, <2>2
  <2>. QED
    BY <2>2, <2>3
<1>2. CASE m # p
  <2>1. \A i \in 1 .. 2 : s[i][1] # p
    <3>1. \A i \in 1 .. 2 : i = 1 \/ i = 2
      OBVIOUS
    <3>. QED
      BY <1>1, <1>2, <3>1
  <2>2. 2 \in Nat /\ 2 <= Len(s)
    BY <1>1
  <2>. QED
    BY <2>1, <2>2, PowerDropped
<1>3. CASE m = p
  <2>1. 2 \in Nat /\ 2 <= Len(s)
    BY <1>1
  <2>2. LastPower(p, Drop(s, 2)) \/ NoPower(Drop(s, 2))
    BY <2>1, PowerDropped
  <2>3. Len(Drop(s, 2)) = n - 2 /\ Drop(s, 2)[1] = s[1 + 2]
    <3>1. Len(Drop(s, 2)) = Len(s) - 2 /\ \A i \in 1 .. Len(s) - 2 : Drop(s, 2)[i] = s[i + 2]
      BY <2>1, Dropped
    <3>2. 1 \in 1 .. n - 2
      BY <1>1
    <3>. QED
      BY <1>1, <3>1, <3>2
  <2>4. 1 \in 1 .. n - 2 /\ s[1 + 2][1] = p
    BY <1>1, <1>3
  <2>. QED
    BY <2>2, <2>3, <2>4 DEF NoPower
<1>. QED
  BY <1>2, <1>3

\* The body of a command is taken, and the command is executed.
LEMMA PowerBody ==
  ASSUME NEW s \in Seq(Bytes), InOrder(s), s # <<>>, s[1][2] = 3, NEW k \in Nat, k = BodyLen(s[1][1]),
         NEW p, LastPower(p, s)
  PROVE LastPower(p, Drop(s, k)) \/ (s[1][1] = p /\ NoPower(Drop(s, k)))
<1>1. k <= Len(s) /\ \A i \in 1 .. k : s[i] = <<s[1][1], i + 2>>
  BY FirstBody
<1>2. CASE s[1][1] # p
  <2>1. \A i \in 1 .. k : s[i][1] # p
    BY <1>1, <1>2
  <2>. QED
    BY <1>1, <2>1, PowerDropped
<1>3. CASE s[1][1] = p
  BY <1>1, <1>3, PowerDropped
<1>. QED
  BY <1>2, <1>3

\* An end of input drops a connection that the reader has left.
LEMMA HangupSpares ==
  ASSUME Sound, AtWork, Hangup, NEW c \in Conns, conn[c].pcd
  PROVE /\ conn'[c].toPcd = conn[c].toPcd /\ vpicc'.pc \in {"down", "accept"}
        /\ conn'[c].icc => conn'[c] = conn[c] /\ vpicc.conn # c
<1>1. conn \in Networks /\ vpicc.conn # c
  BY DEF Sound, Inv, NetOK, Hangup
<1>2. CASE CardEnds(conn)
  BY <1>1, <1>2, CardEndsEnds
<1>3. CASE vpicc' = CardWith(INVALID_SOCKET, "accept") /\ conn' = [conn EXCEPT ![vpicc.conn] = CloseIcc(@)]
  BY <1>1, <1>3, CardStates DEF Networks
<1>. QED
  BY <1>2, <1>3 DEF Hangup, Disconnected

\* A living card executes the power commands of a connection in their order.
LEMMA PowerStays ==
  ASSUME ~Short, Sound, CardStep \/ CardStarts \/ CardDies, NEW c \in Conns, conn[c].pcd, conn'[c].icc,
         NEW p, Powers(p), PowerLast(p, c)
  PROVE PowerLast(p, c)'
<1>0. conn \in Networks /\ conn[c] \in ConnType /\ vpicc \in CardType
  BY Streams DEF Sound, Inv, NetOK, IccOK
<1>1. ASSUME conn'[c].toIcc = conn[c].toIcc, vpicc'.conn = vpicc.conn, AtWork', UNCHANGED lastPower
      PROVE PowerLast(p, c)'
  BY <1>1 DEF PowerLast
<1>2. ASSUME conn'[c].toIcc = conn[c].toIcc, ~AtWork \/ vpicc.conn # c PROVE PowerLast(p, c)'
  BY <1>2 DEF PowerLast
<1>3. ~CardEnds(conn) /\ ~CardDies
  <2>1. ASSUME NEW k \in Networks, CardEnds(k), k[c].pcd PROVE FALSE
    BY <2>1, CardEndsEnds
  <2>. QED
    BY <1>0, <2>1, CutReply DEF CardDies
<1>4. CASE AtWork /\ Hangup
  BY <1>2, <1>4, HangupSpares
<1>5. CASE CardStarts
  <2>1. ~AtWork
    BY <1>5 DEF CardStarts, AtWork
  <2>2. conn'[c] = conn[c]
    BY <1>0, <1>5, ConnFields DEF CardStarts, FreeConns, Networks
  <2>. QED
    BY <1>2, <2>1, <2>2
<1>6. CASE CardAccepts
  <2>1. ~AtWork
    BY <1>6 DEF CardAccepts, AtWork
  <2>2. conn'[c].toIcc = conn[c].toIcc
    BY <1>0, <1>6 DEF CardAccepts, Networks, ConnType
  <2>. QED
    BY <1>2, <2>1, <2>2
<1>7. CASE CardReplies
  <2>1. vpicc' = [vpicc EXCEPT !.pc = "hdr", !.ans = NoMsg] /\ UNCHANGED lastPower
    BY <1>3, <1>7 DEF CardReplies
  <2>2. conn'[c].toIcc = conn[c].toIcc
    <3>1. PICK d, b : conn' = [conn EXCEPT ![d].toPcd = b] \/ conn' = [conn EXCEPT ![d].rst = TRUE]
      BY <1>3, <1>7 DEF CardReplies
    <3>2. CASE c # d
      BY <1>0, <3>1, <3>2 DEF Networks
    <3>3. CASE c = d
      <4>1. conn'[c] = [conn[c] EXCEPT !.toPcd = b] \/ conn'[c] = [conn[c] EXCEPT !.rst = TRUE]
        BY <1>0, <3>1, <3>3 DEF Networks
      <4>. QED
        BY <1>0, <4>1 DEF ConnType
    <3>. QED
      BY <3>2, <3>3
  <2>3. vpicc'.conn = vpicc.conn /\ vpicc'.pc = "hdr"
    BY <1>0, <2>1 DEF CardType
  <2>. QED
    BY <1>1, <2>1, <2>2, <2>3 DEF AtWork
<1>8. CASE CardRecvLength /\ ~Hangup
  <2>1. PICK v \in Conns, s \in Seq(Bytes) : v = vpicc.conn /\ s = Arrived /\ s = conn[v].toIcc /\ s # <<>>
                                             /\ InOrder(s) /\ s[1][2] = 1
    BY <1>8, Streams DEF CardRecvLength, Arrived, Sound, Inv, CardOK, LinkInv, FramesInv, InBody
  <2>2. CardConsumes(2) /\ UNCHANGED lastPower /\ 2 <= Len(s)
    <3>1. PICK l \in Nat : l = BodyLen(s[1][1]) /\ l >= 1
      BY BodyLens
    <3>2. Len(s) >= l + 2
      BY <2>1, <3>1, FirstHeader
    <3>3. PICK n \in Nat : n = Len(s) /\ n >= 2
      BY <2>1, <3>1, <3>2, NotEmpty
    <3>4. CardConsumes(2) /\ UNCHANGED lastPower
      BY <1>3, <1>8 DEF CardRecvLength
    <3>. QED
      BY <3>3, <3>4
  <2>3. vpicc'.conn = vpicc.conn /\ AtWork'
    <3>1. PICK size : vpicc' = [vpicc EXCEPT !.pc = IF size = 0 THEN "hdr" ELSE "body", !.size = size]
      BY <1>3, <1>8 DEF CardRecvLength
    <3>. QED
      BY <1>0, <3>1 DEF CardType, AtWork
  <2>4. PICK k \in Nat : k = 2 /\ k <= Len(conn[v].toIcc) /\ CardConsumes(k)
    BY <2>1, <2>2
  <2>5. conn'[v].toIcc = Drop(conn[v].toIcc, k) /\ (v # c => conn'[c] = conn[c])
    BY <2>1, <2>4, ConsumedEffect
  <2>6. CASE v # c
    BY <1>2, <2>1, <2>5, <2>6
  <2>7. CASE v = c
    <3>1. LastPower(p, s) => LastPower(p, Drop(s, 2))
      BY <2>1, PowerHeader
    <3>2. NoPower(s) => NoPower(Drop(s, 2))
      <4>1. 2 \in Nat /\ 2 <= Len(s)
        BY <2>2
      <4>. QED
        BY <4>1, PowerDropped
    <3>. QED
      BY <2>1, <2>2, <2>3, <2>4, <2>5, <2>7, <3>1, <3>2 DEF PowerLast
  <2>. QED
    BY <2>6, <2>7
<1>9. CASE CardRecvBody /\ ~Hangup
  <2>1. PICK m \in Commands, v \in Conns :
          /\ v = vpicc.conn /\ conn[v].toIcc # <<>>
          /\ conn[v].toIcc[1][1] = m /\ conn[v].toIcc[1][2] = 3
          /\ BodyLen(m) <= Len(conn[v].toIcc)
          /\ CardConsumes(BodyLen(m))
          /\ IF BodyLen(m) = 1 THEN DoControl(m) ELSE DoApdu(m)
    BY <1>9, CommandReceived
  <2>2. PICK k \in Nat : k = BodyLen(m) /\ k <= Len(conn[v].toIcc) /\ CardConsumes(k)
    <3>1. BodyLen(m) \in Nat
      BY BodyLens
    <3>. QED
      BY <2>1, <3>1
  <2>3. conn'[v].toIcc = Drop(conn[v].toIcc, k) /\ (v # c => conn'[c] = conn[c])
    BY <2>1, <2>2, ConsumedEffect
  <2>4. AtWork /\ vpicc'.conn = vpicc.conn /\ AtWork'
    <3>1. AtWork
      BY <1>9 DEF CardRecvBody, AtWork
    <3>. QED
      BY <2>1, <3>1, CommandEffect
  <2>5. CASE v # c
    BY <1>2, <2>1, <2>3, <2>5
  <2>6. CASE v = c
    <3>1. PICK s \in Seq(Bytes) : s = conn[v].toIcc /\ InOrder(s) /\ s # <<>> /\ s[1] = <<m, 3>>
      <4>1. PICK s \in Seq(Bytes) : s = conn[v].toIcc
        BY Streams
      <4>2. 1 \in 1 .. Len(s)
        BY <2>1, <4>1, NotEmpty
      <4>3. InOrder(s)
        BY <4>1 DEF Sound, LinkInv, FramesInv
      <4>. QED
        BY <2>1, <4>1, <4>2, <4>3, Elements
    <3>2. m # NoMsg /\ lastPower' = IF Powers(m) THEN m ELSE lastPower
      <4>1. m # NoMsg
        BY LinkAssumption DEF Messages
      <4>2. CASE BodyLen(m) = 1
        BY <2>1, <4>1, <4>2 DEF DoControl, Controls, Powers, BodyLen, ControlKinds
      <4>3. CASE BodyLen(m) # 1
        BY <2>1, <4>1, <4>3 DEF DoApdu, Powers, BodyLen, ControlKinds
      <4>. QED
        BY <4>1, <4>2, <4>3
    <3>3. CASE LastPower(p, s)
      <4>1. LastPower(p, Drop(s, k)) \/ (m = p /\ NoPower(Drop(s, k)))
        BY <2>2, <3>1, <3>3, PowerBody
      <4>. QED
        BY <2>1, <2>3, <2>4, <2>6, <3>1, <3>2, <4>1 DEF PowerLast
    <3>4. CASE NoPower(s) /\ lastPower = p
      <4>1. NoPower(Drop(s, k)) /\ ~Powers(m)
        <5>1. 1 \in 1 .. Len(s)
          BY <3>1, NotEmpty
        <5>. QED
          BY <2>2, <3>1, <3>4, <5>1, PowerDropped, SMTT(30) DEF NoPower
      <4>. QED
        BY <2>1, <2>3, <2>4, <2>6, <3>1, <3>2, <3>4, <4>1 DEF PowerLast
    <3>. QED
      BY <2>6, <3>1, <3>3, <3>4 DEF PowerLast
  <2>. QED
    BY <2>5, <2>6
<1>. QED
  BY <1>3, <1>4, <1>5, <1>6, <1>7, <1>8, <1>9 DEF CardStep, CardRecvLength, CardRecvBody, AtWork

\* When the card runs the ATR request of t, nothing else is before it.
LEMMA AskedAlone ==
  ASSUME Sound, NEW c \in Conns, conn[c].toIcc # <<>>, conn[c].toIcc[1][2] = 3, Asks(conn[c].toIcc[1][1]),
         NEW t \in Threads, Hears(t, c)
  PROVE pc[t] \in {"recv1", "in1"} /\ NoPower(conn[c].toIcc)
<1>1. PICK s \in Seq(Bytes) : s = conn[c].toIcc /\ InOrder(s)
  BY Streams DEF Sound, LinkInv, FramesInv
<1>2. Len(s) \in Nat
  BY <1>1, NotEmpty
<1>3. 1 \in 1 .. Len(s) /\ Asks(s[1][1])
  BY <1>1, NotEmpty
<1>4. ~Silent(s)
  BY <1>3 DEF Silent
<1>5. pc[t] \in {"recv1", "in1"} /\ AskedLast(Request(t), s)
  BY <1>1, <1>4 DEF Sound, LinkInv, AnswersInv, Hears, Listens, AwaitsHeader, AwaitsBody
<1>6. s[1][1] = Request(t) /\ Drop(s, BodyLen(Request(t))) = <<>>
  BY <1>1, <1>3, <1>5, AskedFirst, CommandsOf
<1>7. PICK k \in Nat : k = BodyLen(s[1][1])
  BY BodyLens
<1>8. k <= Len(s) /\ \A i \in 1 .. k : s[i] = <<s[1][1], i + 2>>
  BY <1>1, <1>7, FirstBody
<1>9. Len(s) = k
  <2>1. Len(Drop(s, k)) = Len(s) - k
    BY <1>1, <1>7, <1>8, Dropped
  <2>2. Len(Drop(s, k)) = 0
    BY <1>6, <1>7
  <2>. QED
    BY <1>1, <1>7, <2>1, <2>2
<1>10. \A i \in 1 .. Len(s) : s[i][1] = s[1][1]
  BY <1>8, <1>9
<1>. QED
  BY <1>1, <1>3, <1>5, <1>10 DEF NoPower, Powers, Asks

\* What a living card sends to t was made after it had executed t's power
\* command.
LEMMA TellsStays ==
  ASSUME ~Short, Sound, DeadInv, CardStep \/ CardStarts \/ CardDies, NEW t \in Threads,
         op[t] \in {"up", "reset"}, Listens(t), PowerFor(t)
  PROVE TellsPower(t)'
<1>0. UNCHANGED <<client_sock, op, seq>> /\ PowerRequest(t)' = PowerRequest(t)
  <2>1. UNCHANGED <<client_sock, op, seq>>
    BY DEF CardStep, CardAccepts, CardRecvLength, CardRecvBody, CardReplies, CardStarts,
           CardDies, ctxVars, callVars
  <2>. QED
    BY <2>1 DEF PowerRequest, Cmd
<1>. SUFFICES ASSUME NEW c \in Conns, c = client_sock
              PROVE /\ Replying(c)' => vpicc'.ans.pw = PowerRequest(t)
                    /\ conn'[c].toPcd # <<>> => conn'[c].toPcd[1][1].pw = PowerRequest(t)
  BY <1>0 DEF TellsPower
<1>1. /\ conn \in Networks /\ conn[c] \in ConnType /\ vpicc \in CardType /\ conn[c].pcd /\ Hears(t, c)
      /\ Replying(c) => vpicc.ans.pw = PowerRequest(t)
      /\ conn[c].toPcd # <<>> => conn[c].toPcd[1][1].pw = PowerRequest(t)
  BY Streams DEF Sound, Inv, NetOK, IccOK, LinkInv, NetInv, EndsOK, Hears, DeadInv, DeadFor, PowerFor, TellsPower
<1>2. CASE conn'[c].toPcd = conn[c].toPcd /\ ~Replying(c)'
  BY <1>1, <1>2
<1>3. ASSUME Replying(c), NEW n \in 0 .. 4, conn'[c].toPcd = conn[c].toPcd \o Take(Wire(vpicc.ans), n), ~Replying(c)'
      PROVE conn'[c].toPcd # <<>> => conn'[c].toPcd[1][1].pw = PowerRequest(t)
  <2>1. conn[c].toPcd = <<>> /\ vpicc.ans \in Answers
    BY <1>1, <1>3, ReplyIsAwaited DEF Sound, Inv, CardOK, Replying
  <2>2. PICK b \in Seq(Bytes) : b = Take(Wire(vpicc.ans), n) /\ \A i \in 1 .. Len(b) : b[i] = <<vpicc.ans, i>>
    <3>1. Wire(vpicc.ans) \in Seq(Bytes) /\ Len(Wire(vpicc.ans)) = 4 /\ \A i \in 1 .. 4 : Wire(vpicc.ans)[i] = <<vpicc.ans, i>>
      BY <2>1, AnswerBytes
    <3>2. n \in Nat /\ n <= Len(Wire(vpicc.ans))
      BY <3>1
    <3>3. /\ Take(Wire(vpicc.ans), n) \in Seq(Bytes) /\ Len(Take(Wire(vpicc.ans), n)) = n
          /\ \A i \in 1 .. n : Take(Wire(vpicc.ans), n)[i] = Wire(vpicc.ans)[i]
      BY <3>1, <3>2, Taken
    <3>. QED
      BY <3>1, <3>3
  <2>3. conn'[c].toPcd = b
    BY <1>3, <2>1, <2>2
  <2>4. b # <<>> => 1 \in 1 .. Len(b)
    BY NotEmpty
  <2>. QED
    BY <1>1, <1>3, <2>2, <2>3, <2>4
<1>4. CASE CardEnds(conn)
  BY <1>1, <1>2, <1>4, CardEndsEnds DEF Replying
<1>5. CASE AtWork /\ Hangup
  BY <1>1, <1>2, <1>5, HangupSpares DEF Replying
<1>6. CASE CardStarts
  <2>1. conn'[c] = conn[c]
    BY <1>1, <1>6, ConnFields DEF CardStarts, FreeConns, Networks
  <2>2. vpicc'.pc # "reply"
    BY <1>6 DEF CardStarts, CardWith
  <2>. QED
    BY <1>2, <2>1, <2>2 DEF Replying
<1>7. CASE CardAccepts
  <2>1. conn'[c].toPcd = conn[c].toPcd
    BY <1>1, <1>7 DEF CardAccepts, Networks, ConnType
  <2>2. vpicc'.pc # "reply"
    BY <1>7 DEF CardAccepts, CardWith
  <2>. QED
    BY <1>2, <2>1, <2>2 DEF Replying
<1>8. CASE CardRecvLength /\ ~Hangup /\ ~CardEnds(conn)
  <2>1. PICK size : vpicc' = [vpicc EXCEPT !.pc = IF size = 0 THEN "hdr" ELSE "body", !.size = size]
    BY <1>8 DEF CardRecvLength
  <2>2. vpicc'.pc # "reply"
    BY <1>1, <2>1 DEF CardType
  <2>3. CardConsumes(2)
    BY <1>8 DEF CardRecvLength
  <2>4. conn'[c].toPcd = conn[c].toPcd
    BY <1>1, <2>3 DEF CardConsumes, Networks, ConnType
  <2>. QED
    BY <1>2, <2>2, <2>4 DEF Replying
<1>9. CASE CardRecvBody /\ ~Hangup
  <2>1. PICK m \in Commands, v \in Conns :
          /\ v = vpicc.conn /\ conn[v].toIcc # <<>>
          /\ conn[v].toIcc[1][1] = m /\ conn[v].toIcc[1][2] = 3
          /\ CardConsumes(BodyLen(m))
          /\ IF BodyLen(m) = 1 THEN DoControl(m) ELSE DoApdu(m)
    BY <1>9, CommandReceived
  <2>2. conn'[c].toPcd = conn[c].toPcd
    BY <1>1, <2>1 DEF CardConsumes, Networks, ConnType
  <2>3. AtWork
    BY <1>9 DEF CardRecvBody, AtWork
  <2>4. vpicc'.conn = v /\ (~Asks(m) => vpicc'.pc = "hdr")
    BY <2>1, <2>3, CommandEffect
  <2>5. CASE v # c \/ ~Asks(m)
    BY <1>2, <2>2, <2>4, <2>5 DEF Replying
  <2>6. CASE v = c /\ Asks(m)
    <3>1. m = Request(t) /\ m # NoMsg
      BY <1>1, <2>1, <2>6, RunsWhatIsAsked, LinkAssumption DEF Messages
    <3>2. m.kind = "ATR"
      BY <3>1 DEF Request, Cmd
    <3>3. vpicc' = [vpicc EXCEPT !.pc = "reply", !.size = 0, !.ans = Answer("R-ATR", m, lastPower)]
      BY <2>1, <3>1, <3>2 DEF DoControl, Controls, BodyLen, ControlKinds, ToReply
    <3>4. vpicc'.ans.pw = lastPower
      BY <1>1, <3>3 DEF CardType, Answer
    <3>5. AfterPower(t) /\ NoPower(conn[c].toIcc)
      BY <1>1, <2>1, <2>6, AskedAlone DEF AfterPower
    <3>6. PowerLast(PowerRequest(t), c)
      <4>1. conn[c].icc
        BY <2>1, <2>3, <2>6 DEF Sound, LinkInv, NetInv
      <4>. QED
        BY <3>5, <4>1 DEF PowerFor
    <3>7. lastPower = PowerRequest(t)
      <4>1. Powers(PowerRequest(t))
        BY DEF Powers, PowerRequest, Cmd
      <4>2. ~LastPower(PowerRequest(t), conn[c].toIcc)
        BY <3>5, <4>1 DEF LastPower, NoPower
      <4>. QED
        BY <3>6, <4>2 DEF PowerLast
    <3>. QED
      BY <1>1, <2>2, <3>4, <3>7
  <2>. QED
    BY <2>5, <2>6
<1>10. CASE CardReplies /\ ~CardEnds(conn)
  <2>1. PICK v \in Conns : v = vpicc.conn /\ vpicc.pc = "reply" /\ vpicc.ans \in Answers
    BY <1>10 DEF CardReplies, Sound, Inv, CardOK
  <2>2. vpicc' = [vpicc EXCEPT !.pc = "hdr", !.ans = NoMsg]
    BY <1>10 DEF CardReplies
  <2>3. ~Replying(c)'
    BY <1>1, <2>2 DEF CardType, Replying
  <2>4. \/ conn' = [conn EXCEPT ![v].toPcd = @ \o Wire(vpicc.ans)]
        \/ v # c /\ conn' = [conn EXCEPT ![v].rst = TRUE]
    BY <1>1, <1>10, <2>1 DEF CardReplies
  <2>5. CASE v # c
    <3>1. conn'[c] = conn[c]
      BY <1>1, <2>4, <2>5 DEF Networks
    <3>. QED
      BY <1>2, <2>3, <3>1
  <2>6. CASE v = c
    <3>1. conn'[c] = [conn[c] EXCEPT !.toPcd = conn[c].toPcd \o Wire(vpicc.ans)]
      BY <1>1, <2>4, <2>6 DEF Networks
    <3>2. conn'[c].toPcd = conn[c].toPcd \o Wire(vpicc.ans)
      BY <1>1, <3>1 DEF ConnType
    <3>3. Take(Wire(vpicc.ans), 4) = Wire(vpicc.ans)
      <4>1. Wire(vpicc.ans) \in Seq(Bytes) /\ Len(Wire(vpicc.ans)) = 4
        BY <2>1, AnswerBytes
      <4>. QED
        BY <4>1 DEF Take
    <3>4. Replying(c) /\ 4 \in 0 .. 4
      BY <2>1, <2>6 DEF Replying
    <3>5. conn'[c].toPcd = conn[c].toPcd \o Take(Wire(vpicc.ans), 4)
      BY <3>2, <3>3
    <3>. QED
      BY <1>3, <2>3, <3>4, <3>5
  <2>. QED
    BY <2>5, <2>6
<1>11. CASE CardDies /\ ~CardEnds(conn)
  <2>1. PICK n \in Cuts : vpicc.pc = "reply" /\ CardEnds([conn EXCEPT ![vpicc.conn].toPcd = @ \o Take(Wire(vpicc.ans), n)])
    BY <1>11 DEF CardDies
  <2>2. PICK k \in Networks, v \in Conns :
          /\ CardEnds(k) /\ v = vpicc.conn /\ n \in 0 .. 4 /\ k[v].pcd = conn[v].pcd
          /\ k[v].toPcd = conn[v].toPcd \o Take(Wire(vpicc.ans), n)
          /\ \A d \in Conns : d # v => k[d] = conn[d]
    BY <2>1, CutReply
  <2>3. k[c].pcd
    BY <1>1, <2>2
  <2>4. conn'[c].toPcd = k[c].toPcd /\ ~Replying(c)'
    BY <2>2, <2>3, CardEndsEnds DEF Replying
  <2>5. CASE v # c
    BY <1>2, <2>2, <2>4, <2>5
  <2>6. CASE v = c
    BY <1>3, <2>1, <2>2, <2>4, <2>6 DEF Replying
  <2>. QED
    BY <2>5, <2>6
<1>. QED
  BY <1>4, <1>5, <1>6, <1>7, <1>8, <1>9, <1>10, <1>11 DEF CardStep, CardRecvLength, CardRecvBody, AtWork

LEMMA SamePower ==
  ASSUME NEW t \in Threads, op'[t] = op[t], seq'[t] = seq[t]
  PROVE PowerRequest(t)' = PowerRequest(t)
BY DEF PowerRequest, Cmd

\* A caller that is idle keeps what its last call has returned.
LEMMA IdlePower ==
  ASSUME Sound, NEW t \in Threads, pc'[t] = "idle", op'[t] = op[t], seq'[t] = seq[t], res'[t] = res[t],
         got'[t] = got[t] \/ got'[t] = <<>>, op[t] \in {"up", "reset"} => PowerFor(t)
  PROVE op'[t] \in {"up", "reset"} => PowerFor(t)'
BY SamePower DEF PowerFor, AfterPower, Listens

LEMMA PowerConnect ==
  ASSUME NEW t \in Threads, op[t] \in {"up", "reset"} => PowerFor(t), Connect(t)
  PROVE op'[t] \notin {"up", "reset"}
BY DEF Connect, PowerFor, Return

\* Power up and reset return success only with the ATR that the powered card
\* has sent.
LEMMA PowerReturn ==
  ASSUME Sound, NEW t \in Threads, op[t] \in {"up", "reset"}, PowerFor(t), ReturnTransmit(t)
  PROVE PowerFor(t)'
<1>1. /\ pc \in [Threads -> PCs] /\ got \in [Threads -> Seq(Bytes)] /\ r \in [Threads -> -1 .. 3]
      /\ res \in [Threads -> [code : Codes, data : Contents, powered : BOOLEAN]]
      /\ got[t] # <<>> => BodyTo(t, got[t])
  BY DEF Sound, Inv, CallOK, LinkInv, GotInv
<1>2. PICK data : Return(t, CodeOf(t, r[t], got[t]), data, Powered(t, got[t]))
  BY DEF ReturnTransmit
<1>3. /\ pc'[t] = "idle" /\ got'[t] = <<>>
      /\ res'[t].code = CodeOf(t, r[t], got[t]) /\ res'[t].powered = Powered(t, got[t])
  BY <1>1, <1>2 DEF Return
<1>4. CodeOf(t, r[t], got[t]) = "SUCCESS" => got[t] # <<>>
  <2>1. got[t] = <<>> => Len(got[t]) = 0
    OBVIOUS
  <2>2. r[t] \in -1 .. 3
    BY <1>1
  <2>3. CASE r[t] > Len(got[t])
    BY <2>3 DEF CodeOf
  <2>4. CASE ~(r[t] > Len(got[t])) /\ got[t] = <<>>
    <3>1. r[t] < 0 \/ r[t] = 0
      BY <2>1, <2>2, <2>4
    <3> QED BY <2>4, <3>1 DEF CodeOf
  <2> QED BY <2>3, <2>4
<1>5. got[t] # <<>> => Powered(t, got[t])
  BY <1>1 DEF Powered, BodyTo, PowerFor
<1>. QED
  BY <1>3, <1>4, <1>5 DEF PowerFor, AfterPower, Listens

\* A caller moves, and the link stays as it is.
LEMMA PowerMoves ==
  ASSUME Sound, NEW t \in Threads, PowerFor(t), UNCHANGED <<client_sock, conn, vpicc, lastPower, op, seq, res, got>>,
         pc'[t] # "connect", AfterPower(t)' => AfterPower(t), Listens(t)' => Listens(t)
  PROVE PowerFor(t)'
<1>1. PowerRequest(t)' = PowerRequest(t)
  BY SamePower
<1>2. \A c : PowerLast(PowerRequest(t), c)' = PowerLast(PowerRequest(t), c)
  BY <1>1 DEF PowerLast, AtWork
<1>3. TellsPower(t)' = TellsPower(t)
  BY <1>1 DEF TellsPower, Replying
<1>. QED
  BY <1>1, <1>2, <1>3 DEF PowerFor

LEMMA PowerSends ==
  ASSUME Sound, NEW t \in Threads, op[t] \in {"up", "reset"}, PowerFor(t), PowerSend(t)
  PROVE PowerFor(t)'
<1>1. /\ pc \in [Threads -> PCs] /\ r \in [Threads -> -1 .. 3] /\ pc'[t] = "punlock"
      /\ UNCHANGED <<op, seq, got, res, vpicc, lastPower>>
  BY DEF PowerSend, cardVars, Goto, Sound, Inv, CallOK
<1>2. PowerRequest(t)' = PowerRequest(t) /\ PowerRequest(t) \in Commands /\ PowerRequest(t) \in Messages
  BY <1>1, SamePower, CommandsOf DEF Messages
<1>3. CASE SendOk(PowerRequest(t)) /\ UNCHANGED client_sock
  <2>1. ASSUME NEW c \in Conns, c = client_sock, conn'[c].icc PROVE PowerLast(PowerRequest(t), c)'
    <3>1. conn'[c].toIcc = conn[c].toIcc \o Wire(PowerRequest(t))
      BY <1>2, <1>3, <2>1, SendEffect
    <3>2. PICK s \in Seq(Bytes) : s = conn[c].toIcc
      BY Streams
    <3>3. LastPower(PowerRequest(t), s \o Wire(PowerRequest(t)))
      BY <1>2, PowerAppended
    <3>. QED
      BY <1>2, <3>1, <3>2, <3>3 DEF PowerLast
  <2>. QED
    BY <1>1, <1>2, <1>3, <2>1 DEF PowerFor, Listens
<1>4. CASE r' = [r EXCEPT ![t] = -1]
  <2>1. r'[t] = -1
    BY <1>1, <1>4
  <2>. QED
    BY <1>1, <1>2, <2>1 DEF PowerFor, Listens, AfterPower
<1>. QED
  BY <1>3, <1>4 DEF PowerSend

LEMMA PowerUnlocks ==
  ASSUME Sound, NEW t \in Threads, op[t] \in {"up", "reset"}, PowerFor(t), PowerUnlock(t)
  PROVE PowerFor(t)'
<1>1. /\ pc \in [Threads -> PCs] /\ pc[t] = "punlock" /\ UNCHANGED <<client_sock, conn, vpicc, lastPower, op, seq>>
      /\ res \in [Threads -> [code : Codes, data : Contents, powered : BOOLEAN]]
      /\ got \in [Threads -> Seq(Bytes)]
  BY DEF PowerUnlock, cardVars, Return, Sound, Inv, CallOK
<1>2. CASE r[t] < 0 /\ Return(t, "COMM_ERROR", "none", FALSE)
  <2>1. pc'[t] = "idle" /\ got'[t] = <<>> /\ res'[t].code = "COMM_ERROR"
    BY <1>1, <1>2 DEF Return
  <2>. QED
    BY <2>1 DEF PowerFor, AfterPower, Listens
<1>3. CASE ~(r[t] < 0) /\ Goto(t, "lock") /\ UNCHANGED <<res, got>>
  <2>1. pc'[t] = "lock" /\ AfterPower(t)
    <3>1. r[t] \in -1 .. 3
      BY DEF Sound, Inv, CallOK
    <3>. QED
      BY <1>1, <1>3, <3>1 DEF Goto, AfterPower
  <2>. QED
    BY <1>1, <1>3, <2>1, PowerMoves DEF Listens
<1>. QED
  BY <1>2, <1>3 DEF PowerUnlock

LEMMA PowerAsks ==
  ASSUME Sound, NEW t \in Threads, op[t] \in {"up", "reset"}, PowerFor(t), Send(t)
  PROVE PowerFor(t)'
<1>1. /\ pc \in [Threads -> PCs] /\ pc[t] = "send" /\ UNCHANGED <<op, seq, got, res, vpicc, lastPower>>
  BY DEF Send, cardVars, Sound, Inv, CallOK
<1>2. /\ PowerRequest(t)' = PowerRequest(t) /\ Request(t) \in Commands /\ Request(t) \in Messages
      /\ ~Powers(Request(t))
  <2>1. Request(t) \in Commands
    BY CommandsOf
  <2>. QED
    BY <1>1, <2>1, SamePower DEF Messages, Powers, Request, Cmd
<1>3. CASE SendOk(Request(t)) /\ UNCHANGED client_sock /\ Goto(t, "recv1")
  <2>1. ASSUME NEW c \in Conns, c = client_sock, conn'[c].icc PROVE PowerLast(PowerRequest(t), c)'
    <3>1. conn[c].icc /\ conn'[c].toIcc = conn[c].toIcc \o Wire(Request(t))
      BY <1>2, <1>3, <2>1, SendEffect
    <3>2. PICK s \in Seq(Bytes) : s = conn[c].toIcc
      BY Streams
    <3>3. /\ NoPower(s) => NoPower(s \o Wire(Request(t)))
          /\ \A p : LastPower(p, s) => LastPower(p, s \o Wire(Request(t)))
      BY <1>2, PowerAppended
    <3>4. PowerLast(PowerRequest(t), c)
      BY <1>1, <2>1, <3>1 DEF PowerFor, AfterPower
    <3>. QED
      BY <1>1, <1>2, <3>1, <3>2, <3>3, <3>4 DEF PowerLast, AtWork
  <2>2. TellsPower(t)'
    <3>1. \A c \in Conns : c = client_sock => conn[c].toPcd = <<>> /\ ~Replying(c)
      BY <1>1, NobodyListens DEF Quiet
    <3>2. \A c \in Conns : conn'[c].toPcd = conn[c].toPcd
      BY <1>2, <1>3, SendEffect
    <3>. QED
      BY <1>1, <1>3, <3>1, <3>2 DEF TellsPower, Replying
  <2>3. pc'[t] = "recv1"
    BY <1>1, <1>3 DEF Goto
  <2>. QED
    BY <1>1, <1>2, <1>3, <2>1, <2>2, <2>3 DEF PowerFor
<1>4. CASE Goto(t, "unlock")
  <2>1. pc'[t] = "unlock"
    BY <1>1, <1>4 DEF Goto
  <2>. QED
    BY <1>1, <1>2, <2>1 DEF PowerFor, AfterPower, Listens
<1>. QED
  BY <1>3, <1>4 DEF Send

LEMMA PowerHeard ==
  ASSUME Sound, DeadInv, NEW t \in Threads, op[t] \in {"up", "reset"}, PowerFor(t), RecvHeader(t)
  PROVE PowerFor(t)'
<1>1. /\ pc[t] = "in1" /\ pc \in [Threads -> PCs] /\ InRecv(t) /\ need[t] = 2
      /\ sock[t] = client_sock /\ UNCHANGED <<client_sock, op, seq, got, res, vpicc>>
      /\ got[t] = <<>>
  BY DEF RecvHeader, ctxVars, cardVars, Sound, Inv, CallOK, LinkInv, GotInv, InRecv, DeadInv, DeadFor
<1>2. PowerRequest(t)' = PowerRequest(t)
  BY <1>1, SamePower
<1>3. TellsPower(t)
  BY <1>1 DEF PowerFor, Listens
<1>4. pc'[t] \in {"recv2", "unlock"}
  BY <1>1 DEF RecvHeader, Goto
<1>5. ASSUME NEW c \in Conns, c = client_sock, pc'[t] = "recv2", conn'[c].toPcd # <<>>
      PROVE conn'[c].toPcd[1][1].pw = PowerRequest(t)
  <2>1. CASE WholeRecv(t) /\ Consume(t, need[t])
    <3>1. PICK b \in Seq(Bytes) : b = Stream(t) /\ b = conn[c].toPcd /\ Len(b) >= 2 /\ conn'[c].toPcd = Drop(b, 2)
      BY <1>1, <1>5, <2>1, StreamRead DEF WholeRecv
    <3>2. b # <<>> /\ AnswerTo(t, b)
      <4>1. b # <<>>
        BY <3>1
      <4>. QED
        BY <1>1, <1>5, <3>1, <4>1, Heard DEF AwaitsHeader
    <3>3. PICK n \in Nat : n = Len(b) /\ n >= 2
      BY <3>1, NotEmpty
    <3>4. Len(Drop(b, 2)) = n - 2 /\ \A i \in 1 .. n - 2 : Drop(b, 2)[i] = b[i + 2]
      <4>1. 2 \in Nat /\ 2 <= Len(b)
        BY <3>1
      <4>. QED
        BY <3>3, <4>1, Dropped
    <3>5. n - 2 # 0
      <4>1. 2 \in Nat /\ 2 <= Len(b)
        BY <3>1
      <4>2. Drop(b, 2) \in Seq(Bytes)
        BY <4>1, Dropped
      <4>. QED
        BY <1>5, <3>1, <3>4, <4>2, NotEmpty
    <3>6. 1 \in 1 .. n - 2 /\ 1 + 2 \in 1 .. n
      BY <3>3, <3>5
    <3>7. b[1 + 2] = <<b[1][1], 1 + 2>>
      BY <3>2, <3>3, <3>6 DEF AnswerTo
    <3>. QED
      BY <1>3, <1>5, <3>1, <3>2, <3>4, <3>6, <3>7 DEF TellsPower
  <2>2. CASE ErrorRecv(t) /\ Discard(t)
    BY <1>1, <1>5, <2>2, ErrorMeansDead, StreamRead
  <2>3. ~Goto(t, "unlock")
    BY <1>1, <1>5 DEF Goto
  <2>. QED
    BY <2>1, <2>2, <2>3 DEF RecvHeader
<1>6. Listens(t)' => TellsPower(t)'
  BY <1>1, <1>2, <1>3, <1>4, <1>5 DEF Listens, TellsPower, Replying
<1>. QED
  BY <1>1, <1>2, <1>4, <1>6 DEF PowerFor, AfterPower

LEMMA PowerTaken ==
  ASSUME Sound, DeadInv, NEW t \in Threads, op[t] \in {"up", "reset"}, PowerFor(t), RecvBody(t)
  PROVE PowerFor(t)'
<1>1. /\ pc[t] = "in2" /\ pc \in [Threads -> PCs] /\ InRecv(t) /\ need[t] \in 0 .. 2
      /\ sock[t] = client_sock /\ UNCHANGED <<client_sock, op, seq, res>>
      /\ got[t] = <<>> /\ got \in [Threads -> Seq(Bytes)] /\ Goto(t, "unlock")
  BY DEF RecvBody, ctxVars, Sound, Inv, CallOK, LinkInv, GotInv, InRecv, DeadInv, DeadFor
<1>2. PowerRequest(t)' = PowerRequest(t) /\ pc'[t] = "unlock"
  BY <1>1, SamePower DEF Goto
<1>3. TellsPower(t)
  BY <1>1 DEF PowerFor, Listens
<1>4. ASSUME got'[t] # <<>> PROVE got'[t][1][1].pw = PowerRequest(t)
  <2>1. sock[t] \in Conns /\ Stream(t) # <<>> /\ got'[t][1] = Stream(t)[1]
    <3>1. CASE WholeRecv(t) /\ got' = [got EXCEPT ![t] = Take(Stream(t), need[t])]
      <4>1. PICK b \in Seq(Bytes), k \in 0 .. 2 : b = Stream(t) /\ k = need[t] /\ Len(b) >= k
        BY <1>1, <3>1, StreamRead DEF WholeRecv
      <4>2. got'[t] = Take(b, k)
        BY <1>1, <3>1, <4>1
      <4>3. k \in Nat /\ k <= Len(b) /\ Len(b) \in Nat
        BY <4>1
      <4>4. Take(b, k) \in Seq(Bytes) /\ Len(Take(b, k)) = k /\ \A i \in 1 .. k : Take(b, k)[i] = b[i]
        BY <4>3, Taken
      <4>5. k # 0
        BY <1>4, <4>2, <4>4, NotEmpty
      <4>6. 1 \in 1 .. k /\ Len(b) # 0
        BY <4>1, <4>3, <4>5
      <4>. QED
        BY <3>1, <4>1, <4>2, <4>4, <4>6 DEF WholeRecv
    <3>2. CASE EofRecv(t) /\ got' = [got EXCEPT ![t] = Stream(t)]
      BY <1>1, <1>4, <3>2 DEF EofRecv
    <3>. QED
      BY <1>1, <1>4, <3>1, <3>2 DEF RecvBody
  <2>. QED
    BY <1>1, <1>3, <2>1, StreamRead DEF TellsPower
<1>. QED
  BY <1>1, <1>2, <1>4 DEF PowerFor, AfterPower, Listens

\* The steps of a power up or reset keep what it knows of the card.
LEMMA PowerOwnStep ==
  ASSUME Sound, DeadInv, NEW t \in Threads, op[t] \in {"up", "reset"} => PowerFor(t), Step(t)
  PROVE op'[t] \in {"up", "reset"} => PowerFor(t)'
<1>0. pc \in [Threads -> PCs] /\ UNCHANGED op
  BY DEF Step, Connect, Lock, PowerSend, PowerUnlock, Send, RecvCall, RecvHeader, RecvBody, Unlock,
         LateEject, ReturnTransmit, Return, Sound, Inv, CallOK
<1>. SUFFICES ASSUME op[t] \in {"up", "reset"}, PowerFor(t) PROVE PowerFor(t)'
  BY <1>0
<1>1. CASE Connect(t)
  BY <1>0, <1>1, PowerConnect
<1>2. CASE Lock(t)
  <2>1. /\ pc[t] \in {"lock", "plock"} /\ pc'[t] = IF pc[t] = "lock" THEN "send" ELSE "psend"
        /\ UNCHANGED <<client_sock, conn, vpicc, lastPower, op, seq, res, got>>
    BY <1>0, <1>2 DEF Lock, Goto, cardVars
  <2>. QED
    BY <2>1, PowerMoves DEF AfterPower, Listens
<1>3. CASE PowerSend(t) \/ PowerUnlock(t) \/ Send(t)
  BY <1>3, PowerSends, PowerUnlocks, PowerAsks
<1>4. CASE RecvCall(t)
  <2>1. /\ pc[t] \in {"recv1", "recv2"} /\ pc'[t] = IF pc[t] = "recv1" THEN "in1" ELSE "in2"
        /\ UNCHANGED <<client_sock, conn, vpicc, lastPower, op, seq, res, got>>
    BY <1>0, <1>4 DEF RecvCall, Goto, cardVars, ctxVars
  <2>. QED
    BY <2>1, PowerMoves DEF AfterPower, Listens
<1>5. CASE RecvHeader(t) \/ RecvBody(t)
  BY <1>5, PowerHeard, PowerTaken
<1>6. CASE Unlock(t) /\ Goto(t, "eject") /\ UNCHANGED <<op, seq, sock, need, got, r, res>>
  <2>1. pc'[t] = "eject" /\ UNCHANGED <<client_sock, conn, vpicc, lastPower, op, seq, res, got>>
    BY <1>0, <1>6 DEF Unlock, Goto, cardVars
  <2>. QED
    BY <2>1, PowerMoves DEF AfterPower, Listens
<1>7. CASE LateEject(t) \/ (Unlock(t) /\ ReturnTransmit(t))
  BY <1>7, PowerReturn DEF LateEject
<1>. QED
  BY <1>1, <1>2, <1>3, <1>4, <1>5, <1>6, <1>7 DEF Step, Unlock

\* The steps of the card do.
LEMMA PowerCardStep ==
  ASSUME ~Short, Sound, DeadInv, PowerInv, CardStep \/ CardStarts \/ CardDies PROVE PowerInv'
<1>1. UNCHANGED <<callVars, client_sock>>
  BY DEF CardStep, CardAccepts, CardRecvLength, CardRecvBody, CardReplies, CardStarts, CardDies, ctxVars
<1>. SUFFICES ASSUME NEW t \in Threads, op[t] \in {"up", "reset"} PROVE PowerFor(t)'
  BY <1>1 DEF PowerInv, callVars
<1>2. PowerFor(t) /\ PowerRequest(t)' = PowerRequest(t)
  BY <1>1, SamePower DEF PowerInv, callVars
<1>3. ASSUME AfterPower(t), NEW c \in Conns, c = client_sock, conn'[c].icc
      PROVE PowerLast(PowerRequest(t), c)'
  <2>1. conn[c].pcd
    BY <1>3 DEF Sound, LinkInv, NetInv, EndsOK
  <2>2. conn[c].icc
    BY <1>3, <2>1, CardKeepsReader
  <2>3. PowerLast(PowerRequest(t), c)
    BY <1>2, <1>3, <2>2 DEF PowerFor
  <2>4. Powers(PowerRequest(t))
    BY DEF Powers, PowerRequest, Cmd
  <2>5. PICK p : p = PowerRequest(t)
    OBVIOUS
  <2>6. PowerLast(p, c)'
    BY <1>3, <2>1, <2>3, <2>4, <2>5, PowerStays
  <2>. QED
    BY <1>2, <2>5, <2>6 DEF PowerLast
<1>4. Listens(t) => TellsPower(t)'
  BY <1>2, TellsStays
<1>. QED
  BY <1>1, <1>2, <1>3, <1>4 DEF PowerFor, AfterPower, Listens, callVars

LEMMA PowerStep ==
  ASSUME ~Short, Sound, CallersInv, OneCaller, DeadInv, PowerInv, [Next]_vars PROVE PowerInv'
<1>0. /\ pc \in [Threads -> PCs] /\ op \in [Threads -> IfdOps]
      /\ res \in [Threads -> [code : Codes, data : Contents, powered : BOOLEAN]]
  BY DEF Sound, Inv, CallOK
<1>1. CASE UNCHANGED vars
  BY <1>1 DEF vars, linkVars, ctxVars, callVars, cardVars, PowerInv, PowerFor, AfterPower, Listens,
              TellsPower, Replying, PowerLast, AtWork, PowerRequest, Cmd
<1>2. CASE CreateChannel \/ CloseChannel
  <2>1. \A t \in Threads : /\ pc'[t] = "idle" /\ op'[t] = op[t] /\ seq'[t] = seq[t]
                           /\ res'[t] = res[t] /\ got'[t] = got[t]
    BY <1>2 DEF CreateChannel, CloseChannel, AllIdle, callVars
  <2>. QED
    BY <2>1, IdlePower DEF PowerInv
<1>3. CASE PcdDies
  <2>1. \A t \in Threads : pc'[t] = "idle" /\ res'[t] = NoRes /\ got'[t] = <<>>
    BY <1>3 DEF PcdDies
  <2>. QED
    BY <2>1 DEF PowerInv, PowerFor, AfterPower, Listens, NoRes
<1>4. CASE CardStep \/ CardStarts \/ CardDies
  BY <1>4, PowerCardStep
<1>5. ASSUME NEW t \in Threads, NEW o \in OpsOf[t], Call(t, o) PROVE PowerInv'
  <2>1. /\ pc[t] = "idle" /\ op'[t] = o /\ res'[t] = NoRes /\ got'[t] = <<>>
        /\ pc'[t] = IF o = "present" THEN "connect"
                    ELSE IF o \in {"up", "reset", "down"} THEN "plock" ELSE "lock"
    BY <1>0, <1>5 DEF Call, Goto, Sound, LinkInv, GotInv
  <2>2. op'[t] \in {"up", "reset"} => PowerFor(t)'
    BY <2>1 DEF PowerFor, AfterPower, Listens, NoRes
  <2>3. \A u \in Threads \ {t} : pc[u] = "idle"
    BY <1>5 DEF OneCaller, CallersInv
  <2>4. \A u \in Threads \ {t} : /\ pc'[u] = "idle" /\ op'[u] = op[u] /\ seq'[u] = seq[u]
                                 /\ res'[u] = res[u] /\ got'[u] = got[u]
    BY <1>5, <2>3 DEF Call, Goto
  <2>. QED
    BY <2>2, <2>4, IdlePower DEF PowerInv
<1>6. ASSUME NEW t \in Threads, Step(t) PROVE PowerInv'
  <2>1. pc[t] # "idle"
    BY <1>6 DEF Step, Connect, Lock, PowerSend, PowerUnlock, Send, RecvCall, RecvHeader, RecvBody,
                Unlock, LateEject
  <2>2. \A u \in Threads \ {t} : /\ pc'[u] = pc[u] /\ op'[u] = op[u] /\ seq'[u] = seq[u]
                                 /\ res'[u] = res[u] /\ got'[u] = got[u]
    <3>1. PICK l : Goto(t, l)
      BY <1>6, StepMoves
    <3>2. UNCHANGED <<op, seq>>
      BY <1>6 DEF Step, Connect, Lock, PowerSend, PowerUnlock, Send, RecvCall, RecvHeader, RecvBody,
                  Unlock, LateEject, ReturnTransmit, Return
    <3>3. \A u \in Threads \ {t} : res'[u] = res[u] /\ got'[u] = got[u]
      <4>1. \A code, data, powered : Return(t, code, data, powered)
              => \A u \in Threads \ {t} : res'[u] = res[u] /\ got'[u] = got[u]
        BY DEF Return
      <4>2. CASE Connect(t) \/ PowerUnlock(t) \/ Unlock(t) \/ LateEject(t)
        BY <4>1, <4>2 DEF Connect, PowerUnlock, Unlock, LateEject, ReturnTransmit
      <4>3. CASE Lock(t) \/ PowerSend(t) \/ Send(t) \/ RecvCall(t) \/ RecvHeader(t)
        BY <4>3 DEF Lock, PowerSend, Send, RecvCall, RecvHeader
      <4>4. CASE RecvBody(t)
        <5>1. UNCHANGED res /\ \E b : got' = [got EXCEPT ![t] = b] \/ got' = got
          BY <4>4 DEF RecvBody
        <5>2. got \in [Threads -> Seq(Bytes)]
          BY DEF Sound, Inv, CallOK
        <5>. QED
          BY <5>1, <5>2
      <4>. QED
        BY <1>6, <4>2, <4>3, <4>4 DEF Step
    <3>. QED
      BY <3>1, <3>2, <3>3 DEF Goto
  <2>3. \A u \in Threads \ {t} : op'[u] \in {"up", "reset"} => PowerFor(u)'
    BY <2>1, <2>2, OthersIdle, IdlePower DEF PowerInv
  <2>4. op'[t] \in {"up", "reset"} => PowerFor(t)'
    BY <1>6, PowerOwnStep DEF PowerInv
  <2>. QED
    BY <2>3, <2>4 DEF PowerInv
<1>. QED
  BY <1>1, <1>2, <1>3, <1>4, <1>5, <1>6 DEF Next

\* PowerReachesCard: where messages arrive whole and calls do not overlap, a
\* power up or reset that IFDHPowerICC reports as done has been executed by
\* the very card whose ATR it returns: the ON or RESET is the last power
\* command that this card has read before the request of the ATR.
THEOREM PoweredCardAnswers ==
  ~Short /\ CallsExcluded => (Spec => []PowerReachesCard)
<1>. SUFFICES ASSUME ~Short, CallsExcluded PROVE Spec => []PowerReachesCard
  OBVIOUS
<1>. DEFINE Holds == Linked /\ (OneCaller => DeadInv /\ PowerInv)
<1>1. Init => Holds
  <2>1. Init => DeadInv
    BY DEF Init, DeadInv, DeadFor, InRecv
  <2>2. Init => PowerInv
    BY DEF Init, PowerInv
  <2>. QED
    BY <2>1, <2>2, LinkedInit
<1>2. Holds /\ [Next]_vars => Holds'
  <2>1. [Next]_vars => (OneCaller' <=> OneCaller)
    BY DEF Next, vars, OneCaller
  <2>2. Linked => Sound /\ CallersInv
    BY LinkedIsSound DEF Linked
  <2>. QED
    BY <2>1, <2>2, LinkedStep, DeadStep, PowerStep
<1>3. Holds => PowerReachesCard
  BY DEF PowerReachesCard, PowerInv, PowerFor
<1>. QED
  BY <1>1, <1>2, <1>3, PTL DEF Spec
=============================================================================
