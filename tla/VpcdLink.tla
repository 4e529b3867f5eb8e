------------------------------ MODULE VpcdLink ------------------------------
(***************************************************************************)
(* One slot of the virtual reader: the calls an application makes on a     *)
(* vicc_ctx (vpcd.c, reached through the IFD handlers of ifd-vpcd.c), the  *)
(* TCP connection, and the virtual card process at its other end           *)
(* (VirtualICC in VirtualSmartcard.py).                                    *)
(*                                                                         *)
(* A message on the wire is a length in two bytes and a body.  Bytes are   *)
(* kept apart (<<message, position>>), because what goes wrong on this     *)
(* link is a recv() that returns part of a message.  Bodies are two bytes  *)
(* long, or one byte (VPCD_CTRL_LEN) for a control message.                *)
(***************************************************************************)
EXTENDS Integers, Sequences, FiniteSets

CONSTANTS
  Threads,          \* callers of this vicc_ctx
  Conns,            \* TCP connections, reused when both ends have closed
  Hosts,            \* for each process that may host the driver: which
                    \* operations each of its threads issues
  Modes,            \* the values reversed may have
  LockWorks,        \* TRUE: lock.c excludes (Windows); FALSE: the no-op lock
  Short,            \* TRUE: the network may deliver a message in pieces
  SndBuf,           \* bytes the kernel buffers for the card before send() blocks
  Cuts,             \* how many bytes of a reply a dying card leaves behind
  INVALID_SOCKET, STALE, NoThread, NoMsg

ControlKinds == {"OFF", "ON", "RESET", "ATR"}
CommandKinds == ControlKinds \cup {"APDU"}
AnswerKinds  == {"R-ATR", "R-APDU", "R-JUNK"}
IfdOps       == {"present", "transmit", "big", "empty", "atr", "up", "reset", "down"}

\* Commands of one caller are told apart as long as they are under way.
Numbers  == 0 .. 4
Commands == [kind : CommandKinds, by : Threads, n : Numbers]
Answers  == [kind : AnswerKinds, to : Commands \cup {NoMsg}, pw : Commands \cup {NoMsg}]
Messages == Commands \cup Answers

ASSUME LinkAssumption ==
  /\ Threads # {} /\ Conns # {}
  /\ Hosts \subseteq [Threads -> SUBSET IfdOps]
  /\ Modes \subseteq BOOLEAN /\ LockWorks \in BOOLEAN /\ Short \in BOOLEAN
  /\ SndBuf \in Nat /\ SndBuf >= 4
  /\ Cuts \subseteq 0 .. 3
  /\ INVALID_SOCKET \notin Conns /\ STALE \notin Conns /\ INVALID_SOCKET # STALE
  /\ NoThread \notin Threads
  /\ NoMsg \notin Messages

\* The length that sendToVICC and __sendToVPICC put in front of a message.
BodyLen(m) == IF m.kind \in ControlKinds THEN 1 ELSE 2
Wire(m)    == [i \in 1 .. BodyLen(m) + 2 |-> <<m, i>>]
Body(m)    == [i \in 1 .. BodyLen(m) |-> <<m, i + 2>>]
IsHeader(s) == /\ Len(s) = 2
               /\ s[1][2] = 1
               /\ s[2] = <<s[1][1], 2>>

\* What two bytes say when they are read as a length: the length of the
\* message they head, or any number when they are not a header at all.
Lengths(s) == IF IsHeader(s) THEN {BodyLen(s[1][1])} ELSE 0 .. 2

Take(s, k) == SubSeq(s, 1, k)
Drop(s, k) == SubSeq(s, k + 1, Len(s))
Least(a, b) == IF a < b THEN a ELSE b

VARIABLES
  reversed,     \* vpcd has a hostname and connects to the card
  OpsOf,        \* the operations each caller issues, by the host of the driver
  open,         \* vicc_init has returned a context that vicc_exit has not freed
  client_sock,  \* vicc_ctx.client_sock
  io_lock,      \* vicc_ctx.io_lock
  conn,         \* the connections, each with its two byte streams
  pc,           \* where each caller is in vpcd.c
  op, seq,      \* the operation it runs, and the number its commands carry
  sock,         \* the descriptor its current recv() was called with
  need,         \* the number of bytes that recv() asks for
  got, r,       \* the bytes received and the return value
  res,          \* what its last operation returned
  vpicc,        \* the card process: VirtualICC.run
  lastPower,    \* the last power command the card has executed
  execs         \* how often the card executed the current APDU of a caller

ctxVars  == <<open, client_sock, io_lock>>
callVars == <<pc, op, seq, sock, need, got, r, res>>
cardVars == <<vpicc, lastPower, execs>>
linkVars == <<ctxVars, conn, callVars, cardVars>>
vars     == <<reversed, OpsOf, linkVars>>

PCs == {"idle", "connect", "plock", "psend", "punlock", "lock", "send",
        "recv1", "in1", "recv2", "in2", "unlock", "eject"}
Codes    == {"none", "SUCCESS", "COMM_ERROR", "PRESENT", "NOT_PRESENT", "FAULT"}
Contents == {"none", "own", "cut", "empty", "foreign"}
NoRes    == [code |-> "none", data |-> "none", powered |-> FALSE]

CardPCs == {"down", "accept", "hdr", "body", "reply"}
CardWith(c, l) == [pc |-> l, conn |-> c, size |-> 0, ans |-> NoMsg]
DownCard == CardWith(INVALID_SOCKET, "down")

NoConn == [backlog |-> FALSE, pcd |-> FALSE, icc |-> FALSE, rst |-> FALSE,
           toIcc |-> <<>>, toPcd |-> <<>>]
NewConn == [NoConn EXCEPT !.backlog = TRUE, !.pcd = TRUE, !.icc = TRUE]

Cmd(t, kind) == [kind |-> kind, by |-> t, n |-> seq[t]]

\* The message vicc_transmit sends for the operation of caller t.
Request(t) == Cmd(t, IF op[t] = "transmit" THEN "APDU" ELSE "ATR")
PowerRequest(t) == Cmd(t, IF op[t] = "up" THEN "ON"
                          ELSE IF op[t] = "reset" THEN "RESET" ELSE "OFF")

InRecv(t)   == pc[t] \in {"in1", "in2"}
Captured(c) == \E t \in Threads : InRecv(t) /\ sock[t] = c
FreeConns   == {c \in Conns : conn[c] = NoConn /\ ~Captured(c)}
Backlog     == {c \in Conns : conn[c].backlog}

Init ==
  /\ reversed \in Modes
  /\ OpsOf \in Hosts
  /\ open = FALSE
  /\ client_sock = INVALID_SOCKET
  /\ io_lock = NoThread
  /\ conn = [c \in Conns |-> NoConn]
  /\ pc = [t \in Threads |-> "idle"]
  /\ op = [t \in Threads |-> "present"]
  /\ seq = [t \in Threads |-> 0]
  /\ sock = [t \in Threads |-> INVALID_SOCKET]
  /\ need = [t \in Threads |-> 0]
  /\ got = [t \in Threads |-> <<>>]
  /\ r = [t \in Threads |-> 0]
  /\ res = [t \in Threads |-> NoRes]
  /\ vpicc = DownCard
  /\ lastPower = NoMsg
  /\ execs = [t \in Threads |-> 0]

-----------------------------------------------------------------------------
\* Sockets.

\* One end of a connection closes.  Unread data at the closing end makes the
\* kernel send a reset; data already sent stays readable at the other end.  A
\* connection waits in the accept queue of the end that listens.
ClosePcd(k) == LET d == [k EXCEPT !.pcd = FALSE, !.backlog = @ /\ reversed, !.toPcd = <<>>,
                                  !.rst = @ \/ k.toPcd # <<>>]
               IN IF d.icc THEN d ELSE NoConn
CloseIcc(k) == LET d == [k EXCEPT !.icc = FALSE, !.backlog = @ /\ ~reversed, !.toIcc = <<>>]
               IN IF d.pcd THEN d ELSE NoConn

\* vicc_eject
Eject(k) == /\ client_sock' = INVALID_SOCKET
            /\ conn' = IF client_sock \in Conns
                       THEN [k EXCEPT ![client_sock] = ClosePcd(@)] ELSE k

\* connectsock: when no address accepts the connection, the number of the
\* socket closed last is what it returns.
ConnectSock ==
  IF vpicc.pc # "down" /\ Backlog = {}
  THEN \E c \in FreeConns : /\ conn' = [conn EXCEPT ![c] = NewConn]
                            /\ client_sock' = c
  ELSE /\ client_sock' \in {STALE, INVALID_SOCKET}
       /\ UNCHANGED conn

\* waitforclient with a zero timeout
WaitForClient ==
  IF Backlog # {}
  THEN \E c \in Backlog : /\ conn' = [conn EXCEPT ![c].backlog = FALSE]
                          /\ client_sock' = c
  ELSE UNCHANGED <<conn, client_sock>>

\* sendall of a whole message.  A card that is gone is noticed by some sends
\* and not by others.
SendOk(m) == /\ client_sock \in Conns
             /\ Len(conn[client_sock].toIcc) + BodyLen(m) + 2 <= SndBuf
             /\ conn' = IF conn[client_sock].icc
                        THEN [conn EXCEPT ![client_sock].toIcc = @ \o Wire(m)]
                        ELSE conn
SendFails == client_sock \in Conns => ~conn[client_sock].icc

-----------------------------------------------------------------------------
\* The context is created and destroyed when no call is in progress.

AllIdle == \A t \in Threads : pc[t] = "idle"

\* IFDHCreateChannel and vicc_init
CreateChannel ==
  /\ ~open /\ AllIdle
  /\ open' = TRUE
  /\ IF reversed THEN ConnectSock
     ELSE client_sock' = INVALID_SOCKET /\ UNCHANGED conn
  /\ UNCHANGED <<io_lock, callVars, cardVars>>

\* What is left of the connections when the reader's descriptors are closed.
PcdClosed == [c \in Conns |-> IF conn[c].pcd THEN ClosePcd(conn[c]) ELSE conn[c]]

\* IFDHCloseChannel and vicc_exit
CloseChannel ==
  /\ open /\ AllIdle
  /\ open' = FALSE
  /\ client_sock' = INVALID_SOCKET
  /\ conn' = PcdClosed
  /\ UNCHANGED <<io_lock, callVars, cardVars>>

\* The process that hosts the driver dies; the kernel closes its sockets.
PcdDies ==
  /\ open
  /\ open' = FALSE
  /\ client_sock' = INVALID_SOCKET
  /\ io_lock' = NoThread
  /\ conn' = PcdClosed
  /\ pc' = [t \in Threads |-> "idle"]
  /\ res' = [t \in Threads |-> NoRes]
  /\ got' = [t \in Threads |-> <<>>]
  /\ r' = [t \in Threads |-> 0]
  /\ need' = [t \in Threads |-> 0]
  /\ sock' = [t \in Threads |-> INVALID_SOCKET]
  /\ UNCHANGED <<op, seq, cardVars>>

-----------------------------------------------------------------------------
\* The operations of ifd-vpcd.c.

\* What the caller holds after vicc_transmit returned bytes b: the answer to
\* its own request, a part of it, or bytes of something else.
Content(t, b) ==
  IF b = <<>> THEN "empty"
  ELSE IF \E a \in {b[1][1]} : /\ a \in Answers
                               /\ a.to = Request(t)
                               /\ b = Take(Body(a), Len(b))
       THEN IF Len(b) = BodyLen(b[1][1]) THEN "own" ELSE "cut"
       ELSE "foreign"

\* The code an IFD handler returns for return value v and bytes b.  One byte
\* of a length counts as success and leaves the buffer a null pointer.
CodeOf(t, v, b) ==
  IF op[t] = "present" THEN IF v > 0 THEN "PRESENT" ELSE "NOT_PRESENT"
  ELSE IF v > Len(b) THEN "FAULT"
  ELSE IF v < 0 \/ (v = 0 /\ op[t] \in {"atr", "up", "reset"}) THEN "COMM_ERROR"
  ELSE "SUCCESS"

\* PowerICC's own request reached the card that sent the ATR
Powered(t, b) == /\ b # <<>>
                 /\ b[1][1] \in Answers
                 /\ b[1][1].pw = PowerRequest(t)

Return(t, code, data, powered) ==
  /\ pc' = [pc EXCEPT ![t] = "idle"]
  /\ res' = [res EXCEPT ![t] = [code |-> code, data |-> data, powered |-> powered]]
  /\ got' = [got EXCEPT ![t] = <<>>]
  /\ r' = [r EXCEPT ![t] = 0]
  /\ need' = [need EXCEPT ![t] = 0]
  /\ sock' = [sock EXCEPT ![t] = INVALID_SOCKET]
  /\ UNCHANGED <<op, seq>>

ReturnTransmit(t) ==
  LET code == CodeOf(t, r[t], got[t])
  IN Return(t, code, IF code \in {"SUCCESS", "PRESENT"} THEN Content(t, got[t]) ELSE "none",
            Powered(t, got[t]))

Goto(t, l) == pc' = [pc EXCEPT ![t] = l]

\* The numbers that nothing on the wire or in the card refers to any more.
Carried(s)  == {s[i][1] : i \in 1 .. Len(s)}
UnderWay    == {lastPower, vpicc.ans} \cup UNION {Carried(conn[c].toIcc) \cup Carried(conn[c].toPcd) : c \in Conns}
AboutOf(m)  == IF m \in Answers THEN {m.to, m.pw} ELSE {m}
Unused(t)   == {k \in Numbers : \A m \in UnderWay : \A a \in AboutOf(m) \ {NoMsg} :
                                   a.by = t => a.n # k}

\* Mutant: power up only asks for the ATR.
CallUnpowered(t, o) ==
  /\ open /\ pc[t] = "idle" /\ o \in OpsOf[t]
  /\ op' = [op EXCEPT ![t] = o]
  /\ \E k \in Unused(t) : seq' = [seq EXCEPT ![t] = k] /\ \A j \in Unused(t) : k <= j
  /\ res' = [res EXCEPT ![t] = NoRes]
  /\ execs' = [execs EXCEPT ![t] = 0]
  /\ Goto(t, IF o = "present" THEN "connect" ELSE "lock")
  /\ UNCHANGED <<ctxVars, conn, sock, need, got, r, vpicc, lastPower>>

\* An IFD handler is entered.
Call(t, o) ==
  /\ open /\ pc[t] = "idle" /\ o \in OpsOf[t]
  /\ op' = [op EXCEPT ![t] = o]
  /\ \E k \in Unused(t) : seq' = [seq EXCEPT ![t] = k] /\ \A j \in Unused(t) : k <= j
  /\ res' = [res EXCEPT ![t] = NoRes]
  /\ execs' = [execs EXCEPT ![t] = 0]
  /\ Goto(t, IF o = "present" THEN "connect"
             ELSE IF o \in {"up", "reset", "down"} THEN "plock" ELSE "lock")
  /\ UNCHANGED <<ctxVars, conn, sock, need, got, r, vpicc, lastPower>>

\* vicc_connect, called by vicc_present
Connect(t) ==
  /\ pc[t] = "connect"
  /\ IF client_sock # INVALID_SOCKET THEN UNCHANGED <<client_sock, conn>>
     ELSE IF reversed THEN ConnectSock ELSE WaitForClient
  /\ IF client_sock' = INVALID_SOCKET
     THEN Return(t, "NOT_PRESENT", "none", FALSE)
     ELSE Goto(t, "lock") /\ UNCHANGED <<op, seq, sock, need, got, r, res>>
  /\ UNCHANGED <<open, io_lock, cardVars>>

\* Mutant: lock excludes nobody.
LockOpen(t) ==
  /\ pc[t] \in {"lock", "plock"}
  /\ io_lock' = t
  /\ Goto(t, IF pc[t] = "lock" THEN "send" ELSE "psend")
  /\ UNCHANGED <<open, client_sock, conn, op, seq, sock, need, got, r, res, cardVars>>

\* lock
Lock(t) ==
  /\ pc[t] \in {"lock", "plock"}
  /\ LockWorks => io_lock = NoThread
  /\ io_lock' = IF LockWorks THEN t ELSE io_lock
  /\ Goto(t, IF pc[t] = "lock" THEN "send" ELSE "psend")
  /\ UNCHANGED <<open, client_sock, conn, op, seq, sock, need, got, r, res, cardVars>>

\* Mutant: unlock is forgotten.
StillLocked == io_lock

Unlocked == IF LockWorks THEN NoThread ELSE io_lock

\* vicc_poweron, vicc_poweroff, vicc_reset: no answer is awaited.
PowerSend(t) ==
  /\ pc[t] = "psend"
  /\ \/ /\ SendOk(PowerRequest(t))
        /\ r' = [r EXCEPT ![t] = 3]
        /\ UNCHANGED client_sock
     \/ /\ SendFails
        /\ Eject(conn)
        /\ r' = [r EXCEPT ![t] = -1]
  /\ Goto(t, "punlock")
  /\ UNCHANGED <<open, io_lock, op, seq, sock, need, got, res, cardVars>>

\* ... and the rest of IFDHPowerICC: power up and reset go on to read the ATR.
PowerUnlock(t) ==
  /\ pc[t] = "punlock"
  /\ io_lock' = Unlocked
  /\ IF r[t] < 0 THEN Return(t, "COMM_ERROR", "none", FALSE)
     ELSE IF op[t] = "down" THEN Return(t, "SUCCESS", "none", FALSE)
     ELSE Goto(t, "lock") /\ UNCHANGED <<op, seq, sock, need, got, r, res>>
  /\ UNCHANGED <<open, client_sock, conn, cardVars>>

\* sendToVICC in vicc_transmit.  A message longer than 0xFFFF is refused, and
\* nothing is sent for an empty one.
Send(t) ==
  /\ pc[t] = "send"
  /\ \/ /\ op[t] \notin {"big", "empty"}
        /\ SendOk(Request(t))
        /\ UNCHANGED <<client_sock, r>>
        /\ Goto(t, "recv1")
     \/ /\ op[t] \notin {"big", "empty"}
        /\ SendFails
        /\ Eject(conn)
        /\ r' = [r EXCEPT ![t] = -1]
        /\ Goto(t, "unlock")
     \/ /\ op[t] = "big"
        /\ r' = [r EXCEPT ![t] = -1]
        /\ UNCHANGED <<client_sock, conn>>
        /\ Goto(t, "unlock")
     \/ /\ op[t] = "empty"
        /\ UNCHANGED <<client_sock, conn, r>>
        /\ Goto(t, "recv1")
  /\ UNCHANGED <<open, io_lock, op, seq, sock, need, got, res, cardVars>>

\* recvall is called: its descriptor is ctx->client_sock as it is now.
RecvCall(t) ==
  /\ pc[t] \in {"recv1", "recv2"}
  /\ sock' = [sock EXCEPT ![t] = client_sock]
  /\ need' = [need EXCEPT ![t] = IF pc[t] = "recv1" THEN 2 ELSE @]
  /\ Goto(t, IF pc[t] = "recv1" THEN "in1" ELSE "in2")
  /\ UNCHANGED <<ctxVars, conn, op, seq, got, r, res, cardVars>>

\* recv with MSG_WAITALL returns v and consumes the bytes b.
Stream(t) == conn[sock[t]].toPcd
WholeRecv(t) == /\ sock[t] \in Conns
                /\ Len(Stream(t)) >= need[t]
EofRecv(t)   == /\ sock[t] \in Conns
                /\ ~conn[sock[t]].icc
                /\ Len(Stream(t)) < need[t]
ErrorRecv(t) == sock[t] \in Conns => \/ ~conn[sock[t]].icc
                                     \/ LockWorks /\ ~conn[sock[t]].pcd
\* An error of the connection discards what it still held.
Discard(t) == conn' = IF sock[t] \in Conns /\ conn[sock[t]].pcd
                      THEN [conn EXCEPT ![sock[t]].toPcd = <<>>] ELSE conn
Consume(t, k) == conn' = [conn EXCEPT ![sock[t]].toPcd = Drop(@, k)]

\* The length is received.  A short count is returned to the caller; -1 is
\* not less than sizeof size, and is followed by a recv of any length.
RecvHeader(t) ==
  /\ pc[t] = "in1"
  /\ \/ /\ WholeRecv(t)
        /\ Consume(t, need[t])
        /\ need' \in {[need EXCEPT ![t] = k] : k \in Lengths(Take(Stream(t), need[t]))}
        /\ Goto(t, "recv2")
        /\ UNCHANGED r
     \/ /\ EofRecv(t)
        /\ r' = [r EXCEPT ![t] = Len(Stream(t))]
        /\ Consume(t, Len(Stream(t)))
        /\ Goto(t, "unlock")
        /\ UNCHANGED need
     \/ /\ ErrorRecv(t)
        /\ need' \in {[need EXCEPT ![t] = k] : k \in 0 .. 2}
        /\ Goto(t, "recv2")
        /\ Discard(t)
        /\ UNCHANGED r
  /\ sock' = [sock EXCEPT ![t] = INVALID_SOCKET]
  /\ UNCHANGED <<ctxVars, op, seq, got, res, cardVars>>

\* The body is received, whole or as far as it came.
RecvBody(t) ==
  /\ pc[t] = "in2"
  /\ \/ /\ WholeRecv(t)
        /\ got' = [got EXCEPT ![t] = Take(Stream(t), need[t])]
        /\ r' = [r EXCEPT ![t] = need[t]]
        /\ Consume(t, need[t])
     \/ /\ EofRecv(t)
        /\ got' = [got EXCEPT ![t] = Stream(t)]
        /\ r' = [r EXCEPT ![t] = Len(Stream(t))]
        /\ Consume(t, Len(Stream(t)))
     \/ /\ ErrorRecv(t)
        /\ r' = [r EXCEPT ![t] = -1]
        /\ Discard(t)
        /\ UNCHANGED got
  /\ Goto(t, "unlock")
  /\ sock' = [sock EXCEPT ![t] = INVALID_SOCKET]
  /\ UNCHANGED <<ctxVars, op, seq, need, res, cardVars>>

\* Mutants: the eject of vicc_transmit follows every exchange; it
\* does not happen at the end of the stream.
UnlockEager(t) ==
  /\ pc[t] = "unlock"
  /\ io_lock' = Unlocked
  /\ Goto(t, "eject")
  /\ UNCHANGED <<op, seq, sock, need, got, r, res>>
  /\ UNCHANGED <<open, client_sock, conn, cardVars>>
UnlockAtEof(t) ==
  /\ pc[t] = "unlock"
  /\ io_lock' = Unlocked
  /\ IF r[t] < 0
     THEN Goto(t, "eject") /\ UNCHANGED <<op, seq, sock, need, got, r, res>>
     ELSE ReturnTransmit(t)
  /\ UNCHANGED <<open, client_sock, conn, cardVars>>

\* unlock; a failed exchange ends in an eject outside the lock.
Unlock(t) ==
  /\ pc[t] = "unlock"
  /\ io_lock' = Unlocked
  /\ IF r[t] <= 0
     THEN Goto(t, "eject") /\ UNCHANGED <<op, seq, sock, need, got, r, res>>
     ELSE ReturnTransmit(t)
  /\ UNCHANGED <<open, client_sock, conn, cardVars>>

LateEject(t) ==
  /\ pc[t] = "eject"
  /\ Eject(conn)
  /\ ReturnTransmit(t)
  /\ UNCHANGED <<open, io_lock, cardVars>>

-----------------------------------------------------------------------------
\* The card process.

\* Every connection of a card process that ends is closed by the kernel.
IccClosed(k) == [c \in Conns |-> IF k[c].icc THEN CloseIcc(k[c]) ELSE k[c]]

\* Normal mode connects (connectToPort), reversed mode listens (openPort).
CardStarts ==
  /\ vpicc.pc = "down"
  /\ IF reversed
     THEN vpicc' = CardWith(INVALID_SOCKET, "accept") /\ UNCHANGED conn
     ELSE /\ open /\ Backlog = {}
          /\ \E c \in FreeConns : /\ conn' = [conn EXCEPT ![c] = NewConn]
                                  /\ vpicc' = CardWith(c, "hdr")
  /\ lastPower' = NoMsg
  /\ UNCHANGED <<ctxVars, callVars, execs>>

CardAccepts ==
  /\ vpicc.pc = "accept"
  /\ \E c \in Backlog : /\ conn' = [conn EXCEPT ![c].backlog = FALSE]
                        /\ vpicc' = CardWith(c, "hdr")
  /\ UNCHANGED <<ctxVars, callVars, lastPower, execs>>

\* An exception that run does not handle, sys.exit, or a kill.
CardEnds(k) == conn' = IccClosed(k) /\ vpicc' = DownCard

\* socket.error in run: reversed mode waits for the next vpcd, normal mode exits.
Disconnected ==
  IF reversed
  THEN /\ vpicc' = CardWith(INVALID_SOCKET, "accept")
       /\ conn' = [conn EXCEPT ![vpicc.conn] = CloseIcc(@)]
  ELSE CardEnds(conn)

\* The other end has closed; nothing more will arrive.  After a reset recv
\* raises, the handler leaves its result unassigned, and the process ends.
Hangup == /\ ~conn[vpicc.conn].pcd
          /\ ~Captured(vpicc.conn)
          /\ conn[vpicc.conn].toIcc = <<>>
          /\ IF conn[vpicc.conn].rst THEN CardEnds(conn) ELSE Disconnected

Arrived == conn[vpicc.conn].toIcc
\* How many of at most k bytes one recv returns.
RecvCounts(k) == IF Short THEN 1 .. Least(k, Len(Arrived)) ELSE {Least(k, Len(Arrived))}
CardConsumes(k) == conn' = [conn EXCEPT ![vpicc.conn].toIcc = Drop(@, k)]

\* __recvFromVPICC: the length.  Half of it is a struct.error.
CardRecvLength ==
  /\ vpicc.pc = "hdr"
  /\ \/ Hangup
     \/ /\ Arrived # <<>>
        /\ \E k \in RecvCounts(2) :
             IF k = 1 THEN CardEnds(conn)
             ELSE /\ CardConsumes(2)
                  /\ \E size \in Lengths(Take(Arrived, 2)) :
                       vpicc' = [vpicc EXCEPT
                         !.pc = IF size = 0 THEN "hdr" ELSE "body",
                         !.size = size]
  /\ UNCHANGED <<ctxVars, callVars, lastPower, execs>>

\* The message that received bytes b are, if they are all of one command.
Meant(b) == IF b[1][1] \in Commands /\ b = Body(b[1][1]) THEN b[1][1] ELSE NoMsg

\* What a one-byte message is taken for: a stray byte can be anything.
Controls(m) == IF m = NoMsg THEN ControlKinds \cup {"unknown"} ELSE {m.kind}

Answer(kind, m, pw) == [kind |-> kind, to |-> m, pw |-> pw]
ToReply(a) == vpicc' = [vpicc EXCEPT !.pc = "reply", !.size = 0, !.ans = a]
NoReply    == vpicc' = [vpicc EXCEPT !.pc = "hdr", !.size = 0]

\* Mutant: the card answers every control message.
DoControlAnswered(m) ==
  /\ UNCHANGED execs
  /\ ToReply(Answer("R-ATR", m, lastPower))
  /\ UNCHANGED lastPower

DoControl(m) ==
  /\ UNCHANGED execs
  /\ \E kind \in Controls(m) :
       \/ /\ kind = "ATR"
          /\ ToReply(Answer("R-ATR", m, lastPower))
          /\ UNCHANGED lastPower
       \/ /\ kind # "ATR"
          /\ NoReply
          /\ lastPower' = IF kind = "unknown" THEN lastPower ELSE m

\* os.execute
DoApdu(m) ==
  /\ IF m = NoMsg THEN ToReply(Answer("R-JUNK", NoMsg, NoMsg)) /\ UNCHANGED execs
     ELSE /\ ToReply(Answer("R-APDU", m, NoMsg))
          /\ execs' = IF m.n = seq[m.by] THEN [execs EXCEPT ![m.by] = Least(@ + 1, 2)] ELSE execs
  /\ UNCHANGED lastPower

\* The body is received and run dispatches on the announced size.
CardRecvBody ==
  /\ vpicc.pc = "body"
  /\ \/ /\ Hangup
        /\ UNCHANGED <<lastPower, execs>>
     \/ /\ Arrived # <<>>
        /\ \E k \in RecvCounts(vpicc.size) :
             LET m == Meant(Take(Arrived, k))
             IN /\ CardConsumes(k)
                /\ IF vpicc.size = 1 THEN DoControl(m) ELSE DoApdu(m)
  /\ UNCHANGED <<ctxVars, callVars>>

\* __sendToVPICC.  Nobody handles the error of a send to a closed connection.
CardReplies ==
  /\ vpicc.pc = "reply"
  /\ LET c == vpicc.conn
         heard == conn[c].pcd \/ Captured(c)
         after == [vpicc EXCEPT !.pc = "hdr", !.ans = NoMsg]
     IN \/ /\ heard
           /\ conn' = [conn EXCEPT ![c].toPcd = @ \o Wire(vpicc.ans)]
           /\ vpicc' = after
        \/ /\ ~heard
           /\ \/ /\ conn' = [conn EXCEPT ![c].rst = TRUE]
                 /\ vpicc' = after
              \/ CardEnds(conn)
  /\ UNCHANGED <<ctxVars, callVars, lastPower, execs>>

\* The card process is killed, possibly with part of a reply sent.
CardDies ==
  /\ vpicc.pc # "down"
  /\ IF vpicc.pc = "reply" /\ conn[vpicc.conn].pcd
     THEN \E k \in Cuts :
            CardEnds([conn EXCEPT ![vpicc.conn].toPcd = @ \o Take(Wire(vpicc.ans), k)])
     ELSE CardEnds(conn)
  /\ UNCHANGED <<ctxVars, callVars, lastPower, execs>>

-----------------------------------------------------------------------------
Step(t) ==
  \/ Connect(t)
  \/ Lock(t)
  \/ PowerSend(t)
  \/ PowerUnlock(t)
  \/ Send(t)
  \/ RecvCall(t)
  \/ RecvHeader(t)
  \/ RecvBody(t)
  \/ Unlock(t)
  \/ LateEject(t)

CardStep == CardAccepts \/ CardRecvLength \/ CardRecvBody \/ CardReplies

Next ==
  /\ \/ CreateChannel
     \/ CloseChannel
     \/ PcdDies
     \/ \E t \in Threads : (\E o \in OpsOf[t] : Call(t, o)) \/ Step(t)
     \/ CardStep
     \/ CardStarts
     \/ CardDies
  /\ UNCHANGED <<reversed, OpsOf>>

Spec == Init /\ [][Next]_vars

\* The operating system keeps running the callers and the card process; a
\* caller that waits for the lock gets it when it is free often enough.
\* Nothing makes a card start, and nothing makes one die.
FairSpec ==
  /\ Spec
  /\ \A t \in Threads : WF_linkVars(Step(t)) /\ SF_linkVars(Lock(t))
  /\ WF_linkVars(CardStep)

\* pcscd keeps its channel open and polls for a card.
PollingSpec ==
  /\ FairSpec
  /\ WF_linkVars(CreateChannel)
  /\ \A t \in Threads : SF_linkVars(Call(t, "present"))

-----------------------------------------------------------------------------
Bytes == Messages \X (1 .. 4)

ConnType == [backlog : BOOLEAN, pcd : BOOLEAN, icc : BOOLEAN, rst : BOOLEAN,
             toIcc : Seq(Bytes), toPcd : Seq(Bytes)]
SockType == Conns \cup {INVALID_SOCKET, STALE}
CardType == [pc : CardPCs, conn : Conns \cup {INVALID_SOCKET}, size : 0 .. 2,
             ans : Answers \cup {NoMsg}]

TypeOK ==
  /\ reversed \in BOOLEAN
  /\ OpsOf \in Hosts
  /\ open \in BOOLEAN
  /\ client_sock \in SockType
  /\ io_lock \in Threads \cup {NoThread}
  /\ conn \in [Conns -> ConnType]
  /\ pc \in [Threads -> PCs]
  /\ op \in [Threads -> IfdOps]
  /\ seq \in [Threads -> Numbers]
  /\ sock \in [Threads -> SockType]
  /\ need \in [Threads -> 0 .. 2]
  /\ got \in [Threads -> Seq(Bytes)]
  /\ r \in [Threads -> -1 .. 3]
  /\ res \in [Threads -> [code : Codes, data : Contents, powered : BOOLEAN]]
  /\ vpicc \in CardType
  /\ lastPower \in Commands \cup {NoMsg}
  /\ execs \in [Threads -> 0 .. 2]

\* The bytes a caller gets are the answer to what it sent, or the beginning of
\* that answer, never another caller's or an earlier answer.
AnswerIsOwn == \A t \in Threads : res[t].data # "foreign"

\* A connection on which no exchange is in progress holds no answer that a
\* later exchange would take for its own: what an exchange leaves unread, the
\* eject throws away with the connection.
NoAnswerLeft ==
  AllIdle /\ client_sock \in Conns =>
    /\ conn[client_sock].toPcd = <<>>
    /\ vpicc.conn = client_sock => vpicc.pc # "reply"

\* pcscd calls the handlers of a slot one at a time.
OneCaller == \A t, u \in Threads : OpsOf[t] # {} /\ OpsOf[u] # {} => t = u

\* IFDHPowerICC reports success for power up and reset only with the ATR of a
\* card that has executed this very request, when the calls do not overlap:
\* with a thread that polls, another card may be connected between the two
\* exchanges.
PowerReachesCard ==
  OneCaller =>
    \A t \in Threads : op[t] \in {"up", "reset"} /\ res[t].code = "SUCCESS"
                         => res[t].powered

\* An exchange that fails ejects the connection it failed on: whenever the
\* reader closes a connection on its own account, and its calls do not overlap,
\* the card had gone already or the reader itself refused the message.
EjectOnlyDead ==
  [][OneCaller =>
       \A c \in Conns : conn[c].pcd /\ ~conn'[c].pcd /\ open' /\ open
         => \/ ~conn[c].icc
            \/ \E t \in Threads : pc[t] = "eject" /\ op[t] = "big"]_vars

\* VirtualICC.run: command APDUs are received and dispatched to the card.
CardRunsCommands == vpicc.ans # NoMsg => vpicc.ans.kind # "R-JUNK"

\* Every call returns.
CallsReturn == \A t \in Threads : pc[t] # "idle" ~> pc[t] = "idle"

\* A card that has started and keeps running is found by the polling reader,
\* if the channel stays open.
CardIsFound ==
  \A t \in Threads :
    "present" \in OpsOf[t] /\ open /\ vpicc.pc # "down"
      ~> (~open \/ vpicc.pc = "down" \/ res[t].code = "PRESENT")

-----------------------------------------------------------------------------
\* What this link promises to applications.
Transmits(t) == op[t] = "transmit" /\ pc[t] # "idle"
Stage(t) == IF ~Transmits(t) THEN "none"
            ELSE IF execs[t] = 0 THEN "sent"
            ELSE IF execs[t] = 1 THEN "executed" ELSE "twice"
Outcome(t) == IF op[t] # "transmit" \/ res[t].code = "none" THEN "none"
              ELSE IF res[t].data \in {"own", "cut"} THEN "own"
              ELSE IF res[t].data = "foreign" THEN "foreign" ELSE "failed"

Channel == INSTANCE CardChannel WITH
  stage  <- [t \in Threads |-> Stage(t)],
  answer <- [t \in Threads |-> Outcome(t)]

ImplementsChannel == Channel!Spec
=============================================================================
