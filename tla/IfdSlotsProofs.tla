--------------------------- MODULE IfdSlotsProofs ---------------------------
(***************************************************************************)
(* Proofs about IfdSlots, for any number of slots and descriptors.         *)
(*                                                                         *)
(* In both modes the types hold and no socket is lost.  In server mode     *)
(* (no hostname) a context holds only descriptors of its own, hence a      *)
(* command reaches the card of its slot, no other descriptor of the        *)
(* process is touched, and no channel closes with an error.                *)
(***************************************************************************)
EXTENDS IfdSlots, TLAPS

\* Where a handler that is inside connectsock stands.
InConnect ==
  /\ \A l \in Luns : pc[l] \in {"idle", "exchange"} => tmp[l] = INVALID_SOCKET
  /\ \A l \in Luns : pc[l] = "create" => l \notin opened
  /\ \A l \in Luns : pc[l] \in {"connect", "exchange"} => l \in opened
  /\ \A l \in Luns : pc[l] = "connect" => client_sock[SlotOf[l]] = INVALID_SOCKET

\* The entries of the descriptor table can be told apart.
LEMMA Kinds ==
  /\ Closed \in Entries /\ Other \in Entries /\ Closed # Other
  /\ \A l \in Luns : /\ Socket(l) \in Entries /\ Listening(l) \in Entries
                     /\ Socket(l) \notin {Closed, Other} /\ Listening(l) \notin {Closed, Other}
                     /\ Socket(l).kind = "socket" /\ Socket(l).lun = l
  /\ \A l, m \in Luns : /\ Socket(l) # Listening(m)
                        /\ Socket(l) = Socket(m) => l = m
                        /\ Listening(l) = Listening(m) => l = m
BY DEF Entries, Closed, Other, Socket, Listening

\* TypeOK is an invariant: every handler leaves the tables of descriptors,
\* contexts and channels well formed.
LEMMA TypeStep == ASSUME TypeOK, [Next]_vars PROVE TypeOK'
<1>0. hostname' \in BOOLEAN
  BY DEF Next, vars, TypeOK
<1>. USE <1>0, SlotsAssumption DEF TypeOK, Entries, Closed, Other, Socket, Listening
<1>1. CASE Process
  BY <1>1 DEF Process, OtherOpen, OtherClose
<1>2. ASSUME NEW l \in Luns, CreateListening(l) PROVE TypeOK'
  BY <1>2 DEF CreateListening
<1>3. ASSUME NEW l \in Luns, CreateConnecting(l) PROVE TypeOK'
  BY <1>3 DEF CreateConnecting, SocketFor, Goto
<1>4. ASSUME NEW l \in Luns, CreateConnected(l) PROVE TypeOK'
  BY <1>4 DEF CreateConnected, ConnectResult, CloseFd, Goto
<1>5. ASSUME NEW l \in Luns, Accept(l) PROVE TypeOK'
  BY <1>5 DEF Accept, Goto
<1>6. ASSUME NEW l \in Luns, Reconnect(l) PROVE TypeOK'
  BY <1>6 DEF Reconnect, SocketFor, Goto
<1>7. ASSUME NEW l \in Luns, Reconnected(l) PROVE TypeOK'
  BY <1>7 DEF Reconnected, ConnectResult, CloseFd, Goto
<1>8. ASSUME NEW l \in Luns, Handler(l) PROVE TypeOK'
  BY <1>8 DEF Handler, Goto
<1>9. ASSUME NEW l \in Luns, ExchangeOk(l) PROVE TypeOK'
  BY <1>9 DEF ExchangeOk, IsSocket, Goto
<1>10. ASSUME NEW l \in Luns, ExchangeFails(l) PROVE TypeOK'
  BY <1>10 DEF ExchangeFails, IsSocket, EjectSlot, CloseFd, Goto
<1>11. ASSUME NEW l \in Luns, CloseChannel(l) PROVE TypeOK'
  BY <1>11 DEF CloseChannel, CloseFails, CloseFd
<1>12. CASE UNCHANGED vars
  BY <1>12 DEF vars
<1>. QED
  BY <1>1, <1>2, <1>3, <1>4, <1>5, <1>6, <1>7, <1>8, <1>9, <1>10, <1>11, <1>12
  DEF Next, Driver

\* The handlers keep their places: what connectsock has begun is stored, and
\* only an open channel exchanges messages.
LEMMA InConnectStep == ASSUME TypeOK, InConnect, [Next]_vars PROVE InConnect'
<1>. USE SlotsAssumption DEF TypeOK, InConnect
<1>1. CASE Process
  BY <1>1 DEF Process
<1>2. ASSUME NEW l \in Luns, CreateListening(l) PROVE InConnect'
  BY <1>2 DEF CreateListening, Idle
<1>3. ASSUME NEW l \in Luns, CreateConnecting(l) PROVE InConnect'
  BY <1>3 DEF CreateConnecting, SocketFor, Goto, Idle
<1>4. ASSUME NEW l \in Luns, CreateConnected(l) PROVE InConnect'
  BY <1>4 DEF CreateConnected, ConnectResult, Goto
<1>5. ASSUME NEW l \in Luns, Accept(l) PROVE InConnect'
  BY <1>5 DEF Accept, Goto, Idle
<1>6. ASSUME NEW l \in Luns, Reconnect(l) PROVE InConnect'
  BY <1>6 DEF Reconnect, SocketFor, Goto, Idle
<1>7. ASSUME NEW l \in Luns, Reconnected(l) PROVE InConnect'
  BY <1>7 DEF Reconnected, ConnectResult, Goto
<1>8. ASSUME NEW l \in Luns, Handler(l) PROVE InConnect'
  BY <1>8 DEF Handler, Goto, Idle
<1>9. ASSUME NEW l \in Luns, ExchangeOk(l) PROVE InConnect'
  BY <1>9 DEF ExchangeOk, Goto
<1>10. ASSUME NEW l \in Luns, ExchangeFails(l) PROVE InConnect'
  BY <1>10 DEF ExchangeFails, EjectSlot, Goto
<1>11. ASSUME NEW l \in Luns, CloseChannel(l) PROVE InConnect'
  BY <1>11 DEF CloseChannel, Idle
<1>12. CASE UNCHANGED vars
  BY <1>12 DEF vars
<1>. QED
  BY <1>1, <1>2, <1>3, <1>4, <1>5, <1>6, <1>7, <1>8, <1>9, <1>10, <1>11, <1>12
  DEF Next, Driver

\* A socket has one place to be: the context of its slot, or the handler that
\* will put it there.
LEMMA NoneLostStep == ASSUME TypeOK, InConnect, NoneLost, [Next]_vars PROVE NoneLost'
<1>. USE SlotsAssumption, Kinds DEF TypeOK, InConnect, NoneLost
<1>1. CASE Process
  <2>1. /\ fdt \in [Fds -> Entries]
        /\ UNCHANGED <<client_sock, server_sock, opened, tmp>>
    BY <1>1 DEF Process
  <2>2. PICK fd \in Fds, e \in {Other, Closed} : fdt' = [fdt EXCEPT ![fd] = e]
    BY <1>1 DEF Process, OtherOpen, OtherClose
  <2>3. \A l \in Luns : e # Socket(l) /\ e # Listening(l)
    BY Kinds
  <2>4. ASSUME NEW g \in Fds, NEW l \in Luns
        PROVE  /\ fdt'[g] = Socket(l) => fdt[g] = Socket(l)
               /\ fdt'[g] = Listening(l) => fdt[g] = Listening(l)
    <3>1. CASE g = fd
      BY <2>1, <2>2, <2>3, <3>1
    <3>2. CASE g # fd
      BY <2>1, <2>2, <3>2
    <3>. QED
      BY <3>1, <3>2
  <2>. QED
    BY <2>1, <2>4
<1>2. ASSUME NEW l \in Luns, CreateListening(l) PROVE NoneLost'
  BY <1>2 DEF CreateListening, Idle
<1>3. ASSUME NEW l \in Luns, CreateConnecting(l) PROVE NoneLost'
  BY <1>3 DEF CreateConnecting, SocketFor, Goto, Idle
<1>4. ASSUME NEW l \in Luns, CreateConnected(l) PROVE NoneLost'
  BY <1>4 DEF CreateConnected, ConnectResult, CloseFd, Goto
<1>5. ASSUME NEW l \in Luns, Accept(l) PROVE NoneLost'
  <2>. DEFINE s == SlotOf[l]
  <2>1. PICK fd \in Fds : /\ fdt' = [fdt EXCEPT ![fd] = Socket(l)]
                          /\ client_sock' = [client_sock EXCEPT ![s] = fd]
    BY <1>5 DEF Accept
  <2>2. /\ l \in opened /\ client_sock[s] = INVALID_SOCKET /\ tmp[l] = INVALID_SOCKET
        /\ UNCHANGED <<server_sock, opened, tmp>>
    BY <1>5 DEF Accept, Idle
  <2>. SUFFICES ASSUME NEW g \in Fds, NEW m \in Luns
                PROVE /\ fdt'[g] = Socket(m) => \/ m \in opened' /\ client_sock'[SlotOf[m]] = g
                                                \/ tmp'[m] = g
                      /\ fdt'[g] = Listening(m) => m \in opened' /\ server_sock'[SlotOf[m]] = g
    OBVIOUS
  <2>3. CASE g = fd
    BY <2>1, <2>2, <2>3
  <2>4. CASE g # fd
    BY <2>1, <2>2, <2>4
  <2>. QED
    BY <2>3, <2>4
<1>6. ASSUME NEW l \in Luns, Reconnect(l) PROVE NoneLost'
  BY <1>6 DEF Reconnect, SocketFor, Goto, Idle
<1>7. ASSUME NEW l \in Luns, Reconnected(l) PROVE NoneLost'
  BY <1>7 DEF Reconnected, ConnectResult, CloseFd, Goto
<1>8. ASSUME NEW l \in Luns, Handler(l) PROVE NoneLost'
  BY <1>8 DEF Handler, Goto, Idle
<1>9. ASSUME NEW l \in Luns, ExchangeOk(l) PROVE NoneLost'
  BY <1>9 DEF ExchangeOk, Goto
<1>10. ASSUME NEW l \in Luns, ExchangeFails(l) PROVE NoneLost'
  BY <1>10 DEF ExchangeFails, EjectSlot, CloseFd, Goto
<1>11. ASSUME NEW l \in Luns, CloseChannel(l) PROVE NoneLost'
  BY <1>11 DEF CloseChannel, CloseFd, Idle
<1>12. CASE UNCHANGED vars
  BY <1>12 DEF vars
<1>. QED
  BY <1>1, <1>2, <1>3, <1>4, <1>5, <1>6, <1>7, <1>8, <1>9, <1>10, <1>11, <1>12
  DEF Next, Driver

\* TypeOK holds in every reachable state, in both modes.
THEOREM TypesHold == Spec => []TypeOK
<1>1. Init => TypeOK
  BY SlotsAssumption DEF Init, TypeOK, Entries, Closed, Other
<1>2. TypeOK /\ [Next]_vars => TypeOK'
  BY TypeStep
<1>. QED
  BY <1>1, <1>2, PTL DEF Spec

\* NoneLost holds in both modes: whatever connects, fails or is ejected, every
\* socket the driver opened can still be closed by it.
THEOREM NoSocketIsLost == Spec => []NoneLost
<1>. DEFINE Inv == TypeOK /\ InConnect /\ NoneLost
<1>1. Init => Inv
  BY SlotsAssumption
  DEF Init, TypeOK, InConnect, NoneLost, Entries, Closed, Other, Socket, Listening
<1>2. Inv /\ [Next]_vars => Inv'
  BY TypeStep, InConnectStep, NoneLostStep
<1>. QED
  BY <1>1, <1>2, PTL DEF Spec

-----------------------------------------------------------------------------
\* Server mode.

\* No handler is inside connectsock, every open channel has a live context and
\* a listening socket, and messages have gone to the right card.
ServerInv ==
  /\ \A l \in Luns : pc[l] \in {"idle", "exchange"}
  /\ \A l \in Luns : pc[l] = "exchange" => l \in opened
  /\ SocketsAreOwn
  /\ CommandsReachOwnCard
  /\ NoDanglingContext

LEMMA ServerInit == ASSUME Init PROVE ServerInv
BY SlotsAssumption DEF Init, ServerInv, SocketsAreOwn, CommandsReachOwnCard, NoDanglingContext

LEMMA ServerStep == ASSUME ~hostname, ~hostname', TypeOK, ServerInv, [Next]_vars PROVE ServerInv'
<1>. USE SlotsAssumption, Kinds DEF TypeOK, ServerInv
<1>1. CASE Process
  <2>1. SocketsAreOwn'
    BY <1>1 DEF Process, OtherOpen, OtherClose, IsNew, SocketsAreOwn
  <2>2. CommandsReachOwnCard'
    BY <1>1 DEF Process, OtherOpen, OtherClose, IsNew, SocketsAreOwn, CommandsReachOwnCard
  <2>3. NoDanglingContext'
    BY <1>1 DEF Process, OtherOpen, OtherClose, IsNew, SocketsAreOwn, NoDanglingContext
  <2>. QED
    BY <1>1, <2>1, <2>2, <2>3 DEF Process, OtherOpen, OtherClose, IsNew
<1>2. ASSUME NEW l \in Luns, CreateListening(l) PROVE ServerInv'
  <2>1. SocketsAreOwn'
    <3>1. \A m \in opened' : m # l => m \in opened /\ SlotOf[m] # SlotOf[l]
      BY <1>2 DEF CreateListening
    <3>2. CASE UNCHANGED <<fdt, server_sock, client_sock, opened>>
      BY <3>2 DEF SocketsAreOwn
    <3>3. ASSUME NEW fd \in Fds, fdt[fd] = Closed, fdt' = [fdt EXCEPT ![fd] = Listening(l)],
                 server_sock' = [server_sock EXCEPT ![SlotOf[l]] = fd],
                 client_sock' = [client_sock EXCEPT ![SlotOf[l]] = INVALID_SOCKET],
                 NEW m \in opened'
          PROVE /\ client_sock'[SlotOf[m]] # INVALID_SOCKET => fdt'[client_sock'[SlotOf[m]]] = Socket(m)
                /\ server_sock'[SlotOf[m]] # INVALID_SOCKET => fdt'[server_sock'[SlotOf[m]]] = Listening(m)
      <4>1. CASE m = l
        BY <3>3, <4>1
      <4>2. CASE m # l
        BY <3>1, <3>3, <4>2 DEF SocketsAreOwn
      <4>. QED
        BY <4>1, <4>2
    <3>. QED
      BY <1>2, <3>2, <3>3 DEF CreateListening, IsNew, SocketsAreOwn
  <2>2. CommandsReachOwnCard'
    BY <1>2 DEF CreateListening, Idle, IsNew, SocketsAreOwn, CommandsReachOwnCard
  <2>3. NoDanglingContext'
    BY <1>2 DEF CreateListening, Idle, IsNew, SocketsAreOwn, NoDanglingContext
  <2>. QED
    BY <1>2, <2>1, <2>2, <2>3 DEF CreateListening, Idle, IsNew
<1>3. ASSUME NEW l \in Luns, CreateConnecting(l) \/ Reconnect(l) PROVE FALSE
  BY <1>3 DEF CreateConnecting, Reconnect
<1>4. ASSUME NEW l \in Luns, CreateConnected(l) \/ Reconnected(l) PROVE FALSE
  BY <1>4 DEF CreateConnected, Reconnected
<1>5. ASSUME NEW l \in Luns, Accept(l) PROVE ServerInv'
  <2>1. SocketsAreOwn'
    BY <1>5 DEF Accept, Goto, Idle, IsNew, SocketsAreOwn
  <2>2. CommandsReachOwnCard'
    BY <1>5 DEF Accept, Goto, Idle, IsNew, SocketsAreOwn, CommandsReachOwnCard
  <2>3. NoDanglingContext'
    BY <1>5 DEF Accept, Goto, Idle, IsNew, SocketsAreOwn, NoDanglingContext
  <2>. QED
    BY <1>5, <2>1, <2>2, <2>3 DEF Accept, Goto, Idle, IsNew
<1>8. ASSUME NEW l \in Luns, Handler(l) PROVE ServerInv'
  BY <1>8 DEF Handler, Goto, Idle, SocketsAreOwn, CommandsReachOwnCard, NoDanglingContext
<1>9. ASSUME NEW l \in Luns, ExchangeOk(l) PROVE ServerInv'
  <2>1. SocketsAreOwn'
    BY <1>9 DEF ExchangeOk, IsSocket, Goto, SocketsAreOwn
  <2>2. CommandsReachOwnCard'
    BY <1>9 DEF ExchangeOk, IsSocket, Goto, SocketsAreOwn, CommandsReachOwnCard
  <2>3. NoDanglingContext'
    BY <1>9 DEF ExchangeOk, IsSocket, Goto, SocketsAreOwn, NoDanglingContext
  <2>. QED
    BY <1>9, <2>1, <2>2, <2>3 DEF ExchangeOk, IsSocket, Goto
<1>10. ASSUME NEW l \in Luns, ExchangeFails(l) PROVE ServerInv'
  <2>1. SocketsAreOwn'
    BY <1>10 DEF ExchangeFails, IsSocket, EjectSlot, CloseFd, Goto, SocketsAreOwn
  <2>2. CommandsReachOwnCard'
    BY <1>10 DEF ExchangeFails, IsSocket, EjectSlot, CloseFd, Goto, SocketsAreOwn, CommandsReachOwnCard
  <2>3. NoDanglingContext'
    BY <1>10 DEF ExchangeFails, IsSocket, EjectSlot, CloseFd, Goto, SocketsAreOwn, NoDanglingContext
  <2>. QED
    BY <1>10, <2>1, <2>2, <2>3 DEF ExchangeFails, IsSocket, EjectSlot, CloseFd, Goto
<1>11. ASSUME NEW l \in Luns, CloseChannel(l) PROVE ServerInv'
  <2>1. SocketsAreOwn'
    BY <1>11 DEF CloseChannel, CloseFails, CloseFd, Idle, SocketsAreOwn
  <2>2. CommandsReachOwnCard'
    BY <1>11 DEF CloseChannel, CloseFails, CloseFd, Idle, SocketsAreOwn, CommandsReachOwnCard
  <2>3. NoDanglingContext'
    BY <1>11 DEF CloseChannel, CloseFails, CloseFd, Idle, SocketsAreOwn, NoDanglingContext
  <2>. QED
    BY <1>11, <2>1, <2>2, <2>3 DEF CloseChannel, CloseFails, CloseFd, Idle
<1>12. CASE UNCHANGED vars
  BY <1>12 DEF vars, SocketsAreOwn, CommandsReachOwnCard, NoDanglingContext
<1>. QED
  BY <1>1, <1>2, <1>3, <1>4, <1>5, <1>8, <1>9, <1>10, <1>11, <1>12 DEF Next, Driver

LEMMA ServerInvHolds == Spec => [](TypeOK /\ (~hostname => ServerInv))
<1>1. Init => TypeOK /\ (~hostname => ServerInv)
  BY ServerInit, SlotsAssumption DEF Init, TypeOK, Entries, Closed, Other
<1>2. TypeOK /\ (~hostname => ServerInv) /\ [Next]_vars => (TypeOK /\ (~hostname => ServerInv))'
  <2>1. [Next]_vars => hostname' = hostname
    BY DEF Next, vars
  <2>. QED
    BY <2>1, TypeStep, ServerStep
<1>. QED
  BY <1>1, <1>2, PTL DEF Spec

\* In server mode SocketsAreOwn holds: no slot ever holds a descriptor that
\* belongs to another slot or to pcscd.
THEOREM ServerSocketsAreOwn == Spec => []SocketsAreOwn
<1>1. (~hostname => ServerInv) => SocketsAreOwn
  BY DEF ServerInv, SocketsAreOwn
<1>. QED
  BY <1>1, ServerInvHolds, PTL

\* In server mode CommandsReachOwnCard holds: a command sent to a slot arrives
\* at the card that connected to this slot.
THEOREM ServerCommandsReachOwnCard == Spec => []CommandsReachOwnCard
<1>1. (~hostname => ServerInv) => CommandsReachOwnCard
  BY DEF ServerInv, CommandsReachOwnCard
<1>. QED
  BY <1>1, ServerInvHolds, PTL

\* In server mode NoDanglingContext holds: IFDHCloseChannel never meets the
\* close error after which it would leave a freed context in ctx[].
THEOREM ServerNoDanglingContext == Spec => []NoDanglingContext
<1>1. (~hostname => ServerInv) => NoDanglingContext
  BY DEF ServerInv, NoDanglingContext
<1>. QED
  BY <1>1, ServerInvHolds, PTL

\* In server mode LeavesOthersAlone holds: no handler closes a descriptor that
\* pcscd uses for something else.
THEOREM ServerLeavesOthersAlone == Spec => LeavesOthersAlone
<1>. DEFINE Alone == ~hostname /\ (\E l \in Luns : Driver(l)) => \A fd \in Fds : fdt[fd] = Other => fdt'[fd] = Other
<1>1. TypeOK /\ (~hostname => ServerInv) /\ [Next]_vars => [Alone]_vars
  <2>. SUFFICES ASSUME TypeOK, ServerInv, ~hostname, NEW l \in Luns, Driver(l), NEW fd \in Fds, fdt[fd] = Other
                PROVE fdt'[fd] = Other
    OBVIOUS
  <2>. USE SlotsAssumption, Kinds DEF TypeOK, ServerInv, SocketsAreOwn
  <2>1. CASE CreateListening(l)
    BY <2>1 DEF CreateListening, IsNew
  <2>2. CASE Accept(l)
    BY <2>2 DEF Accept, IsNew
  <2>3. CASE ExchangeFails(l)
    BY <2>3 DEF ExchangeFails, EjectSlot, CloseFd
  <2>4. CASE CloseChannel(l)
    <3>. DEFINE c == client_sock[SlotOf[l]]
                v == server_sock[SlotOf[l]]
    <3>1. l \in opened /\ fdt' = CloseFd(CloseFd(fdt, c), v)
      BY <2>4 DEF CloseChannel
    <3>2. fd # c /\ fd # v
      BY <3>1
    <3>3. CloseFd(fdt, c) \in [Fds -> Entries] /\ CloseFd(fdt, c)[fd] = Other
      BY <3>2 DEF CloseFd, Entries
    <3>. QED
      BY <3>1, <3>2, <3>3 DEF CloseFd
  <2>5. CASE CreateConnecting(l) \/ Reconnect(l) \/ CreateConnected(l) \/ Reconnected(l)
    BY <2>5 DEF CreateConnecting, Reconnect, CreateConnected, Reconnected
  <2>6. CASE Handler(l) \/ ExchangeOk(l)
    BY <2>6 DEF Handler, ExchangeOk
  <2>. QED
    BY <2>1, <2>2, <2>3, <2>4, <2>5, <2>6 DEF Driver
<1>. QED
  BY <1>1, ServerInvHolds, PTL DEF Spec, LeavesOthersAlone
=============================================================================
