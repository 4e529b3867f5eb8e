------------------------------ MODULE IfdSlots ------------------------------
(***************************************************************************)
(* The slots of the IFD handler (ifd-vpcd.c) and the descriptors their     *)
(* contexts hold (vpcd.c).  pcscd serialises the calls on one slot and     *)
(* lets the slots run side by side (TAG_IFD_SLOT_THREAD_SAFE); they share  *)
(* the descriptor table of the process with whatever else pcscd has open.  *)
(* What travels over a connection is the subject of VpcdLink; here an      *)
(* exchange succeeds or fails.  One reader uses the driver: ctx[] is       *)
(* indexed by Lun & 0xffff, which tells the slots of one reader apart.     *)
(***************************************************************************)
EXTENDS Integers, FiniteSets

CONSTANTS
  Luns,             \* logical units pcscd has given to readers of this driver
  Slots,            \* 0 .. VICC_MAX_SLOTS - 1
  SlotOf,           \* Lun & 0xffff
  Fds,              \* descriptor numbers
  INVALID_SOCKET, NoLun

ASSUME SlotsAssumption ==
  /\ SlotOf \in [Luns -> Slots]
  /\ \A l, m \in Luns : SlotOf[l] = SlotOf[m] => l = m
  /\ Fds \subseteq Nat
  /\ INVALID_SOCKET \notin Fds
  /\ NoLun \notin Luns

VARIABLES
  hostname,     \* DEVICENAME names a host that runs vpicc (all slots of a reader
                \* have one DEVICENAME)
  fdt,          \* the descriptor table of the process
  ctx,          \* static struct vicc_ctx *ctx[]: null, allocated or freed
  server_sock,  \* vicc_ctx.server_sock of each slot's context
  client_sock,  \* vicc_ctx.client_sock of each slot's context
  opened,       \* the Luns pcscd has opened a channel on
  pc, tmp,      \* a handler inside connectsock or before its exchange
  reached       \* whose connection the last message of a Lun was sent on

vars == <<hostname, fdt, ctx, server_sock, client_sock, opened, pc, tmp, reached>>

Closed == [kind |-> "none", lun |-> NoLun]
Other  == [kind |-> "other", lun |-> NoLun]
Listening(l) == [kind |-> "listen", lun |-> l]
Socket(l)    == [kind |-> "socket", lun |-> l]
Entries == [kind : {"none", "other", "listen", "socket"}, lun : Luns \cup {NoLun}]

\* socket() and accept() return the lowest number that is not in use.
IsNew(fd) == /\ fdt[fd] = Closed
             /\ \A g \in Fds : g < fd => fdt[g] # Closed

Init ==
  /\ hostname \in BOOLEAN
  /\ fdt \in [Fds -> {Closed, Other}]
  /\ ctx = [s \in Slots |-> "null"]
  /\ server_sock = [s \in Slots |-> INVALID_SOCKET]
  /\ client_sock = [s \in Slots |-> INVALID_SOCKET]
  /\ opened = {}
  /\ pc = [l \in Luns |-> "idle"]
  /\ tmp = [l \in Luns |-> INVALID_SOCKET]
  /\ reached = [l \in Luns |-> NoLun]

Idle(l) == pc[l] = "idle"
Goto(l, p) == pc' = [pc EXCEPT ![l] = p]

-----------------------------------------------------------------------------
\* Mutant: a context that vicc_init has already freed is returned.
CreateListeningFreed(l) ==
  /\ ~hostname /\ Idle(l) /\ l \notin opened
  /\ ctx' = [ctx EXCEPT ![SlotOf[l]] = "freed"]
  /\ UNCHANGED <<fdt, server_sock, client_sock, opened, pc, tmp, reached>>

\* IFDHCreateChannel with no hostname: vicc_init opens a listening socket.  If
\* that fails (the port is taken) no context is made.
CreateListening(l) ==
  LET s == SlotOf[l]
  IN /\ ~hostname /\ Idle(l) /\ l \notin opened
     /\ \/ \E fd \in Fds :
             /\ IsNew(fd)
             /\ fdt' = [fdt EXCEPT ![fd] = Listening(l)]
             /\ ctx' = [ctx EXCEPT ![s] = "allocated"]
             /\ server_sock' = [server_sock EXCEPT ![s] = fd]
             /\ client_sock' = [client_sock EXCEPT ![s] = INVALID_SOCKET]
             /\ opened' = opened \cup {l}
        \/ /\ ctx' = [ctx EXCEPT ![s] = "null"]
           /\ UNCHANGED <<fdt, server_sock, client_sock, opened>>
     /\ UNCHANGED <<pc, tmp, reached>>

\* close() of a number frees whatever it stands for.
CloseFd(t, fd) == IF fd \in Fds THEN [t EXCEPT ![fd] = Closed] ELSE t

\* connectsock begins: a socket is created, unless the host name does not
\* resolve.
SocketFor(l, next) ==
  /\ \/ \E fd \in Fds : /\ IsNew(fd)
                        /\ fdt' = [fdt EXCEPT ![fd] = Socket(l)]
                        /\ tmp' = [tmp EXCEPT ![l] = fd]
     \/ UNCHANGED <<fdt, tmp>>
  /\ Goto(l, next)

\* connectsock ends.  A failed connect closes the socket, and its number is
\* what the caller stores all the same.
ConnectResult(l) ==
  /\ client_sock' = [client_sock EXCEPT ![SlotOf[l]] = tmp[l]]
  /\ fdt' \in {fdt, CloseFd(fdt, tmp[l])}

\* IFDHCreateChannelByName with a host: vicc_init does not look at what
\* connectsock returned.
CreateConnecting(l) ==
  /\ hostname /\ Idle(l) /\ l \notin opened
  /\ SocketFor(l, "create")
  /\ UNCHANGED <<ctx, server_sock, client_sock, opened, reached>>

CreateConnected(l) ==
  /\ pc[l] = "create"
  /\ ConnectResult(l)
  /\ ctx' = [ctx EXCEPT ![SlotOf[l]] = "allocated"]
  /\ server_sock' = [server_sock EXCEPT ![SlotOf[l]] = INVALID_SOCKET]
  /\ opened' = opened \cup {l}
  /\ tmp' = [tmp EXCEPT ![l] = INVALID_SOCKET]
  /\ Goto(l, "idle")
  /\ UNCHANGED reached

-----------------------------------------------------------------------------
\* vicc_connect from IFDHICCPresence, when the slot has no connection.
Accept(l) ==
  LET s == SlotOf[l]
  IN /\ ~hostname /\ Idle(l) /\ l \in opened
     /\ client_sock[s] = INVALID_SOCKET
     /\ \E fd \in Fds :
          /\ IsNew(fd)
          /\ fdt' = [fdt EXCEPT ![fd] = Socket(l)]
          /\ client_sock' = [client_sock EXCEPT ![s] = fd]
     /\ Goto(l, "exchange")
     /\ UNCHANGED <<ctx, server_sock, opened, tmp, reached>>

Reconnect(l) ==
  /\ hostname /\ Idle(l) /\ l \in opened
  /\ client_sock[SlotOf[l]] = INVALID_SOCKET
  /\ SocketFor(l, "connect")
  /\ UNCHANGED <<ctx, server_sock, client_sock, opened, reached>>

Reconnected(l) ==
  /\ pc[l] = "connect"
  /\ ConnectResult(l)
  /\ tmp' = [tmp EXCEPT ![l] = INVALID_SOCKET]
  /\ Goto(l, IF tmp[l] = INVALID_SOCKET THEN "idle" ELSE "exchange")
  /\ UNCHANGED <<ctx, server_sock, opened, reached>>

\* Any other handler goes straight to its exchange with the card.
Handler(l) ==
  /\ Idle(l) /\ l \in opened
  /\ Goto(l, "exchange")
  /\ UNCHANGED <<fdt, ctx, server_sock, client_sock, opened, tmp, reached>>

\* Mutants of vicc_eject: the socket is not reset, it is not closed.
EjectSlotKeeps(s)  == fdt' = CloseFd(fdt, client_sock[s]) /\ UNCHANGED client_sock
EjectSlotLeaks(s)  == /\ UNCHANGED fdt
                      /\ client_sock' = [client_sock EXCEPT ![s] = INVALID_SOCKET]

\* vicc_eject
EjectSlot(s) == /\ fdt' = CloseFd(fdt, client_sock[s])
                /\ client_sock' = [client_sock EXCEPT ![s] = INVALID_SOCKET]

\* vicc_transmit, vicc_poweron and the like: the message goes wherever the
\* number leads; a failure of any kind ejects.
IsSocket(fd) == fd \in Fds /\ fdt[fd].kind = "socket"

ExchangeOk(l) ==
  LET fd == client_sock[SlotOf[l]]
  IN /\ pc[l] = "exchange" /\ IsSocket(fd)
     /\ reached' = [reached EXCEPT ![l] = fdt[fd].lun]
     /\ Goto(l, "idle")
     /\ UNCHANGED <<fdt, ctx, server_sock, client_sock, opened, tmp>>

ExchangeFails(l) ==
  LET fd == client_sock[SlotOf[l]]
  IN /\ pc[l] = "exchange"
     /\ reached' = [reached EXCEPT ![l] = IF IsSocket(fd) THEN fdt[fd].lun ELSE @]
     /\ EjectSlot(SlotOf[l])
     /\ Goto(l, "idle")
     /\ UNCHANGED <<ctx, server_sock, opened, tmp>>

-----------------------------------------------------------------------------
\* IFDHCloseChannel and vicc_exit.  The context is freed in any case; it is
\* forgotten only when every close succeeded.
CloseFails(fd) == fd \in Fds /\ fdt[fd] = Closed

CloseChannel(l) ==
  LET s == SlotOf[l]
  IN /\ Idle(l) /\ l \in opened
     /\ fdt' = CloseFd(CloseFd(fdt, client_sock[s]), server_sock[s])
     /\ ctx' = [ctx EXCEPT ![s] = IF CloseFails(client_sock[s]) \/ CloseFails(server_sock[s])
                                  THEN "freed" ELSE "null"]
     /\ client_sock' = [client_sock EXCEPT ![s] = INVALID_SOCKET]
     /\ server_sock' = [server_sock EXCEPT ![s] = INVALID_SOCKET]
     /\ opened' = opened \ {l}
     /\ UNCHANGED <<pc, tmp, reached>>

\* pcscd opens and closes descriptors of its own: clients, log files, USB.
OtherOpen == \E fd \in Fds : /\ IsNew(fd)
                             /\ fdt' = [fdt EXCEPT ![fd] = Other]
OtherClose == \E fd \in Fds : /\ fdt[fd] = Other
                              /\ fdt' = [fdt EXCEPT ![fd] = Closed]
Process == /\ OtherOpen \/ OtherClose
           /\ UNCHANGED <<ctx, server_sock, client_sock, opened, pc, tmp, reached>>

Driver(l) ==
  \/ CreateListening(l)
  \/ CreateConnecting(l)
  \/ CreateConnected(l)
  \/ Accept(l)
  \/ Reconnect(l)
  \/ Reconnected(l)
  \/ Handler(l)
  \/ ExchangeOk(l)
  \/ ExchangeFails(l)
  \/ CloseChannel(l)

Next == /\ Process \/ \E l \in Luns : Driver(l)
        /\ UNCHANGED hostname

Spec == Init /\ [][Next]_vars

-----------------------------------------------------------------------------
TypeOK ==
  /\ hostname \in BOOLEAN
  /\ fdt \in [Fds -> Entries]
  /\ ctx \in [Slots -> {"null", "allocated", "freed"}]
  /\ server_sock \in [Slots -> Fds \cup {INVALID_SOCKET}]
  /\ client_sock \in [Slots -> Fds \cup {INVALID_SOCKET}]
  /\ opened \subseteq Luns
  /\ pc \in [Luns -> {"idle", "create", "connect", "exchange"}]
  /\ tmp \in [Luns -> Fds \cup {INVALID_SOCKET}]
  /\ reached \in [Luns -> Luns \cup {NoLun}]

\* In server mode a descriptor a context holds is open and was opened for that context, so
\* no two contexts hold one descriptor and none holds one of pcscd's own.
SocketsAreOwn ==
  ~hostname => \A l \in opened :
    /\ client_sock[SlotOf[l]] # INVALID_SOCKET => fdt[client_sock[SlotOf[l]]] = Socket(l)
    /\ server_sock[SlotOf[l]] # INVALID_SOCKET => fdt[server_sock[SlotOf[l]]] = Listening(l)

\* Every socket the driver has opened is held by the context it was opened
\* for, or by the handler that is about to store it: none is lost.
NoneLost ==
  \A fd \in Fds : \A l \in Luns :
    /\ fdt[fd] = Socket(l) => \/ l \in opened /\ client_sock[SlotOf[l]] = fd
                              \/ tmp[l] = fd
    /\ fdt[fd] = Listening(l) => l \in opened /\ server_sock[SlotOf[l]] = fd

\* In server mode a command reaches the card of the slot it was sent to.
CommandsReachOwnCard == ~hostname => \A l \in Luns : reached[l] \in {NoLun, l}

\* In server mode the driver closes none of the descriptors pcscd uses for other things.
LeavesOthersAlone ==
  [][~hostname /\ (\E l \in Luns : Driver(l)) => \A fd \in Fds : fdt[fd] = Other => fdt'[fd] = Other]_vars

\* In server mode a channel that is open has a live context, and a closed one leaves no
\* pointer to freed memory behind.
NoDanglingContext ==
  ~hostname => /\ \A l \in opened : ctx[SlotOf[l]] = "allocated"
               /\ \A s \in Slots : ctx[s] # "freed"
=============================================================================
