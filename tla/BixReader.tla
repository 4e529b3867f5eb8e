----------------------------- MODULE BixReader -----------------------------
(***************************************************************************)
(* The Windows reader driver (win32/BixVReader): one reader of a device,   *)
(* its requests, which the framework hands over in parallel, its server    *)
(* thread, and the shutdown of the device.  The three kinds of readers     *)
(* differ in how they hear of the card: VpcdReader asks for it every       *)
(* second, TcpIpReader and PipeReader have a channel for commands and one  *)
(* on which their client tells that the card came or went.                 *)
(*                                                                         *)
(* One exchange on a channel is one step.  A handle that the framework has *)
(* already completed and a reader that was deleted are memory of somebody  *)
(* else: using them may end the host process of the driver, which is       *)
(* restarted by the framework.  The state and the protocol that a reader   *)
(* keeps only decide what is reported and which commands are refused.      *)
(***************************************************************************)
EXTENDS Naturals, FiniteSets, Sequences

CONSTANTS
  Requests,    \* I/O requests, each used once
  Commands,    \* those of them that are other than IS_PRESENT and IS_ABSENT
  Backends,    \* the RPC_TYPEs that BixVReader.ini may name
  Server,      \* the server thread of the reader
  MaxStarts,   \* bound on D0Entry
  MaxMoves     \* bound on steps of the card's side

ASSUME BixAssumption ==
  /\ IsFiniteSet(Requests) /\ Server \notin Requests /\ Commands \subseteq Requests
  /\ Backends \subseteq {"vpcd", "tcp", "pipe"}
  /\ MaxStarts \in Nat /\ MaxMoves \in Nat

Threads == Requests \cup {Server}

VARIABLES
  backend,
  pnp,             \* where the device is between D0Entry and the end of a shutdown
  starts,
  cardPresent,
  breakSocket,
  waitRemoveIpr,
  waitInsertIpr,
  pc,              \* what each thread does next
  orphan,          \* a server thread outlived its reader
  kind,            \* the control code of each request
  good,            \* what the last check or exchange of a thread returned
  wdf,             \* the framework's view of each request
  cancelled,       \* requests whose cancellation was asked for
  answer,          \* the status each request was completed with
  times,           \* how often each was completed
  link,            \* the card's side is there
  card,            \* it has a card
  data,            \* the command channel as the reader knows it
  events,          \* insertions (1) and removals (0) it has told, not yet read
  moves,
  seen,            \* requests since whose arrival there was a card
  missed           \* requests since whose arrival there was none

devVars  == <<pnp, starts, orphan>>
readerVars == <<cardPresent, breakSocket>>
waitVars == <<waitRemoveIpr, waitInsertIpr>>
reqVars  == <<wdf, answer, times>>
peerVars == <<link, card, events, moves>>
history  == <<seen, missed>>
vars == <<backend, devVars, readerVars, waitVars, pc, kind, good, reqVars, cancelled,
          data, peerVars, history>>

Init ==
  /\ backend \in Backends
  /\ pnp = "off" /\ starts = 0 /\ orphan = FALSE
  /\ cardPresent = FALSE /\ breakSocket = FALSE
  /\ waitRemoveIpr = {} /\ waitInsertIpr = {}
  /\ pc = [t \in Threads |-> "none"]
  /\ kind = [r \in Requests |-> "none"]
  /\ good = [t \in Threads |-> FALSE]
  /\ wdf = [r \in Requests |-> "new"]
  /\ answer = [r \in Requests |-> "none"]
  /\ times = [r \in Requests |-> 0]
  /\ cancelled = {}
  /\ link = FALSE /\ card = FALSE /\ data = "none" /\ events = <<>> /\ moves = 0
  /\ seen = {} /\ missed = {}

\* A card is there; the reader has a channel to it and gets an ATR.
Present   == link /\ card
Connected == data = "open" /\ card
Outstanding == {r \in Requests : wdf[r] \in {"held", "cancelable"}}
Asking == {r \in Outstanding : kind[r] \in {"is present", "is absent"}}
Witness ==
  /\ seen' = IF Present' THEN seen \cup Asking ELSE seen
  /\ missed' = IF Connected' THEN missed ELSE missed \cup Asking
Goto(t, where) == pc' = [pc EXCEPT ![t] = where]

-----------------------------------------------------------------------------
(* The protocols an ATR offers.  A byte has the interface bytes that follow *)
(* it (hi) and a number (lo): the first counted byte is T0.                 *)

Letters == <<"A", "B", "C", "D">>

\* The first of the bytes that are still announced (the lowest bit of y).
NextLetter(left) ==
  Letters[CHOOSE k \in 1..4 : Letters[k] \in left /\ \A j \in 1..(k - 1) : Letters[j] \notin left]

\* Mutant: a TD byte does not announce the interface bytes after it.
TakeByteShort(was, byte) ==
  IF was.left = {} THEN was
  ELSE IF NextLetter(was.left) = "D"
       THEN [left |-> {}, offered |-> was.offered \cup {byte.lo}]
       ELSE [was EXCEPT !.left = @ \ {NextLetter(@)}]

\* With nothing announced the rest are historical bytes.
TakeByte(was, byte) ==
  IF was.left = {} THEN was
  ELSE IF NextLetter(was.left) = "D"
       THEN [left |-> byte.hi, offered |-> was.offered \cup {byte.lo}]
       ELSE [was EXCEPT !.left = @ \ {NextLetter(@)}]

\* initProtocols: an ATR that names no protocol is one of T=0.
InitProtocols(atr) ==
  LET walk[i \in 1..Len(atr)] ==
        IF i = 1 THEN [left |-> atr[1].hi, offered |-> {}]
        ELSE TakeByte(walk[i - 1], atr[i])
      offered == walk[Len(atr)].offered
  IN IF offered = {} THEN {0} ELSE offered

-----------------------------------------------------------------------------
(* Completing requests.                                                    *)

Complete(S, status) ==
  /\ wdf' = [r \in Requests |-> IF r \in S THEN "done" ELSE wdf[r]]
  /\ answer' = [r \in Requests |-> IF r \in S THEN status ELSE answer[r]]
  /\ times' = [r \in Requests |-> IF r \in S THEN times[r] + 1 ELSE times[r]]

\* Mutant: what WdfRequestUnmarkCancelable returns is not looked at.
OwnedAll(S) == {r \in S : wdf[r] = "cancelable"}

\* Of the requests taken from a list, those no cancellation has claimed.
Owned(S) == {r \in S : wdf[r] = "cancelable" /\ r \notin cancelled}

\* The process that hosts the driver ends: the framework completes what was
\* outstanding.
Crash ==
  /\ Complete(Outstanding, "failed")
  /\ pnp' = "off" /\ orphan' = FALSE
  /\ cancelled' = {}
  /\ waitRemoveIpr' = {} /\ waitInsertIpr' = {}
  /\ cardPresent' = FALSE /\ breakSocket' = FALSE
  /\ pc' = [t \in Threads |-> "none"]
  /\ link' = FALSE /\ card' = FALSE /\ data' = "none" /\ events' = <<>>
  /\ missed' = missed \cup Asking
  /\ UNCHANGED <<backend, starts, kind, good, moves, seen>>

\* A list that is emptied still holds a completed request.
Stale(S) == \E r \in S : wdf[r] = "done"

-----------------------------------------------------------------------------
(* The steps of a thread, while its reader exists.                         *)

Alive == pnp \in {"on", "stopping", "draining", "deleting"}
\* After vicc_exit the server thread works on a context that was freed.
Usable(t) == Alive /\ ~(t = Server /\ backend = "vpcd" /\ pnp \in {"draining", "deleting"})
At(t, where) == pc[t] = where /\ Usable(t)

\* CheckATR, until its answer is known.
CheckATR(t) ==
  LET ok == IF backend = "vpcd" THEN data = "open" \/ (data = "none" /\ link)
                                ELSE Connected
  IN /\ At(t, "check")
     /\ good' = [good EXCEPT ![t] = ok /\ t # Server]
     /\ IF backend = "vpcd"
        THEN /\ data' = IF ok THEN "open" ELSE "none"
             /\ Goto(t, IF ok THEN "insert" ELSE "remove")
        ELSE Goto(t, "next") /\ UNCHANGED data
     /\ UNCHANGED <<backend, devVars, readerVars, waitVars, kind, reqVars, cancelled, peerVars>>
     /\ Witness

\* VpcdReader::signalInsertion.
SignalInsertion(t) ==
  /\ At(t, "insert")
  /\ cardPresent' = TRUE
  /\ Goto(t, IF cardPresent \/ waitInsertIpr = {} THEN "next" ELSE "ask")
  /\ UNCHANGED <<backend, devVars, breakSocket, waitVars, kind, good, reqVars, cancelled, data, peerVars, history>>

\* initProtocols asks for the ATR before waiting requests are told of a card.
AskATR(t) ==
  /\ At(t, "ask")
  /\ data' = IF data = "dead" THEN "none" ELSE data
  /\ Goto(t, IF data = "open" /\ card THEN "drain" ELSE IF backend = "vpcd" THEN "remove" ELSE "read")
  /\ UNCHANGED <<backend, devVars, readerVars, waitVars, kind, good, reqVars, cancelled, peerVars>>
  /\ Witness

TellPresent(t) ==
  /\ At(t, "drain")
  /\ Complete(Owned(waitInsertIpr), "success")
  /\ waitInsertIpr' = {}
  /\ Goto(t, IF backend = "vpcd" THEN "next" ELSE "read")
  /\ UNCHANGED <<backend, devVars, readerVars, waitRemoveIpr, kind, good, cancelled, data, peerVars, history>>

\* Mutant: the removal is noted and nobody told.
SignalRemovalSilent(t) ==
  /\ At(t, "remove")
  /\ cardPresent' = FALSE
  /\ Goto(t, "next")
  /\ UNCHANGED <<backend, devVars, breakSocket, waitVars, kind, good, reqVars, cancelled, data, peerVars, history>>

\* VpcdReader::signalRemoval.
SignalRemoval(t) ==
  /\ At(t, "remove")
  /\ cardPresent' = FALSE
  /\ Goto(t, IF cardPresent THEN "tell absent" ELSE "next")
  /\ UNCHANGED <<backend, devVars, breakSocket, waitVars, kind, good, reqVars, cancelled, data, peerVars, history>>

TellAbsent(t) ==
  /\ At(t, "tell absent")
  /\ Complete(Owned(waitRemoveIpr), "success")
  /\ waitRemoveIpr' = {}
  /\ Goto(t, "give up")
  /\ UNCHANGED <<backend, devVars, readerVars, waitInsertIpr, kind, good, cancelled, data, peerVars, history>>

\* Mutant: those waiting for a card are told of one.
GiveUpTold(t) ==
  /\ At(t, "give up")
  /\ Complete(Owned(waitInsertIpr), "success")
  /\ waitInsertIpr' = {}
  /\ Goto(t, IF backend = "vpcd" THEN "next" ELSE "listen")
  /\ UNCHANGED <<backend, devVars, readerVars, waitRemoveIpr, kind, good, cancelled, data, peerVars, history>>

\* Those waiting for a card are cancelled.
GiveUp(t) ==
  /\ At(t, "give up")
  /\ Complete(Owned(waitInsertIpr), "cancelled")
  /\ waitInsertIpr' = {}
  /\ Goto(t, IF backend = "vpcd" THEN "next" ELSE "listen")
  /\ UNCHANGED <<backend, devVars, readerVars, waitRemoveIpr, kind, good, cancelled, data, peerVars, history>>

TakesStale(t) ==
  /\ \/ /\ At(t, "tell absent")
        /\ Stale(waitRemoveIpr)
     \/ /\ At(t, "drain") \/ At(t, "give up")
        /\ Stale(waitInsertIpr)
  /\ Crash

-----------------------------------------------------------------------------
(* The server thread.                                                      *)

ServerStarts ==
  /\ At(Server, "start")
  /\ breakSocket' = FALSE
  /\ Goto(Server, IF backend = "vpcd" THEN "check" ELSE "listen")
  /\ UNCHANGED <<backend, devVars, cardPresent, waitVars, kind, good, reqVars, cancelled, data, peerVars, history>>

\* VpcdReader::startServer, after each check.
ServerLoops ==
  /\ At(Server, "next")
  /\ Goto(Server, IF breakSocket THEN "ended" ELSE "check")
  /\ UNCHANGED <<backend, devVars, readerVars, waitVars, kind, good, reqVars, cancelled, data, peerVars, history>>

\* The sockets are polled for breakSocket; the pipes are not.
ServerBreaks ==
  /\ backend = "tcp" /\ breakSocket
  /\ At(Server, "listen") \/ At(Server, "listen event")
  /\ Goto(Server, "ended")
  /\ UNCHANGED <<backend, devVars, readerVars, waitVars, kind, good, reqVars, cancelled, data, peerVars, history>>

\* The channels are known to the handlers once accepted: for the sockets one
\* after the other, for the pipes together.
NowKnown == IF link THEN "open" ELSE "dead"

TcpIpAccepts ==
  /\ backend = "tcp"
  /\ \/ At(Server, "listen") /\ link /\ Goto(Server, "listen event") /\ data' = NowKnown
     \/ At(Server, "listen event") /\ Goto(Server, "greet") /\ UNCHANGED data
  /\ UNCHANGED <<backend, devVars, readerVars, waitVars, kind, good, reqVars, cancelled, peerVars>>
  /\ Witness

PipesConnect ==
  /\ backend = "pipe"
  /\ \/ At(Server, "listen") /\ link /\ Goto(Server, "listen event") /\ UNCHANGED data
     \/ At(Server, "listen event") /\ Goto(Server, "greet") /\ data' = NowKnown
  /\ UNCHANGED <<backend, devVars, readerVars, waitVars, kind, good, reqVars, cancelled, peerVars>>
  /\ Witness

ServerGreets ==
  /\ At(Server, "greet")
  /\ Goto(Server, IF waitInsertIpr = {} THEN "read" ELSE "ask")
  /\ UNCHANGED <<backend, devVars, readerVars, waitVars, kind, good, reqVars, cancelled, data, peerVars, history>>

\* Those who wait for the next event.
Awaiting == IF Head(events) = 0 THEN waitRemoveIpr ELSE waitInsertIpr

\* An event with nobody waiting for it changes nothing.  initProtocols runs
\* under RequestLock, and its result is not looked at.
ServerHears ==
  LET waiting == Awaiting
  IN /\ At(Server, "read") /\ events # <<>>
     /\ events' = Tail(events)
     /\ Complete(Owned(waiting), "success")
     /\ IF Head(events) = 0
        THEN waitRemoveIpr' = {} /\ UNCHANGED <<waitInsertIpr, data>>
        ELSE /\ waitInsertIpr' = {} /\ UNCHANGED waitRemoveIpr
             /\ data' = IF waiting # {} /\ data = "dead" THEN "none" ELSE data
     /\ UNCHANGED <<backend, devVars, readerVars, pc, kind, good, cancelled, link, card, moves>>
     /\ Witness

HearsStale ==
  /\ At(Server, "read") /\ events # <<>>
  /\ Stale(Awaiting)
  /\ Crash

\* The event channel broke.  The pipes are forgotten, the socket shut down.
PipesGone == backend = "pipe" \/ data = "none"

ServerLoses ==
  /\ At(Server, "read") /\ events = <<>> /\ ~link
  /\ data' = IF PipesGone THEN "none" ELSE "dead"
  /\ Goto(Server, "tell absent")
  /\ UNCHANGED <<backend, devVars, readerVars, waitVars, kind, good, reqVars, cancelled, peerVars, history>>

-----------------------------------------------------------------------------
(* Requests.                                                               *)

InsertionUnderway == 1 \in {events[i] : i \in 1..Len(events)}
                       \/ \E t \in Threads : pc[t] \in {"insert", "ask", "drain"}
RemovalUnderway == 0 \in {events[i] : i \in 1..Len(events)}
                     \/ \E t \in Threads : pc[t] \in {"remove", "tell absent"}

Arrives(r, k) ==
  /\ wdf[r] = "new"
  /\ kind' = [kind EXCEPT ![r] = k]
  /\ UNCHANGED <<backend, devVars, waitVars, good, cancelled, data, peerVars, readerVars>>

\* The request is the driver's until it is completed.
Held(r) ==
  /\ wdf' = [wdf EXCEPT ![r] = "held"]
  /\ UNCHANGED <<answer, times>>

\* Completed by its handler, whatever the card does: setInt and setBuffer fail
\* when the request has no room for the answer.
Replied(r) ==
  /\ Arrives(r, "any")
  /\ \E status \in {"success", "failed"} : Complete({r}, status)
  /\ UNCHANGED <<pc, history>>

\* BixVReaderProcessIoControl without a reader.
NoReader(r) ==
  /\ ~Alive
  /\ Arrives(r, "any") /\ Complete({r}, "failed")
  /\ UNCHANGED <<pc, history>>

AsksPresence(r) ==
  /\ Alive
  /\ seen' = IF Present \/ InsertionUnderway THEN seen \cup {r} ELSE seen
  /\ missed' = IF ~Connected \/ RemovalUnderway THEN missed \cup {r} ELSE missed
  /\ \E k \in {"is present", "is absent"} : Arrives(r, k)
  /\ Held(r) /\ Goto(r, "check")

Exchanges(r, k) ==
  /\ Arrives(r, k)
  /\ Held(r) /\ Goto(r, "query")
  /\ UNCHANGED history

IoSmartCardGetState(r) == Alive /\ Replied(r)
IoSmartCardSetAttribute(r) == Alive /\ Replied(r)
\* Only the ATR among the attributes is asked for.
IoSmartCardGetAttribute(r) == Alive /\ (Replied(r) \/ Exchanges(r, "query"))
\* To power down needs no card.
IoSmartCardPower(r) == Alive /\ (Replied(r) \/ Exchanges(r, "query"))
IoSmartCardSetProtocol(r) == Alive /\ Exchanges(r, "query")

\* Refused unless it names the protocol in use.
IoSmartCardTransmit(r) ==
  /\ Alive
  /\ \/ Exchanges(r, "transmit")
     \/ Arrives(r, "any") /\ Complete({r}, "failed") /\ UNCHANGED <<pc, history>>

\* How an exchange ends, and the channel after it.  A client without a card
\* answers with nothing, which a socket reports like the end of the connection.
Forgotten == IF data = "dead" THEN "none" ELSE data
VpcdReply == [ok |-> data = "open", data |-> Forgotten]
TcpIpReply(transmit) ==
  [ok |-> Connected, data |-> IF transmit /\ ~Connected THEN "none" ELSE Forgotten]
PipeReply(transmit) ==
  [ok |-> data = "open" /\ (card \/ transmit), data |-> Forgotten]

\* QueryATR and QueryTransmit.  Only VpcdReader takes a failure for a removal.
Query(r) ==
  LET transmit == kind[r] = "transmit"
      reply == CASE backend = "vpcd" -> VpcdReply
                 [] backend = "tcp"  -> TcpIpReply(transmit)
                 [] backend = "pipe" -> PipeReply(transmit)
  IN /\ At(r, "query")
     /\ good' = [good EXCEPT ![r] = reply.ok]
     /\ data' = reply.data
     /\ Goto(r, IF backend = "vpcd" /\ ~reply.ok THEN "remove" ELSE "next")
     /\ UNCHANGED <<backend, devVars, readerVars, waitVars, kind, reqVars, cancelled, peerVars>>
     /\ Witness

\* IoSmartCardIsPresent and IoSmartCardIsAbsent leave the request pending unless
\* the check said what it waits for.
Park(r) ==
  /\ At(r, "next")
  /\ wdf' = [wdf EXCEPT ![r] = "cancelable"]
  /\ \/ /\ kind[r] = "is present" /\ ~good[r]
        /\ waitInsertIpr' = waitInsertIpr \cup {r}
        /\ UNCHANGED waitRemoveIpr
     \/ /\ kind[r] = "is absent" /\ good[r]
        /\ waitRemoveIpr' = waitRemoveIpr \cup {r}
        /\ UNCHANGED waitInsertIpr
  /\ Goto(r, "none") /\ good' = [good EXCEPT ![r] = FALSE]
  /\ UNCHANGED <<backend, devVars, readerVars, kind, answer, times, cancelled, data, peerVars, history>>

\* IoSmartCardSetProtocol fails too when no protocol is both wanted and offered.
Answer(r) ==
  /\ At(r, "next")
  /\ \/ /\ kind[r] = "is present" /\ good[r]
        /\ Complete({r}, "success")
     \/ /\ kind[r] = "is absent" /\ ~good[r]
        /\ Complete({r}, "success")
     \/ /\ kind[r] \in {"query", "transmit"}
        /\ Complete({r}, IF good[r] THEN "success" ELSE "failed")
     \/ /\ kind[r] = "query"
        /\ Complete({r}, "failed")
  /\ cancelled' = cancelled \ {r}
  /\ Goto(r, "none") /\ good' = [good EXCEPT ![r] = FALSE]
  /\ kind' = IF r \in Commands THEN [kind EXCEPT ![r] = "any"] ELSE kind
  /\ UNCHANGED <<backend, devVars, readerVars, waitVars, data, peerVars, history>>

\* An application cancels a request; the framework then calls the driver once
\* the request is cancelable.
Cancel(r) ==
  /\ r \in Asking \ cancelled
  /\ cancelled' = cancelled \cup {r}
  /\ UNCHANGED <<backend, devVars, readerVars, waitVars, pc, kind, good, reqVars, data, peerVars, history>>

\* BixVReaderEvtRequestCancel: OwningReader is set nowhere, so that the request
\* is completed and stays in the list it waits in.
CancelCallback(r) ==
  /\ r \in cancelled /\ wdf[r] # "held"
  /\ Complete({r}, "cancelled")
  /\ cancelled' = cancelled \ {r}
  /\ UNCHANGED <<backend, devVars, readerVars, waitVars, pc, kind, good, data, peerVars, history>>

-----------------------------------------------------------------------------
(* The device.                                                             *)

\* BixVReaderEvtDeviceD0Entry.
D0Entry ==
  /\ pnp = "off" /\ starts < MaxStarts
  /\ pnp' = "on" /\ starts' = starts + 1
  /\ Goto(Server, "start")
  /\ UNCHANGED <<backend, orphan, readerVars, waitVars, kind, good, reqVars, cancelled, data, peerVars, history>>

\* BixVReaderShutdownReaders, called when the device leaves D0, may be stopped or
\* removed, or is gone.
ShutdownBegins ==
  /\ pnp = "on"
  /\ pnp' = "stopping"
  /\ breakSocket' = (backend # "pipe")
  /\ UNCHANGED <<backend, starts, orphan, cardPresent, waitVars, pc, kind, good, reqVars, cancelled, data, peerVars, history>>

\* Ten seconds are enough unless the thread waits for the other side, or has
\* itself reset breakSocket when it started.
TimedOut ==
  \/ backend = "vpcd" /\ pc[Server] \in {"check", "ask"}
  \/ backend = "tcp" /\ pc[Server] \in {"ask", "read"}
  \/ pc[Server] # "start" /\ ~breakSocket

\* PipeReader::shutdown does not wait for its thread.
ServerIsAwaited ==
  /\ pnp = "stopping"
  /\ pc[Server] = "ended" \/ backend = "pipe" \/ TimedOut
  /\ pnp' = "draining"
  /\ IF backend = "vpcd"
     THEN /\ link' = FALSE /\ card' = FALSE /\ data' = "none"
          /\ missed' = missed \cup Asking
     ELSE UNCHANGED <<link, card, data, missed>>
  /\ UNCHANGED <<backend, starts, orphan, readerVars, waitVars, pc, kind, good, reqVars, cancelled, events, moves, seen>>

ShutdownDrains ==
  /\ pnp = "draining"
  /\ pnp' = "deleting"
  /\ Complete(Owned(waitRemoveIpr \cup waitInsertIpr), "cancelled")
  /\ waitRemoveIpr' = {} /\ waitInsertIpr' = {}
  /\ UNCHANGED <<backend, starts, orphan, readerVars, pc, kind, good, cancelled, data, peerVars, history>>

DrainsStale ==
  /\ pnp = "draining" /\ Stale(waitRemoveIpr \cup waitInsertIpr)
  /\ Crash

\* The reader is deleted whether or not a thread still works on it.
Deletes ==
  /\ pnp = "deleting"
  /\ pnp' = "off"
  /\ orphan' = (orphan \/ pc[Server] # "ended")
  /\ pc' = [t \in Threads |-> IF t = Server \/ pc[t] = "none" THEN "none" ELSE "stale"]
  /\ waitRemoveIpr' = {} /\ waitInsertIpr' = {}
  /\ cardPresent' = FALSE /\ breakSocket' = FALSE
  /\ link' = FALSE /\ card' = FALSE /\ data' = "none" /\ events' = <<>>
  /\ missed' = missed \cup Asking
  /\ UNCHANGED <<backend, starts, kind, good, reqVars, cancelled, moves, seen>>

UsesDeleted ==
  /\ \/ orphan
     \/ \E t \in Threads : pc[t] = "stale"
     \/ pc[Server] \notin {"none", "ended"} /\ Alive /\ ~Usable(Server)
  /\ Crash

-----------------------------------------------------------------------------
(* The side of the card: vicc, or a client of the sockets or pipes.        *)

PeerMoves ==
  /\ moves < MaxMoves /\ moves' = moves + 1
  /\ UNCHANGED <<backend, devVars, readerVars, waitVars, pc, kind, good, reqVars, cancelled>>

\* VpcdReader accepts with its next check; the others listen for one client.
PeerComes ==
  /\ ~link
  /\ IF backend = "vpcd" THEN pnp \in {"on", "stopping"} /\ pc[Server] \notin {"start", "ended"}
                        ELSE pc[Server] = "listen"
  /\ link' = TRUE
  /\ card' \in IF backend = "vpcd" THEN {TRUE} ELSE BOOLEAN
  /\ events' = <<>>
  /\ UNCHANGED data /\ PeerMoves /\ Witness

PeerGoes ==
  /\ link
  /\ link' = FALSE /\ card' = FALSE
  /\ data' = IF data = "open" THEN "dead" ELSE data
  /\ UNCHANGED events /\ PeerMoves /\ Witness

CardMoves ==
  /\ link /\ backend # "vpcd"
  /\ card' = ~card
  /\ events' = Append(events, IF card THEN 0 ELSE 1)
  /\ UNCHANGED <<link, data>> /\ PeerMoves /\ Witness

-----------------------------------------------------------------------------
ThreadStep(t) ==
  \/ CheckATR(t) \/ SignalInsertion(t) \/ AskATR(t) \/ TellPresent(t)
  \/ SignalRemoval(t) \/ TellAbsent(t) \/ GiveUp(t) \/ TakesStale(t)

ServerStep ==
  \/ ServerStarts \/ ServerLoops \/ ServerBreaks \/ TcpIpAccepts \/ PipesConnect
  \/ ServerGreets \/ ServerHears \/ HearsStale \/ ServerLoses

RequestStep(r) == Query(r) \/ Park(r) \/ Answer(r)

Runs(t) ==
  \/ ThreadStep(t)
  \/ t = Server /\ ServerStep
  \/ t \in Requests /\ RequestStep(t)

ShutdownStep == ServerIsAwaited \/ ShutdownDrains \/ DrainsStale \/ Deletes

CommandArrives(r) ==
  \/ IoSmartCardGetState(r) \/ IoSmartCardSetAttribute(r)
  \/ IoSmartCardGetAttribute(r) \/ IoSmartCardPower(r)
  \/ IoSmartCardSetProtocol(r) \/ IoSmartCardTransmit(r)

Next ==
  \/ \E t \in Threads : Runs(t)
  \/ \E r \in Requests \ Commands : AsksPresence(r)
  \/ \E r \in Commands : CommandArrives(r)
  \/ \E r \in Requests : NoReader(r) \/ Cancel(r) \/ CancelCallback(r)
  \/ D0Entry \/ ShutdownBegins \/ ShutdownStep \/ UsesDeleted
  \/ PeerComes \/ PeerGoes \/ CardMoves

Spec == Init /\ [][Next]_vars

\* The scheduler runs every thread, and the framework makes its callbacks.
FairSpec ==
  /\ Spec
  /\ \A t \in Threads : WF_vars(Runs(t))
  /\ \A r \in Requests : WF_vars(CancelCallback(r))
  /\ WF_vars(ShutdownStep)

-----------------------------------------------------------------------------
\* No request is completed twice, whether its answer, its cancellation, the
\* removal of the card or the shutdown of the device comes first (the results of
\* WdfRequestUnmarkCancelable in signalRemoval, signalInsertion and shutdown).
CompletedOnce == \A r \in Requests : times[r] <= 1

\* Who waits for a card is told of one only if there was one since it asked, or
\* its coming was still being told; likewise for its absence (CheckATR and the
\* lists that signalInsertion, signalRemoval and the events empty).
ToldTruly ==
  \A r \in Requests : answer[r] = "success" =>
    /\ kind[r] = "is present" => r \in seen
    /\ kind[r] = "is absent" => r \in missed

\* The protocols initProtocols finds are the numbers in the TD bytes: the first
\* is announced by T0, each later one by the one before it.
Bytes == [hi : {{}, {"D"}, {"A"}, {"B", "C"}, {"A", "D"}}, lo : {0, 1}]
NamedProtocols ==
  \A n \in 1..4 : \A atr \in [1..n -> Bytes] :
    LET next(i) == i + Cardinality(atr[i].hi)
        td[i \in 1..n] ==
          IF i = 1 THEN FALSE
          ELSE \E j \in 1..(i - 1) : (j = 1 \/ td[j]) /\ "D" \in atr[j].hi /\ next(j) = i
        named == {atr[i].lo : i \in {j \in 1..n : td[j]}}
    IN InitProtocols(atr) = IF named = {} THEN {0} ELSE named

\* When those who wait are told of a card, whatever its ATR, these are the
\* protocols that the driver offers for it (initProtocols in signalInsertion).
OfferIsRead == (\E t \in Threads : pc[t] = "drain") => NamedProtocols

\* A request waits for a removal the reader has yet to notice.
RemovalDue(r) ==
  /\ r \in waitRemoveIpr /\ ~link
  /\ IF backend = "vpcd" THEN cardPresent ELSE pc[Server] = "read"

\* Who waits for the card to go is told when it goes, unless another card comes
\* or the device goes down (the polling of startServer, the event channels).
RemovalIsTold ==
  \A r \in Requests \ Commands :
    RemovalDue(r) ~> (wdf[r] = "done" \/ link \/ pnp # "on")

\* A request that was cancelled waits nowhere: device.h says of the request's
\* context that the cancel callback uses it to remove the request from whichever
\* reader's wait-list it had been parked on.
CancelledIsForgotten ==
  \A r \in Requests :
    answer[r] = "cancelled" => r \notin waitRemoveIpr \cup waitInsertIpr
=============================================================================
