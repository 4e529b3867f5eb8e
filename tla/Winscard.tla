------------------------------ MODULE Winscard ------------------------------
(***************************************************************************)
(* The PC/SC library that needs no pcscd (pcsclite-vpcd/winscard.c): one   *)
(* process whose parts (clients) have contexts and connections of their    *)
(* own, and all of whose calls work on three static variables.  Calls are  *)
(* atomic except SCardGetStatusChange, which sleeps between its rounds.    *)
(*                                                                         *)
(* Clients keep to the interface: they use a connection only while it is   *)
(* theirs, end the transactions they begin and do not reconnect inside     *)
(* one.  They may release their context with connections open.             *)
(***************************************************************************)
EXTENDS Naturals, FiniteSets

CONSTANTS
  Clients,
  Readers,     \* 0 .. PCSCLITE_MAX_READERS_CONTEXTS - 1
  Slots,       \* those below vicc_max_slots
  Seconds,     \* the timeouts of SCardGetStatusChange; 60 stands for INFINITE
  MaxUse,      \* bound on connections to one reader
  None

ASSUME WinscardAssumption ==
  /\ IsFiniteSet(Clients) /\ None \notin Clients
  /\ Slots \subseteq Readers
  /\ Seconds \subseteq Nat /\ MaxUse \in Nat

\* SCARD_SHARE_*; the dispositions of SCardEndTransaction become share modes of
\* the same number, and SCARD_LEAVE_CARD is the number of no mode.
EXCLUSIVE == 1
SHARED    == 2
DIRECT    == 3
ShareModes == {EXCLUSIVE, SHARED, DIRECT}

LEAVE   == 0
RESET   == 1
UNPOWER == 2
EJECT   == 3
Dispositions == {LEAVE, RESET, UNPOWER, EJECT}

VARIABLES
  context_count,   \* contexts established and not released
  usage_counter,   \* struct card
  dwShareMode,     \* struct card
  cancel_status,   \* SCardCancel was called since the last query began
  channel,         \* the slots whose IFD channel is open
  card,            \* whether a card is in reach of each slot
  power,           \* flips when a card is reset or powered down
  contexts,        \* the clients that have a context
  holders,         \* the clients connected to each reader
  left,            \* connections whose context was released before them
  begun,           \* the client whose transaction runs on each reader
  sole,            \* the client that asked for each reader in EXCLUSIVE mode and got it
  shared,          \* whether it has since ended a transaction so that others may connect
  query,           \* where the SCardGetStatusChange of each client is
  known            \* what each client was last told: slots with a card

cardVars  == <<usage_counter, dwShareMode, holders, left, begun, sole, shared>>
queryVars == <<cancel_status, query, known>>
vars == <<context_count, channel, card, power, contexts, cardVars, queryVars>>

Idle == [pc |-> "idle", seconds |-> 0, cur |-> {}]

Init ==
  /\ context_count = 0
  /\ usage_counter = [r \in Readers |-> 0]
  /\ dwShareMode = [r \in Readers |-> 0]
  /\ cancel_status = FALSE
  /\ channel = {}
  /\ card \in SUBSET Slots
  /\ power = [r \in Readers |-> 0]
  /\ contexts = {}
  /\ holders = [r \in Readers |-> {}]
  /\ left = [r \in Readers |-> 0]
  /\ begun = [r \in Readers |-> None]
  /\ sole = [r \in Readers |-> None]
  /\ shared = [r \in Readers |-> FALSE]
  /\ query = [c \in Clients |-> Idle]
  /\ known = [c \in Clients |-> {}]

\* A thread inside SCardGetStatusChange makes no other call.
Free(c) == query[c].pc = "idle"

-----------------------------------------------------------------------------
\* initialize_globals: a channel whose port is taken stays closed.
Initialized == SUBSET Slots

\* Mutant: the channels are released with every context.
ReleasedAlways(count) == {}

\* release_globals, when the last context goes.
Released(count) == IF count = 0 THEN {} ELSE channel

SCardEstablishContext(c) ==
  /\ c \notin contexts
  /\ IF context_count = 0 THEN channel' \in Initialized ELSE UNCHANGED channel
  /\ context_count' = context_count + 1
  /\ contexts' = contexts \cup {c}
  /\ UNCHANGED <<card, power, cardVars, queryVars>>

\* The connections the client still has are counted until the last context is
\* released, which clears the cards.
SCardReleaseContext(c) ==
  LET count == context_count - 1
      gone(s) == IF s = c THEN None ELSE s
  IN /\ c \in contexts /\ Free(c)
     /\ context_count' = count
     /\ contexts' = contexts \ {c}
     /\ channel' = Released(count)
     /\ holders' = [r \in Readers |-> holders[r] \ {c}]
     /\ begun' = [r \in Readers |-> gone(begun[r])]
     /\ sole' = [r \in Readers |-> gone(sole[r])]
     /\ IF count = 0
        THEN /\ usage_counter' = [r \in Readers |-> 0]
             /\ dwShareMode' = [r \in Readers |-> 0]
             /\ left' = [r \in Readers |-> 0]
        ELSE /\ left' = [r \in Readers |-> IF c \in holders[r] THEN left[r] + 1 ELSE left[r]]
             /\ UNCHANGED <<usage_counter, dwShareMode>>
     /\ UNCHANGED <<card, power, shared, queryVars>>

-----------------------------------------------------------------------------
\* Mutant: a second client may connect in the mode that is set.
CanConnectSame(r, mode) == usage_counter[r] = 0 \/ dwShareMode[r] = mode

\* The test of SCardConnect.
CanConnect(r, mode) ==
  usage_counter[r] > 0 => dwShareMode[r] # EXCLUSIVE /\ dwShareMode[r] = mode

\* Whether a card is there does not matter.
SCardConnect(c, r, mode) ==
  /\ c \in contexts /\ Free(c) /\ c \notin holders[r]
  /\ usage_counter[r] < MaxUse
  /\ CanConnect(r, mode)
  /\ usage_counter' = [usage_counter EXCEPT ![r] = @ + 1]
  /\ dwShareMode' = [dwShareMode EXCEPT ![r] = mode]
  /\ holders' = [holders EXCEPT ![r] = @ \cup {c}]
  /\ sole' = [sole EXCEPT ![r] = IF mode = EXCLUSIVE THEN c ELSE @]
  /\ shared' = [shared EXCEPT ![r] = @ /\ mode # EXCLUSIVE]
  /\ UNCHANGED <<context_count, channel, card, power, contexts, left, begun, queryVars>>

SCardReconnect(c, r, mode) ==
  /\ Free(c) /\ c \in holders[r] /\ begun[r] # c
  /\ usage_counter[r] > 1 => dwShareMode[r] = mode
  /\ dwShareMode' = [dwShareMode EXCEPT ![r] = mode]
  /\ sole' = [sole EXCEPT ![r] = IF mode = EXCLUSIVE THEN c ELSE IF @ = c THEN None ELSE @]
  /\ shared' = [shared EXCEPT ![r] = @ /\ mode # EXCLUSIVE]
  /\ UNCHANGED <<context_count, channel, card, power, contexts, usage_counter, holders, left,
                 begun, queryVars>>

\* Mutant: the connections of others are not looked at.
CanPowerAlways(r) == TRUE

\* The test of SCardDisconnect before it resets or powers down, after the
\* connection has been given back.
CanPower(r) == usage_counter[r] - 1 = 0

\* A call that fails because others are connected (SCARD_E_CANT_DISPOSE), or
\* because the card does not answer, has given the connection back as well.
SCardDisconnect(c, r, disposition) ==
  /\ Free(c) /\ c \in holders[r]
  /\ usage_counter[r] > 0
  /\ usage_counter' = [usage_counter EXCEPT ![r] = @ - 1]
  /\ holders' = [holders EXCEPT ![r] = @ \ {c}]
  /\ begun' = [begun EXCEPT ![r] = IF @ = c THEN None ELSE @]
  /\ sole' = [sole EXCEPT ![r] = IF @ = c THEN None ELSE @]
  /\ IF disposition # LEAVE /\ CanPower(r) /\ r \in channel \cap card
     THEN power' = [power EXCEPT ![r] = 1 - @]
     ELSE UNCHANGED power
  /\ UNCHANGED <<context_count, channel, card, contexts, dwShareMode, left, shared, queryVars>>

CanBegin(r) == usage_counter[r] = 1

SCardBeginTransaction(c, r) ==
  /\ Free(c) /\ c \in holders[r] /\ begun[r] = None
  /\ CanBegin(r)
  /\ dwShareMode' = [dwShareMode EXCEPT ![r] = EXCLUSIVE]
  /\ begun' = [begun EXCEPT ![r] = c]
  /\ UNCHANGED <<context_count, channel, card, power, contexts, usage_counter, holders, left,
                 sole, shared, queryVars>>

\* The disposition is stored as the share mode, and not carried out.  The mode from
\* before the transaction is lost: others may connect in the mode that has the
\* number of the disposition, also to a reader that was connected exclusively.
SCardEndTransaction(c, r, disposition) ==
  /\ Free(c) /\ begun[r] = c
  /\ dwShareMode' = [dwShareMode EXCEPT ![r] = disposition]
  /\ begun' = [begun EXCEPT ![r] = None]
  /\ shared' = [shared EXCEPT ![r] = @ \/ (sole[r] = c /\ disposition \in {UNPOWER, EJECT})]
  /\ UNCHANGED <<context_count, channel, card, power, contexts, usage_counter, holders, left,
                 sole, queryVars>>

-----------------------------------------------------------------------------
\* SCardGetStatusChange.  cur is rgReaderStates[].dwCurrentState: the readers
\* the caller takes for occupied.
QueryBegins(c, seconds) ==
  /\ c \in contexts /\ Free(c)
  /\ cancel_status' = FALSE
  /\ query' = [query EXCEPT ![c] = [pc |-> "round", seconds |-> seconds, cur |-> known[c]]]
  /\ UNCHANGED <<context_count, channel, card, power, contexts, cardVars, known>>

\* handle2atr succeeds for these readers.
Present == channel \cap card

\* Mutant: cancelling is looked at before a round instead of after the sleep.
QueryRoundCancelled(c) ==
  LET q == query[c]
      ends == cancel_status \/ q.seconds = 0 \/ Present # q.cur
  IN /\ q.pc = "round"
     /\ known' = [known EXCEPT ![c] = IF cancel_status THEN @ ELSE Present]
     /\ query' = [query EXCEPT ![c] = IF ends THEN Idle ELSE [q EXCEPT !.pc = "sleep"]]
     /\ UNCHANGED <<context_count, channel, card, power, contexts, cardVars, cancel_status>>

\* A round over the readers.  The caller is told which have a card, when one
\* differs from what it knew or its time is up.
QueryRound(c) ==
  LET q == query[c]
      ends == q.seconds = 0 \/ Present # q.cur
  IN /\ q.pc = "round"
     /\ known' = [known EXCEPT ![c] = IF ends THEN Present ELSE @]
     /\ query' = [query EXCEPT ![c] = IF ends THEN Idle ELSE [q EXCEPT !.pc = "sleep"]]
     /\ UNCHANGED <<context_count, channel, card, power, contexts, cardVars, cancel_status>>

\* sleep(1), and the test of cancel_status.  A second query that has begun in
\* the meantime has reset it.
QueryWakes(c) ==
  LET q == query[c]
  IN /\ q.pc = "sleep"
     /\ query' = [query EXCEPT ![c] = IF cancel_status THEN Idle
                                      ELSE [q EXCEPT !.pc = "round", !.seconds = @ - 1]]
     /\ UNCHANGED <<context_count, channel, card, power, contexts, cardVars, cancel_status, known>>

\* Any client cancels, whichever query it means.
SCardCancel(c) ==
  /\ c \in contexts /\ Free(c)
  /\ cancel_status' = TRUE
  /\ UNCHANGED <<context_count, channel, card, power, contexts, cardVars, query, known>>

\* A virtual card comes or goes.
CardMoves(r) ==
  /\ card' = IF r \in card THEN card \ {r} ELSE card \cup {r}
  /\ UNCHANGED <<context_count, channel, power, contexts, cardVars, queryVars>>

Query(c) == QueryRound(c) \/ QueryWakes(c)

Connection(c, r) ==
  \/ \E mode \in ShareModes : SCardConnect(c, r, mode) \/ SCardReconnect(c, r, mode)
  \/ \E d \in Dispositions : SCardDisconnect(c, r, d) \/ SCardEndTransaction(c, r, d)
  \/ SCardBeginTransaction(c, r)

Asks(c) == \E s \in Seconds : QueryBegins(c, s)

Next ==
  \/ \E c \in Clients : \/ SCardEstablishContext(c)
                        \/ SCardReleaseContext(c)
                        \/ \E r \in Readers : Connection(c, r)
                        \/ Asks(c)
                        \/ Query(c)
                        \/ SCardCancel(c)
  \/ \E r \in Slots : CardMoves(r)

Spec == Init /\ [][Next]_vars

\* Threads are scheduled, and a client that has a context goes on asking.
FairSpec == /\ Spec
            /\ \A c \in Clients : WF_vars(Query(c)) /\ WF_vars(Asks(c))

-----------------------------------------------------------------------------
TypeOK ==
  /\ context_count \in Nat
  /\ usage_counter \in [Readers -> Nat]
  /\ dwShareMode \in [Readers -> 0 .. 3]
  /\ cancel_status \in BOOLEAN
  /\ channel \subseteq Slots
  /\ card \subseteq Slots
  /\ power \in [Readers -> {0, 1}]
  /\ contexts \subseteq Clients
  /\ holders \in [Readers -> SUBSET Clients]
  /\ left \in [Readers -> Nat]
  /\ begun \in [Readers -> Clients \cup {None}]
  /\ sole \in [Readers -> Clients \cup {None}]
  /\ shared \in [Readers -> BOOLEAN]
  /\ query \in [Clients -> [pc : {"idle", "round", "sleep"}, seconds : Nat, cur : SUBSET Slots]]
  /\ known \in [Clients -> SUBSET Slots]

\* Every connection and every context that is open is counted, so that the
\* disconnect of a client that is connected is never refused as a handle that
\* is not valid, and the channels stay open as long as a context is.
Counted ==
  /\ context_count = Cardinality(contexts)
  /\ \A r \in Readers : usage_counter[r] = Cardinality(holders[r]) + left[r]

\* While a transaction runs its client is alone with the reader.  Who connects or
\* reconnects in exclusive mode is alone with it until it disconnects, reconnects in
\* another mode or releases its context, with one exception: ending a transaction
\* with SCARD_UNPOWER_CARD or SCARD_EJECT_CARD lets others in (winscard.c:395).
ReservedIsAlone ==
  \A r \in Readers :
    /\ begun[r] # None => holders[r] = {begun[r]}
    /\ sole[r] # None /\ ~shared[r] => holders[r] = {sole[r]}

\* A card is reset or powered down only by a client that is the last one
\* connected to its reader.
PowerIsOwn == [][\A r \in Readers : power'[r] # power[r] => holders'[r] = {}]_vars

\* While a client is connected to a reader its channel stays what it was when
\* the first context was made.
ChannelsStay ==
  [][\A r \in Slots : holders[r] # {} /\ holders'[r] # {} => (r \in channel <=> r \in channel')]_vars

\* A client that keeps asking learns of a card that came or went, however often
\* its queries are cancelled.
ChangeIsTold ==
  \A c \in Clients :
    (c \in contexts /\ known[c] # Present) ~> (c \notin contexts \/ known[c] = Present)
=============================================================================
