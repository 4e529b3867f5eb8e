--------------------------- MODULE WinscardProofs ---------------------------
(***************************************************************************)
(* Proofs about Winscard, for any clients, readers and timeouts: the       *)
(* counters of the library count what is open, and from that, that nobody  *)
(* else uses a reader during a transaction or beside an exclusive          *)
(* connection that no transaction has opened to others, that a card is     *)
(* powered down only by the last client, and that channels stay open.      *)
(***************************************************************************)
EXTENDS Winscard, FiniteSetTheorems, TLAPS

\* A client that is connected has a context.
HoldersHaveContext == \A r \in Readers : holders[r] \subseteq contexts

\* What a transaction rests on: the mode is exclusive and the one connection that is
\* counted is that of its client; with two connections the mode is not exclusive.
\* What an exclusive connection rests on: it is the one that is counted, and the mode
\* is exclusive or the number of no mode (LEAVE).
Reserved ==
  \A r \in Readers :
    /\ begun[r] # None => /\ begun[r] \in holders[r]
                          /\ dwShareMode[r] = EXCLUSIVE
                          /\ usage_counter[r] = 1
    /\ sole[r] # None /\ ~shared[r] => /\ sole[r] \in holders[r]
                                       /\ dwShareMode[r] \in {EXCLUSIVE, LEAVE}
                                       /\ usage_counter[r] = 1
    /\ usage_counter[r] > 1 => dwShareMode[r] # EXCLUSIVE

\* A query sleeps only while it has time left.
Sleeps == \A c \in Clients : query[c].pc = "sleep" => query[c].seconds # 0

Inv == TypeOK /\ Counted /\ HoldersHaveContext /\ Reserved /\ Sleeps

-----------------------------------------------------------------------------
\* Sets of clients.

LEMMA ClientsCounted ==
  ASSUME NEW S \in SUBSET Clients
  PROVE  /\ IsFiniteSet(S) /\ Cardinality(S) \in Nat
         /\ Cardinality(S) = 0 <=> S = {}
         /\ \A c \in Clients \ S : Cardinality(S \cup {c}) = Cardinality(S) + 1
         /\ \A c \in S : Cardinality(S \ {c}) = Cardinality(S) - 1
BY WinscardAssumption, FS_Subset, FS_CardinalityType, FS_EmptySet, FS_AddElement, FS_RemoveElement

LEMMA OneClient ==
  ASSUME NEW S \in SUBSET Clients, NEW c \in S, Cardinality(S) <= 1
  PROVE  S = {c}
<1>1. Cardinality(S \ {c}) = Cardinality(S) - 1 /\ Cardinality(S) \in Nat
  BY ClientsCounted
<1>2. Cardinality(S \ {c}) \in Nat /\ (Cardinality(S \ {c}) = 0 => S \ {c} = {})
  BY ClientsCounted
<1>. QED
  BY <1>1, <1>2

-----------------------------------------------------------------------------
LEMMA InvInit == Init => Inv
<1>. SUFFICES ASSUME Init PROVE Inv
  OBVIOUS
<1>1. TypeOK
  <2>1. Idle \in [pc : {"idle", "round", "sleep"}, seconds : Nat, cur : SUBSET Slots]
    BY DEF Idle
  <2>2. /\ dwShareMode \in [Readers -> 0 .. 3]
        /\ query \in [Clients -> [pc : {"idle", "round", "sleep"}, seconds : Nat, cur : SUBSET Slots]]
        /\ known \in [Clients -> SUBSET Slots]
    BY <2>1 DEF Init
  <2>. QED
    BY <2>2 DEF Init, TypeOK
<1>2. Counted /\ HoldersHaveContext /\ Reserved /\ Sleeps
  BY FS_EmptySet DEF Init, Counted, HoldersHaveContext, Reserved, Sleeps, Idle
<1>. QED
  BY <1>1, <1>2 DEF Inv

\* Queries and cards leave the connections alone.
LEMMA QuerySteps ==
  ASSUME Inv,
         \/ \E c \in Clients : Asks(c) \/ Query(c) \/ SCardCancel(c)
         \/ \E r \in Slots : CardMoves(r)
  PROVE  Inv' /\ UNCHANGED <<power, holders, channel>>
<1>. DEFINE Queries == [pc : {"idle", "round", "sleep"}, seconds : Nat, cur : SUBSET Slots]
            QueryOK == /\ cancel_status \in BOOLEAN
                       /\ query \in [Clients -> Queries]
                       /\ known \in [Clients -> SUBSET Slots]
                       /\ Sleeps
<1>1. /\ UNCHANGED <<context_count, channel, power, contexts, cardVars>>
      /\ card' \subseteq Slots
  BY DEF Asks, Query, QueryBegins, QueryRound, QueryWakes, SCardCancel, CardMoves, Inv, TypeOK
<1>2. QueryOK'
  <2>. USE DEF Inv, TypeOK, Sleeps
  <2>0. Present \in SUBSET Slots /\ Idle \in Queries /\ Idle.pc = "idle"
    BY DEF Present, Idle
  <2>1. ASSUME NEW c \in Clients, NEW s \in Seconds, QueryBegins(c, s) PROVE QueryOK'
    <3>1. s \in Nat
      BY WinscardAssumption
    <3>. QED
      BY <2>1, <3>1 DEF QueryBegins
  <2>2. ASSUME NEW c \in Clients, QueryRound(c) PROVE QueryOK'
    <3>. DEFINE q == query[c]
                w == [q EXCEPT !.pc = "sleep"]
    <3>1. q \in Queries /\ w \in Queries /\ w.seconds = q.seconds
      OBVIOUS
    <3>2. \/ query' = [query EXCEPT ![c] = Idle]
          \/ query' = [query EXCEPT ![c] = w] /\ w.seconds # 0
      <4>1. CASE q.seconds = 0 \/ Present # q.cur
        BY <2>2, <4>1 DEF QueryRound
      <4>2. CASE q.seconds # 0 /\ Present = q.cur
        BY <2>2, <3>1, <4>2 DEF QueryRound
      <4>. QED
        BY <4>1, <4>2
    <3>3. cancel_status' \in BOOLEAN /\ known' \in [Clients -> SUBSET Slots]
      BY <2>0, <2>2 DEF QueryRound
    <3>. HIDE DEF w
    <3>4. CASE query' = [query EXCEPT ![c] = Idle]
      BY <2>0, <3>3, <3>4
    <3>5. CASE query' = [query EXCEPT ![c] = w] /\ w.seconds # 0
      BY <3>1, <3>3, <3>5
    <3>. QED
      BY <3>2, <3>4, <3>5
  <2>3. ASSUME NEW c \in Clients, QueryWakes(c) PROVE QueryOK'
    <3>. DEFINE q == query[c]
                n == q.seconds - 1
                w == [q EXCEPT !.pc = "round", !.seconds = n]
    <3>1. q \in Queries /\ q.seconds # 0
      BY <2>3 DEF QueryWakes
    <3>2. w \in Queries /\ w.pc = "round"
      <4>1. n \in Nat
        BY <3>1
      <4>. HIDE DEF n
      <4>. QED
        BY <3>1, <4>1
    <3>3. query' = [query EXCEPT ![c] = Idle] \/ query' = [query EXCEPT ![c] = w]
      BY <2>3 DEF QueryWakes
    <3>4. UNCHANGED <<cancel_status, known>>
      BY <2>3 DEF QueryWakes
    <3>. HIDE DEF w
    <3>5. CASE query' = [query EXCEPT ![c] = Idle]
      BY <2>0, <3>4, <3>5
    <3>6. CASE query' = [query EXCEPT ![c] = w]
      BY <3>2, <3>4, <3>6
    <3>. QED
      BY <3>3, <3>5, <3>6
  <2>4. ASSUME NEW c \in Clients, SCardCancel(c) PROVE QueryOK'
    BY <2>4 DEF SCardCancel
  <2>5. ASSUME NEW r \in Slots, CardMoves(r) PROVE QueryOK'
    BY <2>5 DEF CardMoves, queryVars
  <2>. QED
    BY <2>1, <2>2, <2>3, <2>4, <2>5 DEF Asks, Query
<1>. QED
  BY <1>1, <1>2 DEF cardVars, Inv, TypeOK, Counted, HoldersHaveContext, Reserved
-----------------------------------------------------------------------------
\* The calls on a connection.

LEMMA HolderCounted ==
  ASSUME Inv, NEW r \in Readers, NEW c \in holders[r]
  PROVE  /\ usage_counter[r] \in Nat /\ usage_counter[r] > 0
         /\ usage_counter[r] = 1 => holders[r] = {c}
<1>1. /\ holders[r] \in SUBSET Clients /\ left[r] \in Nat
      /\ usage_counter[r] = Cardinality(holders[r]) + left[r]
  BY DEF Inv, TypeOK, Counted
<1>2. Cardinality(holders[r]) \in Nat /\ Cardinality(holders[r]) # 0
  BY <1>1, ClientsCounted
<1>. QED
  BY <1>1, <1>2, OneClient

LEMMA OnlyHolder ==
  ASSUME Inv, NEW r \in Readers, NEW c \in holders[r]
  PROVE  /\ begun[r] # None => begun[r] = c /\ holders[r] = {c}
         /\ sole[r] # None /\ ~shared[r] => sole[r] = c /\ holders[r] = {c}
<1>1. begun[r] # None => begun[r] \in holders[r] /\ usage_counter[r] = 1
  BY DEF Inv, Reserved
<1>2. sole[r] # None /\ ~shared[r] => sole[r] \in holders[r] /\ usage_counter[r] = 1
  BY DEF Inv, Reserved
<1>. QED
  BY <1>1, <1>2, HolderCounted

LEMMA ConnectStep ==
  ASSUME Inv, NEW c \in Clients, NEW r \in Readers, NEW mode \in ShareModes, SCardConnect(c, r, mode)
  PROVE  Inv' /\ UNCHANGED <<power, channel>>
<1>. DEFINE h == holders[r] \cup {c}
<1>1. /\ c \in contexts /\ c \notin holders[r] /\ CanConnect(r, mode)
      /\ usage_counter' = [usage_counter EXCEPT ![r] = @ + 1]
      /\ dwShareMode' = [dwShareMode EXCEPT ![r] = mode]
      /\ holders' = [holders EXCEPT ![r] = h]
      /\ sole' = [sole EXCEPT ![r] = IF mode = EXCLUSIVE THEN c ELSE @]
      /\ shared' = [shared EXCEPT ![r] = @ /\ mode # EXCLUSIVE]
      /\ UNCHANGED <<context_count, channel, card, power, contexts, left, begun, cancel_status, query, known>>
  BY DEF SCardConnect, queryVars
<1>2. /\ h \in SUBSET Clients /\ Cardinality(h) = Cardinality(holders[r]) + 1
      /\ Cardinality(holders[r]) \in Nat
  BY <1>1, ClientsCounted DEF Inv, TypeOK
<1>3. mode \in 0 .. 3 /\ None \notin Clients
  BY WinscardAssumption DEF ShareModes, EXCLUSIVE, SHARED, DIRECT
<1>4. TypeOK'
  BY <1>1, <1>2, <1>3 DEF Inv, TypeOK
<1>5. Counted' /\ HoldersHaveContext'
  BY <1>1, <1>2 DEF Inv, TypeOK, Counted, HoldersHaveContext
<1>6. begun[r] = None
  BY <1>1 DEF CanConnect, Inv, Reserved
<1>7. mode = EXCLUSIVE => usage_counter[r] = 0
  BY <1>1 DEF CanConnect, Inv, TypeOK
<1>8. mode # EXCLUSIVE => sole[r] = None \/ shared[r]
  BY <1>1 DEF CanConnect, Inv, Reserved, ShareModes, EXCLUSIVE, SHARED, DIRECT, LEAVE
<1>9. Reserved'
  BY <1>1, <1>2, <1>3, <1>6, <1>7, <1>8 DEF Inv, TypeOK, Reserved
<1>. QED
  BY <1>1, <1>4, <1>5, <1>9 DEF Inv, Sleeps

LEMMA ReconnectStep ==
  ASSUME Inv, NEW c \in Clients, NEW r \in Readers, NEW mode \in ShareModes, SCardReconnect(c, r, mode)
  PROVE  Inv' /\ UNCHANGED <<power, holders, channel>>
<1>1. /\ c \in holders[r] /\ begun[r] # c
      /\ usage_counter[r] > 1 => dwShareMode[r] = mode
      /\ dwShareMode' = [dwShareMode EXCEPT ![r] = mode]
      /\ sole' = [sole EXCEPT ![r] = IF mode = EXCLUSIVE THEN c ELSE IF @ = c THEN None ELSE @]
      /\ shared' = [shared EXCEPT ![r] = @ /\ mode # EXCLUSIVE]
      /\ UNCHANGED <<context_count, channel, card, power, contexts, usage_counter, holders, left, begun,
                     cancel_status, query, known>>
  BY DEF SCardReconnect, queryVars
<1>2. mode \in 0 .. 3 /\ None \notin Clients
  BY WinscardAssumption DEF ShareModes, EXCLUSIVE, SHARED, DIRECT
<1>3. TypeOK'
  BY <1>1, <1>2 DEF Inv, TypeOK
<1>4. begun[r] = None
  BY <1>1, OnlyHolder
<1>5. mode = EXCLUSIVE => usage_counter[r] = 1
  BY <1>1, HolderCounted DEF Inv, Reserved, TypeOK
<1>6. sole[r] # None /\ ~shared[r] => sole[r] = c
  BY <1>1, OnlyHolder
<1>7. Reserved'
  BY <1>1, <1>2, <1>4, <1>5, <1>6 DEF Inv, TypeOK, Reserved
<1>. QED
  BY <1>1, <1>3, <1>7 DEF Inv, Sleeps, Counted, HoldersHaveContext
LEMMA DisconnectStep ==
  ASSUME Inv, NEW c \in Clients, NEW r \in Readers, NEW d \in Dispositions, SCardDisconnect(c, r, d)
  PROVE  /\ Inv' /\ UNCHANGED channel
         /\ \A q \in Readers : power'[q] # power[q] => holders'[q] = {}
<1>. DEFINE h == holders[r] \ {c}
<1>1. /\ c \in holders[r]
      /\ usage_counter' = [usage_counter EXCEPT ![r] = @ - 1]
      /\ holders' = [holders EXCEPT ![r] = h]
      /\ begun' = [begun EXCEPT ![r] = IF @ = c THEN None ELSE @]
      /\ sole' = [sole EXCEPT ![r] = IF @ = c THEN None ELSE @]
      /\ UNCHANGED <<context_count, channel, card, contexts, dwShareMode, left, shared, cancel_status, query, known>>
  BY DEF SCardDisconnect, queryVars
<1>2. /\ h \in SUBSET Clients /\ Cardinality(h) = Cardinality(holders[r]) - 1
      /\ Cardinality(h) \in Nat
  BY <1>1, ClientsCounted DEF Inv, TypeOK
<1>3. usage_counter[r] \in Nat /\ usage_counter[r] > 0
  BY <1>1, HolderCounted
<1>4. \/ power' = power
      \/ power' = [power EXCEPT ![r] = 1 - @] /\ CanPower(r)
  <2>1. CASE d # LEAVE /\ CanPower(r) /\ r \in channel \cap card
    BY <2>1 DEF SCardDisconnect
  <2>2. CASE ~(d # LEAVE /\ CanPower(r) /\ r \in channel \cap card)
    BY <2>2 DEF SCardDisconnect
  <2>. QED
    BY <2>1, <2>2
<1>5. power' \in [Readers -> {0, 1}]
  BY <1>4 DEF Inv, TypeOK
<1>6. TypeOK'
  <2>1. usage_counter[r] - 1 \in Nat
    BY <1>3
  <2>. QED
    BY <1>1, <1>2, <1>5, <2>1 DEF Inv, TypeOK
<1>7. Counted' /\ HoldersHaveContext'
  <2>1. /\ Cardinality(holders[r]) \in Nat /\ left[r] \in Nat
        /\ usage_counter[r] = Cardinality(holders[r]) + left[r]
    BY ClientsCounted DEF Inv, TypeOK, Counted
  <2>2. usage_counter[r] - 1 = Cardinality(h) + left[r]
    BY <1>2, <2>1
  <2>. HIDE DEF h
  <2>3. Counted'
    BY <1>1, <2>2 DEF Inv, TypeOK, Counted
  <2>4. HoldersHaveContext'
    BY <1>1 DEF Inv, TypeOK, HoldersHaveContext, h
  <2>. QED
    BY <2>3, <2>4
<1>8. begun'[r] = None /\ (sole'[r] = None \/ shared'[r])
  BY <1>1, OnlyHolder DEF Inv, TypeOK
<1>9. Reserved'
  BY <1>1, <1>3, <1>8 DEF Inv, TypeOK, Reserved
<1>10. ASSUME NEW q \in Readers, power'[q] # power[q] PROVE holders'[q] = {}
  <2>1. q = r /\ usage_counter[r] = 1
    BY <1>3, <1>4, <1>10 DEF CanPower, Inv, TypeOK
  <2>. QED
    BY <1>1, <2>1, HolderCounted DEF Inv, TypeOK
<1>. QED
  BY <1>1, <1>6, <1>7, <1>9, <1>10 DEF Inv, Sleeps

LEMMA TransactionSteps ==
  ASSUME Inv, NEW c \in Clients, NEW r \in Readers,
         SCardBeginTransaction(c, r) \/ \E d \in Dispositions : SCardEndTransaction(c, r, d)
  PROVE  Inv' /\ UNCHANGED <<power, holders, channel>>
<1>0. None \notin Clients
  BY WinscardAssumption
<1>1. UNCHANGED <<context_count, channel, card, power, contexts, usage_counter, holders, left,
                  sole, cancel_status, query, known>>
  BY DEF SCardBeginTransaction, SCardEndTransaction, queryVars
<1>2. CASE SCardBeginTransaction(c, r)
  <2>1. /\ c \in holders[r] /\ usage_counter[r] = 1
        /\ dwShareMode' = [dwShareMode EXCEPT ![r] = EXCLUSIVE]
        /\ begun' = [begun EXCEPT ![r] = c]
        /\ UNCHANGED shared
    BY <1>2 DEF SCardBeginTransaction, CanBegin
  <2>2. TypeOK'
    BY <1>1, <2>1 DEF Inv, TypeOK, EXCLUSIVE
  <2>3. Reserved'
    BY <1>0, <1>1, <2>1 DEF Inv, TypeOK, Reserved
  <2>. QED
    BY <1>1, <2>2, <2>3 DEF Inv, Sleeps, Counted, HoldersHaveContext
<1>3. ASSUME NEW d \in Dispositions, SCardEndTransaction(c, r, d) PROVE Inv'
  <2>1. /\ begun[r] = c
        /\ dwShareMode' = [dwShareMode EXCEPT ![r] = d]
        /\ begun' = [begun EXCEPT ![r] = None]
        /\ shared' = [shared EXCEPT ![r] = @ \/ (sole[r] = c /\ d \in {UNPOWER, EJECT})]
    BY <1>3 DEF SCardEndTransaction
  <2>2. /\ usage_counter[r] = 1
        /\ sole[r] # None /\ ~shared[r] => sole[r] = c
    BY <1>0, <2>1, OnlyHolder DEF Inv, Reserved
  <2>3. sole[r] # None /\ ~shared'[r] => d \in {EXCLUSIVE, LEAVE} /\ ~shared[r]
    BY <2>1, <2>2 DEF Inv, TypeOK, Dispositions, LEAVE, RESET, UNPOWER, EJECT, EXCLUSIVE
  <2>4. TypeOK'
    BY <1>1, <2>1 DEF Inv, TypeOK, Dispositions, LEAVE, RESET, UNPOWER, EJECT
  <2>5. Reserved'
    BY <1>0, <1>1, <2>1, <2>2, <2>3 DEF Inv, TypeOK, Reserved
  <2>. QED
    BY <1>1, <2>4, <2>5 DEF Inv, Sleeps, Counted, HoldersHaveContext
<1>. QED
  BY <1>1, <1>2, <1>3

-----------------------------------------------------------------------------
\* Contexts.

LEMMA EstablishStep ==
  ASSUME Inv, NEW c \in Clients, SCardEstablishContext(c)
  PROVE  /\ Inv' /\ UNCHANGED <<power, holders>>
         /\ \A r \in Slots : holders[r] # {} => (r \in channel <=> r \in channel')
<1>1. /\ c \notin contexts
      /\ context_count' = context_count + 1
      /\ contexts' = contexts \cup {c}
      /\ UNCHANGED <<card, power, usage_counter, dwShareMode, holders, left, begun, sole, shared,
                     cancel_status, query, known>>
  BY DEF SCardEstablishContext, cardVars, queryVars
<1>2. channel' \subseteq Slots /\ (context_count # 0 => channel' = channel)
  BY DEF SCardEstablishContext, Initialized, Inv, TypeOK
<1>3. /\ context_count = Cardinality(contexts)
      /\ contexts \in SUBSET Clients
      /\ Cardinality(contexts \cup {c}) = Cardinality(contexts) + 1
  BY <1>1, ClientsCounted DEF Inv, TypeOK, Counted
<1>4. TypeOK'
  BY <1>1, <1>2 DEF Inv, TypeOK
<1>5. Counted' /\ HoldersHaveContext' /\ Reserved' /\ Sleeps'
  BY <1>1, <1>3 DEF Inv, TypeOK, Counted, HoldersHaveContext, Reserved, Sleeps
<1>6. context_count = 0 => \A r \in Slots : holders[r] = {}
  BY <1>3, ClientsCounted, WinscardAssumption DEF Inv, HoldersHaveContext
<1>. QED
  BY <1>1, <1>2, <1>4, <1>5, <1>6 DEF Inv

LEMMA ReleaseStep ==
  ASSUME Inv, NEW c \in Clients, SCardReleaseContext(c)
  PROVE  /\ Inv' /\ UNCHANGED power
         /\ \A r \in Slots : holders'[r] # {} => (r \in channel <=> r \in channel')
<1>. DEFINE count == context_count - 1
<1>0. None \notin Clients /\ Slots \subseteq Readers
  BY WinscardAssumption
<1>1. /\ c \in contexts
      /\ context_count' = count
      /\ contexts' = contexts \ {c}
      /\ channel' = Released(count)
      /\ holders' = [r \in Readers |-> holders[r] \ {c}]
      /\ begun' = [r \in Readers |-> IF begun[r] = c THEN None ELSE begun[r]]
      /\ sole' = [r \in Readers |-> IF sole[r] = c THEN None ELSE sole[r]]
      /\ UNCHANGED <<card, power, shared, cancel_status, query, known>>
  BY DEF SCardReleaseContext, queryVars
<1>2. /\ context_count = Cardinality(contexts)
      /\ Cardinality(contexts \ {c}) = Cardinality(contexts) - 1
      /\ Cardinality(contexts \ {c}) \in Nat
      /\ Cardinality(contexts \ {c}) = 0 => contexts \ {c} = {}
  BY <1>1, ClientsCounted DEF Inv, TypeOK, Counted
<1>3. HoldersHaveContext'
  BY <1>1 DEF Inv, HoldersHaveContext
<1>4. CASE count = 0
  <2>1. /\ usage_counter' = [r \in Readers |-> 0]
        /\ dwShareMode' = [r \in Readers |-> 0]
        /\ left' = [r \in Readers |-> 0]
        /\ channel' = {}
    BY <1>1, <1>4 DEF SCardReleaseContext, Released
  <2>2. \A r \in Readers : holders'[r] = {}
    BY <1>1, <1>2, <1>3, <1>4 DEF HoldersHaveContext
  <2>3. \A r \in Readers : begun'[r] = None /\ (sole'[r] = None \/ shared'[r])
    BY <1>1, <2>2 DEF Inv, Reserved
  <2>4. TypeOK'
    BY <1>1, <1>2, <2>1 DEF Inv, TypeOK
  <2>5. Counted'
    <3>1. Cardinality({}) = 0
      BY FS_EmptySet
    <3>2. \A r \in Readers : usage_counter'[r] = Cardinality(holders'[r]) + left'[r]
      BY <2>1, <2>2, <3>1
    <3>3. context_count' = Cardinality(contexts')
      BY <1>1, <1>2
    <3>. QED
      BY <3>2, <3>3 DEF Counted
  <2>6. Reserved'
    BY <2>1, <2>3 DEF Reserved
  <2>. QED
    BY <1>0, <1>1, <1>3, <2>2, <2>4, <2>5, <2>6 DEF Inv, Sleeps
<1>5. CASE count # 0
  <2>1. /\ left' = [r \in Readers |-> IF c \in holders[r] THEN left[r] + 1 ELSE left[r]]
        /\ UNCHANGED <<usage_counter, dwShareMode>>
        /\ channel' = channel
    BY <1>1, <1>5 DEF SCardReleaseContext, Released
  <2>2. TypeOK'
    BY <1>1, <1>2, <2>1 DEF Inv, TypeOK
  <2>3. ASSUME NEW r \in Readers
        PROVE  usage_counter'[r] = Cardinality(holders'[r]) + left'[r]
    <3>1. /\ holders[r] \in SUBSET Clients /\ left[r] \in Nat
          /\ usage_counter[r] = Cardinality(holders[r]) + left[r]
      BY DEF Inv, TypeOK, Counted
    <3>2. CASE c \in holders[r]
      BY <1>1, <2>1, <3>1, <3>2, ClientsCounted
    <3>3. CASE c \notin holders[r]
      <4>1. holders[r] \ {c} = holders[r]
        BY <3>3
      <4>. QED
        BY <1>1, <2>1, <3>1, <3>3, <4>1
    <3>. QED
      BY <3>2, <3>3
  <2>4. Counted'
    BY <1>1, <1>2, <2>3 DEF Counted
  <2>5. Reserved'
    BY <1>0, <1>1, <2>1 DEF Inv, TypeOK, Reserved
  <2>. QED
    BY <1>1, <1>3, <2>1, <2>2, <2>4, <2>5 DEF Inv, Sleeps
<1>. QED
  BY <1>4, <1>5
-----------------------------------------------------------------------------
\* What a step may do to cards and channels.
Careful ==
  /\ \A r \in Readers : power'[r] # power[r] => holders'[r] = {}
  /\ \A r \in Slots : holders[r] # {} /\ holders'[r] # {} => (r \in channel <=> r \in channel')

LEMMA InvStep == ASSUME Inv, [Next]_vars PROVE Inv' /\ Careful
<1>1. CASE UNCHANGED vars
  BY <1>1 DEF vars, cardVars, queryVars, Inv, TypeOK, Counted, HoldersHaveContext, Reserved, Sleeps,
              Careful
<1>2. ASSUME NEW c \in Clients, SCardEstablishContext(c) PROVE Inv' /\ Careful
  BY <1>2, EstablishStep DEF Careful
<1>3. ASSUME NEW c \in Clients, SCardReleaseContext(c) PROVE Inv' /\ Careful
  BY <1>3, ReleaseStep DEF Careful
<1>4. ASSUME NEW c \in Clients, NEW r \in Readers, Connection(c, r) PROVE Inv' /\ Careful
  <2>1. ASSUME NEW m \in ShareModes, SCardConnect(c, r, m) PROVE Inv' /\ Careful
    BY <2>1, ConnectStep DEF Careful
  <2>2. ASSUME NEW m \in ShareModes, SCardReconnect(c, r, m) PROVE Inv' /\ Careful
    BY <2>2, ReconnectStep DEF Careful
  <2>3. ASSUME NEW d \in Dispositions, SCardDisconnect(c, r, d) PROVE Inv' /\ Careful
    BY <2>3, DisconnectStep DEF Careful
  <2>4. ASSUME NEW d \in Dispositions, SCardEndTransaction(c, r, d) PROVE Inv' /\ Careful
    BY <2>4, TransactionSteps DEF Careful
  <2>5. CASE SCardBeginTransaction(c, r)
    BY <2>5, TransactionSteps DEF Careful
  <2>. QED
    BY <1>4, <2>1, <2>2, <2>3, <2>4, <2>5 DEF Connection
<1>5. CASE \/ \E c \in Clients : Asks(c) \/ Query(c) \/ SCardCancel(c)
           \/ \E r \in Slots : CardMoves(r)
  BY <1>5, QuerySteps DEF Careful
<1>. QED
  BY <1>1, <1>2, <1>3, <1>4, <1>5 DEF Next

\* usage_counter and context_count say how many connections and contexts are
\* open, whatever clients connect, fail to disconnect or leave behind.
THEOREM EverythingIsCounted == Spec => [](TypeOK /\ Counted)
<1>1. Inv => TypeOK /\ Counted
  BY DEF Inv
<1>. QED
  BY <1>1, InvInit, InvStep, PTL DEF Spec

\* For any number of clients: nobody else is connected to a reader while a
\* transaction runs, or beside an exclusive connection, unless its client has
\* ended a transaction with SCARD_UNPOWER_CARD or SCARD_EJECT_CARD.
THEOREM ReservedReadersAreAlone == Spec => []ReservedIsAlone
<1>1. ASSUME Inv PROVE ReservedIsAlone
  <2>1. ASSUME NEW r \in Readers, begun[r] # None PROVE holders[r] = {begun[r]}
    <3>1. begun[r] \in holders[r]
      BY <1>1, <2>1 DEF Inv, Reserved
    <3>. QED
      BY <1>1, <2>1, <3>1, OnlyHolder
  <2>2. ASSUME NEW r \in Readers, sole[r] # None, ~shared[r] PROVE holders[r] = {sole[r]}
    <3>1. sole[r] \in holders[r]
      BY <1>1, <2>2 DEF Inv, Reserved
    <3>. QED
      BY <1>1, <2>2, <3>1, OnlyHolder
  <2>. QED
    BY <2>1, <2>2 DEF ReservedIsAlone
<1>. QED
  BY <1>1, InvInit, InvStep, PTL DEF Spec

\* No card is reset or powered down under another client.
THEOREM LastOnePowers == Spec => PowerIsOwn
<1>1. Inv /\ [Next]_vars => [\A r \in Readers : power'[r] # power[r] => holders'[r] = {}]_vars
  BY InvStep DEF Careful
<1>. QED
  BY <1>1, InvInit, InvStep, PTL DEF Spec, PowerIsOwn

\* No channel is closed or opened under a client that is connected.
THEOREM ChannelsStayOpen == Spec => ChannelsStay
<1>1. Inv /\ [Next]_vars =>
        [\A r \in Slots : holders[r] # {} /\ holders'[r] # {} => (r \in channel <=> r \in channel')]_vars
  BY InvStep DEF Careful
<1>. QED
  BY <1>1, InvInit, InvStep, PTL DEF Spec, ChannelsStay
=============================================================================
