---------------------------- MODULE GadgetProofs ----------------------------
(***************************************************************************)
(* Proofs about Gadget, for any number of configurations and whatever      *)
(* controllers gadgetfs shows: the types of the state, that the first      *)
(* session has its reader, that a gadget that waits for the host serves    *)
(* what it announced, that strings of any length stay in their bounds, and *)
(* that the right reader is chosen.  What a recursive function computes is *)
(* proved from the least number at which it would not (Least).             *)
(***************************************************************************)
EXTENDS Gadget, TLAPS, WellFoundedInduction, SequenceTheorems

\* A thread that was not started does nothing.
NotStarted == \A i \in Pairs : i > starts => bulk[i] = "none"

\* Until the bulk thread of the first session has closed it, the reader is there.
FirstReader ==
  /\ starts = 0 => reader = "valid"
  /\ starts = 1 /\ bulk[1] \in {"source", "sink", "read", "parse", "close ccid"} => reader = "valid"

\* Only stop_io cancels the bulk thread, and it awaits its end.
CancelInv ==
  /\ toBulk \subseteq {ccidThread} \ {0}
  /\ ep0 \notin {"bulk", "join bulk", "gone"} => toBulk = {}

\* A bulk thread that ends on its own account takes endpoint 0 along.
ServeInv == toBulk = {} /\ ~toEp0 /\ ccidThread # 0 => bulk[ccidThread] \notin Ending

IInv == TypeOK /\ NotStarted /\ FirstReader /\ CancelInv /\ ServeInv

-----------------------------------------------------------------------------
LEMMA InitInv == Init => IInv
<1> SUFFICES ASSUME Init PROVE IInv
  OBVIOUS
<1>1. TypeOK
  <2>1. MaxStarts \in Nat /\ 0 \in 0..MaxStarts
    BY GadgetAssumption
  <2>2. starts \in 0..MaxStarts /\ ccidThread \in 0..starts /\ interruptThread \in 0..starts
    BY <2>1 DEF Init
  <2>3. toBulk \subseteq Pairs /\ toIntr \subseteq Pairs /\ fd \subseteq Endpoints /\ open \subseteq Endpoints
    BY DEF Init
  <2> QED
    BY <2>2, <2>3 DEF Init, TypeOK
<1>2. NotStarted /\ FirstReader /\ CancelInv /\ ServeInv
  BY DEF Init, NotStarted, FirstReader, CancelInv, ServeInv, Pairs
<1> QED
  BY <1>1, <1>2 DEF IInv

LEMMA EndsInv == ASSUME IInv, NEW how \in {"exited", "crashed"}, Ends(how) PROVE IInv'
<1>1. TypeOK'
  <2>1. MaxStarts \in Nat /\ 0 \in 0..MaxStarts
    BY GadgetAssumption
  <2>2. starts' \in 0..MaxStarts /\ ccidThread' \in 0..starts' /\ interruptThread' \in 0..starts'
    BY <2>1 DEF Ends
  <2>3. toBulk' \subseteq Pairs /\ toIntr' \subseteq Pairs /\ fd' \subseteq Endpoints /\ open' \subseteq Endpoints
    BY DEF Ends
  <2>4. doint' \in BOOLEAN
    BY DEF Ends, IInv, TypeOK
  <2> QED
    BY <2>2, <2>3, <2>4 DEF Ends, TypeOK
<1>2. (NotStarted /\ FirstReader /\ CancelInv /\ ServeInv)'
  BY DEF Ends, NotStarted, FirstReader, CancelInv, ServeInv, Pairs
<1> QED
  BY <1>1, <1>2 DEF IInv

\* What the descriptors of the endpoints say has no part in the invariant.
LEMMA DescriptorsTyped ==
  ASSUME TypeOK, NEW ep \in Endpoints
  PROVE  /\ Opens(ep) => fd' \subseteq Endpoints /\ open' \subseteq Endpoints
         /\ DoesNotOpen(ep) => fd' \subseteq Endpoints /\ open' \subseteq Endpoints
         /\ CloseFd(ep) => fd' \subseteq Endpoints /\ open' \subseteq Endpoints
         /\ Leaves(ep) => fd' \subseteq Endpoints /\ open' \subseteq Endpoints
BY DEF TypeOK, Opens, DoesNotOpen, CloseFd, Leaves

BulkPlaces == {"none", "source", "sink", "read", "parse", "close ccid", "close sink",
               "close source", "ended"}

\* A step of a bulk thread: it goes on, or to its end if it is cancelled or takes
\* endpoint 0 along; only its cleanup releases the reader.
BulkMoves(i) ==
  /\ \E where \in BulkPlaces \ {"none"} :
       /\ BulkGoes(i, where)
       /\ bulk[i] # "none"
       /\ where \in Ending => bulk[i] \in Ending \/ i \in toBulk \/ toEp0'
       /\ where \in {"source", "sink", "read", "parse", "close ccid"}
            => bulk[i] \in {"source", "sink", "read", "parse"} /\ reader' = reader
       /\ reader' = reader \/ (reader' = "released" /\ where = "close sink")
  /\ toEp0' \in BOOLEAN /\ (toEp0 => toEp0')
  /\ fd' \subseteq Endpoints /\ open' \subseteq Endpoints
  /\ BulkRest

LEMMA BulkStepsMove ==
  ASSUME IInv, NEW i \in Pairs, BulkStep(i) \/ BulkReads(i) \/ BulkAborts(i)
  PROVE  BulkMoves(i)
<1> USE DEF Endpoints
<1>0. TypeOK /\ toEp0 \in BOOLEAN /\ fd \subseteq Endpoints /\ open \subseteq Endpoints
  BY DEF IInv, TypeOK
<1>1. CASE OpenSource(i)
  <2>1. fd' \subseteq Endpoints /\ open' \subseteq Endpoints
    BY <1>0, <1>1, DescriptorsTyped DEF OpenSource
  <2>2. \/ BulkGoes(i, "sink") /\ toEp0' = toEp0
        \/ BulkGoes(i, "ended") /\ toEp0' = TRUE
    BY <1>1 DEF OpenSource
  <2>3. bulk[i] = "source" /\ reader' = reader /\ BulkRest
    BY <1>1 DEF OpenSource
  <2> QED
    BY <1>0, <2>1, <2>2, <2>3 DEF BulkMoves, BulkPlaces, Ending
<1>2. CASE OpenSink(i)
  <2>1. fd' \subseteq Endpoints /\ open' \subseteq Endpoints
    BY <1>0, <1>2, DescriptorsTyped DEF OpenSink
  <2>2. \/ BulkGoes(i, "read") /\ toEp0' = toEp0
        \/ BulkGoes(i, "close source") /\ toEp0' = TRUE
    BY <1>2 DEF OpenSink
  <2>3. bulk[i] = "sink" /\ reader' = reader /\ BulkRest
    BY <1>2 DEF OpenSink
  <2> QED
    BY <1>0, <2>1, <2>2, <2>3 DEF BulkMoves, BulkPlaces, Ending
<1>3. CASE BulkAborts(i)
  BY <1>0, <1>3 DEF BulkAborts, BulkMoves, BulkPlaces, Ending
<1>4. CASE BulkReads(i)
  BY <1>0, <1>4 DEF BulkReads, BulkMoves, BulkPlaces, Ending
<1>5. CASE BulkAnswers(i)
  BY <1>0, <1>5 DEF BulkAnswers, BulkMoves, BulkPlaces, Ending
<1>6. CASE BulkCancelled(i)
  BY <1>0, <1>6, DescriptorsTyped DEF BulkCancelled, BulkMoves, BulkPlaces, Ending
<1>7. CASE CloseCcid(i)
  BY <1>0, <1>7 DEF CloseCcid, BulkMoves, BulkPlaces, Ending
<1>8. CASE BulkCloses(i)
  BY <1>0, <1>8, DescriptorsTyped DEF BulkCloses, BulkMoves, BulkPlaces, Ending
<1> QED
  BY <1>1, <1>2, <1>3, <1>4, <1>5, <1>6, <1>7, <1>8 DEF BulkStep

LEMMA BulkMovesInv == ASSUME IInv, NEW i \in Pairs, BulkMoves(i) PROVE IInv'
<1>1. PICK where \in BulkPlaces \ {"none"} :
        /\ BulkGoes(i, where)
        /\ bulk[i] # "none"
        /\ where \in Ending => bulk[i] \in Ending \/ i \in toBulk \/ toEp0'
        /\ where \in {"source", "sink", "read", "parse", "close ccid"}
             => bulk[i] \in {"source", "sink", "read", "parse"} /\ reader' = reader
        /\ reader' = reader \/ (reader' = "released" /\ where = "close sink")
  BY DEF BulkMoves
<1>2. /\ bulk \in [Pairs -> BulkPlaces]
      /\ bulk' = [bulk EXCEPT ![i] = where]
      /\ toEp0' \in BOOLEAN /\ (toEp0 => toEp0')
      /\ UNCHANGED <<process, udc, doint, ep0, then, cleaning, leaving, toBulk, toIntr, starts,
                     ccidThread, interruptThread, intr>>
  BY <1>1 DEF IInv, TypeOK, BulkMoves, BulkRest, BulkGoes, ep0Vars, handles, BulkPlaces
<1>3. TypeOK'
  <2>1. bulk' \in [Pairs -> BulkPlaces]
    BY <1>2
  <2>2. reader' \in {"valid", "released"}
    BY <1>1 DEF IInv, TypeOK
  <2> QED
    BY <1>2, <2>1, <2>2, ZenonT(60) DEF IInv, TypeOK, BulkMoves, BulkPlaces
<1>4. i \in Nat /\ 1 <= i /\ starts \in Nat /\ i <= starts
  <2>1. MaxStarts \in Nat /\ starts \in 0..MaxStarts
    BY GadgetAssumption DEF IInv, TypeOK
  <2>2. i \in 1..MaxStarts
    BY DEF Pairs
  <2>3. ~(i > starts)
    BY <1>1 DEF IInv, NotStarted
  <2> QED
    BY <2>1, <2>2, <2>3
<1>5. NotStarted'
  BY <1>2, <1>4 DEF IInv, NotStarted, Pairs
<1>6. FirstReader'
  <2>1. starts' = starts /\ starts # 0
    BY <1>2, <1>4
  <2>2. CASE starts # 1
    BY <2>1, <2>2 DEF FirstReader
  <2>3. CASE starts = 1
    <3>1. i = 1
      BY <1>4, <2>3
    <3>2. bulk'[1] = where
      BY <1>2, <3>1
    <3> QED
      BY <1>1, <2>1, <2>3, <3>1, <3>2 DEF IInv, FirstReader
  <2> QED
    BY <2>2, <2>3
<1>7. CancelInv'
  BY <1>2 DEF IInv, CancelInv
<1>8. ServeInv'
  <2> SUFFICES ASSUME toBulk' = {}, ~toEp0', ccidThread' # 0 PROVE bulk'[ccidThread'] \notin Ending
    BY DEF ServeInv
  <2>1. toBulk = {} /\ ~toEp0 /\ ccidThread # 0 /\ bulk[ccidThread] \notin Ending
    BY <1>2 DEF IInv, ServeInv
  <2>2. CASE i = ccidThread
    <3>1. bulk'[ccidThread'] = where
      BY <1>2, <2>2
    <3> QED
      BY <1>1, <2>1, <2>2, <3>1
  <2>3. CASE i # ccidThread
    <3>1. ccidThread \in Pairs
      <4>1. MaxStarts \in Nat /\ starts \in 0..MaxStarts /\ ccidThread \in 0..starts
        BY GadgetAssumption DEF IInv, TypeOK
      <4> QED
        BY <2>1, <4>1 DEF Pairs
    <3>2. bulk'[ccidThread'] = bulk[ccidThread]
      BY <1>2, <2>3, <3>1
    <3> QED
      BY <2>1, <3>2
  <2> QED
    BY <2>2, <2>3
<1> QED
  BY <1>3, <1>5, <1>6, <1>7, <1>8 DEF IInv

-----------------------------------------------------------------------------
\* A step that touches no bulk thread, and cancels none, keeps the invariant; if
\* such a thread is cancelled then endpoint 0 still awaits its end.
LEMMA QuietInv ==
  ASSUME IInv, TypeOK',
         UNCHANGED <<starts, ccidThread, bulk, reader, toBulk>>,
         toEp0 => toEp0',
         toBulk = {} \/ ep0' \in {"bulk", "join bulk", "gone"}
  PROVE  IInv'
<1>1. NotStarted' /\ FirstReader' /\ ServeInv'
  BY DEF IInv, NotStarted, FirstReader, ServeInv, Ending
<1>2. CancelInv'
  BY DEF IInv, CancelInv
<1> QED
  BY <1>1, <1>2 DEF IInv

\* What the bounds of the state are for the steps below.
LEMMA Ranges ==
  ASSUME IInv
  PROVE  /\ MaxStarts \in Nat /\ starts \in 0..MaxStarts
         /\ ccidThread \in 0..starts /\ interruptThread \in 0..starts
         /\ {ccidThread} \ {0} \subseteq Pairs /\ {interruptThread} \ {0} \subseteq Pairs
<1>1. /\ MaxStarts \in Nat /\ starts \in 0..MaxStarts
      /\ ccidThread \in 0..starts /\ interruptThread \in 0..starts
  BY GadgetAssumption DEF IInv, TypeOK
<1>2. \A n \in 0..starts : {n} \ {0} \subseteq 1..MaxStarts
  BY <1>1
<1> QED
  BY <1>1, <1>2 DEF Pairs

LEMMA IntrStepsInv ==
  ASSUME IInv, NEW i \in Pairs, IntrStep(i) \/ IntrAborts(i)
  PROVE  IInv'
<1> DEFINE Places == {"none", "status", "check", "first look", "look", "close status", "ended"}
<1>1. /\ TypeOK /\ toEp0 \in BOOLEAN /\ fd \subseteq Endpoints /\ open \subseteq Endpoints
      /\ intr \in [Pairs -> Places] /\ "status" \in Endpoints
  BY DEF IInv, TypeOK, Endpoints
<1>2. /\ IntrRest
      /\ fd' \subseteq Endpoints /\ open' \subseteq Endpoints
      /\ toEp0' \in BOOLEAN /\ (toEp0 => toEp0')
      /\ intr' \in [Pairs -> Places]
  <2>1. CASE OpenStatus(i)
    BY <1>1, <2>1, DescriptorsTyped DEF OpenStatus, IntrGoes
  <2>2. CASE ChecksSource(i)
    BY <1>1, <2>2 DEF ChecksSource, IntrGoes
  <2>3. CASE Looks(i)
    BY <1>1, <2>3 DEF Looks, IntrGoes
  <2>4. CASE IntrCancelled(i)
    BY <1>1, <2>4, DescriptorsTyped DEF IntrCancelled, IntrGoes
  <2>5. CASE CloseStatus(i)
    BY <1>1, <2>5, DescriptorsTyped DEF CloseStatus, IntrGoes
  <2>6. CASE IntrAborts(i)
    BY <1>1, <2>6 DEF IntrAborts, IntrGoes
  <2> QED
    BY <2>1, <2>2, <2>3, <2>4, <2>5, <2>6 DEF IntrStep
<1>3. TypeOK'
  <2>1. UNCHANGED <<process, doint, ep0, then, cleaning, leaving, toBulk, toIntr, starts, ccidThread,
                    interruptThread, bulk, reader>>
    BY <1>2 DEF IntrRest, ep0Vars, handles
  <2>2. starts' \in 0..MaxStarts /\ ccidThread' \in 0..starts' /\ interruptThread' \in 0..starts'
    BY <1>1, <2>1 DEF TypeOK
  <2>3. /\ doint' \in BOOLEAN /\ cleaning' \in BOOLEAN /\ leaving' \in BOOLEAN
        /\ toBulk' \subseteq Pairs /\ toIntr' \subseteq Pairs
    BY <1>1, <2>1 DEF TypeOK
  <2> QED
    BY <1>1, <1>2, <2>1, <2>2, <2>3 DEF TypeOK
<1>4. UNCHANGED <<starts, ccidThread, bulk, reader, toBulk, ep0>>
  BY <1>2 DEF IntrRest, ep0Vars, handles
<1>5. toBulk = {} \/ ep0' \in {"bulk", "join bulk", "gone"}
  BY <1>4 DEF IInv, CancelInv
<1> QED
  BY <1>2, <1>3, <1>4, <1>5, QuietInv

-----------------------------------------------------------------------------
(* Endpoint 0.                                                             *)

LEMMA StopIoInv == ASSUME IInv, StopIo PROVE IInv'
<1>1. CASE ep0 = "bulk"
  <2>1. /\ toBulk' = toBulk \cup ({ccidThread} \ {0})
        /\ ep0' = IF ccidThread = 0 THEN "interrupt" ELSE "join bulk"
        /\ UNCHANGED <<process, udc, doint, starts, intr, bulk, fd, open, reader, then, cleaning,
                       leaving, toEp0, toIntr, ccidThread, interruptThread>>
    BY <1>1 DEF StopIo, Ep0Goes, Ep0Rest, handles
  <2>2. toBulk' \subseteq Pairs
    BY <2>1, Ranges DEF IInv, TypeOK
  <2>3. TypeOK'
    BY <2>1, <2>2 DEF IInv, TypeOK
  <2>4. NotStarted' /\ FirstReader'
    BY <2>1 DEF IInv, NotStarted, FirstReader
  <2>5. CancelInv'
    BY <2>1 DEF IInv, CancelInv
  <2>6. ServeInv'
    BY <2>1 DEF IInv, ServeInv, CancelInv
  <2> QED
    BY <2>3, <2>4, <2>5, <2>6 DEF IInv
<1>2. CASE ep0 = "interrupt"
  <2>1. /\ toIntr' = toIntr \cup ({interruptThread} \ {0})
        /\ ep0' = IF interruptThread = 0 THEN then ELSE "join interrupt"
        /\ UNCHANGED <<process, udc, doint, starts, intr, bulk, fd, open, reader, then, cleaning,
                       leaving, toEp0, toBulk, ccidThread, interruptThread>>
    BY <1>2 DEF StopIo, Ep0Goes, Ep0Rest, handles
  <2>2. toIntr' \subseteq Pairs
    BY <2>1, Ranges DEF IInv, TypeOK
  <2>3. TypeOK'
    BY <2>1, <2>2 DEF IInv, TypeOK
  <2>4. toBulk = {}
    BY <1>2 DEF IInv, CancelInv
  <2> QED
    BY <2>1, <2>3, <2>4, QuietInv
<1> QED
  BY <1>1, <1>2 DEF StopIo

LEMMA JoinsInv == ASSUME IInv, Joins PROVE IInv'
<1>1. CASE ep0 = "join bulk"
  <2>1. /\ toBulk' = toBulk \ {ccidThread} /\ ep0' = "interrupt" /\ ccidThread' = 0
        /\ UNCHANGED <<process, udc, doint, starts, intr, bulk, fd, open, reader, then, cleaning,
                       leaving, toEp0, toIntr, interruptThread>>
    BY <1>1 DEF Joins, Ep0Goes, Ep0Rest
  <2>2. 0 \in 0..starts
    BY Ranges
  <2>3. TypeOK'
    <3>1. toBulk' \subseteq Pairs
      BY <2>1 DEF IInv, TypeOK
    <3> QED
      BY <2>1, <2>2, <3>1 DEF IInv, TypeOK
  <2>4. NotStarted' /\ FirstReader' /\ ServeInv'
    BY <2>1 DEF IInv, NotStarted, FirstReader, ServeInv
  <2>5. CancelInv'
    BY <2>1 DEF IInv, CancelInv
  <2> QED
    BY <2>3, <2>4, <2>5 DEF IInv
<1>2. CASE ep0 = "join interrupt"
  <2>1. /\ toIntr' = toIntr \ {interruptThread} /\ ep0' = then /\ interruptThread' = 0
        /\ UNCHANGED <<process, udc, doint, starts, intr, bulk, fd, open, reader, then, cleaning,
                       leaving, toEp0, toBulk, ccidThread>>
    BY <1>2 DEF Joins, Ep0Goes, Ep0Rest
  <2>2. 0 \in 0..starts
    BY Ranges
  <2>3. TypeOK'
    BY <2>1, <2>2 DEF IInv, TypeOK
  <2>4. toBulk = {}
    BY <1>2 DEF IInv, CancelInv
  <2> QED
    BY <2>1, <2>3, <2>4, QuietInv
<1> QED
  BY <1>1, <1>2 DEF Joins

LEMMA StartIoInv == ASSUME IInv, StartIo PROVE IInv'
<1> DEFINE IntrPlaces == {"none", "status", "check", "first look", "look", "close status", "ended"}
<1>0. /\ UNCHANGED <<process, udc, doint, toEp0, toBulk, toIntr, fd, open, reader, then, cleaning, leaving>>
      /\ toBulk = {}
  BY DEF StartIo, Ep0Goes, cancels, IInv, CancelInv
<1>1. CASE ep0 = "start" /\ starts' = starts + 1
  <2>1. /\ starts < MaxStarts /\ ccidThread' = starts + 1
        /\ bulk' = [bulk EXCEPT ![starts + 1] = "source"]
        /\ ep0' \in {"start interrupt", "ack"}
        /\ UNCHANGED <<intr, interruptThread>>
    <3>1. starts + 1 # starts
      <4>1. starts \in Nat
        BY Ranges
      <4> QED
        BY <4>1
    <3>2. starts' # starts
      BY <1>1, <3>1
    <3> QED
      BY <1>1, <3>2 DEF StartIo, Ep0Goes, BulkGoes, handles
  <2>2. /\ starts' \in 0..MaxStarts /\ ccidThread' \in 0..starts' /\ interruptThread' \in 0..starts'
        /\ starts + 1 \in Pairs /\ starts \in Nat
    <3>1. MaxStarts \in Nat /\ starts \in 0..MaxStarts /\ interruptThread \in 0..starts
      BY Ranges
    <3>2. starts < MaxStarts /\ starts' = starts + 1 /\ ccidThread' = starts + 1
      BY <1>1, <2>1
    <3>3. interruptThread' = interruptThread
      BY <2>1
    <3>4. starts \in Nat /\ starts + 1 \in 1..MaxStarts
      BY <3>1, <3>2
    <3>5. interruptThread \in 0..starts + 1
      BY <3>1, <3>4
    <3> QED
      BY <3>2, <3>3, <3>4, <3>5 DEF Pairs
  <2>3. bulk \in [Pairs -> BulkPlaces] /\ bulk' \in [Pairs -> BulkPlaces]
    BY <2>1 DEF IInv, TypeOK, BulkPlaces
  <2>4. TypeOK'
    BY <1>0, <2>1, <2>2, <2>3, ZenonT(60) DEF IInv, TypeOK, BulkPlaces
  <2>5. NotStarted'
    <3> SUFFICES ASSUME NEW i \in Pairs, i > starts' PROVE bulk'[i] = "none"
      BY DEF NotStarted
    <3>1. i \in Nat /\ i > starts /\ i # starts + 1
      BY <1>1, <2>2, GadgetAssumption DEF Pairs
    <3>2. bulk[i] = "none"
      BY <3>1 DEF IInv, NotStarted
    <3>3. bulk'[i] = bulk[i]
      BY <2>1, <2>3, <3>1
    <3> QED
      BY <3>2, <3>3
  <2>6. FirstReader'
    <3>1. starts' # 0 /\ (starts' = 1 => starts = 0)
      BY <1>1, <2>2
    <3>2. starts = 0 => reader' = "valid"
      BY <1>0 DEF IInv, FirstReader
    <3> QED
      BY <3>1, <3>2 DEF FirstReader
  <2>7. CancelInv'
    BY <1>0 DEF CancelInv
  <2>8. ServeInv'
    <3>1. bulk'[ccidThread'] = "source"
      BY <2>1, <2>2, <2>3
    <3> QED
      BY <3>1 DEF ServeInv, Ending
  <2> QED
    BY <2>4, <2>5, <2>6, <2>7, <2>8 DEF IInv
<1>2. CASE starts' = starts
  <2>1. /\ UNCHANGED <<starts, ccidThread, bulk>> /\ ep0' = "ack"
        /\ \/ UNCHANGED <<intr, interruptThread>>
           \/ interruptThread' = starts /\ intr' = [intr EXCEPT ![starts] = "status"]
    <3>1. starts' # starts + 1
      <4>1. starts \in Nat
        BY Ranges
      <4> QED
        BY <1>2, <4>1
    <3> QED
      BY <3>1 DEF StartIo, Ep0Goes, IntrGoes, handles
  <2>2. intr' \in [Pairs -> IntrPlaces] /\ interruptThread' \in 0..starts
    <3>1. starts \in Nat /\ interruptThread \in 0..starts
      BY Ranges
    <3>2. starts \in 0..starts
      BY <3>1
    <3>3. intr \in [Pairs -> IntrPlaces]
      BY DEF IInv, TypeOK
    <3> QED
      BY <2>1, <3>1, <3>2, <3>3
  <2>3. TypeOK'
    BY <1>0, <2>1, <2>2 DEF IInv, TypeOK
  <2> QED
    BY <1>0, <2>1, <2>3, QuietInv
<1> QED
  BY <1>1, <1>2 DEF StartIo

\* The requests of the host, the cancellation of endpoint 0, and the start of the
\* process.
LEMMA RequestsInv ==
  ASSUME IInv,
         \/ Ack \/ Ep0Cancelled \/ SetConfiguration \/ SetConfiguration0
         \/ Disconnect \/ Leave
  PROVE  IInv'
<1>1. /\ UNCHANGED <<process, udc, doint, starts, intr, bulk, fd, open, reader, toEp0, toBulk,
                     toIntr, ccidThread, interruptThread>>
      /\ ep0' \in {"poll", "gone", "bulk", "start"}
      /\ then' \in {then, "gone", "start", "ack", "poll", "return"}
      /\ cleaning' \in BOOLEAN /\ leaving' \in BOOLEAN
      /\ ep0 \in {"poll", "ack"} \/ ep0' \in {"gone", "bulk"}
  <2>0. cleaning \in BOOLEAN /\ leaving \in BOOLEAN
    BY DEF IInv, TypeOK
  <2>1. CASE Ack
    BY <2>0, <2>1 DEF Ack, Ep0Goes, Ep0Rest, cancels, handles
  <2>2. CASE Ep0Cancelled
    BY <2>0, <2>2 DEF Ep0Cancelled, Ep0Goes, Stops, Ep0Rest, cancels, handles
  <2>3. CASE SetConfiguration
    BY <2>0, <2>3 DEF SetConfiguration, Polls, Ep0Goes, Stops, Ep0Rest, cancels, handles
  <2>4. CASE SetConfiguration0
    BY <2>0, <2>4 DEF SetConfiguration0, Polls, Stops, Ep0Rest, cancels, handles
  <2>5. CASE Disconnect
    BY <2>0, <2>5 DEF Disconnect, Polls, Stops, Ep0Rest, cancels, handles
  <2>6. CASE Leave
    BY <2>0, <2>6 DEF Leave, Polls, Stops, Ep0Rest, cancels, handles
  <2> QED
    BY <2>1, <2>2, <2>3, <2>4, <2>5, <2>6
<1>2. TypeOK'
  BY <1>1, ZenonT(60) DEF IInv, TypeOK
<1>3. toBulk = {} \/ ep0' \in {"bulk", "join bulk", "gone"}
  BY <1>1 DEF IInv, CancelInv
<1> QED
  BY <1>1, <1>2, <1>3, QuietInv

\* Types when only the process or the cancellation of endpoint 0 changes.
LEMMA SameTypes ==
  ASSUME TypeOK,
         UNCHANGED <<doint, ep0, then, cleaning, leaving, toBulk, toIntr, starts, ccidThread,
                     interruptThread, bulk, intr, fd, open, reader>>,
         process' \in {"starting", "running", "exited", "crashed"}, toEp0' \in BOOLEAN
  PROVE  TypeOK'
<1>1. starts' \in 0..MaxStarts /\ ccidThread' \in 0..starts' /\ interruptThread' \in 0..starts'
  BY DEF TypeOK
<1>2. /\ toBulk' \subseteq Pairs /\ toIntr' \subseteq Pairs
      /\ fd' \subseteq Endpoints /\ open' \subseteq Endpoints
  BY DEF TypeOK
<1>3. doint' \in BOOLEAN /\ cleaning' \in BOOLEAN /\ leaving' \in BOOLEAN
  BY DEF TypeOK
<1> QED
  BY <1>1, <1>2, <1>3 DEF TypeOK

LEMMA ProcessInv ==
  ASSUME IInv, InitDevice \/ MisusesReader \/ Exit \/ StringRequestCrashes \/ Signal
  PROVE  IInv'
<1>1. CASE InitDevice
  <2>1. process' \in {"exited", "running"}
    BY <1>1 DEF InitDevice
  <2>2. UNCHANGED <<doint, ep0, then, cleaning, leaving, toEp0, toBulk, toIntr, starts, ccidThread,
                    interruptThread, bulk, intr, fd, open, reader>>
    BY <1>1 DEF InitDevice, ep0Vars, cancels, handles
  <2>3. TypeOK'
    <3>1. TypeOK /\ toEp0' \in BOOLEAN
      BY <2>2 DEF IInv, TypeOK
    <3> QED
      BY <2>1, <2>2, <3>1, SameTypes
  <2>4. toBulk = {} \/ ep0' \in {"bulk", "join bulk", "gone"}
    BY <2>2 DEF IInv, CancelInv
  <2> QED
    BY <2>2, <2>3, <2>4, QuietInv
<1>2. CASE MisusesReader
  BY <1>2, EndsInv DEF MisusesReader
<1>3. CASE Exit
  BY <1>3, EndsInv DEF Exit
<1>4. CASE StringRequestCrashes
  BY <1>4, EndsInv DEF StringRequestCrashes
<1>5. CASE Signal
  <2>1. CASE Ends("exited")
    BY <2>1, EndsInv
  <2>2. CASE /\ toEp0' = TRUE
             /\ UNCHANGED <<process, udc, doint, ep0Vars, toBulk, toIntr, starts, handles, bulk,
                            intr, fd, open, reader>>
    <3>0. /\ toEp0' = TRUE
          /\ UNCHANGED <<process, doint, ep0, then, cleaning, leaving, toBulk, toIntr, starts,
                         ccidThread, interruptThread, bulk, intr, fd, open, reader>>
      BY <2>2 DEF ep0Vars, handles
    <3>1. TypeOK'
      <4>1. TypeOK /\ process' \in {"starting", "running", "exited", "crashed"}
        BY <3>0 DEF IInv, TypeOK
      <4> QED
        BY <3>0, <4>1, SameTypes
    <3>2. toBulk = {} \/ ep0' \in {"bulk", "join bulk", "gone"}
      BY <2>2 DEF IInv, CancelInv, ep0Vars
    <3> QED
      BY <2>2, <3>1, <3>2, QuietInv DEF handles
  <2> QED
    BY <1>5, <2>1, <2>2 DEF Signal
<1> QED
  BY <1>1, <1>2, <1>3, <1>4, <1>5

LEMMA StutterInv == ASSUME IInv, UNCHANGED vars PROVE IInv'
<1>0. UNCHANGED <<process, doint, ep0, then, cleaning, leaving, toEp0, toBulk, toIntr, starts,
                  ccidThread, interruptThread, bulk, intr, fd, open, reader>>
  BY DEF vars, ep0Vars, cancels, handles
<1>1. TypeOK'
  <2>1. /\ TypeOK /\ process' \in {"starting", "running", "exited", "crashed"}
        /\ toEp0' \in BOOLEAN
    BY <1>0 DEF IInv, TypeOK
  <2> QED
    BY <1>0, <2>1, SameTypes
<1>2. toBulk = {} \/ ep0' \in {"bulk", "join bulk", "gone"}
  BY DEF IInv, CancelInv, vars, ep0Vars
<1> QED
  BY <1>1, <1>2, QuietInv DEF vars, cancels, handles

LEMMA NextInv == IInv /\ [Next]_vars => IInv'
<1> SUFFICES ASSUME IInv, [Next]_vars PROVE IInv'
  OBVIOUS
<1>1. CASE InitDevice \/ MisusesReader
  BY <1>1, ProcessInv
<1>2. CASE Ep0Step
  BY <1>2, StopIoInv, JoinsInv, StartIoInv, RequestsInv, ProcessInv DEF Ep0Step
<1>3. CASE HostStep
  <2>1. CASE OtherRequest
    BY <2>1, StutterInv DEF OtherRequest
  <2>2. CASE ClassRequest
    BY <2>2, StutterInv, EndsInv DEF ClassRequest
  <2>3. CASE StringRequestCrashes \/ Signal
    BY <2>3, ProcessInv
  <2>4. CASE SetConfiguration \/ SetConfiguration0 \/ Disconnect \/ Leave
    BY <2>4, RequestsInv
  <2> QED
    BY <1>3, <2>1, <2>2, <2>3, <2>4 DEF HostStep
<1>4. CASE \E i \in Pairs : BulkStep(i) \/ BulkReads(i) \/ BulkAborts(i)
  BY <1>4, BulkStepsMove, BulkMovesInv
<1>5. CASE \E i \in Pairs : IntrStep(i) \/ IntrAborts(i)
  BY <1>5, IntrStepsInv
<1>6. CASE UNCHANGED vars
  BY <1>6, StutterInv
<1> QED
  BY <1>1, <1>2, <1>3, <1>4, <1>5, <1>6 DEF Next

-----------------------------------------------------------------------------
\* The invariant holds in every reachable state.
THEOREM Invariance == Spec => []IInv
<1>1. Init => IInv
  BY InitInv
<1>2. IInv /\ [Next]_vars => IInv'
  BY NextInv
<1> QED
  BY <1>1, <1>2, PTL DEF Spec

\* The state of the gadget has its types.
THEOREM TypesHold == Spec => []TypeOK
<1>1. IInv => TypeOK
  BY DEF IInv
<1> QED
  BY <1>1, Invariance, PTL

\* In its first session the bulk thread works with a reader that was not released
\* (close_ccid, usb.c:818-821), however often the host configures and whoever is
\* cancelled.
THEOREM FirstSessionHasReader == Spec => []FirstSession
<1>1. IInv => FirstSession
  BY DEF IInv, FirstReader, FirstSession
<1> QED
  BY <1>1, Invariance, PTL

\* The endpoints announced for bulk transfers are those the bulk thread opens, for
\* every controller.
LEMMA DescriptorsAgree ==
  ASSUME NEW c
  PROVE  /\ EpConfig(c, "source") \cap EpConfig(c, "sink") = {}
         /\ Announced(c, FALSE) = EpConfig(c, "source") \cup EpConfig(c, "sink")
<1>1. /\ EpConfig(c, "source") = {<<speed, <<"in", c.in>>>> : speed \in Speeds(c)}
      /\ EpConfig(c, "sink") = {<<speed, <<"out", c.out>>>> : speed \in Speeds(c)}
  BY DEF EpConfig
<1>2. EpConfig(c, "source") \cap EpConfig(c, "sink") = {}
  BY <1>1
<1>3. ASSUME NEW speed
      PROVE  BuildConfig(c, speed, 2)
               = {d \in EpConfig(c, "source") \cup EpConfig(c, "sink") : d[1] = speed}
  BY DEF BuildConfig
<1>4. Announced(c, FALSE) = UNION {BuildConfig(c, speed, 2) : speed \in Speeds(c)}
  BY DEF Announced
<1>5. \A d \in EpConfig(c, "source") \cup EpConfig(c, "sink") : d[1] \in Speeds(c)
  BY <1>1
<1>6. Announced(c, FALSE) \subseteq EpConfig(c, "source") \cup EpConfig(c, "sink")
  <2> SUFFICES ASSUME NEW speed \in Speeds(c), NEW d \in BuildConfig(c, speed, 2)
               PROVE  d \in EpConfig(c, "source") \cup EpConfig(c, "sink")
    BY <1>4
  <2> QED
    BY <1>3
<1>7. EpConfig(c, "source") \cup EpConfig(c, "sink") \subseteq Announced(c, FALSE)
  <2> SUFFICES ASSUME NEW d \in EpConfig(c, "source") \cup EpConfig(c, "sink")
               PROVE  d \in Announced(c, FALSE)
    OBVIOUS
  <2>1. d[1] \in Speeds(c) /\ d \in BuildConfig(c, d[1], 2)
    BY <1>3, <1>5
  <2> QED
    BY <1>4, <2>1
<1> QED
  BY <1>2, <1>6, <1>7

\* While the gadget waits for the host and is not about to end, the endpoints it
\* announced for bulk transfers are served (autoconfig, build_config, ccid()).
THEOREM AnnouncedStaysServed == Spec => []AnnouncedIsServed
<1>1. IInv => AnnouncedIsServed
  BY DescriptorsAgree DEF IInv, CancelInv, ServeInv, AnnouncedIsServed
<1> QED
  BY <1>1, Invariance, PTL

-----------------------------------------------------------------------------
(* The least-number principle, and what it says of functions that are      *)
(* defined from their values at smaller numbers.                           *)

NatLess == {ss \in Nat \X Nat : ss[1] < ss[2]}

LEMMA Least == ASSUME NEW S, S \subseteq Nat, S # {} PROVE \E m \in S : \A n \in S : m <= n
<1>1. IsWellFoundedOn(NatLess, Nat)
  <2>1. OpToRel(<, Nat) = NatLess
    BY DEF OpToRel, NatLess
  <2>. QED
    BY <2>1, NatLessThanWellFounded, Zenon
<1>2. PICK m \in S : \A n \in S : ~(<<n, m>> \in NatLess)
  BY <1>1, WFMin
<1>3. \A n \in S : ~(n < m)
  BY <1>2 DEF NatLess
<1>. QED
  BY <1>3

\* A walk of n steps: from a on, each step of it is made by step.
Steps(A, a, step) == a \in A /\ \A x \in A : step[x] \in A
Walks(g, n, A, a, step) == g \in [0 .. n -> A] /\ g[0] = a /\ \A i \in 1 .. n : g[i] = step[g[i - 1]]

LEMMA WalkExists ==
  ASSUME NEW n \in Nat, NEW A, NEW a, NEW step, Steps(A, a, step)
  PROVE  \E g : Walks(g, n, A, a, step)
<1> USE DEF Steps, Walks
<1> DEFINE Bad == {m \in 0 .. n : ~\E g : Walks(g, m, A, a, step)}
<1>1. SUFFICES Bad = {}
  <2>1. n \in 0 .. n
    OBVIOUS
  <2>. QED
    BY <1>1, <2>1
<1>2. SUFFICES ASSUME Bad # {} PROVE FALSE
  OBVIOUS
<1>3. PICK m \in Bad : \A k \in Bad : m <= k
  <2>1. Bad \subseteq Nat
    OBVIOUS
  <2>. HIDE DEF Bad
  <2>. QED
    BY <1>2, <2>1, Least
<1>4. m \in 0 .. n /\ ~\E g : Walks(g, m, A, a, step)
  BY <1>3
<1>5. CASE m = 0
  <2>1. [i \in 0 .. 0 |-> a] \in [0 .. 0 -> A] /\ [i \in 0 .. 0 |-> a][0] = a
    OBVIOUS
  <2>2. Walks([i \in 0 .. 0 |-> a], 0, A, a, step)
    BY <2>1
  <2>. QED
    BY <1>4, <1>5, <2>2
<1>6. CASE m # 0
  <2>1. m - 1 \in 0 .. n /\ ~(m <= m - 1) /\ m \in 1 .. n
    BY <1>4, <1>6
  <2>2. PICK g : Walks(g, m - 1, A, a, step)
    <3>1. m - 1 \notin Bad
      BY <1>3, <2>1
    <3>. QED
      BY <2>1, <3>1
  <2>3. step[g[m - 1]] \in A
    BY <2>1, <2>2
  <2>4. PICK h : h = [i \in 0 .. m |-> IF i = m THEN step[g[m - 1]] ELSE g[i]]
    OBVIOUS
  <2>5. h \in [0 .. m -> A] /\ h[0] = a
    <3>1. \A i \in 0 .. m : i # m => i \in 0 .. m - 1
      BY <1>4
    <3>2. 0 \in 0 .. m
      BY <1>4
    <3>. QED
      BY <1>6, <2>2, <2>3, <2>4, <3>1, <3>2
  <2>6. ASSUME NEW i \in 1 .. m PROVE h[i] = step[h[i - 1]]
    <3>1. i - 1 \in 0 .. m /\ i - 1 # m /\ i \in 0 .. m
      BY <2>1
    <3>2. h[i - 1] = g[i - 1]
      BY <2>4, <3>1
    <3>3. CASE i = m
      BY <2>4, <3>1, <3>2, <3>3
    <3>4. CASE i # m
      <4>1. i \in 1 .. m - 1
        BY <2>1, <3>4
      <4>2. g[i] = step[g[i - 1]] /\ h[i] = g[i]
        BY <2>2, <2>4, <3>1, <3>4, <4>1
      <4>. QED
        BY <3>2, <4>2
    <3>. QED
      BY <3>3, <3>4
  <2>. QED
    BY <1>4, <2>5, <2>6
<1>. QED
  BY <1>5, <1>6

-----------------------------------------------------------------------------
(* String descriptors.                                                     *)

Walked == [read : Nat, count : Nat, state : {"on", "end", "failed"}]
Text(n) == [1 .. n -> Bytes]
Begun == [read |-> 0, count |-> 0, state |-> "on"]

LEMMA Updated ==
  ASSUME NEW w \in Walked, NEW x \in Nat
  PROVE  /\ \A state \in {"on", "end", "failed"} :
              [w EXCEPT !.read = x, !.state = state] = [read |-> x, count |-> w.count, state |-> state]
         /\ [w EXCEPT !.read = x, !.count = w.count + 1]
              = [read |-> x, count |-> w.count + 1, state |-> w.state]
<1>1. PICK v : v = [w EXCEPT !.read = x]
  OBVIOUS
<1>2. v = [read |-> x, count |-> w.count, state |-> w.state]
  BY <1>1 DEF Walked
<1>3. ASSUME NEW state \in {"on", "end", "failed"}
      PROVE  [w EXCEPT !.read = x, !.state = state] = [read |-> x, count |-> w.count, state |-> state]
  <2>1. [v EXCEPT !.state = state] = [read |-> x, count |-> w.count, state |-> state]
    BY <1>2
  <2>. QED
    BY <1>1, <2>1, Zenon
<1>4. [w EXCEPT !.read = x, !.count = w.count + 1]
        = [read |-> x, count |-> w.count + 1, state |-> w.state]
  <2>1. [v EXCEPT !.count = w.count + 1] = [read |-> x, count |-> w.count + 1, state |-> w.state]
    BY <1>2
  <2>. QED
    BY <1>1, <2>1, Zenon
<1>. QED
  BY <1>3, <1>4

LEMMA TextLength == ASSUME NEW n \in Nat, NEW s \in Text(n) PROVE Len(s) = n
<1>1. s \in Seq(Bytes)
  BY SeqDef DEF Text
<1>2. DOMAIN s = 1 .. n /\ DOMAIN s = 1 .. Len(s) /\ Len(s) \in Nat
  BY <1>1, LenProperties DEF Text
<1>. QED
  BY <1>2

\* One character is read without going further than one byte behind the text, and
\* one that is written was there to be read.
LEMMA ConvertIs ==
  ASSUME NEW n \in Nat, NEW s \in Text(n), NEW w \in Walked
  PROVE  /\ Convert(s, w) \in Walked
         /\ w.read <= n =>
              /\ Convert(s, w).read <= n + 1 /\ w.read < Convert(s, w).read
              /\ Convert(s, w).count = w.count \/ (Convert(s, w).count = w.count + 1 /\ Convert(s, w).read <= n)
              /\ Convert(s, w).state = "on" => Convert(s, w).read <= n
         /\ w.read < n /\ s[w.read + 1] = "ascii" =>
              Convert(s, w) = [read |-> w.read + 1, count |-> w.count + 1, state |-> w.state]
<1>1. PICK i, size : i = w.read + 1 /\ size = IF i <= n THEN Size(s[i]) ELSE 0
  OBVIOUS
<1>2. Len(s) = n /\ i \in Nat /\ i > 0 /\ w.read \in Nat /\ w.count \in Nat
      /\ w.state \in {"on", "end", "failed"}
  BY <1>1, TextLength DEF Walked
<1>3. size \in {0, 1, 2, 3} /\ (i <= n => size = Size(s[i]))
  BY <1>1 DEF Size
<1>4. PICK r : r = Convert(s, w)
  OBVIOUS
<1>5. PICK surrogate : surrogate = (s[i] = "ed" /\ s[i + 1] # "lead2")
  OBVIOUS
<1>6. r = IF i > n THEN [w EXCEPT !.read = i, !.state = "end"]
          ELSE IF size = 0 THEN [w EXCEPT !.read = i, !.state = "failed"]
          ELSE IF size > 1 /\ ~Continues(s, i + 1) THEN [w EXCEPT !.read = i + 1, !.state = "failed"]
          ELSE IF size > 2 /\ (~Continues(s, i + 2) \/ surrogate)
               THEN [w EXCEPT !.read = i + 2, !.state = "failed"]
          ELSE [w EXCEPT !.read = i + size - 1, !.count = w.count + 1]
  BY <1>1, <1>2, <1>4, <1>5 DEF Convert
<1>7. r = IF i > n THEN [read |-> i, count |-> w.count, state |-> "end"]
          ELSE IF size = 0 THEN [read |-> i, count |-> w.count, state |-> "failed"]
          ELSE IF size > 1 /\ ~Continues(s, i + 1) THEN [read |-> i + 1, count |-> w.count, state |-> "failed"]
          ELSE IF size > 2 /\ (~Continues(s, i + 2) \/ surrogate)
               THEN [read |-> i + 2, count |-> w.count, state |-> "failed"]
          ELSE [read |-> i + size - 1, count |-> w.count + 1, state |-> w.state]
  <2>1. i \in Nat /\ i + 1 \in Nat /\ i + 2 \in Nat
    BY <1>2
  <2>2. size # 0 => i + size - 1 \in Nat
    BY <1>2, <1>3
  <2>3. /\ [w EXCEPT !.read = i, !.state = "end"] = [read |-> i, count |-> w.count, state |-> "end"]
        /\ [w EXCEPT !.read = i, !.state = "failed"] = [read |-> i, count |-> w.count, state |-> "failed"]
        /\ [w EXCEPT !.read = i + 1, !.state = "failed"] = [read |-> i + 1, count |-> w.count, state |-> "failed"]
        /\ [w EXCEPT !.read = i + 2, !.state = "failed"] = [read |-> i + 2, count |-> w.count, state |-> "failed"]
    BY <2>1, Updated
  <2>4. size # 0 => [w EXCEPT !.read = i + size - 1, !.count = w.count + 1]
                      = [read |-> i + size - 1, count |-> w.count + 1, state |-> w.state]
    BY <2>2, Updated
  <2>. QED
    BY <1>6, <2>3, <2>4, Zenon
<1>8. (Continues(s, i + 1) => i + 1 <= n) /\ (Continues(s, i + 2) => i + 2 <= n)
  BY <1>2 DEF Continues
<1>9. /\ r \in Walked
      /\ w.read <= n =>
           /\ r.read <= n + 1 /\ w.read < r.read
           /\ r.count = w.count \/ (r.count = w.count + 1 /\ r.read <= n)
           /\ r.state = "on" => r.read <= n
  <2>1. CASE i > n
    BY <1>1, <1>2, <1>7, <2>1 DEF Walked
  <2>2. CASE i <= n /\ size = 0
    BY <1>1, <1>2, <1>7, <2>2 DEF Walked
  <2>3. CASE i <= n /\ size # 0 /\ size > 1 /\ ~Continues(s, i + 1)
    <3>1. r = [read |-> i + 1, count |-> w.count, state |-> "failed"]
      BY <1>2, <1>7, <2>3
    <3>. QED
      BY <1>1, <1>2, <2>3, <3>1 DEF Walked
  <2>4. CASE i <= n /\ size > 2 /\ Continues(s, i + 1) /\ (~Continues(s, i + 2) \/ surrogate)
    <3>1. r = [read |-> i + 2, count |-> w.count, state |-> "failed"]
      BY <1>2, <1>3, <1>7, <2>4
    <3>. QED
      BY <1>1, <1>2, <1>8, <2>4, <3>1 DEF Walked
  <2>5. CASE /\ i <= n /\ size # 0 /\ (size > 1 => Continues(s, i + 1))
             /\ size > 2 => Continues(s, i + 2) /\ ~surrogate
    <3>1. r = [read |-> i + size - 1, count |-> w.count + 1, state |-> w.state]
      BY <1>2, <1>3, <1>7, <2>5
    <3>2. i + size - 1 \in Nat /\ i + size - 1 <= n /\ w.read < i + size - 1
      BY <1>1, <1>2, <1>3, <1>8, <2>5
    <3>3. r.read = i + size - 1 /\ r.count = w.count + 1 /\ r.state = w.state
      BY <3>1
    <3>4. r \in Walked
      BY <1>2, <3>1, <3>2 DEF Walked
    <3>. QED
      BY <1>2, <3>2, <3>3, <3>4
  <2>. QED
    BY <1>2, <1>3, <2>1, <2>2, <2>3, <2>4, <2>5
<1>10. ASSUME w.read < n, s[w.read + 1] = "ascii"
       PROVE  r = [read |-> w.read + 1, count |-> w.count + 1, state |-> w.state]
  <2>1. i <= n /\ size = 1
    BY <1>1, <1>2, <1>3, <1>10 DEF Size
  <2>2. r = [read |-> i + size - 1, count |-> w.count + 1, state |-> w.state]
    BY <1>2, <1>7, <2>1
  <2>. QED
    BY <1>1, <1>2, <2>1, <2>2
<1>. QED
  BY <1>4, <1>9, <1>10

\* What GetString walks through.
LEMMA GetStringIs ==
  ASSUME NEW n \in Nat, NEW s \in Text(n), NEW len, len = IF n > TextMax THEN TextMax ELSE n
  PROVE  \E walk : /\ GetString(s) = walk[len] /\ walk[0] = Begun
                   /\ \A k \in 1 .. len :
                        walk[k] = IF walk[k - 1].state = "on" THEN Convert(s, walk[k - 1]) ELSE walk[k - 1]
<1> DEFINE is(g) == g = [k \in 0 .. len |->
                           IF k = 0 THEN [read |-> 0, count |-> 0, state |-> "on"]
                           ELSE IF g[k - 1].state = "on" THEN Convert(s, g[k - 1]) ELSE g[k - 1]]
<1>1. len \in Nat /\ Len(s) = n /\ len = IF Len(s) > TextMax THEN TextMax ELSE Len(s)
  BY TextLength, GadgetAssumption
<1>2. PICK step : step = [w \in Walked |-> IF w.state = "on" THEN Convert(s, w) ELSE w]
  OBVIOUS
<1>3. Steps(Walked, Begun, step)
  BY <1>2, ConvertIs DEF Steps, Walked, Begun
<1>4. PICK g : Walks(g, len, Walked, Begun, step)
  BY <1>1, <1>3, WalkExists
<1>5. is(g)
  <2>1. ASSUME NEW k \in 1 .. len
        PROVE  g[k] = IF g[k - 1].state = "on" THEN Convert(s, g[k - 1]) ELSE g[k - 1]
    <3>1. k - 1 \in 0 .. len
      BY <1>1
    <3>2. g[k - 1] \in Walked /\ g[k] = step[g[k - 1]]
      BY <1>4, <3>1 DEF Walks
    <3>. QED
      BY <1>2, <3>2
  <2>2. g[0] = [read |-> 0, count |-> 0, state |-> "on"]
    BY <1>4 DEF Walks, Begun
  <2>3. ASSUME NEW k \in 0 .. len
        PROVE  g[k] = IF k = 0 THEN [read |-> 0, count |-> 0, state |-> "on"]
                      ELSE IF g[k - 1].state = "on" THEN Convert(s, g[k - 1]) ELSE g[k - 1]
    <3>1. k = 0 \/ k \in 1 .. len
      BY <1>1
    <3>. QED
      BY <2>1, <2>2, <3>1
  <2>4. g = [k \in 0 .. len |-> g[k]]
    BY <1>4 DEF Walks
  <2>. QED
    BY <2>3, <2>4
<1>6. PICK walk : walk = CHOOSE h : is(h)
  OBVIOUS
<1>7. is(walk)
  <2>. HIDE DEF is
  <2>. QED
    BY <1>5, <1>6
<1>8. GetString(s) = walk[len]
  BY <1>1, <1>6 DEF GetString
<1>9. walk[0] = Begun
  BY <1>1, <1>7 DEF Begun
<1>10. ASSUME NEW k \in 1 .. len
       PROVE  walk[k] = IF walk[k - 1].state = "on" THEN Convert(s, walk[k - 1]) ELSE walk[k - 1]
  <2>1. k \in 0 .. len /\ k # 0
    BY <1>1
  <2>. QED
    BY <1>7, <2>1
<1>. QED
  BY <1>8, <1>9, <1>10

\* Reading stays within one byte of the text, and no more characters are written
\* than steps were made or bytes were there.
InBounds(w, n, k) ==
  /\ w \in Walked /\ w.read <= n + 1 /\ w.count <= k /\ w.count <= n /\ w.count <= w.read
  /\ w.state = "on" => w.read <= n

LEMMA StepInBounds ==
  ASSUME NEW n \in Nat, NEW s \in Text(n), NEW k \in Nat, NEW w, InBounds(w, n, k)
  PROVE  InBounds(IF w.state = "on" THEN Convert(s, w) ELSE w, n, k + 1)
<1>1. w.read \in Nat /\ w.count \in Nat
  BY DEF InBounds, Walked
<1>2. CASE w.state # "on"
  BY <1>1, <1>2 DEF InBounds
<1>3. CASE w.state = "on"
  <2>1. PICK r : r = Convert(s, w)
    OBVIOUS
  <2>2. /\ r \in Walked /\ r.read <= n + 1 /\ w.read < r.read
        /\ r.count = w.count \/ (r.count = w.count + 1 /\ r.read <= n)
        /\ r.state = "on" => r.read <= n
    BY <1>3, <2>1, ConvertIs DEF InBounds
  <2>3. r.read \in Nat /\ r.count \in Nat
    BY <2>2 DEF Walked
  <2>. QED
    BY <1>1, <1>3, <2>1, <2>2, <2>3 DEF InBounds
<1>. QED
  BY <1>2, <1>3

LEMMA StringFits ==
  ASSUME NEW n \in Nat, NEW s \in Text(n)
  PROVE  /\ GetString(s).read <= n + 1 /\ GetString(s).count <= TextMax /\ GetString(s).count <= n
         /\ (\A i \in 1 .. n : s[i] = "ascii") =>
              GetString(s).state # "failed" /\ GetString(s).count = IF n > TextMax THEN TextMax ELSE n
<1>1. PICK len \in Nat : len = IF n > TextMax THEN TextMax ELSE n
  BY GadgetAssumption
<1>2. PICK walk : /\ GetString(s) = walk[len] /\ walk[0] = Begun
                  /\ \A k \in 1 .. len :
                       walk[k] = IF walk[k - 1].state = "on" THEN Convert(s, walk[k - 1]) ELSE walk[k - 1]
  BY <1>1, GetStringIs
<1>3. \A k \in 0 .. len : InBounds(walk[k], n, k)
  <2> DEFINE Bad == {k \in 0 .. len : ~InBounds(walk[k], n, k)}
  <2> SUFFICES ASSUME Bad # {} PROVE FALSE
    OBVIOUS
  <2>1. PICK k \in Bad : \A j \in Bad : k <= j
    <3>1. Bad \subseteq Nat
      OBVIOUS
    <3>. HIDE DEF Bad
    <3>. QED
      BY <3>1, Least
  <2>2. k \in 0 .. len /\ ~InBounds(walk[k], n, k)
    BY <2>1
  <2>3. k # 0
    <3>1. InBounds(Begun, n, 0)
      BY DEF InBounds, Begun, Walked
    <3>. QED
      BY <1>2, <2>2, <3>1
  <2>4. k \in 1 .. len /\ k - 1 \in Nat /\ k - 1 \in 0 .. len /\ ~(k <= k - 1) /\ (k - 1) + 1 = k
    BY <1>1, <2>2, <2>3
  <2>5. InBounds(walk[k - 1], n, k - 1)
    BY <2>1, <2>4
  <2>6. InBounds(IF walk[k - 1].state = "on" THEN Convert(s, walk[k - 1]) ELSE walk[k - 1], n, k)
    BY <2>4, <2>5, StepInBounds
  <2>. QED
    BY <1>2, <2>2, <2>4, <2>6
<1>4. GetString(s).read <= n + 1 /\ GetString(s).count <= TextMax /\ GetString(s).count <= n
  <2>1. InBounds(GetString(s), n, len)
    BY <1>1, <1>2, <1>3
  <2>2. GetString(s).count \in Nat
    BY <2>1 DEF InBounds, Walked
  <2>. QED
    BY <1>1, <2>1, <2>2, GadgetAssumption DEF InBounds
<1>5. ASSUME \A i \in 1 .. n : s[i] = "ascii"
      PROVE  \A k \in 0 .. len : walk[k] = [read |-> k, count |-> k, state |-> "on"]
  <2> DEFINE Bad == {k \in 0 .. len : walk[k] # [read |-> k, count |-> k, state |-> "on"]}
  <2> SUFFICES ASSUME Bad # {} PROVE FALSE
    OBVIOUS
  <2>1. PICK k \in Bad : \A j \in Bad : k <= j
    <3>1. Bad \subseteq Nat
      OBVIOUS
    <3>. HIDE DEF Bad
    <3>. QED
      BY <3>1, Least
  <2>2. k \in 0 .. len /\ walk[k] # [read |-> k, count |-> k, state |-> "on"]
    BY <2>1
  <2>3. k # 0
    BY <1>2, <2>2 DEF Begun
  <2>4. k \in 1 .. len /\ k - 1 \in Nat /\ k - 1 \in 0 .. len /\ ~(k <= k - 1) /\ k - 1 < n /\ k \in 1 .. n
        /\ (k - 1) + 1 = k
    BY <1>1, <2>2, <2>3, GadgetAssumption
  <2>5. PICK w : w = walk[k - 1]
    OBVIOUS
  <2>6. w = [read |-> k - 1, count |-> k - 1, state |-> "on"]
    BY <2>1, <2>4, <2>5
  <2>7. w \in Walked /\ w.read = k - 1 /\ w.count = k - 1 /\ w.state = "on"
    BY <2>4, <2>6 DEF Walked
  <2>8. Convert(s, w) = [read |-> (k - 1) + 1, count |-> (k - 1) + 1, state |-> "on"]
    <3>1. w.read < n /\ s[w.read + 1] = "ascii"
      BY <1>5, <2>4, <2>7
    <3>2. Convert(s, w) = [read |-> w.read + 1, count |-> w.count + 1, state |-> w.state]
      BY <2>7, <3>1, ConvertIs
    <3>. QED
      BY <2>7, <3>2
  <2>9. walk[k] = Convert(s, w)
    BY <1>2, <2>4, <2>5, <2>7
  <2>. QED
    BY <2>2, <2>4, <2>8, <2>9
<1>6. ASSUME \A i \in 1 .. n : s[i] = "ascii"
      PROVE  GetString(s).state # "failed" /\ GetString(s).count = IF n > TextMax THEN TextMax ELSE n
  <2>1. len \in 0 .. len
    BY <1>1
  <2>2. GetString(s) = [read |-> len, count |-> len, state |-> "on"]
    BY <1>2, <1>5, <1>6, <2>1
  <2>. QED
    BY <1>1, <2>2
<1>. QED
  BY <1>4, <1>6

\* Whatever bytes the command line gave for a string, of whatever length, its
\* descriptor is read and written within bounds, and a string of single bytes is
\* given whole up to the room there is (usb_gadget_get_string, utf8_to_utf16le).
THEOREM StringsStayInBounds == Spec => []StringInBounds
<1>1. StringsFit
  <2>1. ASSUME NEW n \in 0 .. (TextMax + 2), NEW s \in [1 .. n -> Bytes]
        PROVE  LET w == GetString(s)
               IN /\ w.read <= n + 1 /\ w.count <= TextMax /\ w.count <= n
                  /\ (\A i \in 1 .. n : s[i] = "ascii") =>
                       w.state # "failed" /\ w.count = IF n > TextMax THEN TextMax ELSE n
    <3>1. n \in Nat /\ s \in Text(n)
      BY GadgetAssumption DEF Text
    <3>. QED
      BY <3>1, StringFits
  <2>. QED
    BY <2>1 DEF StringsFit
<1>2. IInv => StringInBounds
  BY <1>1 DEF StringInBounds
<1>. QED
  BY <1>2, Invariance, PTL

-----------------------------------------------------------------------------
(* The reader that is chosen.                                              *)

Seen == {"card", "empty", "failed", "misread"}

\* The number of readers that were looked at.
LEMMA CountIs ==
  ASSUME NEW looks \in Looked
  PROVE  \E n \in 0 .. 2 : looks \in [0 .. n - 1 -> Seen] /\ Count(looks) = n
<1>1. PICK n \in 0 .. 2 : looks \in [0 .. n - 1 -> Seen]
  BY DEF Looked, Seen
<1>2. DOMAIN looks = 0 .. n - 1
  BY <1>1
<1>3. ASSUME NEW m \in 0 .. 2, DOMAIN looks = 0 .. m - 1 PROVE m = n
  <2>1. 0 .. m - 1 = 0 .. n - 1
    BY <1>2, <1>3
  <2>2. \A i \in 0 .. 2 : i <= m - 1 <=> i <= n - 1
    <3>1. \A i \in 0 .. 2 : (i \in 0 .. m - 1 <=> i <= m - 1) /\ (i \in 0 .. n - 1 <=> i <= n - 1)
      OBVIOUS
    <3>. QED
      BY <2>1, <3>1
  <2>3. (0 <= m - 1 <=> 0 <= n - 1) /\ (1 <= m - 1 <=> 1 <= n - 1)
    BY <2>2
  <2>. QED
    BY <2>3
<1>4. Count(looks) = n
  BY <1>2, <1>3 DEF Count
<1>. QED
  BY <1>1, <1>4

\* First is the least of the readers in question.
LEMMA FirstIs ==
  ASSUME NEW n \in 0 .. 2, NEW set, set \subseteq 0 .. n - 1, set # {}
  PROVE  First(set) \in set /\ \A j \in set : First(set) <= j
<1>1. set \subseteq Nat
  OBVIOUS
<1>2. \E i \in set : \A j \in set : i <= j
  BY <1>1, Least
<1>. QED
  BY <1>2 DEF First

\* Whichever readers were looked at, the one chosen is right: of the readers
\* there are, and the one asked for.
LEMMA ChosenIsThere ==
  ASSUME NEW n \in 0 .. 2, NEW looks \in [0 .. n - 1 -> Seen], NEW wanted \in Wanted
  PROVE  /\ \/ Initialize(wanted, looks, n) \in 0 .. n - 1
            \/ (Initialize(wanted, looks, n) = NoReader /\ (n = 0 \/ wanted >= n))
         /\ wanted \in 0 .. n - 1 => Initialize(wanted, looks, n) = wanted
<1>1. PICK found : found = {i \in DOMAIN looks : looks[i] \in {"card", "misread"}}
  OBVIOUS
<1>2. PICK first : first = First(found)
  OBVIOUS
<1>3. found \subseteq 0 .. n - 1
  BY <1>1
<1>4. found # {} => first \in 0 .. n - 1
  BY <1>2, <1>3, FirstIs
<1>5. PICK skipped : skipped = IF wanted < 0 /\ found # {} THEN first ELSE wanted
  OBVIOUS
<1>6. PICK chosen : chosen = IF wanted < 0 /\ Unsigned(skipped) >= n THEN 0 ELSE skipped
  OBVIOUS
<1>7. Initialize(wanted, looks, n) = IF n = 0 \/ Unsigned(chosen) >= n THEN NoReader ELSE chosen
  BY <1>1, <1>2, <1>5, <1>6 DEF Initialize
<1>8. wanted \in -1 .. 2
  BY DEF Wanted
<1>9. Unsigned(-1) \in Nat /\ Unsigned(-1) >= 2 /\ \A i \in Nat : Unsigned(i) = i
  BY GadgetAssumption DEF Unsigned
<1>10. CASE wanted < 0
  <2>1. skipped = -1 \/ skipped \in 0 .. n - 1
    BY <1>4, <1>5, <1>8, <1>10
  <2>2. chosen = 0 \/ (chosen = skipped /\ skipped \in 0 .. n - 1)
    BY <1>6, <1>9, <1>10, <2>1
  <2>3. Unsigned(chosen) = chosen /\ (n # 0 => chosen \in 0 .. n - 1)
    BY <1>9, <2>2
  <2>. QED
    BY <1>7, <1>10, <2>3
<1>11. CASE wanted >= 0
  <2>1. chosen = wanted /\ Unsigned(chosen) = wanted
    BY <1>5, <1>6, <1>8, <1>9, <1>11
  <2>. QED
    BY <1>7, <1>8, <1>11, <2>1
<1>. QED
  BY <1>8, <1>10, <1>11

\* Without a wish it is the first reader with a card, or the first of all.
LEMMA ChosenIsBest ==
  ASSUME NEW n \in 1 .. 2, NEW looks \in [0 .. n - 1 -> Seen], NEW wanted \in Wanted, wanted < 0,
         \A i \in DOMAIN looks : looks[i] # "misread",
         NEW cards, cards = {i \in DOMAIN looks : looks[i] = "card"}
  PROVE  Initialize(wanted, looks, n) = IF cards # {} THEN First(cards) ELSE 0
<1>1. {i \in DOMAIN looks : looks[i] \in {"card", "misread"}} = cards
  OBVIOUS
<1>2. cards \subseteq 0 .. n - 1 /\ n \in 0 .. 2
  OBVIOUS
<1>3. PICK first : first = First(cards)
  OBVIOUS
<1>4. cards # {} => first \in 0 .. n - 1
  BY <1>2, <1>3, FirstIs
<1>5. PICK skipped : skipped = IF wanted < 0 /\ cards # {} THEN first ELSE wanted
  OBVIOUS
<1>6. PICK chosen : chosen = IF wanted < 0 /\ Unsigned(skipped) >= n THEN 0 ELSE skipped
  OBVIOUS
<1>7. Initialize(wanted, looks, n) = IF n = 0 \/ Unsigned(chosen) >= n THEN NoReader ELSE chosen
  BY <1>1, <1>3, <1>5, <1>6 DEF Initialize
<1>8. wanted = -1
  BY DEF Wanted
<1>9. Unsigned(-1) \in Nat /\ Unsigned(-1) >= 2 /\ \A i \in Nat : Unsigned(i) = i
  BY GadgetAssumption DEF Unsigned
<1>10. CASE cards # {}
  <2>1. skipped = first /\ Unsigned(first) = first /\ first < n
    BY <1>4, <1>5, <1>8, <1>9, <1>10
  <2>. QED
    BY <1>3, <1>4, <1>6, <1>7, <1>10, <2>1
<1>11. CASE cards = {}
  <2>1. skipped = -1 /\ chosen = 0 /\ Unsigned(chosen) = 0
    BY <1>5, <1>6, <1>8, <1>9, <1>11
  <2>. QED
    BY <1>7, <1>11, <2>1
<1>. QED
  BY <1>10, <1>11

\* A gadget that runs has the reader that was asked for, or without such a wish
\* the first with a card, and the number -1 never gets through (initialize).
THEOREM RightReaderIsChosen == Spec => []ReaderIsChosen
<1>1. ReadersAreRight
  <2>1. SUFFICES ASSUME NEW looks \in Looked, NEW wanted \in Wanted, NEW n, n = Count(looks),
                        NEW chosen, chosen = Initialize(wanted, looks, n),
                        NEW cards, cards = {i \in DOMAIN looks : looks[i] = "card"}
                 PROVE  /\ chosen \in 0 .. n - 1 \/ (chosen = NoReader /\ (n = 0 \/ wanted >= n))
                        /\ wanted \in 0 .. n - 1 => chosen = wanted
                        /\ n > 0 /\ wanted < 0 /\ (\A i \in DOMAIN looks : looks[i] # "misread") =>
                             chosen = IF cards # {} THEN First(cards) ELSE 0
    BY DEF ReadersAreRight
  <2>2. n \in 0 .. 2 /\ looks \in [0 .. n - 1 -> Seen]
    BY <2>1, CountIs
  <2>3. /\ chosen \in 0 .. n - 1 \/ (chosen = NoReader /\ (n = 0 \/ wanted >= n))
        /\ wanted \in 0 .. n - 1 => chosen = wanted
    BY <2>1, <2>2, ChosenIsThere
  <2>4. ASSUME n > 0, wanted < 0, \A i \in DOMAIN looks : looks[i] # "misread"
        PROVE  chosen = IF cards # {} THEN First(cards) ELSE 0
    <3>1. n \in 1 .. 2
      BY <2>2, <2>4
    <3>. QED
      BY <2>1, <2>2, <2>4, <3>1, ChosenIsBest, ZenonT(60)
  <2>. QED
    BY <2>3, <2>4
<1>2. IInv => ReaderIsChosen
  BY <1>1 DEF ReaderIsChosen
<1>. QED
  BY <1>2, Invariance, PTL
=============================================================================
