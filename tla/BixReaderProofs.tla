-------------------------- MODULE BixReaderProofs --------------------------
(***************************************************************************)
(* Proofs about BixReader, for any finite number of requests, any kinds of *)
(* readers and any bounds: no request is completed twice, and whoever waits *)
(* for a card or for its absence is told the truth; and the protocols      *)
(* offered for a card are those its ATR names, of whatever length it is.   *)
(*                                                                         *)
(* IInv tracks what the driver and the framework know of a request.        *)
(* ToldInv, over it, says that a card which is there or about to be told   *)
(* of (CardDue), and an absence likewise (NoCardDue), are due to everybody *)
(* who asks, and that a handler past its check knows what the check saw.   *)
(* What a recursive function computes is proved from the least number at   *)
(* which it would not (Least).                                             *)
(***************************************************************************)
EXTENDS BixReader, TLAPS, FiniteSetTheorems, WellFoundedInduction

States == {"new", "held", "cancelable", "done"}

Shape ==
  /\ wdf \in [Requests -> States]
  /\ pc = [t \in Threads |-> pc[t]]
  /\ times \in [Requests -> Nat]

\* What the driver and the framework know of a request: it is counted when it is
\* completed, its handler runs while the driver holds it, and a cancellation that
\* was asked for is of a request that is not completed.
Tracked(r) ==
  /\ times[r] = IF wdf[r] = "done" THEN 1 ELSE 0
  /\ pc[r] # "none" => wdf[r] = "held"
  /\ r \in cancelled => wdf[r] \in {"held", "cancelable"}

IInv == Shape /\ cancelled \subseteq Requests /\ \A r \in Requests : Tracked(r)

-----------------------------------------------------------------------------
(* A step does one of four things to a request.                            *)

Same(r)  == wdf'[r] = wdf[r] /\ times'[r] = times[r]

LeavesAlone(r) ==
  /\ Same(r) /\ (pc'[r] # "none" => pc[r] # "none")
  /\ r \in cancelled' => r \in cancelled \/ wdf[r] \in {"held", "cancelable"}
Completes(r) ==
  /\ wdf[r] # "done" /\ wdf'[r] = "done" /\ times'[r] = times[r] + 1
  /\ pc'[r] = "none" /\ r \notin cancelled'
TakesUp(r) ==
  /\ wdf[r] = "new" /\ wdf'[r] = "held" /\ times'[r] = times[r]
Parks(r) ==
  /\ wdf[r] = "held" /\ wdf'[r] = "cancelable" /\ times'[r] = times[r]
  /\ pc'[r] = "none"

Progress(r) == LeavesAlone(r) \/ Completes(r) \/ TakesUp(r) \/ Parks(r)

LEMMA ProgressInv ==
  ASSUME IInv, Shape', cancelled' \subseteq Requests, \A r \in Requests : Progress(r)
  PROVE  IInv'
<1> SUFFICES ASSUME NEW r \in Requests PROVE Tracked(r)'
  BY DEF IInv
<1>1. Tracked(r) /\ wdf[r] \in States /\ times[r] \in Nat
  BY DEF IInv, Shape
<1>2. CASE LeavesAlone(r)
  BY <1>1, <1>2 DEF LeavesAlone, Same, Tracked
<1>3. CASE Completes(r)
  BY <1>1, <1>3 DEF Completes, Tracked
<1>4. CASE TakesUp(r)
  BY <1>1, <1>4 DEF TakesUp, Tracked
<1>5. CASE Parks(r)
  BY <1>1, <1>5 DEF Parks, Tracked
<1> QED
  BY <1>2, <1>3, <1>4, <1>5 DEF Progress

-----------------------------------------------------------------------------
(* The kinds of steps.                                                     *)

\* A thread moves on.
LEMMA MoveInv ==
  ASSUME IInv, NEW t \in Threads, NEW where, pc[t] # "none" \/ t = Server,
         Goto(t, where), UNCHANGED <<reqVars, cancelled>>
  PROVE  IInv'
<1> USE DEF Goto, reqVars
<1>1. Shape' /\ cancelled' \subseteq Requests
  BY DEF IInv, Shape
<1>2. ASSUME NEW r \in Requests PROVE Progress(r)
  <2>1. r # Server /\ r \in Threads
    BY BixAssumption DEF Threads
  <2>2. pc'[r] # "none" => pc[r] # "none"
    BY <2>1 DEF IInv, Shape
  <2> QED
    BY <2>2 DEF Progress, LeavesAlone, Same
<1> QED
  BY <1>1, <1>2, ProgressInv

\* Requests that are not completed, and whose handler does not run, are completed;
\* a thread may move on.
LEMMA CompleteInv ==
  ASSUME IInv, NEW S, NEW status, Complete(S, status),
         Shape', cancelled' \subseteq cancelled,
         \A r \in S \cap Requests : wdf[r] # "done" /\ pc'[r] = "none" /\ r \notin cancelled',
         \A r \in Requests : pc'[r] # "none" => pc[r] # "none"
  PROVE  IInv'
<1>1. cancelled' \subseteq Requests
  BY DEF IInv
<1>2. ASSUME NEW r \in Requests PROVE Progress(r)
  <2>1. CASE r \in S
    BY <2>1 DEF Complete, Progress, Completes
  <2>2. CASE r \notin S
    BY <2>2 DEF Complete, Progress, LeavesAlone, Same
  <2> QED
    BY <2>1, <2>2
<1> QED
  BY <1>1, <1>2, ProgressInv

LEMMA CompleteShape ==
  ASSUME IInv, NEW S, NEW status, Complete(S, status)
  PROVE  wdf' \in [Requests -> States] /\ times' \in [Requests -> Nat]
BY DEF IInv, Shape, Complete, States

\* What was waiting in a list is completed by a thread, unless it was cancelled.
LEMMA TellInv ==
  ASSUME IInv, NEW S, NEW status, Complete(Owned(S), status),
         NEW t \in Threads, NEW where, pc[t] # "none" \/ t = Server, Goto(t, where),
         UNCHANGED cancelled
  PROVE  IInv'
<1> USE DEF Goto
<1>1. Shape'
  BY CompleteShape DEF IInv, Shape
<1>2. ASSUME NEW r \in Owned(S) \cap Requests
      PROVE  wdf[r] # "done" /\ pc'[r] = "none" /\ r \notin cancelled'
  <2>1. wdf[r] = "cancelable" /\ r \notin cancelled /\ r \in Requests
    BY DEF Owned
  <2>2. pc[r] = "none" /\ r # Server /\ r \in Threads
    BY <2>1, BixAssumption DEF IInv, Tracked, Threads
  <2> QED
    BY <2>1, <2>2 DEF IInv, Shape
<1>3. ASSUME NEW r \in Requests PROVE pc'[r] # "none" => pc[r] # "none"
  BY BixAssumption DEF IInv, Shape, Threads
<1> QED
  BY <1>1, <1>2, <1>3, CompleteInv

\* The framework completes what was outstanding when the host process ends.
LEMMA CrashInv == ASSUME IInv, Crash PROVE IInv'
<1>1. cancelled' = {} /\ pc' = [t \in Threads |-> "none"] /\ Complete(Outstanding, "failed")
  BY DEF Crash
<1>2. Shape'
  <2>1. pc' = [t \in Threads |-> pc'[t]]
    BY <1>1
  <2> QED
    BY <1>1, <2>1, CompleteShape DEF Shape
<1>3. Outstanding \subseteq Requests /\ \A r \in Outstanding : wdf[r] # "done"
  BY DEF Outstanding
<1>4. \A r \in Requests : pc'[r] = "none"
  BY DEF Crash, Threads
<1> QED
  BY <1>1, <1>2, <1>3, <1>4, CompleteInv

LEMMA StillInv ==
  ASSUME IInv, UNCHANGED <<wdf, times, pc>>, cancelled' \subseteq cancelled \cup Outstanding
  PROVE  IInv'
<1>1. Shape' /\ cancelled' \subseteq Requests
  BY DEF IInv, Shape, Outstanding
<1>2. ASSUME NEW r \in Requests PROVE Progress(r)
  BY DEF Progress, LeavesAlone, Same, Outstanding
<1> QED
  BY <1>1, <1>2, ProgressInv

-----------------------------------------------------------------------------
(* The actions.                                                            *)

LEMMA ThreadInv == ASSUME IInv, NEW t \in Threads, ThreadStep(t) PROVE IInv'
<1>0. \A where : At(t, where) => pc[t] = where
  BY DEF At
<1>1. CASE CheckATR(t)
  BY <1>0, <1>1, MoveInv DEF CheckATR
<1>2. CASE SignalInsertion(t)
  BY <1>0, <1>2, MoveInv DEF SignalInsertion
<1>3. CASE AskATR(t)
  BY <1>0, <1>3, MoveInv DEF AskATR
<1>4. CASE TellPresent(t)
  BY <1>0, <1>4, TellInv DEF TellPresent
<1>5. CASE SignalRemoval(t)
  BY <1>0, <1>5, MoveInv DEF SignalRemoval
<1>6. CASE TellAbsent(t)
  BY <1>0, <1>6, TellInv DEF TellAbsent
<1>7. CASE GiveUp(t)
  BY <1>0, <1>7, TellInv DEF GiveUp
<1>8. CASE TakesStale(t)
  BY <1>8, CrashInv DEF TakesStale
<1> QED
  BY <1>1, <1>2, <1>3, <1>4, <1>5, <1>6, <1>7, <1>8 DEF ThreadStep

LEMMA ServerInv == ASSUME IInv, ServerStep PROVE IInv'
<1>0. Server \in Threads
  BY DEF Threads
<1>1. CASE ServerStarts
  BY <1>0, <1>1, MoveInv DEF ServerStarts
<1>2. CASE ServerLoops
  BY <1>0, <1>2, MoveInv DEF ServerLoops
<1>3. CASE ServerBreaks
  BY <1>0, <1>3, MoveInv DEF ServerBreaks
<1>4. CASE TcpIpAccepts
  BY <1>0, <1>4, MoveInv DEF TcpIpAccepts
<1>5. CASE PipesConnect
  BY <1>0, <1>5, MoveInv DEF PipesConnect
<1>6. CASE ServerGreets
  BY <1>0, <1>6, MoveInv DEF ServerGreets
<1>7. CASE ServerHears
  <2>1. Complete(Owned(Awaiting), "success") /\ pc' = pc /\ cancelled' = cancelled
    BY <1>7 DEF ServerHears
  <2>2. Goto(Server, pc[Server])
    BY <1>0, <2>1 DEF IInv, Shape, Goto
  <2> QED
    BY <1>0, <2>1, <2>2, TellInv
<1>8. CASE HearsStale
  BY <1>8, CrashInv DEF HearsStale
<1>9. CASE ServerLoses
  BY <1>0, <1>9, MoveInv DEF ServerLoses
<1> QED
  BY <1>1, <1>2, <1>3, <1>4, <1>5, <1>6, <1>7, <1>8, <1>9 DEF ServerStep

\* The handler of a request completes it, or leaves it waiting.
LEMMA RequestInv == ASSUME IInv, NEW r \in Requests, RequestStep(r) PROVE IInv'
<1>0. /\ r \in Threads /\ Shape /\ cancelled \subseteq Requests
      /\ \A where : At(r, where) => pc[r] = where
      /\ pc[r] # "none" => wdf[r] = "held"
  BY DEF At, IInv, Tracked, Threads
<1>1. CASE Query(r)
  BY <1>0, <1>1, MoveInv DEF Query
<1>2. CASE Park(r)
  <2>1. /\ wdf' = [wdf EXCEPT ![r] = "cancelable"] /\ pc' = [pc EXCEPT ![r] = "none"]
        /\ UNCHANGED <<times, cancelled>> /\ wdf[r] = "held"
    BY <1>0, <1>2 DEF Park, Goto
  <2>2. Shape'
    BY <1>0, <2>1 DEF Shape, States
  <2>3. ASSUME NEW q \in Requests PROVE Progress(q)
    <3>1. CASE q = r
      BY <1>0, <2>1, <3>1 DEF Progress, Parks, Shape
    <3>2. CASE q # r
      BY <1>0, <2>1, <3>2 DEF Progress, LeavesAlone, Same, Shape, Threads
    <3> QED
      BY <3>1, <3>2
  <2> QED
    BY <1>0, <2>1, <2>2, <2>3, ProgressInv
<1>3. CASE Answer(r)
  <2>1. PICK status \in {"success", "failed"} :
          /\ Complete({r}, status) /\ pc' = [pc EXCEPT ![r] = "none"]
          /\ cancelled' = cancelled \ {r} /\ wdf[r] = "held"
    BY <1>0, <1>3 DEF Answer, Goto
  <2>2. Shape'
    BY <1>0, <2>1, CompleteShape DEF Shape
  <2>3. pc'[r] = "none" /\ \A q \in Requests : pc'[q] # "none" => pc[q] # "none"
    BY <1>0, <2>1 DEF Shape, Threads
  <2> QED
    BY <2>1, <2>2, <2>3, CompleteInv
<1> QED
  BY <1>1, <1>2, <1>3 DEF RequestStep

LEMMA HeldInv ==
  ASSUME IInv, NEW r \in Requests, wdf[r] = "new", Held(r), UNCHANGED cancelled,
         NEW where, Goto(r, where)
  PROVE  IInv'
<1>1. /\ wdf' = [wdf EXCEPT ![r] = "held"] /\ times' = times
      /\ pc' = [pc EXCEPT ![r] = where] /\ r \in Threads /\ Shape
  BY DEF Held, Goto, Threads, IInv
<1>2. Shape'
  BY <1>1 DEF Shape, States
<1>3. ASSUME NEW q \in Requests PROVE Progress(q)
  <2>1. CASE q = r
    BY <1>1, <2>1 DEF Progress, TakesUp, Shape
  <2>2. CASE q # r
    BY <1>1, <2>2 DEF Progress, LeavesAlone, Same, Shape, Threads
  <2> QED
    BY <2>1, <2>2
<1> QED
  BY <1>2, <1>3, ProgressInv DEF IInv

LEMMA AtOnceInv ==
  ASSUME IInv, NEW r \in Requests, wdf[r] = "new", NEW status, Complete({r}, status),
         UNCHANGED <<pc, cancelled>>
  PROVE  IInv'
<1>1. pc[r] = "none" /\ r \notin cancelled
  BY DEF IInv, Tracked
<1>2. Shape'
  BY CompleteShape DEF IInv, Shape
<1> QED
  BY <1>1, <1>2, CompleteInv

LEMMA ArrivalInv ==
  ASSUME IInv, NEW r \in Requests, AsksPresence(r) \/ CommandArrives(r) \/ NoReader(r)
  PROVE  IInv'
<1>1. CASE AsksPresence(r)
  <2>1. wdf[r] = "new" /\ Held(r) /\ UNCHANGED cancelled /\ Goto(r, "check")
    BY <1>1 DEF AsksPresence, Arrives
  <2> QED
    BY <2>1, HeldInv
<1>2. ASSUME Replied(r) PROVE IInv'
  BY <1>2, AtOnceInv DEF Replied, Arrives
<1>3. ASSUME NEW k, Exchanges(r, k) PROVE IInv'
  <2>1. wdf[r] = "new" /\ Held(r) /\ UNCHANGED cancelled /\ Goto(r, "query")
    BY <1>3 DEF Exchanges, Arrives
  <2> QED
    BY <2>1, HeldInv
<1>4. CASE CommandArrives(r)
  <2>1. CASE IoSmartCardTransmit(r)
    BY <1>3, <2>1, AtOnceInv DEF IoSmartCardTransmit, Arrives
  <2>2. CASE IoSmartCardGetState(r) \/ IoSmartCardSetAttribute(r)
    BY <1>2, <2>2 DEF IoSmartCardGetState, IoSmartCardSetAttribute
  <2>3. CASE IoSmartCardGetAttribute(r) \/ IoSmartCardPower(r) \/ IoSmartCardSetProtocol(r)
    BY <1>2, <1>3, <2>3 DEF IoSmartCardGetAttribute, IoSmartCardPower, IoSmartCardSetProtocol
  <2> QED
    BY <1>4, <2>1, <2>2, <2>3 DEF CommandArrives
<1>5. CASE NoReader(r)
  BY <1>5, AtOnceInv DEF NoReader, Arrives
<1> QED
  BY <1>1, <1>4, <1>5

LEMMA CancelInv == ASSUME IInv, NEW r \in Requests, Cancel(r) \/ CancelCallback(r) PROVE IInv'
<1>1. CASE Cancel(r)
  BY <1>1, StillInv DEF Cancel, Asking, reqVars
<1>2. CASE CancelCallback(r)
  <2>1. /\ Complete({r}, "cancelled") /\ pc' = pc /\ cancelled' = cancelled \ {r}
        /\ wdf[r] = "cancelable" /\ pc[r] = "none"
    BY <1>2 DEF CancelCallback, IInv, Tracked
  <2>2. Shape'
    BY <2>1, CompleteShape DEF IInv, Shape
  <2> QED
    BY <2>1, <2>2, CompleteInv
<1> QED
  BY <1>1, <1>2

LEMMA DeviceInv ==
  ASSUME IInv, D0Entry \/ ShutdownBegins \/ ShutdownStep \/ UsesDeleted
  PROVE  IInv'
<1>0. Server \in Threads /\ pc = [pc EXCEPT ![Server] = pc[Server]]
  BY DEF Threads, IInv, Shape
<1>1. CASE D0Entry
  BY <1>0, <1>1, MoveInv DEF D0Entry
<1>2. CASE ShutdownBegins \/ ServerIsAwaited
  BY <1>2, StillInv DEF ShutdownBegins, ServerIsAwaited, reqVars
<1>3. CASE ShutdownDrains
  <2>1. /\ Complete(Owned(waitRemoveIpr \cup waitInsertIpr), "cancelled")
        /\ pc' = pc /\ cancelled' = cancelled
    BY <1>3 DEF ShutdownDrains
  <2>2. Goto(Server, pc[Server])
    BY <1>0, <2>1 DEF Goto
  <2> QED
    BY <1>0, <2>1, <2>2, TellInv
<1>4. CASE DrainsStale \/ UsesDeleted
  BY <1>4, CrashInv DEF DrainsStale, UsesDeleted
<1>5. CASE Deletes
  <2>1. /\ pc' = [t \in Threads |-> IF t = Server \/ pc[t] = "none" THEN "none" ELSE "stale"]
        /\ UNCHANGED <<wdf, times, cancelled>>
    BY <1>5 DEF Deletes, reqVars
  <2>2. Shape' /\ cancelled' \subseteq Requests
    BY <2>1 DEF IInv, Shape
  <2>3. ASSUME NEW r \in Requests PROVE Progress(r)
    BY <2>1 DEF Progress, LeavesAlone, Same, Threads
  <2> QED
    BY <2>2, <2>3, ProgressInv
<1> QED
  BY <1>1, <1>2, <1>3, <1>4, <1>5 DEF ShutdownStep

LEMMA InitInv == Init => IInv
<1> SUFFICES ASSUME Init PROVE IInv
  OBVIOUS
<1>1. Shape
  BY DEF Init, Shape, States
<1>2. cancelled = {} /\ \A r \in Requests : wdf[r] = "new" /\ times[r] = 0 /\ pc[r] = "none"
  BY DEF Init, Threads
<1> QED
  BY <1>1, <1>2 DEF IInv, Tracked

LEMMA NextInv == IInv /\ [Next]_vars => IInv'
<1> SUFFICES ASSUME IInv, [Next]_vars PROVE IInv'
  OBVIOUS
<1>1. CASE \E t \in Threads : Runs(t)
  BY <1>1, ThreadInv, ServerInv, RequestInv DEF Runs
<1>2. CASE (\E r \in Requests \ Commands : AsksPresence(r)) \/ \E r \in Commands : CommandArrives(r)
  BY <1>2, ArrivalInv, BixAssumption
<1>3. CASE \E r \in Requests : NoReader(r) \/ Cancel(r) \/ CancelCallback(r)
  BY <1>3, ArrivalInv, CancelInv
<1>4. CASE D0Entry \/ ShutdownBegins \/ ShutdownStep \/ UsesDeleted
  BY <1>4, DeviceInv
<1>5. CASE PeerComes \/ PeerGoes \/ CardMoves
  <2>1. UNCHANGED <<wdf, times, pc, cancelled>>
    BY <1>5 DEF PeerComes, PeerGoes, CardMoves, PeerMoves, reqVars
  <2> QED
    BY <2>1, StillInv
<1>6. CASE UNCHANGED vars
  BY <1>6, StillInv DEF vars, reqVars
<1> QED
  BY <1>1, <1>2, <1>3, <1>4, <1>5, <1>6 DEF Next

-----------------------------------------------------------------------------
\* The invariant holds in every reachable state.
THEOREM Invariance == Spec => []IInv
<1>1. Init => IInv
  BY InitInv
<1>2. IInv /\ [Next]_vars => IInv'
  BY NextInv
<1> QED
  BY <1>1, <1>2, PTL DEF Spec

\* No request is completed twice, whoever comes first: its handler, a thread that
\* tells of the card, the cancellation, the shutdown, or the end of the host
\* process (Reader.cpp, VpcdReader.cpp, device.cpp).
THEOREM RequestsAreCompletedOnce == Spec => []CompletedOnce
<1>1. IInv => CompletedOnce
  BY DEF IInv, Tracked, CompletedOnce
<1> QED
  BY <1>1, Invariance, PTL

-----------------------------------------------------------------------------
(* Nobody is told of a card that was not there.                            *)

Presence == {"is present", "is absent"}

\* A card is there, or its coming has been noticed and is about to be told.
CardDue == \/ Present
           \/ 1 \in {events[i] : i \in 1..Len(events)}
           \/ \E t \in Threads : pc[t] = "drain"

\* A card is missing, or its going has been noticed and is about to be told.
NoCardDue == ~Connected \/ RemovalUnderway

\* Who asks while a card is there, or is missing, is known to have asked then.
Witnessed == /\ CardDue => Asking \subseteq seen
             /\ NoCardDue => Asking \subseteq missed

\* What is known of the card's side.
PeerShape == /\ backend \in {"vpcd", "tcp", "pipe"}
             /\ link \in BOOLEAN /\ card \in BOOLEAN
             /\ events \in Seq({0, 1})
             /\ data = "open" => link
             /\ backend = "vpcd" /\ link => card

TellShape == /\ good \in [Threads -> BOOLEAN]
             /\ kind = [r \in Requests |-> kind[r]]
             /\ answer = [r \in Requests |-> answer[r]]
             /\ \A r \in Commands : kind[r] \notin Presence

\* A handler of a presence request past its check knows what the check saw.
Thinks(r) ==
  /\ pc[r] = "query" => kind[r] \notin Presence
  /\ kind[r] \in Presence /\ pc[r] \notin {"none", "stale", "check"} =>
       IF good[r] THEN r \in seen ELSE r \in missed

Untold(r) ==
  /\ wdf[r] # "done" => answer[r] = "none"
  /\ wdf[r] = "new" => kind[r] \notin Presence

Listed == /\ waitInsertIpr \subseteq {r \in Requests : kind[r] = "is present"}
          /\ waitRemoveIpr \subseteq {r \in Requests : kind[r] = "is absent"}

ToldInv == /\ PeerShape /\ TellShape /\ Witnessed /\ Listed /\ ToldTruly
           /\ \A r \in Requests : Thinks(r) /\ Untold(r)

-----------------------------------------------------------------------------
(* What a step may do to a request that asks for presence, or for anything *)
(* else.                                                                   *)

Truly(r) == /\ kind[r] = "is present" => r \in seen'
            /\ kind[r] = "is absent" => r \in missed'

Spares(r)   == /\ answer'[r] = answer[r] /\ kind'[r] = kind[r]
               /\ wdf'[r] = wdf[r] \/ (wdf[r] = "held" /\ wdf'[r] = "cancelable")
Finishes(r) == /\ kind'[r] = kind[r] /\ wdf'[r] = "done"
               /\ answer'[r] = "success" => Truly(r)
Serves(r)   == /\ kind[r] \notin Presence /\ kind'[r] \notin Presence
               /\ wdf'[r] # "done" => answer'[r] = "none"
Treats(r)   == Spares(r) \/ Finishes(r) \/ Serves(r)

LEMMA ToldFrom ==
  ASSUME IInv, ToldInv, seen \subseteq seen', missed \subseteq missed',
         CardDue' => CardDue \/ Asking \subseteq seen',
         NoCardDue' => NoCardDue \/ Asking \subseteq missed',
         PeerShape', TellShape', Listed',
         \A r \in Requests : Treats(r) /\ Thinks(r)'
  PROVE  ToldInv'
<1>0. ASSUME NEW r \in Requests
      PROVE  /\ r \in Asking' => r \in Asking
             /\ answer'[r] = "success" => Truly(r) /\ (kind'[r] = kind[r] \/ kind'[r] \notin Presence)
             /\ Untold(r)'
  <2>1. /\ answer[r] = "success" => Truly(r)
        /\ Untold(r)
    BY DEF ToldInv, ToldTruly, Truly
  <2>2. CASE Spares(r)
    BY <2>1, <2>2 DEF Spares, Asking, Outstanding, Untold
  <2>3. CASE Finishes(r)
    BY <2>3 DEF Finishes, Asking, Outstanding, Untold
  <2>4. CASE Serves(r)
    BY <2>4 DEF Serves, Asking, Outstanding, Untold, Truly, Presence
  <2>. QED
    BY <2>2, <2>3, <2>4 DEF Treats
<1>1. Asking' \subseteq Asking
  BY <1>0 DEF Asking, Outstanding
<1>2. Witnessed'
  BY <1>1 DEF Witnessed, ToldInv
<1>3. ToldTruly'
  BY <1>0 DEF ToldTruly, Truly, Presence
<1>. QED
  BY <1>0, <1>2, <1>3 DEF ToldInv

\* A thread that does not move keeps what it thinks.
LEMMA ThinksOn ==
  ASSUME NEW r \in Requests, Thinks(r), seen \subseteq seen', missed \subseteq missed',
         pc'[r] = pc[r], good'[r] = good[r], kind'[r] = kind[r]
  PROVE  Thinks(r)'
BY DEF Thinks, Presence

\* A thread moves, and the places where the threads are.
LEMMA Moved ==
  ASSUME IInv, NEW t \in Threads, NEW where, Goto(t, where)
  PROVE  /\ pc'[t] = where /\ \A u \in Threads : u # t => pc'[u] = pc[u]
         /\ \A x : (\E u \in Threads : pc'[u] = x) => x = where \/ \E u \in Threads : pc[u] = x
BY DEF IInv, Shape, Goto

\* What makes a card due, or its absence, when a thread moves.
LEMMA DueMoved ==
  ASSUME IInv, NEW t \in Threads, NEW where, Goto(t, where),
         \A i \in {0, 1} : i \in {events'[j] : j \in 1..Len(events')} => i \in {events[j] : j \in 1..Len(events)}
  PROVE  /\ CardDue' => Present' \/ where = "drain" \/ CardDue
         /\ NoCardDue' => ~Connected' \/ where \in {"remove", "tell absent"} \/ NoCardDue
<1>1. \A x : (\E u \in Threads : pc'[u] = x) => x = where \/ \E u \in Threads : pc[u] = x
  BY Moved
<1>2. CardDue' => Present' \/ where = "drain" \/ CardDue
  BY <1>1 DEF CardDue
<1>3. NoCardDue' => ~Connected' \/ where \in {"remove", "tell absent"} \/ NoCardDue
  <2>1. (\E u \in Threads : pc'[u] \in {"remove", "tell absent"})
          => where \in {"remove", "tell absent"} \/ \E u \in Threads : pc[u] \in {"remove", "tell absent"}
    BY <1>1
  <2>. QED
    BY <2>1 DEF NoCardDue, RemovalUnderway
<1>. QED
  BY <1>2, <1>3

\* A thread moves on what the card's side says at that moment.
LEMMA WitnessMove ==
  ASSUME IInv, ToldInv, NEW t \in Threads, NEW where, Goto(t, where), Witness,
         UNCHANGED <<events, kind, waitVars, reqVars>>, PeerShape',
         where = "drain" => Present', where \in {"remove", "tell absent"} => ~Connected',
         good' \in [Threads -> BOOLEAN], \A u \in Threads : u # t => good'[u] = good[u],
         t \in Requests => Thinks(t)'
  PROVE  ToldInv'
<1>1. seen \subseteq seen' /\ missed \subseteq missed' /\ (Present' => Asking \subseteq seen')
      /\ (~Connected' => Asking \subseteq missed')
  BY DEF Witness
<1>0. \A i \in {0, 1} : i \in {events'[j] : j \in 1..Len(events')} => i \in {events[j] : j \in 1..Len(events)}
  OBVIOUS
<1>d. /\ CardDue' => Present' \/ where = "drain" \/ CardDue
      /\ NoCardDue' => ~Connected' \/ where \in {"remove", "tell absent"} \/ NoCardDue
  <2>. HIDE DEF CardDue, NoCardDue, Present, Connected
  <2>. QED
    BY <1>0, DueMoved, Zenon
<1>2. CardDue' => CardDue \/ Asking \subseteq seen'
  BY <1>1, <1>d
<1>3. NoCardDue' => NoCardDue \/ Asking \subseteq missed'
  BY <1>1, <1>d
<1>4. TellShape' /\ Listed'
  BY DEF ToldInv, TellShape, Listed, waitVars, reqVars
<1>5. ASSUME NEW r \in Requests PROVE Treats(r) /\ Thinks(r)'
  <2>1. Treats(r)
    BY DEF Treats, Spares, reqVars
  <2>2. CASE r # t
    <3>1. r \in Threads /\ pc'[r] = pc[r] /\ good'[r] = good[r] /\ kind'[r] = kind[r] /\ Thinks(r)
      BY <2>2, Moved DEF Threads, ToldInv
    <3>. QED
      BY <1>1, <2>1, <3>1, ThinksOn
  <2>. QED
    BY <2>1, <2>2
<1>. QED
  BY <1>1, <1>2, <1>3, <1>4, <1>5, ToldFrom

\* A thread moves and knows nothing new.
LEMMA PlainMove ==
  ASSUME IInv, ToldInv, NEW t \in Threads, NEW where, Goto(t, where),
         UNCHANGED <<backend, kind, good, waitVars, reqVars, data, peerVars, history>>,
         where \notin {"drain", "query"}, where \in {"remove", "tell absent"} => NoCardDue,
         t = Server \/ pc[t] \notin {"none", "stale", "check"}
  PROVE  ToldInv'
<1>0. UNCHANGED <<link, card, events, data, seen, missed, kind, good, answer, wdf, waitInsertIpr, waitRemoveIpr>>
  BY DEF peerVars, history, reqVars, waitVars
<1>1. (Present' <=> Present) /\ (Connected' <=> Connected)
  BY <1>0 DEF Present, Connected
<1>2. (CardDue' => CardDue) /\ (NoCardDue' => NoCardDue)
  BY <1>0, <1>1, DueMoved DEF CardDue, NoCardDue
<1>3. PeerShape' /\ TellShape' /\ Listed'
  BY <1>0 DEF ToldInv, PeerShape, TellShape, Listed
<1>4. ASSUME NEW r \in Requests PROVE Treats(r) /\ Thinks(r)'
  <2>1. Treats(r)
    BY <1>0 DEF Treats, Spares
  <2>2. Thinks(r) /\ r \in Threads
    BY DEF ToldInv, Threads
  <2>3. CASE r # t
    BY <1>0, <2>1, <2>2, <2>3, Moved, ThinksOn
  <2>4. CASE r = t
    <3>1. pc'[r] = where /\ r # Server
      BY <2>4, Moved, BixAssumption
    <3>. QED
      BY <1>0, <2>1, <2>2, <2>4, <3>1 DEF Thinks
  <2>. QED
    BY <2>3, <2>4
<1>. QED
  BY <1>0, <1>2, <1>3, <1>4, ToldFrom

-----------------------------------------------------------------------------
(* Steps that complete requests.                                           *)

\* A thread goes on with what it knows, or ends.
GoesOn(r) == \/ pc'[r] = pc[r] \/ pc'[r] \in {"none", "stale", "check"}
             \/ (pc[r] \notin {"none", "stale", "check"} /\ pc'[r] # "query")

LEMMA ThinksStill ==
  ASSUME NEW r \in Requests, Thinks(r), seen \subseteq seen', missed \subseteq missed',
         GoesOn(r), good'[r] = good[r], kind'[r] = kind[r]
  PROVE  Thinks(r)'
BY DEF Thinks, Presence, GoesOn

\* Those that are completed are not told anything untrue.
LEMMA EndsTruly ==
  ASSUME IInv, ToldInv, NEW S, NEW status, Complete(S, status), UNCHANGED <<kind, good>>,
         status = "success" => \A r \in S \cap Requests : Truly(r),
         seen \subseteq seen', missed \subseteq missed',
         CardDue' => CardDue \/ Asking \subseteq seen',
         NoCardDue' => NoCardDue \/ Asking \subseteq missed',
         PeerShape', waitInsertIpr' \subseteq waitInsertIpr, waitRemoveIpr' \subseteq waitRemoveIpr,
         \A r \in Requests : GoesOn(r)
  PROVE  ToldInv'
<1>1. TellShape' /\ Listed'
  <2>1. answer' = [r \in Requests |-> answer'[r]]
    BY DEF Complete
  <2>. QED
    BY <2>1 DEF ToldInv, TellShape, Listed
<1>2. ASSUME NEW r \in Requests PROVE Treats(r) /\ Thinks(r)'
  <2>1. Thinks(r)'
    BY ThinksStill DEF ToldInv
  <2>2. CASE r \in S
    <3>1. wdf'[r] = "done" /\ answer'[r] = status
      BY <2>2 DEF Complete
    <3>. QED
      BY <2>1, <2>2, <3>1 DEF Treats, Finishes
  <2>3. CASE r \notin S
    <3>1. wdf'[r] = wdf[r] /\ answer'[r] = answer[r]
      BY <2>3 DEF Complete
    <3>. QED
      BY <2>1, <3>1 DEF Treats, Spares
  <2>. QED
    BY <2>2, <2>3
<1>. QED
  BY <1>1, <1>2, ToldFrom

\* Who waits in a list and has not been cancelled still asks.
LEMMA OwnedAsk ==
  ASSUME ToldInv
  PROVE  /\ \A r \in Owned(waitInsertIpr) : r \in Asking /\ kind[r] = "is present" /\ r \in Requests
         /\ \A r \in Owned(waitRemoveIpr) : r \in Asking /\ kind[r] = "is absent" /\ r \in Requests
BY DEF ToldInv, Listed, Owned, Asking, Outstanding

\* Nobody moves, or one thread does.
LEMMA AllGoOn ==
  ASSUME IInv, NEW t \in Threads, NEW where, Goto(t, where), where # "query",
         t = Server \/ pc[t] \notin {"none", "stale", "check"}
  PROVE  \A r \in Requests : GoesOn(r)
<1> SUFFICES ASSUME NEW r \in Requests PROVE GoesOn(r)
  OBVIOUS
<1>1. r \in Threads /\ r # Server
  BY BixAssumption DEF Threads
<1>2. CASE r = t
  <2>1. pc'[r] = where
    BY <1>2, Moved
  <2>. QED
    BY <1>1, <1>2, <2>1 DEF GoesOn
<1>3. CASE r # t
  BY <1>1, <1>3, Moved DEF GoesOn
<1>. QED
  BY <1>2, <1>3

\* A thread empties a list and moves on.
LEMMA ListTold ==
  ASSUME IInv, ToldInv, NEW S, NEW status, Complete(Owned(S), status),
         status = "success" => \A r \in Owned(S) \cap Requests : Truly(r),
         NEW t \in Threads, NEW where, Goto(t, where),
         where \notin {"drain", "query", "remove", "tell absent"},
         t = Server \/ pc[t] \notin {"none", "stale", "check"},
         UNCHANGED <<backend, kind, good, data, peerVars, history>>,
         waitInsertIpr' \subseteq waitInsertIpr, waitRemoveIpr' \subseteq waitRemoveIpr
  PROVE  ToldInv'
<1>0. UNCHANGED <<link, card, events, data, seen, missed>>
  BY DEF peerVars, history
<1>1. (Present' <=> Present) /\ (Connected' <=> Connected)
  BY <1>0 DEF Present, Connected
<1>2. (CardDue' => CardDue) /\ (NoCardDue' => NoCardDue)
  <2>1. \A i \in {0, 1} : i \in {events'[j] : j \in 1..Len(events')} => i \in {events[j] : j \in 1..Len(events)}
    BY <1>0
  <2>2. /\ CardDue' => Present' \/ where = "drain" \/ CardDue
        /\ NoCardDue' => ~Connected' \/ where \in {"remove", "tell absent"} \/ NoCardDue
    <3>. HIDE DEF CardDue, NoCardDue, Present, Connected
    <3>. QED
      BY <2>1, DueMoved, Zenon
  <2>3. (Present => CardDue) /\ (~Connected => NoCardDue)
    BY DEF CardDue, NoCardDue
  <2>. QED
    BY <1>1, <2>2, <2>3
<1>3. PeerShape'
  BY <1>0 DEF ToldInv, PeerShape
<1>4. \A r \in Requests : GoesOn(r)
  BY AllGoOn
<1>. QED
  BY <1>0, <1>2, <1>3, <1>4, EndsTruly

-----------------------------------------------------------------------------
(* The steps of a thread.                                                  *)

LEMMA CheckATRTold == ASSUME IInv, ToldInv, NEW t \in Threads, CheckATR(t) PROVE ToldInv'
<1>1. PICK ok \in BOOLEAN :
        /\ ok <=> IF backend = "vpcd" THEN data = "open" \/ (data = "none" /\ link) ELSE Connected
        /\ good' = [good EXCEPT ![t] = ok /\ t # Server]
        /\ IF backend = "vpcd"
           THEN data' = (IF ok THEN "open" ELSE "none") /\ Goto(t, IF ok THEN "insert" ELSE "remove")
           ELSE Goto(t, "next") /\ UNCHANGED data
  BY DEF CheckATR
<1>2. /\ pc[t] = "check" /\ Witness
      /\ UNCHANGED <<backend, kind, link, card, events>> /\ UNCHANGED <<waitVars, reqVars>>
  BY DEF CheckATR, At, peerVars
<1>3. PeerShape /\ TellShape
  BY DEF ToldInv
<1>4. (ok => Present') /\ (~ok => ~Connected')
  BY <1>1, <1>2, <1>3 DEF PeerShape, Present, Connected
<1>5. PICK where : Goto(t, where) /\ (where = "remove" => ~ok) /\ where \in {"insert", "remove", "next"}
  BY <1>1, Zenon
<1>6. PeerShape'
  BY <1>1, <1>2, <1>3 DEF PeerShape
<1>7. good' \in [Threads -> BOOLEAN] /\ (\A u \in Threads : u # t => good'[u] = good[u])
      /\ good'[t] = (ok /\ t # Server)
  BY <1>1, <1>3 DEF TellShape
<1>8. ASSUME t \in Requests PROVE Thinks(t)'
  <2>1. wdf[t] = "held" /\ t # Server
    BY <1>2, <1>8, BixAssumption DEF IInv, Tracked
  <2>2. kind'[t] = kind[t] /\ (kind[t] \in Presence => t \in Asking)
    BY <1>2, <1>8, <2>1 DEF Asking, Outstanding, Presence
  <2>3. good'[t] = ok /\ pc'[t] \in {"insert", "remove", "next"}
    BY <1>5, <1>7, <2>1, Moved
  <2>4. kind[t] \in Presence => (ok => t \in seen') /\ (~ok => t \in missed')
    BY <1>2, <1>4, <2>2 DEF Witness
  <2>. QED
    BY <2>2, <2>3, <2>4 DEF Thinks
<1>. QED
  BY <1>2, <1>4, <1>5, <1>6, <1>7, <1>8, WitnessMove

LEMMA AskATRTold == ASSUME IInv, ToldInv, NEW t \in Threads, AskATR(t) PROVE ToldInv'
<1>1. /\ pc[t] = "ask" /\ Witness
      /\ data' = IF data = "dead" THEN "none" ELSE data
      /\ UNCHANGED <<backend, kind, good, link, card, events>> /\ UNCHANGED <<waitVars, reqVars>>
  BY DEF AskATR, At, peerVars
<1>2. PICK where : /\ Goto(t, where) /\ where \in {"drain", "remove", "read"}
                   /\ where = "drain" <=> Connected
  BY DEF AskATR, Connected
<1>3. PeerShape /\ TellShape
  BY DEF ToldInv
<1>4. PeerShape' /\ (Connected => Present') /\ (~Connected => ~Connected')
  BY <1>1, <1>3 DEF PeerShape, Present, Connected
<1>5. ASSUME t \in Requests PROVE Thinks(t)'
  <2>1. Thinks(t) /\ pc'[t] \in {"drain", "remove", "read"}
    BY <1>2, <1>5, Moved DEF ToldInv
  <2>2. seen \subseteq seen' /\ missed \subseteq missed'
    BY <1>1 DEF Witness
  <2>. QED
    BY <1>1, <1>5, <2>1, <2>2 DEF Thinks
<1>6. good' \in [Threads -> BOOLEAN] /\ \A u \in Threads : u # t => good'[u] = good[u]
  BY <1>1, <1>3 DEF TellShape
<1>7. (where = "drain" => Present') /\ (where \in {"remove", "tell absent"} => ~Connected')
  BY <1>2, <1>4
<1>. QED
  BY <1>1, <1>2, <1>4, <1>5, <1>6, <1>7, WitnessMove

LEMMA SignalTold ==
  ASSUME IInv, ToldInv, NEW t \in Threads, SignalInsertion(t) \/ SignalRemoval(t) PROVE ToldInv'
<1>1. pc[t] \in {"insert", "remove"}
      /\ UNCHANGED <<backend, kind, good, waitVars, reqVars, data, peerVars, history>>
  BY DEF SignalInsertion, SignalRemoval, At
<1>2. PICK where : /\ Goto(t, where) /\ where \in {"next", "ask", "tell absent"}
                   /\ where = "tell absent" => pc[t] = "remove"
  <2>1. CASE SignalInsertion(t)
    <3>1. Goto(t, IF cardPresent \/ waitInsertIpr = {} THEN "next" ELSE "ask")
      BY <2>1 DEF SignalInsertion
    <3>2. Goto(t, "next") \/ Goto(t, "ask")
      BY <3>1
    <3>3. "next" # "tell absent" /\ "ask" # "tell absent"
      OBVIOUS
    <3>. QED
      BY <3>2, <3>3
  <2>2. CASE SignalRemoval(t)
    <3>1. Goto(t, IF cardPresent THEN "tell absent" ELSE "next") /\ pc[t] = "remove"
      BY <2>2 DEF SignalRemoval, At
    <3>. QED
      BY <3>1
  <2>. QED
    BY <2>1, <2>2
<1>3. where = "tell absent" => NoCardDue
  BY <1>2 DEF NoCardDue, RemovalUnderway
<1>. QED
  BY <1>1, <1>2, <1>3, PlainMove

LEMMA TellTold ==
  ASSUME IInv, ToldInv, NEW t \in Threads, TellPresent(t) \/ TellAbsent(t) \/ GiveUp(t) PROVE ToldInv'
<1>1. UNCHANGED <<backend, kind, good, data, peerVars, history>> /\ UNCHANGED <<seen, missed>>
  BY DEF TellPresent, TellAbsent, GiveUp, history
<1>2. CASE TellPresent(t)
  <2>1. pc[t] = "drain" /\ Complete(Owned(waitInsertIpr), "success")
        /\ waitInsertIpr' = {} /\ waitRemoveIpr' = waitRemoveIpr
    BY <1>2 DEF TellPresent, At
  <2>2. PICK where : Goto(t, where) /\ where \in {"next", "read"}
    BY <1>2 DEF TellPresent
  <2>3. Asking \subseteq seen
    BY <2>1 DEF ToldInv, Witnessed, CardDue
  <2>4. \A r \in Owned(waitInsertIpr) \cap Requests : Truly(r)
    BY <1>1, <2>3, OwnedAsk DEF Truly
  <2>. QED
    BY <1>1, <2>1, <2>2, <2>4, ListTold
<1>3. CASE TellAbsent(t)
  <2>1. pc[t] = "tell absent" /\ Complete(Owned(waitRemoveIpr), "success")
        /\ waitRemoveIpr' = {} /\ waitInsertIpr' = waitInsertIpr
    BY <1>3 DEF TellAbsent, At
  <2>2. Goto(t, "give up")
    BY <1>3 DEF TellAbsent
  <2>3. Asking \subseteq missed
    BY <2>1 DEF ToldInv, Witnessed, NoCardDue, RemovalUnderway
  <2>4. \A r \in Owned(waitRemoveIpr) \cap Requests : Truly(r)
    BY <1>1, <2>3, OwnedAsk DEF Truly
  <2>. QED
    BY <1>1, <2>1, <2>2, <2>4, ListTold
<1>4. CASE GiveUp(t)
  <2>1. pc[t] = "give up" /\ Complete(Owned(waitInsertIpr), "cancelled")
        /\ waitInsertIpr' = {} /\ waitRemoveIpr' = waitRemoveIpr
    BY <1>4 DEF GiveUp, At
  <2>2. PICK where : Goto(t, where) /\ where \in {"next", "listen"}
    BY <1>4 DEF GiveUp
  <2>. QED
    BY <1>1, <2>1, <2>2, ListTold
<1>. QED
  BY <1>2, <1>3, <1>4

LEMMA CrashTold == ASSUME IInv, ToldInv, Crash PROVE ToldInv'
<1>1. /\ Complete(Outstanding, "failed") /\ UNCHANGED <<kind, good>>
      /\ seen' = seen /\ missed' = missed \cup Asking /\ backend' = backend
      /\ waitRemoveIpr' = {} /\ waitInsertIpr' = {}
      /\ pc' = [t \in Threads |-> "none"]
      /\ link' = FALSE /\ card' = FALSE /\ data' = "none" /\ events' = <<>>
  BY DEF Crash
<1>2. ~CardDue'
  <2>1. events' = <<>> /\ Len(events') = 0
    BY <1>1
  <2>2. {events'[i] : i \in 1..Len(events')} = {}
    BY <2>1
  <2>. QED
    BY <1>1, <2>2 DEF CardDue, Present
<1>3. PeerShape'
  <2>1. events' \in Seq({0, 1})
    BY <1>1
  <2>2. link' \in BOOLEAN /\ card' \in BOOLEAN /\ ~link' /\ data' # "open"
    BY <1>1
  <2>. QED
    BY <1>1, <2>1, <2>2 DEF ToldInv, PeerShape
<1>4. \A r \in Requests : GoesOn(r)
  BY <1>1 DEF GoesOn, Threads
<1>. QED
  BY <1>1, <1>2, <1>3, <1>4, EndsTruly

LEMMA ThreadTold == ASSUME IInv, ToldInv, NEW t \in Threads, ThreadStep(t) PROVE ToldInv'
BY CheckATRTold, AskATRTold, SignalTold, TellTold, CrashTold DEF ThreadStep, TakesStale

-----------------------------------------------------------------------------
(* The steps of the server thread.                                         *)

LEMMA AcceptTold == ASSUME IInv, ToldInv, TcpIpAccepts \/ PipesConnect PROVE ToldInv'
<1>1. /\ backend # "vpcd" /\ Witness /\ Server \in Threads
      /\ UNCHANGED <<backend, kind, good, link, card, events>> /\ UNCHANGED <<waitVars, reqVars>>
      /\ data' = NowKnown \/ data' = data
  BY DEF TcpIpAccepts, PipesConnect, peerVars, Threads
<1>2. Goto(Server, "listen event") \/ Goto(Server, "greet")
  BY DEF TcpIpAccepts, PipesConnect
<1>3. PeerShape /\ TellShape
  BY DEF ToldInv
<1>4. PeerShape'
  BY <1>1, <1>3 DEF PeerShape, NowKnown
<1>5. good' \in [Threads -> BOOLEAN] /\ \A u \in Threads : u # Server => good'[u] = good[u]
  BY <1>1, <1>3 DEF TellShape
<1>. QED
  BY <1>1, <1>2, <1>4, <1>5, WitnessMove, BixAssumption

LEMMA LoopTold ==
  ASSUME IInv, ToldInv, ServerStarts \/ ServerLoops \/ ServerBreaks \/ ServerGreets PROVE ToldInv'
<1>1. UNCHANGED <<backend, kind, good, waitVars, reqVars, data, peerVars, history>> /\ Server \in Threads
  BY DEF ServerStarts, ServerLoops, ServerBreaks, ServerGreets, Threads
<1>2. \/ Goto(Server, "check") \/ Goto(Server, "listen") \/ Goto(Server, "ended")
      \/ Goto(Server, "read") \/ Goto(Server, "ask")
  BY DEF ServerStarts, ServerLoops, ServerBreaks, ServerGreets
<1>. QED
  BY <1>1, <1>2, PlainMove

\* Reading an event: nothing new is due.
LEMMA EventsRead ==
  ASSUME ToldInv, events # <<>>, events' = Tail(events)
  PROVE  /\ events' \in Seq({0, 1}) /\ Head(events) \in {0, 1}
         /\ Head(events) \in {events[j] : j \in 1..Len(events)}
         /\ \A i \in {0, 1} : i \in {events'[j] : j \in 1..Len(events')} => i \in {events[j] : j \in 1..Len(events)}
<1>1. events \in Seq({0, 1})
  BY DEF ToldInv, PeerShape
<1>2. PICK n \in Nat : n = Len(events) /\ n > 0
  BY <1>1
<1>3. Head(events) = events[1] /\ 1 \in 1..Len(events) /\ events[1] \in {0, 1}
  BY <1>1, <1>2
<1>4. events' \in Seq({0, 1}) /\ Len(events') = n - 1 /\ \A j \in 1..(n - 1) : events'[j] = events[j + 1]
  BY <1>1, <1>2
<1>5. ASSUME NEW i, i \in {events'[j] : j \in 1..Len(events')}
      PROVE  i \in {events[j] : j \in 1..Len(events)}
  <2>1. PICK j \in 1..(n - 1) : i = events'[j]
    BY <1>4, <1>5
  <2>2. i = events[j + 1] /\ j + 1 \in 1..Len(events)
    BY <1>2, <1>4, <2>1
  <2>. QED
    BY <2>2
<1>. QED
  BY <1>3, <1>4, <1>5

LEMMA ServerHearsTold == ASSUME IInv, ToldInv, ServerHears PROVE ToldInv'
<1>1. /\ events # <<>> /\ events' = Tail(events) /\ Complete(Owned(Awaiting), "success") /\ Witness
      /\ UNCHANGED <<backend, pc, kind, good, link, card>>
  BY DEF ServerHears
<1>2. \/ /\ Head(events) = 0 /\ waitRemoveIpr' = {} /\ UNCHANGED <<waitInsertIpr, data>>
      \/ /\ Head(events) # 0 /\ waitInsertIpr' = {} /\ UNCHANGED waitRemoveIpr
         /\ (data' = data \/ (data = "dead" /\ data' = "none"))
  BY DEF ServerHears
<1>3. /\ events' \in Seq({0, 1}) /\ Head(events) \in {0, 1}
      /\ Head(events) \in {events[j] : j \in 1..Len(events)}
      /\ \A i \in {0, 1} : i \in {events'[j] : j \in 1..Len(events')} => i \in {events[j] : j \in 1..Len(events)}
  BY <1>1, EventsRead
<1>4. /\ seen \subseteq seen' /\ missed \subseteq missed'
      /\ (Present' => Asking \subseteq seen') /\ (~Connected' => Asking \subseteq missed')
  BY <1>1 DEF Witness
<1>5. PeerShape'
  <2>1. PeerShape
    BY DEF ToldInv
  <2>. QED
    BY <1>1, <1>2, <1>3, <2>1 DEF PeerShape
<1>6. CardDue' => CardDue \/ Asking \subseteq seen'
  BY <1>1, <1>3, <1>4 DEF CardDue
<1>7. NoCardDue' => NoCardDue \/ Asking \subseteq missed'
  BY <1>1, <1>3, <1>4 DEF NoCardDue, RemovalUnderway
<1>8. \A r \in Owned(Awaiting) \cap Requests : Truly(r)
  <2>1. CASE Head(events) = 0
    <3>1. Asking \subseteq missed
      BY <1>3, <2>1 DEF ToldInv, Witnessed, NoCardDue, RemovalUnderway
    <3>2. Awaiting = waitRemoveIpr
      BY <2>1 DEF Awaiting
    <3>. QED
      BY <1>4, <3>1, <3>2, OwnedAsk DEF Truly
  <2>2. CASE Head(events) = 1
    <3>1. Asking \subseteq seen
      BY <1>3, <2>2 DEF ToldInv, Witnessed, CardDue
    <3>2. Awaiting = waitInsertIpr
      BY <2>2 DEF Awaiting
    <3>. QED
      BY <1>4, <3>1, <3>2, OwnedAsk DEF Truly
  <2>. QED
    BY <1>3, <2>1, <2>2
<1>9. \A r \in Requests : GoesOn(r)
  BY <1>1 DEF GoesOn
<1>10. waitInsertIpr' \subseteq waitInsertIpr /\ waitRemoveIpr' \subseteq waitRemoveIpr
  BY <1>2
<1>. QED
  BY <1>1, <1>4, <1>5, <1>6, <1>7, <1>8, <1>9, <1>10, EndsTruly

\* Steps that complete nothing and arrive nowhere.
LEMMA StillTold ==
  ASSUME IInv, ToldInv, UNCHANGED <<kind, good, wdf, answer>>,
         seen \subseteq seen', missed \subseteq missed',
         CardDue' => CardDue \/ Asking \subseteq seen',
         NoCardDue' => NoCardDue \/ Asking \subseteq missed',
         PeerShape', waitInsertIpr' \subseteq waitInsertIpr, waitRemoveIpr' \subseteq waitRemoveIpr,
         \A r \in Requests : GoesOn(r)
  PROVE  ToldInv'
<1>1. TellShape' /\ Listed'
  BY DEF ToldInv, TellShape, Listed
<1>2. ASSUME NEW r \in Requests PROVE Treats(r) /\ Thinks(r)'
  BY ThinksStill DEF ToldInv, Treats, Spares
<1>. QED
  BY <1>1, <1>2, ToldFrom

LEMMA ServerLosesTold == ASSUME IInv, ToldInv, ServerLoses PROVE ToldInv'
<1>1. /\ ~link /\ Goto(Server, "tell absent") /\ data' \in {"none", "dead"} /\ Server \in Threads
      /\ UNCHANGED <<backend, kind, good, wdf, answer, waitInsertIpr, waitRemoveIpr>>
      /\ UNCHANGED <<link, card, events, seen, missed>>
  BY DEF ServerLoses, waitVars, reqVars, peerVars, history, Threads
<1>2. PeerShape /\ PeerShape'
  BY <1>1 DEF ToldInv, PeerShape
<1>3. NoCardDue /\ ~Present'
  BY <1>1, <1>2 DEF NoCardDue, Connected, PeerShape, Present
<1>4. CardDue' => CardDue
  <2>1. \A i \in {0, 1} : i \in {events'[j] : j \in 1..Len(events')} => i \in {events[j] : j \in 1..Len(events)}
    BY <1>1
  <2>2. CardDue' => Present' \/ "tell absent" = "drain" \/ CardDue
    <3>. HIDE DEF CardDue, NoCardDue, Present, Connected
    <3>. QED
      BY <1>1, <2>1, DueMoved, Zenon
  <2>. QED
    BY <1>3, <2>2
<1>5. \A r \in Requests : GoesOn(r)
  BY <1>1, AllGoOn
<1>. QED
  BY <1>1, <1>2, <1>3, <1>4, <1>5, StillTold

LEMMA ServerTold == ASSUME IInv, ToldInv, ServerStep PROVE ToldInv'
BY AcceptTold, LoopTold, ServerHearsTold, ServerLosesTold, CrashTold DEF ServerStep, HearsStale

-----------------------------------------------------------------------------
(* The steps of a request.                                                 *)

LEMMA QueryTold == ASSUME IInv, ToldInv, NEW r \in Requests, Query(r) PROVE ToldInv'
<1>1. /\ pc[r] = "query" /\ Witness /\ r \in Threads
      /\ UNCHANGED <<backend, kind, link, card, events>> /\ UNCHANGED <<waitVars, reqVars>>
  BY DEF Query, At, peerVars, Threads
<1>2. PeerShape /\ TellShape
  BY DEF ToldInv
<1>3. PICK reply : /\ reply.ok \in BOOLEAN /\ reply.data \in {data, "none"}
                   /\ backend = "vpcd" /\ ~reply.ok => reply.data # "open"
                   /\ good' = [good EXCEPT ![r] = reply.ok] /\ data' = reply.data
                   /\ Goto(r, IF backend = "vpcd" /\ ~reply.ok THEN "remove" ELSE "next")
  <2>0. Forgotten \in {data, "none"} /\ Connected \in BOOLEAN
    BY <1>2 DEF Forgotten, Connected, PeerShape
  <2>1. CASE backend = "vpcd"
    <3>1. /\ VpcdReply.ok = (data = "open") /\ VpcdReply.data = Forgotten
      BY DEF VpcdReply
    <3>2. /\ good' = [good EXCEPT ![r] = VpcdReply.ok] /\ data' = VpcdReply.data
          /\ Goto(r, IF backend = "vpcd" /\ ~VpcdReply.ok THEN "remove" ELSE "next")
      BY <2>1 DEF Query
    <3>. QED
      BY <2>0, <3>1, <3>2
  <2>2. CASE backend = "tcp"
    <3>1. PICK reply : reply = TcpIpReply(kind[r] = "transmit")
      OBVIOUS
    <3>2. reply.ok \in BOOLEAN /\ reply.data \in {data, "none"}
      BY <2>0, <3>1 DEF TcpIpReply
    <3>3. /\ good' = [good EXCEPT ![r] = reply.ok] /\ data' = reply.data
          /\ Goto(r, IF backend = "vpcd" /\ ~reply.ok THEN "remove" ELSE "next")
      BY <2>2, <3>1 DEF Query
    <3>. QED
      BY <2>2, <3>2, <3>3
  <2>3. CASE backend = "pipe"
    <3>1. PICK reply : reply = PipeReply(kind[r] = "transmit")
      OBVIOUS
    <3>2. reply.ok \in BOOLEAN /\ reply.data \in {data, "none"}
      BY <1>2, <2>0, <3>1 DEF PipeReply, PeerShape
    <3>3. /\ good' = [good EXCEPT ![r] = reply.ok] /\ data' = reply.data
          /\ Goto(r, IF backend = "vpcd" /\ ~reply.ok THEN "remove" ELSE "next")
      BY <2>3, <3>1 DEF Query
    <3>. QED
      BY <2>3, <3>2, <3>3
  <2>. QED
    BY <1>2, <2>1, <2>2, <2>3 DEF PeerShape
<1>4. reply.ok \in BOOLEAN /\ data' \in {data, "none"}
  BY <1>3
<1>5. PeerShape'
  BY <1>1, <1>2, <1>4 DEF PeerShape
<1>6. PICK where : Goto(r, where) /\ where \in {"remove", "next"} /\ (where = "remove" => backend = "vpcd" /\ ~reply.ok)
  <2>1. Goto(r, "remove") \/ Goto(r, "next")
    BY <1>3
  <2>2. CASE backend = "vpcd" /\ ~reply.ok
    <3>1. Goto(r, "remove")
      BY <1>3, <2>2
    <3>. QED
      BY <2>2, <3>1
  <2>3. CASE ~(backend = "vpcd" /\ ~reply.ok)
    <3>1. Goto(r, "next")
      BY <1>3, <2>3
    <3>. QED
      BY <3>1
  <2>. QED
    BY <2>2, <2>3
<1>7. where \in {"remove", "tell absent"} => ~Connected'
  BY <1>3, <1>6 DEF Connected
<1>8. good' \in [Threads -> BOOLEAN] /\ \A u \in Threads : u # r => good'[u] = good[u]
  BY <1>1, <1>3, <1>2, <1>4 DEF TellShape
<1>9. Thinks(r)'
  <2>1. kind'[r] \notin Presence /\ pc'[r] # "query"
    BY <1>1, <1>6, Moved DEF ToldInv, Thinks
  <2>. QED
    BY <2>1 DEF Thinks
<1>. QED
  BY <1>1, <1>5, <1>6, <1>7, <1>8, <1>9, WitnessMove

\* A handler ends.
LEMMA EndMoves ==
  ASSUME IInv, ToldInv, NEW r \in Requests, Goto(r, "none"), good' = [good EXCEPT ![r] = FALSE],
         UNCHANGED <<backend, data, peerVars, history>>,
         TellShape', Listed', \A q \in Requests : Treats(q) /\ (q # r => kind'[q] = kind[q])
  PROVE  ToldInv'
<1>0. UNCHANGED <<link, card, events, data, seen, missed>> /\ r \in Threads
  BY DEF peerVars, history, Threads
<1>1. (Present' <=> Present) /\ (Connected' <=> Connected)
  BY <1>0 DEF Present, Connected
<1>2. (CardDue' => CardDue) /\ (NoCardDue' => NoCardDue)
  <2>1. \A i \in {0, 1} : i \in {events'[j] : j \in 1..Len(events')} => i \in {events[j] : j \in 1..Len(events)}
    BY <1>0
  <2>2. /\ CardDue' => Present' \/ "none" = "drain" \/ CardDue
        /\ NoCardDue' => ~Connected' \/ "none" \in {"remove", "tell absent"} \/ NoCardDue
    <3>. HIDE DEF CardDue, NoCardDue, Present, Connected
    <3>. QED
      BY <1>0, <2>1, DueMoved, Zenon
  <2>3. (Present => CardDue) /\ (~Connected => NoCardDue)
    BY DEF CardDue, NoCardDue
  <2>. QED
    BY <1>1, <2>2, <2>3
<1>3. PeerShape'
  BY <1>0 DEF ToldInv, PeerShape
<1>4. ASSUME NEW q \in Requests PROVE Thinks(q)'
  <2>1. Thinks(q) /\ q \in Threads /\ good \in [Threads -> BOOLEAN]
    BY DEF ToldInv, TellShape, Threads
  <2>2. CASE q = r
    <3>1. pc'[q] = "none"
      BY <1>0, <2>2, Moved
    <3>. QED
      BY <3>1 DEF Thinks
  <2>3. CASE q # r
    <3>1. pc'[q] = pc[q] /\ good'[q] = good[q]
      BY <1>0, <2>1, <2>3, Moved
    <3>. QED
      BY <1>0, <2>1, <2>3, <3>1, ThinksOn
  <2>. QED
    BY <2>2, <2>3
<1>. QED
  BY <1>0, <1>2, <1>3, <1>4, ToldFrom

LEMMA ParkTold == ASSUME IInv, ToldInv, NEW r \in Requests, Park(r) PROVE ToldInv'
<1>1. /\ pc[r] = "next" /\ Goto(r, "none") /\ good' = [good EXCEPT ![r] = FALSE]
      /\ wdf' = [wdf EXCEPT ![r] = "cancelable"]
      /\ UNCHANGED <<backend, data, peerVars, history>> /\ UNCHANGED <<kind, answer>>
  BY DEF Park, At
<1>2. wdf \in [Requests -> States] /\ wdf[r] = "held" /\ TellShape /\ Listed
  BY <1>1 DEF IInv, Shape, Tracked, ToldInv
<1>3. TellShape'
  <2>1. good' \in [Threads -> BOOLEAN]
    BY <1>1, <1>2 DEF TellShape
  <2>. QED
    BY <1>1, <1>2, <2>1 DEF TellShape
<1>4. Listed'
  BY <1>2 DEF Park, Listed
<1>5. \A q \in Requests : Treats(q)
  BY <1>1, <1>2 DEF Treats, Spares
<1>. QED
  BY <1>1, <1>3, <1>4, <1>5, EndMoves

LEMMA AnswerTold == ASSUME IInv, ToldInv, NEW r \in Requests, Answer(r) PROVE ToldInv'
<1>1. /\ pc[r] = "next" /\ Goto(r, "none") /\ good' = [good EXCEPT ![r] = FALSE]
      /\ kind' = IF r \in Commands THEN [kind EXCEPT ![r] = "any"] ELSE kind
      /\ UNCHANGED <<backend, data, peerVars, history>> /\ UNCHANGED <<waitVars, seen, missed>>
  BY DEF Answer, At, history
<1>2. TellShape /\ Listed /\ Thinks(r)
  BY DEF ToldInv
<1>3. PICK status : /\ Complete({r}, status)
                    /\ status = "success" => \/ kind[r] = "is present" /\ good[r]
                                             \/ kind[r] = "is absent" /\ ~good[r]
                                             \/ kind[r] \in {"query", "transmit"}
  <2>1. CASE kind[r] = "is present" /\ good[r] /\ Complete({r}, "success")
    BY <2>1
  <2>2. CASE kind[r] = "is absent" /\ ~good[r] /\ Complete({r}, "success")
    BY <2>2
  <2>3. CASE kind[r] \in {"query", "transmit"} /\ Complete({r}, IF good[r] THEN "success" ELSE "failed")
    BY <2>3
  <2>4. CASE kind[r] = "query" /\ Complete({r}, "failed")
    BY <2>4
  <2>. QED
    BY <2>1, <2>2, <2>3, <2>4 DEF Answer
<1>4. status = "success" => Truly(r)
  BY <1>1, <1>2, <1>3 DEF Thinks, Truly, Presence
<1>5. /\ \A q \in Requests : q # r => kind'[q] = kind[q]
      /\ kind'[r] = kind[r] \/ (kind[r] \notin Presence /\ kind'[r] = "any")
      /\ kind' = [q \in Requests |-> kind'[q]]
      /\ \A q \in Commands : kind'[q] \notin Presence
  BY <1>1, <1>2, BixAssumption DEF TellShape, Presence
<1>6. \A q \in Requests : /\ wdf'[q] = IF q = r THEN "done" ELSE wdf[q]
                          /\ answer'[q] = IF q = r THEN status ELSE answer[q]
  BY <1>3 DEF Complete
<1>7. \A q \in Requests : Treats(q)
  <2>1. Treats(r)
    BY <1>4, <1>5, <1>6 DEF Treats, Finishes, Serves, Presence
  <2>2. ASSUME NEW q \in Requests, q # r PROVE Treats(q)
    BY <1>5, <1>6, <2>2 DEF Treats, Spares
  <2>. QED
    BY <2>1, <2>2
<1>8. TellShape'
  <2>1. answer' = [q \in Requests |-> answer'[q]]
    BY <1>3 DEF Complete
  <2>2. good' \in [Threads -> BOOLEAN]
    BY <1>1, <1>2 DEF TellShape
  <2>. QED
    BY <1>5, <2>1, <2>2 DEF TellShape
<1>9. Listed'
  <2>1. \A q \in Requests : kind[q] \in Presence => kind'[q] = kind[q]
    BY <1>5
  <2>. QED
    BY <1>1, <1>2, <2>1 DEF Listed, waitVars, Presence
<1>. QED
  BY <1>1, <1>5, <1>7, <1>8, <1>9, EndMoves

LEMMA RequestTold == ASSUME IInv, ToldInv, NEW r \in Requests, RequestStep(r) PROVE ToldInv'
BY QueryTold, ParkTold, AnswerTold DEF RequestStep

-----------------------------------------------------------------------------
(* Requests arrive and are cancelled.                                      *)

\* A request that asks for no presence arrives.
LEMMA ServesTold ==
  ASSUME IInv, ToldInv, NEW r \in Requests, NEW k, k \notin Presence, Arrives(r, k),
         UNCHANGED history,
         \A q \in Requests : q # r => wdf'[q] = wdf[q] /\ answer'[q] = answer[q],
         answer' = [q \in Requests |-> answer'[q]], wdf'[r] # "done" => answer'[r] = "none",
         UNCHANGED pc \/ Goto(r, "query")
  PROVE  ToldInv'
<1>1. /\ wdf[r] = "new" /\ kind' = [kind EXCEPT ![r] = k] /\ r \in Threads
      /\ UNCHANGED <<backend, good, data, link, card, events>> /\ UNCHANGED <<waitVars, seen, missed>>
  BY DEF Arrives, peerVars, history, Threads
<1>2. TellShape /\ Listed /\ PeerShape /\ kind[r] \notin Presence
  BY <1>1 DEF ToldInv, Untold
<1>3. /\ kind'[r] = k /\ \A q \in Requests : q # r => kind'[q] = kind[q]
      /\ kind' = [q \in Requests |-> kind'[q]]
      /\ \A q \in Commands : kind'[q] \notin Presence
  BY <1>1, <1>2, BixAssumption DEF TellShape, Presence
<1>4. (Present' <=> Present) /\ (Connected' <=> Connected) /\ PeerShape'
  BY <1>1, <1>2 DEF Present, Connected, PeerShape
<1>5. (CardDue' => CardDue) /\ (NoCardDue' => NoCardDue)
  <2>1. \A i \in {0, 1} : i \in {events'[j] : j \in 1..Len(events')} => i \in {events[j] : j \in 1..Len(events)}
    BY <1>1
  <2>2. CASE Goto(r, "query")
    <3>1. /\ CardDue' => Present' \/ "query" = "drain" \/ CardDue
          /\ NoCardDue' => ~Connected' \/ "query" \in {"remove", "tell absent"} \/ NoCardDue
      <4>. HIDE DEF CardDue, NoCardDue, Present, Connected
      <4>. QED
        BY <1>1, <2>1, <2>2, DueMoved, Zenon
    <3>2. (Present => CardDue) /\ (~Connected => NoCardDue)
      BY DEF CardDue, NoCardDue
    <3>. QED
      BY <1>4, <3>1, <3>2
  <2>3. CASE UNCHANGED pc
    BY <1>1, <1>4, <2>3 DEF CardDue, NoCardDue, RemovalUnderway
  <2>. QED
    BY <2>2, <2>3
<1>6. TellShape' /\ Listed'
  BY <1>1, <1>2, <1>3 DEF TellShape, Listed, waitVars, Presence
<1>7. ASSUME NEW q \in Requests PROVE Treats(q) /\ Thinks(q)'
  <2>1. CASE q = r
    <3>1. Treats(r)
      BY <1>2, <1>3 DEF Treats, Serves
    <3>2. Thinks(r)'
      BY <1>3 DEF Thinks
    <3>. QED
      BY <2>1, <3>1, <3>2
  <2>2. CASE q # r
    <3>1. Thinks(q) /\ q \in Threads /\ kind'[q] = kind[q] /\ pc'[q] = pc[q]
      BY <1>1, <1>3, <2>2, Moved DEF ToldInv, Threads
    <3>2. Thinks(q)'
      BY <1>1, <3>1, ThinksOn
    <3>. QED
      BY <2>2, <3>1, <3>2 DEF Treats, Spares
  <2>. QED
    BY <2>1, <2>2
<1>. QED
  BY <1>1, <1>4, <1>5, <1>6, <1>7, ToldFrom

LEMMA RepliedTold ==
  ASSUME IInv, ToldInv, NEW r \in Requests,
         Replied(r) \/ NoReader(r)
           \/ (Arrives(r, "any") /\ Complete({r}, "failed") /\ UNCHANGED <<pc, history>>)
  PROVE  ToldInv'
<1>1. Arrives(r, "any") /\ UNCHANGED <<pc, history>>
  BY DEF Replied, NoReader
<1>2. PICK status : Complete({r}, status)
  BY DEF Replied, NoReader
<1>3. /\ answer' = [q \in Requests |-> answer'[q]] /\ wdf'[r] = "done"
      /\ \A q \in Requests : q # r => wdf'[q] = wdf[q] /\ answer'[q] = answer[q]
  BY <1>2 DEF Complete
<1>4. "any" \notin Presence
  BY DEF Presence
<1>. QED
  BY <1>1, <1>3, <1>4, ServesTold

LEMMA ExchangesTold ==
  ASSUME IInv, ToldInv, NEW r \in Requests, NEW k \in {"query", "transmit"}, Exchanges(r, k)
  PROVE  ToldInv'
<1>1. Arrives(r, k) /\ Goto(r, "query") /\ UNCHANGED history /\ answer' = answer /\ wdf[r] = "new"
      /\ wdf' = [wdf EXCEPT ![r] = "held"]
  BY DEF Exchanges, Held, Arrives
<1>2. wdf \in [Requests -> States] /\ TellShape /\ answer[r] = "none"
  BY <1>1 DEF IInv, Shape, ToldInv, Untold
<1>3. /\ answer' = [q \in Requests |-> answer'[q]] /\ answer'[r] = "none"
      /\ \A q \in Requests : q # r => wdf'[q] = wdf[q] /\ answer'[q] = answer[q]
  BY <1>1, <1>2 DEF TellShape
<1>4. k \notin Presence
  BY DEF Presence
<1>. QED
  BY <1>1, <1>3, <1>4, ServesTold

LEMMA CommandTold == ASSUME IInv, ToldInv, NEW r \in Commands, CommandArrives(r) PROVE ToldInv'
<1>1. r \in Requests
  BY BixAssumption
<1>. QED
  BY <1>1, RepliedTold, ExchangesTold
  DEF CommandArrives, IoSmartCardGetState, IoSmartCardSetAttribute, IoSmartCardGetAttribute,
      IoSmartCardPower, IoSmartCardSetProtocol, IoSmartCardTransmit

\* A request that asks for presence is counted with those that ask, and a card or
\* its absence that is due then is due to it too.
LEMMA AsksPresenceTold ==
  ASSUME IInv, ToldInv, NEW r \in Requests \ Commands, AsksPresence(r) PROVE ToldInv'
<1>1. PICK k \in Presence : Arrives(r, k)
  BY DEF AsksPresence, Presence
<1>2. /\ wdf[r] = "new" /\ kind' = [kind EXCEPT ![r] = k] /\ r \in Threads
      /\ UNCHANGED <<backend, good, data, link, card, events>> /\ UNCHANGED waitVars
      /\ wdf' = [wdf EXCEPT ![r] = "held"] /\ answer' = answer /\ Goto(r, "check")
      /\ seen' = IF Present \/ InsertionUnderway THEN seen \cup {r} ELSE seen
      /\ missed' = IF ~Connected \/ RemovalUnderway THEN missed \cup {r} ELSE missed
  BY <1>1 DEF AsksPresence, Arrives, Held, peerVars, Threads
<1>3. TellShape /\ Listed /\ PeerShape /\ Witnessed /\ Untold(r) /\ wdf \in [Requests -> States]
  BY DEF ToldInv, IInv, Shape
<1>4. /\ kind'[r] = k /\ \A q \in Requests : q # r => kind'[q] = kind[q] /\ wdf'[q] = wdf[q]
      /\ kind' = [q \in Requests |-> kind'[q]] /\ wdf'[r] = "held"
  BY <1>2, <1>3 DEF TellShape
<1>5. (Present' <=> Present) /\ (Connected' <=> Connected) /\ PeerShape'
  BY <1>2, <1>3 DEF Present, Connected, PeerShape
<1>6. (CardDue' => CardDue) /\ (NoCardDue' => NoCardDue)
  <2>1. \A i \in {0, 1} : i \in {events'[j] : j \in 1..Len(events')} => i \in {events[j] : j \in 1..Len(events)}
    BY <1>2
  <2>2. /\ CardDue' => Present' \/ "check" = "drain" \/ CardDue
        /\ NoCardDue' => ~Connected' \/ "check" \in {"remove", "tell absent"} \/ NoCardDue
    <3>. HIDE DEF CardDue, NoCardDue, Present, Connected
    <3>. QED
      BY <1>2, <2>1, DueMoved, Zenon
  <2>3. (Present => CardDue) /\ (~Connected => NoCardDue)
    BY DEF CardDue, NoCardDue
  <2>. QED
    BY <1>5, <2>2, <2>3
<1>7. Asking' \subseteq Asking \cup {r}
  BY <1>4 DEF Asking, Outstanding
<1>8. Witnessed'
  <2>1. CardDue => seen' = seen \cup {r}
    BY <1>2 DEF CardDue, InsertionUnderway
  <2>2. NoCardDue => missed' = missed \cup {r}
    BY <1>2 DEF NoCardDue
  <2>. QED
    BY <1>3, <1>6, <1>7, <2>1, <2>2 DEF Witnessed
<1>9. TellShape' /\ Listed'
  <2>1. TellShape'
    BY <1>2, <1>3, <1>4, BixAssumption DEF TellShape
  <2>2. Listed'
    <3>1. kind[r] \notin Presence
      BY <1>2, <1>3 DEF Untold
    <3>2. \A q \in Requests : kind[q] \in Presence => kind'[q] = kind[q]
      BY <1>4, <3>1
    <3>. QED
      BY <1>2, <1>3, <3>2 DEF Listed, waitVars, Presence
  <2>. QED
    BY <2>1, <2>2
<1>10. seen \subseteq seen' /\ missed \subseteq missed' /\ answer[r] = "none"
  BY <1>2, <1>3 DEF Untold
<1>11. ASSUME NEW q \in Requests
       PROVE Thinks(q)' /\ Untold(q)' /\ (answer'[q] = "success" => q # r /\ kind'[q] = kind[q] /\ answer[q] = "success")
  <2>1. Thinks(q) /\ Untold(q) /\ q \in Threads
    BY DEF ToldInv, Threads
  <2>2. CASE q = r
    <3>1. pc'[r] = "check"
      BY <1>2, Moved
    <3>. QED
      BY <1>2, <1>4, <1>10, <2>2, <3>1 DEF Thinks, Untold
  <2>3. CASE q # r
    <3>1. pc'[q] = pc[q] /\ kind'[q] = kind[q] /\ wdf'[q] = wdf[q] /\ good'[q] = good[q]
      BY <1>2, <1>4, <2>1, <2>3, Moved
    <3>2. Thinks(q)'
      BY <1>10, <2>1, <3>1, ThinksOn
    <3>. QED
      BY <1>2, <2>1, <2>3, <3>1, <3>2 DEF Untold
  <2>. QED
    BY <2>2, <2>3
<1>12. ToldTruly'
  BY <1>10, <1>11 DEF ToldInv, ToldTruly
<1>. QED
  BY <1>5, <1>8, <1>9, <1>11, <1>12 DEF ToldInv

LEMMA CancelTold == ASSUME IInv, ToldInv, NEW r \in Requests, Cancel(r) \/ CancelCallback(r) PROVE ToldInv'
<1>1. UNCHANGED <<backend, waitInsertIpr, waitRemoveIpr, pc, kind, good, data>>
      /\ UNCHANGED <<link, card, events, seen, missed>>
  BY DEF Cancel, CancelCallback, waitVars, peerVars, history
<1>2. (CardDue' => CardDue) /\ (NoCardDue' => NoCardDue) /\ PeerShape'
  BY <1>1 DEF CardDue, NoCardDue, Present, Connected, RemovalUnderway, ToldInv, PeerShape
<1>3. \A q \in Requests : GoesOn(q)
  BY <1>1 DEF GoesOn
<1>4. CASE Cancel(r)
  <2>1. UNCHANGED <<wdf, answer>>
    BY <1>4 DEF Cancel, reqVars
  <2>. QED
    BY <1>1, <1>2, <1>3, <2>1, StillTold
<1>5. CASE CancelCallback(r)
  <2>1. Complete({r}, "cancelled")
    BY <1>5 DEF CancelCallback
  <2>. QED
    BY <1>1, <1>2, <1>3, <2>1, EndsTruly
<1>. QED
  BY <1>4, <1>5

-----------------------------------------------------------------------------
(* The device, and the side of the card.                                   *)

\* Nobody moves but the card's side.
LEMMA PeerTold ==
  ASSUME IInv, ToldInv, PeerComes \/ PeerGoes \/ CardMoves PROVE ToldInv'
<1>1. UNCHANGED <<backend, kind, good, wdf, answer, waitInsertIpr, waitRemoveIpr, pc>> /\ Witness
  BY DEF PeerComes, PeerGoes, CardMoves, PeerMoves, waitVars, reqVars
<1>2. seen \subseteq seen' /\ missed \subseteq missed'
      /\ (Present' => Asking \subseteq seen') /\ (~Connected' => Asking \subseteq missed')
  BY <1>1 DEF Witness
<1>3. PeerShape
  BY DEF ToldInv
<1>4. \A r \in Requests : GoesOn(r)
  BY <1>1 DEF GoesOn
<1>5. CASE PeerComes \/ PeerGoes
  <2>1. events' = <<>> \/ events' = events
    BY <1>5 DEF PeerComes, PeerGoes
  <2>2. \A i \in {0, 1} : i \in {events'[j] : j \in 1..Len(events')} => i \in {events[j] : j \in 1..Len(events)}
    <3>1. CASE events' = events
      BY <3>1
    <3>2. CASE events' = <<>>
      <4>1. Len(events') = 0
        BY <3>2
      <4>. QED
        BY <4>1
    <3>. QED
      BY <2>1, <3>1, <3>2
  <2>3. PeerShape'
    <3>1. events' \in Seq({0, 1})
      <4>1. events \in Seq({0, 1})
        BY <1>3 DEF PeerShape
      <4>2. <<>> \in Seq({0, 1})
        OBVIOUS
      <4>. QED
        BY <2>1, <4>1, <4>2
    <3>2. CASE PeerComes
      BY <1>1, <1>3, <3>1, <3>2 DEF PeerComes, PeerShape
    <3>3. CASE PeerGoes
      BY <1>1, <1>3, <3>1, <3>3 DEF PeerGoes, PeerShape
    <3>. QED
      BY <1>5, <3>2, <3>3
  <2>4. CardDue' => CardDue \/ Asking \subseteq seen'
    BY <1>1, <1>2, <2>2 DEF CardDue
  <2>5. NoCardDue' => NoCardDue \/ Asking \subseteq missed'
    BY <1>1, <1>2, <2>2 DEF NoCardDue, RemovalUnderway
  <2>. QED
    BY <1>1, <1>2, <1>4, <2>3, <2>4, <2>5, StillTold
<1>6. CASE CardMoves
  <2>1. PICK e \in {0, 1} : e = (IF card THEN 0 ELSE 1) /\ events' = Append(events, e)
    BY <1>6 DEF CardMoves
  <2>2. link /\ link' = link /\ card' = ~card /\ data' = data /\ backend # "vpcd"
    BY <1>6 DEF CardMoves
  <2>3. \A i \in {0, 1} : i \in {events'[j] : j \in 1..Len(events')} => i = e \/ i \in {events[j] : j \in 1..Len(events)}
    <3>1. PICK n \in Nat : n = Len(events)
      BY <1>3 DEF PeerShape
    <3>2. /\ Len(events') = n + 1 /\ events'[n + 1] = e
          /\ \A j \in 1..n : events'[j] = events[j]
      BY <1>3, <2>1, <3>1 DEF PeerShape
    <3>3. \A j \in 1..(n + 1) : j = n + 1 \/ j \in 1..n
      BY <3>1
    <3>. QED
      BY <3>1, <3>2, <3>3
  <2>4. PeerShape'
    BY <1>1, <1>3, <2>1, <2>2 DEF PeerShape
  <2>5. (e = 1 => Present') /\ (e = 0 => ~Connected')
    <3>1. CASE card
      <4>1. e = 0 /\ ~card'
        BY <2>1, <2>2, <3>1
      <4>. QED
        BY <4>1 DEF Connected
    <3>2. CASE ~card
      <4>1. e = 1 /\ card' /\ link'
        BY <2>1, <2>2, <3>2
      <4>. QED
        BY <4>1 DEF Present
    <3>. QED
      BY <3>1, <3>2
  <2>6. CardDue' => CardDue \/ Asking \subseteq seen'
    BY <1>1, <1>2, <2>3, <2>5 DEF CardDue
  <2>7. NoCardDue' => NoCardDue \/ Asking \subseteq missed'
    BY <1>1, <1>2, <2>3, <2>5 DEF NoCardDue, RemovalUnderway
  <2>. QED
    BY <1>1, <1>2, <1>4, <2>4, <2>6, <2>7, StillTold
<1>. QED
  BY <1>5, <1>6

LEMMA D0EntryTold == ASSUME IInv, ToldInv, D0Entry \/ ShutdownBegins PROVE ToldInv'
<1>1. CASE D0Entry
  <2>1. Goto(Server, "start") /\ Server \in Threads
        /\ UNCHANGED <<backend, kind, good, waitVars, reqVars, data, peerVars, history>>
    BY <1>1 DEF D0Entry, Threads
  <2>. QED
    BY <2>1, PlainMove
<1>2. CASE ShutdownBegins
  <2>1. UNCHANGED <<backend, waitInsertIpr, waitRemoveIpr, pc, kind, good, data, wdf, answer>>
        /\ UNCHANGED <<link, card, events, seen, missed>>
    BY <1>2 DEF ShutdownBegins, waitVars, peerVars, history, reqVars
  <2>2. (CardDue' => CardDue) /\ (NoCardDue' => NoCardDue) /\ PeerShape'
    BY <2>1 DEF CardDue, NoCardDue, Present, Connected, RemovalUnderway, ToldInv, PeerShape
  <2>3. \A q \in Requests : GoesOn(q)
    BY <2>1 DEF GoesOn
  <2>. QED
    BY <2>1, <2>2, <2>3, StillTold
<1>. QED
  BY <1>1, <1>2

LEMMA ServerIsAwaitedTold == ASSUME IInv, ToldInv, ServerIsAwaited PROVE ToldInv'
<1>1. UNCHANGED <<backend, waitInsertIpr, waitRemoveIpr, pc, kind, good, wdf, answer, events, seen>>
  BY DEF ServerIsAwaited, waitVars, reqVars
<1>2. \A q \in Requests : GoesOn(q)
  BY <1>1 DEF GoesOn
<1>3. PeerShape
  BY DEF ToldInv
<1>4. CASE backend = "vpcd"
  <2>1. link' = FALSE /\ card' = FALSE /\ data' = "none" /\ missed' = missed \cup Asking
    BY <1>4 DEF ServerIsAwaited
  <2>2. PeerShape'
    BY <1>1, <1>3, <2>1 DEF PeerShape
  <2>3. CardDue' => CardDue
    BY <1>1, <2>1 DEF CardDue, Present
  <2>. QED
    BY <1>1, <1>2, <2>1, <2>2, <2>3, StillTold
<1>5. CASE backend # "vpcd"
  <2>1. UNCHANGED <<link, card, data, missed>>
    BY <1>5 DEF ServerIsAwaited
  <2>2. (CardDue' => CardDue) /\ (NoCardDue' => NoCardDue) /\ PeerShape'
    BY <1>1, <1>3, <2>1 DEF CardDue, NoCardDue, Present, Connected, RemovalUnderway, PeerShape
  <2>. QED
    BY <1>1, <1>2, <2>1, <2>2, StillTold
<1>. QED
  BY <1>4, <1>5

LEMMA ShutdownDrainsTold == ASSUME IInv, ToldInv, ShutdownDrains PROVE ToldInv'
<1>1. UNCHANGED <<backend, pc, kind, good, data, link, card, events, seen, missed>>
      /\ waitInsertIpr' = {} /\ waitRemoveIpr' = {}
      /\ Complete(Owned(waitRemoveIpr \cup waitInsertIpr), "cancelled")
  BY DEF ShutdownDrains, peerVars, history
<1>2. (CardDue' => CardDue) /\ (NoCardDue' => NoCardDue) /\ PeerShape'
  BY <1>1 DEF CardDue, NoCardDue, Present, Connected, RemovalUnderway, ToldInv, PeerShape
<1>3. \A q \in Requests : GoesOn(q)
  BY <1>1 DEF GoesOn
<1>. QED
  BY <1>1, <1>2, <1>3, EndsTruly

LEMMA DeletesTold == ASSUME IInv, ToldInv, Deletes PROVE ToldInv'
<1>1. /\ UNCHANGED <<backend, kind, good, wdf, answer, seen>>
      /\ waitInsertIpr' = {} /\ waitRemoveIpr' = {}
      /\ link' = FALSE /\ card' = FALSE /\ data' = "none" /\ events' = <<>>
      /\ missed' = missed \cup Asking
      /\ pc' = [t \in Threads |-> IF t = Server \/ pc[t] = "none" THEN "none" ELSE "stale"]
  BY DEF Deletes, reqVars
<1>2. ~CardDue'
  <2>1. events' = <<>> /\ Len(events') = 0
    BY <1>1
  <2>2. {events'[i] : i \in 1..Len(events')} = {}
    BY <2>1
  <2>. QED
    BY <1>1, <2>2 DEF CardDue, Present
<1>3. PeerShape'
  <2>1. events' \in Seq({0, 1})
    BY <1>1
  <2>2. link' \in BOOLEAN /\ card' \in BOOLEAN /\ ~link' /\ data' # "open"
    BY <1>1
  <2>. QED
    BY <1>1, <2>1, <2>2 DEF ToldInv, PeerShape
<1>4. \A r \in Requests : GoesOn(r)
  BY <1>1 DEF GoesOn, Threads
<1>. QED
  BY <1>1, <1>2, <1>3, <1>4, StillTold

-----------------------------------------------------------------------------
LEMMA InitTold == Init => ToldInv
<1> SUFFICES ASSUME Init PROVE ToldInv
  OBVIOUS
<1>1. /\ pc = [t \in Threads |-> "none"] /\ kind = [r \in Requests |-> "none"]
      /\ good = [t \in Threads |-> FALSE] /\ wdf = [r \in Requests |-> "new"]
      /\ answer = [r \in Requests |-> "none"] /\ waitInsertIpr = {} /\ waitRemoveIpr = {}
      /\ link = FALSE /\ card = FALSE /\ data = "none" /\ events = <<>> /\ backend \in Backends
  BY DEF Init
<1>2. PeerShape
  <2>1. events \in Seq({0, 1})
    BY <1>1
  <2>. QED
    BY <1>1, <2>1, BixAssumption DEF PeerShape
<1>3. TellShape /\ Listed
  BY <1>1, BixAssumption DEF TellShape, Listed, Presence
<1>4. Asking = {}
  BY <1>1 DEF Asking, Outstanding
<1>5. Witnessed
  BY <1>4 DEF Witnessed
<1>6. ASSUME NEW r \in Requests PROVE Thinks(r) /\ Untold(r) /\ answer[r] = "none"
  BY <1>1 DEF Thinks, Untold, Presence, Threads
<1>7. ToldTruly
  BY <1>6 DEF ToldTruly
<1>. QED
  BY <1>2, <1>3, <1>5, <1>6, <1>7 DEF ToldInv

LEMMA NextTold == IInv /\ ToldInv /\ [Next]_vars => ToldInv'
<1> SUFFICES ASSUME IInv, ToldInv, [Next]_vars PROVE ToldInv'
  OBVIOUS
<1>1. CASE UNCHANGED vars
  <2>1. UNCHANGED <<backend, waitInsertIpr, waitRemoveIpr, pc, kind, good, data, wdf, answer>>
        /\ UNCHANGED <<link, card, events, seen, missed>>
    BY <1>1 DEF vars, waitVars, peerVars, history, reqVars
  <2>2. (CardDue' => CardDue) /\ (NoCardDue' => NoCardDue) /\ PeerShape'
    BY <2>1 DEF CardDue, NoCardDue, Present, Connected, RemovalUnderway, ToldInv, PeerShape
  <2>3. \A q \in Requests : GoesOn(q)
    BY <2>1 DEF GoesOn
  <2>. QED
    BY <2>1, <2>2, <2>3, StillTold
<1>2. CASE \E t \in Threads : Runs(t)
  BY <1>2, ThreadTold, ServerTold, RequestTold DEF Runs
<1>3. CASE \E r \in Requests \ Commands : AsksPresence(r)
  BY <1>3, AsksPresenceTold
<1>4. CASE \E r \in Commands : CommandArrives(r)
  BY <1>4, CommandTold
<1>5. CASE \E r \in Requests : NoReader(r) \/ Cancel(r) \/ CancelCallback(r)
  BY <1>5, RepliedTold, CancelTold
<1>6. CASE D0Entry \/ ShutdownBegins
  BY <1>6, D0EntryTold
<1>7. CASE ShutdownStep \/ UsesDeleted
  BY <1>7, ServerIsAwaitedTold, ShutdownDrainsTold, DeletesTold, CrashTold
  DEF ShutdownStep, DrainsStale, UsesDeleted
<1>8. CASE PeerComes \/ PeerGoes \/ CardMoves
  BY <1>8, PeerTold
<1>. QED
  BY <1>1, <1>2, <1>3, <1>4, <1>5, <1>6, <1>7, <1>8 DEF Next

\* Whoever waits for a card, or for its absence, is told only what was so at some
\* time since it asked, or was already on its way to be told when it asked: the
\* check of a handler (CheckATR), the lists that signalInsertion and signalRemoval
\* empty, and the events of the sockets and pipes, however they interleave with
\* the card, with cancellations, shutdowns and the end of the host process.
THEOREM EveryoneIsToldTruly == Spec => []ToldTruly
<1>1. Spec => [](IInv /\ ToldInv)
  <2>1. Init => IInv /\ ToldInv
    BY InitInv, InitTold
  <2>2. (IInv /\ ToldInv) /\ [Next]_vars => (IInv /\ ToldInv)'
    BY NextInv, NextTold
  <2>. QED
    BY <2>1, <2>2, PTL DEF Spec
<1>2. IInv /\ ToldInv => ToldTruly
  BY DEF ToldInv
<1>. QED
  BY <1>1, <1>2, PTL

-----------------------------------------------------------------------------
(* The least-number principle, and what it says of a function that is      *)
(* defined from its value at the number before.                            *)

NatLess == {ss \in Nat \X Nat : ss[1] < ss[2]}

LEMMA Least == ASSUME NEW S, S \subseteq Nat, S # {} PROVE \E m \in S : \A n \in S : m <= n
<1>1. IsWellFoundedOn(NatLess, Nat)
  <2>1. OpToRel(<, Nat) = NatLess
    BY DEF OpToRel, NatLess
  <2>. QED
    BY <2>1, NatLessThanWellFounded, Zenon
<1>2. PICK m \in S : \A n \in S : ~(<<n, m>> \in NatLess)
  BY <1>1, WFMin
<1>3. \A n \in S : ~(n < m)
  BY <1>2 DEF NatLess
<1>. QED
  BY <1>3

StepsIn(n, A, a, step) == a \in A /\ \A i \in 2 .. n : \A x \in A : step[i][x] \in A
Recurs(g, n, A, a, step) == g \in [1 .. n -> A] /\ g[1] = a /\ \A i \in 2 .. n : g[i] = step[i][g[i - 1]]

LEMMA RecursionExists ==
  ASSUME NEW n \in Nat \ {0}, NEW A, NEW a, NEW step, StepsIn(n, A, a, step)
  PROVE  \E g : Recurs(g, n, A, a, step)
<1> USE DEF StepsIn, Recurs
<1> DEFINE Bad == {m \in 1 .. n : ~\E g : Recurs(g, m, A, a, step)}
<1>1. SUFFICES Bad = {}
  <2>1. n \in 1 .. n
    OBVIOUS
  <2>. QED
    BY <1>1, <2>1
<1>2. SUFFICES ASSUME Bad # {} PROVE FALSE
  OBVIOUS
<1>3. PICK m \in Bad : \A k \in Bad : m <= k
  <2>1. Bad \subseteq Nat
    OBVIOUS
  <2>. HIDE DEF Bad
  <2>. QED
    BY <1>2, <2>1, Least
<1>4. m \in 1 .. n /\ ~\E g : Recurs(g, m, A, a, step)
  BY <1>3
<1>5. CASE m = 1
  <2>1. [i \in 1 .. 1 |-> a] \in [1 .. 1 -> A] /\ [i \in 1 .. 1 |-> a][1] = a
    OBVIOUS
  <2>2. Recurs([i \in 1 .. 1 |-> a], 1, A, a, step)
    BY <2>1
  <2>. QED
    BY <1>4, <1>5, <2>2
<1>6. CASE m # 1
  <2>1. m - 1 \in 1 .. n /\ ~(m <= m - 1) /\ m \in 2 .. n
    BY <1>4, <1>6
  <2>2. PICK g : Recurs(g, m - 1, A, a, step)
    <3>1. m - 1 \notin Bad
      BY <1>3, <2>1
    <3>. QED
      BY <2>1, <3>1
  <2>3. m - 1 \in 1 .. m - 1 /\ g[m - 1] \in A /\ step[m][g[m - 1]] \in A
    BY <2>1, <2>2
  <2>4. PICK h : h = [i \in 1 .. m |-> IF i = m THEN step[m][g[m - 1]] ELSE g[i]]
    OBVIOUS
  <2>5. h \in [1 .. m -> A] /\ h[1] = a
    <3>1. \A i \in 1 .. m : i # m => i \in 1 .. m - 1
      BY <1>4
    <3>2. 1 \in 1 .. m
      BY <1>4
    <3>. QED
      BY <1>6, <2>2, <2>3, <2>4, <3>1, <3>2
  <2>6. ASSUME NEW i \in 2 .. m PROVE h[i] = step[i][h[i - 1]]
    <3>1. i - 1 \in 1 .. m /\ i - 1 # m /\ i \in 1 .. m
      BY <2>1
    <3>2. h[i - 1] = g[i - 1]
      BY <2>4, <3>1
    <3>3. CASE i = m
      BY <2>4, <3>1, <3>2, <3>3
    <3>4. CASE i # m
      <4>1. i \in 2 .. m - 1
        BY <2>1, <3>4
      <4>2. g[i] = step[i][g[i - 1]] /\ h[i] = g[i]
        BY <2>2, <2>4, <3>1, <3>4, <4>1
      <4>. QED
        BY <3>2, <4>2
    <3>. QED
      BY <3>3, <3>4
  <2>. QED
    BY <1>4, <2>5, <2>6
<1>. QED
  BY <1>5, <1>6

-----------------------------------------------------------------------------
(* The protocols an ATR offers.                                            *)

LetterSet == {"A", "B", "C", "D"}
Walked(n, atr) == [left : SUBSET LetterSet, offered : SUBSET {atr[i].lo : i \in 1 .. n}]
IsAtr(n, atr) == DOMAIN atr = 1 .. n /\ \A i \in 1 .. n : atr[i].hi \subseteq LetterSet

\* D is the last of the letters.
LEMMA NextLetterIs ==
  ASSUME NEW left, left \subseteq LetterSet, left # {}
  PROVE  NextLetter(left) \in left /\ (NextLetter(left) = "D" <=> left = {"D"})
<1>1. \A k \in 1 .. 4 : k = 1 \/ k = 2 \/ k = 3 \/ k = 4
  OBVIOUS
<1>2. Letters[1] = "A" /\ Letters[2] = "B" /\ Letters[3] = "C" /\ Letters[4] = "D"
  BY DEF Letters
<1>3. PICK first : first = CHOOSE k \in 1..4 : Letters[k] \in left /\ \A j \in 1..(k - 1) : Letters[j] \notin left
  OBVIOUS
<1>4. \E k \in 1..4 : Letters[k] \in left /\ \A j \in 1..(k - 1) : Letters[j] \notin left
  <2>1. /\ 1..(1 - 1) = {} /\ 1..(2 - 1) = {1} /\ 1..(3 - 1) = {1, 2} /\ 1..(4 - 1) = {1, 2, 3}
        /\ 1 \in 1..4 /\ 2 \in 1..4 /\ 3 \in 1..4 /\ 4 \in 1..4
    OBVIOUS
  <2>2. CASE "A" \in left
    BY <1>2, <2>1, <2>2
  <2>3. CASE "A" \notin left /\ "B" \in left
    BY <1>2, <2>1, <2>3
  <2>4. CASE "A" \notin left /\ "B" \notin left /\ "C" \in left
    BY <1>2, <2>1, <2>4
  <2>5. CASE "A" \notin left /\ "B" \notin left /\ "C" \notin left
    <3>1. "D" \in left
      BY <2>5 DEF LetterSet
    <3>. QED
      BY <1>2, <2>1, <2>5, <3>1
  <2>. QED
    BY <2>2, <2>3, <2>4, <2>5
<1>5. first \in 1..4 /\ Letters[first] \in left /\ \A j \in 1..(first - 1) : Letters[j] \notin left
  BY <1>3, <1>4
<1>6. NextLetter(left) = Letters[first]
  BY <1>3 DEF NextLetter
<1>7. Letters[first] = "D" => first = 4
  BY <1>1, <1>2, <1>5
<1>8. first = 4 => left = {"D"}
  <2>1. ASSUME first = 4 PROVE "A" \notin left /\ "B" \notin left /\ "C" \notin left
    <3>1. 1 \in 1..(first - 1) /\ 2 \in 1..(first - 1) /\ 3 \in 1..(first - 1)
      BY <2>1
    <3>. QED
      BY <1>2, <1>5, <3>1
  <2>. QED
    BY <2>1 DEF LetterSet
<1>. QED
  BY <1>5, <1>6, <1>7, <1>8

\* What is left is finite, and is counted down letter by letter.
LEMMA LeftIs ==
  ASSUME NEW left, left \subseteq LetterSet
  PROVE  /\ Cardinality(left) \in Nat /\ (Cardinality(left) = 0 <=> left = {})
         /\ "D" \in left => (Cardinality(left) = 1 <=> left = {"D"})
         /\ \A l \in left : Cardinality(left \ {l}) = Cardinality(left) - 1
<1>1. IsFiniteSet(left)
  <2>1. IsFiniteSet(LetterSet)
    <3>1. IsFiniteSet({"A"})
      BY FS_Singleton
    <3>2. IsFiniteSet({"A", "B"})
      <4>1. {"A"} \cup {"B"} = {"A", "B"}
        OBVIOUS
      <4>. QED
        BY <3>1, <4>1, FS_AddElement
    <3>3. IsFiniteSet({"A", "B", "C"})
      <4>1. {"A", "B"} \cup {"C"} = {"A", "B", "C"}
        OBVIOUS
      <4>. QED
        BY <3>2, <4>1, FS_AddElement
    <3>4. {"A", "B", "C"} \cup {"D"} = LetterSet
      BY DEF LetterSet
    <3>. QED
      BY <3>3, <3>4, FS_AddElement
  <2>. QED
    BY <2>1, FS_Subset
<1>2. Cardinality(left) \in Nat /\ (Cardinality(left) = 0 <=> left = {})
  BY <1>1, FS_CardinalityType, FS_EmptySet
<1>3. "D" \in left => (Cardinality(left) = 1 <=> left = {"D"})
  <2>1. Cardinality(left) = 1 <=> \E x : left = {x}
    BY <1>1, FS_Singleton
  <2>. QED
    BY <2>1
<1>4. \A l \in left : Cardinality(left \ {l}) = Cardinality(left) - 1
  BY <1>1, FS_RemoveElement
<1>. QED
  BY <1>2, <1>3, <1>4

\* What one byte does.
Takes(now, was, byte) ==
  /\ was.left = {} => now = was
  /\ was.left = {"D"} => now = [left |-> byte.hi, offered |-> was.offered \cup {byte.lo}]
  /\ was.left # {} /\ was.left # {"D"} =>
       \E l \in was.left : l # "D" /\ now = [left |-> was.left \ {l}, offered |-> was.offered]

LEMMA TakeByteIs ==
  ASSUME NEW n, NEW atr, IsAtr(n, atr), NEW i \in 1 .. n, NEW was \in Walked(n, atr)
  PROVE  TakeByte(was, atr[i]) \in Walked(n, atr) /\ Takes(TakeByte(was, atr[i]), was, atr[i])
<1> USE DEF Takes
<1>1. was.left \subseteq LetterSet /\ was.offered \subseteq {atr[k].lo : k \in 1 .. n}
  BY DEF Walked
<1>2. atr[i].hi \subseteq LetterSet /\ atr[i].lo \in {atr[k].lo : k \in 1 .. n}
  BY DEF IsAtr
<1>3. CASE was.left = {}
  BY <1>3 DEF TakeByte
<1>4. CASE was.left = {"D"}
  <2>1. NextLetter(was.left) = "D"
    BY <1>1, <1>4, NextLetterIs
  <2>2. TakeByte(was, atr[i]) = [left |-> atr[i].hi, offered |-> was.offered \cup {atr[i].lo}]
    BY <1>4, <2>1 DEF TakeByte
  <2>3. TakeByte(was, atr[i]) \in Walked(n, atr)
    BY <1>1, <1>2, <2>2 DEF Walked
  <2>. QED
    BY <1>4, <2>2, <2>3
<1>5. CASE was.left # {} /\ was.left # {"D"}
  <2>1. PICK l : l = NextLetter(was.left)
    OBVIOUS
  <2>2. l \in was.left /\ l # "D"
    BY <1>1, <1>5, <2>1, NextLetterIs
  <2>3. TakeByte(was, atr[i]) = [was EXCEPT !.left = was.left \ {l}]
    BY <1>5, <2>1, <2>2 DEF TakeByte
  <2>4. TakeByte(was, atr[i]) = [left |-> was.left \ {l}, offered |-> was.offered]
    BY <2>3 DEF Walked
  <2>5. TakeByte(was, atr[i]) \in Walked(n, atr)
    BY <1>1, <2>4 DEF Walked
  <2>. QED
    BY <1>5, <2>2, <2>4, <2>5
<1>. QED
  BY <1>3, <1>4, <1>5

\* The walk of initProtocols, and where a TD byte is taken from it.
IsWalk(walk, n, atr) ==
  /\ walk \in [1 .. n -> Walked(n, atr)]
  /\ walk[1] = [left |-> atr[1].hi, offered |-> {}]
  /\ \A i \in 2 .. n : walk[i] = TakeByte(walk[i - 1], atr[i])
Taken(walk, n) == [i \in 1 .. n |-> i # 1 /\ walk[i - 1].left = {"D"}]

\* The bytes that announce others, where those end, and whether a byte is a TD byte.
Announces(td, j) == j = 1 \/ td[j]
EndOf(atr, j) == j + Cardinality(atr[j].hi)
Follows(td, atr, i) == \E j \in 1 .. (i - 1) : Announces(td, j) /\ "D" \in atr[j].hi /\ EndOf(atr, j) = i

\* After i bytes the walk goes through what byte j announced, and was announced
\* nothing by the ones before that is still to come.
Within(walk, td, atr, i, j) ==
  /\ j \in 1 .. i /\ Announces(td, j)
  /\ \A k \in j + 1 .. i : ~td[k]
  /\ \A k \in 1 .. j - 1 : Announces(td, k) /\ "D" \in atr[k].hi => EndOf(atr, k) <= j
  /\ "D" \in walk[i].left <=> "D" \in atr[j].hi
  /\ walk[i].left # {} => i + Cardinality(walk[i].left) = EndOf(atr, j)
Named(td, atr, i) == {atr[k].lo : k \in {m \in 1 .. i : td[m]}}

LEMMA WithinFirst ==
  ASSUME NEW n \in Nat \ {0}, NEW atr, IsAtr(n, atr), NEW walk, IsWalk(walk, n, atr), NEW td, td = Taken(walk, n)
  PROVE  Within(walk, td, atr, 1, 1) /\ walk[1].offered = Named(td, atr, 1)
<1>1. 1 \in 1 .. n /\ 1 + 1 .. 1 = {} /\ 1 .. 1 - 1 = {} /\ 1 \in 1 .. 1
  OBVIOUS
<1>2. ~td[1]
  BY <1>1 DEF Taken
<1>3. walk[1].left = atr[1].hi /\ walk[1].offered = {}
  BY DEF IsWalk
<1>4. Named(td, atr, 1) = {}
  <2>1. \A m \in 1 .. 1 : m = 1
    OBVIOUS
  <2>. QED
    BY <1>2, <2>1 DEF Named
<1>. QED
  BY <1>1, <1>3, <1>4 DEF Within, Announces, EndOf

\* The walk takes a byte for a TD byte if it was announced as one.
LEMMA WithinNext ==
  ASSUME NEW n \in Nat \ {0}, NEW atr, IsAtr(n, atr), NEW walk, IsWalk(walk, n, atr), NEW td, td = Taken(walk, n),
         NEW i \in 1 .. n, i + 1 \in 1 .. n, NEW j, Within(walk, td, atr, i, j), walk[i].offered = Named(td, atr, i)
  PROVE  /\ td[i + 1] <=> Follows(td, atr, i + 1)
         /\ \E k : Within(walk, td, atr, i + 1, k)
         /\ walk[i + 1].offered = Named(td, atr, i + 1)
<1>1. i \in Nat /\ j \in Nat /\ j >= 1 /\ j <= i /\ j \in 1 .. n /\ i + 1 \in 2 .. n /\ (i + 1) - 1 = i /\ i + 1 # 1
  BY DEF Within
<1>2. PICK was \in Walked(n, atr) : was = walk[i]
  BY DEF IsWalk
<1>3. PICK now : now = walk[i + 1]
  OBVIOUS
<1>4. now = TakeByte(was, atr[i + 1])
  BY <1>1, <1>2, <1>3 DEF IsWalk
<1>20. Takes(now, was, atr[i + 1])
  BY <1>1, <1>4, TakeByteIs, Zenon
<1>5. td[i + 1] = (was.left = {"D"})
  BY <1>1, <1>2 DEF Taken
<1>6. PICK c \in Nat : c = Cardinality(atr[j].hi)
  BY <1>1, LeftIs DEF IsAtr
<1>7. EndOf(atr, j) = j + c
  BY <1>6 DEF EndOf
<1>8. was.left \subseteq LetterSet
  BY DEF Walked
<1>9. PICK rest \in Nat : rest = Cardinality(was.left)
  BY <1>8, LeftIs
<1>10. was.left # {} => i + rest = j + c
  BY <1>2, <1>7, <1>9 DEF Within
<1>11. "D" \in was.left <=> "D" \in atr[j].hi
  BY <1>2 DEF Within
\* Of the bytes before only j may announce the next one as a TD byte.
<1>12. Follows(td, atr, i + 1) <=> "D" \in atr[j].hi /\ j + c = i + 1
  <2>1. ASSUME NEW k \in 1 .. i, Announces(td, k), "D" \in atr[k].hi, EndOf(atr, k) = i + 1 PROVE k = j
    <3>1. CASE k < j
      <4>1. k \in 1 .. j - 1
        BY <1>1, <3>1
      <4>2. EndOf(atr, k) <= j
        BY <2>1, <4>1 DEF Within
      <4>. QED
        BY <1>1, <2>1, <4>2
    <3>2. CASE k > j
      <4>1. k \in j + 1 .. i /\ k # 1
        BY <1>1, <3>2
      <4>2. ~td[k]
        BY <4>1 DEF Within
      <4>. QED
        BY <2>1, <4>1, <4>2 DEF Announces
    <3>. QED
      BY <1>1, <3>1, <3>2
  <2>2. j \in 1 .. i /\ Announces(td, j)
    BY DEF Within
  <2>3. Follows(td, atr, i + 1) <=> \E k \in 1 .. i : Announces(td, k) /\ "D" \in atr[k].hi /\ EndOf(atr, k) = i + 1
    BY <1>1 DEF Follows
  <2>. QED
    BY <1>7, <2>1, <2>2, <2>3
<1>13. \A m \in 1 .. i + 1 : m \in 1 .. i \/ m = i + 1
  BY <1>1
<1>14. 1 .. i \subseteq 1 .. i + 1 /\ i + 1 \in 1 .. i + 1
  BY <1>1
<1>15. ~td[i + 1] => Named(td, atr, i + 1) = Named(td, atr, i)
  BY <1>13, <1>14 DEF Named
<1>16. td[i + 1] => Named(td, atr, i + 1) = Named(td, atr, i) \cup {atr[i + 1].lo}
  <2>1. ASSUME td[i + 1] PROVE {m \in 1 .. i + 1 : td[m]} = {m \in 1 .. i : td[m]} \cup {i + 1}
    BY <1>13, <1>14, <2>1
  <2>. QED
    BY <2>1 DEF Named
<1>17. CASE was.left = {}
  <2>1. now = was /\ ~td[i + 1] /\ "D" \notin atr[j].hi
    BY <1>5, <1>11, <1>17, <1>20 DEF Takes
  <2>2. Within(walk, td, atr, i + 1, j)
    <3>1. j \in 1 .. i + 1 /\ Announces(td, j)
      BY <1>1 DEF Within
    <3>2. \A k \in j + 1 .. i + 1 : ~td[k]
      BY <1>1, <2>1 DEF Within
    <3>. QED
      BY <1>2, <1>3, <1>17, <2>1, <3>1, <3>2 DEF Within
  <2>. QED
    BY <1>2, <1>3, <1>12, <1>15, <2>1, <2>2
<1>18. CASE was.left = {"D"}
  <2>1. now = [left |-> atr[i + 1].hi, offered |-> was.offered \cup {atr[i + 1].lo}] /\ td[i + 1]
    BY <1>5, <1>18, <1>20 DEF Takes
  <2>2. rest = 1 /\ "D" \in atr[j].hi /\ j + c = i + 1
    <3>1. "D" \in was.left
      BY <1>18
    <3>2. rest = 1
      BY <1>8, <1>9, <1>18, <3>1, LeftIs
    <3>. QED
      BY <1>1, <1>10, <1>11, <1>18, <3>1, <3>2
  <2>3. Within(walk, td, atr, i + 1, i + 1)
    <3>1. i + 1 \in 1 .. i + 1 /\ Announces(td, i + 1) /\ (i + 1) + 1 .. i + 1 = {}
      BY <1>1, <2>1 DEF Announces
    <3>2. ASSUME NEW k \in 1 .. (i + 1) - 1, Announces(td, k), "D" \in atr[k].hi PROVE EndOf(atr, k) <= i + 1
      <4>1. CASE k < j
        <5>1. k \in 1 .. j - 1
          BY <1>1, <4>1
        <5>2. EndOf(atr, k) <= j
          BY <3>2, <5>1 DEF Within
        <5>3. EndOf(atr, k) \in Nat
          <6>1. k \in 1 .. n
            BY <1>1, <5>1
          <6>2. Cardinality(atr[k].hi) \in Nat
            BY <6>1, LeftIs DEF IsAtr
          <6>. QED
            BY <6>1, <6>2 DEF EndOf
        <5>. QED
          BY <1>1, <5>2, <5>3
      <4>2. CASE k = j
        BY <1>1, <1>7, <2>2, <4>2
      <4>3. CASE k > j
        <5>1. k \in j + 1 .. i /\ k # 1
          BY <1>1, <4>3
        <5>2. ~td[k]
          BY <5>1 DEF Within
        <5>. QED
          BY <3>2, <5>1, <5>2 DEF Announces
      <4>. QED
        BY <1>1, <4>1, <4>2, <4>3
    <3>3. walk[i + 1].left = atr[i + 1].hi
      BY <1>3, <2>1
    <3>. QED
      BY <3>1, <3>2, <3>3 DEF Within, EndOf
  <2>. QED
    BY <1>2, <1>3, <1>12, <1>16, <2>1, <2>2, <2>3
<1>19. CASE was.left # {} /\ was.left # {"D"}
  <2>1. PICK l \in was.left : l # "D" /\ now = [left |-> was.left \ {l}, offered |-> was.offered]
    BY <1>19, <1>20 DEF Takes
  <2>2. ~td[i + 1] /\ now.offered = was.offered /\ now.left = was.left \ {l}
    BY <1>5, <1>19, <2>1
  <2>3. "D" \in now.left <=> "D" \in atr[j].hi
    BY <1>11, <2>1, <2>2
  <2>4. Cardinality(now.left) = rest - 1
    BY <1>8, <1>9, <2>1, <2>2, LeftIs
  <2>5. i + rest = j + c
    BY <1>10, <1>19
  <2>6. ~("D" \in atr[j].hi /\ j + c = i + 1)
    <3>1. ASSUME "D" \in atr[j].hi, j + c = i + 1 PROVE FALSE
      <4>1. rest = 1
        BY <1>1, <2>5, <3>1
      <4>2. "D" \in was.left
        BY <1>11, <3>1
      <4>. QED
        BY <1>8, <1>9, <1>19, <4>1, <4>2, LeftIs
    <3>. QED
      BY <3>1
  <2>7. Within(walk, td, atr, i + 1, j)
    <3>1. j \in 1 .. i + 1 /\ Announces(td, j)
      BY <1>1 DEF Within
    <3>2. \A k \in j + 1 .. i + 1 : ~td[k]
      BY <1>1, <2>2 DEF Within
    <3>3. (i + 1) + Cardinality(walk[i + 1].left) = EndOf(atr, j)
      BY <1>1, <1>3, <1>7, <2>4, <2>5
    <3>. QED
      BY <1>3, <2>3, <3>1, <3>2, <3>3 DEF Within
  <2>. QED
    BY <1>2, <1>3, <1>12, <1>15, <2>2, <2>6, <2>7
<1>. QED
  BY <1>17, <1>18, <1>19

\* As long as the walk is.
LEMMA WithinAll ==
  ASSUME NEW n \in Nat \ {0}, NEW atr, IsAtr(n, atr), NEW walk, IsWalk(walk, n, atr), NEW td, td = Taken(walk, n)
  PROVE  \A i \in 1 .. n : (\E j : Within(walk, td, atr, i, j)) /\ walk[i].offered = Named(td, atr, i)
<1> DEFINE Good(i) == (\E j : Within(walk, td, atr, i, j)) /\ walk[i].offered = Named(td, atr, i)
           Bad == {i \in 1 .. n : ~Good(i)}
<1>1. SUFFICES ASSUME Bad # {} PROVE FALSE
  OBVIOUS
<1>2. PICK m \in Bad : \A k \in Bad : m <= k
  <2>1. Bad \subseteq Nat
    OBVIOUS
  <2>. HIDE DEF Bad
  <2>. QED
    BY <1>1, <2>1, Least
<1>3. m \in 1 .. n /\ ~Good(m)
  BY <1>2
<1>4. Good(1)
  BY WithinFirst
<1>5. CASE m = 1
  BY <1>3, <1>4, <1>5
<1>6. CASE m # 1
  <2>1. PICK i : i = m - 1
    OBVIOUS
  <2>2. i \in 1 .. n /\ i + 1 = m /\ ~(m <= i)
    BY <1>3, <1>6, <2>1
  <2>3. Good(i)
    BY <1>2, <2>2
  <2>4. PICK j : Within(walk, td, atr, i, j)
    BY <2>3
  <2>5. i + 1 \in 1 .. n /\ walk[i].offered = Named(td, atr, i)
    BY <1>3, <2>2, <2>3
  <2>6. (\E k : Within(walk, td, atr, i + 1, k)) /\ walk[i + 1].offered = Named(td, atr, i + 1)
    BY <2>2, <2>4, <2>5, WithinNext, Zenon
  <2>. QED
    BY <1>3, <2>2, <2>6
<1>. QED
  BY <1>5, <1>6

LEMMA TakenFollows ==
  ASSUME NEW n \in Nat \ {0}, NEW atr, IsAtr(n, atr), NEW walk, IsWalk(walk, n, atr), NEW td, td = Taken(walk, n)
  PROVE  \A i \in 2 .. n : td[i] <=> Follows(td, atr, i)
<1> SUFFICES ASSUME NEW m \in 2 .. n PROVE td[m] <=> Follows(td, atr, m)
  OBVIOUS
<1>1. PICK i : i = m - 1
  OBVIOUS
<1>2. i \in 1 .. n /\ i + 1 = m /\ i + 1 \in 1 .. n
  BY <1>1
<1>3. PICK j : Within(walk, td, atr, i, j)
  BY <1>2, WithinAll
<1>4. walk[i].offered = Named(td, atr, i)
  BY <1>2, WithinAll
<1>5. td[i + 1] <=> Follows(td, atr, i + 1)
  BY <1>2, <1>3, <1>4, WithinNext, Zenon
<1>. QED
  BY <1>2, <1>5

\* There is one such function: which bytes are TD bytes.
Follow(h, n, atr) ==
  h = [i \in 1 .. n |-> IF i = 1 THEN FALSE
                        ELSE \E j \in 1 .. (i - 1) : (j = 1 \/ h[j]) /\ "D" \in atr[j].hi
                                                     /\ j + Cardinality(atr[j].hi) = i]

LEMMA TakenIsFollow ==
  ASSUME NEW n \in Nat \ {0}, NEW atr, IsAtr(n, atr), NEW walk, IsWalk(walk, n, atr), NEW td, td = Taken(walk, n)
  PROVE  Follow(td, n, atr)
<1>1. ASSUME NEW i \in 1 .. n
      PROVE  td[i] = IF i = 1 THEN FALSE
                     ELSE \E j \in 1 .. (i - 1) : (j = 1 \/ td[j]) /\ "D" \in atr[j].hi
                                                  /\ j + Cardinality(atr[j].hi) = i
  <2>1. td[i] = (i # 1 /\ walk[i - 1].left = {"D"})
    BY DEF Taken
  <2>2. CASE i = 1
    BY <2>1, <2>2
  <2>3. CASE i # 1
    <3>1. i \in 2 .. n
      BY <2>3
    <3>2. td[i] <=> Follows(td, atr, i)
      BY <3>1, TakenFollows
    <3>3. td[i] \in BOOLEAN
      BY <2>1
    <3>. QED
      BY <2>3, <3>2, <3>3 DEF Follows, Announces, EndOf
  <2>. QED
    BY <2>2, <2>3
<1>2. td = [i \in 1 .. n |-> td[i]]
  BY DEF Taken
<1>. QED
  BY <1>1, <1>2 DEF Follow

LEMMA FollowIsOne ==
  ASSUME NEW n \in Nat \ {0}, NEW atr, NEW g, NEW h, Follow(g, n, atr), Follow(h, n, atr)
  PROVE  \A i \in 1 .. n : g[i] = h[i]
<1> DEFINE Bad == {i \in 1 .. n : g[i] # h[i]}
<1>1. SUFFICES ASSUME Bad # {} PROVE FALSE
  OBVIOUS
<1>2. PICK m \in Bad : \A k \in Bad : m <= k
  <2>1. Bad \subseteq Nat
    OBVIOUS
  <2>. HIDE DEF Bad
  <2>. QED
    BY <1>1, <2>1, Least
<1>3. m \in 1 .. n /\ g[m] # h[m]
  BY <1>2
<1>4. \A j \in 1 .. (m - 1) : g[j] = h[j]
  <2>1. ASSUME NEW j \in 1 .. (m - 1) PROVE g[j] = h[j]
    <3>1. j \in 1 .. n /\ ~(m <= j)
      BY <1>3
    <3>. QED
      BY <1>2, <3>1
  <2>. QED
    BY <2>1
<1>5. /\ g[m] = IF m = 1 THEN FALSE
                ELSE \E j \in 1 .. (m - 1) : (j = 1 \/ g[j]) /\ "D" \in atr[j].hi /\ j + Cardinality(atr[j].hi) = m
      /\ h[m] = IF m = 1 THEN FALSE
                ELSE \E j \in 1 .. (m - 1) : (j = 1 \/ h[j]) /\ "D" \in atr[j].hi /\ j + Cardinality(atr[j].hi) = m
  BY <1>3 DEF Follow
<1>. QED
  BY <1>3, <1>4, <1>5

LEMMA WalkIs ==
  ASSUME NEW n \in Nat \ {0}, NEW atr, IsAtr(n, atr)
  PROVE  \E walk : IsWalk(walk, n, atr)
<1>1. PICK A : A = Walked(n, atr)
  OBVIOUS
<1>2. PICK a : a = [left |-> atr[1].hi, offered |-> {}]
  OBVIOUS
<1>3. PICK step : step = [i \in 2 .. n |-> [x \in A |-> TakeByte(x, atr[i])]]
  OBVIOUS
<1>4. StepsIn(n, A, a, step)
  <2>1. a \in A
    BY <1>1, <1>2 DEF IsAtr, Walked
  <2>2. ASSUME NEW i \in 2 .. n, NEW x \in A PROVE step[i][x] \in A
    <3>1. i \in 1 .. n
      OBVIOUS
    <3>2. TakeByte(x, atr[i]) \in A
      BY <1>1, <3>1, TakeByteIs, Zenon
    <3>. QED
      BY <1>3, <3>2
  <2>. QED
    BY <2>1, <2>2 DEF StepsIn
<1>5. PICK g : Recurs(g, n, A, a, step)
  BY <1>4, RecursionExists, Zenon
<1>6. ASSUME NEW i \in 2 .. n PROVE g[i] = TakeByte(g[i - 1], atr[i])
  <2>1. i - 1 \in 1 .. n
    OBVIOUS
  <2>2. g[i] = step[i][g[i - 1]] /\ g[i - 1] \in A
    BY <1>5, <2>1 DEF Recurs
  <2>. QED
    BY <1>3, <2>2
<1>. QED
  BY <1>1, <1>2, <1>5, <1>6 DEF IsWalk, Recurs

Names(named, td, n, atr) == named = {atr[i].lo : i \in {j \in 1 .. n : td[j]}}
Offers(atr, named) == InitProtocols(atr) = IF named = {} THEN {0} ELSE named

\* Of an ATR of whatever length, initProtocols offers what its TD bytes name.
LEMMA OfferIs ==
  ASSUME NEW n \in Nat \ {0}, NEW atr, IsAtr(n, atr), Len(atr) = n,
         NEW td, td = CHOOSE h : Follow(h, n, atr),
         NEW named, Names(named, td, n, atr)
  PROVE  Offers(atr, named)
<1> DEFINE is(h) == h = [i \in 1 .. n |-> IF i = 1 THEN [left |-> atr[1].hi, offered |-> {}]
                                          ELSE TakeByte(h[i - 1], atr[i])]
<1>1. PICK g : IsWalk(g, n, atr)
  BY WalkIs
<1>2. is(g)
  <2>1. ASSUME NEW i \in 1 .. n
        PROVE  g[i] = IF i = 1 THEN [left |-> atr[1].hi, offered |-> {}] ELSE TakeByte(g[i - 1], atr[i])
    <3>1. i = 1 \/ i \in 2 .. n
      OBVIOUS
    <3>. QED
      BY <1>1, <3>1 DEF IsWalk
  <2>2. g = [i \in 1 .. n |-> g[i]]
    BY <1>1 DEF IsWalk
  <2>. QED
    BY <2>1, <2>2
<1>3. PICK walk : walk = CHOOSE h : is(h)
  OBVIOUS
<1>4. is(walk)
  BY <1>2, <1>3
<1>5. IsWalk(walk, n, atr)
  <2>1. \A i \in 1 .. n : walk[i] = g[i]
    <3> DEFINE Bad == {i \in 1 .. n : walk[i] # g[i]}
    <3>1. SUFFICES ASSUME Bad # {} PROVE FALSE
      OBVIOUS
    <3>2. PICK m \in Bad : \A k \in Bad : m <= k
      <4>1. Bad \subseteq Nat
        OBVIOUS
      <4>. HIDE DEF Bad, is
      <4>. QED
        BY <3>1, <4>1, Least
    <3>3. m \in 1 .. n /\ walk[m] # g[m]
      BY <3>2
    <3>4. m # 1 => walk[m - 1] = g[m - 1]
      <4>1. ASSUME m # 1 PROVE m - 1 \in 1 .. n /\ ~(m <= m - 1)
        BY <3>3, <4>1
      <4>. QED
        BY <3>2, <4>1
    <3>5. walk[m] = IF m = 1 THEN [left |-> atr[1].hi, offered |-> {}] ELSE TakeByte(walk[m - 1], atr[m])
      BY <1>4, <3>3
    <3>6. g[m] = IF m = 1 THEN [left |-> atr[1].hi, offered |-> {}] ELSE TakeByte(g[m - 1], atr[m])
      BY <1>2, <3>3
    <3>. QED
      BY <3>3, <3>4, <3>5, <3>6
  <2>2. walk = g
    <3>1. walk = [i \in 1 .. n |-> walk[i]]
      BY <1>4
    <3>2. g = [i \in 1 .. n |-> g[i]]
      BY <1>1 DEF IsWalk
    <3>. HIDE DEF is
    <3>. QED
      BY <2>1, <3>1, <3>2
  <2>. QED
    BY <1>1, <2>2
<1>6. InitProtocols(atr) = IF walk[n].offered = {} THEN {0} ELSE walk[n].offered
  BY <1>3 DEF InitProtocols
<1>7. PICK taken : taken = Taken(walk, n)
  OBVIOUS
<1>8. Follow(taken, n, atr)
  BY <1>5, <1>7, TakenIsFollow
<1>9. Follow(td, n, atr)
  BY <1>8
<1>10. \A i \in 1 .. n : taken[i] = td[i]
  BY <1>8, <1>9, FollowIsOne
<1>11. walk[n].offered = Named(taken, atr, n)
  <2>1. n \in 1 .. n
    OBVIOUS
  <2>. QED
    BY <1>5, <1>7, <2>1, WithinAll
<1>12. Named(taken, atr, n) = named
  BY <1>10 DEF Named, Names
<1>. QED
  BY <1>6, <1>11, <1>12 DEF Offers

LEMMA OffersAreRead == NamedProtocols
<1>1. ASSUME NEW n \in 1 .. 4, NEW atr \in [1 .. n -> Bytes] PROVE IsAtr(n, atr) /\ Len(atr) = n /\ n \in Nat \ {0}
  <2>1. \A b \in Bytes : b.hi \subseteq LetterSet
    BY DEF Bytes, LetterSet
  <2>2. atr \in Seq(Bytes) /\ DOMAIN atr = 1 .. n
    OBVIOUS
  <2>. QED
    BY <2>1, <2>2 DEF IsAtr
<1>2. ASSUME NEW n \in 1 .. 4, NEW atr \in [1 .. n -> Bytes],
             NEW td, td = CHOOSE h : Follow(h, n, atr),
             NEW named, Names(named, td, n, atr)
      PROVE  Offers(atr, named)
  <2>1. IsAtr(n, atr) /\ Len(atr) = n /\ n \in Nat \ {0}
    BY <1>1
  <2>. QED
    BY <1>2, <2>1, OfferIs, Zenon
<1>. QED
  BY <1>2, Zenon DEF NamedProtocols, Follow, Names, Offers

\* When those who wait are told of a card, whatever its ATR, the protocols offered
\* for it are those its TD bytes name (initProtocols).
THEOREM OfferStaysRead == Spec => []OfferIsRead
<1>1. IInv => OfferIsRead
  BY OffersAreRead DEF OfferIsRead
<1>. QED
  BY <1>1, Invariance, PTL
=============================================================================
