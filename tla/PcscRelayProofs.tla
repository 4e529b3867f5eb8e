-------------------------- MODULE PcscRelayProofs --------------------------
(***************************************************************************)
(* PcscRelay: what the relay sends and executes, for emulators that finish *)
(* their exchanges before they hang up, and for relays that listen; and    *)
(* that it is a CardChannel for its emulator then.                         *)
(***************************************************************************)
EXTENDS PcscRelay, SequenceTheorems, TLAPS

-----------------------------------------------------------------------------
\* The constructors of the model's records stay inside their types.
LEMMA CardTyped ==
  ASSUME NEW c \in Cards
  PROVE  /\ [c EXCEPT !.up = FALSE] \in Cards
         /\ [c EXCEPT !.up = TRUE] \in Cards
         /\ [c EXCEPT !.alive = ~@] \in Cards
         /\ [up |-> FALSE, alive |-> FALSE] \in Cards
BY DEF Cards

LEMMA LinksTyped == NoLink \in Links /\ Fresh \in Links
<1>1. <<>> \in Seq(Requests) /\ <<>> \in Seq(Answers)
  OBVIOUS
<1>2. NoLink \in Links
  BY <1>1 DEF Links, NoLink
<1>3. \A l \in Links : [l EXCEPT !.relay = TRUE, !.emu = TRUE] \in Links
  BY DEF Links
<1>. QED
  BY <1>2, <1>3 DEF Fresh

LEMMA LinkTyped ==
  ASSUME NEW k \in Links
  PROVE  /\ NoLink \in Links /\ Fresh \in Links
         /\ RelayCloses(k) \in Links
         /\ EmuCloses(k) \in Links /\ EmuResets(k) \in Links
<1>1. NoLink \in Links /\ Fresh \in Links
  BY LinksTyped
<1>2. RelayCloses(k) \in Links
  <2>1. CASE k.emu
    <3>1. RelayCloses(k) = [relay |-> FALSE, emu |-> k.emu, rst |-> k.rst \/ k.toRelay # <<>>,
                            toRelay |-> <<>>, toEmu |-> k.toEmu]
      BY <2>1 DEF RelayCloses, Links
    <3> QED BY <3>1 DEF Links
  <2> QED BY <2>1, <1>1 DEF RelayCloses
<1>3. EmuCloses(k) \in Links
  <2>1. CASE k.relay
    <3>1. EmuCloses(k) = [relay |-> k.relay, emu |-> FALSE, rst |-> k.rst \/ k.toEmu # <<>>,
                            toRelay |-> k.toRelay, toEmu |-> <<>>]
      BY <2>1 DEF EmuCloses, Links
    <3> QED BY <3>1 DEF Links
  <2> QED BY <2>1, <1>1 DEF EmuCloses
<1>4. EmuResets(k) \in Links
  <2>1. CASE k.relay
    <3>1. EmuResets(k) = [relay |-> k.relay, emu |-> FALSE, rst |-> TRUE,
                          toRelay |-> k.toRelay, toEmu |-> <<>>]
      BY <2>1 DEF EmuResets, Links
    <3> QED BY <3>1 DEF Links
  <2> QED BY <2>1, <1>1 DEF EmuResets
<1> QED BY <1>1, <1>2, <1>3, <1>4

\* What reading and writing do to the two queues.
LEMMA QueuesTyped ==
  ASSUME NEW k \in Links
  PROVE  /\ k.toRelay # <<>> => /\ [k EXCEPT !.toRelay = Tail(@)] \in Links
                               /\ Head(k.toRelay) \in Requests
         /\ \A m \in Requests : [k EXCEPT !.toRelay = Append(@, m)] \in Links
         /\ k.toEmu # <<>> => [k EXCEPT !.toEmu = Tail(@)] \in Links
         /\ \A a \in Answers : [k EXCEPT !.toEmu = Append(@, a)] \in Links
<1>1. /\ k.toRelay \in Seq(Requests)
      /\ k.toEmu \in Seq(Answers)
  BY DEF Links
<1>2. k.toRelay # <<>> => Tail(k.toRelay) \in Seq(Requests) /\ Head(k.toRelay) \in Requests
  BY <1>1
<1>3. \A m \in Requests : Append(k.toRelay, m) \in Seq(Requests)
  BY <1>1
<1>4. k.toEmu # <<>> => Tail(k.toEmu) \in Seq(Answers)
  BY <1>1
<1>5. \A a \in Answers : Append(k.toEmu, a) \in Seq(Answers)
  BY <1>1
<1>6. \A q \in Seq(Requests) : [k EXCEPT !.toRelay = q] \in Links
  BY DEF Links
<1>7. \A q \in Seq(Answers) : [k EXCEPT !.toEmu = q] \in Links
  BY DEF Links
<1> QED BY <1>2, <1>3, <1>4, <1>5, <1>6, <1>7
LEMMA ResetTyped == \A k \in Links : [k EXCEPT !.rst = TRUE] \in Links
BY DEF Links

LEMMA MessagesTyped ==
  ASSUME NEW n \in Numbers
  PROVE  /\ \A kind \in {"APDU", "ATR", "CTL"} : [kind |-> kind, n |-> n] \in Requests
         /\ \A kind \in {"R-APDU", "R-ATR"} : [kind |-> kind, n |-> n] \in Answers
         /\ (n + 1) % 3 \in Numbers
BY DEF Requests, Answers, Numbers

LEMMA GivenTyped ==
  ASSUME execs \in [Numbers \cup {Garbled} -> 0 .. 2], NEW b
  PROVE  Given(b) \in [Numbers \cup {Garbled} -> 0 .. 2]
<1>1. CASE b \in Numbers \cup {Garbled}
  <2>1. execs[b] \in 0 .. 2
    BY <1>1
  <2>2. (IF execs[b] < 2 THEN execs[b] + 1 ELSE 2) \in 0 .. 2
    BY <2>1
  <2> QED BY <2>2 DEF Given
<1>2. CASE b \notin Numbers \cup {Garbled}
  BY <1>2 DEF Given
<1> QED BY <1>1, <1>2

-----------------------------------------------------------------------------
LEMMA TypeStep == ASSUME TypeOK, [Next]_vars PROVE TypeOK'
<1>1. link \in Links /\ card \in Cards
  BY DEF TypeOK
<1> USE RelayAssumption, CardTyped, LinkTyped, QueuesTyped DEF TypeOK, PCs, relayVars, emuVars, vars
<1>2. CASE ConnectCard
  BY <1>1, <1>2 DEF ConnectCard, Exit
<1>3. CASE Open
  BY <1>1, <1>3 DEF Open, Exit, ConnectEmulator
<1>4. CASE Accept
  BY <1>1, <1>4 DEF Accept, Exit
<1>5. CASE Receive
  <2> DEFINE m    == Head(link.toRelay)
             rest == [link EXCEPT !.toRelay = Tail(@)]
  <2>1. rest \in Links /\ m \in Requests
    BY <1>1, <1>5 DEF Receive
  <2>2. m.n \in Numbers
    BY <2>1 DEF Requests
  <2>3. [rest EXCEPT !.toEmu = Append(@, [kind |-> "R-ATR", n |-> m.n])] \in Links
    <3>1. [kind |-> "R-ATR", n |-> m.n] \in Answers
      BY <2>2, MessagesTyped
    <3> HIDE DEF rest, m
    <3> QED BY <2>1, <3>1
  <2>4. [rest EXCEPT !.rst = TRUE] \in Links /\ RelayCloses(rest) \in Links
    <3> HIDE DEF rest
    <3> QED BY <2>1, ResetTyped
  <2>5. link' \in Links
    BY <1>5, <2>1, <2>3, <2>4 DEF Receive
  <2>6. buf' \in Numbers \cup {None, Garbled}
    BY <1>5, <2>2 DEF Receive, Overwritten
  <2> QED BY <1>5, <2>5, <2>6 DEF Receive
<1>6. CASE ReceiveEnd
  BY <1>1, <1>6 DEF ReceiveEnd
<1>7. CASE ReceiveError
  BY <1>1, <1>7 DEF ReceiveError
<1>8. CASE Reopen
  BY <1>1, <1>8, ZenonT(60) DEF Reopen, ConnectEmulator
<1>9. CASE Resend
  BY <1>1, <1>9, ZenonT(60) DEF Resend, ConnectEmulator
<1>10. CASE TransmitOk
  BY <1>1, <1>10, GivenTyped, MessagesTyped DEF TransmitOk
<1>11. CASE TransmitLost
  BY <1>1, <1>11, GivenTyped DEF TransmitLost
<1>12. CASE TransmitFails
  BY <1>1, <1>12, GivenTyped DEF TransmitFails, Exit
<1>13. CASE Send
  BY <1>1, <1>13, ResetTyped DEF Send
<1>14. CASE Signal
  BY <1>1, <1>14 DEF Signal, Exit
<1>15. CASE EmuCalls
  BY <1>1, <1>15 DEF EmuCalls
<1>16. CASE EmuReads
  BY <1>1, <1>16 DEF EmuReads
<1>17. CASE EmuDropped
  BY <1>1, <1>17 DEF EmuDropped
<1>18. CASE EmuLeaves
  BY <1>1, <1>18 DEF EmuLeaves
<1>19. CASE CardComesOrGoes
  BY <1>1, <1>19, ZenonT(60) DEF CardComesOrGoes
<1>20. ASSUME NEW kind \in {"APDU", "ATR", "CTL"}, EmuAsks(kind) PROVE TypeOK'
  <2>1. seq' \in Numbers
    BY <1>20, MessagesTyped DEF EmuAsks
  <2>2. [kind |-> kind, n |-> seq'] \in Requests
    BY <2>1, MessagesTyped
  <2>3. link' \in Links
    BY <1>1, <1>20, <2>2 DEF EmuAsks
  <2> QED BY <1>20, <2>1, <2>3 DEF EmuAsks, Numbers
<1>21. CASE UNCHANGED vars
  BY <1>21
<1> QED BY <1>2, <1>3, <1>4, <1>5, <1>6, <1>7, <1>8, <1>9, <1>10, <1>11, <1>12, <1>13, <1>14, <1>15, <1>16, <1>17, <1>18, <1>19, <1>20, <1>21 DEF Next, Relay

\* Types, for every driver and connector.
THEOREM RelayTypesHold == Spec => []TypeOK
<1>1. ASSUME Init PROVE TypeOK
  <2>1. link \in Links
    BY <1>1, LinksTyped DEF Init
  <2>2. card \in Cards
    <3>1. \A a \in BOOLEAN : [up |-> FALSE, alive |-> a] \in Cards
      BY DEF Cards
    <3>. QED
      BY <1>1, <3>1 DEF Init
  <2>3. /\ pc \in PCs /\ held \in BOOLEAN /\ buf \in Numbers \cup {None, Garbled} /\ out \in Answers \cup {Empty}
        /\ emu \in {"away", "calling", "ready", "waiting", "atr"}
        /\ got \in {"none", "own", "foreign", "failed"}
    BY <1>1 DEF Init, PCs
  <2>4. seq \in Numbers /\ execs \in [Numbers \cup {Garbled} -> 0 .. 2]
    BY <1>1 DEF Init, Numbers
  <2>. QED
    BY <2>1, <2>2, <2>3, <2>4 DEF TypeOK
<1> QED BY <1>1, TypeStep, PTL DEF Spec

-----------------------------------------------------------------------------
InOrder == Driver = "listen" \/ Polite

\* The emulator's side: at most one answer is on its way, to the request the
\* emulator waits for.
EmuInv ==
  /\ link.emu <=> emu \in {"ready", "waiting", "atr"}
  /\ ~link.relay => link.toRelay = <<>>
  /\ ~link.emu => link.toEmu = <<>>
  /\ Len(link.toEmu) <= 1
  /\ emu = "ready" => link.toEmu = <<>>
  /\ link.toEmu # <<>> =>
       /\ emu = "waiting" => link.toEmu[1] = [kind |-> "R-APDU", n |-> seq]
       /\ emu = "atr" => link.toEmu[1].kind = "R-ATR"

\* A request in the queue is the last one, and nobody has seen it.
QueueInv ==
  \A i \in 1 .. Len(link.toRelay) : link.toRelay[i].kind # "CTL" =>
    /\ i = Len(link.toRelay)
    /\ link.toEmu = <<>>
    /\ link.toRelay[i].kind = "APDU" => /\ link.toRelay[i].n = seq
                                        /\ execs[seq] = 0
                                        /\ link.emu => emu = "waiting"
    /\ link.toRelay[i].kind = "ATR" => (link.emu => emu = "atr")
    /\ Polite => link.emu

\* The loop's side: what is in buf is the request the emulator waits for, and
\* it is not kept for another connection.
LoopInv ==
  /\ pc \in {"card", "open", "accept"} => link = NoLink /\ buf = None
  /\ pc \in {"transmit", "send"} =>
       /\ link.relay /\ buf = seq
       /\ link.toRelay = <<>> /\ link.toEmu = <<>>
       /\ link.emu => emu = "waiting"
       /\ Polite => link.emu
  /\ pc = "transmit" => execs[seq] = 0
  /\ pc = "send" => out \in {Empty, [kind |-> "R-APDU", n |-> seq]}
  /\ Driver = "listen" /\ pc \notin {"card", "open", "exit"} => held
  /\ pc \in {"reopen", "resend"} => ~link.relay
  /\ Polite /\ pc # "exit" => /\ buf # None => link.relay
                              /\ pc # "resend"

SessionInv == EmuInv /\ QueueInv /\ LoopInv /\ RelayedOnce /\ AnswerIsOwn

LEMMA InitInSession == Init => SessionInv
BY RelayAssumption DEF Init, SessionInv, EmuInv, QueueInv, LoopInv, RelayedOnce, AnswerIsOwn, NoLink, Numbers

\* What is left of a connection when one end closes.
LEMMA LinkFields ==
  ASSUME NEW k \in Links
  PROVE  /\ Fresh.relay /\ Fresh.emu /\ ~Fresh.rst /\ Fresh.toRelay = <<>> /\ Fresh.toEmu = <<>>
         /\ ~NoLink.relay /\ ~NoLink.emu /\ ~NoLink.rst /\ NoLink.toRelay = <<>> /\ NoLink.toEmu = <<>>
         /\ ~RelayCloses(k).relay /\ RelayCloses(k).toRelay = <<>>
         /\ RelayCloses(k).emu = k.emu /\ (k.emu => RelayCloses(k).toEmu = k.toEmu)
         /\ ~k.emu => RelayCloses(k) = NoLink
         /\ ~EmuCloses(k).emu /\ EmuCloses(k).toEmu = <<>>
         /\ EmuCloses(k).relay = k.relay /\ (k.relay => EmuCloses(k).toRelay = k.toRelay)
         /\ ~k.relay => EmuCloses(k) = NoLink
         /\ ~EmuResets(k).emu /\ EmuResets(k).toEmu = <<>>
         /\ EmuResets(k).relay = k.relay /\ (k.relay => EmuResets(k).toRelay = k.toRelay)
         /\ ~k.relay => EmuResets(k) = NoLink
BY DEF Links, Fresh, NoLink, RelayCloses, EmuCloses, EmuResets

\* The first execution of the current command.
LEMMA GivenOnce ==
  ASSUME execs \in [Numbers \cup {Garbled} -> 0 .. 2], seq \in Numbers,
         execs[seq] = 0, RelayedOnce, Garbled \notin Numbers
  PROVE  /\ \A n \in Numbers : Given(seq)[n] <= 1
         /\ Given(seq)[Garbled] = 0
BY DEF Given, RelayedOnce

\* What reading a queue and writing to one does to it.
LEMMA ReadFields ==
  ASSUME NEW k \in Links, k.toRelay # <<>>,
         NEW rest, rest = [k EXCEPT !.toRelay = Tail(@)]
  PROVE  /\ rest.relay = k.relay /\ rest.emu = k.emu /\ rest.rst = k.rst
         /\ rest.toEmu = k.toEmu
         /\ Head(k.toRelay) = k.toRelay[1]
         /\ Len(k.toRelay) \in Nat \ {0}
         /\ Len(rest.toRelay) = Len(k.toRelay) - 1
         /\ Len(k.toRelay) = 1 => rest.toRelay = <<>>
         /\ \A i \in 1 .. Len(rest.toRelay) : rest.toRelay[i] = k.toRelay[i + 1]
<1> DEFINE q == k.toRelay
           t == Tail(q)
<1>1. q \in Seq(Requests) /\ q # <<>>
  BY DEF Links
<1>2. /\ rest.relay = k.relay /\ rest.emu = k.emu /\ rest.rst = k.rst
      /\ rest.toEmu = k.toEmu /\ rest.toRelay = t
  BY DEF Links
<1> HIDE DEF q, t
<1>3. /\ t \in Seq(Requests) /\ Len(t) = Len(q) - 1
      /\ \A i \in 1 .. Len(t) : t[i] = q[i + 1]
  BY <1>1, HeadTailProperties DEF t
<1>4. Len(q) \in Nat \ {0} /\ (t # <<>> => Len(t) \in Nat \ {0})
  BY <1>1, <1>3, EmptySeq
<1>5. Head(q) = q[1]
  BY <1>1
<1>6. Len(q) = 1 => t = <<>>
  BY <1>3, <1>4
<1> QED BY <1>2, <1>3, <1>4, <1>5, <1>6 DEF q

LEMMA AnswerFields ==
  ASSUME NEW k \in Links, k.toEmu = <<>>, NEW a,
         NEW more, more = [k EXCEPT !.toEmu = Append(@, a)]
  PROVE  /\ more.relay = k.relay /\ more.emu = k.emu /\ more.rst = k.rst
         /\ more.toRelay = k.toRelay
         /\ more.toEmu # <<>> /\ Len(more.toEmu) = 1 /\ more.toEmu[1] = a
<1>1. /\ more.relay = k.relay /\ more.emu = k.emu /\ more.rst = k.rst
      /\ more.toRelay = k.toRelay /\ more.toEmu = Append(k.toEmu, a)
  BY DEF Links
<1>2. Append(<<>>, a) # <<>> /\ Len(Append(<<>>, a)) = 1 /\ Append(<<>>, a)[1] = a
  OBVIOUS
<1> QED BY <1>1, <1>2

LEMMA ReceiveStep ==
  ASSUME InOrder, TypeOK, TypeOK', SessionInv, Receive
  PROVE  SessionInv'
<1> DEFINE m    == Head(link.toRelay)
           rest == [link EXCEPT !.toRelay = Tail(@)]
<1>1. link \in Links /\ link.relay /\ link.toRelay # <<>>
  BY DEF TypeOK, Receive
<1>2. rest \in Links
  BY <1>1, QueuesTyped
<1>3. /\ rest.relay /\ rest.emu = link.emu /\ rest.rst = link.rst
      /\ rest.toEmu = link.toEmu
      /\ m = link.toRelay[1]
      /\ Len(link.toRelay) \in Nat \ {0}
      /\ Len(rest.toRelay) = Len(link.toRelay) - 1
      /\ Len(link.toRelay) = 1 => rest.toRelay = <<>>
      /\ \A i \in 1 .. Len(rest.toRelay) : rest.toRelay[i] = link.toRelay[i + 1]
  BY <1>1, ReadFields, ZenonT(60)
<1>4. /\ pc = "recv"
      /\ UNCHANGED <<held, out, card, emu, seq, got, execs>>
  BY DEF Receive, emuVars
<1>5. m.kind # "CTL" =>
        /\ rest.toRelay = <<>> /\ link.toEmu = <<>> /\ (Polite => link.emu)
        /\ m.kind = "APDU" => m.n = seq /\ execs[seq] = 0 /\ (link.emu => emu = "waiting")
        /\ m.kind = "ATR" => (link.emu => emu = "atr")
  <2> HIDE DEF rest, m
  <2> QED BY <1>3 DEF SessionInv, QueueInv
<1>6. CASE m.kind = "APDU" /\ buf' = m.n /\ pc' = "transmit" /\ link' = rest
  <2> HIDE DEF rest, m
  <2> QED BY <1>1, <1>3, <1>4, <1>5, <1>6 DEF SessionInv, EmuInv, QueueInv, LoopInv, RelayedOnce, AnswerIsOwn
<1>7. CASE m.kind = "CTL" /\ buf' = Overwritten(buf) /\ link' = rest /\ UNCHANGED pc
  <2> HIDE DEF rest, m
  <2>1. ASSUME NEW i \in 1 .. Len(rest.toRelay), rest.toRelay[i].kind # "CTL"
        PROVE  /\ i = Len(rest.toRelay) /\ rest.toEmu = <<>> /\ (Polite => link.emu)
               /\ rest.toRelay[i].kind = "APDU" =>
                    rest.toRelay[i].n = seq /\ execs[seq] = 0 /\ (link.emu => emu = "waiting")
               /\ rest.toRelay[i].kind = "ATR" => (link.emu => emu = "atr")
    <3>1. i + 1 \in 1 .. Len(link.toRelay) /\ link.toRelay[i + 1] = rest.toRelay[i]
      BY <1>3
    <3> QED BY <1>3, <2>1, <3>1 DEF SessionInv, QueueInv
  <2>2. QueueInv'
    BY <1>3, <1>4, <1>7, <2>1 DEF QueueInv
  <2> QED BY <1>1, <1>3, <1>4, <1>7, <2>2, RelayAssumption
             DEF SessionInv, EmuInv, LoopInv, RelayedOnce, AnswerIsOwn, Overwritten
<1>8. CASE /\ m.kind = "ATR" /\ link.emu /\ buf' = Overwritten(buf) /\ UNCHANGED pc
           /\ link' = [rest EXCEPT !.toEmu = Append(@, [kind |-> "R-ATR", n |-> m.n])]
  <2> DEFINE a == [kind |-> "R-ATR", n |-> m.n]
  <2> HIDE DEF rest, m
  <2>1. emu = "atr" /\ rest.toEmu = <<>> /\ rest.toRelay = <<>>
    BY <1>3, <1>5, <1>8
  <2>2. a.kind = "R-ATR"
    OBVIOUS
  <2> HIDE DEF a
  <2>3. link' = [rest EXCEPT !.toEmu = Append(@, a)]
    BY <1>8 DEF a
  <2>4. /\ link'.relay /\ link'.emu /\ link'.rst = link.rst
        /\ link'.toRelay = <<>> /\ link'.toEmu # <<>> /\ Len(link'.toEmu) = 1 /\ link'.toEmu[1] = a
    <3>1. /\ link'.relay = rest.relay /\ link'.emu = rest.emu /\ link'.rst = rest.rst
          /\ link'.toRelay = rest.toRelay /\ link'.toEmu = Append(rest.toEmu, a)
      BY <1>2, <2>3 DEF Links
    <3>2. Append(<<>>, a) # <<>> /\ Len(Append(<<>>, a)) = 1 /\ Append(<<>>, a)[1] = a
      OBVIOUS
    <3> QED BY <1>3, <1>8, <2>1, <3>1, <3>2
  <2> QED BY <1>1, <1>4, <1>8, <2>1, <2>2, <2>4, RelayAssumption
             DEF SessionInv, EmuInv, QueueInv, LoopInv, RelayedOnce, AnswerIsOwn, Overwritten
<1>9. CASE /\ m.kind = "ATR" /\ ~link.emu
           /\ \/ link' = [rest EXCEPT !.rst = TRUE] /\ UNCHANGED pc
              \/ link' = RelayCloses(rest) /\ pc' = "reopen"
  <2> HIDE DEF rest, m
  <2>1. ~Polite
    BY <1>5, <1>9
  <2>2. /\ rest.toRelay = <<>> /\ rest.toEmu = <<>> /\ ~rest.emu
    BY <1>3, <1>5, <1>9
  <2>3. /\ \/ UNCHANGED pc
           \/ pc' = "reopen" /\ ~link'.relay
        /\ ~link'.emu /\ link'.toRelay = <<>> /\ link'.toEmu = <<>>
    BY <1>2, <1>9, <2>2, LinkFields DEF Links
  <2> QED BY <1>4, <1>9, <2>1, <2>3 DEF SessionInv, EmuInv, QueueInv, LoopInv, RelayedOnce, AnswerIsOwn
<1> QED BY <1>6, <1>7, <1>8, <1>9 DEF Receive

LEMMA SendStep ==
  ASSUME InOrder, TypeOK, TypeOK', SessionInv, Send
  PROVE  SessionInv'
<1>1. /\ link \in Links
      /\ pc = "send" /\ link.relay /\ buf = seq
      /\ link.toRelay = <<>> /\ link.toEmu = <<>>
      /\ link.emu => emu = "waiting"
      /\ Polite => link.emu
      /\ UNCHANGED <<held, buf, out, card, emu, seq, got, execs>>
  BY DEF TypeOK, Send, emuVars, SessionInv, LoopInv
<1>2. CASE out = Empty /\ pc' = "recv" /\ UNCHANGED link
  BY <1>1, <1>2 DEF SessionInv, EmuInv, QueueInv, LoopInv, RelayedOnce, AnswerIsOwn
<1>3. CASE /\ out # Empty /\ link.emu /\ pc' = "recv"
           /\ link' = [link EXCEPT !.toEmu = Append(@, out)]
  <2>1. /\ link'.relay /\ link'.emu /\ link'.rst = link.rst
        /\ link'.toRelay = <<>> /\ link'.toEmu # <<>> /\ Len(link'.toEmu) = 1 /\ link'.toEmu[1] = out
    BY <1>1, <1>3, AnswerFields
  <2>2. emu = "waiting" /\ out = [kind |-> "R-APDU", n |-> seq]
    BY <1>1, <1>3 DEF SessionInv, LoopInv
  <2> QED BY <1>1, <1>3, <2>1, <2>2 DEF SessionInv, EmuInv, QueueInv, LoopInv, RelayedOnce, AnswerIsOwn
<1>4. CASE /\ ~link.emu
           /\ \/ pc' = "recv" /\ link' = [link EXCEPT !.rst = TRUE]
              \/ pc' = "resend" /\ link' = RelayCloses(link)
  <2>1. ~Polite
    BY <1>1, <1>4 DEF SessionInv, LoopInv
  <2>2. /\ pc' = "resend" => ~link'.relay
        /\ ~link'.emu /\ link'.toRelay = <<>> /\ link'.toEmu = <<>>
    BY <1>1, <1>4, LinkFields DEF Links
  <2> QED BY <1>1, <1>4, <2>1, <2>2 DEF SessionInv, EmuInv, QueueInv, LoopInv, RelayedOnce, AnswerIsOwn
<1> QED BY <1>1, <1>2, <1>3, <1>4 DEF Send

LEMMA EmuLeavesStep ==
  ASSUME InOrder, TypeOK, TypeOK', SessionInv, EmuLeaves
  PROVE  SessionInv'
<1>1. /\ link \in Links /\ link.emu /\ emu' = "away"
      /\ link' = EmuCloses(link) \/ link' = EmuResets(link)
      /\ Polite => emu = "ready" /\ link.toEmu = <<>>
      /\ got' # "foreign"
      /\ UNCHANGED <<pc, held, buf, out, card, seq, execs>>
  BY DEF TypeOK, EmuLeaves, relayVars, SessionInv, AnswerIsOwn
<1>2. /\ ~link'.emu /\ link'.toEmu = <<>> /\ link'.relay = link.relay
      /\ link'.toRelay = link.toRelay
  BY <1>1, LinkFields DEF SessionInv, EmuInv
<1>3. Polite => \A i \in 1 .. Len(link.toRelay) : link.toRelay[i].kind = "CTL"
  <2>1. link.toRelay \in Seq(Requests)
    BY <1>1 DEF Links
  <2>2. \A i \in 1 .. Len(link.toRelay) : link.toRelay[i] \in Requests
    BY <2>1
  <2> QED BY <1>1, <2>2 DEF Requests, SessionInv, QueueInv
<1>4. QueueInv'
  BY <1>1, <1>2, <1>3 DEF SessionInv, QueueInv
<1>5. pc \notin {"card", "open", "accept"}
  BY <1>1 DEF SessionInv, LoopInv, NoLink
<1> QED BY <1>1, <1>2, <1>4, <1>5 DEF SessionInv, EmuInv, LoopInv, RelayedOnce, AnswerIsOwn

LEMMA EmuAsksStep ==
  ASSUME InOrder, TypeOK, TypeOK', SessionInv,
         NEW kind \in {"APDU", "ATR", "CTL"}, EmuAsks(kind)
  PROVE  SessionInv'
<1>1. /\ link \in Links /\ emu = "ready" /\ link.emu /\ link.toEmu = <<>>
      /\ pc \notin {"card", "open", "accept", "transmit", "send"}
      /\ UNCHANGED <<pc, held, buf, out, card>>
  BY DEF TypeOK, EmuAsks, relayVars, SessionInv, EmuInv, LoopInv, NoLink
<1>2. /\ emu' \in {"ready", "waiting", "atr"} /\ got' # "foreign"
      /\ kind = "APDU" => emu' = "waiting" /\ execs' = [execs EXCEPT ![seq'] = 0]
      /\ kind = "ATR" => emu' = "atr"
      /\ kind # "APDU" => execs' = execs
  BY DEF EmuAsks, SessionInv, AnswerIsOwn
<1>3. RelayedOnce' /\ (kind = "APDU" => execs'[seq'] = 0)
  <2>1. seq' \in Numbers /\ Garbled \notin Numbers /\ execs \in [Numbers \cup {Garbled} -> 0 .. 2]
    BY RelayAssumption DEF TypeOK
  <2>2. CASE kind = "APDU"
    <3>1. /\ execs'[seq'] = 0
          /\ \A n \in Numbers \cup {Garbled} : n # seq' => execs'[n] = execs[n]
      BY <1>2, <2>1, <2>2
    <3> QED BY <2>1, <3>1 DEF SessionInv, RelayedOnce
  <2> QED BY <1>2, <2>2 DEF SessionInv, RelayedOnce
<1>4. \A i \in 1 .. Len(link.toRelay) : link.toRelay[i].kind = "CTL"
  <2>1. link.toRelay \in Seq(Requests)
    BY <1>1 DEF Links
  <2>2. \A i \in 1 .. Len(link.toRelay) : link.toRelay[i] \in Requests
    BY <2>1
  <2> QED BY <1>1, <2>2 DEF Requests, SessionInv, QueueInv
<1>5. CASE ~link.relay
  <2>1. link' = link
    BY <1>5 DEF EmuAsks
  <2> QED BY <1>1, <1>2, <1>3, <1>4, <1>5, <2>1 DEF SessionInv, EmuInv, QueueInv, LoopInv, AnswerIsOwn
<1>6. CASE link.relay
  <2> DEFINE q == link.toRelay
             m == [kind |-> kind, n |-> seq']
  <2>1. m \in Requests
    BY MessagesTyped DEF TypeOK
  <2>2. link' = [link EXCEPT !.toRelay = Append(@, m)]
    BY <1>6 DEF EmuAsks
  <2>3. m.kind = kind /\ m.n = seq'
    OBVIOUS
  <2> HIDE DEF m
  <2>4. /\ link'.relay = link.relay /\ link'.emu = link.emu /\ link'.rst = link.rst
        /\ link'.toEmu = link.toEmu
        /\ Len(q) \in Nat
        /\ Len(link'.toRelay) = Len(q) + 1
        /\ link'.toRelay[Len(q) + 1] = m
        /\ \A i \in 1 .. Len(q) : link'.toRelay[i] = q[i]
    <3>1. /\ link'.relay = link.relay /\ link'.emu = link.emu /\ link'.rst = link.rst
          /\ link'.toEmu = link.toEmu /\ link'.toRelay = Append(q, m)
      BY <1>1, <2>2 DEF Links
    <3>2. q \in Seq(Requests)
      BY <1>1 DEF Links
    <3> HIDE DEF q
    <3> QED BY <2>1, <3>1, <3>2, AppendProperties, LenProperties
  <2>5. \A i \in 1 .. Len(q) + 1 : i \in 1 .. Len(q) \/ i = Len(q) + 1
    BY <2>4
  <2>6. \A i \in 1 .. Len(q) : q[i].kind = "CTL"
    BY <1>4
  <2> HIDE DEF q
  <2>7. QueueInv'
    BY <1>1, <1>2, <1>3, <2>3, <2>4, <2>5, <2>6, SMTT(60) DEF QueueInv
  <2>8. LoopInv'
    BY <1>1, <1>2, <1>6, <2>4 DEF SessionInv, LoopInv
  <2> QED BY <1>1, <1>2, <1>3, <1>6, <2>4, <2>7, <2>8 DEF SessionInv, EmuInv, AnswerIsOwn
<1> QED BY <1>5, <1>6

\* No step breaks the invariant.
LEMMA SessionStep ==
  ASSUME InOrder, TypeOK, TypeOK', SessionInv, [Next]_vars
  PROVE  SessionInv'
<1>1. link \in Links /\ link' \in Links
  BY DEF TypeOK
<1> USE RelayAssumption DEF InOrder, TypeOK, SessionInv, EmuInv, QueueInv, LoopInv, RelayedOnce,
      AnswerIsOwn, PCs, Numbers, relayVars, emuVars, vars
<1>2. CASE ConnectCard
  <2>1. EmuInv'
    BY <1>1, <1>2, LinkFields DEF ConnectCard, Exit
  <2>2. QueueInv'
    BY <1>1, <1>2, LinkFields DEF ConnectCard, Exit
  <2>3. LoopInv'
    BY <1>1, <1>2, LinkFields DEF ConnectCard, Exit
  <2>4. RelayedOnce' /\ AnswerIsOwn'
    BY <1>1, <1>2, LinkFields DEF ConnectCard, Exit
  <2> QED BY <2>1, <2>2, <2>3, <2>4
<1>3. CASE Open
  <2>1. EmuInv'
    BY <1>1, <1>3, LinkFields DEF Open, Exit, ConnectEmulator
  <2>2. QueueInv'
    BY <1>1, <1>3, LinkFields DEF Open, Exit, ConnectEmulator
  <2>3. LoopInv'
    BY <1>1, <1>3, LinkFields DEF Open, Exit, ConnectEmulator
  <2>4. RelayedOnce' /\ AnswerIsOwn'
    BY <1>1, <1>3, LinkFields DEF Open, Exit, ConnectEmulator
  <2> QED BY <2>1, <2>2, <2>3, <2>4
<1>4. CASE Accept
  <2>1. EmuInv'
    BY <1>1, <1>4, LinkFields DEF Accept, Exit
  <2>2. QueueInv'
    BY <1>1, <1>4, LinkFields DEF Accept, Exit
  <2>3. LoopInv'
    BY <1>1, <1>4, LinkFields DEF Accept, Exit
  <2>4. RelayedOnce' /\ AnswerIsOwn'
    BY <1>1, <1>4, LinkFields DEF Accept, Exit
  <2> QED BY <2>1, <2>2, <2>3, <2>4
<1>5. CASE Receive
  BY <1>5, ReceiveStep
<1>6. CASE ReceiveEnd
  <2>1. EmuInv'
    BY <1>1, <1>6, LinkFields DEF ReceiveEnd
  <2>2. QueueInv'
    BY <1>1, <1>6, LinkFields DEF ReceiveEnd
  <2>3. LoopInv'
    BY <1>1, <1>6, LinkFields DEF ReceiveEnd
  <2>4. RelayedOnce' /\ AnswerIsOwn'
    BY <1>1, <1>6, LinkFields DEF ReceiveEnd
  <2> QED BY <2>1, <2>2, <2>3, <2>4
<1>7. CASE ReceiveError
  <2>1. EmuInv'
    BY <1>1, <1>7, LinkFields DEF ReceiveError
  <2>2. QueueInv'
    BY <1>1, <1>7, LinkFields DEF ReceiveError
  <2>3. LoopInv'
    BY <1>1, <1>7, LinkFields DEF ReceiveError
  <2>4. RelayedOnce' /\ AnswerIsOwn'
    BY <1>1, <1>7, LinkFields DEF ReceiveError
  <2> QED BY <2>1, <2>2, <2>3, <2>4
<1>8. CASE Reopen
  <2>1. EmuInv'
    BY <1>1, <1>8, LinkFields DEF Reopen, ConnectEmulator
  <2>2. QueueInv'
    BY <1>1, <1>8, LinkFields DEF Reopen, ConnectEmulator
  <2>3. LoopInv'
    BY <1>1, <1>8, LinkFields DEF Reopen, ConnectEmulator
  <2>4. RelayedOnce' /\ AnswerIsOwn'
    BY <1>1, <1>8, LinkFields DEF Reopen, ConnectEmulator
  <2> QED BY <2>1, <2>2, <2>3, <2>4
<1>9. CASE Resend
  <2>1. EmuInv'
    BY <1>1, <1>9, LinkFields DEF Resend, ConnectEmulator
  <2>2. QueueInv'
    BY <1>1, <1>9, LinkFields DEF Resend, ConnectEmulator
  <2>3. LoopInv'
    BY <1>1, <1>9, LinkFields DEF Resend, ConnectEmulator
  <2>4. RelayedOnce' /\ AnswerIsOwn'
    BY <1>1, <1>9, LinkFields DEF Resend, ConnectEmulator
  <2> QED BY <2>1, <2>2, <2>3, <2>4
<1>10. CASE TransmitOk
  <2>1. EmuInv'
    BY <1>1, <1>10, LinkFields DEF TransmitOk, Given
  <2>2. QueueInv'
    BY <1>1, <1>10, LinkFields DEF TransmitOk, Given
  <2>3. LoopInv'
    BY <1>1, <1>10, LinkFields DEF TransmitOk, Given
  <2>4. RelayedOnce' /\ AnswerIsOwn'
    BY <1>1, <1>10, LinkFields DEF TransmitOk, Given
  <2> QED BY <2>1, <2>2, <2>3, <2>4
<1>11. CASE TransmitLost
  <2>1. EmuInv'
    BY <1>1, <1>11, LinkFields DEF TransmitLost, Given
  <2>2. QueueInv'
    BY <1>1, <1>11, LinkFields DEF TransmitLost, Given
  <2>3. LoopInv'
    BY <1>1, <1>11, LinkFields DEF TransmitLost, Given
  <2>4. RelayedOnce' /\ AnswerIsOwn'
    BY <1>1, <1>11, GivenOnce DEF TransmitLost
  <2> QED BY <2>1, <2>2, <2>3, <2>4
<1>12. CASE TransmitFails
  <2>1. EmuInv'
    BY <1>1, <1>12, LinkFields DEF TransmitFails, Exit, Given
  <2>2. QueueInv'
    BY <1>1, <1>12, LinkFields DEF TransmitFails, Exit, Given
  <2>3. LoopInv'
    BY <1>1, <1>12, LinkFields DEF TransmitFails, Exit, Given
  <2>4. RelayedOnce' /\ AnswerIsOwn'
    BY <1>1, <1>12, LinkFields DEF TransmitFails, Exit, Given
  <2> QED BY <2>1, <2>2, <2>3, <2>4
<1>13. CASE Send
  BY <1>13, SendStep
<1>14. CASE Signal
  <2>1. EmuInv'
    BY <1>1, <1>14, LinkFields DEF Signal, Exit
  <2>2. QueueInv'
    BY <1>1, <1>14, LinkFields DEF Signal, Exit
  <2>3. LoopInv'
    BY <1>1, <1>14, LinkFields DEF Signal, Exit
  <2>4. RelayedOnce' /\ AnswerIsOwn'
    BY <1>1, <1>14, LinkFields DEF Signal, Exit
  <2> QED BY <2>1, <2>2, <2>3, <2>4
<1>15. CASE EmuCalls
  <2>1. EmuInv'
    BY <1>1, <1>15, LinkFields DEF EmuCalls
  <2>2. QueueInv'
    BY <1>1, <1>15, LinkFields DEF EmuCalls
  <2>3. LoopInv'
    BY <1>1, <1>15, LinkFields DEF EmuCalls
  <2>4. RelayedOnce' /\ AnswerIsOwn'
    BY <1>1, <1>15, LinkFields DEF EmuCalls
  <2> QED BY <2>1, <2>2, <2>3, <2>4
<1>16. CASE EmuReads
  <2>1. EmuInv'
    BY <1>1, <1>16, LinkFields DEF EmuReads
  <2>2. QueueInv'
    BY <1>1, <1>16, LinkFields DEF EmuReads
  <2>3. LoopInv'
    BY <1>1, <1>16, LinkFields DEF EmuReads
  <2>4. RelayedOnce' /\ AnswerIsOwn'
    BY <1>1, <1>16, LinkFields DEF EmuReads
  <2> QED BY <2>1, <2>2, <2>3, <2>4
<1>17. CASE EmuDropped
  <2>1. EmuInv'
    BY <1>1, <1>17, LinkFields DEF EmuDropped
  <2>2. QueueInv'
    BY <1>1, <1>17, LinkFields DEF EmuDropped
  <2>3. LoopInv'
    BY <1>1, <1>17, LinkFields DEF EmuDropped
  <2>4. RelayedOnce' /\ AnswerIsOwn'
    BY <1>1, <1>17, LinkFields DEF EmuDropped
  <2> QED BY <2>1, <2>2, <2>3, <2>4
<1>18. CASE EmuLeaves
  BY <1>18, EmuLeavesStep
<1>19. CASE CardComesOrGoes
  <2>1. EmuInv'
    BY <1>1, <1>19, LinkFields DEF CardComesOrGoes
  <2>2. QueueInv'
    BY <1>1, <1>19, LinkFields DEF CardComesOrGoes
  <2>3. LoopInv'
    BY <1>1, <1>19, LinkFields DEF CardComesOrGoes
  <2>4. RelayedOnce' /\ AnswerIsOwn'
    BY <1>1, <1>19, LinkFields DEF CardComesOrGoes
  <2> QED BY <2>1, <2>2, <2>3, <2>4
<1>20. ASSUME NEW kind \in {"APDU", "ATR", "CTL"}, EmuAsks(kind) PROVE SessionInv'
  BY <1>20, EmuAsksStep
<1>21. CASE UNCHANGED vars
  BY <1>21
<1> QED BY <1>2, <1>3, <1>4, <1>5, <1>6, <1>7, <1>8, <1>9, <1>10, <1>11, <1>12, <1>13, <1>14, <1>15, <1>16, <1>17, <1>18, <1>19, <1>20, <1>21 DEF Next, Relay

LEMMA InSession == InOrder => (Spec => [](TypeOK /\ SessionInv))
<1> SUFFICES ASSUME InOrder PROVE Spec => [](TypeOK /\ SessionInv)
  OBVIOUS
<1>1. TypeOK /\ SessionInv /\ [Next]_vars => (TypeOK /\ SessionInv)'
  BY SessionStep, TypeStep
<1>2. Init => SessionInv
  BY InitInSession
<1> QED BY <1>1, <1>2, RelayTypesHold, PTL DEF Spec

\* A relay that listens, or whose emulators finish their exchanges, gives every
\* C-APDU to the card at most once, and nothing else.
THEOREM InOrderRelaysOnce == InOrder => (Spec => []RelayedOnce)
<1>1. SessionInv => RelayedOnce
  BY DEF SessionInv
<1> QED BY <1>1, InSession, PTL

\* Such a relay never gives an emulator the answer to another command.
THEOREM InOrderAnswersOwn == InOrder => (Spec => []AnswerIsOwn)
<1>1. SessionInv => AnswerIsOwn
  BY DEF SessionInv
<1> QED BY <1>1, InSession, PTL
-----------------------------------------------------------------------------
\* The relay implements CardChannel.

\* What is on its way to an emulator that waits was computed by the card.
ExecInv ==
  /\ emu = "waiting" /\ link.toEmu # <<>> => execs[seq] = 1
  /\ pc = "send" /\ out # Empty => execs[seq] = 1

\* What a step does to the current command.
SameCommand == UNCHANGED <<emu, seq, got, execs>>

LEMMA ExecOnce ==
  ASSUME TypeOK, execs[seq] = 0 PROVE Given(seq)[seq] = 1
BY DEF TypeOK, Given

\* Of the steps that leave the emulator where it is, none makes an answer
\* appear but a send, and none executes a command but a transmit.
LEMMA ExecRelay ==
  ASSUME InOrder, TypeOK, TypeOK', SessionInv, ExecInv, Relay \/ Signal
  PROVE  ExecInv'
<1>1. link \in Links /\ link' \in Links
  BY DEF TypeOK
<1>. USE DEF relayVars, emuVars
<1>2. CASE ConnectCard \/ Open \/ Accept \/ Reopen \/ Resend
  <2>1. link' = link \/ link' = RelayCloses(link) \/ link' = Fresh
    BY <1>2 DEF ConnectCard, Open, Accept, Reopen, Resend, Exit, ConnectEmulator
  <2>2. link'.toEmu # <<>> => link'.toEmu = link.toEmu
    BY <1>1, <2>1, LinkFields
  <2>3. pc' # "send" /\ UNCHANGED <<seq, execs>> /\ (emu' = "waiting" => emu = "waiting")
    BY <1>2 DEF ConnectCard, Open, Accept, Reopen, Resend, Exit, ConnectEmulator
  <2>. QED
    BY <2>2, <2>3 DEF ExecInv
<1>3. CASE Receive
  <2>1. pc' \in {"recv", "transmit", "reopen"} /\ UNCHANGED <<emu, seq, execs>>
    BY <1>3 DEF Receive
  <2>2. emu = "waiting" => link'.toEmu = <<>> \/ link'.toEmu = link.toEmu
    <3>1. PICK k \in Links : k = [link EXCEPT !.toRelay = Tail(@)] /\ k.toEmu = link.toEmu /\ k.emu = link.emu
      BY <1>1, <1>3, QueuesTyped, ReadFields DEF Receive
    <3>2. CASE link' = k
      BY <3>1, <3>2
    <3>3. CASE link' = [k EXCEPT !.rst = TRUE]
      BY <3>1, <3>3 DEF Links
    <3>4. CASE link' = RelayCloses(k)
      BY <3>1, <3>4, LinkFields
    <3>5. CASE Head(link.toRelay).kind = "ATR" /\ link.emu
      <4>1. link.toRelay[1].kind = "ATR" /\ 1 \in 1 .. Len(link.toRelay)
        BY <1>1, <1>3, <3>5, ReadFields DEF Receive
      <4>. QED
        BY <3>5, <4>1 DEF SessionInv, QueueInv
    <3>. QED
      BY <1>3, <3>1, <3>2, <3>3, <3>4, <3>5 DEF Receive
  <2>. QED
    BY <2>1, <2>2 DEF ExecInv
<1>4. CASE ReceiveEnd \/ ReceiveError
  <2>1. /\ link' = RelayCloses(link) \/ link' = link
        /\ pc' # "send" /\ UNCHANGED <<emu, seq, execs>>
    BY <1>4 DEF ReceiveEnd, ReceiveError
  <2>. QED
    BY <1>1, <2>1, LinkFields DEF ExecInv
<1>5. CASE TransmitOk \/ TransmitLost
  <2>1. /\ link' = link /\ UNCHANGED <<emu, seq>> /\ link.toEmu = <<>>
        /\ out' # Empty => execs' = Given(seq)
        /\ execs[seq] = 0
    BY <1>5 DEF TransmitOk, TransmitLost, SessionInv, LoopInv
  <2>. QED
    BY <2>1, ExecOnce DEF ExecInv
<1>6. CASE TransmitFails
  <2>1. link' = RelayCloses(link) /\ pc' = "exit" /\ link.toEmu = <<>>
    BY <1>6 DEF TransmitFails, Exit, SessionInv, LoopInv
  <2>. QED
    BY <1>1, <2>1, LinkFields DEF ExecInv
<1>7. CASE Send
  <2>1. /\ pc' # "send" /\ UNCHANGED <<emu, seq, execs>> /\ link.toEmu = <<>>
        /\ out # Empty => execs[seq] = 1
    BY <1>7 DEF Send, SessionInv, LoopInv, ExecInv
  <2>2. out = Empty => link'.toEmu = <<>>
    BY <1>7, <2>1 DEF Send
  <2>. QED
    BY <2>1, <2>2 DEF ExecInv
<1>8. CASE Signal
  <2>1. link' = RelayCloses(link) /\ pc' = "exit" /\ UNCHANGED <<emu, seq, execs>>
    BY <1>8 DEF Signal, Exit
  <2>. QED
    BY <1>1, <2>1, LinkFields DEF ExecInv
<1>. QED
  BY <1>2, <1>3, <1>4, <1>5, <1>6, <1>7, <1>8 DEF Relay

LEMMA ExecEmulator ==
  ASSUME InOrder, TypeOK, TypeOK', SessionInv, ExecInv, NEW kind \in {"APDU", "ATR", "CTL"},
         EmuCalls \/ EmuReads \/ EmuDropped \/ EmuLeaves \/ EmuAsks(kind) \/ CardComesOrGoes
  PROVE  ExecInv'
<1>1. link \in Links /\ link' \in Links
  BY DEF TypeOK
<1>. USE DEF relayVars, emuVars
<1>2. CASE EmuCalls \/ CardComesOrGoes
  BY <1>2 DEF EmuCalls, CardComesOrGoes, ExecInv
<1>3. CASE EmuReads \/ EmuDropped \/ EmuLeaves
  <2>1. emu' # "waiting" /\ UNCHANGED <<pc, out, seq, execs>>
    BY <1>3 DEF EmuReads, EmuDropped, EmuLeaves
  <2>. QED
    BY <2>1 DEF ExecInv
<1>4. CASE EmuAsks(kind)
  <2>1. emu = "ready" /\ link.emu /\ link.toEmu = <<>> /\ pc # "send" /\ pc' = pc
    BY <1>4 DEF EmuAsks, SessionInv, EmuInv, LoopInv
  <2>2. link'.toEmu = <<>>
    BY <1>1, <1>4, <2>1 DEF EmuAsks, Links
  <2>. QED
    BY <2>1, <2>2 DEF ExecInv
<1>. QED
  BY <1>2, <1>3, <1>4

LEMMA ExecStep ==
  ASSUME InOrder, TypeOK, TypeOK', SessionInv, ExecInv, [Next]_vars PROVE ExecInv'
<1>1. CASE UNCHANGED vars
  BY <1>1 DEF vars, relayVars, emuVars, ExecInv
<1>. QED
  BY <1>1, ExecRelay, ExecEmulator DEF Next

-----------------------------------------------------------------------------
\* Every step of the relay is a step of the channel.

\* How the channel sees a step that changes what the emulator is at.
LEMMA ChannelMoves ==
  /\ Stage = "none" /\ Stage' = "sent" /\ Outcome' = "none" => Channel!Next
  /\ Stage = "sent" /\ Stage' = "executed" /\ Outcome' = Outcome => Channel!Next
  /\ Stage = "executed" /\ Stage' = "none" /\ Outcome' = "own" => Channel!Next
  /\ Stage # "none" /\ Stage' = "none" /\ Outcome' = "failed" => Channel!Next
  /\ Stage' = Stage /\ Outcome' = Outcome => UNCHANGED Channel!vars
<1>. DEFINE E == {"emulator"}
<1>1. ASSUME Stage = "none", Stage' = "sent", Outcome' = "none" PROVE Channel!Submit("emulator")
  BY <1>1 DEF Channel!Submit
<1>2. ASSUME Stage = "sent", Stage' = "executed", Outcome' = Outcome PROVE Channel!Execute("emulator")
  BY <1>2 DEF Channel!Execute
<1>3. ASSUME Stage = "executed", Stage' = "none", Outcome' = "own" PROVE Channel!Answered("emulator")
  BY <1>3 DEF Channel!Answered
<1>4. ASSUME Stage # "none", Stage' = "none", Outcome' = "failed" PROVE Channel!Failed("emulator")
  BY <1>4 DEF Channel!Failed
<1>5. ASSUME Stage' = Stage, Outcome' = Outcome PROVE UNCHANGED Channel!vars
  BY <1>5 DEF Channel!vars
<1>. QED
  BY <1>1, <1>2, <1>3, <1>4, <1>5 DEF Channel!Next

LEMMA SameStage ==
  ASSUME SameCommand PROVE Stage' = Stage /\ Outcome' = Outcome
BY DEF SameCommand, Stage, Outcome

\* A transmit gives the card the command that the emulator waits for, if it
\* still waits, and otherwise one that nobody waits for any more.
LEMMA ChannelTransmits ==
  ASSUME InOrder, TypeOK, SessionInv, TransmitOk \/ TransmitLost \/ TransmitFails
  PROVE  [Channel!Next]_(Channel!vars)
<1>1. /\ UNCHANGED <<emu, seq, got>> /\ buf = seq /\ execs[seq] = 0
      /\ execs' = execs \/ execs' = Given(seq)
  BY DEF TransmitOk, TransmitLost, TransmitFails, emuVars, SessionInv, LoopInv
<1>2. CASE execs' = execs
  BY <1>1, <1>2, SameStage, ChannelMoves DEF SameCommand
<1>3. CASE execs' = Given(seq) /\ emu # "waiting"
  BY <1>1, <1>3, ChannelMoves DEF Stage, Outcome
<1>4. CASE execs' = Given(seq) /\ emu = "waiting"
  <2>1. execs'[seq'] = 1
    BY <1>1, <1>4, ExecOnce
  <2>2. Stage = "sent" /\ Stage' = "executed" /\ Outcome' = Outcome
    BY <1>1, <1>4, <2>1 DEF Stage, Outcome
  <2>. QED
    BY <2>2, ChannelMoves
<1>. QED
  BY <1>1, <1>2, <1>3, <1>4

LEMMA ChannelStep ==
  ASSUME InOrder, TypeOK, SessionInv, SessionInv', ExecInv, [Next]_vars
  PROVE  [Channel!Next]_(Channel!vars)
<1>. USE DEF relayVars, emuVars
<1>1. CASE UNCHANGED vars
  BY <1>1, SameStage, ChannelMoves DEF vars, SameCommand
<1>2. CASE ConnectCard \/ Open \/ Accept \/ Reopen \/ Resend \/ EmuCalls
  <2>1. /\ UNCHANGED <<seq, got, execs>>
        /\ emu' = emu \/ (emu # "waiting" /\ emu' # "waiting")
    BY <1>2 DEF ConnectCard, Open, Accept, Reopen, Resend, EmuCalls, ConnectEmulator
  <2>2. Stage' = Stage /\ Outcome' = Outcome
    BY <2>1 DEF Stage, Outcome
  <2>. QED
    BY <2>2, ChannelMoves
<1>3. CASE Receive \/ ReceiveEnd \/ ReceiveError \/ Send \/ Signal \/ CardComesOrGoes
  <2>1. SameCommand
    BY <1>3 DEF Receive, ReceiveEnd, ReceiveError, Send, Signal, CardComesOrGoes, SameCommand
  <2>. QED
    BY <2>1, SameStage, ChannelMoves
<1>4. CASE TransmitOk \/ TransmitLost \/ TransmitFails
  BY <1>4, ChannelTransmits
<1>5. CASE EmuReads
  <2>1. /\ emu \in {"waiting", "atr"} /\ emu' = "ready" /\ UNCHANGED <<seq, execs>>
        /\ link.toEmu # <<>> /\ got' # "foreign"
    BY <1>5 DEF EmuReads, SessionInv, AnswerIsOwn
  <2>2. CASE emu = "waiting"
    <3>1. got' = "own" /\ execs[seq] = 1
      BY <1>5, <2>1, <2>2 DEF EmuReads, ExecInv
    <3>2. Stage = "executed" /\ Stage' = "none" /\ Outcome' = "own"
      BY <2>1, <2>2, <3>1 DEF Stage, Outcome
    <3>. QED
      BY <3>2, ChannelMoves
  <2>3. CASE emu = "atr"
    <3>1. got' = got
      BY <1>5, <2>1, <2>3 DEF EmuReads
    <3>. QED
      BY <2>1, <2>3, <3>1, ChannelMoves DEF Stage, Outcome
  <2>. QED
    BY <2>1, <2>2, <2>3
<1>6. CASE EmuDropped \/ EmuLeaves
  <2>1. /\ emu' # "waiting" /\ UNCHANGED <<seq, execs>>
        /\ got' = IF emu = "waiting" THEN "failed" ELSE got
    BY <1>6 DEF EmuDropped, EmuLeaves
  <2>2. Stage' = "none" /\ Outcome' = got'
    BY <2>1 DEF Stage, Outcome
  <2>3. CASE emu = "waiting"
    <3>1. Stage # "none"
      BY <2>3 DEF Stage
    <3>. QED
      BY <2>1, <2>2, <2>3, <3>1, ChannelMoves
  <2>4. CASE emu # "waiting"
    <3>1. Stage = "none" /\ Outcome = got
      BY <2>4 DEF Stage, Outcome
    <3>. QED
      BY <2>1, <2>2, <2>4, <3>1, ChannelMoves
  <2>. QED
    BY <2>3, <2>4
<1>7. ASSUME NEW kind \in {"APDU", "ATR", "CTL"}, EmuAsks(kind)
      PROVE [Channel!Next]_(Channel!vars)
  <2>1. CASE kind = "APDU"
    <3>1. /\ emu = "ready" /\ emu' = "waiting"
          /\ execs' = [execs EXCEPT ![seq'] = 0] /\ seq' \in Numbers
      BY <1>7, <2>1, MessagesTyped DEF EmuAsks, TypeOK
    <3>2. execs'[seq'] = 0
      BY <3>1 DEF TypeOK
    <3>3. Stage = "none" /\ Stage' = "sent" /\ Outcome' = "none"
      BY <3>1, <3>2 DEF Stage, Outcome
    <3>. QED
      BY <3>3, ChannelMoves
  <2>2. CASE kind # "APDU"
    <3>1. emu = "ready" /\ emu' \in {"atr", "ready"} /\ UNCHANGED got
      BY <1>7, <2>2 DEF EmuAsks
    <3>2. Stage' = Stage /\ Outcome' = Outcome
      BY <3>1 DEF Stage, Outcome
    <3>. QED
      BY <3>2, ChannelMoves
  <2>. QED
    BY <2>1, <2>2
<1>. QED
  BY <1>1, <1>2, <1>3, <1>4, <1>5, <1>6, <1>7 DEF Next, Relay

\* The relay implements CardChannel for its emulator: a C-APDU is executed at
\* most once, whatever fails between the two loops, and an answer is taken
\* only when the card has executed the command.  A relay that reaches out to
\* its emulator needs one that finishes its exchanges; relay_replay shows why.
THEOREM RelayImplementsChannel == InOrder => (Spec => ImplementsChannel)
<1>. SUFFICES ASSUME InOrder PROVE Spec => ImplementsChannel
  OBVIOUS
<1>1. Init => Channel!Init
  BY DEF Init, Channel!Init, Stage, Outcome
<1>2. Init => ExecInv
  BY DEF Init, ExecInv, NoLink
<1>3. TypeOK /\ TypeOK' /\ SessionInv /\ ExecInv /\ [Next]_vars => ExecInv'
  BY ExecStep
<1>4. TypeOK /\ SessionInv /\ SessionInv' /\ ExecInv /\ [Next]_vars => [Channel!Next]_(Channel!vars)
  BY ChannelStep
<1>. QED
  BY <1>1, <1>2, <1>3, <1>4, InSession, PTL DEF Spec, ImplementsChannel, Channel!Spec
=============================================================================
