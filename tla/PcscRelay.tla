----------------------------- MODULE PcscRelay -----------------------------
(***************************************************************************)
(* pcsc-relay: the main loop of pcsc-relay.c between an emulator, reached  *)
(* with the driver of vicc.c, and a card, reached with the driver of       *)
(* vpcd-driver.c or pcsc.c.  The emulator is the reader of a vpcd that     *)
(* talks to pcsc-relay as if that were a card.                             *)
(*                                                                         *)
(* Messages arrive whole here; VpcdLink shows what happens to parts.  What *)
(* matters is what the loop keeps when an exchange fails: the contexts of  *)
(* earlier connections, and the last C-APDU in buf.                        *)
(***************************************************************************)
EXTENDS Naturals, Sequences

CONSTANTS
  Driver,     \* "listen": vicc.c waits for the emulator; "host": it connects to it
  Connector,  \* "vicc": vpcd-driver.c; "pcsc": pcsc.c
  Polite,     \* TRUE: an emulator hangs up only after it has read its answer
  None, Garbled, Empty

Numbers  == 0 .. 2
Requests == [kind : {"APDU", "ATR", "CTL"}, n : Numbers]
Answers  == [kind : {"R-APDU", "R-ATR"}, n : Numbers]

ASSUME RelayAssumption ==
  /\ Driver \in {"listen", "host"}
  /\ Connector \in {"pcsc", "vicc"}
  /\ Polite \in BOOLEAN
  /\ None \notin Numbers /\ Garbled \notin Numbers /\ Empty \notin Answers
  /\ None # Garbled

Bound == 2    \* messages of the emulator that wait to be read

VARIABLES
  pc,      \* where main() is
  held,    \* some vicc_ctx of this process listens on viccport
  link,    \* the connection of the current vicc_ctx
  buf,     \* the number of the C-APDU in buf; None when buflen is 0
  out,     \* outputBuffer
  card,    \* the connection to the card, and whether there is a card
  emu,     \* what the emulator does
  seq,     \* the number of its last C-APDU
  got,     \* what its last C-APDU was answered with
  execs    \* how often the card was given each command

relayVars == <<pc, held, buf, out>>
emuVars   == <<emu, seq, got>>
vars      == <<relayVars, link, card, emuVars, execs>>

PCs == {"card", "open", "accept", "recv", "transmit", "send", "reopen", "resend", "exit"}

Cards  == [up : BOOLEAN, alive : BOOLEAN]
Links  == [relay : BOOLEAN, emu : BOOLEAN, rst : BOOLEAN,
           toRelay : Seq(Requests), toEmu : Seq(Answers)]
NoLink == [relay |-> FALSE, emu |-> FALSE, rst |-> FALSE, toRelay |-> <<>>, toEmu |-> <<>>]
Fresh  == [NoLink EXCEPT !.relay = TRUE, !.emu = TRUE]

Init ==
  /\ pc = "card"
  /\ held = FALSE
  /\ link = NoLink
  /\ buf = None
  /\ out = Empty
  /\ card \in {[up |-> FALSE, alive |-> a] : a \in BOOLEAN}
  /\ emu \in {"away", "calling"}
  /\ seq = 0
  /\ got = "none"
  /\ execs = [n \in Numbers \cup {Garbled} |-> 0]

\* vicc_eject, or the end of the process.  Unread data makes the kernel send a reset.
RelayCloses(k) == IF k.emu THEN [k EXCEPT !.relay = FALSE, !.rst = @ \/ k.toRelay # <<>>,
                                          !.toRelay = <<>>]
                  ELSE NoLink

\* The emulator's end closes; what it has sent can still be read.
EmuCloses(k) == IF k.relay THEN [k EXCEPT !.emu = FALSE, !.rst = @ \/ k.toEmu # <<>>,
                                          !.toEmu = <<>>]
                ELSE NoLink

\* It ends with a reset although nothing is unread.
EmuResets(k) == IF k.relay THEN [k EXCEPT !.emu = FALSE, !.rst = TRUE, !.toEmu = <<>>]
                ELSE NoLink

-----------------------------------------------------------------------------
\* cleanup(): both drivers disconnect, and the process ends.
Exit ==
  /\ pc' = "exit"
  /\ held' = FALSE
  /\ link' = RelayCloses(link)
  /\ card' = [card EXCEPT !.up = FALSE]
  /\ UNCHANGED <<buf, out>>

\* scdriver->connect.  Both connectors may fail; without a card pcsc_connect does,
\* and vpcd_connect waits.
ConnectCard ==
  /\ pc = "card"
  /\ \/ /\ card.alive
        /\ pc' = "open"
        /\ card' = [card EXCEPT !.up = TRUE]
        /\ UNCHANGED <<held, buf, out, link>>
     \/ Exit
  /\ UNCHANGED <<emuVars, execs>>

\* Mutant: a failed connect is given up like the first one.
ConnectEmulatorOnce(next, failed) ==
  \/ /\ Driver = "host" /\ emu = "calling" /\ pc = "open"
     /\ link' = Fresh
     /\ emu' = "ready"
     /\ pc' = next
     /\ UNCHANGED held
  \/ /\ Driver = "host" /\ emu # "calling"
     /\ pc' \in {next, failed}
     /\ UNCHANGED <<held, link, emu>>
  \/ /\ Driver = "listen"
     /\ pc' = failed
     /\ UNCHANGED <<held, link, emu>>

\* _vicc_connect.  Listening fails while another context of this process still
\* listens on the port, and no caller has closed the last one.  When nobody is
\* at the other end, connectsock returns a closed socket that vicc_connect takes
\* for a connection, unless the name does not resolve.
ConnectEmulator(next, failed) ==
  \/ /\ Driver = "listen" /\ ~held
     /\ held' = TRUE
     /\ pc' = "accept"
     /\ UNCHANGED <<link, emu>>
  \/ /\ Driver = "listen"
     /\ pc' = failed
     /\ UNCHANGED <<held, link, emu>>
  \/ /\ Driver = "host" /\ emu = "calling"
     /\ link' = Fresh
     /\ emu' = "ready"
     /\ pc' = next
     /\ UNCHANGED held
  \/ /\ Driver = "host" /\ emu # "calling"
     /\ pc' \in {next, failed}
     /\ UNCHANGED <<held, link, emu>>

\* The first rfdriver->connect.
Open ==
  /\ pc = "open"
  /\ \/ /\ ConnectEmulator("recv", "open")
        /\ pc' # "open"
        /\ UNCHANGED <<buf, out, card>>
     \/ /\ Driver = "listen" \/ emu # "calling"
        /\ Exit
        /\ UNCHANGED emu
  /\ UNCHANGED <<seq, got, execs>>

\* vicc_connect waits 300 seconds for the emulator.
Accept ==
  /\ pc = "accept"
  /\ \/ /\ emu = "calling"
        /\ link' = Fresh
        /\ emu' = "ready"
        /\ pc' = "recv"
        /\ UNCHANGED <<held, buf, out, card>>
     \/ /\ Exit
        /\ UNCHANGED emu
  /\ UNCHANGED <<seq, got, execs>>

\* realloc and recv have put a control message over the C-APDU; buflen is kept.
Overwritten(b) == IF b = None THEN None ELSE Garbled

\* vicc_receive_capdu reads one message.  It answers a request for the ATR, and
\* ignores power commands.  When the answer cannot be sent, because the emulator
\* has reset the connection, sendToVICC closes the socket.
Receive ==
  /\ pc = "recv" /\ link.relay /\ link.toRelay # <<>>
  /\ LET m    == Head(link.toRelay)
         rest == [link EXCEPT !.toRelay = Tail(@)]
     IN \/ /\ m.kind = "APDU"
           /\ buf' = m.n
           /\ pc' = "transmit"
           /\ link' = rest
        \/ /\ m.kind = "CTL"
           /\ buf' = Overwritten(buf)
           /\ link' = rest
           /\ UNCHANGED pc
        \/ /\ m.kind = "ATR" /\ link.emu
           /\ buf' = Overwritten(buf)
           /\ link' = [rest EXCEPT !.toEmu = Append(@, [kind |-> "R-ATR", n |-> m.n])]
           /\ UNCHANGED pc
        \/ /\ m.kind = "ATR" /\ ~link.emu
           /\ buf' = Overwritten(buf)
           /\ \/ /\ link' = [rest EXCEPT !.rst = TRUE]
                 /\ UNCHANGED pc
              \/ /\ link.rst
                 /\ link' = RelayCloses(rest)
                 /\ pc' = "reopen"
  /\ UNCHANGED <<held, out, card, emuVars, execs>>

\* The connection has ended, in order or by a reset: recvFromVICC returns 0.  The
\* -1 of its first recv passes the unsigned test, the second recv returns 0.  This is
\* a C-APDU of no bytes, and main() asks for the next on the socket it has closed.
ReceiveEnd ==
  /\ pc = "recv" /\ link.relay /\ ~link.emu /\ (link.rst \/ link.toRelay = <<>>)
  /\ buf' = None
  /\ link' = RelayCloses(link)
  /\ UNCHANGED <<pc, held, out, card, emuVars, execs>>

\* There is no connection.  Both calls of recv fail, and *len is not written.
ReceiveError ==
  /\ pc = "recv" /\ ~link.relay
  /\ pc' = "reopen"
  /\ UNCHANGED <<held, out, buf, link, card, emuVars, execs>>

\* After a failed receive main() goes on with what buf and buflen hold.
Reopen ==
  /\ pc = "reopen"
  /\ ConnectEmulator(IF buf = None THEN "recv" ELSE "transmit", "reopen")
  /\ UNCHANGED <<buf, out, card, seq, got, execs>>

\* After a failed send it goes on with the next C-APDU.
Resend ==
  /\ pc = "resend"
  /\ ConnectEmulator("recv", "resend")
  /\ UNCHANGED <<buf, out, card, seq, got, execs>>

\* The card is given a command; the count stops at 2.
Given(b) == [execs EXCEPT ![b] = IF @ < 2 THEN @ + 1 ELSE 2]

\* scdriver->transmit returns the card's answer.
TransmitOk ==
  /\ pc = "transmit" /\ card.up /\ card.alive
  /\ execs' = Given(buf)
  /\ \E n \in Numbers : /\ buf \in Numbers => n = buf
                        /\ out' = [kind |-> "R-APDU", n |-> n]
  /\ pc' = "send"
  /\ UNCHANGED <<held, buf, link, card, emuVars>>

\* vpcd_transmit: the connection to the card ends before the answer, and
\* vicc_transmit returns 0.  That is a success with an answer of no bytes.
TransmitLost ==
  /\ pc = "transmit" /\ card.up /\ Connector = "vicc"
  /\ execs' \in {execs, IF card.alive THEN Given(buf) ELSE execs}
  /\ out' = Empty
  /\ card' = [up |-> FALSE, alive |-> FALSE]
  /\ pc' = "send"
  /\ UNCHANGED <<held, buf, link, emuVars>>

\* PC/SC may fail at any time; vicc_transmit fails when it cannot send, because
\* there is no connection to the virtual card or the card has left it.
MayFail == Connector = "pcsc" \/ ~(card.up /\ card.alive)

\* Mutant: main() goes on after a failed transmit.
TransmitFailsIgnored ==
  /\ pc = "transmit" /\ MayFail
  /\ pc' = "recv"
  /\ UNCHANGED <<held, buf, out, link, card, emuVars, execs>>

\* main() leaves its loop.
TransmitFails ==
  /\ pc = "transmit" /\ MayFail
  /\ execs' \in {execs, IF card.up /\ card.alive THEN Given(buf) ELSE execs}
  /\ Exit
  /\ UNCHANGED emuVars

\* Mutant: after a failed send the answer is computed again.
SendAgain ==
  /\ pc = "send"
  /\ pc' = IF link.emu THEN "recv" ELSE "transmit"
  /\ link' = IF link.relay /\ link.emu THEN [link EXCEPT !.toEmu = Append(@, out)] ELSE link
  /\ UNCHANGED <<held, buf, out, card, emuVars, execs>>

\* rfdriver->send_rapdu.  An answer of no bytes is not sent, and that is a
\* success.  To an emulator that has gone the first send succeeds and is answered
\* by a reset.  When the connection has been reset sendToVICC fails, and closes it.
Send ==
  /\ pc = "send"
  /\ \/ /\ out = Empty
        /\ pc' = "recv"
        /\ UNCHANGED link
     \/ /\ out # Empty /\ link.relay
        /\ pc' = "recv"
        /\ link' = IF link.emu THEN [link EXCEPT !.toEmu = Append(@, out)]
                   ELSE [link EXCEPT !.rst = TRUE]
     \/ /\ out # Empty
        /\ ~link.relay \/ (~link.emu /\ link.rst)
        /\ pc' = "resend"
        /\ link' = RelayCloses(link)
  /\ UNCHANGED <<held, buf, out, card, emuVars, execs>>

\* cleanup_exit: SIGINT or SIGTERM.
Signal ==
  /\ pc # "exit"
  /\ Exit
  /\ UNCHANGED <<emuVars, execs>>

-----------------------------------------------------------------------------
\* The emulator calls (it connects to viccport, or listens) and gives up.
EmuCalls ==
  /\ \/ emu = "away" /\ emu' = "calling"
     \/ emu = "calling" /\ emu' = "away"
  /\ UNCHANGED <<relayVars, link, card, seq, got, execs>>

\* It sends a C-APDU, a request for the ATR or a power command.
EmuAsks(kind) ==
  /\ emu = "ready"
  /\ Len(link.toRelay) < Bound
  /\ seq' = IF kind = "APDU" THEN (seq + 1) % 3 ELSE seq
  /\ execs' = IF kind = "APDU" THEN [execs EXCEPT ![seq'] = 0] ELSE execs
  /\ got' = IF kind = "APDU" THEN "none" ELSE got
  /\ emu' = CASE kind = "APDU" -> "waiting" [] kind = "ATR" -> "atr" [] OTHER -> "ready"
  /\ link' = IF link.relay THEN [link EXCEPT !.toRelay = Append(@, [kind |-> kind, n |-> seq'])]
             ELSE link
  /\ UNCHANGED <<relayVars, card>>

\* It takes what comes for the answer to its request.
EmuReads ==
  /\ emu \in {"waiting", "atr"} /\ link.emu /\ link.toEmu # <<>>
  /\ LET m == Head(link.toEmu)
     IN /\ got' = IF emu = "waiting"
                  THEN IF m = [kind |-> "R-APDU", n |-> seq] THEN "own" ELSE "foreign"
                  ELSE IF m.kind = "R-ATR" THEN got ELSE "foreign"
        /\ link' = [link EXCEPT !.toEmu = Tail(@)]
  /\ emu' = "ready"
  /\ UNCHANGED <<relayVars, card, seq, execs>>

\* It sees the end of the connection, and calls again.
EmuDropped ==
  /\ link.emu /\ ~link.relay
  /\ link.toEmu = <<>> \/ link.rst
  /\ link' = NoLink
  /\ got' = IF emu = "waiting" THEN "failed" ELSE got
  /\ emu' = "calling"
  /\ UNCHANGED <<relayVars, card, seq, execs>>

\* It hangs up, or its process ends, which on Windows may reset the connection.
EmuLeaves ==
  /\ link.emu
  /\ Polite => emu = "ready" /\ link.toEmu = <<>>
  /\ \/ link' = EmuCloses(link)
     \/ link' = EmuResets(link)
  /\ got' = IF emu = "waiting" THEN "failed" ELSE got
  /\ emu' = "away"
  /\ UNCHANGED <<relayVars, card, seq, execs>>

CardComesOrGoes ==
  /\ \/ card.alive
     \/ pc = "card"
  /\ card' = [card EXCEPT !.alive = ~@]
  /\ UNCHANGED <<relayVars, link, emuVars, execs>>

Relay == \/ ConnectCard \/ Open \/ Accept
         \/ Receive \/ ReceiveEnd \/ ReceiveError \/ Reopen \/ Resend
         \/ TransmitOk \/ TransmitLost \/ TransmitFails \/ Send

Next == \/ Relay \/ Signal
        \/ EmuCalls \/ EmuReads \/ EmuDropped \/ EmuLeaves
        \/ \E kind \in {"APDU", "ATR", "CTL"} : EmuAsks(kind)
        \/ CardComesOrGoes

Spec == Init /\ [][Next]_vars

\* The operating system runs the relay, and the emulator reads what arrives.
FairSpec == Spec /\ WF_vars(Relay) /\ WF_vars(EmuReads) /\ WF_vars(EmuDropped)

-----------------------------------------------------------------------------
TypeOK ==
  /\ pc \in PCs /\ held \in BOOLEAN
  /\ link \in Links
  /\ buf \in Numbers \cup {None, Garbled}
  /\ out \in Answers \cup {Empty}
  /\ card \in Cards
  /\ emu \in {"away", "calling", "ready", "waiting", "atr"}
  /\ seq \in Numbers
  /\ got \in {"none", "own", "foreign", "failed"}
  /\ execs \in [Numbers \cup {Garbled} -> 0 .. 2]

\* Every C-APDU reaches the card at most once, and the card is given nothing
\* that is not a C-APDU of the emulator.
RelayedOnce == /\ \A n \in Numbers : execs[n] <= 1
               /\ execs[Garbled] = 0

\* The emulator never takes the answer to another command, or an answer nobody
\* asked for, for its own.
AnswerIsOwn == got # "foreign"

\* An emulator that waits for an answer gets one, or sees the connection end:
\* the loop of main() never forgets a C-APDU it has read.
AnsweredOrDropped == (emu = "waiting") ~> (emu # "waiting")

\* After an error main() reconnects until an emulator that is there is served.
Reconnects ==
  (emu = "calling" /\ pc \in {"reopen", "resend"}) ~> (emu # "calling" \/ pc = "exit")

\* What the relay promises the emulator is what a slot promises an application.
Stage == IF emu # "waiting" THEN "none"
         ELSE CASE execs[seq] = 0 -> "sent" [] execs[seq] = 1 -> "executed" [] OTHER -> "twice"
Outcome == IF emu = "waiting" THEN "none" ELSE got
Channel == INSTANCE CardChannel WITH Threads <- {"emulator"},
             stage  <- [t \in {"emulator"} |-> Stage],
             answer <- [t \in {"emulator"} |-> Outcome]
ImplementsChannel == Channel!Spec
=============================================================================
