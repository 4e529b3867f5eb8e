-------------------------------- MODULE Ccid --------------------------------
(***************************************************************************)
(* The CCID emulator (ccid.c, and the two endpoint loops of usb.c) between *)
(* a USB host and a local reader.  Two threads run on the static card and  *)
(* reader with no lock: the bulk thread answers the host's commands one at *)
(* a time, the interrupt thread looks at the reader twice every ten        *)
(* seconds and reports what changed.  Both throw the card handle away when *)
(* the reader says that the card is gone or another one.                   *)
(*                                                                         *)
(* A card is named by the insertion it came with: 1 is the first card      *)
(* inserted, NULL is none.  A handle of an earlier insertion is stale, and *)
(* the reader driver refuses it.  One session of the host is modelled:     *)
(* usb.c ends the program when an endpoint loop ends with an error.        *)
(***************************************************************************)
EXTENDS Naturals

CONSTANTS
  SkipFirst,        \* answers given before presence is looked at (10)
  MaxInsertions,    \* bound on cards inserted
  MaxFaults         \* bound on looks the reader driver fails

ASSUME CcidAssumption == /\ SkipFirst \in Nat
                         /\ MaxInsertions \in Nat
                         /\ MaxFaults \in Nat

VARIABLES
  slot, inserted,   \* the insertion in the reader, and how many there were
  latch,            \* the driver has an insertion it has not reported
  faults,           \* looks that failed
  card,             \* static sc_card_t *card
  skipfirst,        \* static unsigned int skipfirst
  pc, cmd,          \* the bulk thread and the command it works on
  held,             \* the value of card it read last
  ok,               \* sc_result >= 0
  data,             \* whose data or ATR the answer carries
  seen, status,     \* what get_bStatus found, and the bStatus made of it
  ipc, iseen,       \* the interrupt thread and what it found
  oldPresent,       \* oldmask has the present bit
  changed,          \* bmSlotICCState has the changed bit
  up,               \* the program runs, has ended, or was killed
  atr,              \* the insertion whose ATR the host was given last
  gone,             \* the last answer said, from a look, that no card is active
  news, owed        \* this answer tells of a change; threads that owe one

slotVars == <<slot, inserted, latch, faults>>
cardVars == <<card, skipfirst>>
bulkVars == <<pc, cmd, held, ok, data, seen, status, news>>
intrVars == <<ipc, iseen, oldPresent, changed>>
hostVars == <<atr, gone>>
vars == <<slotVars, cardVars, bulkVars, intrVars, hostVars, up, owed>>

NULL == 0
Insertions == 0 .. MaxInsertions

\* Messages of the host: IccPowerOn, IccPowerOff, GetSlotStatus, GetParameters,
\* one of another type; XfrBlock with an APDU for the card, "xfr", or for the
\* reader itself (CLA 0xff), "boxed", "boxedpin" and "boxedpace"; Secure, "pin",
\* "pace" and "caps"; and a message too short for its type.
Boxed == {"boxed", "boxedpin", "boxedpace"}
Commands == Boxed \cup {"on", "off", "slot", "params", "unknown", "xfr", "pin", "pace",
                        "caps", "short"}

\* What sc_detect_card_presence returns: flags, or an error code whose lowest
\* bits are taken for flags all the same.  "skipped": it was not called.
Looks == [kind : {"skipped", "flags", "error"}, pres : BOOLEAN, chg : BOOLEAN]
Skipped == [kind |-> "skipped", pres |-> FALSE, chg |-> FALSE]
Flags == [kind |-> "flags", pres |-> slot # NULL, chg |-> slot # NULL /\ latch]

Init ==
  /\ slot \in {NULL, 1} /\ slot <= MaxInsertions
  /\ inserted = slot
  /\ latch \in {FALSE, slot # NULL}
  /\ faults = 0
  /\ card = NULL /\ skipfirst = 0
  /\ pc = "idle" /\ cmd = "none" /\ held = NULL /\ ok = TRUE /\ data = NULL
  /\ seen = Skipped /\ status = "unlooked" /\ news = FALSE
  /\ ipc = "first" /\ iseen = Skipped /\ oldPresent = FALSE /\ changed = FALSE
  /\ up = "running"
  /\ atr = NULL /\ gone = FALSE
  /\ owed = {}

-----------------------------------------------------------------------------
\* The user of the local reader.
Insert ==
  /\ slot = NULL /\ inserted < MaxInsertions
  /\ inserted' = inserted + 1 /\ slot' = inserted + 1 /\ latch' = TRUE
  /\ UNCHANGED <<faults, cardVars, bulkVars, intrVars, hostVars, up, owed>>

Remove ==
  /\ slot # NULL
  /\ slot' = NULL
  /\ UNCHANGED <<inserted, latch, faults, cardVars, bulkVars, intrVars, hostVars,
                 up, owed>>

\* The reader driver looks at the slot for one of the threads; l is what it
\* returns.  A change it reports is not reported again.
Detects(thread, l) ==
  \/ /\ l = Flags
     /\ latch' = FALSE
     /\ owed' = IF l.chg THEN owed \cup {thread} ELSE owed
     /\ UNCHANGED <<slot, inserted, faults>>
  \/ /\ l \in Looks /\ l.kind = "error"
     /\ faults < MaxFaults /\ faults' = faults + 1
     /\ UNCHANGED <<slot, inserted, latch, owed>>

\* Mutant: the handle of a removed card is kept.
KeptRemoved(l) == IF l.chg THEN NULL ELSE card

\* Mutant: a changed card is connected to at once.
KeptConnected(l) ==
  IF l.kind = "flags" /\ ~l.pres THEN NULL ELSE IF l.chg THEN slot ELSE card

\* detect_card_presence, after the driver has answered.
Kept(l) == IF l.chg \/ (l.kind = "flags" /\ ~l.pres) THEN NULL ELSE card

Running == up = "running"
Goto(p) == pc' = p

\* The locals of a handler when the loop reads its next message.
NoLocals == /\ cmd' = "none" /\ held' = NULL /\ ok' = TRUE /\ data' = NULL
            /\ seen' = Skipped /\ status' = "unlooked" /\ news' = FALSE

\* The process ends, with all it knew.
Ends(how) == /\ up' = how
             /\ card' = NULL /\ skipfirst' = 0 /\ Goto("idle") /\ NoLocals
             /\ ipc' = "first" /\ iseen' = Skipped /\ oldPresent' = FALSE /\ changed' = FALSE
             /\ owed' = {}
             /\ UNCHANGED <<slotVars, hostVars>>

\* The static card may be read again or kept in a register.
Reads == {held, card}

-----------------------------------------------------------------------------
\* The host sends a message; the bulk loop reads it.
Send(c) ==
  /\ Running /\ pc = "idle"
  /\ cmd' = c /\ Goto("parse")
  /\ UNCHANGED <<slotVars, cardVars, held, ok, data, seen, status, news, intrVars,
                 hostVars, up, owed>>

\* read or write on an endpoint fails: the loop ends and takes ep0 with it.
HostGone == Running /\ pc \in {"idle", "answer"} /\ Ends("ended")

\* The handler returns an error, the loop ends.
Refuse == Running /\ pc = "parse" /\ cmd = "short" /\ Ends("ended")

\* PC_to_RDR_IccPowerOn.
PowerOn ==
  /\ Running /\ pc = "parse" /\ cmd = "on"
  /\ held' = card
  /\ IF card # NULL THEN Goto("atr") ELSE Goto("connect")
  /\ UNCHANGED <<slotVars, cardVars, cmd, ok, data, seen, status, news, intrVars,
                 hostVars, up, owed>>

\* sc_connect_card sets card if it succeeds; the driver may refresh its view.
Connect ==
  /\ Running /\ pc = "connect"
  /\ \/ slot # NULL /\ card' = slot /\ ok' = TRUE
     \/ card' = card /\ ok' = FALSE
  /\ latch' \in {latch, FALSE}
  /\ Goto("mark")
  /\ UNCHANGED <<slot, inserted, faults, skipfirst, cmd, held, data, seen, status,
                 news, intrVars, hostVars, up, owed>>

\* card->caps |= ..., before the result is looked at.
Mark ==
  /\ Running /\ pc = "mark"
  /\ \/ card = NULL /\ Ends("killed")
     \/ /\ card # NULL /\ held' = card
        /\ IF ok THEN Goto("atr") ELSE Goto("look")
        /\ UNCHANGED <<slotVars, cardVars, cmd, ok, data, seen, status, news,
                       intrVars, hostVars, up, owed>>

\* Mutant: the ATR of the card now in the reader.
ReadAtrOfSlot ==
  /\ Running /\ pc = "atr"
  /\ data' = slot
  /\ Goto("look")
  /\ UNCHANGED <<slotVars, cardVars, cmd, held, ok, seen, status, news, intrVars,
                 hostVars, up, owed>>

\* card->atr for the answer.
ReadAtr ==
  /\ Running /\ pc = "atr"
  /\ \E c \in Reads :
       \/ c = NULL /\ Ends("killed")
       \/ /\ c # NULL /\ data' = c /\ Goto("look")
          /\ UNCHANGED <<slotVars, cardVars, cmd, held, ok, seen, status, news,
                         intrVars, hostVars, up, owed>>

\* A handler is done but for its answer, or goes on after it has read card.
Handled(r) == /\ ok' = r /\ Goto("look")
              /\ UNCHANGED <<slotVars, cardVars, cmd, held, data, seen, status, news, intrVars,
                             hostVars, up, owed>>
Proceeds(p) == /\ held' = card /\ Goto(p)
               /\ UNCHANGED <<slotVars, cardVars, cmd, ok, data, seen, status, news, intrVars,
                              hostVars, up, owed>>

\* PC_to_RDR_GetSlotStatus, and IccPowerOff, which powers nothing off.
GetSlotStatus == cmd = "slot" /\ Handled(TRUE)
IccPowerOff == cmd = "off" /\ Handled(TRUE)

\* GetParameters knows T=0 and T=1 only.
GetParameters == cmd = "params" /\ \E known \in BOOLEAN : Handled(known)

\* A message of another type is answered with an error.
Unknown == cmd = "unknown" /\ Handled(FALSE)

\* XfrBlock, unless the APDU is malformed.
XfrBlock == /\ cmd \in Boxed \cup {"xfr"}
            /\ Handled(FALSE) \/ Proceeds("rapdu")

\* Secure, unless it is refused.  PACE is given the handle as an argument;
\* capabilities look at card->ctx if there is a card.
Secure == \/ cmd \in {"pin", "pace", "caps"} /\ Handled(FALSE)
          \/ cmd = "pin" /\ Proceeds("prompt")
          \/ cmd = "pace" /\ Proceeds("pace")
          \/ cmd = "caps" /\ card = NULL /\ Handled(TRUE)
          \/ cmd = "caps" /\ card # NULL /\ Proceeds("deref")

\* ccid_parse_bulkout.
Parse == /\ Running /\ pc = "parse"
         /\ \/ GetSlotStatus \/ IccPowerOff \/ GetParameters \/ Unknown
            \/ XfrBlock \/ Secure

\* The user types the PIN, or the PIN block cannot be made.
Prompt ==
  /\ Running /\ pc = "prompt"
  /\ \/ Goto("rapdu") /\ UNCHANGED ok
     \/ Goto("look") /\ ok' = FALSE
  /\ UNCHANGED <<slotVars, cardVars, cmd, held, data, seen, status, news, intrVars,
                 hostVars, up, owed>>

\* get_rapdu checks card and goes on to use it.
GetRapdu ==
  /\ Running /\ pc = "rapdu"
  /\ held' = card
  /\ ok' = (card # NULL)
  /\ IF card = NULL THEN Goto("look")
     ELSE IF cmd \in Boxed THEN Goto("deref") ELSE Goto("send")
  /\ UNCHANGED <<slotVars, cardVars, cmd, data, seen, status, news, intrVars,
                 hostVars, up, owed>>

\* card->reader or card->ctx, then perform_pseudo_apdu.  VerifyPIN runs
\* perform_PC_to_RDR_Secure inside, which may refuse and makes an answer of its own.
Deref ==
  /\ Running /\ pc = "deref"
  /\ \E c \in Reads :
       \/ c = NULL /\ Ends("killed")
       \/ /\ c # NULL
          /\ \/ cmd \in Boxed /\ Goto("look")
                /\ ok' \in BOOLEAN /\ UNCHANGED <<cmd, held>>
             \/ cmd = "caps" /\ Goto("look") /\ UNCHANGED <<cmd, held, ok>>
             \/ cmd = "boxedpin" /\ cmd' = "innerpin" /\ UNCHANGED held
                /\ \/ Goto("prompt") /\ UNCHANGED ok
                   \/ Goto("look") /\ ok' = FALSE
             \/ cmd = "boxedpace" /\ held' = card /\ Goto("pace")
                /\ UNCHANGED <<cmd, ok>>
          /\ UNCHANGED <<slotVars, cardVars, data, seen, status, news, intrVars,
                         hostVars, up, owed>>

\* sc_transmit_apdu and perform_pace: the driver serves the handle of the
\* card that is in the reader, and may fail for reasons of its own.
Transmit ==
  /\ Running /\ pc \in {"send", "pace"}
  /\ \/ /\ slot # NULL
        /\ slot \in (IF pc = "send" THEN Reads ELSE {held})
        /\ data' = slot /\ ok' = TRUE
     \/ ok' = FALSE /\ UNCHANGED data
  /\ Goto("look")
  /\ UNCHANGED <<slotVars, cardVars, cmd, held, seen, status, news, intrVars,
                 hostVars, up, owed>>

-----------------------------------------------------------------------------
\* get_bStatus: the first answers are given without a look at the reader.
Skip ==
  /\ Running /\ pc = "look" /\ skipfirst <= SkipFirst
  /\ skipfirst' = skipfirst + 1
  /\ status' = "unlooked"
  /\ IF cmd = "innerpin" THEN cmd' = "boxed" /\ ok' = TRUE /\ Goto("look")
     ELSE Goto("answer") /\ UNCHANGED <<cmd, ok>>
  /\ UNCHANGED <<slotVars, card, held, data, seen, news, intrVars, hostVars, up, owed>>

Look ==
  /\ Running /\ pc = "look" /\ skipfirst > SkipFirst
  /\ \E l \in Looks : Detects("bulk", l) /\ seen' = l
  /\ Goto("settle")
  /\ UNCHANGED <<cardVars, cmd, held, ok, data, status, news, intrVars, hostVars, up>>

\* bmICCStatus: active, inactive or no ICC ("unlooked" is sent as no ICC too).
Status(l, c) == IF l.kind # "error" /\ ~l.pres THEN "noicc"
                ELSE IF l.kind # "error" /\ l.chg /\ c = NULL THEN "inactive"
                ELSE "active"

\* detect_card_presence clears card, then bStatus is computed from both.  The
\* answer made for a boxed PIN command becomes data of the outer one.
Settle ==
  /\ Running /\ pc = "settle"
  /\ card' = Kept(seen)
  /\ status' = Status(seen, card')
  /\ news' = (news \/ status' # "active")
  /\ seen' = Skipped /\ held' = NULL
  /\ IF cmd = "innerpin" THEN cmd' = "boxed" /\ ok' = TRUE /\ Goto("look")
     ELSE Goto("answer") /\ UNCHANGED <<cmd, ok>>
  /\ UNCHANGED <<slotVars, skipfirst, data, intrVars, hostVars, up, owed>>

\* Mutant: the loop does not come back to reading.
AnswerStuck ==
  /\ Running /\ pc = "answer"
  /\ Goto("written")
  /\ UNCHANGED <<slotVars, cardVars, cmd, held, ok, data, seen, status, news,
                 intrVars, hostVars, up, owed>>

\* The loop writes the answer.  GetParameters leaves its length unset: it may
\* be any number, and a negative one ends the loop.
Answer ==
  /\ Running /\ pc = "answer"
  /\ \/ /\ Goto("idle")
        /\ atr' = IF cmd = "on" /\ ok THEN data ELSE atr
        /\ gone' = (status \in {"noicc", "inactive"})
        /\ owed' = IF news THEN owed \ {"bulk"} ELSE owed
        /\ NoLocals
        /\ UNCHANGED <<slotVars, cardVars, intrVars, up>>
     \/ cmd = "params" /\ Ends("ended")

-----------------------------------------------------------------------------
\* get_RDR_to_PC_NotifySlotChange: two looks with ten seconds in between.
NotifyLook ==
  /\ Running /\ ipc \in {"first", "second"}
  /\ \E l \in Looks : Detects("intr", l) /\ iseen' = l
  /\ ipc' = IF ipc = "first" THEN "settle1" ELSE "settle2"
  /\ UNCHANGED <<cardVars, bulkVars, oldPresent, changed, hostVars, up>>

NotifyFirst ==
  /\ Running /\ ipc = "settle1"
  /\ card' = Kept(iseen)
  /\ oldPresent' = iseen.pres /\ changed' = iseen.chg
  /\ iseen' = Skipped
  /\ ipc' = "second"
  /\ UNCHANGED <<slotVars, skipfirst, bulkVars, hostVars, up, owed>>

\* Mutant: the second look decides alone.
NotifySecondOnly ==
  /\ Running /\ ipc = "settle2"
  /\ card' = Kept(iseen)
  /\ changed' = (oldPresent # iseen.pres)
  /\ ipc' = IF changed' \/ iseen.pres THEN "write" ELSE "first"
  /\ oldPresent' = FALSE /\ iseen' = Skipped
  /\ UNCHANGED <<slotVars, skipfirst, bulkVars, hostVars, up, owed>>

\* The host is written to if any bit is set.
NotifySecond ==
  /\ Running /\ ipc = "settle2"
  /\ card' = Kept(iseen)
  /\ changed' = (changed \/ iseen.chg \/ oldPresent # iseen.pres)
  /\ ipc' = IF changed' \/ iseen.pres THEN "write" ELSE "first"
  /\ oldPresent' = FALSE /\ iseen' = Skipped
  /\ UNCHANGED <<slotVars, skipfirst, bulkVars, hostVars, up, owed>>

NotifyWrite ==
  /\ Running /\ ipc = "write"
  /\ \/ /\ owed' = IF changed THEN owed \ {"intr"} ELSE owed
        /\ ipc' = "first" /\ changed' = FALSE
        /\ UNCHANGED <<slotVars, cardVars, bulkVars, iseen, oldPresent, hostVars, up>>
     \/ Ends("ended")

-----------------------------------------------------------------------------
Bulk == \/ Refuse \/ PowerOn \/ Connect \/ Mark \/ ReadAtr \/ Parse
        \/ Prompt \/ GetRapdu \/ Deref \/ Transmit \/ Skip \/ Look \/ Settle \/ Answer
Interrupt == NotifyLook \/ NotifyFirst \/ NotifySecond \/ NotifyWrite

Next == \/ Insert \/ Remove \/ HostGone
        \/ \E c \in Commands : Send(c)
        \/ Bulk \/ Interrupt

Spec == Init /\ [][Next]_vars

\* The threads run, and the user of the local reader answers the prompt.
FairSpec == Spec /\ WF_vars(Bulk) /\ WF_vars(Interrupt)

-----------------------------------------------------------------------------
BulkPoints == {"idle", "parse", "connect", "mark", "atr", "prompt", "rapdu", "deref",
               "send", "pace", "look", "settle", "answer"}

TypeOK ==
  /\ slot \in Insertions /\ inserted \in Insertions /\ slot <= inserted
  /\ latch \in BOOLEAN /\ faults \in 0 .. MaxFaults
  /\ card \in Insertions /\ held \in Insertions /\ data \in Insertions
  /\ skipfirst \in 0 .. SkipFirst + 1
  /\ pc \in BulkPoints
  /\ cmd \in Commands \cup {"none", "innerpin"}
  /\ ok \in BOOLEAN /\ news \in BOOLEAN
  /\ seen \in Looks /\ iseen \in Looks
  /\ status \in {"unlooked", "noicc", "inactive", "active"}
  /\ ipc \in {"first", "settle1", "second", "settle2", "write"}
  /\ oldPresent \in BOOLEAN /\ changed \in BOOLEAN
  /\ up \in {"running", "ended", "killed"}
  /\ atr \in Insertions /\ gone \in BOOLEAN
  /\ owed \subseteq {"bulk", "intr"}

\* Between commands the handle is that of the card whose ATR the host was given
\* last, or none: no thread replaces it behind the host's back (ccid.c:453-476).
HandleIsKnown == pc = "idle" /\ card # NULL => card = atr

\* Whatever cards come and go while a command runs, data and PACE results come
\* from the card whose ATR the host was given last (get_rapdu, ccid.c:225-262).
DataOfKnownCard ==
  pc = "answer" /\ ok /\ cmd \in {"xfr", "pin", "pace", "boxed", "boxedpace"} /\ data # NULL
     => data = atr

\* After an answer that said "no ICC" or "inactive", no command reaches a card
\* until the host powers it on again (get_bStatus, ccid.c:284-330).
GoneIsGone == pc = "idle" /\ gone => card = NULL

\* A card exchange the driver has reported, to whichever thread, is in the
\* message that thread is about to send: neither loop starts over with one
\* untold (ccid.c:284-330, 1513-1549).
ChangeIsTold == /\ "bulk" \in owed => pc # "idle"
                /\ "intr" \in owed => ipc # "first"

\* Every command is answered, or the program has ended.
Answered == pc # "idle" ~> pc = "idle" \/ ~Running

\* An insertion is reported by the driver and told to the host.
InsertionIsTold == latch ~> (~latch /\ owed = {}) \/ ~Running
=============================================================================
