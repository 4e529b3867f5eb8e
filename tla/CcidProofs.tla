----------------------------- MODULE CcidProofs -----------------------------
(***************************************************************************)
(* Proofs about Ccid for any number of cards, faults and skipped looks:    *)
(* the types, and by one inductive invariant that the handle and the data  *)
(* belong to the card the host knows, that a card reported gone stays out  *)
(* of reach, and that no thread drops a change it was told of.  Then,      *)
(* about CcidSecure, for any PINs and data of any length: what the PIN     *)
(* block holds, and that the data of PACE are taken apart as they were put *)
(* together.                                                               *)
(***************************************************************************)
EXTENDS MCCcid, SequenceTheorems, TLAPS

\* What keeps HandleIsKnown and DataOfKnownCard: only a power-on in progress may
\* hold a handle the host has no ATR of, and then its answer is going to give it.
HandleInv ==
  /\ pc \in {"connect", "mark", "atr"} => cmd = "on"
  /\ pc \in {"prompt", "rapdu", "deref", "send", "pace"} => cmd # "on"
  /\ pc \in {"idle", "parse", "atr"} => ok
  /\ card # NULL => card = atr \/ (cmd = "on" /\ pc \in {"mark", "atr", "look", "settle", "answer"})
  /\ pc = "connect" => card = NULL
  /\ pc = "mark" /\ ~ok => card = NULL
  /\ pc = "atr" /\ card # NULL => held = card
  /\ cmd = "on" /\ pc \in {"look", "settle", "answer"} /\ card # NULL => ok /\ data = card
DataInv ==
  /\ pc = "idle" => data = NULL
  /\ pc = "parse" => data = NULL
  /\ pc \in {"deref", "send", "pace"} /\ held # NULL => held = atr
  /\ cmd # "on" /\ data # NULL => data = atr

\* What keeps GoneIsGone.
GoneInv ==
  /\ pc = "settle" => seen.kind # "skipped"
  /\ pc = "answer" /\ status \in {"noicc", "inactive"} => card = NULL
  /\ gone /\ (pc \in {"idle", "parse"} \/ cmd # "on") => card = NULL

\* What keeps ChangeIsTold: the bits the two threads carry from a look to what
\* they send.
ToldInv ==
  /\ "bulk" \in owed => \/ pc = "settle" /\ seen.kind = "flags" /\ seen.chg
                        \/ pc \in {"look", "settle", "answer"} /\ news
  /\ "intr" \in owed => \/ ipc = "settle1" /\ iseen.chg
                        \/ ipc = "second" /\ changed
                        \/ ipc = "settle2" /\ (changed \/ iseen.chg)
                        \/ ipc = "write" /\ changed
IInv == HandleInv /\ DataInv /\ GoneInv /\ ToldInv

-----------------------------------------------------------------------------
\* After a look the handle is what it was, or thrown away.
LEMMA KeptOrDropped ==
  \A l \in Looks : /\ Kept(l) \in {NULL, card}
                   /\ l.kind # "skipped" /\ l.kind # "error" /\ ~l.pres => Kept(l) = NULL
                   /\ l.chg => Kept(l) = NULL
  BY DEF Kept, Looks

\* What the driver returns is a look that took place.
LEMMA LookTypes ==
  ASSUME TypeOK
  PROVE  /\ Flags \in Looks /\ Flags.kind = "flags"
         /\ Skipped \in Looks
  BY DEF TypeOK, Flags, Skipped, Looks

LEMMA InitTypes == Init => TypeOK
<1> SUFFICES ASSUME Init PROVE TypeOK
  OBVIOUS
<1>1. slot \in Insertions /\ inserted \in Insertions /\ slot <= inserted
  BY CcidAssumption DEF Init, Insertions, NULL
<1>2. latch \in BOOLEAN
  BY DEF Init
<1>3. /\ card \in Insertions /\ held \in Insertions /\ data \in Insertions
      /\ atr \in Insertions /\ skipfirst \in 0 .. SkipFirst + 1 /\ faults \in 0 .. MaxFaults
  BY CcidAssumption DEF Init, Insertions, NULL
<1>4. seen \in Looks /\ iseen \in Looks
  BY DEF Init, Looks, Skipped
<1> QED BY <1>1, <1>2, <1>3, <1>4 DEF Init, TypeOK, BulkPoints

\* The types after the steps of the reader and its user, of the bulk thread
\* and of the interrupt thread.
LEMMA DetectTypes ==
  ASSUME TypeOK, NEW t \in {"bulk", "intr"}, NEW l \in Looks, Detects(t, l)
  PROVE  /\ latch' \in BOOLEAN /\ faults' \in 0 .. MaxFaults
         /\ owed' \subseteq {"bulk", "intr"}
         /\ slot' = slot /\ inserted' = inserted
<1>1. latch' \in BOOLEAN
  BY DEF TypeOK, Detects
<1>2. faults' \in 0 .. MaxFaults /\ slot' = slot /\ inserted' = inserted
  BY CcidAssumption DEF TypeOK, Detects
<1>3. owed' \subseteq {"bulk", "intr"}
  BY DEF TypeOK, Detects
<1> QED BY <1>1, <1>2, <1>3

LEMMA EndTypes == ASSUME TypeOK, NEW how \in {"ended", "killed"}, Ends(how) PROVE TypeOK'
<1>1. /\ card' \in Insertions /\ held' \in Insertions /\ data' \in Insertions
      /\ skipfirst' \in 0 .. SkipFirst + 1
  BY CcidAssumption DEF Ends, NoLocals, Insertions, NULL
<1>2. seen' \in Looks /\ iseen' \in Looks
  BY DEF Ends, NoLocals, Looks, Skipped
<1> QED BY <1>1, <1>2 DEF TypeOK, Ends, NoLocals, Goto, BulkPoints, slotVars, hostVars

LEMMA StepTypes == TypeOK /\ [Next]_vars => TypeOK'
<1> SUFFICES ASSUME TypeOK, [Next]_vars PROVE TypeOK'
  OBVIOUS
<1> USE CcidAssumption
<1>1. CASE Insert
  BY <1>1 DEF Insert, TypeOK, cardVars, bulkVars, intrVars, hostVars, Insertions, NULL
<1>2. CASE Remove
  BY <1>2 DEF Remove, TypeOK, cardVars, bulkVars, intrVars, hostVars, Insertions, NULL
<1>3. CASE HostGone
  BY <1>3, EndTypes DEF HostGone
<1>4. CASE \E c \in Commands : Send(c)
  BY <1>4 DEF Send, TypeOK, Goto, BulkPoints, slotVars, cardVars, intrVars, hostVars
<1>5. CASE Refuse
  BY <1>5, EndTypes DEF Refuse
<1>6. CASE PowerOn
  BY <1>6 DEF PowerOn, TypeOK, Goto, BulkPoints, slotVars, cardVars, intrVars, hostVars
<1>7. CASE Connect
  <2>1. ok' \in BOOLEAN /\ latch' \in BOOLEAN
    BY <1>7 DEF Connect, TypeOK
  <2>2. pc' \in BulkPoints
    BY <1>7 DEF Connect, Goto, BulkPoints
  <2> QED BY <1>7, <2>1, <2>2 DEF Connect, TypeOK, intrVars, hostVars
<1>8. CASE Mark
  <2>1. CASE Ends("killed")
    BY <2>1, EndTypes
  <2>2. CASE ~Ends("killed")
    <3>1. pc' \in BulkPoints
      BY <1>8, <2>2 DEF Mark, Goto, BulkPoints
    <3>2. /\ held' = card
          /\ UNCHANGED <<slotVars, cardVars, cmd, ok, data, seen, status, news, intrVars, hostVars,
                         up, owed>>
      BY <1>8, <2>2 DEF Mark
    <3> QED BY <3>1, <3>2 DEF TypeOK, slotVars, cardVars, intrVars, hostVars
  <2> QED BY <2>1, <2>2
<1>9. CASE ReadAtr
  <2>1. CASE Ends("killed")
    BY <2>1, EndTypes
  <2>2. CASE ~Ends("killed")
    <3>1. pc' \in BulkPoints
      BY <1>9, <2>2 DEF ReadAtr, Goto, BulkPoints
    <3>2. data' \in Insertions
      BY <1>9, <2>2 DEF ReadAtr, Reads, TypeOK
    <3>3. UNCHANGED <<slotVars, cardVars, cmd, held, ok, seen, status, news, intrVars, hostVars,
                      up, owed>>
      BY <1>9, <2>2 DEF ReadAtr
    <3> QED BY <3>1, <3>2, <3>3 DEF TypeOK, slotVars, cardVars, intrVars, hostVars
  <2> QED BY <2>1, <2>2
<1>10. CASE Parse
  <2>1. CASE \E r \in BOOLEAN : Handled(r)
    BY <2>1 DEF Handled, Goto, BulkPoints, TypeOK, slotVars, cardVars, intrVars, hostVars
  <2>2. CASE \E p \in {"rapdu", "prompt", "pace", "deref"} : Proceeds(p)
    BY <2>2 DEF Proceeds, Goto, BulkPoints, TypeOK, slotVars, cardVars, intrVars, hostVars
  <2> QED BY <1>10, <2>1, <2>2 DEF Parse, GetSlotStatus, IccPowerOff, GetParameters, Unknown,
             XfrBlock, Secure
<1>12. CASE Prompt
  <2>1. ok' \in BOOLEAN
    BY <1>12 DEF Prompt, TypeOK
  <2>2. pc' \in BulkPoints
    BY <1>12 DEF Prompt, Goto, BulkPoints
  <2> QED BY <1>12, <2>1, <2>2 DEF Prompt, TypeOK, slotVars, cardVars, intrVars, hostVars
<1>13. CASE GetRapdu
  BY <1>13 DEF GetRapdu, TypeOK, Goto, BulkPoints, slotVars, cardVars, intrVars, hostVars
<1>14. CASE Deref
  <2>1. CASE Ends("killed")
    BY <2>1, EndTypes
  <2>2. CASE ~Ends("killed")
    <3>1. pc' \in BulkPoints
      BY <1>14, <2>2 DEF Deref, Goto, BulkPoints
    <3>2. ok' \in BOOLEAN
      BY <1>14, <2>2 DEF Deref, TypeOK
    <3>3. cmd' \in {cmd, "innerpin"} /\ held' \in {held, card}
      BY <1>14, <2>2 DEF Deref
    <3>4. UNCHANGED <<slotVars, cardVars, data, seen, status, news, intrVars, hostVars, up, owed>>
      BY <1>14, <2>2 DEF Deref
    <3> QED BY <3>1, <3>2, <3>3, <3>4 DEF TypeOK, slotVars, cardVars, intrVars, hostVars
  <2> QED BY <2>1, <2>2
<1>15. CASE Transmit
  <2>1. ok' \in BOOLEAN
    BY <1>15 DEF Transmit, TypeOK
  <2>2. pc' \in BulkPoints
    BY <1>15 DEF Transmit, Goto, BulkPoints
  <2> QED BY <1>15, <2>1, <2>2 DEF Transmit, TypeOK, slotVars, cardVars, intrVars, hostVars, Reads
<1>16. CASE Skip
  <2>1. ok' \in BOOLEAN
    BY <1>16 DEF Skip, TypeOK
  <2>2. pc' \in BulkPoints /\ cmd' \in Commands \cup {"none", "innerpin"}
    BY <1>16 DEF Skip, Goto, BulkPoints, TypeOK, Commands, Boxed
  <2>3. skipfirst' \in 0 .. SkipFirst + 1
    BY <1>16 DEF Skip, TypeOK
  <2> QED BY <1>16, <2>1, <2>2, <2>3 DEF Skip, TypeOK, slotVars, intrVars, hostVars
<1>17. CASE Look
  <2>1. PICK l \in Looks : Detects("bulk", l) /\ seen' = l
    BY <1>17 DEF Look
  <2>2. /\ latch' \in BOOLEAN /\ faults' \in 0 .. MaxFaults
        /\ owed' \subseteq {"bulk", "intr"} /\ slot' = slot /\ inserted' = inserted
    BY <2>1, DetectTypes
  <2> QED BY <1>17, <2>1, <2>2 DEF Look, TypeOK, Goto, BulkPoints, cardVars, intrVars, hostVars
<1>18. CASE Settle
  <2>1. card' \in Insertions
    BY <1>18, KeptOrDropped DEF Settle, TypeOK, Insertions, NULL
  <2>2. status' \in {"unlooked", "noicc", "inactive", "active"}
    BY <1>18 DEF Settle, Status, TypeOK
  <2>3. news' \in BOOLEAN
    BY <1>18 DEF Settle, TypeOK
  <2>4. ok' \in BOOLEAN
    BY <1>18 DEF Settle, TypeOK
  <2>5. held' \in Insertions /\ seen' \in Looks
    BY <1>18, LookTypes DEF Settle, Insertions, NULL
  <2>6. pc' \in BulkPoints /\ cmd' \in Commands \cup {"none", "innerpin"}
    BY <1>18 DEF Settle, Goto, BulkPoints, TypeOK, Commands, Boxed
  <2> QED BY <1>18, <2>1, <2>2, <2>3, <2>4, <2>5, <2>6
      DEF Settle, TypeOK, slotVars, intrVars, hostVars
<1>19. CASE Answer
  <2>1. CASE Ends("ended")
    BY <2>1, EndTypes
  <2>2. CASE ~Ends("ended")
    <3>1. held' \in Insertions /\ data' \in Insertions /\ atr' \in Insertions
      BY <1>19, <2>2 DEF Answer, NoLocals, TypeOK, Insertions, NULL
    <3>2. seen' \in Looks /\ owed' \subseteq {"bulk", "intr"}
      BY <1>19, <2>2, LookTypes DEF Answer, NoLocals, TypeOK
    <3>3. gone' \in BOOLEAN
      <4>1. gone' = (status \in {"noicc", "inactive"})
        BY <1>19, <2>2 DEF Answer
      <4> QED BY <4>1
    <3>4. pc' \in BulkPoints
      BY <1>19, <2>2 DEF Answer, Goto, BulkPoints
    <3> QED BY <1>19, <2>2, <3>1, <3>2, <3>3, <3>4 DEF Answer, NoLocals, TypeOK, slotVars,
               cardVars, intrVars
  <2> QED BY <2>1, <2>2
<1>20. CASE NotifyLook
  <2>1. PICK l \in Looks : Detects("intr", l) /\ iseen' = l
    BY <1>20 DEF NotifyLook
  <2>2. /\ latch' \in BOOLEAN /\ faults' \in 0 .. MaxFaults
        /\ owed' \subseteq {"bulk", "intr"} /\ slot' = slot /\ inserted' = inserted
    BY <2>1, DetectTypes
  <2> QED BY <1>20, <2>1, <2>2 DEF NotifyLook, TypeOK, cardVars, bulkVars, hostVars
<1>21. CASE NotifyFirst
  <2>1. card' \in Insertions
    BY <1>21, KeptOrDropped DEF NotifyFirst, TypeOK, Insertions, NULL
  <2>2. oldPresent' \in BOOLEAN /\ changed' \in BOOLEAN
    BY <1>21 DEF NotifyFirst, TypeOK, Looks
  <2> QED BY <1>21, <2>1, <2>2, LookTypes DEF NotifyFirst, TypeOK, slotVars, bulkVars, hostVars
<1>22. CASE NotifySecond
  <2>1. card' \in Insertions
    BY <1>22, KeptOrDropped DEF NotifySecond, TypeOK, Insertions, NULL
  <2>2. changed' \in BOOLEAN
    BY <1>22 DEF NotifySecond
  <2>3. ipc' \in {"first", "settle1", "second", "settle2", "write"}
    BY <1>22 DEF NotifySecond
  <2> QED BY <1>22, <2>1, <2>2, <2>3, LookTypes, ZenonT(60)
          DEF NotifySecond, TypeOK, slotVars, bulkVars, hostVars
<1>23. CASE NotifyWrite
  <2>1. CASE Ends("ended")
    BY <2>1, EndTypes
  <2>2. CASE ~Ends("ended")
    <3>1. owed' \subseteq {"bulk", "intr"}
      BY <1>23, <2>2 DEF NotifyWrite, TypeOK
    <3> QED BY <1>23, <2>2, <3>1 DEF NotifyWrite, TypeOK, slotVars, cardVars, bulkVars, hostVars
  <2> QED BY <2>1, <2>2
<1>24. CASE UNCHANGED vars
  BY <1>24 DEF TypeOK, vars, slotVars, cardVars, bulkVars, intrVars, hostVars
<1> QED
  BY <1>1, <1>2, <1>3, <1>4, <1>5, <1>6, <1>7, <1>8, <1>9, <1>10, <1>12, <1>13, <1>14,
     <1>15, <1>16, <1>17, <1>18, <1>19, <1>20, <1>21, <1>22, <1>23, <1>24
     DEF Next, Bulk, Interrupt

\* The variables keep their types, whatever the two threads do to the handle.
THEOREM TypesHold == Spec => []TypeOK
  BY InitTypes, StepTypes, PTL DEF Spec

-----------------------------------------------------------------------------
\* The loops that end leave nothing behind.
LEMMA EndInv == ASSUME NEW how, Ends(how) PROVE IInv'
  BY DEF Ends, NoLocals, Goto, IInv, HandleInv, DataInv, GoneInv, ToldInv

LEMMA StepHandle == TypeOK /\ TypeOK' /\ IInv /\ [Next]_vars => HandleInv'
<1> SUFFICES ASSUME TypeOK, IInv, [Next]_vars PROVE HandleInv'
  OBVIOUS
<1>1. CASE Insert
  BY <1>1 DEF Insert, IInv, HandleInv, Goto, cardVars, bulkVars, intrVars, hostVars, NULL
<1>2. CASE Remove
  BY <1>2 DEF Remove, IInv, HandleInv, Goto, cardVars, bulkVars, intrVars, hostVars, NULL
<1>3. CASE HostGone
  BY <1>3, EndInv DEF HostGone, IInv
<1>4. CASE \E c \in Commands : Send(c)
  BY <1>4 DEF Send, IInv, HandleInv, Goto, cardVars, bulkVars, intrVars, hostVars, NULL
<1>5. CASE Refuse
  BY <1>5, EndInv DEF Refuse, IInv
<1>6. CASE PowerOn
  BY <1>6 DEF PowerOn, IInv, HandleInv, Goto, cardVars, bulkVars, intrVars, hostVars, NULL
<1>7. CASE Connect
  BY <1>7 DEF Connect, IInv, HandleInv, Goto, cardVars, bulkVars, intrVars, hostVars, NULL
<1>8. CASE Mark
  <2>1. CASE Ends("killed")
    BY <2>1, EndInv DEF IInv
  <2>2. CASE ~Ends("killed")
    BY <1>8, <2>2 DEF Mark, IInv, HandleInv, Goto, cardVars, bulkVars, intrVars, hostVars, NULL
  <2> QED BY <2>1, <2>2
<1>9. CASE ReadAtr
  <2>1. CASE Ends("killed")
    BY <2>1, EndInv DEF IInv
  <2>2. CASE ~Ends("killed")
    <3>1. PICK c \in Reads : c # NULL /\ data' = c
      BY <1>9, <2>2 DEF ReadAtr
    <3>2. pc = "atr" /\ pc' = "look" /\ UNCHANGED <<card, cmd, held, ok, atr>>
      BY <1>9, <2>2 DEF ReadAtr, Goto, cardVars, hostVars
    <3> QED BY <3>1, <3>2 DEF Reads, IInv, HandleInv
  <2> QED BY <2>1, <2>2
<1>10. CASE Parse
  BY <1>10 DEF Parse, GetSlotStatus, IccPowerOff, GetParameters, Unknown, XfrBlock, Secure,
     Handled, Proceeds, IInv, HandleInv, Goto, cardVars, bulkVars, intrVars, hostVars, NULL, Boxed
<1>12. CASE Prompt
  BY <1>12 DEF Prompt, IInv, HandleInv, Goto, cardVars, bulkVars, intrVars, hostVars, NULL
<1>13. CASE GetRapdu
  BY <1>13 DEF GetRapdu, IInv, HandleInv, Goto, cardVars, bulkVars, intrVars, hostVars, NULL
<1>14. CASE Deref
  <2>1. CASE Ends("killed")
    BY <2>1, EndInv DEF IInv
  <2>2. CASE ~Ends("killed")
    BY <1>14, <2>2 DEF Deref, IInv, HandleInv, Goto, cardVars, bulkVars, intrVars, hostVars, NULL, Reads
  <2> QED BY <2>1, <2>2
<1>15. CASE Transmit
  BY <1>15 DEF Transmit, IInv, HandleInv, Goto, cardVars, bulkVars, intrVars, hostVars, NULL, Reads
<1>16. CASE Skip
  BY <1>16 DEF Skip, IInv, HandleInv, Goto, cardVars, bulkVars, intrVars, hostVars, NULL
<1>17. CASE Look
  BY <1>17 DEF Look, IInv, HandleInv, Goto, cardVars, bulkVars, intrVars, hostVars, NULL
<1>18. CASE Settle
  <2>1. seen \in Looks
    BY DEF TypeOK
  <2>2. card' \in {NULL, card}
    BY <1>18, <2>1, KeptOrDropped DEF Settle
  <2> QED BY <1>18, <2>2 DEF Settle, IInv, HandleInv, Goto, cardVars, bulkVars, intrVars, hostVars, NULL
<1>19. CASE Answer
  <2>1. CASE Ends("ended")
    BY <2>1, EndInv DEF IInv
  <2>2. CASE ~Ends("ended")
    BY <1>19, <2>2 DEF Answer, IInv, HandleInv, Goto, cardVars, bulkVars, intrVars, hostVars, NULL, NoLocals
  <2> QED BY <2>1, <2>2
<1>20. CASE NotifyLook
  BY <1>20 DEF NotifyLook, IInv, HandleInv, Goto, cardVars, bulkVars, intrVars, hostVars, NULL
<1>21. CASE NotifyFirst
  <2>1. iseen \in Looks
    BY DEF TypeOK
  <2>2. card' \in {NULL, card}
    BY <1>21, <2>1, KeptOrDropped DEF NotifyFirst
  <2> QED BY <1>21, <2>2 DEF NotifyFirst, IInv, HandleInv, Goto, cardVars, bulkVars, intrVars, hostVars, NULL
<1>22. CASE NotifySecond
  <2>1. iseen \in Looks
    BY DEF TypeOK
  <2>2. card' \in {NULL, card}
    BY <1>22, <2>1, KeptOrDropped DEF NotifySecond
  <2> QED BY <1>22, <2>2 DEF NotifySecond, IInv, HandleInv, Goto, cardVars, bulkVars, intrVars, hostVars, NULL
<1>23. CASE NotifyWrite
  <2>1. CASE Ends("ended")
    BY <2>1, EndInv DEF IInv
  <2>2. CASE ~Ends("ended")
    BY <1>23, <2>2 DEF NotifyWrite, IInv, HandleInv, Goto, cardVars, bulkVars, intrVars, hostVars, NULL
  <2> QED BY <2>1, <2>2
<1>24. CASE UNCHANGED vars
  BY <1>24 DEF vars, IInv, HandleInv, Goto, cardVars, bulkVars, intrVars, hostVars, NULL
<1> QED
  BY <1>1, <1>2, <1>3, <1>4, <1>5, <1>6, <1>7, <1>8, <1>9, <1>10, <1>12, <1>13, <1>14,
     <1>15, <1>16, <1>17, <1>18, <1>19, <1>20, <1>21, <1>22, <1>23, <1>24
     DEF Next, Bulk, Interrupt

LEMMA StepData == TypeOK /\ TypeOK' /\ IInv /\ [Next]_vars => DataInv'
<1> SUFFICES ASSUME TypeOK, IInv, [Next]_vars PROVE DataInv'
  OBVIOUS
<1>1. CASE Insert
  BY <1>1 DEF Insert, IInv, HandleInv, DataInv, Goto, cardVars, bulkVars, intrVars, hostVars, NULL
<1>2. CASE Remove
  BY <1>2 DEF Remove, IInv, HandleInv, DataInv, Goto, cardVars, bulkVars, intrVars, hostVars, NULL
<1>3. CASE HostGone
  BY <1>3, EndInv DEF HostGone, IInv
<1>4. CASE \E c \in Commands : Send(c)
  BY <1>4 DEF Send, IInv, HandleInv, DataInv, Goto, cardVars, bulkVars, intrVars, hostVars, NULL
<1>5. CASE Refuse
  BY <1>5, EndInv DEF Refuse, IInv
<1>6. CASE PowerOn
  BY <1>6 DEF PowerOn, IInv, HandleInv, DataInv, Goto, cardVars, bulkVars, intrVars, hostVars, NULL
<1>7. CASE Connect
  BY <1>7 DEF Connect, IInv, HandleInv, DataInv, Goto, cardVars, bulkVars, intrVars, hostVars, NULL
<1>8. CASE Mark
  <2>1. CASE Ends("killed")
    BY <2>1, EndInv DEF IInv
  <2>2. CASE ~Ends("killed")
    BY <1>8, <2>2 DEF Mark, IInv, HandleInv, DataInv, Goto, cardVars, bulkVars, intrVars, hostVars, NULL
  <2> QED BY <2>1, <2>2
<1>9. CASE ReadAtr
  <2>1. CASE Ends("killed")
    BY <2>1, EndInv DEF IInv
  <2>2. CASE ~Ends("killed")
    BY <1>9, <2>2 DEF ReadAtr, IInv, HandleInv, DataInv, Goto, cardVars, bulkVars, intrVars, hostVars, NULL, Reads
  <2> QED BY <2>1, <2>2
<1>10. CASE Parse
  BY <1>10 DEF Parse, GetSlotStatus, IccPowerOff, GetParameters, Unknown, XfrBlock, Secure,
     Handled, Proceeds, IInv, HandleInv, DataInv, Goto, cardVars, bulkVars, intrVars, hostVars, NULL, Boxed
<1>12. CASE Prompt
  BY <1>12 DEF Prompt, IInv, HandleInv, DataInv, Goto, cardVars, bulkVars, intrVars, hostVars, NULL
<1>13. CASE GetRapdu
  BY <1>13 DEF GetRapdu, IInv, HandleInv, DataInv, Goto, cardVars, bulkVars, intrVars, hostVars, NULL
<1>14. CASE Deref
  <2>1. CASE Ends("killed")
    BY <2>1, EndInv DEF IInv
  <2>2. CASE ~Ends("killed")
    BY <1>14, <2>2 DEF Deref, IInv, HandleInv, DataInv, Goto, cardVars, bulkVars, intrVars, hostVars, NULL, Reads
  <2> QED BY <2>1, <2>2
<1>15. CASE Transmit
  BY <1>15 DEF Transmit, IInv, HandleInv, DataInv, Goto, cardVars, bulkVars, intrVars, hostVars, NULL, Reads
<1>16. CASE Skip
  BY <1>16 DEF Skip, IInv, HandleInv, DataInv, Goto, cardVars, bulkVars, intrVars, hostVars, NULL
<1>17. CASE Look
  BY <1>17 DEF Look, IInv, HandleInv, DataInv, Goto, cardVars, bulkVars, intrVars, hostVars, NULL
<1>18. CASE Settle
  <2>1. seen \in Looks
    BY DEF TypeOK
  <2>2. card' \in {NULL, card}
    BY <1>18, <2>1, KeptOrDropped DEF Settle
  <2> QED BY <1>18, <2>2 DEF Settle, IInv, HandleInv, DataInv, Goto, cardVars, bulkVars, intrVars, hostVars, NULL
<1>19. CASE Answer
  <2>1. CASE Ends("ended")
    BY <2>1, EndInv DEF IInv
  <2>2. CASE ~Ends("ended")
    BY <1>19, <2>2 DEF Answer, IInv, HandleInv, DataInv, Goto, cardVars, bulkVars, intrVars, hostVars, NULL, NoLocals
  <2> QED BY <2>1, <2>2
<1>20. CASE NotifyLook
  BY <1>20 DEF NotifyLook, IInv, HandleInv, DataInv, Goto, cardVars, bulkVars, intrVars, hostVars, NULL
<1>21. CASE NotifyFirst
  <2>1. iseen \in Looks
    BY DEF TypeOK
  <2>2. card' \in {NULL, card}
    BY <1>21, <2>1, KeptOrDropped DEF NotifyFirst
  <2> QED BY <1>21, <2>2 DEF NotifyFirst, IInv, HandleInv, DataInv, Goto, cardVars, bulkVars, intrVars, hostVars, NULL
<1>22. CASE NotifySecond
  <2>1. iseen \in Looks
    BY DEF TypeOK
  <2>2. card' \in {NULL, card}
    BY <1>22, <2>1, KeptOrDropped DEF NotifySecond
  <2> QED BY <1>22, <2>2 DEF NotifySecond, IInv, HandleInv, DataInv, Goto, cardVars, bulkVars, intrVars, hostVars, NULL
<1>23. CASE NotifyWrite
  <2>1. CASE Ends("ended")
    BY <2>1, EndInv DEF IInv
  <2>2. CASE ~Ends("ended")
    BY <1>23, <2>2 DEF NotifyWrite, IInv, HandleInv, DataInv, Goto, cardVars, bulkVars, intrVars, hostVars, NULL
  <2> QED BY <2>1, <2>2
<1>24. CASE UNCHANGED vars
  BY <1>24 DEF vars, IInv, HandleInv, DataInv, Goto, cardVars, bulkVars, intrVars, hostVars, NULL
<1> QED
  BY <1>1, <1>2, <1>3, <1>4, <1>5, <1>6, <1>7, <1>8, <1>9, <1>10, <1>12, <1>13, <1>14,
     <1>15, <1>16, <1>17, <1>18, <1>19, <1>20, <1>21, <1>22, <1>23, <1>24
     DEF Next, Bulk, Interrupt

LEMMA StepGone == TypeOK /\ TypeOK' /\ IInv /\ [Next]_vars => GoneInv'
<1> SUFFICES ASSUME TypeOK, IInv, [Next]_vars PROVE GoneInv'
  OBVIOUS
<1>1. CASE Insert
  BY <1>1 DEF Insert, IInv, HandleInv, GoneInv, Goto, cardVars, bulkVars, intrVars, hostVars, NULL
<1>2. CASE Remove
  BY <1>2 DEF Remove, IInv, HandleInv, GoneInv, Goto, cardVars, bulkVars, intrVars, hostVars, NULL
<1>3. CASE HostGone
  BY <1>3, EndInv DEF HostGone, IInv
<1>4. CASE \E c \in Commands : Send(c)
  BY <1>4 DEF Send, IInv, HandleInv, GoneInv, Goto, cardVars, bulkVars, intrVars, hostVars, NULL
<1>5. CASE Refuse
  BY <1>5, EndInv DEF Refuse, IInv
<1>6. CASE PowerOn
  BY <1>6 DEF PowerOn, IInv, HandleInv, GoneInv, Goto, cardVars, bulkVars, intrVars, hostVars, NULL
<1>7. CASE Connect
  BY <1>7 DEF Connect, IInv, HandleInv, GoneInv, Goto, cardVars, bulkVars, intrVars, hostVars, NULL
<1>8. CASE Mark
  <2>1. CASE Ends("killed")
    BY <2>1, EndInv DEF IInv
  <2>2. CASE ~Ends("killed")
    BY <1>8, <2>2 DEF Mark, IInv, HandleInv, GoneInv, Goto, cardVars, bulkVars, intrVars, hostVars, NULL
  <2> QED BY <2>1, <2>2
<1>9. CASE ReadAtr
  <2>1. CASE Ends("killed")
    BY <2>1, EndInv DEF IInv
  <2>2. CASE ~Ends("killed")
    BY <1>9, <2>2 DEF ReadAtr, IInv, HandleInv, GoneInv, Goto, cardVars, bulkVars, intrVars, hostVars, NULL, Reads
  <2> QED BY <2>1, <2>2
<1>10. CASE Parse
  <2>1. pc = "parse"
    BY <1>10 DEF Parse
  <2>2. CASE \E r \in BOOLEAN : Handled(r)
    BY <2>1, <2>2 DEF Handled, Goto, IInv, GoneInv, cardVars, hostVars
  <2>3. CASE \E p \in {"rapdu", "prompt", "pace", "deref"} : Proceeds(p)
    BY <2>1, <2>3 DEF Proceeds, Goto, IInv, GoneInv, cardVars, hostVars
  <2> QED BY <1>10, <2>2, <2>3 DEF Parse, GetSlotStatus, IccPowerOff, GetParameters, Unknown,
             XfrBlock, Secure
<1>12. CASE Prompt
  BY <1>12 DEF Prompt, IInv, HandleInv, GoneInv, Goto, cardVars, bulkVars, intrVars, hostVars, NULL
<1>13. CASE GetRapdu
  BY <1>13 DEF GetRapdu, IInv, HandleInv, GoneInv, Goto, cardVars, bulkVars, intrVars, hostVars, NULL
<1>14. CASE Deref
  <2>1. CASE Ends("killed")
    BY <2>1, EndInv DEF IInv
  <2>2. CASE ~Ends("killed")
    BY <1>14, <2>2 DEF Deref, IInv, HandleInv, GoneInv, Goto, cardVars, bulkVars, intrVars, hostVars, NULL, Reads
  <2> QED BY <2>1, <2>2
<1>15. CASE Transmit
  BY <1>15 DEF Transmit, IInv, HandleInv, GoneInv, Goto, cardVars, bulkVars, intrVars, hostVars, NULL, Reads
<1>16. CASE Skip
  BY <1>16 DEF Skip, IInv, HandleInv, GoneInv, Goto, cardVars, bulkVars, intrVars, hostVars, NULL
<1>17. CASE Look
  <2>1. seen'.kind # "skipped"
    BY <1>17 DEF Look, Detects, Flags
  <2> QED BY <1>17, <2>1 DEF Look, IInv, GoneInv, Goto, cardVars, hostVars
<1>18. CASE Settle
  <2>1. seen \in Looks /\ seen.kind # "skipped"
    BY <1>18 DEF TypeOK, IInv, GoneInv, Settle
  <2>2. card' = Kept(seen) /\ status' = Status(seen, card') /\ card' \in {NULL, card}
    BY <1>18, <2>1, KeptOrDropped DEF Settle
  <2>3. status' \in {"noicc", "inactive"} => card' = NULL
    BY <2>1, <2>2, KeptOrDropped DEF Status
  <2>4. /\ pc' \in {"look", "answer"} /\ gone' = gone
        /\ cmd = "on" => cmd' = "on"
    BY <1>18 DEF Settle, Goto, hostVars
  <2> QED BY <2>2, <2>3, <2>4 DEF IInv, GoneInv, NULL
<1>19. CASE Answer
  <2>1. CASE Ends("ended")
    BY <2>1, EndInv DEF IInv
  <2>2. CASE ~Ends("ended")
    BY <1>19, <2>2 DEF Answer, IInv, HandleInv, GoneInv, Goto, cardVars, bulkVars, intrVars, hostVars, NULL, NoLocals
  <2> QED BY <2>1, <2>2
<1>20. CASE NotifyLook
  BY <1>20 DEF NotifyLook, IInv, HandleInv, GoneInv, Goto, cardVars, bulkVars, intrVars, hostVars, NULL
<1>21. CASE NotifyFirst
  <2>1. iseen \in Looks
    BY DEF TypeOK
  <2>2. card' \in {NULL, card}
    BY <1>21, <2>1, KeptOrDropped DEF NotifyFirst
  <2> QED BY <1>21, <2>2 DEF NotifyFirst, IInv, HandleInv, GoneInv, Goto, cardVars, bulkVars, intrVars, hostVars, NULL
<1>22. CASE NotifySecond
  <2>1. iseen \in Looks
    BY DEF TypeOK
  <2>2. card' \in {NULL, card}
    BY <1>22, <2>1, KeptOrDropped DEF NotifySecond
  <2> QED BY <1>22, <2>2 DEF NotifySecond, IInv, HandleInv, GoneInv, Goto, cardVars, bulkVars, intrVars, hostVars, NULL
<1>23. CASE NotifyWrite
  <2>1. CASE Ends("ended")
    BY <2>1, EndInv DEF IInv
  <2>2. CASE ~Ends("ended")
    BY <1>23, <2>2 DEF NotifyWrite, IInv, HandleInv, GoneInv, Goto, cardVars, bulkVars, intrVars, hostVars, NULL
  <2> QED BY <2>1, <2>2
<1>24. CASE UNCHANGED vars
  BY <1>24 DEF vars, IInv, HandleInv, GoneInv, Goto, cardVars, bulkVars, intrVars, hostVars, NULL
<1> QED
  BY <1>1, <1>2, <1>3, <1>4, <1>5, <1>6, <1>7, <1>8, <1>9, <1>10, <1>12, <1>13, <1>14,
     <1>15, <1>16, <1>17, <1>18, <1>19, <1>20, <1>21, <1>22, <1>23, <1>24
     DEF Next, Bulk, Interrupt

LEMMA StepTold == TypeOK /\ TypeOK' /\ IInv /\ [Next]_vars => ToldInv'
<1> SUFFICES ASSUME TypeOK, IInv, [Next]_vars PROVE ToldInv'
  OBVIOUS
<1>1. CASE Insert
  BY <1>1 DEF Insert, IInv, ToldInv, Goto, cardVars, bulkVars, intrVars, hostVars, NULL
<1>2. CASE Remove
  BY <1>2 DEF Remove, IInv, ToldInv, Goto, cardVars, bulkVars, intrVars, hostVars, NULL
<1>3. CASE HostGone
  BY <1>3, EndInv DEF HostGone, IInv
<1>4. CASE \E c \in Commands : Send(c)
  BY <1>4 DEF Send, IInv, ToldInv, Goto, cardVars, bulkVars, intrVars, hostVars, NULL
<1>5. CASE Refuse
  BY <1>5, EndInv DEF Refuse, IInv
<1>6. CASE PowerOn
  BY <1>6 DEF PowerOn, IInv, ToldInv, Goto, cardVars, bulkVars, intrVars, hostVars, NULL
<1>7. CASE Connect
  BY <1>7 DEF Connect, IInv, ToldInv, Goto, cardVars, bulkVars, intrVars, hostVars, NULL
<1>8. CASE Mark
  <2>1. CASE Ends("killed")
    BY <2>1, EndInv DEF IInv
  <2>2. CASE ~Ends("killed")
    BY <1>8, <2>2 DEF Mark, IInv, ToldInv, Goto, cardVars, bulkVars, intrVars, hostVars, NULL
  <2> QED BY <2>1, <2>2
<1>9. CASE ReadAtr
  <2>1. CASE Ends("killed")
    BY <2>1, EndInv DEF IInv
  <2>2. CASE ~Ends("killed")
    BY <1>9, <2>2 DEF ReadAtr, IInv, ToldInv, Goto, cardVars, bulkVars, intrVars, hostVars, NULL, Reads
  <2> QED BY <2>1, <2>2
<1>10. CASE Parse
  BY <1>10 DEF Parse, GetSlotStatus, IccPowerOff, GetParameters, Unknown, XfrBlock, Secure,
     Handled, Proceeds, IInv, ToldInv, Goto, cardVars, bulkVars, intrVars, hostVars, NULL, Boxed
<1>12. CASE Prompt
  BY <1>12 DEF Prompt, IInv, ToldInv, Goto, cardVars, bulkVars, intrVars, hostVars, NULL
<1>13. CASE GetRapdu
  BY <1>13 DEF GetRapdu, IInv, ToldInv, Goto, cardVars, bulkVars, intrVars, hostVars, NULL
<1>14. CASE Deref
  <2>1. CASE Ends("killed")
    BY <2>1, EndInv DEF IInv
  <2>2. CASE ~Ends("killed")
    BY <1>14, <2>2 DEF Deref, IInv, ToldInv, Goto, cardVars, bulkVars, intrVars, hostVars, NULL, Reads
  <2> QED BY <2>1, <2>2
<1>15. CASE Transmit
  BY <1>15 DEF Transmit, IInv, ToldInv, Goto, cardVars, bulkVars, intrVars, hostVars, NULL, Reads
<1>16. CASE Skip
  BY <1>16 DEF Skip, IInv, ToldInv, Goto, cardVars, bulkVars, intrVars, hostVars, NULL
<1>17. CASE Look
  <2>1. pc = "look" /\ pc' = "settle" /\ UNCHANGED <<news, ipc, iseen, changed>>
    BY <1>17 DEF Look, Goto, intrVars
  <2>2. \/ owed' = owed
        \/ seen' = Flags /\ seen'.chg /\ owed' = owed \cup {"bulk"}
    BY <1>17 DEF Look, Detects
  <2>3. Flags.kind = "flags"
    BY LookTypes
  <2> QED BY <2>1, <2>2, <2>3 DEF IInv, ToldInv
<1>18. CASE Settle
  <2>1. seen \in Looks /\ card' = Kept(seen)
    BY <1>18 DEF TypeOK, Settle
  <2>2. seen.kind = "flags" /\ seen.chg => status' # "active"
    BY <1>18, <2>1, KeptOrDropped DEF Settle, Status
  <2>3. pc = "settle" /\ pc' \in {"look", "answer"} /\ UNCHANGED <<owed, ipc, iseen, changed>>
    BY <1>18 DEF Settle, Goto, intrVars
  <2>4. news \/ status' # "active" => news'
    BY <1>18 DEF Settle
  <2> QED BY <2>2, <2>3, <2>4 DEF IInv, ToldInv
<1>19. CASE Answer
  <2>1. CASE Ends("ended")
    BY <2>1, EndInv DEF IInv
  <2>2. CASE ~Ends("ended")
    BY <1>19, <2>2 DEF Answer, IInv, ToldInv, Goto, cardVars, bulkVars, intrVars, hostVars, NULL, NoLocals
  <2> QED BY <2>1, <2>2
<1>20. CASE NotifyLook
  <2>1. /\ \/ ipc = "first" /\ ipc' = "settle1"
           \/ ipc = "second" /\ ipc' = "settle2"
        /\ UNCHANGED <<pc, seen, news, changed>>
    BY <1>20 DEF NotifyLook, bulkVars
  <2>2. \/ owed' = owed
        \/ iseen'.chg /\ owed' = owed \cup {"intr"}
    BY <1>20 DEF NotifyLook, Detects
  <2> QED BY <2>1, <2>2 DEF IInv, ToldInv
<1>21. CASE NotifyFirst
  <2>1. iseen \in Looks
    BY DEF TypeOK
  <2>2. card' \in {NULL, card}
    BY <1>21, <2>1, KeptOrDropped DEF NotifyFirst
  <2> QED BY <1>21, <2>2 DEF NotifyFirst, IInv, ToldInv, Goto, cardVars, bulkVars, intrVars, hostVars, NULL
<1>22. CASE NotifySecond
  <2>1. iseen \in Looks
    BY DEF TypeOK
  <2>2. card' \in {NULL, card}
    BY <1>22, <2>1, KeptOrDropped DEF NotifySecond
  <2> QED BY <1>22, <2>2 DEF NotifySecond, IInv, ToldInv, Goto, cardVars, bulkVars, intrVars, hostVars, NULL
<1>23. CASE NotifyWrite
  <2>1. CASE Ends("ended")
    BY <2>1, EndInv DEF IInv
  <2>2. CASE ~Ends("ended")
    BY <1>23, <2>2 DEF NotifyWrite, IInv, ToldInv, Goto, cardVars, bulkVars, intrVars, hostVars, NULL
  <2> QED BY <2>1, <2>2
<1>24. CASE UNCHANGED vars
  BY <1>24 DEF vars, IInv, ToldInv, Goto, cardVars, bulkVars, intrVars, hostVars, NULL
<1> QED
  BY <1>1, <1>2, <1>3, <1>4, <1>5, <1>6, <1>7, <1>8, <1>9, <1>10, <1>12, <1>13, <1>14,
     <1>15, <1>16, <1>17, <1>18, <1>19, <1>20, <1>21, <1>22, <1>23, <1>24
     DEF Next, Bulk, Interrupt

LEMMA InitInv == Init => IInv
  BY DEF Init, IInv, HandleInv, DataInv, GoneInv, ToldInv, NULL

THEOREM Invariance == Spec => [](TypeOK /\ IInv)
<1>1. TypeOK /\ IInv /\ [Next]_vars => TypeOK' /\ IInv'
  BY StepTypes, StepHandle, StepData, StepGone, StepTold DEF IInv
<1> QED BY InitTypes, InitInv, <1>1, PTL DEF Spec

\* Between commands the handle is that of the card the host knows
\* (ccid.c:453-476).
THEOREM HandleStaysKnown == Spec => []HandleIsKnown
<1>1. IInv => HandleIsKnown
  BY DEF IInv, HandleInv, HandleIsKnown
<1> QED BY Invariance, <1>1, PTL

\* Data comes from the card whose ATR the host was given last, whatever the
\* interrupt thread and the user of the reader do meanwhile (ccid.c:225-262).
THEOREM DataStaysOfKnownCard == Spec => []DataOfKnownCard
<1>1. IInv => DataOfKnownCard
  BY DEF IInv, DataInv, DataOfKnownCard
<1> QED BY Invariance, <1>1, PTL

\* A card reported gone is out of reach until it is powered on again
\* (ccid.c:284-330).
THEOREM GoneStaysGone == Spec => []GoneIsGone
<1>1. IInv => GoneIsGone
  BY DEF IInv, GoneInv, GoneIsGone
<1> QED BY Invariance, <1>1, PTL

\* Neither thread starts over with a change it was told of and has not passed
\* on (ccid.c:284-330, 1513-1549).
THEOREM NoChangeIsDropped == Spec => []ChangeIsTold
<1>1. IInv => ChangeIsTold
  BY DEF IInv, ToldInv, ChangeIsTold
<1> QED BY Invariance, <1>1, PTL

-----------------------------------------------------------------------------
(* The block with the PIN.                                                 *)

\* A PIN has as many digits as its length may have bytes.
PinsAreLong == \A l \in PinLimits : l[1] >= 2

From == {"host", "cur", "new", "length", "unset"}
Sources == [from : From, n : Nat]
IsBlock(b, n) == b \in [ok : BOOLEAN, block : Nat, data : [1 .. n -> Sources]]

LEMMA LengthsAre ==
  /\ PinLengths \subseteq Nat
  /\ PinsAreLong => \A len \in PinLengths : len >= 2
<1>1. \A l \in PinLimits : l[1] \in Nat /\ l[2] \in Nat
  BY SecureAssumption
<1>2. \A len \in PinLengths : \E l \in PinLimits : len \in IF l[1] > l[2] THEN {l[1]} ELSE l[1] .. l[2]
  BY DEF PinLengths
<1>3. \A len \in PinLengths : len \in Nat /\ \E l \in PinLimits : l[1] \in Nat /\ len >= l[1]
  BY <1>1, <1>2
<1>. QED
  BY <1>3 DEF PinsAreLong

LEMMA CommandIs ==
  ASSUME NEW c \in PinCommands
  PROVE  /\ c.op \in {"verify", "modify", "replace"} /\ c.host \in Nat /\ c.block \in Nat
         /\ c.bits \in {0, 4, 8, 12} /\ c.right \in BOOLEAN /\ c.ascii \in BOOLEAN /\ c.digits \in BOOLEAN
         /\ c.cur \in Nat /\ c.new \in Nat
         /\ PinsAreLong => c.cur >= 2 /\ c.new >= 2
<1>1. c.cur \in PinLengths /\ c.new \in PinLengths
  BY DEF PinCommands
<1>2. MaxData \in Nat
  BY SecureAssumption
<1>3. /\ c.op \in {"verify", "modify", "replace"} /\ c.host \in 0 .. MaxData /\ c.block \in 0 .. MaxData
      /\ c.bits \in {0, 4, 8, 12} /\ c.right \in BOOLEAN /\ c.ascii \in BOOLEAN /\ c.digits \in BOOLEAN
  BY DEF PinCommands
<1>4. c.host \in Nat /\ c.block \in Nat
  BY <1>2, <1>3
<1>. QED
  BY <1>1, <1>3, <1>4, LengthsAre

\* A PIN of two digits or more needs no more bytes than it has digits.
LEMMA SizeIs ==
  ASSUME NEW len \in Nat, NEW bits \in {0, 4, 8, 12}
  PROVE  DataSize(len, bits) \in Nat /\ DataSize(len, bits) >= len /\ (len >= 2 => DataSize(len, bits) = len)
<1>1. (0 + 7) \div 8 = 0 /\ (4 + 7) \div 8 = 1 /\ (8 + 7) \div 8 = 1 /\ (12 + 7) \div 8 = 2
  OBVIOUS
<1>2. (bits + 7) \div 8 \in 0 .. 2
  BY <1>1
<1>. QED
  BY <1>2 DEF DataSize, Larger

\* The data before a PIN is written to them.
LEMMA ProvidedIs ==
  ASSUME NEW c \in PinCommands
  PROVE  \E n \in Nat :
           /\ IsBlock(Provided(c), n)
           /\ c.host > 0 => /\ n = c.host /\ Provided(c).ok /\ Provided(c).block = c.block
                            /\ \A i \in 1 .. n : Provided(c).data[i] = Source("host", i)
           /\ c.host = 0 =>
                /\ Provided(c).block <= n
                /\ PinsAreLong => Provided(c).block = IF c.op = "verify" THEN c.cur ELSE c.new
                /\ PinsAreLong => n = IF c.op = "replace" THEN Larger(c.new, c.cur) ELSE Provided(c).block
<1>1. PICK own : own = DataSize(IF c.op = "verify" THEN c.cur ELSE c.new, c.bits)
  OBVIOUS
<1>2. PICK lc : lc = IF c.op = "replace" THEN Larger(own, DataSize(c.cur, c.bits)) ELSE own
  OBVIOUS
<1>3. own \in Nat /\ (PinsAreLong => own = IF c.op = "verify" THEN c.cur ELSE c.new)
  BY <1>1, CommandIs, SizeIs
<1>4. DataSize(c.cur, c.bits) \in Nat /\ (PinsAreLong => DataSize(c.cur, c.bits) = c.cur)
  BY CommandIs, SizeIs
<1>5. lc \in Nat /\ lc >= own
      /\ (PinsAreLong => lc = IF c.op = "replace" THEN Larger(c.new, c.cur) ELSE own)
  BY <1>2, <1>3, <1>4 DEF Larger
<1>6. Provided(c) = IF c.host > 0
        THEN [ok |-> TRUE, block |-> c.block, data |-> [i \in 1 .. c.host |-> Source("host", i)]]
        ELSE [ok |-> lc <= MaxData, block |-> own, data |-> [i \in 1 .. lc |-> Source("unset", i)]]
  BY <1>1, <1>2 DEF Provided
<1>7. CASE c.host > 0
  <2>1. [i \in 1 .. c.host |-> Source("host", i)] \in [1 .. c.host -> Sources]
    BY DEF Source, Sources, From
  <2>2. IsBlock(Provided(c), c.host)
    BY <1>6, <1>7, <2>1, CommandIs DEF IsBlock
  <2>3. /\ Provided(c).ok /\ Provided(c).block = c.block
        /\ \A i \in 1 .. c.host : Provided(c).data[i] = Source("host", i)
    BY <1>6, <1>7
  <2>4. c.host \in Nat /\ c.host # 0
    BY <1>7, CommandIs
  <2>. QED
    BY <2>2, <2>3, <2>4
<1>8. CASE c.host = 0
  <2>1. [i \in 1 .. lc |-> Source("unset", i)] \in [1 .. lc -> Sources]
    BY DEF Source, Sources, From
  <2>2. Provided(c) = [ok |-> lc <= MaxData, block |-> own, data |-> [i \in 1 .. lc |-> Source("unset", i)]]
    BY <1>6, <1>8
  <2>3. (lc <= MaxData) \in BOOLEAN
    OBVIOUS
  <2>4. IsBlock(Provided(c), lc)
    BY <1>3, <2>1, <2>2, <2>3 DEF IsBlock
  <2>5. Provided(c).block = own
    BY <2>2
  <2>6. c.op = "verify" => c.op # "replace"
    OBVIOUS
  <2>. QED
    BY <1>3, <1>5, <1>8, <2>4, <2>5
<1>. QED
  BY <1>7, <1>8, CommandIs

\* What is written where, if it fits.
LEMMA WriteIs ==
  ASSUME NEW c \in PinCommands, NEW n \in Nat, NEW b, IsBlock(b, n), b.ok, NEW pin \in {"cur", "new"}, NEW len \in Nat,
         NEW at \in Nat, at = IF c.right THEN b.block - len ELSE 0,
         NEW w, w = WritePin(b, pin, len, c)
  PROVE  /\ IsBlock(w, n) /\ w.block = b.block
         /\ w.ok => at + len <= b.block
         /\ at + len <= b.block /\ c.digits => w.ok
         /\ \A i \in 1 .. n : w.data[i] = IF w.ok /\ i \in at + 1 .. at + len THEN Source(pin, i - at) ELSE b.data[i]
<1>1. b.ok \in BOOLEAN /\ b.block \in Nat /\ b.data \in [1 .. n -> Sources] /\ DOMAIN b.data = 1 .. n
  BY DEF IsBlock
<1>2. w = EncodePin(b, pin, at, len, c)
  BY DEF WritePin
<1>3. PICK filled : filled = [i \in 1 .. n |-> IF i \in at + 1 .. at + len THEN Source(pin, i - at) ELSE b.data[i]]
  OBVIOUS
<1>4. filled \in [1 .. n -> Sources]
  <2>1. ASSUME NEW i \in 1 .. n, i \in at + 1 .. at + len PROVE Source(pin, i - at) \in Sources
    BY <2>1 DEF Source, Sources, From
  <2>. QED
    BY <1>1, <1>3, <2>1
<1>5. CASE len > b.block - at \/ (~c.ascii /\ ~c.digits)
  <2>1. w = [b EXCEPT !.ok = FALSE]
    BY <1>2, <1>5 DEF EncodePin, Failed
  <2>2. IsBlock(w, n) /\ w.block = b.block /\ ~w.ok /\ w.data = b.data
    BY <2>1 DEF IsBlock
  <2>3. ~c.digits \/ ~(at + len <= b.block)
    BY <1>1, <1>5
  <2>. QED
    BY <2>2, <2>3
<1>6. CASE ~(len > b.block - at \/ (~c.ascii /\ ~c.digits))
  <2>1. w = [b EXCEPT !.data = filled]
    BY <1>1, <1>2, <1>3, <1>6 DEF EncodePin
  <2>2. IsBlock(w, n) /\ w.block = b.block /\ w.ok = b.ok /\ w.data = filled
    BY <1>4, <2>1 DEF IsBlock
  <2>3. at + len <= b.block
    BY <1>1, <1>6
  <2>4. \A i \in 1 .. n : w.data[i] = IF i \in at + 1 .. at + len THEN Source(pin, i - at) ELSE b.data[i]
    BY <1>3, <2>2
  <2>. QED
    BY <2>2, <2>3, <2>4
<1>. QED
  BY <1>5, <1>6

\* Where the length of a PIN is written.
HasLength(w, b, n, len, bits) ==
  /\ IsBlock(w, n) /\ w.block = b.block
  /\ w.ok <=> bits \in {0, 8}
  /\ \A i \in 1 .. n : w.data[i] = IF bits = 8 /\ i = 1 THEN Source("length", len) ELSE b.data[i]

LEMMA LengthIs ==
  ASSUME NEW n \in Nat, NEW b, IsBlock(b, n), b.ok, NEW len \in Nat, NEW bits \in {0, 4, 8, 12},
         NEW w, w = WritePinLength(b, len, bits)
  PROVE  HasLength(w, b, n, len, bits)
<1> USE DEF HasLength
<1>1. b.ok \in BOOLEAN /\ b.block \in Nat /\ b.data \in [1 .. n -> Sources] /\ DOMAIN b.data = 1 .. n
  BY DEF IsBlock
<1>2. CASE bits \notin {0, 8}
  <2>1. w = [b EXCEPT !.ok = FALSE]
    BY <1>2 DEF WritePinLength, Failed
  <2>. QED
    BY <1>2, <2>1 DEF IsBlock
<1>3. CASE bits = 8
  <2>1. PICK s : s = Source("length", len)
    OBVIOUS
  <2>2. s \in Sources
    BY <2>1 DEF Source, Sources, From
  <2>3. PICK filled : filled = [b.data EXCEPT ![1] = s]
    OBVIOUS
  <2>4. filled \in [1 .. n -> Sources]
    BY <1>1, <2>2, <2>3
  <2>5. \A i \in 1 .. n : filled[i] = IF i = 1 THEN s ELSE b.data[i]
    BY <1>1, <2>3
  <2>6. w = [b EXCEPT !.data = filled]
    BY <1>3, <2>1, <2>3 DEF WritePinLength
  <2>7. IsBlock(w, n) /\ w.block = b.block /\ w.ok /\ w.data = filled
    BY <2>4, <2>6 DEF IsBlock
  <2>. QED
    BY <1>3, <2>1, <2>5, <2>7
<1>4. CASE bits = 0
  <2>1. w = b
    BY <1>4 DEF WritePinLength
  <2>. QED
    BY <1>4, <2>1
<1>. QED
  BY <1>2, <1>3, <1>4

\* The command with its steps, of which each is taken if the last succeeded.
Steps(c, b0, b1, b2, b3, b4) ==
  /\ b0 = Provided(c)
  /\ b1 = IF b0.ok THEN WritePin(b0, "cur", c.cur, c) ELSE b0
  /\ b2 = IF b1.ok THEN WritePinLength(b1, c.cur, c.bits) ELSE b1
  /\ b3 = IF c.op = "replace" /\ c.old # EffectiveOffset(c) THEN Failed(b2) ELSE b2
  /\ b4 = IF b3.ok THEN WritePin(b3, "new", c.new, c) ELSE b3

LEMMA StepsAre ==
  ASSUME NEW c \in PinCommands, NEW b0, NEW b1, NEW b2, NEW b3, NEW b4, Steps(c, b0, b1, b2, b3, b4)
  PROVE  /\ c.op = "verify" => PinBlock(c) = b2
         /\ c.op = "replace" => PinBlock(c) = b4
         /\ c.op = "modify" => PinBlock(c) = IF b0.ok THEN WritePin(b0, "new", c.new, c) ELSE b0
<1>1. CASE c.op = "verify"
  BY <1>1 DEF Steps, PinBlock
<1>2. CASE c.op = "replace"
  BY <1>2 DEF Steps, PinBlock
<1>3. CASE c.op = "modify"
  BY <1>3 DEF Steps, PinBlock
<1>. QED
  BY <1>1, <1>2, <1>3, CommandIs

\* What BlocksAreRight says of a command and its block.
Delivered(c, b, pin, len, at) ==
  /\ \A i \in 1 .. len : b.data[at + i] = Source(pin, i) \/ (at + i = 1 /\ b.data[1] = Source("length", c.cur))
  /\ \A i \in DOMAIN b.data :
       /\ b.data[i].from # "unset"
       /\ c.host > 0 /\ i > b.block => b.data[i] = Source("host", i) \/ b.data[i].from = "length"
Accepted(c) ==
  /\ c.host > 0 /\ c.digits /\ c.bits \in {0, 8}
  /\ Larger(c.cur, c.new) <= c.block
  /\ c.op = "replace" => c.old = EffectiveOffset(c)

\* What a truthful host makes of the data, before a PIN is written to them.
Ready(c, b, n) ==
  /\ IsBlock(b, n) /\ b.block <= n
  /\ c.right => c.cur <= b.block /\ c.new <= b.block
  /\ c.host > 0 => b.ok /\ b.block = c.block /\ \A i \in 1 .. n : b.data[i] = Source("host", i)
  /\ c.host = 0 => /\ b.block = IF c.op = "verify" THEN c.cur ELSE c.new
                   /\ n = IF c.op = "replace" THEN Larger(c.new, c.cur) ELSE b.block

LEMMA TruthIsReady ==
  ASSUME NEW c \in PinCommands, Truthful(c), PinsAreLong
  PROVE  \E n \in Nat : Ready(c, Provided(c), n)
<1>1. PICK n \in Nat :
        /\ IsBlock(Provided(c), n)
        /\ c.host > 0 => /\ n = c.host /\ Provided(c).ok /\ Provided(c).block = c.block
                         /\ \A i \in 1 .. n : Provided(c).data[i] = Source("host", i)
        /\ c.host = 0 =>
             /\ Provided(c).block <= n
             /\ Provided(c).block = IF c.op = "verify" THEN c.cur ELSE c.new
             /\ n = IF c.op = "replace" THEN Larger(c.new, c.cur) ELSE Provided(c).block
  BY ProvidedIs
<1>2. c.host \in Nat /\ c.cur \in Nat /\ c.new \in Nat
  BY CommandIs
<1>3. Provided(c).block \in Nat
  BY <1>1 DEF IsBlock
<1>4. Provided(c).block <= n
  BY <1>1, <1>2 DEF Truthful
<1>5. c.right => c.cur <= Provided(c).block /\ c.new <= Provided(c).block
  BY <1>2, <1>3 DEF Truthful, Larger
<1>. QED
  BY <1>1, <1>4, <1>5 DEF Ready

LEMMA VerifyIsRight ==
  ASSUME NEW c \in PinCommands, Truthful(c), PinsAreLong, c.op = "verify",
         NEW b, b = PinBlock(c), NEW at, at = IF c.right THEN b.block - c.cur ELSE 0
  PROVE  /\ b.ok => Delivered(c, b, "cur", c.cur, at)
         /\ Accepted(c) => b.ok
<1>1. PICK b0 : b0 = Provided(c)
  OBVIOUS
<1>2. PICK n \in Nat : Ready(c, b0, n)
  BY <1>1, TruthIsReady
<1>3. PICK at0 : at0 = IF c.right THEN b0.block - c.cur ELSE 0
  OBVIOUS
<1>4. c.cur \in Nat /\ c.new \in Nat /\ c.host \in Nat /\ c.block \in Nat /\ c.bits \in {0, 4, 8, 12}
      /\ c.right \in BOOLEAN
  BY CommandIs
<1>5. b0.block \in Nat /\ at0 \in Nat /\ IsBlock(b0, n)
  BY <1>2, <1>3, <1>4 DEF Ready, IsBlock
<1>6. PICK b1 : b1 = WritePin(b0, "cur", c.cur, c)
  OBVIOUS
<1>7. PICK b2 : b2 = WritePinLength(b1, c.cur, c.bits)
  OBVIOUS
<1>8. b = IF b0.ok THEN IF b1.ok THEN b2 ELSE b1 ELSE b0
  <2>1. b = IF (IF b0.ok THEN b1 ELSE b0).ok THEN WritePinLength(IF b0.ok THEN b1 ELSE b0, c.cur, c.bits)
            ELSE IF b0.ok THEN b1 ELSE b0
    BY <1>1, <1>6, StepsAre DEF Steps
  <2>. QED
    BY <1>7, <2>1
<1>9. ASSUME b0.ok
      PROVE  /\ IsBlock(b1, n) /\ b1.block = b0.block
             /\ b1.ok => at0 + c.cur <= b0.block
             /\ at0 + c.cur <= b0.block /\ c.digits => b1.ok
             /\ \A i \in 1 .. n : b1.data[i] = IF b1.ok /\ i \in at0 + 1 .. at0 + c.cur
                                               THEN Source("cur", i - at0) ELSE b0.data[i]
  BY <1>3, <1>4, <1>5, <1>6, <1>9, WriteIs
<1>10. ASSUME b0.ok, b1.ok
       PROVE  /\ IsBlock(b2, n) /\ b2.block = b0.block
              /\ b2.ok <=> c.bits \in {0, 8}
              /\ \A i \in 1 .. n : b2.data[i] = IF c.bits = 8 /\ i = 1 THEN Source("length", c.cur) ELSE b1.data[i]
  <2>1. IsBlock(b1, n) /\ b1.ok /\ b1.block = b0.block
    BY <1>9, <1>10
  <2>2. b2 = WritePinLength(b1, c.cur, c.bits) /\ c.cur \in Nat /\ c.bits \in {0, 4, 8, 12}
    BY <1>4, <1>7
  <2>3. HasLength(b2, b1, n, c.cur, c.bits)
    BY <2>1, <2>2, LengthIs, Zenon
  <2>. QED
    BY <2>1, <2>3 DEF HasLength
<1>11. ASSUME b.ok PROVE Delivered(c, b, "cur", c.cur, at)
  <2>1. b0.ok /\ b1.ok /\ b = b2
    BY <1>8, <1>11
  <2>2. at = at0 /\ at0 + c.cur <= b0.block /\ b0.block <= n /\ b.block = b0.block
    BY <1>2, <1>3, <1>9, <1>10, <2>1 DEF Ready
  <2>3. DOMAIN b.data = 1 .. n
    BY <1>10, <2>1 DEF IsBlock
  <2>4. \A i \in 1 .. n : b.data[i] = IF c.bits = 8 /\ i = 1 THEN Source("length", c.cur)
                                      ELSE IF i \in at + 1 .. at + c.cur THEN Source("cur", i - at) ELSE b0.data[i]
    BY <1>9, <1>10, <2>1, <2>2
  <2>5. ASSUME NEW i \in 1 .. c.cur
        PROVE  b.data[at + i] = Source("cur", i) \/ (at + i = 1 /\ b.data[1] = Source("length", c.cur))
    <3>1. at + i \in 1 .. n /\ at + i \in at + 1 .. at + c.cur /\ (at + i) - at = i
      <4>1. at \in Nat /\ at + c.cur <= n
        BY <1>4, <1>5, <2>2
      <4>. QED
        BY <1>4, <4>1
    <3>. QED
      BY <2>4, <3>1
  <2>6. ASSUME NEW i \in 1 .. n
        PROVE  /\ b.data[i].from # "unset"
               /\ c.host > 0 /\ i > b.block => b.data[i] = Source("host", i) \/ b.data[i].from = "length"
    <3>1. \A m : Source("length", m).from = "length" /\ Source("cur", m).from = "cur" /\ Source("host", m).from = "host"
      BY DEF Source
    <3>2. CASE (c.bits = 8 /\ i = 1) \/ (i \in at + 1 .. at + c.cur)
      <4>1. i > b.block => i \notin at + 1 .. at + c.cur
        BY <1>4, <1>5, <2>2
      <4>. QED
        BY <2>4, <3>1, <3>2, <4>1
    <3>3. CASE ~(c.bits = 8 /\ i = 1) /\ i \notin at + 1 .. at + c.cur
      <4>1. b.data[i] = b0.data[i]
        BY <2>4, <3>3
      <4>2. CASE c.host > 0
        BY <1>2, <3>1, <4>1, <4>2 DEF Ready
      <4>3. CASE c.host = 0
        <5>1. n = c.cur /\ b0.block = c.cur
          BY <1>2, <4>3 DEF Ready
        <5>2. at = 0
          BY <1>3, <1>4, <1>5, <2>2, <5>1
        <5>. QED
          BY <1>4, <3>3, <5>1, <5>2
      <4>. QED
        BY <1>4, <4>2, <4>3
    <3>. QED
      BY <3>2, <3>3
  <2>. QED
    BY <2>3, <2>5, <2>6 DEF Delivered
<1>12. ASSUME Accepted(c) PROVE b.ok
  <2>1. b0.ok /\ b0.block = c.block /\ c.digits /\ c.bits \in {0, 8} /\ c.cur <= c.block
    BY <1>2, <1>4, <1>12 DEF Accepted, Ready, Larger
  <2>2. at0 + c.cur <= b0.block
    BY <1>3, <1>4, <1>5, <2>1
  <2>. QED
    BY <1>8, <1>9, <1>10, <2>1, <2>2
<1>. QED
  BY <1>11, <1>12

LEMMA ModifyIsRight ==
  ASSUME NEW c \in PinCommands, Truthful(c), PinsAreLong, c.op = "modify",
         NEW b, b = PinBlock(c), NEW at, at = IF c.right THEN b.block - c.new ELSE 0
  PROVE  /\ b.ok => Delivered(c, b, "new", c.new, at)
         /\ Accepted(c) => b.ok
<1>1. PICK b0 : b0 = Provided(c)
  OBVIOUS
<1>2. PICK n \in Nat : Ready(c, b0, n)
  BY <1>1, TruthIsReady
<1>3. PICK at0 : at0 = IF c.right THEN b0.block - c.new ELSE 0
  OBVIOUS
<1>4. c.cur \in Nat /\ c.new \in Nat /\ c.host \in Nat /\ c.block \in Nat /\ c.right \in BOOLEAN
  BY CommandIs
<1>5. b0.block \in Nat /\ at0 \in Nat /\ IsBlock(b0, n)
  BY <1>2, <1>3, <1>4 DEF Ready, IsBlock
<1>6. PICK b1 : b1 = WritePin(b0, "new", c.new, c)
  OBVIOUS
<1>7. b = IF b0.ok THEN b1 ELSE b0
  BY <1>1, <1>6, StepsAre DEF Steps
<1>8. ASSUME b0.ok
      PROVE  /\ IsBlock(b1, n) /\ b1.block = b0.block
             /\ b1.ok => at0 + c.new <= b0.block
             /\ at0 + c.new <= b0.block /\ c.digits => b1.ok
             /\ \A i \in 1 .. n : b1.data[i] = IF b1.ok /\ i \in at0 + 1 .. at0 + c.new
                                               THEN Source("new", i - at0) ELSE b0.data[i]
  BY <1>3, <1>4, <1>5, <1>6, <1>8, WriteIs
<1>9. ASSUME b.ok PROVE Delivered(c, b, "new", c.new, at)
  <2>1. b0.ok /\ b1.ok /\ b = b1
    BY <1>7, <1>9
  <2>2. at = at0 /\ at0 + c.new <= b0.block /\ b0.block <= n /\ b.block = b0.block
    BY <1>2, <1>3, <1>8, <2>1 DEF Ready
  <2>3. DOMAIN b.data = 1 .. n
    BY <1>8, <2>1 DEF IsBlock
  <2>4. \A i \in 1 .. n : b.data[i] = IF i \in at + 1 .. at + c.new THEN Source("new", i - at) ELSE b0.data[i]
    BY <1>8, <2>1, <2>2
  <2>5. ASSUME NEW i \in 1 .. c.new PROVE b.data[at + i] = Source("new", i)
    <3>1. at + i \in 1 .. n /\ at + i \in at + 1 .. at + c.new /\ (at + i) - at = i
      <4>1. at \in Nat /\ at + c.new <= n
        BY <1>4, <1>5, <2>2
      <4>. QED
        BY <1>4, <4>1
    <3>. QED
      BY <2>4, <3>1
  <2>6. ASSUME NEW i \in 1 .. n
        PROVE  /\ b.data[i].from # "unset"
               /\ c.host > 0 /\ i > b.block => b.data[i] = Source("host", i) \/ b.data[i].from = "length"
    <3>1. \A m : Source("new", m).from = "new" /\ Source("host", m).from = "host"
      BY DEF Source
    <3>2. CASE i \in at + 1 .. at + c.new
      <4>1. ~(i > b.block)
        BY <1>4, <1>5, <2>2, <3>2
      <4>. QED
        BY <2>4, <3>1, <3>2, <4>1
    <3>3. CASE i \notin at + 1 .. at + c.new
      <4>1. b.data[i] = b0.data[i]
        BY <2>4, <3>3
      <4>2. CASE c.host > 0
        BY <1>2, <3>1, <4>1, <4>2 DEF Ready
      <4>3. CASE c.host = 0
        <5>1. n = c.new /\ b0.block = c.new
          BY <1>2, <4>3 DEF Ready
        <5>2. at = 0
          BY <1>3, <1>4, <1>5, <2>2, <5>1
        <5>. QED
          BY <1>4, <3>3, <5>1, <5>2
      <4>. QED
        BY <1>4, <4>2, <4>3
    <3>. QED
      BY <3>2, <3>3
  <2>. QED
    BY <2>3, <2>5, <2>6 DEF Delivered
<1>10. ASSUME Accepted(c) PROVE b.ok
  <2>1. b0.ok /\ b0.block = c.block /\ c.digits /\ c.new <= c.block
    BY <1>2, <1>4, <1>10 DEF Accepted, Ready, Larger
  <2>2. at0 + c.new <= b0.block
    BY <1>3, <1>4, <1>5, <2>1
  <2>. QED
    BY <1>7, <1>8, <2>1, <2>2
<1>. QED
  BY <1>9, <1>10

LEMMA ReplaceIsRight ==
  ASSUME NEW c \in PinCommands, Truthful(c), PinsAreLong, c.op = "replace",
         NEW b, b = PinBlock(c), NEW at, at = IF c.right THEN b.block - c.new ELSE 0
  PROVE  /\ b.ok => Delivered(c, b, "new", c.new, at)
         /\ Accepted(c) => b.ok
<1>1. PICK b0 : b0 = Provided(c)
  OBVIOUS
<1>2. PICK n \in Nat : Ready(c, b0, n)
  BY <1>1, TruthIsReady
<1>3. PICK at0 : at0 = IF c.right THEN b0.block - c.cur ELSE 0
  OBVIOUS
<1>4. PICK at1 : at1 = IF c.right THEN b0.block - c.new ELSE 0
  OBVIOUS
<1>5. c.cur \in Nat /\ c.new \in Nat /\ c.host \in Nat /\ c.block \in Nat /\ c.bits \in {0, 4, 8, 12}
      /\ c.right \in BOOLEAN
  BY CommandIs
<1>6. b0.block \in Nat /\ at0 \in Nat /\ at1 \in Nat /\ IsBlock(b0, n)
  <2>1. IsBlock(b0, n) /\ (c.right => c.cur <= b0.block /\ c.new <= b0.block)
    BY <1>2 DEF Ready
  <2>2. b0.block \in Nat
    BY <2>1 DEF IsBlock
  <2>. QED
    BY <1>3, <1>4, <1>5, <2>1, <2>2
<1>7. PICK b1 : b1 = WritePin(b0, "cur", c.cur, c)
  OBVIOUS
<1>8. PICK b2 : b2 = WritePinLength(b1, c.cur, c.bits)
  OBVIOUS
<1>9. PICK b4 : b4 = WritePin(b2, "new", c.new, c)
  OBVIOUS
<1>10. b.ok => b0.ok /\ b1.ok /\ b2.ok /\ c.old = EffectiveOffset(c) /\ b = b4
  <2>1. PICK s1 : s1 = IF b0.ok THEN b1 ELSE b0
    OBVIOUS
  <2>2. PICK s2 : s2 = IF s1.ok THEN WritePinLength(s1, c.cur, c.bits) ELSE s1
    OBVIOUS
  <2>3. PICK s3 : s3 = IF c.op = "replace" /\ c.old # EffectiveOffset(c) THEN Failed(s2) ELSE s2
    OBVIOUS
  <2>4. PICK s4 : s4 = IF s3.ok THEN WritePin(s3, "new", c.new, c) ELSE s3
    OBVIOUS
  <2>5. Steps(c, b0, s1, s2, s3, s4)
    BY <1>1, <1>7, <2>1, <2>2, <2>3, <2>4 DEF Steps
  <2>6. b = s4
    BY <2>5, StepsAre
  <2>. QED
    BY <1>8, <1>9, <2>1, <2>2, <2>3, <2>4, <2>6 DEF Failed
<1>11. ASSUME b0.ok
       PROVE  /\ IsBlock(b1, n) /\ b1.block = b0.block
              /\ b1.ok => at0 + c.cur <= b0.block
              /\ at0 + c.cur <= b0.block /\ c.digits => b1.ok
              /\ \A i \in 1 .. n : b1.data[i] = IF b1.ok /\ i \in at0 + 1 .. at0 + c.cur
                                                THEN Source("cur", i - at0) ELSE b0.data[i]
  BY <1>3, <1>5, <1>6, <1>7, <1>11, WriteIs
<1>12. ASSUME b0.ok, b1.ok
       PROVE  HasLength(b2, b1, n, c.cur, c.bits)
  <2>1. IsBlock(b1, n) /\ b1.ok /\ b1.block = b0.block
    BY <1>11, <1>12
  <2>2. b2 = WritePinLength(b1, c.cur, c.bits) /\ c.cur \in Nat /\ c.bits \in {0, 4, 8, 12}
    BY <1>5, <1>8
  <2>. QED
    BY <2>1, <2>2, LengthIs, Zenon
<1>13. ASSUME b0.ok, b1.ok, b2.ok
       PROVE  /\ IsBlock(b4, n) /\ b4.block = b0.block
              /\ b4.ok => at1 + c.new <= b0.block
              /\ at1 + c.new <= b0.block /\ c.digits => b4.ok
              /\ \A i \in 1 .. n : b4.data[i] = IF b4.ok /\ i \in at1 + 1 .. at1 + c.new
                                                THEN Source("new", i - at1) ELSE b2.data[i]
  <2>1. IsBlock(b2, n) /\ b2.block = b0.block
    BY <1>11, <1>12, <1>13 DEF HasLength
  <2>2. at1 = IF c.right THEN b2.block - c.new ELSE 0
    BY <1>4, <2>1
  <2>. QED
    BY <1>5, <1>6, <1>9, <1>13, <2>1, <2>2, WriteIs
<1>14. ASSUME b.ok PROVE Delivered(c, b, "new", c.new, at)
  <2>1. b0.ok /\ b1.ok /\ b2.ok /\ b = b4 /\ b4.ok
    BY <1>10, <1>14
  <2>2. at = at1 /\ at1 + c.new <= b0.block /\ b0.block <= n /\ b.block = b0.block
    BY <1>2, <1>4, <1>13, <2>1 DEF Ready
  <2>3. DOMAIN b.data = 1 .. n
    BY <1>13, <2>1 DEF IsBlock
  <2>4. \A i \in 1 .. n : b.data[i] = IF i \in at + 1 .. at + c.new THEN Source("new", i - at) ELSE b2.data[i]
    BY <1>13, <2>1, <2>2
  <2>5. \A i \in 1 .. n : b2.data[i] = IF c.bits = 8 /\ i = 1 THEN Source("length", c.cur)
                                       ELSE IF i \in at0 + 1 .. at0 + c.cur THEN Source("cur", i - at0) ELSE b0.data[i]
    BY <1>11, <1>12, <2>1 DEF HasLength
  <2>6. at0 + c.cur <= b0.block
    BY <1>11, <2>1
  <2>7. ASSUME NEW i \in 1 .. c.new PROVE b.data[at + i] = Source("new", i)
    <3>1. at + i \in 1 .. n /\ at + i \in at + 1 .. at + c.new /\ (at + i) - at = i
      <4>1. at \in Nat /\ at + c.new <= n
        BY <1>5, <1>6, <2>2
      <4>. QED
        BY <1>5, <4>1
    <3>. QED
      BY <2>4, <3>1
  <2>8. ASSUME NEW i \in 1 .. n
        PROVE  /\ b.data[i].from # "unset"
               /\ c.host > 0 /\ i > b.block => b.data[i] = Source("host", i) \/ b.data[i].from = "length"
    <3>1. \A m : /\ Source("new", m).from = "new" /\ Source("host", m).from = "host"
                 /\ Source("length", m).from = "length" /\ Source("cur", m).from = "cur"
      BY DEF Source
    <3>2. CASE i \in at + 1 .. at + c.new
      <4>1. ~(i > b.block)
        BY <1>5, <1>6, <2>2, <3>2
      <4>. QED
        BY <2>4, <3>1, <3>2, <4>1
    <3>3. CASE i \notin at + 1 .. at + c.new
      <4>1. b.data[i] = b2.data[i]
        BY <2>4, <3>3
      <4>2. CASE c.host > 0
        <5>1. i \in at0 + 1 .. at0 + c.cur => ~(i > b.block)
          BY <1>5, <1>6, <2>2, <2>6
        <5>2. b0.data[i] = Source("host", i)
          BY <1>2, <4>2 DEF Ready
        <5>. QED
          BY <2>5, <3>1, <4>1, <5>1, <5>2
      <4>3. CASE c.host = 0
        <5>1. n = Larger(c.new, c.cur) /\ b0.block = c.new
          BY <1>2, <4>3 DEF Ready
        <5>2. n = c.new /\ at = 0
          BY <1>4, <1>5, <1>6, <2>2, <2>6, <5>1 DEF Larger
        <5>. QED
          BY <1>5, <3>3, <5>2
      <4>. QED
        BY <1>5, <4>2, <4>3
    <3>. QED
      BY <3>2, <3>3
  <2>. QED
    BY <2>3, <2>7, <2>8 DEF Delivered
<1>15. ASSUME Accepted(c) PROVE b.ok
  <2>1. /\ b0.ok /\ b0.block = c.block /\ c.digits /\ c.bits \in {0, 8}
        /\ c.cur <= c.block /\ c.new <= c.block /\ c.old = EffectiveOffset(c)
    BY <1>2, <1>5, <1>15 DEF Accepted, Ready, Larger
  <2>2. at0 + c.cur <= b0.block /\ at1 + c.new <= b0.block
    BY <1>3, <1>4, <1>5, <1>6, <2>1
  <2>3. b1.ok
    BY <1>11, <2>1, <2>2
  <2>4. b2.ok
    BY <1>12, <2>1, <2>3 DEF HasLength
  <2>5. b4.ok
    BY <1>13, <2>1, <2>2, <2>3, <2>4
  <2>6. Steps(c, b0, b1, b2, b2, b4)
    BY <1>1, <1>7, <1>8, <1>9, <2>1, <2>3, <2>4 DEF Steps
  <2>7. b = b4
    BY <2>6, StepsAre
  <2>. QED
    BY <2>5, <2>7
<1>. QED
  BY <1>14, <1>15

LEMMA BlocksStayRight == PinsAreLong => BlocksAreRight
<1> SUFFICES ASSUME PinsAreLong, NEW c \in PinCommands, Truthful(c),
                    NEW b, b = PinBlock(c),
                    NEW pin, pin = IF c.op = "verify" THEN "cur" ELSE "new",
                    NEW len, len = IF c.op = "verify" THEN c.cur ELSE c.new,
                    NEW at, at = IF c.right THEN b.block - len ELSE 0
             PROVE  (b.ok => Delivered(c, b, pin, len, at)) /\ (Accepted(c) => b.ok)
  BY DEF BlocksAreRight, Delivered, Accepted
<1>1. CASE c.op = "verify"
  BY <1>1, VerifyIsRight
<1>2. CASE c.op = "modify"
  BY <1>2, ModifyIsRight
<1>3. CASE c.op = "replace"
  BY <1>3, ReplaceIsRight
<1>. QED
  BY <1>1, <1>2, <1>3, CommandIs

\* If PINs have two digits or more, the one typed last is in the data of a command
\* that the card gets, where the block says; nothing in them is left to chance,
\* and a PIN that fits is not refused (write_pin, write_pin_length,
\* perform_PC_to_RDR_Secure).  A PIN of one digit leaves a byte unset when its
\* length takes two.
THEOREM PinReachesTheCard == PinsAreLong => (Spec => []PinReachesCard)
<1> SUFFICES ASSUME PinsAreLong PROVE Spec => []PinReachesCard
  OBVIOUS
<1>1. TypeOK => PinReachesCard
  BY BlocksStayRight DEF PinReachesCard
<1>. QED
  BY <1>1, TypesHold, PTL

-----------------------------------------------------------------------------
(* The data of PACE.                                                       *)

Zeros(n) == [i \in 1 .. n |-> 0]

LEMMA ZerosAre == ASSUME NEW n \in Nat PROVE Zeros(n) \in Seq(Nat) /\ Len(Zeros(n)) = n
<1>1. Zeros(n) \in [1 .. n -> Nat]
  BY DEF Zeros
<1>2. Zeros(n) \in Seq(Nat)
  BY <1>1, SeqDef, Zenon
<1>3. DOMAIN Zeros(n) = 1 .. n
  BY DEF Zeros
<1>. QED
  BY <1>2, <1>3

IsJoined(w, s, t) ==
  /\ w \in Seq(Nat) /\ Len(w) = Len(s) + Len(t)
  /\ \A i \in 1 .. Len(s) : w[i] = s[i]
  /\ \A i \in 1 .. Len(t) : w[Len(s) + i] = t[i]

LEMMA JoinedAre ==
  ASSUME NEW s \in Seq(Nat), NEW t \in Seq(Nat), NEW w, w = s \o t PROVE IsJoined(w, s, t)
  BY DEF IsJoined

\* A number in two bytes, the low one first.
LEMMA Divided ==
  ASSUME NEW n \in Nat
  PROVE  n % Radix \in Nat /\ n \div Radix \in Nat /\ (n % Radix) + Radix * (n \div Radix) = n
  BY SecureAssumption

\* What the data begin with, as far as they go.
Begins(s, chat, pin, cert) ==
  /\ Len(s) >= 2 => s[2] = chat
  /\ Len(s) >= 3 + chat => s[3 + chat] = pin
  /\ Len(s) >= 5 + chat + pin => s[4 + chat + pin] + Radix * s[5 + chat + pin] = cert

Found(p, whole, chat, pin, cert) ==
  /\ p.ok <=> whole
  /\ whole => /\ p.chat = [at |-> 2, len |-> chat]
              /\ p.pin = [at |-> 3 + chat, len |-> pin]
              /\ p.cert = [at |-> 5 + chat + pin, len |-> cert]

\* They are taken apart as they were put together, or refused.
LEMMA TakenApart ==
  ASSUME NEW s \in Seq(Nat), NEW chat \in Nat, NEW pin \in Nat, NEW cert \in Nat, Begins(s, chat, pin, cert)
  PROVE  Found(PaceInput(s), Len(s) >= 5 + chat + pin + cert, chat, pin, cert)
<1>1. PICK m \in Nat : m = Len(s)
  OBVIOUS
<1>2. PICK a : a = Field(s, 1, 1)
  OBVIOUS
<1>3. PICK b : b = IF a = Short THEN Short ELSE Field(s, a.at + a.len, 1)
  OBVIOUS
<1>4. PICK c : c = IF b = Short THEN Short ELSE Field(s, b.at + b.len, 2)
  OBVIOUS
<1>5. PaceInput(s) = [ok |-> c # Short, chat |-> a, pin |-> b, cert |-> c]
  BY <1>2, <1>3, <1>4 DEF PaceInput
<1>6. \A x, y \in Nat : x >= 2 => [at |-> x, len |-> y] # Short
  <2>1. Short.at = 0
    BY DEF Short
  <2>. QED
    BY <2>1
<1>7. a = IF m >= 2 + chat THEN [at |-> 2, len |-> chat] ELSE Short
  <2>1. Number(s, 1, 1) = s[2] /\ 1 + 1 = 2
    BY DEF Number
  <2>2. Len(s) >= 2 => Number(s, 1, 1) = chat
    BY <2>1 DEF Begins
  <2>3. a = IF Len(s) < 2 \/ Len(s) < 2 + Number(s, 1, 1) THEN Short ELSE [at |-> 2, len |-> Number(s, 1, 1)]
    BY <1>2, <2>1 DEF Field
  <2>. QED
    BY <1>1, <2>2, <2>3
<1>8. b = IF m >= 3 + chat + pin THEN [at |-> 3 + chat, len |-> pin] ELSE Short
  <2>1. CASE m >= 2 + chat
    <3>1. a = [at |-> 2, len |-> chat] /\ a # Short
      BY <1>6, <1>7, <2>1
    <3>2. b = Field(s, 2 + chat, 1)
      BY <1>3, <3>1
    <3>3. (2 + chat) + 1 = 3 + chat
      OBVIOUS
    <3>4. Number(s, 2 + chat, 1) = s[3 + chat]
      BY <3>3 DEF Number
    <3>5. Len(s) >= 3 + chat => Number(s, 2 + chat, 1) = pin
      BY <3>4 DEF Begins
    <3>6. b = IF Len(s) < 3 + chat \/ Len(s) < 3 + chat + Number(s, 2 + chat, 1) THEN Short
              ELSE [at |-> 3 + chat, len |-> Number(s, 2 + chat, 1)]
      BY <3>2, <3>3 DEF Field
    <3>. QED
      BY <1>1, <3>5, <3>6
  <2>2. CASE ~(m >= 2 + chat)
    BY <1>1, <1>3, <1>7, <2>2
  <2>. QED
    BY <2>1, <2>2
<1>9. c = IF m >= 5 + chat + pin + cert THEN [at |-> 5 + chat + pin, len |-> cert] ELSE Short
  <2>1. CASE m >= 3 + chat + pin
    <3>1. b = [at |-> 3 + chat, len |-> pin] /\ b # Short
      BY <1>6, <1>8, <2>1
    <3>2. c = Field(s, 3 + chat + pin, 2)
      BY <1>4, <3>1
    <3>3. (3 + chat + pin) + 2 = 5 + chat + pin /\ (3 + chat + pin) + 1 = 4 + chat + pin
      OBVIOUS
    <3>4. Number(s, 3 + chat + pin, 2) = s[4 + chat + pin] + Radix * s[5 + chat + pin]
      BY <3>3 DEF Number
    <3>5. Len(s) >= 5 + chat + pin => Number(s, 3 + chat + pin, 2) = cert
      BY <3>4 DEF Begins
    <3>6. c = IF Len(s) < 5 + chat + pin \/ Len(s) < 5 + chat + pin + Number(s, 3 + chat + pin, 2) THEN Short
              ELSE [at |-> 5 + chat + pin, len |-> Number(s, 3 + chat + pin, 2)]
      BY <3>2, <3>3 DEF Field
    <3>. QED
      BY <1>1, <3>5, <3>6
  <2>2. CASE ~(m >= 3 + chat + pin)
    BY <1>1, <1>4, <1>8, <2>2
  <2>. QED
    BY <2>1, <2>2
<1>10. c # Short <=> m >= 5 + chat + pin + cert
  BY <1>6, <1>9
<1>11. m >= 5 + chat + pin + cert => m >= 3 + chat + pin /\ m >= 2 + chat
  BY <1>1
<1>12. /\ PaceInput(s).ok = (c # Short) /\ PaceInput(s).chat = a
       /\ PaceInput(s).pin = b /\ PaceInput(s).cert = c
  BY <1>5
<1>13. PaceInput(s).ok <=> m >= 5 + chat + pin + cert
  BY <1>10, <1>12
<1>14. m >= 5 + chat + pin + cert =>
         a = [at |-> 2, len |-> chat] /\ b = [at |-> 3 + chat, len |-> pin] /\ c = [at |-> 5 + chat + pin, len |-> cert]
  BY <1>7, <1>8, <1>9, <1>11
<1>. QED
  BY <1>1, <1>12, <1>13, <1>14 DEF Found

\* The data as the host puts them together.
Coded(chat, pin, cert) ==
  <<0, chat>> \o Zeros(chat) \o <<pin>> \o Zeros(pin) \o <<cert % Radix, cert \div Radix>> \o Zeros(cert)

Holds(d, chat, pin, cert) ==
  /\ d \in Seq(Nat) /\ Len(d) = 5 + chat + pin + cert
  /\ d[2] = chat /\ d[3 + chat] = pin
  /\ d[4 + chat + pin] + Radix * d[5 + chat + pin] = cert

LEMMA CodedIs ==
  ASSUME NEW chat \in Nat, NEW pin \in Nat, NEW cert \in Nat,
         NEW d, d = Coded(chat, pin, cert)
  PROVE  Holds(d, chat, pin, cert)
<1>1. PICK low, high \in Nat : low = cert % Radix /\ high = cert \div Radix /\ low + Radix * high = cert
  BY Divided
<1>2. PICK head : head = <<0, chat>>
  OBVIOUS
<1>3. head \in Seq(Nat) /\ Len(head) = 2 /\ head[2] = chat
  BY <1>2
<1>4. PICK one : one = <<pin>>
  OBVIOUS
<1>5. one \in Seq(Nat) /\ Len(one) = 1 /\ one[1] = pin
  BY <1>4
<1>6. PICK two : two = <<low, high>>
  OBVIOUS
<1>7. two \in Seq(Nat) /\ Len(two) = 2 /\ two[1] = low /\ two[2] = high
  BY <1>6
<1>8. PICK s1 : s1 = head \o Zeros(chat)
  OBVIOUS
<1>9. s1 \in Seq(Nat) /\ Len(s1) = 2 + chat /\ s1[2] = chat
  <2>1. PICK z \in Seq(Nat) : z = Zeros(chat) /\ Len(z) = chat
    BY ZerosAre
  <2>2. IsJoined(s1, head, z)
    BY <1>3, <1>8, <2>1, JoinedAre, Zenon
  <2>. QED
    BY <1>3, <2>1, <2>2 DEF IsJoined
<1>10. PICK s2 : s2 = s1 \o one
  OBVIOUS
<1>11. s2 \in Seq(Nat) /\ Len(s2) = 3 + chat /\ s2[2] = chat /\ s2[3 + chat] = pin
  <2>0. IsJoined(s2, s1, one)
    BY <1>5, <1>9, <1>10, JoinedAre, Zenon
  <2>1. s2 \in Seq(Nat) /\ Len(s2) = Len(s1) + 1 /\ s2[Len(s1) + 1] = one[1]
    <3>1. 1 \in 1 .. Len(one)
      BY <1>5
    <3>. QED
      BY <1>5, <2>0, <3>1 DEF IsJoined
  <2>2. s2[2] = s1[2]
    <3>1. 2 \in 1 .. Len(s1)
      BY <1>9
    <3>. QED
      BY <2>0, <3>1 DEF IsJoined
  <2>3. Len(s1) + 1 = 3 + chat
    BY <1>9
  <2>. QED
    BY <1>5, <1>9, <2>1, <2>2, <2>3
<1>12. PICK s3 : s3 = s2 \o Zeros(pin)
  OBVIOUS
<1>13. s3 \in Seq(Nat) /\ Len(s3) = 3 + chat + pin /\ s3[2] = chat /\ s3[3 + chat] = pin
  <2>1. PICK z \in Seq(Nat) : z = Zeros(pin) /\ Len(z) = pin
    BY ZerosAre
  <2>2. IsJoined(s3, s2, z)
    BY <1>11, <1>12, <2>1, JoinedAre, Zenon
  <2>3. 2 \in 1 .. Len(s2) /\ 3 + chat \in 1 .. Len(s2)
    BY <1>11
  <2>. QED
    BY <1>11, <2>1, <2>2, <2>3 DEF IsJoined
<1>14. PICK s4 : s4 = s3 \o two
  OBVIOUS
<1>15. /\ s4 \in Seq(Nat) /\ Len(s4) = 5 + chat + pin /\ s4[2] = chat /\ s4[3 + chat] = pin
       /\ s4[4 + chat + pin] = low /\ s4[5 + chat + pin] = high
  <2>0. IsJoined(s4, s3, two)
    BY <1>7, <1>13, <1>14, JoinedAre, Zenon
  <2>1. /\ s4 \in Seq(Nat) /\ Len(s4) = Len(s3) + 2 /\ \A i \in 1 .. Len(s3) : s4[i] = s3[i]
        /\ \A i \in 1 .. Len(two) : s4[Len(s3) + i] = two[i]
    BY <1>7, <2>0 DEF IsJoined
  <2>2. 2 \in 1 .. Len(s3) /\ 3 + chat \in 1 .. Len(s3) /\ 1 \in 1 .. Len(two) /\ 2 \in 1 .. Len(two)
    BY <1>7, <1>13
  <2>3. s4[Len(s3) + 1] = low /\ s4[Len(s3) + 2] = high
    BY <1>7, <2>1, <2>2
  <2>4. Len(s3) + 1 = 4 + chat + pin /\ Len(s3) + 2 = 5 + chat + pin
    BY <1>13
  <2>. QED
    BY <1>13, <2>1, <2>2, <2>3, <2>4
<1>16. d = s4 \o Zeros(cert)
  BY <1>1, <1>2, <1>4, <1>6, <1>8, <1>10, <1>12, <1>14 DEF Coded
<1>17. PICK z \in Seq(Nat) : z = Zeros(cert) /\ Len(z) = cert
  BY ZerosAre
<1>18. d \in Seq(Nat) /\ Len(d) = Len(s4) + cert /\ \A i \in 1 .. Len(s4) : d[i] = s4[i]
  <2>1. IsJoined(d, s4, z)
    BY <1>15, <1>16, <1>17, JoinedAre, Zenon
  <2>. QED
    BY <1>17, <2>1 DEF IsJoined
<1>19. /\ 2 \in 1 .. Len(s4) /\ 3 + chat \in 1 .. Len(s4)
       /\ 4 + chat + pin \in 1 .. Len(s4) /\ 5 + chat + pin \in 1 .. Len(s4)
  BY <1>15
<1>20. d[2] = chat /\ d[3 + chat] = pin /\ d[4 + chat + pin] = low /\ d[5 + chat + pin] = high
  BY <1>15, <1>18, <1>19
<1>21. Len(d) = 5 + chat + pin + cert
  BY <1>15, <1>18
<1>. QED
  BY <1>1, <1>18, <1>20, <1>21 DEF Holds

\* So data that are cut off, or have other bytes behind, begin with the same.
LEMMA BeginsLike ==
  ASSUME NEW chat \in Nat, NEW pin \in Nat, NEW cert \in Nat,
         NEW d, d = Coded(chat, pin, cert), NEW s \in Seq(Nat),
         \A i \in 1 .. Len(s) : i \in 1 .. Len(d) => s[i] = d[i]
  PROVE  Begins(s, chat, pin, cert)
<1>1. /\ d \in Seq(Nat) /\ Len(d) = 5 + chat + pin + cert
      /\ d[2] = chat /\ d[3 + chat] = pin
      /\ d[4 + chat + pin] + Radix * d[5 + chat + pin] = cert
  <2>1. Holds(d, chat, pin, cert)
    BY CodedIs, Zenon
  <2>. QED
    BY <2>1 DEF Holds
<1>2. /\ 2 \in 1 .. Len(d) /\ 3 + chat \in 1 .. Len(d)
      /\ 4 + chat + pin \in 1 .. Len(d) /\ 5 + chat + pin \in 1 .. Len(d)
  BY <1>1
<1>3. Len(s) >= 2 => s[2] = chat
  <2>1. ASSUME Len(s) >= 2 PROVE 2 \in 1 .. Len(s)
    BY <2>1
  <2>. QED
    BY <1>1, <1>2, <2>1
<1>4. Len(s) >= 3 + chat => s[3 + chat] = pin
  <2>1. ASSUME Len(s) >= 3 + chat PROVE 3 + chat \in 1 .. Len(s)
    BY <2>1
  <2>. QED
    BY <1>1, <1>2, <2>1
<1>5. Len(s) >= 5 + chat + pin => s[4 + chat + pin] = d[4 + chat + pin] /\ s[5 + chat + pin] = d[5 + chat + pin]
  <2>1. ASSUME Len(s) >= 5 + chat + pin PROVE 4 + chat + pin \in 1 .. Len(s) /\ 5 + chat + pin \in 1 .. Len(s)
    BY <2>1
  <2>. QED
    BY <1>2, <2>1
<1>6. Len(s) >= 5 + chat + pin => s[4 + chat + pin] + Radix * s[5 + chat + pin] = cert
  BY <1>1, <1>5
<1>. QED
  BY <1>3, <1>4, <1>6 DEF Begins

FoundAgain(d, p, chat, pin, cert) ==
  /\ p.ok /\ p.chat.len = chat /\ p.pin.len = pin /\ p.cert.len = cert
  /\ p.chat.at = 2 /\ p.pin.at = 3 + chat /\ p.cert.at = 5 + chat + pin
  /\ \A n \in 0 .. Len(d) - 1 : ~PaceInput(SubSeq(d, 1, n)).ok

LEMMA WholeIsFound ==
  ASSUME NEW chat \in Nat, NEW pin \in Nat, NEW cert \in Nat, NEW more \in Nat,
         NEW d, d = Coded(chat, pin, cert), NEW p, p = PaceInput(d \o Zeros(more))
  PROVE  FoundAgain(d, p, chat, pin, cert)
<1>1. d \in Seq(Nat) /\ Len(d) = 5 + chat + pin + cert
  <2>1. Holds(d, chat, pin, cert)
    BY CodedIs, Zenon
  <2>. QED
    BY <2>1 DEF Holds
<1>2. PICK s : s = d \o Zeros(more)
  OBVIOUS
<1>3. s \in Seq(Nat) /\ Len(s) = Len(d) + more /\ \A i \in 1 .. Len(d) : s[i] = d[i]
  <2>1. PICK z \in Seq(Nat) : z = Zeros(more) /\ Len(z) = more
    BY ZerosAre
  <2>2. IsJoined(s, d, z)
    BY <1>1, <1>2, <2>1, JoinedAre, Zenon
  <2>. QED
    BY <2>1, <2>2 DEF IsJoined
<1>4. Begins(s, chat, pin, cert)
  BY <1>3, BeginsLike
<1>5. Len(s) >= 5 + chat + pin + cert
  BY <1>1, <1>3
<1>6. /\ p.ok /\ p.chat = [at |-> 2, len |-> chat]
      /\ p.pin = [at |-> 3 + chat, len |-> pin] /\ p.cert = [at |-> 5 + chat + pin, len |-> cert]
  <2>1. Found(p, Len(s) >= 5 + chat + pin + cert, chat, pin, cert)
    BY <1>2, <1>3, <1>4, TakenApart, Zenon
  <2>. QED
    BY <1>5, <2>1 DEF Found
<1>7. ASSUME NEW n \in 0 .. Len(d) - 1 PROVE ~PaceInput(SubSeq(d, 1, n)).ok
  <2>1. PICK t : t = SubSeq(d, 1, n)
    OBVIOUS
  <2>2. t \in Seq(Nat) /\ Len(t) = n /\ \A i \in 1 .. n : t[i] = d[i]
    BY <1>1, <2>1, SMTT(30)
  <2>3. Begins(t, chat, pin, cert)
    BY <2>2, BeginsLike
  <2>4. ~(Len(t) >= 5 + chat + pin + cert)
    BY <1>1, <2>2
  <2>. QED
    <3>1. Found(PaceInput(t), Len(t) >= 5 + chat + pin + cert, chat, pin, cert)
      BY <2>2, <2>3, TakenApart, Zenon
    <3>. QED
      BY <2>1, <2>4, <3>1 DEF Found
<1>. QED
  BY <1>6, <1>7 DEF FoundAgain

LEMMA FieldsStayFound == FieldsAreFound
<1>1. 0 .. Radix - 1 \subseteq Nat /\ 0 .. 2 * Radix \subseteq Nat /\ 0 .. 1 \subseteq Nat
  BY SecureAssumption
<1>2. ASSUME NEW chat \in 0 .. Radix - 1, NEW pin \in 0 .. Radix - 1, NEW cert \in 0 .. 2 * Radix, NEW more \in 0 .. 1
      PROVE  FoundAgain(Coded(chat, pin, cert), PaceInput(Coded(chat, pin, cert) \o Zeros(more)), chat, pin, cert)
  BY <1>1, WholeIsFound, Zenon
<1>. QED
  BY <1>2 DEF FieldsAreFound, FoundAgain, Coded, Zeros

\* A number that fits into two bytes is found in them again.
LEMMA WordIs ==
  ASSUME NEW n \in Nat, NEW w, w = Word(n)
  PROVE  /\ w \in Seq(Nat) /\ Len(w) = 2
         /\ n < Radix * Radix => w[1] + Radix * w[2] = n
<1>1. PICK q \in Nat : q = n \div Radix
  BY Divided
<1>2. PICK r \in Nat : r = n % Radix
  BY Divided
<1>3. r + Radix * q = n
  BY <1>1, <1>2, Divided
<1>4. q % Radix \in Nat
  BY Divided
<1>5. w = <<r, q % Radix>>
  BY <1>1, <1>2 DEF Word
<1>6. ASSUME n < Radix * Radix PROVE q % Radix = q
  <2>1. Radix \in Nat /\ Radix # 0
    BY SecureAssumption
  <2>2. q < Radix
    BY <1>3, <1>6, <2>1
  <2>. QED
    BY <2>1, <2>2
<1>7. w[1] = r /\ w[2] = q % Radix
  BY <1>5
<1>. QED
  BY <1>3, <1>4, <1>5, <1>6, <1>7

\* w is s, with n more bytes.
Longer(w, s, n) ==
  w \in Seq(Nat) /\ Len(w) = Len(s) + n /\ \A i \in 1 .. Len(s) : w[i] = s[i]

LEMMA LongerYet ==
  ASSUME NEW s \in Seq(Nat), NEW t \in Seq(Nat), NEW w \in Seq(Nat), NEW m \in Nat, NEW n \in Nat,
         Longer(t, s, m), Longer(w, t, n)
  PROVE  Longer(w, s, m + n)
<1>1. PICK l \in Nat : l = Len(s)
  OBVIOUS
<1>2. Len(t) = l + m /\ Len(w) = (l + m) + n
  BY <1>1 DEF Longer
<1>3. ASSUME NEW i \in 1 .. l PROVE w[i] = s[i]
  <2>1. i \in 1 .. Len(t)
    BY <1>2
  <2>. QED
    BY <1>1, <2>1 DEF Longer
<1>. QED
  BY <1>1, <1>2, <1>3 DEF Longer

LEMMA WithZeros ==
  ASSUME NEW s \in Seq(Nat), NEW n \in Nat, NEW w, w = s \o Zeros(n) PROVE Longer(w, s, n)
<1>1. PICK z \in Seq(Nat) : z = Zeros(n) /\ Len(z) = n
  BY ZerosAre
<1>2. IsJoined(w, s, z)
  BY <1>1, JoinedAre, Zenon
<1>. QED
  BY <1>1, <1>2 DEF IsJoined, Longer

LEMMA WithByte ==
  ASSUME NEW s \in Seq(Nat), NEW b \in Nat, NEW w, w = s \o <<b>>
  PROVE  Longer(w, s, 1) /\ w[Len(s) + 1] = b
<1>1. PICK t : t = <<b>>
  OBVIOUS
<1>0. t \in Seq(Nat) /\ Len(t) = 1 /\ t[1] = b
  BY <1>1
<1>2. IsJoined(w, s, t)
  BY <1>0, <1>1, JoinedAre, Zenon
<1>3. 1 \in 1 .. Len(t)
  BY <1>0
<1>. QED
  BY <1>0, <1>2, <1>3 DEF IsJoined, Longer

EndsWith(w, s, n) == n < Radix * Radix => w[Len(s) + 1] + Radix * w[Len(s) + 2] = n

LEMMA WithWord ==
  ASSUME NEW s \in Seq(Nat), NEW n \in Nat, NEW w, w = s \o Word(n)
  PROVE  Longer(w, s, 2) /\ EndsWith(w, s, n)
<1>1. PICK t : t = Word(n)
  OBVIOUS
<1>2. t \in Seq(Nat) /\ Len(t) = 2 /\ (n < Radix * Radix => t[1] + Radix * t[2] = n)
  BY <1>1, WordIs
<1>3. IsJoined(w, s, t)
  BY <1>1, <1>2, JoinedAre, Zenon
<1>4. 1 \in 1 .. Len(t) /\ 2 \in 1 .. Len(t)
  BY <1>2
<1>5. w[Len(s) + 1] = t[1] /\ w[Len(s) + 2] = t[2]
  BY <1>3, <1>4 DEF IsJoined
<1>6. Longer(w, s, 2)
  BY <1>2, <1>3 DEF IsJoined, Longer
<1>. QED
  BY <1>2, <1>5, <1>6 DEF EndsWith

\* A field behind its length.
LEMMA FieldIs ==
  ASSUME NEW d \in Seq(Nat), NEW at \in Nat, NEW width \in {1, 2}, NEW n \in Nat,
         Number(d, at, width) = n, at + width + n <= Len(d)
  PROVE  Field(d, at, width) = [at |-> at + width, len |-> n]
<1>1. PICK l \in Nat : l = Len(d)
  OBVIOUS
<1>2. ~(l < at + width) /\ ~(l < at + width + n)
  BY <1>1
<1>. QED
  BY <1>1, <1>2 DEF Field

\* What follows the status bytes of the card.
HasFields(f, a, r, p, c) ==
  /\ f \in Seq(Nat) /\ Len(f) = 6 + a + r + p + c
  /\ a < Radix * Radix => f[1] + Radix * f[2] = a
  /\ f[3 + a] = r
  /\ f[4 + a + r] = p
  /\ c < Radix * Radix => f[5 + a + r + p] + Radix * f[6 + a + r + p] = c

LEMMA FieldsAre ==
  ASSUME NEW a \in Nat, NEW r \in Nat, NEW p \in Nat, NEW c \in Nat,
         NEW f, f = Word(a) \o Zeros(a) \o <<r>> \o Zeros(r) \o <<p>> \o Zeros(p) \o Word(c) \o Zeros(c)
  PROVE  HasFields(f, a, r, p, c)
<1>1. PICK s1 : s1 = Word(a)
  OBVIOUS
<1>2. PICK s2 : s2 = s1 \o Zeros(a)
  OBVIOUS
<1>3. PICK s3 : s3 = s2 \o <<r>>
  OBVIOUS
<1>4. PICK s4 : s4 = s3 \o Zeros(r)
  OBVIOUS
<1>5. PICK s5 : s5 = s4 \o <<p>>
  OBVIOUS
<1>6. PICK s6 : s6 = s5 \o Zeros(p)
  OBVIOUS
<1>7. PICK s7 : s7 = s6 \o Word(c)
  OBVIOUS
<1>8. f = s7 \o Zeros(c)
  BY <1>1, <1>2, <1>3, <1>4, <1>5, <1>6, <1>7
<1>9. s1 \in Seq(Nat) /\ Len(s1) = 2 /\ (a < Radix * Radix => s1[1] + Radix * s1[2] = a)
  BY <1>1, WordIs
<1>10. Longer(s2, s1, a)
  BY <1>2, <1>9, WithZeros, Zenon
<1>11. s2 \in Seq(Nat) /\ Len(s2) = 2 + a
  BY <1>9, <1>10 DEF Longer
<1>12. Longer(s3, s2, 1) /\ s3[3 + a] = r
  <2>1. Longer(s3, s2, 1) /\ s3[Len(s2) + 1] = r
    BY <1>3, <1>11, WithByte, Zenon
  <2>2. Len(s2) + 1 = 3 + a
    BY <1>11
  <2>. QED
    BY <2>1, <2>2
<1>13. s3 \in Seq(Nat) /\ Len(s3) = 3 + a
  BY <1>11, <1>12 DEF Longer
<1>14. Longer(s4, s3, r)
  BY <1>4, <1>13, WithZeros, Zenon
<1>15. s4 \in Seq(Nat) /\ Len(s4) = 3 + a + r
  BY <1>13, <1>14 DEF Longer
<1>16. Longer(s5, s4, 1) /\ s5[4 + a + r] = p
  <2>1. Longer(s5, s4, 1) /\ s5[Len(s4) + 1] = p
    BY <1>5, <1>15, WithByte, Zenon
  <2>2. Len(s4) + 1 = 4 + a + r
    BY <1>15
  <2>. QED
    BY <2>1, <2>2
<1>17. s5 \in Seq(Nat) /\ Len(s5) = 4 + a + r
  BY <1>15, <1>16 DEF Longer
<1>18. Longer(s6, s5, p)
  BY <1>6, <1>17, WithZeros, Zenon
<1>19. s6 \in Seq(Nat) /\ Len(s6) = 4 + a + r + p
  BY <1>17, <1>18 DEF Longer
<1>20. Longer(s7, s6, 2) /\ EndsWith(s7, s6, c)
  BY <1>7, <1>19, WithWord, Zenon
<1>21. s7 \in Seq(Nat) /\ Len(s7) = 6 + a + r + p
  BY <1>19, <1>20 DEF Longer
<1>22. Longer(f, s7, c)
  BY <1>8, <1>21, WithZeros, Zenon
<1>23. f \in Seq(Nat) /\ Len(f) = 6 + a + r + p + c
  BY <1>21, <1>22 DEF Longer
<1>24. /\ Longer(f, s6, 2 + c) /\ Longer(f, s5, p + (2 + c)) /\ Longer(f, s4, 1 + (p + (2 + c)))
       /\ Longer(f, s3, r + (1 + (p + (2 + c)))) /\ Longer(f, s2, 1 + (r + (1 + (p + (2 + c)))))
       /\ Longer(f, s1, a + (1 + (r + (1 + (p + (2 + c))))))
  <2>1. PICK n1, n2, n3, n4, n5 \in Nat : /\ n1 = 2 + c /\ n2 = p + n1 /\ n3 = 1 + n2 /\ n4 = r + n3 /\ n5 = 1 + n4
    OBVIOUS
  <2>2. 1 \in Nat /\ 2 \in Nat
    OBVIOUS
  <2>3. Longer(f, s6, n1)
    BY <1>19, <1>20, <1>21, <1>22, <1>23, <2>1, <2>2, LongerYet, Zenon
  <2>4. Longer(f, s5, n2)
    BY <1>17, <1>18, <1>19, <1>23, <2>1, <2>3, LongerYet, Zenon
  <2>5. Longer(f, s4, n3)
    BY <1>15, <1>16, <1>17, <1>23, <2>1, <2>2, <2>4, LongerYet, Zenon
  <2>6. Longer(f, s3, n4)
    BY <1>13, <1>14, <1>15, <1>23, <2>1, <2>5, LongerYet, Zenon
  <2>7. Longer(f, s2, n5)
    BY <1>11, <1>12, <1>13, <1>23, <2>1, <2>2, <2>6, LongerYet, Zenon
  <2>8. Longer(f, s1, a + n5)
    BY <1>9, <1>10, <1>11, <1>23, <2>1, <2>7, LongerYet, Zenon
  <2>. QED
    BY <2>1, <2>3, <2>4, <2>5, <2>6, <2>7, <2>8
<1>25. f[3 + a] = r
  <2>1. \A i \in 1 .. 3 + a : f[i] = s3[i]
    BY <1>13, <1>24 DEF Longer
  <2>2. 3 + a \in 1 .. 3 + a
    OBVIOUS
  <2>. QED
    BY <1>12, <2>1, <2>2
<1>26. f[4 + a + r] = p
  <2>1. \A i \in 1 .. 4 + a + r : f[i] = s5[i]
    BY <1>17, <1>24 DEF Longer
  <2>2. 4 + a + r \in 1 .. 4 + a + r
    OBVIOUS
  <2>. QED
    BY <1>16, <2>1, <2>2
<1>27. f[5 + a + r + p] = s7[5 + a + r + p] /\ f[6 + a + r + p] = s7[6 + a + r + p]
  <2>1. 5 + a + r + p \in 1 .. Len(s7) /\ 6 + a + r + p \in 1 .. Len(s7)
    BY <1>21
  <2>. QED
    BY <1>22, <2>1 DEF Longer
<1>28. c < Radix * Radix => s7[5 + a + r + p] + Radix * s7[6 + a + r + p] = c
  <2>1. Len(s6) + 1 = 5 + a + r + p /\ Len(s6) + 2 = 6 + a + r + p
    BY <1>19
  <2>. QED
    BY <1>20, <2>1 DEF EndsWith
<1>29. f[1] = s1[1] /\ f[2] = s1[2]
  <2>1. 1 \in 1 .. Len(s1) /\ 2 \in 1 .. Len(s1)
    BY <1>9
  <2>. QED
    BY <1>24, <2>1 DEF Longer
<1>. QED
  BY <1>9, <1>23, <1>25, <1>26, <1>27, <1>28, <1>29 DEF HasFields

AllFound(d, a, r, p, c) ==
  /\ Len(d) = 14 + a + r + p + c
  /\ Field(d, 8, 2) = [at |-> 10, len |-> a]
  /\ Field(d, 10 + a, 1) = [at |-> 11 + a, len |-> r]
  /\ Field(d, 11 + a + r, 1) = [at |-> 12 + a + r, len |-> p]
  /\ Field(d, 12 + a + r + p, 2) = [at |-> 14 + a + r + p, len |-> c]
  /\ Len(d) - 6 < Radix * Radix => Number(d, 4, 2) = Len(d) - 6

LEMMA AnswersFound ==
  ASSUME NEW a \in Nat, NEW r \in Nat, NEW p \in Nat, NEW c \in Nat, a < Radix * Radix, c < Radix * Radix,
         NEW f, HasFields(f, a, r, p, c),
         NEW d, d = Zeros(4) \o Word(2 + Len(f)) \o Zeros(2) \o f
  PROVE  AllFound(d, a, r, p, c)
<1>1. f \in Seq(Nat) /\ Len(f) = 6 + a + r + p + c
  BY DEF HasFields
<1>2. PICK n \in Nat : n = 2 + Len(f)
  BY <1>1
<1>3. PICK s1 \in Seq(Nat) : s1 = Zeros(4) /\ Len(s1) = 4
  BY ZerosAre
<1>4. PICK s2 : s2 = s1 \o Word(n)
  OBVIOUS
<1>5. PICK s3 : s3 = s2 \o Zeros(2)
  OBVIOUS
<1>6. d = s3 \o f
  BY <1>2, <1>3, <1>4, <1>5
<1>7. Longer(s2, s1, 2) /\ EndsWith(s2, s1, n)
  BY <1>2, <1>3, <1>4, WithWord, Zenon
<1>8. s2 \in Seq(Nat) /\ Len(s2) = 6
  BY <1>3, <1>7 DEF Longer
<1>9. Longer(s3, s2, 2)
  <2>1. 2 \in Nat
    OBVIOUS
  <2>. QED
    BY <1>5, <1>8, <2>1, WithZeros, Zenon
<1>10. s3 \in Seq(Nat) /\ Len(s3) = 8
  BY <1>8, <1>9 DEF Longer
<1>11. IsJoined(d, s3, f)
  BY <1>1, <1>6, <1>10, JoinedAre, Zenon
<1>12. d \in Seq(Nat) /\ Len(d) = 14 + a + r + p + c
  BY <1>1, <1>10, <1>11 DEF IsJoined
<1>13. \A i \in 1 .. 6 + a + r + p + c : d[8 + i] = f[i]
  BY <1>1, <1>10, <1>11 DEF IsJoined
<1>14. Number(d, 8, 2) = a
  <2>1. 1 \in 1 .. 6 + a + r + p + c /\ 2 \in 1 .. 6 + a + r + p + c
    OBVIOUS
  <2>2. d[8 + 1] = f[1] /\ d[8 + 2] = f[2]
    BY <1>13, <2>1
  <2>3. Number(d, 8, 2) = d[8 + 1] + Radix * d[8 + 2]
    BY DEF Number
  <2>4. f[1] + Radix * f[2] = a
    BY DEF HasFields
  <2>. QED
    BY <2>2, <2>3, <2>4
<1>15. Number(d, 10 + a, 1) = r
  <2>1. 3 + a \in 1 .. 6 + a + r + p + c /\ 8 + (3 + a) = (10 + a) + 1
    OBVIOUS
  <2>2. d[(10 + a) + 1] = f[3 + a]
    BY <1>13, <2>1
  <2>. QED
    BY <2>2 DEF Number, HasFields
<1>16. Number(d, 11 + a + r, 1) = p
  <2>1. 4 + a + r \in 1 .. 6 + a + r + p + c /\ 8 + (4 + a + r) = (11 + a + r) + 1
    OBVIOUS
  <2>2. d[(11 + a + r) + 1] = f[4 + a + r]
    BY <1>13, <2>1
  <2>. QED
    BY <2>2 DEF Number, HasFields
<1>17. Number(d, 12 + a + r + p, 2) = c
  <2>1. /\ 5 + a + r + p \in 1 .. 6 + a + r + p + c /\ 8 + (5 + a + r + p) = (12 + a + r + p) + 1
        /\ 6 + a + r + p \in 1 .. 6 + a + r + p + c /\ 8 + (6 + a + r + p) = (12 + a + r + p) + 2
    OBVIOUS
  <2>2. d[(12 + a + r + p) + 1] = f[5 + a + r + p] /\ d[(12 + a + r + p) + 2] = f[6 + a + r + p]
    BY <1>13, <2>1
  <2>3. Number(d, 12 + a + r + p, 2) = d[(12 + a + r + p) + 1] + Radix * d[(12 + a + r + p) + 2]
    BY DEF Number
  <2>4. f[5 + a + r + p] + Radix * f[6 + a + r + p] = c
    BY DEF HasFields
  <2>. QED
    BY <2>2, <2>3, <2>4
<1>18. ASSUME Len(d) - 6 < Radix * Radix PROVE Number(d, 4, 2) = Len(d) - 6
  <2>1. Len(d) - 6 = n
    BY <1>1, <1>2, <1>12
  <2>2. s2[4 + 1] + Radix * s2[4 + 2] = n
    BY <1>3, <1>7, <1>18, <2>1 DEF EndsWith
  <2>3. 4 + 1 \in 1 .. 6 /\ 4 + 2 \in 1 .. 6
    OBVIOUS
  <2>4. \A i \in 1 .. 6 : d[i] = s2[i]
    <3>1. \A i \in 1 .. 6 : s3[i] = s2[i]
      BY <1>8, <1>9 DEF Longer
    <3>2. \A i \in 1 .. 8 : d[i] = s3[i]
      BY <1>10, <1>11 DEF IsJoined
    <3>3. \A i \in 1 .. 6 : i \in 1 .. 8
      OBVIOUS
    <3>. QED
      BY <3>1, <3>2, <3>3
  <2>5. d[4 + 1] = s2[4 + 1] /\ d[4 + 2] = s2[4 + 2]
    BY <2>3, <2>4, Zenon
  <2>6. Number(d, 4, 2) = d[4 + 1] + Radix * d[4 + 2]
    BY DEF Number
  <2>. QED
    BY <2>1, <2>2, <2>5, <2>6
<1>19. Field(d, 8, 2) = [at |-> 8 + 2, len |-> a]
  <2>1. 8 \in Nat /\ 2 \in {1, 2} /\ 8 + 2 + a <= Len(d)
    BY <1>12
  <2>. QED
    BY <1>12, <1>14, <2>1, FieldIs, ZenonT(60)
<1>20. Field(d, 10 + a, 1) = [at |-> (10 + a) + 1, len |-> r]
  <2>1. 10 + a \in Nat /\ 1 \in {1, 2} /\ (10 + a) + 1 + r <= Len(d)
    BY <1>12
  <2>. QED
    BY <1>12, <1>15, <2>1, FieldIs, ZenonT(60)
<1>21. Field(d, 11 + a + r, 1) = [at |-> (11 + a + r) + 1, len |-> p]
  <2>1. 11 + a + r \in Nat /\ 1 \in {1, 2} /\ (11 + a + r) + 1 + p <= Len(d)
    BY <1>12
  <2>. QED
    BY <1>12, <1>16, <2>1, FieldIs, ZenonT(60)
<1>22. Field(d, 12 + a + r + p, 2) = [at |-> (12 + a + r + p) + 2, len |-> c]
  <2>1. 12 + a + r + p \in Nat /\ 2 \in {1, 2} /\ (12 + a + r + p) + 2 + c <= Len(d)
    BY <1>12
  <2>. QED
    BY <1>12, <1>17, <2>1, FieldIs, ZenonT(60)
<1>23. /\ 8 + 2 = 10 /\ (10 + a) + 1 = 11 + a /\ (11 + a + r) + 1 = 12 + a + r
       /\ (12 + a + r + p) + 2 = 14 + a + r + p
  OBVIOUS
<1>. QED
  BY <1>12, <1>18, <1>19, <1>20, <1>21, <1>22, <1>23 DEF AllFound

\* What AnswerIsFound says of the result of PACE.
Recovered(o, p) ==
  LET d == p.data
      access   == Field(d, 8, 2)
      recent   == Field(d, access.at + access.len, 1)
      previous == Field(d, recent.at + recent.len, 1)
      id       == Field(d, previous.at + previous.len, 2)
  IN p.ok => /\ access.len = o.access /\ recent.len = o.recent
             /\ previous.len = o.previous /\ id.len = o.id
             /\ id.at + id.len = Len(d)
             /\ Len(d) - 6 < Radix * Radix => Number(d, 4, 2) = Len(d) - 6

LEMMA AnswerStaysFound == AnswerIsFound
<1>1. SUFFICES ASSUME NEW o \in [access : 0 .. Radix * Radix, recent : 0 .. Radix,
                                 previous : 0 .. Radix, id : 0 .. Radix * Radix],
                      PaceOutput(o).ok
               PROVE  Recovered(o, PaceOutput(o))
  BY DEF AnswerIsFound, Recovered
<1>2. Radix \in Nat /\ Radix * Radix \in Nat
  BY SecureAssumption
<1>3. PICK a \in Nat : a = o.access
  BY <1>2
<1>4. PICK r \in Nat : r = o.recent
  BY <1>2
<1>5. PICK p \in Nat : p = o.previous
  BY <1>2
<1>6. PICK c \in Nat : c = o.id
  BY <1>2
<1>7. PICK f : f = Word(a) \o Zeros(a) \o <<r>> \o Zeros(r) \o <<p>> \o Zeros(p) \o Word(c) \o Zeros(c)
  OBVIOUS
<1>8. PICK d : d = Zeros(4) \o Word(2 + Len(f)) \o Zeros(2) \o f
  OBVIOUS
<1>9. PaceOutput(o) = [ok |-> /\ a < Radix * Radix /\ r < Radix
                              /\ p < Radix /\ c < Radix * Radix,
                       data |-> d]
  BY <1>3, <1>4, <1>5, <1>6, <1>7, <1>8, Zenon DEF PaceOutput, Zeros
<1>10. a < Radix * Radix /\ c < Radix * Radix /\ PaceOutput(o).data = d
  BY <1>1, <1>9
<1>11. HasFields(f, a, r, p, c)
  BY <1>7, FieldsAre, Zenon
<1>12. AllFound(d, a, r, p, c)
  BY <1>8, <1>10, <1>11, AnswersFound, Zenon
<1>13. PICK x1, x2, x3, x4 : /\ x1 = Field(d, 8, 2)
                             /\ x2 = Field(d, x1.at + x1.len, 1)
                             /\ x3 = Field(d, x2.at + x2.len, 1)
                             /\ x4 = Field(d, x3.at + x3.len, 2)
  OBVIOUS
<1>14. x1 = [at |-> 10, len |-> a]
  BY <1>12, <1>13 DEF AllFound
<1>15. x2 = [at |-> 11 + a, len |-> r]
  BY <1>12, <1>13, <1>14, SMTT(30) DEF AllFound
<1>16. x3 = [at |-> 12 + a + r, len |-> p]
  BY <1>12, <1>13, <1>15 DEF AllFound
<1>17. x4 = [at |-> 14 + a + r + p, len |-> c]
  BY <1>12, <1>13, <1>16 DEF AllFound
<1>18. /\ x1.len = o.access /\ x2.len = o.recent /\ x3.len = o.previous /\ x4.len = o.id
       /\ x4.at + x4.len = Len(d)
       /\ Len(d) - 6 < Radix * Radix => Number(d, 4, 2) = Len(d) - 6
  BY <1>3, <1>4, <1>5, <1>6, <1>12, <1>14, <1>15, <1>16, <1>17 DEF AllFound
<1>. QED
  BY <1>10, <1>13, <1>18, Zenon DEF Recovered

\* Whatever a host puts together for PACE, of any length, is taken apart again, data
\* that were cut off are refused, and an answer that is sent can be taken apart
\* (perform_PC_to_RDR_Secure_EstablishPACEChannel).
THEOREM PaceStaysParsed == Spec => []PaceIsParsed
<1>1. TypeOK => PaceIsParsed
  BY FieldsStayFound, AnswerStaysFound DEF PaceIsParsed
<1>. QED
  BY <1>1, TypesHold, PTL
=============================================================================
