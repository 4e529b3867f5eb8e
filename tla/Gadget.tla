------------------------------- MODULE Gadget -------------------------------
(***************************************************************************)
(* The USB gadget of the CCID emulation (usb.c, usbstring.c): the thread   *)
(* of endpoint 0, which handles the host's control requests, starts and    *)
(* stops the threads of the other endpoints, and is cancelled by them when *)
(* they fail.  What these threads make of the host's messages is Ccid.     *)
(*                                                                         *)
(* An endpoint file can be open once.  Using the reader after it was       *)
(* released may end the process (process = "crashed") or go unnoticed.     *)
(***************************************************************************)
EXTENDS Integers, Sequences

CONSTANTS
  Devices,     \* sets of the files that gadgetfs may show
  MaxStarts,   \* bound on SET_CONFIGURATION
  TextMax,     \* characters of a string descriptor (126)
  UIntSize     \* number of values of an unsigned int (2^32)

\* There are more numbers than readers.
ASSUME GadgetAssumption == MaxStarts \in Nat /\ TextMax \in Nat /\ UIntSize \in Nat /\ UIntSize > 2

Pairs == 1..MaxStarts
Endpoints == {"source", "sink", "status"}

VARIABLES
  process,          \* "starting", "running", "exited" or "crashed"
  udc,              \* the controller found
  doint,            \* interrupts were asked for
  ep0,              \* what the thread of endpoint 0 does next
  then,             \* and where it goes after stop_io
  cleaning,         \* it was cancelled and runs its cleanup handlers
  leaving,          \* it left its loop
  toEp0,            \* it is being cancelled
  toBulk, toIntr,   \* threads being cancelled
  starts,           \* threads of the bulk endpoints started so far
  ccidThread,       \* the last one, 0 when there is none to stop
  interruptThread,
  bulk, intr,       \* what each thread does next
  fd,               \* the endpoints whose descriptor is known
  open,             \* and those that are open
  reader            \* "valid" or "released"

ep0Vars == <<ep0, then, cleaning, leaving>>
cancels == <<toEp0, toBulk, toIntr>>
handles == <<ccidThread, interruptThread>>
vars == <<process, udc, doint, ep0Vars, cancels, starts, handles, bulk, intr,
          fd, open, reader>>

-----------------------------------------------------------------------------
(* The controllers autoconfig looks for, in this order, with the addresses  *)
(* of their endpoints.                                                      *)

Controller(name, high, in, out, status) ==
  [name |-> name, high |-> high, in |-> in, out |-> out, status |-> status]

OlderControllers ==
  << Controller("net2280",        TRUE,  7, 3, 11),
     Controller("dummy_udc",      TRUE,  7, 3, 11),
     Controller("pxa2xx_udc",     FALSE, 6, 7, 11),
     Controller("goku_udc",       FALSE, 2, 1, 3),
     Controller("s3c2410_udc",    FALSE, 2, 1, 3),
     Controller("sh_udc",         FALSE, 2, 1, 3),
     Controller("omap_udc",       FALSE, 1, 2, 3) >>

NewerControllers ==
  << Controller("musb_hdrc",      TRUE,  1, 1, 3),
     Controller("at91_udc",       FALSE, 1, 2, 3),
     Controller("lh740x_udc",     FALSE, 1, 2, 3),
     Controller("atmel_usba_udc", TRUE,  1, 2, 3),
     Controller("20980000.usb",   TRUE,  1, 2, 3) >>

Controllers == OlderControllers \o NewerControllers
NoController == Controller("none", FALSE, 0, 0, 0)

Autoconfig(present) ==
  LET found == {i \in 1..Len(Controllers) : Controllers[i].name \in present}
  IN IF found = {} THEN NoController
     ELSE Controllers[CHOOSE i \in found : \A j \in found : i <= j]

\* The descriptors that a thread writes when it opens an endpoint: for full
\* speed, and for high speed if the controller has it.
Speeds(c) == IF c.high THEN {"full", "high"} ELSE {"full"}
EpConfig(c, ep) ==
  {<<speed, CASE ep = "source" -> <<"in", c.in>>
              [] ep = "sink"   -> <<"out", c.out>>
              [] ep = "status" -> <<"in", c.status>> >> : speed \in Speeds(c)}

\* The first n endpoints, which the configuration announces.
BuildConfig(c, speed, n) ==
  LET eps == <<"source", "sink", "status">>
  IN UNION {{d \in EpConfig(c, eps[i]) : d[1] = speed} : i \in 1..n}

Announced(c, interrupts) ==
  UNION {BuildConfig(c, speed, IF interrupts THEN 3 ELSE 2) : speed \in Speeds(c)}

-----------------------------------------------------------------------------
(* String descriptors.  Of a byte only its class matters: below 80, the     *)
(* continuation 80..BF, or the first of two, three or four; "ed" begins     *)
(* the surrogates.                                                          *)

Bytes == {"ascii", "cont", "lead2", "lead3", "ed", "lead4"}

\* What is taken for a continuation: the test is for the two highest bits.
Continues(s, i) == i <= Len(s) /\ s[i] \in {"lead2", "lead3", "ed", "lead4"}

Size(byte) == CASE byte = "ascii" -> 1
                [] byte = "lead2" -> 2
                [] byte \in {"lead3", "ed"} -> 3
                [] OTHER -> 0

\* Mutant: the last byte of a character is not tested.
ConvertHasty(s, w) ==
  LET i == w.read + 1
      n == IF i <= Len(s) THEN Size(s[i]) ELSE 0
  IN IF i > Len(s) THEN [w EXCEPT !.read = i, !.state = "end"]
     ELSE IF n = 0 THEN [w EXCEPT !.read = i, !.state = "failed"]
     ELSE IF n = 3 /\ ~Continues(s, i + 1) THEN [w EXCEPT !.read = i + 1, !.state = "failed"]
     ELSE [w EXCEPT !.read = i + n - 1, !.count = @ + 1]

\* One character of utf8_to_utf16le: w.read bytes were read, w.count characters
\* written.
Convert(s, w) ==
  LET i == w.read + 1
      n == IF i <= Len(s) THEN Size(s[i]) ELSE 0
      surrogate == s[i] = "ed" /\ s[i + 1] # "lead2"
  IN IF i > Len(s) THEN [w EXCEPT !.read = i, !.state = "end"]
     ELSE IF n = 0 THEN [w EXCEPT !.read = i, !.state = "failed"]
     ELSE IF n > 1 /\ ~Continues(s, i + 1) THEN [w EXCEPT !.read = i + 1, !.state = "failed"]
     ELSE IF n > 2 /\ (~Continues(s, i + 2) \/ surrogate)
          THEN [w EXCEPT !.read = i + 2, !.state = "failed"]
     ELSE [w EXCEPT !.read = i + n - 1, !.count = @ + 1]

\* usb_gadget_get_string for a string that is in the table.
GetString(s) ==
  LET len == IF Len(s) > TextMax THEN TextMax ELSE Len(s)
      walk[k \in 0..len] ==
        IF k = 0 THEN [read |-> 0, count |-> 0, state |-> "on"]
        ELSE IF walk[k - 1].state = "on" THEN Convert(s, walk[k - 1]) ELSE walk[k - 1]
  IN walk[len]

-----------------------------------------------------------------------------
(* The reader that is emulated.  Readers are numbered from 0; of each, what *)
(* a look at it returns: a card, no card, or an error code, which has the   *)
(* bit for a card ("misread") or has not ("failed").                        *)

Looked == UNION {[0 .. n - 1 -> {"card", "empty", "failed", "misread"}] : n \in 0 .. 2}
Wanted == -1 .. 2
NoReader == -2

First(set) == CHOOSE i \in set : \A j \in set : i <= j
Unsigned(i) == IF i < 0 THEN i + UIntSize ELSE i

\* Mutant: numbers are compared with their sign.
InitializeSigned(wanted, looks, count) ==
  LET found == {i \in DOMAIN looks : looks[i] \in {"card", "misread"}}
      skipped == IF wanted < 0 /\ found # {} THEN First(found) ELSE wanted
      chosen == IF wanted < 0 /\ skipped >= count THEN 0 ELSE skipped
  IN IF count = 0 \/ chosen >= count THEN NoReader ELSE chosen

\* initialize of scutil.c.  The number of the reader has a sign, that of the
\* readers has none.
Initialize(wanted, looks, count) ==
  LET found == {i \in DOMAIN looks : looks[i] \in {"card", "misread"}}
      skipped == IF wanted < 0 /\ found # {} THEN First(found) ELSE wanted
      chosen == IF wanted < 0 /\ Unsigned(skipped) >= count THEN 0 ELSE skipped
  IN IF count = 0 \/ Unsigned(chosen) >= count THEN NoReader ELSE chosen

Count(looks) == CHOOSE n \in 0 .. 2 : DOMAIN looks = 0 .. n - 1

-----------------------------------------------------------------------------
(* Starting.                                                               *)

Init ==
  /\ process = "starting"
  /\ udc = NoController /\ doint \in BOOLEAN
  /\ ep0 = "poll" /\ then = "poll" /\ cleaning = FALSE /\ leaving = FALSE
  /\ toEp0 = FALSE /\ toBulk = {} /\ toIntr = {}
  /\ starts = 0 /\ ccidThread = 0 /\ interruptThread = 0
  /\ bulk = [i \in Pairs |-> "none"] /\ intr = [i \in Pairs |-> "none"]
  /\ fd = {} /\ open = {}
  /\ reader = "valid"

\* main, ccid_initialize and init_device, which may fail for other reasons too.
InitDevice ==
  /\ process = "starting"
  /\ \E present \in Devices, looks \in Looked, wanted \in Wanted :
       /\ udc' = Autoconfig(present)
       /\ process' \in IF udc' = NoController \/ Initialize(wanted, looks, Count(looks)) = NoReader
                       THEN {"exited"} ELSE {"running", "exited"}
  /\ UNCHANGED <<doint, ep0Vars, cancels, starts, handles, bulk, intr, fd, open, reader>>

Running == process = "running"

\* With the process its threads and descriptors are gone.
Ends(how) ==
  /\ process' = how
  /\ ep0' = "poll" /\ then' = "poll" /\ cleaning' = FALSE /\ leaving' = FALSE
  /\ toEp0' = FALSE /\ toBulk' = {} /\ toIntr' = {}
  /\ starts' = 0 /\ ccidThread' = 0 /\ interruptThread' = 0
  /\ bulk' = [i \in Pairs |-> "none"] /\ intr' = [i \in Pairs |-> "none"]
  /\ fd' = {} /\ open' = {} /\ reader' = "valid"
  /\ UNCHANGED <<udc, doint>>

-----------------------------------------------------------------------------
(* The threads of the endpoints.                                           *)

\* ep_config; the file is refused while it is open, and when endpoint 0 is closed.
Opens(ep) ==
  /\ ep \notin open /\ ~cleaning /\ ~leaving
  /\ open' = open \cup {ep} /\ fd' = fd \cup {ep}
DoesNotOpen(ep) == fd' = fd \ {ep} /\ UNCHANGED open

\* close_fd; without a known descriptor the endpoint stays open.
CloseFd(ep) == fd' = fd \ {ep} /\ open' = IF ep \in fd THEN open \ {ep} ELSE open

\* A thread cancelled while it configures an endpoint may leave it open.
Leaves(ep) == UNCHANGED fd /\ open' \in {open} \cup (IF cleaning THEN {} ELSE {open \cup {ep}})

BulkGoes(i, where) == bulk' = [bulk EXCEPT ![i] = where]
IntrGoes(i, where) == intr' = [intr EXCEPT ![i] = where]
BulkRest == UNCHANGED <<process, udc, doint, ep0Vars, toBulk, toIntr, starts, handles, intr>>
IntrRest == UNCHANGED <<process, udc, doint, ep0Vars, toBulk, toIntr, starts, handles, bulk, reader>>

OpenSource(i) ==
  /\ Running /\ bulk[i] = "source"
  /\ \/ Opens("source") /\ BulkGoes(i, "sink") /\ UNCHANGED toEp0
     \/ DoesNotOpen("source") /\ BulkGoes(i, "ended") /\ toEp0' = TRUE
  /\ UNCHANGED reader /\ BulkRest

\* Mutant: that the sink is missing is not told.
OpenSinkQuiet(i) ==
  /\ Running /\ bulk[i] = "sink"
  /\ \/ Opens("sink") /\ BulkGoes(i, "read")
     \/ DoesNotOpen("sink") /\ BulkGoes(i, "close source")
  /\ UNCHANGED <<toEp0, reader>> /\ BulkRest

OpenSink(i) ==
  /\ Running /\ bulk[i] = "sink"
  /\ \/ Opens("sink") /\ BulkGoes(i, "read") /\ UNCHANGED toEp0
     \/ DoesNotOpen("sink") /\ BulkGoes(i, "close source") /\ toEp0' = TRUE
  /\ UNCHANGED reader /\ BulkRest

\* A read or write that fails, an empty message, and a message that ccid.c does
\* not answer end the loop.
BulkAborts(i) ==
  /\ Running /\ bulk[i] \in {"read", "parse"}
  /\ BulkGoes(i, "close ccid") /\ toEp0' = TRUE
  /\ UNCHANGED <<fd, open, reader>> /\ BulkRest

BulkReads(i) ==
  /\ Running /\ bulk[i] = "read" /\ i \notin toBulk /\ "sink" \in fd
  /\ BulkGoes(i, "parse")
  /\ UNCHANGED <<toEp0, fd, open, reader>> /\ BulkRest

\* ccid_parse_bulkout, and the answer is written.
BulkAnswers(i) ==
  /\ Running /\ bulk[i] = "parse" /\ "source" \in fd
  /\ BulkGoes(i, "read")
  /\ UNCHANGED <<toEp0, fd, open, reader>> /\ BulkRest

BulkCancelled(i) ==
  /\ Running /\ i \in toBulk
  /\ \/ bulk[i] = "source" /\ Leaves("source") /\ BulkGoes(i, "ended")
     \/ bulk[i] = "sink" /\ Leaves("sink") /\ BulkGoes(i, "close source")
     \/ bulk[i] \in {"read", "parse"} /\ UNCHANGED <<fd, open>> /\ BulkGoes(i, "close ccid")
  /\ UNCHANGED <<toEp0, reader>> /\ BulkRest

\* The cleanup handlers of the bulk thread.
CloseCcid(i) ==
  /\ Running /\ bulk[i] = "close ccid"
  /\ reader' = "released"
  /\ BulkGoes(i, "close sink")
  /\ UNCHANGED <<toEp0, fd, open>> /\ BulkRest

BulkCloses(i) ==
  /\ Running
  /\ \/ bulk[i] = "close sink" /\ CloseFd("sink") /\ BulkGoes(i, "close source")
     \/ bulk[i] = "close source" /\ CloseFd("source") /\ BulkGoes(i, "ended")
  /\ UNCHANGED <<toEp0, reader>> /\ BulkRest

\* Whether the status endpoint was opened is not looked at.
OpenStatus(i) ==
  /\ Running /\ intr[i] = "status"
  /\ Opens("status") \/ DoesNotOpen("status")
  /\ IntrGoes(i, "check")
  /\ UNCHANGED toEp0 /\ IntrRest

\* The thread ends, and leaves its endpoint open, if the bulk thread has not yet
\* opened its own.
ChecksSource(i) ==
  /\ Running /\ intr[i] = "check"
  /\ IntrGoes(i, IF "source" \in fd THEN "first look" ELSE "ended")
  /\ UNCHANGED <<toEp0, fd, open>> /\ IntrRest

\* Nothing changed, or the host is told of it.
Looks(i) ==
  /\ Running /\ intr[i] = "first look" /\ i \notin toIntr
  /\ IntrGoes(i, "look")
  /\ UNCHANGED <<toEp0, fd, open>> /\ IntrRest

\* The write fails; it does when the status endpoint is not there.
IntrAborts(i) ==
  /\ Running /\ intr[i] \in {"first look", "look"} /\ i \notin toIntr
  /\ IntrGoes(i, "close status") /\ toEp0' = TRUE
  /\ UNCHANGED <<fd, open>> /\ IntrRest

IntrCancelled(i) ==
  /\ Running /\ i \in toIntr
  /\ \/ intr[i] = "status" /\ Leaves("status") /\ IntrGoes(i, "ended")
     \/ intr[i] \in {"first look", "look"} /\ UNCHANGED <<fd, open>> /\ IntrGoes(i, "close status")
  /\ UNCHANGED toEp0 /\ IntrRest

CloseStatus(i) ==
  /\ Running /\ intr[i] = "close status"
  /\ CloseFd("status") /\ IntrGoes(i, "ended")
  /\ UNCHANGED toEp0 /\ IntrRest

\* ccid_parse_bulkout, ccid_shutdown and detect_card_presence use the reader; the
\* first look of the interrupt thread enlarges a buffer it has not got.
UsesReader ==
  \/ \E i \in Pairs : bulk[i] \in {"parse", "close ccid"} \/ intr[i] \in {"first look", "look"}

MisusesReader ==
  /\ Running
  /\ (reader = "released" /\ UsesReader) \/ \E i \in Pairs : intr[i] = "first look"
  /\ Ends("crashed")

-----------------------------------------------------------------------------
(* Endpoint 0.                                                             *)

Ep0Rest == UNCHANGED <<process, udc, doint, starts, intr, bulk, fd, open, reader>>
Ep0Goes(where) == ep0' = where /\ UNCHANGED <<then, cleaning, leaving>>
Stops(next) == ep0' = "bulk" /\ then' = next
Polls == Running /\ ep0 = "poll"

\* Mutant: a thread is awaited and not told to stop.
StopIoSilent ==
  /\ Running
  /\ \/ /\ ep0 = "bulk"
        /\ Ep0Goes(IF ccidThread = 0 THEN "interrupt" ELSE "join bulk")
        /\ UNCHANGED toIntr /\ toBulk' = toBulk \cup ({ccidThread} \ {0})
     \/ /\ ep0 = "interrupt"
        /\ Ep0Goes(IF interruptThread = 0 THEN then ELSE "join interrupt")
        /\ UNCHANGED <<toBulk, toIntr>>
  /\ UNCHANGED <<toEp0, handles>> /\ Ep0Rest

\* Mutant: the reader is released before the thread has ended.
StopIoReleases ==
  /\ Running
  /\ \/ /\ ep0 = "bulk"
        /\ Ep0Goes(IF ccidThread = 0 THEN "interrupt" ELSE "join bulk")
        /\ UNCHANGED toIntr /\ toBulk' = toBulk \cup ({ccidThread} \ {0})
        /\ reader' = IF ccidThread = 0 THEN reader ELSE "released"
     \/ /\ ep0 = "interrupt"
        /\ Ep0Goes(IF interruptThread = 0 THEN then ELSE "join interrupt")
        /\ UNCHANGED <<toBulk, reader>> /\ toIntr' = toIntr \cup ({interruptThread} \ {0})
  /\ UNCHANGED <<process, udc, doint, toEp0, starts, handles, bulk, intr, fd, open>>

\* stop_io: the bulk thread first, and its end is awaited.
StopIo ==
  /\ Running
  /\ \/ /\ ep0 = "bulk"
        /\ Ep0Goes(IF ccidThread = 0 THEN "interrupt" ELSE "join bulk")
        /\ UNCHANGED toIntr /\ toBulk' = toBulk \cup ({ccidThread} \ {0})
     \/ /\ ep0 = "interrupt"
        /\ Ep0Goes(IF interruptThread = 0 THEN then ELSE "join interrupt")
        /\ UNCHANGED toBulk /\ toIntr' = toIntr \cup ({interruptThread} \ {0})
  /\ UNCHANGED <<toEp0, handles>> /\ Ep0Rest

Joins ==
  /\ Running
  /\ \/ /\ ep0 = "join bulk" /\ bulk[ccidThread] = "ended"
        /\ ccidThread' = 0 /\ UNCHANGED interruptThread
        /\ toBulk' = toBulk \ {ccidThread} /\ UNCHANGED toIntr
        /\ Ep0Goes("interrupt")
     \/ /\ ep0 = "join interrupt" /\ intr[interruptThread] = "ended"
        /\ interruptThread' = 0 /\ UNCHANGED ccidThread
        /\ toIntr' = toIntr \ {interruptThread} /\ UNCHANGED toBulk
        /\ Ep0Goes(then)
  /\ UNCHANGED toEp0 /\ Ep0Rest

\* start_io; the threads may fail to be created.
StartIo ==
  /\ Running
  /\ \/ /\ ep0 = "start" /\ starts < MaxStarts
        /\ starts' = starts + 1 /\ ccidThread' = starts + 1
        /\ BulkGoes(starts + 1, "source")
        /\ Ep0Goes(IF doint THEN "start interrupt" ELSE "ack")
        /\ UNCHANGED <<intr, interruptThread>>
     \/ /\ ep0 = "start interrupt"
        /\ interruptThread' = starts /\ IntrGoes(starts, "status")
        /\ Ep0Goes("ack")
        /\ UNCHANGED <<starts, bulk, ccidThread>>
     \/ /\ ep0 \in {"start", "start interrupt"}
        /\ Ep0Goes("ack")
        /\ UNCHANGED <<starts, bulk, intr, handles>>
  /\ UNCHANGED <<process, udc, doint, cancels, fd, open, reader>>

Ack ==
  /\ Running /\ ep0 = "ack"
  /\ Ep0Goes("poll")
  /\ UNCHANGED <<cancels, handles>> /\ Ep0Rest

\* USB_REQ_SET_CONFIGURATION: the threads of before are stopped only if one of
\* their descriptors is known by now.
SetConfiguration ==
  /\ Polls /\ starts < MaxStarts
  /\ IF fd = {} THEN Ep0Goes("start") ELSE Stops("start") /\ UNCHANGED <<cleaning, leaving>>
  /\ UNCHANGED <<cancels, handles>> /\ Ep0Rest

SetConfiguration0 ==
  /\ Polls
  /\ Stops("ack") /\ UNCHANGED <<cleaning, leaving>>
  /\ UNCHANGED <<cancels, handles>> /\ Ep0Rest

\* Requests that are answered at once, or stalled.
OtherRequest == Polls /\ UNCHANGED vars

\* A string that is not in the table is looked for behind it.
StringRequestCrashes == Polls /\ Ends("crashed")

\* ccid_parse_control: requests of the class CCID are answered from the
\* descriptor or stalled, and written to the log of the reader's context.
ClassRequest == Polls /\ (UNCHANGED vars \/ (reader = "released" /\ Ends("crashed")))

\* GADGETFS_DISCONNECT.
Disconnect ==
  /\ Polls
  /\ Stops("poll") /\ UNCHANGED <<cleaning, leaving>>
  /\ UNCHANGED <<cancels, handles>> /\ Ep0Rest

\* poll or read fails: endpoint 0 is closed, and its loop left.
Leave ==
  /\ Polls
  /\ Stops("return") /\ leaving' = TRUE /\ UNCHANGED cleaning
  /\ UNCHANGED <<cancels, handles>> /\ Ep0Rest

\* Where it waits, the thread ends and runs its cleanup handlers, which close
\* endpoint 0 and stop the others.  Once it left its loop none are left to run.
Ep0Cancelled ==
  /\ Running /\ toEp0 /\ ~cleaning
  /\ ep0 \in {"poll", "join bulk", "join interrupt", "ack"}
  /\ IF leaving THEN Ep0Goes("gone")
     ELSE Stops("gone") /\ cleaning' = TRUE /\ UNCHANGED leaving
  /\ UNCHANGED <<cancels, handles>> /\ Ep0Rest

\* signothing for SIGINT and SIGQUIT, which only this thread receives.  When the
\* time for the other threads is over the process exits.
Signal ==
  /\ Running /\ ep0 # "gone"
  /\ \/ /\ cleaning /\ Ends("exited")
     \/ /\ ~cleaning /\ toEp0' = TRUE
        /\ UNCHANGED <<process, udc, doint, ep0Vars, toBulk, toIntr, starts, handles, bulk, intr, fd, open, reader>>

\* A cancelled main thread leaves the process to the others.
Exit ==
  /\ Running
  /\ \/ ep0 = "return"
     \/ ep0 = "gone" /\ \A i \in Pairs : bulk[i] \in {"none", "ended"} /\ intr[i] \in {"none", "ended"}
  /\ Ends("exited")

-----------------------------------------------------------------------------
BulkStep(i) ==
  \/ OpenSource(i) \/ OpenSink(i) \/ BulkAnswers(i) \/ BulkCancelled(i)
  \/ CloseCcid(i) \/ BulkCloses(i)

IntrStep(i) ==
  \/ OpenStatus(i) \/ ChecksSource(i) \/ Looks(i) \/ IntrCancelled(i) \/ CloseStatus(i)

Ep0Step == StopIo \/ Joins \/ StartIo \/ Ack \/ Ep0Cancelled \/ Exit

HostStep ==
  \/ SetConfiguration \/ SetConfiguration0 \/ OtherRequest
  \/ StringRequestCrashes \/ ClassRequest
  \/ Disconnect \/ Leave \/ Signal

Next ==
  \/ InitDevice \/ MisusesReader \/ Ep0Step \/ HostStep
  \/ \E i \in Pairs : BulkStep(i) \/ BulkReads(i) \/ BulkAborts(i) \/ IntrStep(i) \/ IntrAborts(i)

Spec == Init /\ [][Next]_vars

\* The scheduler runs every thread, and what the threads call returns.
FairSpec ==
  /\ Spec
  /\ WF_vars(Ep0Step)
  /\ \A i \in Pairs : WF_vars(BulkStep(i)) /\ WF_vars(IntrStep(i))

-----------------------------------------------------------------------------
TypeOK ==
  /\ process \in {"starting", "running", "exited", "crashed"}
  /\ doint \in BOOLEAN
  /\ ep0 \in {"poll", "bulk", "join bulk", "interrupt", "join interrupt", "start",
              "start interrupt", "ack", "return", "gone"}
  /\ then \in {"poll", "start", "ack", "return", "gone"}
  /\ cleaning \in BOOLEAN /\ leaving \in BOOLEAN /\ toEp0 \in BOOLEAN
  /\ toBulk \subseteq Pairs /\ toIntr \subseteq Pairs
  /\ starts \in 0..MaxStarts
  /\ ccidThread \in 0..starts /\ interruptThread \in 0..starts
  /\ bulk \in [Pairs -> {"none", "source", "sink", "read", "parse", "close ccid",
                         "close sink", "close source", "ended"}]
  /\ intr \in [Pairs -> {"none", "status", "check", "first look", "look",
                         "close status", "ended"}]
  /\ fd \subseteq Endpoints /\ open \subseteq Endpoints
  /\ reader \in {"valid", "released"}

\* The reader is the one asked for, or without such a wish the first with a card,
\* or the first if there is no card (ccid.h): the number -1 never gets through.
\* A look that fails before that reader may mislead it.
ReadersAreRight ==
  \A looks \in Looked, wanted \in Wanted :
    LET n == Count(looks)
        chosen == Initialize(wanted, looks, n)
        cards == {i \in DOMAIN looks : looks[i] = "card"}
        best == IF cards # {} THEN First(cards) ELSE 0
    IN /\ chosen \in 0 .. n - 1 \/ (chosen = NoReader /\ (n = 0 \/ wanted >= n))
       /\ wanted \in 0 .. n - 1 => chosen = wanted
       /\ n > 0 /\ wanted < 0 /\ (\A i \in DOMAIN looks : looks[i] # "misread") => chosen = best

\* A gadget that runs has such a reader (initialize, scutil.c:29-79).
ReaderIsChosen == Running => ReadersAreRight

\* While the gadget waits for the host and is not about to end, the endpoints it
\* announced for bulk transfers, at every speed, are those its bulk thread serves
\* or will open: a thread that fails takes the gadget along (autoconfig,
\* build_config, and the error paths of ccid()).
Ending == {"close ccid", "close sink", "close source", "ended"}
AnnouncedIsServed ==
  Running /\ ep0 = "poll" /\ ccidThread # 0 /\ ~toEp0 =>
    /\ bulk[ccidThread] \notin Ending
    /\ EpConfig(udc, "source") \cap EpConfig(udc, "sink") = {}
    /\ Announced(udc, FALSE) = EpConfig(udc, "source") \cup EpConfig(udc, "sink")

\* In its first session the bulk thread works with a reader that was not released
\* (close_ccid is a cleanup handler of this thread, not of stop_io).
FirstSession ==
  starts = 1 /\ bulk[1] \in {"source", "sink", "read", "parse"} => reader = "valid"

\* A string read from the table ends where its bytes end, gives no more
\* characters than there is room for, and none that is not there.
StringsFit ==
  \A n \in 0..(TextMax + 2) : \A s \in [1..n -> Bytes] :
    LET w == GetString(s)
    IN /\ w.read <= n + 1 /\ w.count <= TextMax /\ w.count <= n
       /\ (\A i \in 1..n : s[i] = "ascii") => w.state # "failed" /\ w.count = IF n > TextMax THEN TextMax ELSE n

\* When the host asks for a string, whatever bytes the command line gave for it,
\* its descriptor is read and written within bounds (usb_gadget_get_string).
StringInBounds == Running /\ ep0 = "poll" => StringsFit

\* A thread that nobody can stop any more: another took its place.
Lost ==
  \E i \in 1..starts : \/ i # ccidThread /\ bulk[i] \notin {"none", "ended"}
                       \/ i # interruptThread /\ intr[i] \notin {"none", "ended"}

\* Whatever endpoint 0 is at, it comes back to wait for the host, or the process
\* ends (the joins of stop_io).  Two exceptions: a thread was replaced before it
\* had opened its endpoint, or the cancellation came when the loop was left.
ComesBack ==
  (Running /\ ep0 # "poll") ~> (~Running \/ ep0 = "poll" \/ Lost \/ (leaving /\ toEp0))
=============================================================================
