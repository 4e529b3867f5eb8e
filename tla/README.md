# A TLA+ model of vsmartcard

This directory holds TLA+ modules that model the programs of this repository, TLC
configurations that check them on small instances, and proofs for the TLA+ proof
system.  `PROJECT.json` maps every definition to the lines it models.

    tlc -workers 2 -config link_server.cfg MCVpcdLink
    tlapm IfdSlotsProofs.tla

## 1. The system

vsmartcard emulates smart cards and card readers.  An application talks PC/SC; a
driver (**vpcd**) passes its APDUs over a TCP connection to a process that plays the
card (**vicc**).  The other programs attach to the same places: they are readers
towards a card, or cards towards a reader.

| Part | State | Operations | Talks to |
|---|---|---|---|
| vpcd library (`vpcd.c`, `lock.c`) | `vicc_ctx`: two sockets, a lock | init, exit, eject, connect, present, getatr, poweron, poweroff, reset, transmit | the card process, over TCP |
| ifd-vpcd (`ifd-vpcd.c`) | `ctx[]`, one context per slot; `hostname` | the IFD handlers pcscd calls | vpcd library; pcscd |
| pcsclite-vpcd (`winscard.c`) | reader table, usage counters, share modes, context count | the SCard functions, linked into an application instead of pcscd's | vpcd library |
| BixVReader (`win32/`) | readers, their server threads, lists of waiting I/O requests | UMDF callbacks, a server thread per reader, cancellation, shutdown | vpcd library, TCP or pipes; the smart card service |
| vicc (`VirtualSmartcard.py`) | socket, card operating system | connect or listen, main loop | vpcd; the card |
| card OS, SAM, filesystem (`SmartcardSAM.py`, `SmartcardFilesystem.py`, `SEutils.py`) | files and the current one, PIN counter, last challenge, security environments | ISO 7816-4 commands | each other |
| card types (`cards/`) | as above, with card specific commands | | the card OS |
| pcsc-relay | a reader context and an emulator context | connect, receive command, transmit, send response | PC/SC or vpcd on one side, NFC, OpenPICC or vpcd on the other |
| ccid | a card handle, the host's messages, endpoint files, threads | CCID commands, control requests; a thread for endpoint 0, one for bulk messages, one for notifications | PC/SC or OpenSC; the USB host through gadgetfs |
| TCardEmulator, ACardEmulator, remote-reader | accessory connection; HCE service; worker thread | | the vpcd protocol, the accessory framework, NFC |

What is hard here: TCP delivers a byte stream, so messages arrive in parts and ends of
stream arrive in the middle of them; either process may die and restart; descriptor
numbers are reused; several threads share a context whose lock is a stub on one
platform; slots run in parallel; counters and pointers of the card survive errors in
the middle of a command; reconnects must succeed after every kind of failure.

What makes each part correct:

* vpcd and ifd-vpcd: an answer belongs to the request of the caller that gets it; an
  APDU is executed at most once; nothing stale is left for the next exchange; calls
  return; a card that waits is found; slots do not touch each other's or the host's
  descriptors.
* winscard: who is in a transaction or connects exclusively has the reader alone (with the exception of
  section 3); a card is powered down by its last
  user; what is open is counted; a client that keeps asking learns of a change.
* BixVReader: a request is completed once, with an answer that is true; who waits for a card
  or its removal is told; a cancelled request is forgotten.
* card: a blocked PIN stays blocked; a challenge is used once; the files form a tree, an
  identifier means one file of its DF and a name one DF of the card.
* pcsc-relay, ccid: the response sent up is the response to the command received; a
  lost card or reader is recovered from; removal is reported; what the gadget announced is
  served; endpoint 0 comes back to the host; the PIN that was typed reaches the card.

## 2. Modules

| Module | Models |
|---|---|
| `VpcdLink` | one slot: the calls on a `vicc_ctx`, the TCP connection byte by byte, the card process |
| `CardChannel` | what a slot promises to an application (abstract); `VpcdLink` and `PcscRelay` implement it |
| `MCVpcdLink` | who calls: pcscd one call at a time, or the two threads of the Windows driver |
| `VpcdLinkProofs` | types and mutual exclusion; own answers, nothing left over, power, ejects, refinement of `CardChannel` |
| `IfdSlots`, `MCIfdSlots` | slots, contexts and descriptors of the driver |
| `IfdSlotsProofs` | types, no lost socket; ownership in server mode |
| `PcscRelay`, `MCPcscRelay` | the loop of pcsc-relay between emulator and card; two configurations of it in one run |
| `PcscRelayProofs` | types; each command relayed once and answered with its own answer; refinement of `CardChannel` |
| `Ccid` | the bulk and interrupt threads of ccid on one card handle |
| `CcidSecure` | what the command PC_to_RDR_Secure makes of PINs, PIN blocks, the fields of a PACE request and those of its answer |
| `MCCcid` | both together |
| `CcidProofs` | types; handle and data of the known card, removal and change reported; PIN blocks and PACE fields |
| `Gadget` | the USB gadget around `Ccid`: choice of reader and controller, control requests, start and end of the threads, strings |
| `GadgetProofs` | types; the reader of the first session, what was announced is served; strings, choice of the reader |
| `CardFiles`, `MCCardFiles` | the file tree of the ISO 7816 card and the current file |
| `CardFilesProofs` | types, the tree, unique identifiers and names, paths |
| `Winscard` | contexts, connections, share modes, transactions and status queries of `winscard.c` |
| `WinscardProofs` | types and counters; transactions, power and channels |
| `BixReader` | a reader of the Windows driver: its server thread, requests, cancellation and shutdown |
| `BixReaderProofs` | requests are completed once and told the truth; the protocols of an ATR |

### VpcdLink

`client_sock` and `io_lock` are the fields of `struct vicc_ctx`; `open` says whether it
exists.  A caller `t` has a program counter `pc[t]` in vpcd.c, the operation it runs,
and the locals of `recvFromVICC` and `vicc_transmit`: the descriptor a `recv` was
called with (`sock`), the bytes it asks for (`need`), what it got (`got`) and the return
value (`r`).  `res[t]` is what the IFD handler returned.  One action stands for the
code between two places where another thread or the card can step in: taking the lock,
`send`, calling and returning from `recv`, unlocking, the late eject.

A connection is two queues of bytes and the state of its ends.  A byte is
`<<message, position>>`, so that the model sees when a length is read from the middle
of a message.  What the kernel does is modelled by its outcomes: data may be lost with
a reset, a send to a dead peer succeeds or fails, a listening socket has a queue of
one.  The card process is `vpicc`: where `VirtualICC.run` is, its connection, the size
it has read and the answer it is about to send.

`lastPower` and `execs` are history: the last power command the card executed, and how
often it executed the APDU of the current call.  `seq` gives the commands of a caller
numbers that are not in use on the wire any more, so that histories of different calls
are not confused; the program has no such numbers.

`CardChannel` describes an APDU from the application's point of view: sent, executed at
most once, answered with its own answer or failed.  `ImplementsChannel` is the refinement.

### IfdSlots

`fdt` is the descriptor table of pcscd.  An entry says what a descriptor really is (a
listening socket or connection of a Lun, something else, nothing), whereas
`client_sock` and `server_sock` are the numbers in the contexts.  `pc` and `tmp` keep
a handler that is inside `connectsock`, where other slots may take a step; the other
handlers are one step each.  pcscd may open and close descriptors of its own at any
time.  `reached` records whose card got the last message of a slot.

### PcscRelay

`pc` is where `main` is: `reopen` is the loop after a failed receive and `resend` the one
after a failed send.  `buf` stands for `buf` and `buflen` together: the number of the
C-APDU they hold, `None` for a length of 0, `Garbled` when a control message was received
over a C-APDU whose length was kept.  A connection that ends, in order or by a reset, gives a
C-APDU of length 0 (`ReceiveEnd`): `r < sizeof size` (`vpcd.c:270`) compares unsigned, so that the -1
of a reset passes, and the second `recv` returns 0.  Only a socket that is closed already fails
both times (`ReceiveError`).  The size that `realloc` is given then was never read; the model takes
`buf` to keep its bytes, as it does unless it shrinks.  Sends fail only after a reset
(`link.rst`): the kernel sends one for data that nobody reads any more, and `EmuResets` is an emulator
whose end resets the connection, as Windows does for a process that is killed.  `out` is `outputBuffer`, `held` says that some
context of the process listens on `viccport`, and `link` is the connection of the newest
one.  The emulator is another vpcd: `emu` is what it does, `seq` the number of its last
C-APDU and `got` what that was answered with.  `execs` counts what the card was given.

`Driver` chooses the two modes of `vicc.c`, `Connector` between `vpcd-driver.c` and
`pcsc.c`.  `Polite` describes the emulator, which is outside this program: when it is true
the emulator hangs up only between exchanges.  Messages arrive whole; what parts of a
message do is the subject of `VpcdLink`, whose functions the drivers call.  That a port
cannot be listened on twice is the behaviour of Linux.

### Ccid

`card` and `skipfirst` are the static variables of ccid.c.  `pc` is where the bulk thread is
between two places where the interrupt thread or the user of the reader can step in; `held` is
the value of `card` it has read last, because a handler may read the variable again or have
it in a register (`Reads`).  A card is named by the insertion it came with, and a handle by
the card it was made for, so that a stale handle is one whose number is not in `slot`.
`data` is whose answer or ATR a message carries; `seen`, `status`, `iseen`, `oldPresent` and
`changed` are what the threads make of a look at the reader.  `latch` is the one change the
driver keeps until it is asked; `owed` is history and names the thread it was given to.
`atr` and `gone` are what the host knows.  The reader driver is external: a look returns
the flags of the slot or an error whose low bits are arbitrary.  When an endpoint loop ends
it cancels ep0 and with it the program: `up`.

### CcidSecure

A byte of the APDU is named by where it comes from (`Source`): the host, a digit of the current or
the new PIN, a length, or nobody.  `PinBlock` follows the steps of `perform_PC_to_RDR_Secure`, each of which is taken if the one before it succeeded; `PaceInput` those of
`perform_PC_to_RDR_Secure_EstablishPACEChannel`.  When these run is a matter of `Ccid` (the points
`prompt` and `pace` of the bulk thread), and `MCCcid` asks there whether the block and the fields
are right for every request.

### Gadget

`ep0` is what the thread of endpoint 0 does next and `then` where it goes after `stop_io`; `bulk[i]`
and `intr[i]` are the threads of the i-th SET_CONFIGURATION, and `ccidThread` and `interruptThread` the
two that can still be stopped, as in the static variables of these names.  `toEp0`, `toBulk` and `toIntr` are
pthread_cancel calls that have not taken effect; a thread takes them where the code has a
cancellation point and goes through its cleanup handlers from there (`close ...`).  `fd` holds the
endpoints whose static descriptor says that they are open, `open` those that are.  What the threads do
with messages is `Ccid`; here it may fail at any time.  `Autoconfig`, `BuildConfig` and `Announced`
compare what the configuration descriptor says with what the threads open; `Convert` is one turn of
the loop of `utf8_to_utf16le`; `Initialize` is the choice of the reader in `scutil.c`.

### CardFiles


Files have numbers in the order of their creation, which is also the order of every list the
program appends them to; so `content[d]` and `named` are sets, and the first hit of a search is
the smallest number.  `attr` holds what a file was created with and `parent` its attribute of
this name; both stay when the file is deleted, because `MF.current`, `named_dfs` and its own
children still refer to it.  `current` is `MF.current`.

An action is a command: `SelectFile`, `DeleteFile`, `CreateFile`, and for the commands on data
the selection they make before they look at the file (`BinaryPlain`, `BinaryEncapsulated`,
`Record`, `DataEncapsulated`), which stands also when they then fail.  A command answered
with an error before anything has changed is no step.  Where the code raises something else
than `SwError`, which `execute` does not catch, the process ends (`Die`).  A name is a
member of a set, and `StartsWith` says which names it starts with; a path is a sequence of
identifiers; file parameters say what the command gives and `Arguments` what the constructors
get.  Identifiers are two octets with a first octet that is not zero (`Fids`), since `_selectFile`
compares the others in one octet.

### Winscard

The three static variables `context_count`, `usage_counter` and `dwShareMode` (two fields of the reader
table) and `cancel_status` keep their names.  `contexts`, `holders`, `left`, `begun`, `sole` and `shared` say what the clients have
been granted, which the program does not keep: the properties compare the two.  `begun` is the client
whose transaction runs, `sole` the one that connected or reconnected in exclusive mode: it stays so until
it disconnects, reconnects in another mode or releases its context, whatever transactions it ends.
`shared` says that one of these had a disposition that lets others in.  `power` flips
whenever a card is reset or powered down.  Every call is one step, except SCardGetStatusChange, which
sleeps between its rounds (`query`).  Clients keep to the interface (the module says how), since the
library trusts them with its handles.

### BixReader

One reader of the device, for each of the three kinds (`backend`).  `pnp` is where the device is between
D0Entry and the end of a shutdown.  A request has a thread of its own, as the framework hands requests
over in parallel: `pc[r]` says where the handler is, `wdf[r]` what the framework knows of the request,
`answer[r]` and `times[r]` with what and how often it was completed.  `waitRemoveIpr` and
`waitInsertIpr` are the lists.  The server thread is `Server`; the card's side is
`link`, `card` and `events`.  One exchange on a channel is one step, whoever
makes it.  Using a request that was completed or a reader that was deleted may end the host
process, which the framework starts anew (`Crash`), or go unnoticed.

## 3. Runs

| Run | What it asks |
|---|---|
| `link_server` | default mode, a card that dies at any byte, called by pcscd or by two threads under a working lock: own answers, refinement of `CardChannel`; with pcscd power up reaches the card and only dead connections are dropped |
| `link_live` | both modes under fairness: nothing stale is left, calls return, a waiting card is found |
| `slots` | two slots that listen or connect: ownership of descriptors, no socket lost, commands to the own card, no dangling context, no foreign descriptor closed |
| `relay` | a relay that listens for an emulator that hangs up at any time, with a virtual card, and one that connects to an emulator that reads its answers, with a PC/SC card: commands relayed once, refinement of `CardChannel`; in the second a waiting emulator is answered or dropped, and served again after an error |
| `ccid_threads` | both threads, cards exchanged at any point, a driver that may fail: handle and data are those of the card whose ATR the host has, a card reported gone is out of reach, insertions are told, commands are answered, PIN blocks, and PACE fields and answers, are right |
| `gadget` | two configurations, failing endpoints, cancellation and signals at any point: what was announced is served or the gadget ends, the first session has its reader, endpoint 0 comes back; strings and the choice of the reader |
| `card_files` | files created one and two at a time, deleted, and selected in every way: one tree, unique identifiers and names, and the path of a file leads to this file |
| `winscard` | two clients in every order of calls: a client is alone with a reader while its transaction runs, and with one it connected to exclusively, unless it ended a transaction with one of two dispositions; only the last client powers a card down, channels stay, a client that keeps asking is told of a change |
| `bix` | two requests and the three kinds of readers, with a card that comes and goes, cancellation and shutdown at any point: completed once, with true answers, a removal is told; protocols are read from the ATR |

The type invariants of six modules are proved, and were checked once with these runs; they are not
listed again.

These runs end in a counterexample, on a property the code or its documentation states:

| Run | What it shows |
|---|---|
| `link_short` | a message that arrives in two pieces is executed as two commands |
| `relay_replay` | the emulator resets the connection before it is answered, the failed send closes the socket, the reconnect takes a closed socket for a connection, and the receive that fails on it leaves the last command in `buf`: it is executed again |
| `bix_cancel` | a cancelled request stays in the list it waited in, since no request is ever told its reader (`device.cpp:378`): the next event takes it from there after its completion |

Other deviations the models contain, not kept as runs of their own:

* With a hostname, `CommandsReachOwnCard` fails (so it speaks of server mode in the run): `connectsock`
  closes the socket of a failed connect and returns its number (`vpcd.c:174`), and when another
  slot is given this number the first one talks to the other one's card.
* `HostReconnects` is false of a relay that listens (`Driver = "listen"`): the first context of the relay still holds
  the port when the loop makes a new one (`pcsc-relay.c:226`).
* An answer cut short by the end of a connection is reported as `IFD_SUCCESS`
  (`ifd-vpcd.c:446-459`): `res[t]` of a transmit is then `SUCCESS` with part of the answer.
* In reversed mode the card process ends when its reader goes away with an answer under way
  (`CardReplies`, `CardRecvLength`), where `vicc.in:60` speaks of waiting.
* `CallsReturn` fails with `WindowsDriver`: the eject that follows the unlock lets the poller
  replace the connection between the send and the `recv` of the other caller.
* `HostAnsweredOrDropped` is false with `Connector = "vicc"`: a virtual card that goes before its
  answer is taken for an answer of no bytes, and nothing is sent to the emulator.
* A card taken out between the last look of one call of `get_RDR_to_PC_NotifySlotChange` and the
  first look of the next is never notified: the driver reports only insertions as changes, and
  the two looks of a call agree.  `InsertionIsTold` speaks of insertions for this reason.
* While a card is present the host is notified every ten seconds although nothing changed
  (`NotifySecond`), where `usb.c:896` says "don't bother host, when nothing changed".
* The first eleven answers say that there is no card (`Skip`), whatever is in the reader.
* GetParameters does not set the length of its answer (`Answer`).
* A power-on without a card, or with one that cannot be connected to, writes through the handle it
  did not get (`Mark`, `ccid.c:465`), where `ccid.c:472` goes on to answer with a status.
* A deleted file stays current, and a deleted DF can still be selected by its name and be created
  files in (`DeleteFile`); its name stays taken.  `DF.remove`, which takes both into account, is
  not used.
* With the next occurrence of a DF name, the place of the current DF among the files of the MF is
  taken for its place among the named DFs (`Candidates`, `SmartcardFilesystem.py:710`), although
  `DF.select` asks for "the index of the current file"; the last and the previous one end
  the process under Python 3 (`LooksBack`), and so do deleting a file twice, deleting the MF, and a
  record command on the short identifier of another kind of file.
* A second file in a CREATE FILE command inherits a name or short identifier it is not given
  (`Arguments`), and when it is refused the first one stays.
* READ BINARY and the like with an odd instruction select by `p1 << (8 + p1)` (`Shifted`).

Of the PIN blocks (`CcidSecure`):

* `encoding = bmFormatString & 2` is 0 or 2 and never BCD: a host that asks for BCD gets binary digits.
* Neither the offset of the PIN nor that of the new one is used when it is written: in a modification
  with the current PIN the new one overwrites it.  The length of the PIN goes to byte 0, over the first
  digit, and its offset is ignored.  `PinReachesCard` says what remains true.
* Without data of the host the block is sized by the new PIN, and a longer current one is refused.
* Without data of the host the block is as large as the field for the length, if that is larger than the PIN
  (`DataSize`).  A modification with a PIN of one digit and a length of 9 to 16 bits therefore gives the card a second byte
  that nobody has written: `PinReachesCard` fails with `Limits == {<<1, 1>>}`.
* Aligned to the right, a PIN that is longer than its block begins before it (`Truthful` excludes it).
* The length of the output of PACE is a 16 bit number that wraps when its fields together exceed it;
  `AnswerIsFound` speaks of those that fit.

Of the gadget:

* `interrupt` checks `source_fd` where it means `status_fd` (`usb.c:878`): it may end silently and leave
  its endpoint open, and a status endpoint that was not opened ends the gadget with the next change,
  where the comment at `usb.c:879` says that this is not fatal.
* Every loop of an endpoint that ends cancels endpoint 0 (the `||` of `usb.c:904` and 973), also when it
  was told to end.
* `slotchange` is not initialised: the first look of the interrupt thread may end the process.
* The reader is released with the bulk thread, and used by the interrupt thread, by class requests (their
  log) and by a second session.  `FirstSession` speaks of the first for this reason.
* `stop_io` is skipped in a second SET_CONFIGURATION when no descriptor is known yet (`usb.c:1243`), which
  loses the threads of the first; and a cancellation that comes when the loop was left runs no cleanup
  handler (`usb.c:1524`).  `ComesBack` names these two exceptions.
* A thread that cannot be created leaves the variable of its handle as it was.
* The table of strings has no null entry at its end: an unknown id reads behind it.  Continuation bytes are
  tested for `0xC0` (`usbstring.c:46`), which refuses correct UTF-8, whatever the comment at line 34 says.
* A failed look has an error code whose bits may say that there is a card: this reader is then chosen
  (`scutil.c:57`).

Of `winscard.c`:

* SCardEndTransaction stores its disposition as share mode.  After SCARD_LEAVE_CARD (0) no further
  connection is possible while this one lasts; after SCARD_UNPOWER_CARD or SCARD_EJECT_CARD (2 and 3) others
  may connect, also to a reader that the client is still connected to exclusively.  Without `~shared[r]`,
  `ReservedIsAlone` fails in seven states: connect exclusively, begin, end with SCARD_UNPOWER_CARD,
  and another client connects in shared mode.  The property names this exception, and that nothing
  else takes an exclusive connection away.
* SCardDisconnect gives the connection back before the steps that may fail, and then reports the failure of a
  connection that is gone.
* A query forgets a SCardCancel that was meant for another one; INFINITE is 60 seconds.
* Connections of a released context stay counted until the last context is released.

Of the Windows driver:

* Whether a card is there is found out before the request is put into a list, without a lock
  (`Reader.cpp:41`): a card that comes in between is told with the next change only.  So `RemovalIsTold`
  begins when the request is in its list.
* `startServer` resets `breakSocket` (`VpcdReader.cpp:74`), also when the shutdown has set it before.
  `PipeReader::shutdown` does not stop its thread, and a TCP thread that waits in `recv` outlives it.
* Handlers run while the reader they work on is deleted.
* `dataSection` and `eventSection` are never entered, so that exchanges of two requests may mix.

Bounds.  Two connections are enough for an old and a new one at a time; they are
reused.  `SndBuf = 7` bytes holds a control message and an APDU, or two control
messages, and blocks on more.  Bodies are two bytes (one for control messages): enough to be
read whole, in part or not at all.  `Cuts` is how much of an answer a dying card has
sent: nothing, half a length, a length, a length and half a body.  Five numbers
(`Numbers`) tell apart all the commands that can be under way at once.  Two slots, and
five descriptors of which pcscd holds any, let a number pass from one slot to the other.
The emulator of `PcscRelay` has at most two messages under way and three command numbers:
the current command, the one before, and one that is neither.
`Ccid` has two insertions (a card and the one it is exchanged for, at any point) and one failed
look; `SkipFirst = 0` lets one answer go without a look instead of eleven.
`CardFiles` has four files (`MaxFiles`): a DF in a DF with two files, or a DF deleted and made again
beside what is left of the old one, with two identifiers, one short identifier and two names that
all of them compete for; a search goes at most two DFs down.
`MCCcid` tries PINs of two or three digits and of exactly four (`Limits`) in blocks of up to `MaxData`
bytes, and PACE fields of every length below `Radix` and descriptions up to twice that, whole and cut off at every byte.
`Gadget` has two configurations (`MaxStarts`): the one that works and one that comes in addition or
after it; the strings are one and two bytes longer than their table entry (`TextMax = 3` instead of 126), which
reaches every length at which the loop ends; `UIntSize = 16` instead of 2^32 for three reader numbers: what counts is
that no reader has the number an unsigned -1 is, so `GadgetAssumption` asks for more numbers than readers.
`Winscard` has two clients and one reader, as every rule is about one reader and a pair of clients; three
connections (`MaxUse`) let one be left by a released context beside the two.  `BixReader` has two
requests, one that waits for a card or its removal and one of any kind (`Commands`), one start, and three
steps of the card's side (`MaxMoves`): it comes, goes and comes again.  `bix_cancel` needs one request.

Fairness.  In `PcscRelay`, `FairSpec` says that the relay process runs, that the emulator
reads what has arrived and that it notices a closed connection; the card, the signals and
what the emulator asks are free.  In
`Ccid`, both threads run and the user of the local reader answers a PIN prompt; the host and the
cards are free.  In `VpcdLink`, `FairSpec` assumes that the operating system runs every caller and the card
process, and that a caller waiting for the lock gets it if it is free again and again.
`PollingSpec` adds what pcscd does: it keeps the channel open and polls for the card.  No fairness is assumed of anything that dies, starts or calls on its own account.  In `Winscard` threads are
scheduled and a client that has a context asks again.  In `BixReader` every thread runs, the framework makes
the callbacks it owes and goes on with a shutdown; the card, cancellations and new
requests are free.  In `Gadget` the threads run, and what they call returns; that a host sends
messages (`BulkReads`), that an endpoint fails and that there is a signal is not assumed.

`LockWorks = TRUE` is lock.c on Windows.  On other systems the lock is a stub
(`LockWorks = FALSE`), and with two callers of one context `AnswerIsOwn` fails; pcscd
serialises the calls of a slot, which the runs with one caller describe.

## 4. Proofs

`IfdSlotsProofs` holds for any finite or infinite number of slots and descriptors, from
`SlotsAssumption` (a Lun has a slot number of its own, i.e. one reader per library).

* `TypesHold`, `NoSocketIsLost`: both modes.  `NoneLost` is inductive together with
  `InConnect`, which says that only a handler inside `connectsock` holds a descriptor
  that is not yet in its context, and that the context is empty until it is stored.
* `ServerSocketsAreOwn`, `ServerCommandsReachOwnCard`, `ServerNoDanglingContext`,
  `ServerLeavesOthersAlone`: with no hostname.  The invariant is the conjunction
  `ServerInv`: a descriptor in a context is open and belongs to this context, so an
  eject frees only what is the slot's own and a close never fails.  With a hostname this
  is false (section 3).

`VpcdLinkProofs` holds for any callers, connections, buffers and choice of operations.

* `LinkTypesHold`: `TypeOK`, strengthened by `CardOK` (a card process at work has a
  connection; one that replies has an answer), without which a step of the card could
  leave the types.
* `OneInside`: with a working lock, at most one caller is between lock and unlock; from
  `HolderInside`, which ties `pc` to the owner of the lock.

The others need two hypotheses.  `~Short`: messages arrive whole.  `CallsExcluded`: the lock works, or
the host calls one handler at a time, as pcscd does.  Each is necessary: `link_short` is the
counterexample without the first, and `AnswerIsOwn` fails with two callers and a stub of a lock.  Their common invariant
is `Linked`, whose part `LinkInv` says what may be on the wire and in the card while a caller waits:

* `NetInv`: to which ends of the connections the context and the card still belong;
* `FramesInv`: the card reads whole commands from the start, so that the length it has read is that of the
  body before it;
* `AnswersInv`: what may arrive at a caller is what it waits for, the header or body of the answer to its own
  request, whether that is still a command, in the card, or on its way back; and a connection nobody waits at is quiet;
* `GotInv`: what was received is the caller's own.

It is far stronger than what is claimed, because a failed exchange must leave nothing that the next one could
take for its answer, wherever card, reader or process died.

* `EveryAnswerIsOwn`, `NothingIsLeft`: from `Linked`.
* `LinkImplementsChannel`: the refinement of `CardChannel`.  `OnceInv` adds that a command that is still on the wire
  was not executed and that one that is answered was executed once, also when an exchange
  fails at any byte and the connection is given up.
* `OnlyDeadIsEjected`: an action property, from `DeadInv`: once an exchange has failed without refusing its message, the card has
  left the connection before the eject comes to it.
* `PoweredCardAnswers`: from `PowerInv`, which follows the power command over the wire and says that no other one comes between
  it and the ATR.

The last two speak of one caller, as their properties do (`OneCaller`).

`PcscRelayProofs` holds for both modes and connectors.

* `RelayTypesHold`: `TypeOK`.
* `InOrderRelaysOnce`, `InOrderAnswersOwn`: under `InOrder` (the relay listens, or the
  emulator is polite).  The invariant `SessionInv` has three parts: `EmuInv` relates what
  the emulator does to its end of the link, `QueueInv` says that at most one answer and
  one command of the current number are under way, `LoopInv` says what `buf` and `out` may
  hold at each place of the loop.  With a polite emulator a C-APDU is not kept in `buf`
  beyond the connection it came over; a relay that listens has no second connection.
  `relay_replay` shows what happens when neither is so.
* `RelayImplementsChannel`: under the same condition every step of the relay, its links and its emulator is a step of
  `CardChannel` or none.  Over `SessionInv` it needs `ExecInv`: an answer that is about to be sent, or on its
  way to an emulator that waits, was computed by the card.

`CcidProofs` holds for any number of insertions, faults and skipped looks.  `IInv` has four parts.

* `HandleInv` for `HandleStaysKnown`: `card` may be a card the host has no ATR of only while
  the power-on that will give it is at work.
* `DataInv` for `DataStaysOfKnownCard`: what a handler holds is the known card or nothing, also
  after the other thread has cleared `card` behind its back.
* `GoneInv` for `GoneStaysGone`: an answer that reports no active card has no handle left, and only
  a power-on can make one.
* `ToldInv` for `NoChangeIsDropped`: where the bit of a change is, from the look to the message.

The two properties of `CcidSecure` are about what a request is turned into, for PINs, blocks and data of any length:

* `PinReachesTheCard`: through the five steps of the PIN block.  Each lemma says what a step leaves of the bytes before it;
  that no byte is unset is then a matter of which positions the steps cover.  It needs `PinsAreLong`: PINs have two
  digits at least.  The hypothesis is sharp (section 3: with PINs of one digit TLC finds the property violated).
* `PaceStaysParsed`: the lengths in front of the fields say where each ends, whatever the radix of a
  length, and a request that was cut off anywhere is refused.

`CardFilesProofs` holds for any number of files and any file parameters, paths, names and P1-P2.
Every command is one of four steps (`StepKinds`): end, select, delete, append.  The invariant
`IInv` is the conjunction of what is claimed:

* `TypesHold` and `FilesFormATree` need each other: that the current DF exists and is a DF
  (`CurrentDFIsDF`) follows from the parents, and new files get it as their parent.
* `IdentifiersAreUnique`, `NamesAreUnique`: `DF.append` compares a new file with those of its DF and
  with all named ones; `AppendedFacts` adds what it compares of two new files with each other.

* `PathsLeadToTheirFile`: for an attached file, `Walk` along `PathOf` finds the file, and no other with the same identifier, since
  identifiers are unique and `Walk` takes the first hit.

`WinscardProofs` holds for any finite number of clients and any readers, timeouts and `MaxUse`.

* `EverythingIsCounted`: `TypeOK` and `Counted`, that the counters say what is open; every other theorem rests on it, since the
  code recognises who is alone with a reader by its counter only.
* `ReservedReadersAreAlone`: with `Reserved`, that a client in a transaction is the one counted connection of a
  reader in exclusive mode, that an exclusive connection which was not opened to others is the one
  counted, in that mode or after SCARD_LEAVE_CARD in none, and that a reader with two connections is not in
  exclusive mode.
* `LastOnePowers`, `ChannelsStayOpen`: action properties from the same invariant, which also needs that
  a connected client has a context (`HoldersHaveContext`).

`GadgetProofs` holds for any number of configurations, any sets of controllers and any lengths.

* `FirstSessionHasReader`: from `FirstReader` and `NotStarted`; a second thread exists only after a second
  configuration was counted.
* `AnnouncedStaysServed`: from `ServeInv`, that a bulk thread which ends was cancelled or cancels
  endpoint 0, and `CancelInv`, that whoever cancels it is in `stop_io` until it has ended.
  `DescriptorsAgree` compares the descriptors for any controller.
* `StringsStayInBounds`: for strings of any length and any `TextMax`, `Convert` reads up to the zero at the end of its
  text and not beyond, writes no more than the room there is, and gives a string of single bytes whole.
* `RightReaderIsChosen`: for any number of values of an unsigned int, from `UIntSize > 2`: a number that is
  -1 until a reader was found is compared without a sign.

`BixReaderProofs` holds for any finite number of requests, and all kinds of readers.

* `RequestsAreCompletedOnce`: every step leaves a request alone, takes it up, parks it or completes it
  (`Progress`), and what runs or was cancelled is not completed (`Tracked`).
* `EveryoneIsToldTruly`: from `ToldInv`.  A card counts as due from its coming until everybody who waits was told
  (`CardDue`: it is there, an event of it is not yet read, or a thread drains the list), an absence likewise (`NoCardDue`), and
  while one is due everybody who asks has seen it; a handler past its check knows what the check saw (`Thinks`).
* `OfferStaysRead`: the walk of `initProtocols` through the interface bytes ends, in bounds, with the protocols that the TD
  bytes name.  The lemma `OfferIs` says so of an ATR of any length; its invariant `Within` relates the walk to the chain
  of TD bytes it stands in.

What a recursive function computes (`PathOf`, `Convert`, the walk through an ATR) is proved without an induction
theorem: if it went wrong somewhere, there would be a smallest number at which it does (`Least`, from
`NatLessThanWellFounded` and `WFMin` of the library), and the step from the number before contradicts it.  That the recursive definition
has a value at all is proved in the same way (`RecursionExists`).

Every safety invariant and action property of the passing runs is so proved for every value of the constants.  Only
model-checked is what is about liveness (`CallsReturn`, `CardIsFound`, `HostAnsweredOrDropped`, `HostReconnects`,
`Answered`, `InsertionIsTold`, `ComesBack`, `ChangeIsTold` and `RemovalIsTold`), which is beyond this
prover because fairness needs ENABLED; and the counterexamples are what TLC shows.

## 5. Not modelled

`components` in `PROJECT.json` lists every part.  What is left out, and why:

* **Card operating system, secure messaging, card types** (`SmartcardSAM.py`, `SEutils.py`, `CryptoUtils.py`, `cards/`): mostly cryptographic
  computations and the contents of particular cards.  PIN counter and challenge are a few lines of state
  around them; records and data objects of `SmartcardFilesystem.py` are operations on byte strings.
* **`ifdhandler.h`, `resource.h`, `reader.h` and the other headers** declare constants of other systems.
* **lnfc and opicc** (`pcsc-relay`): calls into libnfc and a character device around the loop that
  `PcscRelay` models.  Two things were met there: `lnfc_connect` drops the command `nfc_target_init` has
  received, and `opicc.c:64` prints a length without a width, so that the terminating zero ends the answer before its
  bytes, where the comment at line 53 shows them.
* **The coding of CCID messages** (`get_RDR_to_PC_DataBlock` and others, pseudo APDUs)
  is abstracted in `Ccid`, and PACE and PIN entry themselves are external.
* **`print_avail`, options, the serial number**: output and parsing.
* **Two exchanges at once in `BixReader`**: one exchange is one step; `state`, `protocol`, `availableProtocol` and
  `powered` are not kept, as they only decide what is reported.  The installer, and the parts of the driver that
  the framework generates, are not modelled.
* **Android applications, TCardEmulator, eID GUI, vpcd-config**: other ends of the same protocol, or user interfaces.
* **Memory**: freed contexts matter only where a module says so (`IfdSlots`, `BixReader`, `Gadget`).
