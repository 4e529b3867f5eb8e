---------------------------- MODULE MCPcscRelay ----------------------------
(***************************************************************************)
(* Two configurations of PcscRelay in one run: a relay that listens for    *)
(* the emulator and has a virtual card, with an emulator that hangs up at  *)
(* any point (the constants of the configuration file), and a relay that   *)
(* connects to an emulator that reads its answer before it hangs up, with  *)
(* a PC/SC card (H).                                                       *)
(***************************************************************************)
EXTENDS PcscRelay

VARIABLE conf     \* "listen" or "host"

H == INSTANCE PcscRelay WITH Driver <- "host", Connector <- "pcsc", Polite <- TRUE

ListenStep == conf = "listen" /\ Next
HostStep   == conf = "host" /\ H!Next

RunInit == \/ conf = "listen" /\ Init
           \/ conf = "host" /\ H!Init
RunNext == (ListenStep \/ HostStep) /\ UNCHANGED conf

\* The operating system runs the relay, and the emulator reads what arrives.
RunSpec == /\ RunInit /\ [][RunNext]_<<conf, vars>>
           /\ WF_vars(conf = "host" /\ H!Relay)
           /\ WF_vars(conf = "host" /\ H!EmuReads)
           /\ WF_vars(conf = "host" /\ H!EmuDropped)

\* PcscRelay: AnsweredOrDropped and Reconnects, of the relay that connects.
HostAnsweredOrDropped == (conf = "host" /\ emu = "waiting") ~> (emu # "waiting")
HostReconnects ==
  (conf = "host" /\ emu = "calling" /\ pc \in {"reopen", "resend"})
    ~> (emu # "calling" \/ pc = "exit")
=============================================================================
