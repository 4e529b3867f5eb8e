----------------------------- MODULE MCVpcdLink -----------------------------
(***************************************************************************)
(* Instances of VpcdLink.                                                  *)
(***************************************************************************)
EXTENDS VpcdLink

CONSTANTS poller, user

\* pcscd calls the handlers of a slot one at a time.
Pcscd == [t \in Threads |->
            IF t = user THEN {"present", "transmit", "big", "empty", "atr", "up", "down"} ELSE {}]

\* In the Windows driver one thread polls for a card, the other serves
\* applications.
WindowsDriver == [t \in Threads |-> IF t = poller THEN {"present"} ELSE {"transmit", "up"}]

EachHost == {Pcscd, WindowsDriver}
OnlyPcscd == {Pcscd}

\* One handler of each path through vpcd.c.
Asking == {[t \in Threads |-> {"present", "transmit", "reset"}]}
=============================================================================
