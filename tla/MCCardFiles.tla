---------------------------- MODULE MCCardFiles ----------------------------
(***************************************************************************)
(* An instance of CardFiles: two identifiers that can be used in any DF,   *)
(* one of them the one that P1-P2 = 0101 is taken for.                     *)
(***************************************************************************)
EXTENDS CardFiles

Described(k, x, s, n) == [kind |-> k, fid |-> x, short |-> s, name |-> n]

\* DFs with the names A1, A2 and none, EFs with a short identifier and
\* without, and an identifier that only the MF has.
FcpSet == {Described("df", 257, None, "A1"),
           Described("df", 512, None, "A2"),
           Described("df", 512, None, None),
           Described("transparent", 257, 1, None),
           Described("record", 512, 1, None),
           Described("record", 512, None, None),
           Described("df", MFid, None, None)}

PathSet == {<<>>, <<257>>, <<512>>, <<512, 257>>, <<MFid>>, <<MFid, 257>>}

Started == [n \in Names |-> {n, "A"}]

\* A short identifier, the identifier 0101, which is read as 512, and 3FFF.
OctetSet == {<<0, 0>>, <<0, 1>>, <<1, 1>>, <<63, 255>>}
=============================================================================
