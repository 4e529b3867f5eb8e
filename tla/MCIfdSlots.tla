----------------------------- MODULE MCIfdSlots -----------------------------
(***************************************************************************)
(* Instances of IfdSlots: a Lun is <<reader, slot>>.                       *)
(***************************************************************************)
EXTENDS IfdSlots

\* One reader with two slots.
TwoSlots   == {<<0, 0>>, <<0, 1>>}
SlotNumber == [l \in Luns |-> l[2]]
=============================================================================
