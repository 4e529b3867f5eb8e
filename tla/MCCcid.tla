------------------------------- MODULE MCCcid -------------------------------
(***************************************************************************)
(* The threads of Ccid, and the data of the command Secure that the bulk   *)
(* thread works on at its points "prompt" and "pace".                      *)
(***************************************************************************)
EXTENDS Ccid, CcidSecure

\* When the user types a PIN, whatever command it is for: the card gets this PIN
\* in its order where the block says, but for a first digit that the length was
\* written over, and nothing that was left to chance (perform_PC_to_RDR_Secure).
PinReachesCard == pc = "prompt" => BlocksAreRight

\* When PACE begins, its data were taken apart as the host put them together, data
\* that end early do not come so far, and whatever it will return, the host can take
\* the answer apart (perform_PC_to_RDR_Secure_EstablishPACEChannel).
PaceIsParsed == pc = "pace" => FieldsAreFound /\ AnswerIsFound

Limits == {<<2, 3>>, <<4, 1>>}
=============================================================================
