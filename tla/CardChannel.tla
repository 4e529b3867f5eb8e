---------------------------- MODULE CardChannel ----------------------------
(***************************************************************************)
(* What an application may rely on when it sends APDUs to a card through a *)
(* slot: an APDU is executed at most once, an answer is handed out only    *)
(* for an APDU that was executed, and it is the answer to that APDU.  A    *)
(* call may fail at any time, before or after the card executed the APDU.  *)
(***************************************************************************)
CONSTANT Threads

VARIABLES
  stage,   \* where the APDU of each caller is
  answer   \* what the last call of each caller returned

vars == <<stage, answer>>

Stages  == {"none", "sent", "executed"}
Results == {"none", "own", "failed"}

Init == /\ stage = [t \in Threads |-> "none"]
        /\ answer = [t \in Threads |-> "none"]

Submit(t) == /\ stage[t] = "none"
             /\ stage' = [stage EXCEPT ![t] = "sent"]
             /\ answer' = [answer EXCEPT ![t] = "none"]

\* The caller turns to something else and forgets the last result.
Forget(t) == /\ stage[t] = "none"
             /\ answer' = [answer EXCEPT ![t] = "none"]
             /\ UNCHANGED stage

Execute(t) == /\ stage[t] = "sent"
              /\ stage' = [stage EXCEPT ![t] = "executed"]
              /\ UNCHANGED answer

Answered(t) == /\ stage[t] = "executed"
               /\ stage' = [stage EXCEPT ![t] = "none"]
               /\ answer' = [answer EXCEPT ![t] = "own"]

Failed(t) == /\ stage[t] # "none"
             /\ stage' = [stage EXCEPT ![t] = "none"]
             /\ answer' = [answer EXCEPT ![t] = "failed"]

\* The reader's process ends, and with it every call.
Gone == /\ stage' = [t \in Threads |-> "none"]
        /\ answer' = [t \in Threads |-> "none"]

Next == \/ \E t \in Threads : Submit(t) \/ Forget(t) \/ Execute(t) \/ Answered(t) \/ Failed(t)
        \/ Gone

Spec == Init /\ [][Next]_vars
=============================================================================
