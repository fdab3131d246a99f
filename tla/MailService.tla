------------------------------ MODULE MailService ------------------------------
(***************************************************************************)
(* What a mailbox slot promises the thread that uses it: every command it  *)
(* sends is executed by the simulator exactly once, after it was sent, and *)
(* the thread gets the answer to that command.  Module CoSim implements it. *)
(***************************************************************************)
EXTENDS Naturals

CONSTANTS Slots, Commands, Nothing,
          AnswerTo(_)   \* what the driver returns for a command

VARIABLES
    request,        \* request[s]: the command that waits, or Nothing
    answer,         \* answer[s]: the answer that waits, or Nothing
    served          \* served[s]: the commands executed so far
mailVars == <<request, answer, served>>

MailInit ==
    /\ request = [s \in Slots |-> Nothing]
    /\ answer = [s \in Slots |-> Nothing]
    /\ served = [s \in Slots |-> 0]

Ask(s) ==
    /\ request[s] = Nothing /\ answer[s] = Nothing
    /\ request'[s] \in Commands
    /\ request' = [request EXCEPT ![s] = request'[s]]
    /\ UNCHANGED <<answer, served>>

Serve(s) ==
    /\ request[s] # Nothing
    /\ answer' = [answer EXCEPT ![s] = AnswerTo(request[s])]
    /\ request' = [request EXCEPT ![s] = Nothing]
    /\ served' = [served EXCEPT ![s] = @ + 1]

Take(s) ==
    /\ answer[s] # Nothing
    /\ answer' = [answer EXCEPT ![s] = Nothing]
    /\ UNCHANGED <<request, served>>

MailNext == \E s \in Slots : Serve(s) \/ Take(s) \/ Ask(s)
MailSpec == MailInit /\ [][MailNext]_mailVars
=============================================================================
