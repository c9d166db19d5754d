---------------------------- MODULE DeviceQueues ----------------------------
(***************************************************************************)
(* What the command pipeline promises, without its lock table: every       *)
(* device serves one line of commands, first come first served; only the   *)
(* command at the head of a line can settle, it settles exactly once, and  *)
(* a refused request never joins a line.                                   *)
(***************************************************************************)
EXTENDS Sequences

CONSTANTS Devices, Cmds

VARIABLES line,     \* the commands a device still has to serve, in order
          outcome   \* what is known of each command

vars == <<line, outcome>>

Outcomes == {"SUCCEEDED", "FAILED", "UNKNOWN"}

Init == /\ line = [d \in Devices |-> <<>>]
        /\ outcome = [c \in Cmds |-> "none"]

Refuse(c) == /\ outcome[c] = "none"
             /\ outcome' = [outcome EXCEPT ![c] = "refused"]
             /\ UNCHANGED line

Accept(c, d) == /\ outcome[c] = "none"
                /\ outcome' = [outcome EXCEPT ![c] = "accepted"]
                /\ line' = [line EXCEPT ![d] = Append(@, c)]

Settle(c, d) == /\ line[d] # <<>>
                /\ c = Head(line[d])
                /\ line' = [line EXCEPT ![d] = Tail(@)]
                /\ \E o \in Outcomes : outcome' = [outcome EXCEPT ![c] = o]

Next == \E c \in Cmds : \/ Refuse(c)
                        \/ \E d \in Devices : Accept(c, d) \/ Settle(c, d)

Spec == Init /\ [][Next]_vars

\* Every line keeps moving.
FairSpec == /\ Spec
            /\ \A d \in Devices : WF_vars(\E c \in Cmds : Settle(c, d))
=============================================================================
