-------------------------------- MODULE MCMessageTurns --------------------------------
(* The two services of the gateway behind POST /v1/messages: the message    *)
(* runs, and the conversation turns that most of them execute.  They share  *)
(* the processes but no other state, so a behaviour moves one of the two.   *)
EXTENDS ConversationLease, AsyncMessages, TLC

VARIABLE part    \* the service that moves

\* One fault of any kind for the runs; for the turns, also a stall and an error.
AnyFault ==
    {[kind \in {"crash", "stall", "hiccup"} |-> IF kind = k THEN 1 ELSE 0] :
       k \in {"crash", "stall", "hiccup"}}
FaultBudgets == AnyFault \cup {[crash |-> 0, stall |-> 1, hiccup |-> 1]}

\* A keyed message and an isolated artifact run.
AskedCalls == {c \in Call : c.isolated <=> c.key = NoKey}

Init ==
    /\ LeaseInit /\ MessageInit /\ part \in {"turns", "runs"}
    /\ part = "turns" => limit = 1

\* The runs are explored with a single fault where they press against the limit,
\* and with none where there is room for all of them.
FewFaults ==
    part = "runs" =>
      \E budget \in AnyFault :
        Within(faults, [kind \in DOMAIN budget |-> IF limit = 1 THEN budget[kind] ELSE 0])

Next ==
    \/ part = "turns" /\ LeaseNext /\ UNCHANGED <<part, limit, runVars>>
    \/ part = "runs" /\ MessageNext /\ UNCHANGED <<part, limit, turnVars>> /\ FewFaults'

vars == <<leaseVars, limit, runVars, part>>

\* At its start neither service has a step that it owes, so the fairness of the
\* one that rests asks for nothing.
FairSpec == Init /\ [][Next]_vars /\ LeaseFairness /\ MessageFairness

\* The variables of both services have their types.
TypeOK == LeaseTypeOK /\ MessageTypeOK
=======================================================================================
