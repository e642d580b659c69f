-------------------------------- MODULE GatewayFaults --------------------------------
(* What can go wrong with the gateway processes that share a data directory: *)
(* a process dies and is started again, its event loop stalls for longer     *)
(* than a lease, a store call throws and changes nothing (busy database).    *)
EXTENDS Naturals

CONSTANTS
    Gateways,  \* gateway processes
    Budgets    \* bound: the combinations of faults that are explored

VARIABLES
    up,     \* the processes that are running
    faults  \* how many faults of each kind happened

faultVars == <<up, faults>>

FaultCount == [crash : Nat, stall : Nat, hiccup : Nat]

ASSUME BudgetAssumption == Budgets \subseteq FaultCount

FaultInit ==
    /\ up = Gateways
    /\ faults = [crash |-> 0, stall |-> 0, hiccup |-> 0]

FaultTypeOK == up \subseteq Gateways /\ faults \in FaultCount

Within(count, budget) == \A kind \in DOMAIN count : count[kind] <= budget[kind]

\* One more fault of this kind, as long as some budget allows it.
Fault(kind) ==
    /\ faults' = [faults EXCEPT ![kind] = @ + 1]
    /\ \E budget \in Budgets : Within(faults', budget)

Stop(g) == g \in up /\ up' = up \ {g} /\ Fault("crash")
Start(g) == g \notin up /\ up' = up \cup {g} /\ UNCHANGED faults
================================================================================
