---------------------------- MODULE MCGatewayStores ----------------------------
(* What the gateway keeps of a delivery while processes crash, stall and meet: *)
(* what the idempotency store promises its clients (IdempotencyStore), and one *)
(* delivery on its way from the request to the reply (IngressPipeline).  They  *)
(* share no state here; a behaviour moves one of them.                         *)
EXTENDS IdempotencyStore, MCIngressPipeline

VARIABLE part    \* what moves

\* A crash during the recovery from a crash, or a task held up past its lease.
CrashesOrStall ==
    {[crashes |-> 2, torn |-> 1, stalls |-> 0], [crashes |-> 0, torn |-> 0, stalls |-> 1]}

StoresInit ==
    /\ StoreInit /\ Init /\ part \in {"idempotency", "delivery"}
    /\ part = "idempotency" => channel = "webhook"

StoresNext ==
    /\ UNCHANGED part
    /\ \/ part = "idempotency" /\ StoreNext /\ UNCHANGED vars
       \/ part = "delivery" /\ Next /\ UNCHANGED storeVars

StoresSpec == StoresInit /\ [][StoresNext]_<<storeVars, vars, part>>

Interchangeable == Symmetry \cup Permutations(Clients)
================================================================================
