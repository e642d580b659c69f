---------------------------- MODULE LifecycleRules ----------------------------
(***************************************************************************)
(* The lifecycle of one inbound delivery and its legal transitions: the    *)
(* pure functions of durable-ingress.ts.                                   *)
(***************************************************************************)
EXTENDS Naturals

CONSTANTS
    MaxRunAttempts,       \* config.maxRunAttempts      (8 by default)
    MaxDeliveryAttempts,  \* config.maxDeliveryAttempts (8 by default)
    MaxTransitions        \* config.maxTransitions      (32 by default)

ASSUME CapsAssumption ==
    /\ MaxRunAttempts \in Nat \ {0}
    /\ MaxDeliveryAttempts \in Nat \ {0}
    /\ MaxTransitions \in Nat \ {0}
--------------------------------------------------------------------------------
OperationalState ==
    {"accepted", "running", "generated", "delivering", "delivered", "unknown"}

DeliveryState == OperationalState \cup {"failed"}

Lifecycle ==
    [state : DeliveryState, runAttempts : Nat, deliveryAttempts : Nat,
     transitionCount : Nat, lastOperationalState : OperationalState]

InitialLifecycle ==
    [state |-> "accepted", runAttempts |-> 0, deliveryAttempts |-> 0,
     transitionCount |-> 0, lastOperationalState |-> "accepted"]

\* The last operational states of a delivery whose output has been generated.
PostGeneration == {"generated", "delivering", "delivered", "unknown"}

Terminal == {"delivered", "unknown"}

\* Mutant: a failed delivery always goes back to running the provider.
IsLegalTransition_RerunsAfterFailure(lc, to) ==
    \/ lc.state = "accepted"   /\ to \in {"running", "failed"}
    \/ lc.state = "running"    /\ to \in {"generated", "failed"}
    \/ lc.state = "generated"  /\ to \in {"delivering", "failed"}
    \/ lc.state = "delivering" /\ to \in {"delivered", "unknown", "failed"}
    \/ lc.state = "failed"     /\ to = "running"

IsLegalTransition(lc, to) ==
    \/ lc.state = "accepted"   /\ to \in {"running", "failed"}
    \/ lc.state = "running"    /\ to \in {"generated", "failed"}
    \/ lc.state = "generated"  /\ to \in {"delivering", "failed"}
    \/ lc.state = "delivering" /\ to \in {"delivered", "unknown", "failed"}
    \/ /\ lc.state = "failed"
       /\ to = IF lc.lastOperationalState \in {"generated", "delivering"}
                 THEN "delivering" ELSE "running"

LegalTargets(lc) == {to \in DeliveryState : IsLegalTransition(lc, to)}

\* The record nextLifecycle returns when the transition is legal.
Successor(lc, to) ==
    [state                |-> to,
     runAttempts          |-> lc.runAttempts + (IF to = "running" THEN 1 ELSE 0),
     deliveryAttempts     |-> lc.deliveryAttempts + (IF to = "delivering" THEN 1 ELSE 0),
     transitionCount      |-> lc.transitionCount + 1,
     lastOperationalState |-> IF to = "failed" THEN lc.lastOperationalState ELSE to]

\* Mutant: the delivery cap is off by one.
MayTransition_DeliveryCapOffByOne(lc, to) ==
    /\ IsLegalTransition(lc, to)
    /\ Successor(lc, to).runAttempts <= MaxRunAttempts
    /\ lc.deliveryAttempts <= MaxDeliveryAttempts

\* The transition nextLifecycle does not throw on.
MayTransition(lc, to) ==
    /\ IsLegalTransition(lc, to)
    /\ Successor(lc, to).runAttempts <= MaxRunAttempts
    /\ Successor(lc, to).deliveryAttempts <= MaxDeliveryAttempts
================================================================================
