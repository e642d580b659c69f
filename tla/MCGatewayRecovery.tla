--------------------------- MODULE MCGatewayRecovery ---------------------------
(* What the gateway owes after failures and crashes: a delivery that is retried *)
(* (DeliveryLifecycle), the approval actions that a starting server recovers    *)
(* (ApprovalStore), and a spooled delivery that the next start decides          *)
(* (IngressPipeline).  They share no state here; a behaviour moves one of them. *)
EXTENDS DeliveryLifecycle, ApprovalStore

CONSTANTS
    Workers, Pids, PartCount, NoClaim, NoEntry, ReusesPids, Channels, MaxReceipts

VARIABLES
    channel, claim, delivery, slotPending, spool, acked, sent, silent, notified, worker, used,
    part    \* what moves

pipelineVars ==
    <<channel, claim, delivery, slotPending, spool, acked, sent, silent, notified, worker, used>>

\* The spooled delivery has two attempts of each kind, so that it can run out of them.
Pipeline == INSTANCE IngressPipeline
    WITH row <- claim, lifecycle <- delivery,
         Faults <- {[crashes |-> 1, torn |-> 0, stalls |-> 0]},
         MaxRunAttempts <- 2, MaxDeliveryAttempts <- 2, MaxTransitions <- 8

RecoveryInit ==
    /\ LifecycleInit /\ ApprovalInit /\ Pipeline!Init
    /\ part \in {"lifecycle", "approvals", "spool"}
    /\ part # "spool" => channel = "webhook"

RecoveryNext ==
    /\ UNCHANGED part
    /\ \/ part = "lifecycle" /\ LifecycleNext /\ UNCHANGED <<approvalVars, pipelineVars>>
       \/ part = "approvals" /\ ApprovalNext /\ UNCHANGED <<lcVars, pipelineVars>>
       \/ part = "spool" /\ Pipeline!Next /\ UNCHANGED <<lcVars, approvalVars>>

\* ApprovalFairness and the Fairness of IngressPipeline, each asked only of what
\* moves: what rests has processes that wait to be started.
RecoveryFairness ==
    /\ \A c \in Calls : WF_approvalVars(part = "approvals" /\ CallGoesOn(c))
    /\ \A id \in Ids : WF_approvalVars(part = "approvals" /\ LeaseEnds(id))
    /\ \A g \in Gateways : WF_approvalVars(part = "approvals" /\ GatewayGoesOn(g))
    /\ WF_pipelineVars(part = "spool" /\ Pipeline!LeaseLapses)
    /\ WF_pipelineVars(part = "spool" /\ Pipeline!SlotLapses)
    /\ \A w \in Workers : WF_pipelineVars(part = "spool" /\ Pipeline!Task(w))

RecoverySpec ==
    /\ RecoveryInit /\ [][RecoveryNext]_<<lcVars, approvalVars, pipelineVars, part>>
    /\ RecoveryFairness

\* A spooled delivery that a crash interrupts is decided after the restart
\* (recoverIngressSpool), as IngressPipeline states it.
InterruptedIsDecided == Pipeline!InterruptedIsDecided
================================================================================
