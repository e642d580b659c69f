--------------------------- MODULE DeliveryLifecycle ---------------------------
(***************************************************************************)
(* What the gateway's durable ingress promises about one inbound delivery: *)
(* a lifecycle that only moves along the legal transitions, within the     *)
(* attempt caps and the transition cap, and a result that is settled only  *)
(* after output exists.  This is the abstract specification: each step is  *)
(* one recorded transition.  DurableIngress, where a transition takes      *)
(* several store calls that interleave with other workers' calls,          *)
(* implements it.                                                          *)
(***************************************************************************)
EXTENDS LifecycleRules

VARIABLES
    lifecycle,  \* the lifecycle a reader folds out of the recorded transitions
    closed     \* whether the ingress record is completed

lcVars == <<lifecycle, closed>>
--------------------------------------------------------------------------------
LifecycleInit ==
    /\ lifecycle = InitialLifecycle
    /\ closed = FALSE

\* One durable transition: a slot is left and the step is legal and capped.
Advance(to) ==
    /\ lifecycle.transitionCount < MaxTransitions
    /\ MayTransition(lifecycle, to)
    /\ lifecycle' = Successor(lifecycle, to)
    /\ UNCHANGED closed

\* The ingress claim is completed with its result.
Settle ==
    /\ lifecycle.lastOperationalState \in PostGeneration
    /\ closed' = TRUE
    /\ UNCHANGED lifecycle

LifecycleNext ==
    \/ \E to \in DeliveryState : Advance(to)
    \/ Settle

LifecycleSpec == LifecycleInit /\ [][LifecycleNext]_lcVars

\* The caller that server.ts is: "running" is recorded right behind the claim,
\* before there is a spool entry or a task that could fail.
ServedNext ==
    /\ LifecycleNext
    /\ lifecycle.state = "accepted" => lifecycle'.state # "failed"

ServedSpec == LifecycleInit /\ [][ServedNext]_lcVars
--------------------------------------------------------------------------------
LifecycleTypeOK ==
    /\ lifecycle \in Lifecycle
    /\ closed \in BOOLEAN

\* However often runs and deliveries fail, the caps hold and the attempt
\* counters tell the truth: nothing was delivered, or left unknown, without a
\* delivery attempt, and nothing was attempted without a run
\* (nextLifecycle's counters and caps).
AttemptsAccountForState ==
    /\ lifecycle.runAttempts <= MaxRunAttempts
    /\ lifecycle.deliveryAttempts <= MaxDeliveryAttempts
    /\ lifecycle.lastOperationalState \in {"delivering", "delivered", "unknown"}
           <=> lifecycle.deliveryAttempts > 0
    /\ lifecycle.lastOperationalState # "accepted" <=> lifecycle.runAttempts > 0

\* A result is settled only for a delivery whose output was generated
\* (the state check of complete(), kept true by every later transition).
SettledHasOutput == closed => lifecycle.lastOperationalState \in PostGeneration

\* Once output was generated the provider is never run again: a failure is
\* retried from the delivery, not from the run (the "failed" case of
\* isLegalTransition).
OutputNeverRegenerated ==
    [][lifecycle.lastOperationalState \in PostGeneration
         => /\ lifecycle'.runAttempts = lifecycle.runAttempts
            /\ lifecycle'.lastOperationalState \in PostGeneration]_lcVars

\* A delivery recorded as delivered or unknown is never attempted again.
TerminalIsFinal ==
    [][lifecycle.state \in Terminal => lifecycle' = lifecycle]_lcVars

\* The number of transitions behind a lifecycle is bounded by its attempts.
TransitionBudget ==
    LET spent  == 2 * lifecycle.runAttempts + 2 * lifecycle.deliveryAttempts
        last   == lifecycle.lastOperationalState
        AtMost(n) == lifecycle.transitionCount <= n
    IN  /\ lifecycle.state \in {"accepted", "running"} => AtMost(spent)
        /\ lifecycle.state \in {"generated", "delivering"} => AtMost(spent + 1)
        /\ lifecycle.state \in Terminal => AtMost(spent + 2)
        /\ lifecycle.state = "failed" =>
              IF last \in PostGeneration THEN AtMost(spent + 2) ELSE AtMost(spent + 1)

\* fail() can "mark the lifecycle failed and release its pending ingress claim"
\* (durable-ingress.ts:333) and an answer can be recorded as delivered or
\* unknown: whenever a delivery is under way, a slot is left for its outcome.
OutcomeHasSlot ==
    lifecycle.state = "delivering" => lifecycle.transitionCount < MaxTransitions

\* While either kind of attempt is not used up, whatever failed before, a run,
\* its reply and a delivery under way have a slot for what becomes of them: the
\* transition cap (line 246) swallows no outcome but that of the very last
\* delivery attempt behind the very last run.
EarlierOutcomesHaveSlot ==
    /\ lifecycle.state \in {"running", "generated", "delivering"}
    /\ \/ lifecycle.runAttempts < MaxRunAttempts
       \/ lifecycle.deliveryAttempts < MaxDeliveryAttempts
    => lifecycle.transitionCount < MaxTransitions
================================================================================
