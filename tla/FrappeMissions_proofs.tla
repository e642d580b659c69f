-------------------------- MODULE FrappeMissions_proofs --------------------------
(* What missions keep for any graph, any number of gateways and effects, and    *)
(* without bounds on what happens to them: the site applies an effect at most   *)
(* once, the log never hides one, only chosen branches run, and no mission is   *)
(* left behind.                                                                *)
EXTENDS FrappeMissions, TLAPS

\* An executor between its claim and the answer of the site.
Holding(p) == exec[p].phase \in {"claimed", "applying"}

ExecShaped ==
    exec = [p \in Gateways |-> [phase |-> exec[p].phase, key |-> exec[p].key,
                                token |-> exec[p].token]]
Shaped ==
    /\ ExecShaped
    /\ ledger = [k \in Keys |-> ledger[k]]
    /\ applied \in [Keys -> Nat]

\* What nobody claimed was not applied.
ClaimedFirst == \A k \in Keys : ledger[k].state = "none" => applied[k] = 0

\* Who holds a claim has not applied the effect yet, and holds it alone.
HeldUnapplied ==
    \A p \in Gateways : Holding(p) /\ exec[p].key \in Keys =>
        ledger[exec[p].key].state # "none" /\ applied[exec[p].key] = 0
HeldAlone ==
    \A p, q \in Gateways :
        Holding(p) /\ Holding(q) /\ exec[p].key = exec[q].key /\ exec[p].key \in Keys => p = q

IInv == Shaped /\ ClaimedFirst /\ HeldUnapplied /\ HeldAlone /\ EffectAppliedOnce
--------------------------------------------------------------------------------
LEMMA InitIInv == MissionInit => IInv
BY DEF MissionInit, IInv, Shaped, ExecShaped, ClaimedFirst, HeldUnapplied, HeldAlone, Holding,
       EffectAppliedOnce, NoExec

\* A step that leaves the ledger and the site alone, and lets no executor hold
\* a claim that it did not hold before, keeps the invariant.
LEMMA QuietStep ==
    ASSUME IInv, UNCHANGED <<ledger, applied>>,
           ExecShaped',
           \A p \in Gateways : Holding(p)' => Holding(p) /\ exec'[p].key = exec[p].key
    PROVE  IInv'
BY DEF IInv, Shaped, ClaimedFirst, HeldUnapplied, HeldAlone, Holding, EffectAppliedOnce

\* So does one that writes a used state to one row of the ledger.
LEMMA MarkStep ==
    ASSUME IInv, UNCHANGED applied, NEW k, NEW t, NEW s \in {"claimed", "committed", "failed"},
           Mark(k, t, s),
           ExecShaped',
           \A p \in Gateways : Holding(p)' => Holding(p) /\ exec'[p].key = exec[p].key
    PROVE  IInv'
<1>1. ledger' = [j \in Keys |-> ledger'[j]]
  BY DEF Mark, IInv, Shaped
<1>2. \A j \in Keys : ledger'[j].state = "none" => ledger[j].state = "none"
  BY DEF Mark, IInv, Shaped
<1>3. \A j \in Keys : ledger[j].state # "none" => ledger'[j].state # "none"
  BY DEF Mark, IInv, Shaped
<1> QED
  BY <1>1, <1>2, <1>3 DEF IInv, Shaped, ClaimedFirst, HeldUnapplied, HeldAlone, Holding,
                          EffectAppliedOnce

\* The step in which the site may apply the effect of an executor that holds
\* its claim, and after which that executor holds it no more.
LEMMA ApplyStep ==
    ASSUME IInv, UNCHANGED ledger, NEW p \in Gateways, NEW done \in 0 .. 1,
           exec[p].phase = "applying",
           applied' = [applied EXCEPT ![exec[p].key] = @ + done],
           ExecShaped',
           exec'[p].phase \notin {"claimed", "applying"},
           \A q \in Gateways \ {p} : exec'[q] = exec[q]
    PROVE  IInv'
<1>0. applied' \in [Keys -> Nat]
  <2>1. \A k \in Keys : applied'[k] \in Nat
    BY DEF IInv, Shaped
  <2>2. applied' = [k \in Keys |-> applied'[k]]
    BY DEF IInv, Shaped
  <2> QED
    BY <2>1, <2>2
<1>1. Shaped'
  BY <1>0 DEF IInv, Shaped
<1>2. \A k \in Keys : k # exec[p].key => applied'[k] = applied[k]
  BY DEF IInv, Shaped
<1>3. exec[p].key \in Keys => /\ ledger[exec[p].key].state # "none"
                              /\ applied'[exec[p].key] <= 1
  BY DEF IInv, Shaped, HeldUnapplied, Holding
<1>4. ClaimedFirst' /\ EffectAppliedOnce'
  BY <1>2, <1>3 DEF IInv, ClaimedFirst, EffectAppliedOnce
<1>5. \A q \in Gateways : Holding(q)' => q # p /\ Holding(q) /\ exec'[q] = exec[q]
  BY DEF Holding
<1>6. HeldAlone'
  BY <1>5 DEF IInv, HeldAlone
<1>7. ASSUME NEW q \in Gateways, Holding(q)', exec'[q].key \in Keys
      PROVE  ledger'[exec'[q].key].state # "none" /\ applied'[exec'[q].key] = 0
  <2>1. q # p /\ Holding(q) /\ exec'[q] = exec[q]
    BY <1>5, <1>7
  <2>2. Holding(p)
    BY DEF Holding
  <2>3. exec[q].key # exec[p].key
    BY <1>7, <2>1, <2>2 DEF IInv, HeldAlone
  <2> QED
    BY <1>2, <1>7, <2>1, <2>3 DEF IInv, HeldUnapplied
<1> QED
  BY <1>1, <1>4, <1>6, <1>7 DEF IInv, HeldUnapplied
--------------------------------------------------------------------------------
\* An executor goes on, or is done, without a claim.
Releases(p) ==
    \/ exec' = [exec EXCEPT ![p] = NoExec]
    \/ \E x \in {"reported", "spoiled", "observing", "compensating", "committed", "giving_up"} :
          Sets(p, x)

LEMMA SetsFacts ==
    ASSUME ExecShaped, NEW p \in Gateways, NEW x, Sets(p, x)
    PROVE  /\ ExecShaped' /\ exec'[p].phase = x /\ exec'[p].key = exec[p].key
           /\ \A q \in Gateways \ {p} : exec'[q] = exec[q]
BY DEF ExecShaped, Sets

LEMMA ReleaseFacts ==
    ASSUME ExecShaped, NEW p \in Gateways, Releases(p)
    PROVE  /\ ExecShaped'
           /\ \A q \in Gateways : Holding(q)' => Holding(q) /\ exec'[q].key = exec[q].key
<1>1. CASE exec' = [exec EXCEPT ![p] = NoExec]
  BY <1>1 DEF ExecShaped, Holding, NoExec
<1>2. ASSUME NEW x \in {"reported", "spoiled", "observing", "compensating", "committed",
                        "giving_up"}, Sets(p, x)
      PROVE  /\ ExecShaped'
             /\ \A q \in Gateways : Holding(q)' => Holding(q) /\ exec'[q].key = exec[q].key
  BY <1>2, SetsFacts DEF Holding
<1> QED
  BY <1>1, <1>2 DEF Releases

LEMMA ReleaseStep ==
    ASSUME IInv, UNCHANGED <<ledger, applied>>, NEW p \in Gateways, Releases(p)
    PROVE  IInv'
BY ReleaseFacts, QuietStep DEF IInv, Shaped

LEMMA StillStep ==
    ASSUME IInv, UNCHANGED <<exec, ledger, applied>>
    PROVE  IInv'
BY DEF IInv, Shaped, ExecShaped, ClaimedFirst, HeldUnapplied, HeldAlone, Holding,
       EffectAppliedOnce

LEMMA MarkReleaseStep ==
    ASSUME IInv, UNCHANGED applied, NEW p \in Gateways, NEW t,
           NEW s \in {"claimed", "committed", "failed"}, NEW k, Mark(k, t, s), Releases(p)
    PROVE  IInv'
BY ReleaseFacts, MarkStep DEF IInv, Shaped
--------------------------------------------------------------------------------
\* The claim of an effect nobody claimed.
LEMMA ClaimStep ==
    ASSUME IInv, UNCHANGED applied, NEW p \in Gateways, NEW t,
           IsFree(ledger[exec[p].key]), Mark(exec[p].key, t, "claimed"), Sets(p, "claimed")
    PROVE  IInv'
<1> DEFINE k == exec[p].key
<1>1. /\ ExecShaped' /\ exec'[p].phase = "claimed" /\ exec'[p].key = k
      /\ \A q \in Gateways \ {p} : exec'[q] = exec[q]
  BY SetsFacts DEF IInv, Shaped
<1>2. ledger' = [j \in Keys |-> ledger'[j]] /\ \A j \in Keys \ {k} : ledger'[j] = ledger[j]
  BY DEF Mark, IInv, Shaped
<1>3. k \in Keys => /\ ledger[k].state = "none" /\ ledger'[k].state # "none"
                    /\ applied'[k] = 0
  BY DEF Mark, IsFree, IInv, Shaped, ClaimedFirst
<1>4. Shaped' /\ ClaimedFirst' /\ EffectAppliedOnce'
  BY <1>1, <1>2, <1>3 DEF IInv, Shaped, ClaimedFirst, EffectAppliedOnce
<1>5. ASSUME NEW q \in Gateways, q # p, Holding(q)', exec'[q].key \in Keys
      PROVE  /\ exec'[q].key # k /\ exec'[q].key = exec[q].key /\ Holding(q)
             /\ ledger'[exec'[q].key].state # "none" /\ applied'[exec'[q].key] = 0
  <2>1. exec'[q] = exec[q] /\ Holding(q)
    BY <1>1, <1>5 DEF Holding
  <2>2. ledger[exec[q].key].state # "none" /\ applied[exec[q].key] = 0
    BY <1>5, <2>1 DEF IInv, HeldUnapplied
  <2>3. exec[q].key # k
    BY <1>3, <1>5, <2>1, <2>2
  <2> QED
    BY <1>2, <1>5, <2>1, <2>2, <2>3
<1>6. HeldUnapplied'
  BY <1>1, <1>3, <1>5 DEF HeldUnapplied
<1>7. HeldAlone'
  BY <1>1, <1>5 DEF IInv, HeldAlone
<1> QED
  BY <1>4, <1>6, <1>7 DEF IInv

\* An executor that ends where the site may have been called, or anywhere else.
LEMMA EndStep ==
    ASSUME IInv, UNCHANGED ledger, NEW p \in Gateways, Releases(p),
           \/ UNCHANGED applied
           \/ /\ exec[p].phase = "applying"
              /\ \E done \in 0 .. 1 : applied' = [applied EXCEPT ![exec[p].key] = @ + done]
    PROVE  IInv'
<1>1. CASE UNCHANGED applied
  BY <1>1, ReleaseStep
<1>2. CASE /\ exec[p].phase = "applying"
           /\ \E done \in 0 .. 1 : applied' = [applied EXCEPT ![exec[p].key] = @ + done]
  <2>1. ExecShaped' /\ \A q \in Gateways \ {p} : exec'[q] = exec[q]
    <3>1. CASE exec' = [exec EXCEPT ![p] = NoExec]
      BY <3>1, ReleaseFacts DEF IInv, Shaped, ExecShaped
    <3>2. CASE \E x \in {"reported", "spoiled", "observing", "compensating", "committed",
                          "giving_up"} : Sets(p, x)
      BY <3>2, SetsFacts DEF IInv, Shaped
    <3> QED
      BY <3>1, <3>2 DEF Releases
  <2>2. exec'[p].phase \notin {"claimed", "applying"}
    <3>1. CASE exec' = [exec EXCEPT ![p] = NoExec]
      BY <3>1 DEF IInv, Shaped, ExecShaped, NoExec
    <3>2. CASE \E x \in {"reported", "spoiled", "observing", "compensating", "committed",
                          "giving_up"} : Sets(p, x)
      BY <3>2, SetsFacts DEF IInv, Shaped
    <3> QED
      BY <3>1, <3>2 DEF Releases
  <2> QED
    BY <1>2, <2>1, <2>2, ApplyStep
<1> QED
  BY <1>1, <1>2
--------------------------------------------------------------------------------
\* An aborted node: its executor gives up or is dropped.
LEMMA AbortStep ==
    ASSUME IInv, UNCHANGED ledger, NEW p \in Gateways, Abort(p)
    PROVE  IInv'
<1>1. CASE exec[p].phase \in {"applying", "observing", "compensating"}
  <2>1. Sets(p, "giving_up")
    BY <1>1 DEF Abort
  <2>2. Releases(p)
    BY <2>1 DEF Releases
  <2>3. CASE exec[p].phase = "applying"
    <3>1. \E done \in 0 .. 1 : applied' = [applied EXCEPT ![exec[p].key] = @ + done]
      BY <1>1, <2>3 DEF Abort
    <3> QED
      BY <2>2, <2>3, <3>1, EndStep
  <2>4. CASE exec[p].phase # "applying"
    <3>1. UNCHANGED applied
      BY <1>1, <2>4 DEF Abort, IInv, Shaped
    <3> QED
      BY <2>2, <3>1, EndStep
  <2> QED
    BY <2>3, <2>4
<1>2. CASE exec[p].phase \notin {"applying", "observing", "compensating"}
  <2>1. exec' = [exec EXCEPT ![p] = NoExec] /\ UNCHANGED applied
    BY <1>2 DEF Abort
  <2> QED
    BY <2>1, EndStep DEF Releases
<1> QED
  BY <1>1, <1>2

\* The walk of a process and what it appends touch neither ledger nor site.
LEMMA RunStepKeeps ==
    ASSUME IInv, NEW p \in Gateways, RunStep(p)
    PROVE  IInv'
<1>1. CASE Snapshot(p) \/ Rehydrate(p) \/ Pick(p)
  BY <1>1, StillStep DEF Snapshot, Rehydrate, Pick, worldVars
<1>2. CASE StartNode(p) \/ CompleteMission(p) \/ ClaimLease(p)
  BY <1>2, StillStep DEF StartNode, CompleteMission, ClaimLease, Emit, worldVars
<1>3. CASE BeginIteration(p)
  <2>1. UNCHANGED <<ledger, applied>>
    BY <1>3 DEF BeginIteration, worldVars
  <2>2. CASE UNCHANGED exec
    BY <2>1, <2>2, StillStep
  <2>3. CASE exec' = [exec EXCEPT ![p] =
                        [phase |-> IF Graph[run[p].node].kind = "effect" THEN "planning"
                                   ELSE "thinking",
                         key |-> Graph[run[p].node].key, token |-> run[p].token]]
    <3>1. ExecShaped'
      BY <2>3 DEF IInv, Shaped, ExecShaped
    <3>2. \A q \in Gateways : Holding(q)' => Holding(q) /\ exec'[q].key = exec[q].key
      BY <2>3 DEF IInv, Shaped, ExecShaped, Holding
    <3> QED
      BY <2>1, <3>1, <3>2, QuietStep
  <2> QED
    BY <1>3, <2>2, <2>3 DEF BeginIteration
<1>4. CASE RecordIteration(p) \/ AskForInput(p) \/ CompleteNode(p) \/ FailNode(p)
  BY <1>4, StillStep DEF RecordIteration, AskForInput, CompleteNode, FailNode, Emit, worldVars
<1>5. CASE FailMission(p)
  BY <1>5, StillStep DEF FailMission, Emit, worldVars
<1>6. CASE RecordCompensation(p) \/ FinishCancellation(p) \/ CompletePause(p)
  <2>1. UNCHANGED <<exec, ledger, applied>>
    BY <1>6 DEF RecordCompensation, FinishCancellation, CompletePause, Emit, worldVars
  <2> QED
    BY <2>1, StillStep
<1> QED
  BY <1>1, <1>2, <1>3, <1>4, <1>5, <1>6 DEF RunStep

\* An executor claims before it applies, and never applies under a used claim.
LEMMA ExecutorStepKeeps ==
    ASSUME IInv, NEW p \in Gateways, ExecutorStep(p)
    PROVE  IInv'
<1>1. CASE Think(p)
  <2>1. exec' = [exec EXCEPT ![p] = NoExec] /\ UNCHANGED <<ledger, applied>>
    BY <1>1 DEF Think, Stops, worldVars
  <2> QED
    BY <2>1, ReleaseStep DEF Releases
<1>2. CASE ClaimEffect(p)
  <2>1. UNCHANGED applied
    BY <1>2 DEF ClaimEffect
  <2>2. CASE /\ IsFree(ledger[exec[p].key]) /\ Mark(exec[p].key, exec[p].token, "claimed")
             /\ Sets(p, "claimed")
    BY <2>1, <2>2, ClaimStep
  <2>3. CASE exec' = [exec EXCEPT ![p] = NoExec] /\ UNCHANGED ledger
    BY <2>1, <2>3, ReleaseStep DEF Releases
  <2> QED
    BY <1>2, <2>2, <2>3 DEF ClaimEffect, Stops
<1>3. CASE AnnounceEffect(p)
  <2>1. exec[p].phase = "claimed" /\ UNCHANGED <<ledger, applied>>
    BY <1>3 DEF AnnounceEffect, Phase, worldVars
  <2>2. CASE Sets(p, "giving_up")
    BY <2>1, <2>2, ReleaseStep DEF Releases
  <2>3. CASE Sets(p, "applying")
    <3>1. /\ ExecShaped' /\ exec'[p].key = exec[p].key
          /\ \A q \in Gateways \ {p} : exec'[q] = exec[q]
      BY <2>3, SetsFacts DEF IInv, Shaped
    <3>2. \A q \in Gateways : Holding(q)' => Holding(q) /\ exec'[q].key = exec[q].key
      BY <2>1, <3>1 DEF Holding
    <3> QED
      BY <2>1, <3>1, <3>2, QuietStep
  <2> QED
    BY <1>3, <2>2, <2>3 DEF AnnounceEffect
<1>4. CASE ApplyEffect(p)
  <2>1. exec[p].phase = "applying" /\ UNCHANGED ledger
    BY <1>4 DEF ApplyEffect, Phase
  <2>2. \E done \in 0 .. 1 : applied' = [applied EXCEPT ![exec[p].key] = @ + done]
    BY <1>4 DEF ApplyEffect
  <2>3. Releases(p)
    BY <1>4 DEF ApplyEffect, Stops, Releases
  <2> QED
    BY <2>1, <2>2, <2>3, EndStep
<1>5. CASE ObserveEffect(p)
  <2>1. UNCHANGED applied /\ Releases(p)
    BY <1>5 DEF ObserveEffect, Stops, Releases
  <2>2. UNCHANGED ledger \/ Mark(exec[p].key, exec[p].token, "committed")
    BY <1>5 DEF ObserveEffect
  <2> QED
    BY <2>1, <2>2, ReleaseStep, MarkReleaseStep
<1>6. CASE CompensateEffect(p)
  <2>1. UNCHANGED applied /\ Releases(p)
    BY <1>6 DEF CompensateEffect, Stops, Releases
  <2>2. UNCHANGED ledger \/ Mark(exec[p].key, exec[p].token, "failed")
    BY <1>6 DEF CompensateEffect
  <2> QED
    BY <2>1, <2>2, ReleaseStep, MarkReleaseStep
<1>7. CASE RecordEffect(p)
  <2>1. exec' = [exec EXCEPT ![p] = NoExec] /\ UNCHANGED <<ledger, applied>>
    BY <1>7 DEF RecordEffect, Stops, worldVars
  <2> QED
    BY <2>1, ReleaseStep DEF Releases
<1>8. CASE GiveUp(p)
  <2>1. UNCHANGED applied /\ exec' = [exec EXCEPT ![p] = NoExec]
    BY <1>8 DEF GiveUp, Stops
  <2>2. Mark(exec[p].key, exec[p].token, "failed")
    BY <1>8 DEF GiveUp
  <2> QED
    BY <2>1, <2>2, MarkReleaseStep DEF Releases
<1> QED
  BY <1>1, <1>2, <1>3, <1>4, <1>5, <1>6, <1>7, <1>8 DEF ExecutorStep

\* Commands, time-outs, shutdown and crash stop an executor at most.
LEMMA OutsideKeeps ==
    ASSUME IInv, NEW p \in Gateways,
           Control(p) \/ NodeTimesOut(p) \/ Close(p) \/ Exit(p) \/ CrashGateway(p)
    PROVE  IInv'
<1>1. CASE Pause(p) \/ ResumeMission(p) \/ Steer(p)
  BY <1>1, StillStep DEF Pause, ResumeMission, Steer
<1>2. CASE Cancel(p)
  <2>1. UNCHANGED ledger /\ (Abort(p) \/ UNCHANGED <<exec, applied>>)
    BY <1>2 DEF Cancel
  <2> QED
    BY <2>1, AbortStep, StillStep
<1>3. CASE NodeTimesOut(p)
  BY <1>3, AbortStep DEF NodeTimesOut
<1>4. CASE Close(p)
  <2>1. UNCHANGED ledger /\ (Abort(p) \/ UNCHANGED <<exec, applied>>)
    BY <1>4 DEF Close
  <2> QED
    BY <2>1, AbortStep, StillStep
<1>5. CASE Exit(p)
  BY <1>5, ReleaseStep DEF Exit, Releases, worldVars
<1>6. CASE CrashGateway(p)
  <2>1. UNCHANGED ledger /\ Releases(p)
    BY <1>6 DEF CrashGateway, Releases
  <2>2. \/ UNCHANGED applied
        \/ /\ exec[p].phase = "applying"
           /\ \E done \in 0 .. 1 : applied' = [applied EXCEPT ![exec[p].key] = @ + done]
    BY <1>6 DEF CrashGateway
  <2> QED
    BY <2>1, <2>2, EndStep
<1> QED
  BY <1>1, <1>2, <1>3, <1>4, <1>5, <1>6 DEF Control
--------------------------------------------------------------------------------
LEMMA NextIInv == IInv /\ [MissionNext]_missionVars => IInv'
<1> SUFFICES ASSUME IInv, [MissionNext]_missionVars PROVE IInv'
  OBVIOUS
<1>1. CASE UNCHANGED missionVars
  BY <1>1, StillStep DEF missionVars, worldVars
<1>2. ASSUME NEW p \in Gateways, Submit(p) PROVE IInv'
  BY <1>2, StillStep DEF Submit, worldVars
<1>3. ASSUME NEW p \in Gateways, StreamProgress(p) PROVE IInv'
  <2>1. UNCHANGED <<ledger, applied>> /\ Releases(p)
    BY <1>3 DEF StreamProgress, Sets, Releases, worldVars
  <2> QED
    BY <2>1, ReleaseStep
<1>4. CASE BecomesLate \/ \E n \in Nodes : LeaseLapses(n)
  BY <1>4, StillStep DEF BecomesLate, LeaseLapses, worldVars
<1> QED
  BY <1>1, <1>2, <1>3, <1>4, RunStepKeeps, ExecutorStepKeeps, OutsideKeeps DEF MissionNext

\* The site applies every effect at most once, whatever aborts, recovers or
\* races the mission, for any graph and any number of gateways: the ledger's
\* claim is taken once and comes before the call (SqliteGovernedFrappeEffectStore).
THEOREM AppliedAtMostOnce == MissionSpec => []EffectAppliedOnce
<1>1. IInv => EffectAppliedOnce
  BY DEF IInv
<1> QED
  BY InitIInv, NextIInv, <1>1, PTL DEF MissionSpec
--------------------------------------------------------------------------------
(* The log and its copies, which the rest of the proofs is about.          *)

NodeShaped(nd) ==
    nd = [state |-> nd.state, attempt |-> nd.attempt, token |-> nd.token, leased |-> nd.leased,
          inFlight |-> nd.inFlight, next |-> nd.next, iteration |-> nd.iteration]
MissionShaped(m) ==
    /\ m.sequence \in Nat
    /\ m.node = [n \in Nodes |-> m.node[n]]
    /\ \A n \in Nodes : NodeShaped(m.node[n])
RunShaped(r) ==
    /\ r = [pc |-> r.pc, hold |-> r.hold, answer |-> r.answer, node |-> r.node,
            token |-> r.token, iteration |-> r.iteration, seen |-> r.seen,
            chosen |-> r.chosen, progress |-> r.progress, next |-> r.next,
            failure |-> r.failure, controller |-> r.controller, cancel |-> r.cancel,
            closed |-> r.closed]
    /\ r.chosen = [n \in Nodes |-> r.chosen[n]]

LogShaped ==
    /\ MissionShaped(mission)
    /\ view = [p \in Gateways |-> view[p]] /\ \A p \in Gateways : MissionShaped(view[p])
RunsShaped == run = [p \in Gateways |-> run[p]] /\ \A p \in Gateways : RunShaped(run[p])

\* A copy is the log, or what the log was one event ago, or older.
Follows(v) ==
    /\ v.sequence <= mission.sequence
    /\ v.sequence = mission.sequence => v = mission
    /\ v.sequence + 1 = mission.sequence => mission = Reduced(v, mission.last)
CopiesFollow == Follows(Pending) /\ \A p \in Gateways : Follows(view[p])

LogInv == LogShaped /\ CopiesFollow

NodeTypes == {"node_started", "lease_claimed", "effect_started", "effect_committed",
              "node_progress", "node_completed", "node_failed"}
RunTypes == {"mission_started", "pause_requested", "paused", "resumed", "steered",
             "cancellation_requested", "cancelling", "cancelled", "compensation_started",
             "compensation_completed", "compensation_failed", "mission_failed",
             "mission_completed"}
WellFormed(e) ==
    \/ e.type \in NodeTypes /\ e.node \in Nodes
    \/ e.type \in RunTypes /\ e.node = NoNode
--------------------------------------------------------------------------------
\* What an event does to its node, field by field.
LEMMA NodeAfterFacts ==
    ASSUME NEW m, NEW e, e.type \in NodeTypes, e.node \in Nodes, NodeShaped(m.node[e.node])
    PROVE  LET nd == m.node[e.node]
               nx == NodeAfter(m, e)
           IN  /\ NodeShaped(nx)
               /\ nx.state = IF e.type = "node_started" THEN "running"
                             ELSE IF e.type = "node_completed" THEN "completed"
                             ELSE IF e.type = "node_failed" THEN "failed" ELSE nd.state
               /\ nx.next = IF e.type = "node_completed" THEN e.next ELSE nd.next
               /\ nx.inFlight = IF e.type = "node_started" THEN {}
                                ELSE IF e.type = "effect_started"
                                  THEN nd.inFlight \cup ({e.key} \ m.committed)
                                ELSE IF e.type = "effect_committed" THEN nd.inFlight \ {e.key}
                                ELSE nd.inFlight
<1>1. CASE e.type = "node_started"
  BY <1>1 DEF NodeAfter, NodeShaped
<1>2. CASE e.type = "lease_claimed"
  BY <1>2 DEF NodeAfter, NodeShaped
<1>3. CASE e.type = "effect_started"
  BY <1>3 DEF NodeAfter, NodeShaped
<1>4. CASE e.type = "effect_committed"
  BY <1>4 DEF NodeAfter, NodeShaped
<1>5. CASE e.type = "node_progress"
  BY <1>5 DEF NodeAfter, NodeShaped
<1>6. CASE e.type = "node_completed"
  BY <1>6 DEF NodeAfter, NodeShaped
<1>7. CASE e.type = "node_failed"
  BY <1>7 DEF NodeAfter, NodeShaped
<1> QED
  BY <1>1, <1>2, <1>3, <1>4, <1>5, <1>6, <1>7 DEF NodeTypes

LEMMA ReducedFacts ==
    ASSUME NEW m, NEW e, MissionShaped(m), WellFormed(e)
    PROVE  /\ MissionShaped(Reduced(m, e))
           /\ Reduced(m, e).sequence = m.sequence + 1 /\ Reduced(m, e).last = e
           /\ e.type \in NodeTypes => Reduced(m, e).node[e.node] = NodeAfter(m, e)
           /\ Reduced(m, e).committed =
                IF e.type = "effect_committed" THEN m.committed \cup {e.key} ELSE m.committed
<1>0. NoNode \notin Nodes
  BY DEF NoNode, Nodes
<1>1. CASE e.type \in NodeTypes /\ e.node \in Nodes
  <2>1. /\ Reduced(m, e).node = [m.node EXCEPT ![e.node] = NodeAfter(m, e)]
        /\ Reduced(m, e).sequence = m.sequence + 1 /\ Reduced(m, e).last = e
        /\ Reduced(m, e).committed =
                IF e.type = "effect_committed" THEN m.committed \cup {e.key} ELSE m.committed
    BY <1>0, <1>1 DEF Reduced
  <2>2. NodeShaped(NodeAfter(m, e))
    BY <1>1, NodeAfterFacts DEF MissionShaped
  <2> QED
    BY <1>1, <2>1, <2>2 DEF MissionShaped
<1>2. CASE e.type \in RunTypes /\ e.node = NoNode
  <2>1. /\ Reduced(m, e).node = m.node
        /\ Reduced(m, e).sequence = m.sequence + 1 /\ Reduced(m, e).last = e
        /\ Reduced(m, e).committed = m.committed
    BY <1>2 DEF Reduced, RunTypes
  <2>2. e.type \notin NodeTypes /\ e.type # "effect_committed"
    BY <1>2 DEF RunTypes, NodeTypes
  <2> QED
    BY <2>1, <2>2 DEF MissionShaped
<1> QED
  BY <1>1, <1>2 DEF WellFormed

LEMMA OtherNodesStay ==
    ASSUME NEW m, NEW e, MissionShaped(m), WellFormed(e)
    PROVE  \A n \in Nodes : n # e.node => Reduced(m, e).node[n] = m.node[n]
<1>1. CASE e.node = NoNode
  BY <1>1 DEF Reduced
<1>2. CASE e.node # NoNode
  BY <1>2 DEF Reduced, MissionShaped
<1> QED
  BY <1>1, <1>2

\* An event another process wrote as well changes nothing; any other is the next.
LEMMA AcceptedIsNext ==
    ASSUME LogInv, NEW p \in Gateways, NEW e, Accepted(p, e)
    PROVE  /\ mission' = Reduced(view[p], e)
           /\ view'[p] = mission' /\ view' = [q \in Gateways |-> view'[q]]
           /\ \A q \in Gateways \ {p} : view'[q] = view[q]
           /\ Reducible(view[p], e, lapsed)
           /\ \/ mission' = mission
              \/ view[p] = mission /\ mission' = Reduced(mission, e)
<1>1. mission' = Reduced(view[p], e) /\ view' = [view EXCEPT ![p] = mission']
      /\ Reducible(view[p], e, lapsed)
  BY DEF Accepted
<1>2. CASE view[p].sequence = mission.sequence
  BY <1>1, <1>2 DEF LogInv, CopiesFollow, Follows, LogShaped
<1>3. CASE Twin(p, e)
  BY <1>1, <1>3 DEF LogInv, CopiesFollow, Follows, Twin, LogShaped
<1> QED
  BY <1>2, <1>3 DEF Accepted

\* The log grows by one event, and every copy is as far behind as it was or one
\* event more.
LEMMA LogGrows ==
    ASSUME LogInv, NEW e, WellFormed(e), mission' = Reduced(mission, e),
           view' = [p \in Gateways |-> view'[p]],
           \A p \in Gateways : view'[p] = view[p] \/ view'[p] = mission'
    PROVE  LogInv'
<1>1. MissionShaped(mission') /\ mission'.sequence = mission.sequence + 1 /\ mission'.last = e
  BY ReducedFacts DEF LogInv, LogShaped
<1>2. ASSUME NEW v, v.sequence \in Nat, Follows(v) PROVE Follows(v)'
  <2>1. v.sequence <= mission'.sequence /\ v.sequence # mission'.sequence
    BY <1>1, <1>2 DEF Follows, LogInv, LogShaped, MissionShaped
  <2>2. ASSUME v.sequence + 1 = mission'.sequence
        PROVE  mission' = Reduced(v, mission'.last)
    <3>1. v = mission
      BY <1>1, <1>2, <2>2 DEF Follows, LogInv, LogShaped, MissionShaped
    <3> QED
      BY <1>1, <3>1
  <2> QED
    BY <2>1, <2>2 DEF Follows
<1>3. Follows(mission)'
  BY <1>1 DEF Follows, MissionShaped
<1>4. Follows(Pending)'
  BY <1>2 DEF LogInv, CopiesFollow, Pending
<1>5. \A p \in Gateways : Follows(view[p])'
  <2> SUFFICES ASSUME NEW p \in Gateways PROVE Follows(view[p])'
    OBVIOUS
  <2>1. CASE view'[p] = mission'
    BY <2>1, <1>3 DEF Follows
  <2>2. CASE view'[p] = view[p]
    <3>1. view[p].sequence \in Nat /\ Follows(view[p])
      BY DEF LogInv, LogShaped, CopiesFollow, MissionShaped
    <3> QED
      BY <1>2, <2>2, <3>1 DEF Follows
  <2> QED
    BY <2>1, <2>2
<1> QED
  BY <1>1, <1>4, <1>5 DEF LogInv, LogShaped, CopiesFollow
--------------------------------------------------------------------------------
(* What the log says of the graph and of the effects.                      *)

\* A set around the entry that the choices of the completed nodes do not leave.
ClosedIn(m, S) ==
    1 \in S /\ \A n \in S : m.node[n].state = "completed" => m.node[n].next \subseteq S

\* Every such set holds every node that was ever started.
OnlyReached ==
    "recovery" \in raced \/ \A n \in Nodes : mission.node[n].state # "none" =>
      \A S \in SUBSET Nodes : ClosedIn(mission, S) => n \in S
NextInGraph == \A n \in Nodes : mission.node[n].next \subseteq Nodes

\* An effect is in flight in a node that runs or failed, and in none of a mission
\* that is paused or cancelled, or completed by a recovery that read its events once.
FlightsRun ==
    \A n \in Nodes : mission.node[n].inFlight # {} => mission.node[n].state \in {"running", "failed"}
NoneLeft ==
    \/ mission.status \in {"paused", "cancelled"}
    \/ mission.status = "completed" /\ "recovery" \notin raced
    => InFlight(mission) = {}

\* What the log calls committed is committed in the ledger.
LogTrue == \A k \in mission.committed : k \in Keys /\ ledger[k].state = "committed"

GraphInv == OnlyReached /\ NextInGraph /\ FlightsRun /\ NoneLeft /\ LogTrue

Recorded(k) == k \in mission.committed \cup InFlight(mission)

\* What the writer of an event knows from its copy v of the log.
Reaches(v, n) == \A S \in SUBSET Nodes : ClosedIn(v, S) => n \in S
Sound(v, e) ==
    /\ WellFormed(e)
    /\ e.type \in NodeTypes \ {"node_started"} => v.node[e.node].state = "running"
    /\ e.next \subseteq Nodes
    /\ e.type = "effect_committed" => e.key \in Keys /\ ledger[e.key].state = "committed"
    /\ "recovery" \notin raced =>
         /\ e.type = "node_started" => Reaches(v, e.node)
         /\ e.type = "mission_completed" =>
              \A n \in Nodes : Reaches(v, n) => v.node[n].state = "completed"

\* Nothing but the log may change what a recovery or a commit established.
LedgerKeeps ==
    /\ raced \subseteq raced'
    /\ \A k \in Keys : ledger[k].state = "committed" => ledger'[k].state = "committed"
--------------------------------------------------------------------------------
LEMMA QuietGraph ==
    ASSUME GraphInv, LedgerKeeps, UNCHANGED mission
    PROVE  GraphInv'
<1>1. OnlyReached' /\ NextInGraph' /\ FlightsRun' /\ NoneLeft'
  BY DEF GraphInv, LedgerKeeps, OnlyReached, NextInGraph, FlightsRun, NoneLeft, ClosedIn, InFlight
<1>2. LogTrue'
  BY DEF GraphInv, LedgerKeeps, LogTrue
<1> QED
  BY <1>1, <1>2 DEF GraphInv

\* Which statuses an event leads to, and out of which.
LEMMA StatusAfter ==
    ASSUME NEW m, NEW e, WellFormed(e), Reducible(m, e, lapsed)
    PROVE  /\ m.status \notin Final
           /\ Reduced(m, e).status \in {"paused", "cancelled"} =>
                \/ e.type \in {"paused", "cancelled"}
                \/ e.type # "effect_started" /\ m.status = "paused"
           /\ Reduced(m, e).status = "completed" => e.type = "mission_completed"
           /\ e.type \in {"paused", "cancelled"} => InFlight(m) = {}
<1>1. CASE e.type \in NodeTypes
  <2>1. e.type \notin DOMAIN LeadsTo
    BY <1>1 DEF NodeTypes, LeadsTo
  <2>2. Reduced(m, e).status = m.status
    BY <2>1 DEF Reduced
  <2>3. m.status \in Unfinished /\ (e.type = "effect_started" => m.status = "running")
    BY <1>1 DEF Reducible, AcceptedIn, NodeTypes, Unfinished, Steerable
  <2> QED
    BY <1>1, <2>2, <2>3 DEF NodeTypes, Unfinished, Steerable, Final
<1>2. CASE e.type \in RunTypes
  <2>1. m.status \notin Final
    BY <1>2 DEF Reducible, AcceptedIn, RunTypes, Steerable, Final
  <2>2. Reduced(m, e).status = IF e.type = "steered" THEN m.status ELSE LeadsTo[e.type]
    BY <1>2 DEF Reduced, RunTypes, LeadsTo
  <2>3. e.type # "steered" =>
          /\ LeadsTo[e.type] \in {"paused", "cancelled"} => e.type \in {"paused", "cancelled"}
          /\ LeadsTo[e.type] = "completed" => e.type = "mission_completed"
    BY <1>2 DEF RunTypes, LeadsTo
  <2> QED
    BY <1>2, <2>1, <2>2, <2>3 DEF RunTypes, Final, Reducible
<1> QED
  BY <1>1, <1>2 DEF WellFormed

\* An accepted event of a process that knows its node keeps all of it.
LEMMA EventGraph ==
    ASSUME LogInv, GraphInv, LedgerKeeps, NEW e, Sound(mission, e),
           Reducible(mission, e, lapsed), mission' = Reduced(mission, e)
    PROVE  GraphInv' /\ \A k : Recorded(k) => Recorded(k)'
<1> DEFINE m == mission
           m2 == mission'
           nd == m.node[e.node]
<1>1. /\ MissionShaped(m)
      /\ e.type \in NodeTypes => m2.node[e.node] = NodeAfter(m, e)
      /\ \A n \in Nodes : n # e.node => m2.node[n] = m.node[n]
      /\ e.type \in NodeTypes \/ e.node \notin Nodes
      /\ m2.committed =
                IF e.type = "effect_committed" THEN m.committed \cup {e.key} ELSE m.committed
  <2>1. MissionShaped(mission) /\ WellFormed(e)
    BY DEF LogInv, LogShaped, Sound
  <2>2. e.type \in NodeTypes \/ e.node \notin Nodes
    BY <2>1 DEF WellFormed, NoNode, Nodes
  <2> QED
    BY <2>1, <2>2, ReducedFacts, OtherNodesStay
<1>2. ASSUME e.type \in NodeTypes
      PROVE  /\ e.node \in Nodes
             /\ m2.node[e.node].state = IF e.type = "node_completed" THEN "completed"
                             ELSE IF e.type = "node_failed" THEN "failed" ELSE "running"
             /\ m2.node[e.node].next = IF e.type = "node_completed" THEN e.next ELSE nd.next
             /\ m2.node[e.node].inFlight = IF e.type = "node_started" THEN {}
                                ELSE IF e.type = "effect_started"
                                  THEN nd.inFlight \cup ({e.key} \ m.committed)
                                ELSE IF e.type = "effect_committed" THEN nd.inFlight \ {e.key}
                                ELSE nd.inFlight
             /\ nd.state # "completed"
             /\ e.type \in {"node_started", "node_completed"} => nd.inFlight = {}
             /\ e.type # "node_started" => nd.state = "running"
  <2>1. e.node \in Nodes /\ e.node # NoNode
    BY <1>2 DEF Sound, WellFormed, NodeTypes, RunTypes, NoNode, Nodes
  <2>2. NodeAdmits(m, e)
    BY <2>1 DEF Reducible
  <2>3. e.type # "node_started" => nd.state = "running"
    BY <1>2 DEF Sound
  <2>4. NodeShaped(nd)
    BY <1>1, <2>1 DEF MissionShaped
  <2>5. m2.node[e.node] = NodeAfter(m, e)
    BY <1>1, <1>2, <2>1
  <2>6. /\ NodeAfter(m, e).state = IF e.type = "node_started" THEN "running"
                             ELSE IF e.type = "node_completed" THEN "completed"
                             ELSE IF e.type = "node_failed" THEN "failed" ELSE nd.state
        /\ NodeAfter(m, e).next = IF e.type = "node_completed" THEN e.next ELSE nd.next
        /\ NodeAfter(m, e).inFlight = IF e.type = "node_started" THEN {}
                                ELSE IF e.type = "effect_started"
                                  THEN nd.inFlight \cup ({e.key} \ m.committed)
                                ELSE IF e.type = "effect_committed" THEN nd.inFlight \ {e.key}
                                ELSE nd.inFlight
    BY <1>2, <2>1, <2>4, NodeAfterFacts
  <2>7. /\ nd.state # "completed"
        /\ e.type \in {"node_started", "node_completed"} => nd.inFlight = {}
    BY <1>2, <2>2, <2>3 DEF NodeAdmits
  <2> QED
    BY <1>2, <2>1, <2>3, <2>5, <2>6, <2>7
<1>3. ASSUME NEW n \in Nodes, m.node[n].state = "completed" PROVE m2.node[n] = m.node[n]
  BY <1>1, <1>2, <1>3
<1>4. ASSUME NEW S \in SUBSET Nodes, ClosedIn(m2, S) PROVE ClosedIn(m, S)
  BY <1>3, <1>4 DEF ClosedIn
<1>5. OnlyReached'
  <2>1. SUFFICES ASSUME "recovery" \notin raced', NEW n \in Nodes, m2.node[n].state # "none",
                        NEW S \in SUBSET Nodes, ClosedIn(m2, S)
                 PROVE  n \in S
    BY DEF OnlyReached
  <2>2. "recovery" \notin raced
    BY <2>1 DEF LedgerKeeps
  <2>3. CASE m.node[n].state # "none"
    BY <1>4, <2>1, <2>2, <2>3 DEF GraphInv, OnlyReached
  <2>4. CASE m.node[n].state = "none"
    <3>1. e.type = "node_started" /\ n = e.node
      BY <1>1, <1>2, <2>1, <2>4
    <3>2. Reaches(m, n)
      BY <2>2, <3>1 DEF Sound
    <3> QED
      BY <1>4, <2>1, <3>2 DEF Reaches
  <2> QED
    BY <2>3, <2>4
<1>6. NextInGraph'
  BY <1>1, <1>2 DEF GraphInv, NextInGraph, Sound
<1>7. FlightsRun'
  <2> SUFFICES ASSUME NEW n \in Nodes, m2.node[n].inFlight # {}
               PROVE  m2.node[n].state \in {"running", "failed"}
    BY DEF FlightsRun
  <2>1. CASE e.type \in NodeTypes /\ n = e.node
    BY <1>2, <2>1
  <2>2. CASE ~(e.type \in NodeTypes /\ n = e.node)
    BY <1>1, <2>2 DEF GraphInv, FlightsRun
  <2> QED
    BY <2>1, <2>2
<1>8. ASSUME e.type # "effect_started" PROVE InFlight(m2) \subseteq InFlight(m)
  <2>1. \A n \in Nodes : m2.node[n].inFlight \subseteq m.node[n].inFlight
    BY <1>1, <1>2, <1>8
  <2> QED
    BY <2>1 DEF InFlight
<1>9. NoneLeft'
  <2>1. CASE m2.status \in {"paused", "cancelled"}
    <3>1. InFlight(m) = {}
      BY <2>1, StatusAfter DEF Sound, GraphInv, NoneLeft
    <3>2. e.type # "effect_started"
      BY <2>1, StatusAfter DEF Sound
    <3> QED
      BY <1>8, <3>1, <3>2 DEF NoneLeft
  <2>2. CASE m2.status = "completed" /\ "recovery" \notin raced'
    <3>1. e.type = "mission_completed" /\ "recovery" \notin raced
      BY <2>2, StatusAfter DEF Sound, LedgerKeeps
    <3>2. ASSUME NEW n \in Nodes, m.node[n].inFlight # {} PROVE FALSE
      <4>1. m.node[n].state \in {"running", "failed"}
        BY <3>2 DEF GraphInv, FlightsRun
      <4>2. Reaches(m, n)
        BY <3>1, <4>1 DEF GraphInv, OnlyReached, Reaches
      <4> QED
        BY <3>1, <4>1, <4>2 DEF Sound
    <3>3. InFlight(m) = {}
      BY <3>2 DEF InFlight
    <3> QED
      BY <1>8, <3>1, <3>3 DEF NoneLeft
  <2> QED
    BY <2>1, <2>2 DEF NoneLeft
<1>10. LogTrue'
  <2>1. \A k \in m2.committed : k \in Keys /\ ledger[k].state = "committed"
    BY <1>1 DEF GraphInv, LogTrue, Sound
  <2> QED
    BY <2>1 DEF LogTrue, LedgerKeeps
<1>11. ASSUME NEW k, Recorded(k) PROVE Recorded(k)'
  <2>1. CASE k \in m.committed
    BY <1>1, <2>1 DEF Recorded
  <2>2. ASSUME NEW n \in Nodes, k \in m.node[n].inFlight PROVE Recorded(k)'
    <3>1. CASE e.type \in NodeTypes /\ n = e.node
      BY <1>1, <1>2, <2>2, <3>1 DEF Recorded, InFlight
    <3>2. CASE ~(e.type \in NodeTypes /\ n = e.node)
      BY <1>1, <2>2, <3>2 DEF Recorded, InFlight
    <3> QED
      BY <3>1, <3>2
  <2> QED
    BY <1>11, <2>1, <2>2 DEF Recorded, InFlight
<1> QED
  BY <1>5, <1>6, <1>7, <1>9, <1>10, <1>11 DEF GraphInv
--------------------------------------------------------------------------------
(* A step of the log.                                                      *)

LEMMA PendingShaped == MissionShaped(Pending)
BY DEF MissionShaped, Pending, NodeShaped, Untouched

\* An accepted event of a writer that knows what it does keeps all of it.
LEMMA AcceptedKeeps ==
    ASSUME LogInv, GraphInv, LedgerKeeps, NEW p \in Gateways, NEW e, Sound(view[p], e),
           Accepted(p, e)
    PROVE  /\ LogInv' /\ GraphInv' /\ \A k : Recorded(k) => Recorded(k)'
           /\ mission' = mission \/ mission'.sequence = mission.sequence + 1
<1>1. /\ view'[p] = mission' /\ view' = [q \in Gateways |-> view'[q]]
      /\ \A q \in Gateways : view'[q] = view[q] \/ view'[q] = mission'
  BY AcceptedIsNext
<1>2. CASE mission' = mission
  <2>1. LogInv'
    BY <1>1, <1>2 DEF LogInv, LogShaped, CopiesFollow, Follows, MissionShaped
  <2>2. \A k : Recorded(k) => Recorded(k)'
    BY <1>2 DEF Recorded
  <2> QED
    BY <1>2, <2>1, <2>2, QuietGraph
<1>3. CASE view[p] = mission /\ mission' = Reduced(mission, e)
  <2>1. Reducible(mission, e, lapsed) /\ Sound(mission, e) /\ WellFormed(e)
    BY <1>3, AcceptedIsNext DEF Sound
  <2>2. LogInv'
    BY <1>1, <1>3, <2>1, LogGrows
  <2>3. GraphInv' /\ \A k : Recorded(k) => Recorded(k)'
    BY <1>3, <2>1, EventGraph
  <2>4. mission'.sequence = mission.sequence + 1
    BY <1>3, <2>1, ReducedFacts DEF LogInv, LogShaped
  <2> QED
    BY <2>2, <2>3, <2>4
<1> QED
  BY <1>2, <1>3, AcceptedIsNext

\* A process that reads the log, or forgets its copy, changes nothing of it.
LEMMA ReadKeeps ==
    ASSUME LogInv, GraphInv, LedgerKeeps, UNCHANGED mission,
           view' = [q \in Gateways |-> view'[q]],
           \A q \in Gateways : view'[q] \in {view[q], mission, Pending}
    PROVE  LogInv' /\ GraphInv' /\ \A k : Recorded(k) => Recorded(k)'
<1>1. Follows(mission)
  BY DEF Follows, LogInv, LogShaped, MissionShaped
<1>2. \A q \in Gateways : Follows(view'[q])
  BY <1>1 DEF LogInv, CopiesFollow
<1>3. CopiesFollow'
  BY <1>2 DEF LogInv, CopiesFollow, Follows
<1>4. LogShaped'
  BY PendingShaped DEF LogInv, LogShaped
<1>5. \A k : Recorded(k) => Recorded(k)'
  BY DEF Recorded
<1> QED
  BY <1>3, <1>4, <1>5, QuietGraph DEF LogInv
--------------------------------------------------------------------------------
(* Where the processes are, and what they know of the graph.               *)

NodePcs == {"lease", "begin", "work", "result", "asking", "yielding", "done", "failing"}
WalkPcs == NodePcs \cup {"pick", "held"}
AtNode(r) == r.pc \in NodePcs \/ (r.pc = "held" /\ r.hold # "pick")

\* A process is inside a node that runs in its copy of the log.
Placed(r, v) ==
    /\ r.next \subseteq Nodes
    /\ r.pc = "held" => r.hold \in {"pick", "node"}
    /\ r.pc = "result" => r.answer \in Continuations
    /\ AtNode(r) => r.node \in Nodes /\ v.node[r.node].state = "running"

\* What it takes for the choice of a completed node is what the node chose.
Knows(r, v) ==
    r.pc \in WalkPcs =>
      \A n \in Nodes : v.node[n].state = "completed" => r.chosen[n] = v.node[n].next

\* What a recovery read first is the log, unless it has grown.
Recovers(r, m) ==
    r.pc = "rehydrate" =>
      /\ r.seen \in Nat /\ r.seen <= m.sequence
      /\ r.seen = m.sequence => r.chosen = Selected(m)

Fits(r, v, m) ==
    RunShaped(r) /\ Placed(r, v) /\ Recovers(r, m) /\ ("recovery" \notin raced => Knows(r, v))
PlacesInv ==
    /\ run = [p \in Gateways |-> run[p]]
    /\ \A p \in Gateways : Fits(run[p], view[p], mission)

\* A copy in which nodes run and chose as in another one.
Alike(v, w) ==
    \A n \in Nodes : w.node[n].state = v.node[n].state /\ w.node[n].next = v.node[n].next

LEMMA CalmEvent ==
    ASSUME NEW v, MissionShaped(v), NEW e, WellFormed(e),
           e.type \notin {"node_started", "node_completed", "node_failed"}
    PROVE  Alike(v, Reduced(v, e))
<1> SUFFICES ASSUME NEW n \in Nodes
             PROVE  /\ Reduced(v, e).node[n].state = v.node[n].state
                    /\ Reduced(v, e).node[n].next = v.node[n].next
  BY DEF Alike
<1>1. CASE n # e.node
  BY <1>1, OtherNodesStay
<1>2. CASE n = e.node
  <2>1. e.type \in NodeTypes /\ NodeShaped(v.node[e.node]) /\ e.node \in Nodes
    BY <1>2 DEF WellFormed, NoNode, Nodes, MissionShaped
  <2>2. Reduced(v, e).node[e.node] = NodeAfter(v, e)
    BY <2>1, ReducedFacts
  <2>3. /\ NodeAfter(v, e).state = v.node[e.node].state
        /\ NodeAfter(v, e).next = v.node[e.node].next
    BY <2>1, NodeAfterFacts
  <2> QED
    BY <1>2, <2>2, <2>3
<1> QED
  BY <1>1, <1>2

\* A process that stays in its node, or is none of those that walk.
LEMMA StaysFit ==
    ASSUME NEW r, NEW v, NEW m, Fits(r, v, m), r.pc \in NodePcs, NEW w, Alike(v, w), NEW m2,
           NEW x, RunShaped(x), x.next \subseteq Nodes, x.node = r.node, x.chosen = r.chosen,
           x.pc \in NodePcs \/ (x.pc = "held" /\ x.hold = "node"),
           x.pc = "result" => x.answer \in Continuations
    PROVE  Fits(x, w, m2)
<1>1. r.node \in Nodes /\ v.node[r.node].state = "running"
  BY DEF Fits, Placed, AtNode
<1>2. Placed(x, w)
  BY <1>1 DEF Placed, AtNode, Alike, NodePcs
<1>3. Recovers(x, m2)
  BY DEF Recovers, NodePcs
<1>4. "recovery" \notin raced => Knows(x, w)
  BY DEF Fits, Knows, Alike, WalkPcs
<1> QED
  BY <1>2, <1>3, <1>4 DEF Fits

LEMMA WalksFit ==
    ASSUME NEW r, NEW v, NEW m, Fits(r, v, m), r.pc \in WalkPcs, NEW w, Alike(v, w), NEW m2,
           NEW x, RunShaped(x), x.next \subseteq Nodes, x.chosen = r.chosen,
           x.pc = "pick" \/ (x.pc = "held" /\ x.hold = "pick")
    PROVE  Fits(x, w, m2)
<1>1. Placed(x, w) /\ Recovers(x, m2)
  BY DEF Placed, AtNode, NodePcs, Recovers
<1>2. "recovery" \notin raced => Knows(x, w)
  BY DEF Fits, Knows, Alike, WalkPcs
<1> QED
  BY <1>1, <1>2 DEF Fits

LEMMA IdleFits ==
    ASSUME NEW x, RunShaped(x), x.next \subseteq Nodes, x.pc \notin WalkPcs \cup {"rehydrate"},
           NEW w, NEW m
    PROVE  Fits(x, w, m)
BY DEF Fits, Placed, AtNode, Recovers, Knows, WalkPcs, NodePcs

LEMMA AsleepFits ==
    ASSUME NEW w, NEW m
    PROVE  /\ Fits(Asleep, w, m)
           /\ \A r : RunShaped(Ended(r)) /\ Fits(Ended(r), w, m)
<1>1. RunShaped(Asleep) /\ Asleep.next = {} /\ Asleep.pc = "none"
  BY DEF RunShaped, Asleep, Every
<1>2. ASSUME NEW r PROVE RunShaped(Ended(r)) /\ Ended(r).next = {} /\ Ended(r).pc = "ended"
  <2> DEFINE a == Asleep
             c == r.cancel
             d == r.closed
  <2>1. RunShaped(a) /\ a.next = {}
    BY <1>1
  <2>2. Ended(r) = [a EXCEPT !.pc = "ended", !.cancel = c, !.closed = d]
    BY DEF Ended
  <2> HIDE DEF a, c, d
  <2> QED
    BY <2>1, <2>2 DEF RunShaped
<1> QED
  BY <1>1, <1>2, IdleFits DEF WalkPcs, NodePcs
--------------------------------------------------------------------------------
(* What every step of a process does to the log and to its place.          *)

LogMoves(p) ==
    \/ \E e : Sound(view[p], e) /\ Accepted(p, e)
    \/ /\ UNCHANGED mission /\ view' = [q \in Gateways |-> view'[q]]
       /\ view'[p] \in {view[p], mission, Pending}
       /\ \A q \in Gateways \ {p} : view'[q] = view[q]

Lands(p, x) ==
    /\ run' = [run EXCEPT ![p] = x]
    /\ RunShaped(x) /\ Placed(x, view'[p]) /\ Recovers(x, mission')
    /\ "recovery" \notin raced' => Knows(x, view'[p])

Good(p) == raced \subseteq raced' /\ LogMoves(p) /\ \E x : Lands(p, x)

LEMMA StillMoves ==
    ASSUME LogInv, NEW p \in Gateways, UNCHANGED <<mission, view>>
    PROVE  LogMoves(p)
BY DEF LogMoves, LogInv, LogShaped

LEMMA FitsLands ==
    ASSUME NEW p \in Gateways, NEW x, run' = [run EXCEPT ![p] = x], raced \subseteq raced',
           Fits(x, view'[p], mission')
    PROVE  Lands(p, x)
BY DEF Fits, Lands

LEMMA EmitGood ==
    ASSUME LogInv, NEW p \in Gateways, NEW e, NEW then, NEW else, Emit(p, e, then, else),
           Sound(view[p], e), Fits(then, Reduced(view[p], e), mission'),
           Fits(else, view[p], mission)
    PROVE  Good(p)
<1>1. raced \subseteq raced'
  BY DEF Emit
<1>2. CASE Accepted(p, e) /\ run' = [run EXCEPT ![p] = then]
  <2>1. view'[p] = Reduced(view[p], e)
    BY <1>2, AcceptedIsNext
  <2>2. Lands(p, then)
    BY <1>1, <1>2, <2>1, FitsLands
  <2> QED
    BY <1>1, <1>2, <2>2 DEF Good, LogMoves
<1>3. CASE Refused(p, e) /\ run' = [run EXCEPT ![p] = else]
  <2>1. UNCHANGED <<mission, view>>
    BY <1>3 DEF Refused, logVars
  <2>2. Lands(p, else)
    BY <1>1, <1>3, <2>1, FitsLands
  <2> QED
    BY <1>1, <2>1, <2>2, StillMoves DEF Good
<1> QED
  BY <1>2, <1>3 DEF Emit

\* A step of a process that appends nothing.
LEMMA StillGood ==
    ASSUME LogInv, NEW p \in Gateways, UNCHANGED <<mission, view>>, raced \subseteq raced',
           NEW x, run' = [run EXCEPT ![p] = x], Fits(x, view[p], mission)
    PROVE  Good(p)
BY StillMoves, FitsLands DEF Good

LEMMA OfNodeFacts ==
    ASSUME NEW p, NEW t
    PROVE  /\ OfNode(p, t).type = t /\ OfNode(p, t).node = run[p].node /\ OfNode(p, t).next = {}
           /\ \A i : LET e == [OfNode(p, t) EXCEPT !.iteration = i]
                     IN  e.type = t /\ e.node = run[p].node /\ e.next = {}
           /\ \A S : LET e == [OfNode(p, t) EXCEPT !.next = S]
                     IN  e.type = t /\ e.node = run[p].node /\ e.next = S
           /\ \A k : LET e == [OfNode(p, t) EXCEPT !.key = k]
                     IN  e.type = t /\ e.node = run[p].node /\ e.next = {} /\ e.key = k
BY DEF OfNode, RunEvent

LEMMA RunEventFacts ==
    ASSUME NEW t
    PROVE  RunEvent(t).type = t /\ RunEvent(t).node = NoNode /\ RunEvent(t).next = {}
BY DEF RunEvent

\* An event of the mission itself is sound, but for its completion; one of the
\* node a process is in is, when the process records no effect with it.
LEMMA RunEventSound ==
    ASSUME NEW v, NEW t \in RunTypes \ {"mission_completed"}
    PROVE  Sound(v, RunEvent(t)) /\ Alike(v, Reduced(v, RunEvent(t)))
<1>1. Sound(v, RunEvent(t))
  BY RunEventFacts DEF Sound, WellFormed, RunTypes, NodeTypes
<1>2. Reduced(v, RunEvent(t)).node = v.node
  BY RunEventFacts DEF Reduced
<1> QED
  BY <1>1, <1>2 DEF Alike

LEMMA NodeEventSound ==
    ASSUME NEW r, NEW v, NEW m, Fits(r, v, m), AtNode(r), NEW e, e.node = r.node,
           e.next \subseteq Nodes, e.type \in NodeTypes \ {"node_started", "effect_committed"}
    PROVE  Sound(v, e)
BY DEF Sound, WellFormed, Fits, Placed, NodeTypes

LEMMA NextInNodes ==
    ASSUME NEW n \in Nodes
    PROVE  Graph[n].children \subseteq Nodes
<1>1. Graph[n].children \subseteq n + 1 .. Len(Graph) /\ Len(Graph) \in Nat
  BY GraphAssumption DEF Nodes
<1> QED
  BY <1>1 DEF Nodes
--------------------------------------------------------------------------------
LEMMA NowShaped ==
    ASSUME PlacesInv, NEW p \in Gateways, NEW c
    PROVE  /\ RunShaped(Now(p, c)) /\ Now(p, c).next \subseteq Nodes
           /\ Now(p, c).pc = c /\ Now(p, c).node = run[p].node
           /\ Now(p, c).chosen = run[p].chosen /\ Now(p, c).hold = run[p].hold
           /\ Now(p, c).answer = run[p].answer
BY DEF PlacesInv, Fits, Placed, RunShaped, Now

\* The node a walk goes on with was reached by the choices on record.
LEMMA OpenReached ==
    ASSUME NEW p \in Gateways, Knows(run[p], view[p]), run[p].pc \in WalkPcs, NEW n \in Nodes
    PROVE  n \in ActiveNodes(p) <=> Reaches(view[p], n)
BY DEF Knows, ActiveNodes, Leads, IsDone, Reaches, ClosedIn

LEMMA StartNodeGood ==
    ASSUME LogInv, PlacesInv, NEW p \in Gateways, StartNode(p)
    PROVE  Good(p)
<1>1. run[p].pc = "pick" /\ run[p].pc \in WalkPcs
  BY DEF StartNode, Walks, WalkPcs
<1>2. PICK n \in Nodes :
        /\ IsNext(p, n)
        /\ LET token == view[p].node[n].token + 1
           IN  Emit(p, [RunEvent("node_started") EXCEPT !.node = n, !.attempt = token],
                    [run[p] EXCEPT !.pc = "lease", !.node = n, !.token = token],
                    Now(p, "caught"))
  BY DEF StartNode
<1> DEFINE token == view[p].node[n].token + 1
           e == [RunEvent("node_started") EXCEPT !.node = n, !.attempt = token]
           x == [run[p] EXCEPT !.pc = "lease", !.node = n, !.token = token]
           w == Reduced(view[p], e)
<1>3. e.type = "node_started" /\ e.node = n /\ e.next = {}
  BY DEF RunEvent
<1>4. RunShaped(x) /\ x.next \subseteq Nodes /\ x.pc = "lease" /\ x.node = n
      /\ x.chosen = run[p].chosen
  <2>1. RunShaped(run[p]) /\ run[p].next \subseteq Nodes
    BY DEF PlacesInv, Fits, Placed
  <2> DEFINE r == run[p]
  <2>2. x = [r EXCEPT !.pc = "lease", !.node = n, !.token = token]
    OBVIOUS
  <2> HIDE DEF token, r, x
  <2>3. RunShaped(r) => /\ RunShaped(x) /\ x.next = r.next /\ x.pc = "lease" /\ x.node = n
                        /\ x.chosen = r.chosen
    BY <2>2 DEF RunShaped
  <2> QED
    BY <2>1, <2>3 DEF r
<1>5. MissionShaped(view[p]) /\ Fits(run[p], view[p], mission) /\ n \in ActiveNodes(p) /\ ~IsDone(p, n)
  BY <1>2 DEF LogInv, LogShaped, PlacesInv, IsNext, Open
<1>6. Emit(p, e, x, Now(p, "caught"))
  BY <1>2
<1> HIDE DEF e, x
<1>7. WellFormed(e)
  BY <1>3 DEF WellFormed, NodeTypes
<1>8. Sound(view[p], e)
  BY <1>1, <1>3, <1>5, <1>7, OpenReached DEF Sound, Fits
<1>9. w.node[n].state = "running" /\ \A k \in Nodes : k # n => w.node[k] = view[p].node[k]
  <2>0. e.type \in NodeTypes /\ e.node \in Nodes /\ NodeShaped(view[p].node[e.node])
    BY <1>3, <1>5 DEF NodeTypes, MissionShaped
  <2>1. w.node[e.node] = NodeAfter(view[p], e)
    BY <1>5, <1>7, <2>0, ReducedFacts
  <2>2. NodeAfter(view[p], e).state = "running"
    BY <1>3, <2>0, NodeAfterFacts
  <2>3. \A k \in Nodes : k # n => w.node[k] = view[p].node[k]
    BY <1>3, <1>5, <1>7, OtherNodesStay
  <2> QED
    BY <1>3, <2>1, <2>2, <2>3
<1> HIDE DEF w
<1>10. Fits(x, w, mission')
  <2>1. Placed(x, w) /\ Recovers(x, mission')
    BY <1>4, <1>9 DEF Placed, Recovers
  <2>2. "recovery" \notin raced => Knows(x, w)
    BY <1>1, <1>4, <1>5, <1>9 DEF Fits, Knows
  <2> QED
    BY <1>4, <2>1, <2>2 DEF Fits
<1>11. Fits(Now(p, "caught"), view[p], mission)
  BY NowShaped, IdleFits DEF WalkPcs, NodePcs
<1> QED
  BY <1>6, <1>8, <1>10, <1>11, EmitGood DEF w

LEMMA CompleteNodeGood ==
    ASSUME LogInv, PlacesInv, NEW p \in Gateways, CompleteNode(p)
    PROVE  Good(p)
<1> DEFINE r == run[p]
           n == r.node
           e == [OfNode(p, "node_completed") EXCEPT !.next = r.next]
           x == [r EXCEPT !.pc = "pick", !.controller = "none", !.node = NoNode, !.token = 0,
                          !.iteration = 0, !.answer = "none", !.next = {},
                          !.chosen[n] = r.next]
           w == Reduced(view[p], e)
<1>1. r.pc = "done" /\ Emit(p, e, x, Now(p, "failing"))
  BY DEF CompleteNode
<1>2. Fits(r, view[p], mission) /\ MissionShaped(view[p]) /\ AtNode(r)
  BY <1>1 DEF PlacesInv, LogInv, LogShaped, AtNode, NodePcs
<1>3. n \in Nodes /\ view[p].node[n].state = "running" /\ r.next \subseteq Nodes /\ RunShaped(r)
  BY <1>2 DEF Fits, Placed
<1>4. e.type = "node_completed" /\ e.node = n /\ e.next = r.next
  BY OfNodeFacts
<1>5. RunShaped(x) /\ x.next = {} /\ x.pc = "pick" /\ x.chosen = [r.chosen EXCEPT ![n] = r.next]
  <2> DEFINE c == [r.chosen EXCEPT ![n] = r.next]
  <2>1. x = [r EXCEPT !.pc = "pick", !.controller = "none", !.node = NoNode, !.token = 0,
                      !.iteration = 0, !.answer = "none", !.next = {}, !.chosen = c]
    BY <1>3 DEF RunShaped
  <2>2. c = [k \in Nodes |-> c[k]]
    BY <1>3 DEF RunShaped
  <2> HIDE DEF c, x, n
  <2>3. RunShaped(x) /\ x.next = {} /\ x.pc = "pick" /\ x.chosen = c
    BY <1>3, <2>1, <2>2 DEF RunShaped
  <2> QED
    BY <2>3 DEF c
<1> HIDE DEF e, x
<1>6. WellFormed(e)
  BY <1>3, <1>4 DEF WellFormed, NodeTypes
<1>7. Sound(view[p], e)
  BY <1>2, <1>3, <1>4, NodeEventSound DEF NodeTypes
<1>8. w.node[n].next = r.next /\ \A k \in Nodes : k # n => w.node[k] = view[p].node[k]
  <2>0. e.type \in NodeTypes /\ e.node \in Nodes /\ NodeShaped(view[p].node[e.node])
    BY <1>2, <1>3, <1>4 DEF NodeTypes, MissionShaped
  <2>1. w.node[e.node] = NodeAfter(view[p], e)
    BY <1>2, <1>6, <2>0, ReducedFacts
  <2>2. NodeAfter(view[p], e).next = r.next
    BY <1>4, <2>0, NodeAfterFacts
  <2>3. \A k \in Nodes : k # n => w.node[k] = view[p].node[k]
    BY <1>2, <1>4, <1>6, OtherNodesStay
  <2> QED
    BY <1>4, <2>1, <2>2, <2>3
<1> HIDE DEF w
<1>9. Fits(x, w, mission')
  <2>1. Placed(x, w) /\ Recovers(x, mission')
    BY <1>5 DEF Placed, Recovers, AtNode, NodePcs
  <2>2. "recovery" \notin raced => Knows(x, w)
    <3>1. r.chosen = [k \in Nodes |-> r.chosen[k]]
      BY <1>3 DEF RunShaped
    <3>2. \A k \in Nodes : x.chosen[k] = IF k = n THEN r.next ELSE r.chosen[k]
      BY <1>3, <1>5, <3>1
    <3>3. "recovery" \notin raced => Knows(r, view[p])
      BY <1>2 DEF Fits
    <3> QED
      BY <1>1, <1>8, <3>2, <3>3 DEF Knows, WalkPcs, NodePcs
  <2> QED
    BY <1>5, <2>1, <2>2 DEF Fits
<1>10. Fits(Now(p, "failing"), view[p], mission)
  <2>1. Alike(view[p], view[p])
    BY DEF Alike
  <2> QED
    BY <1>1, <1>2, <2>1, NowShaped, StaysFit DEF NodePcs
<1> QED
  BY <1>1, <1>7, <1>9, <1>10, EmitGood DEF w
--------------------------------------------------------------------------------
LEMMA GoesNow ==
    ASSUME PlacesInv, NEW p \in Gateways, NEW c, Goes(p, c)
    PROVE  run' = [run EXCEPT ![p] = Now(p, c)]
BY DEF Goes, Now, PlacesInv

LEMMA SameAlike == \A v : Alike(v, v)
BY DEF Alike

\* A process that leaves the walk without an event, or goes on in its node.
LEMMA LeavesGood ==
    ASSUME LogInv, PlacesInv, NEW p \in Gateways, UNCHANGED <<mission, view>>,
           raced \subseteq raced',
           \/ Ends(p)
           \/ \E c : c \notin WalkPcs \cup {"rehydrate"} /\ Goes(p, c)
           \/ \E c \in NodePcs \ {"result"} : run[p].pc \in NodePcs /\ Goes(p, c)
    PROVE  Good(p)
<1>1. CASE Ends(p)
  <2>1. run' = [run EXCEPT ![p] = Ended(run[p])]
    BY <1>1 DEF Ends
  <2> QED
    BY <2>1, AsleepFits, StillGood
<1>2. ASSUME NEW c, c \notin WalkPcs \cup {"rehydrate"}, Goes(p, c) PROVE Good(p)
  <2>1. Fits(Now(p, c), view[p], mission)
    BY <1>2, NowShaped, IdleFits
  <2> QED
    BY <1>2, <2>1, GoesNow, StillGood
<1>3. ASSUME NEW c \in NodePcs \ {"result"}, run[p].pc \in NodePcs, Goes(p, c) PROVE Good(p)
  <2>1. Fits(run[p], view[p], mission)
    BY DEF PlacesInv
  <2>2. Fits(Now(p, c), view[p], mission)
    BY <1>3, <2>1, NowShaped, SameAlike, StaysFit
  <2> QED
    BY <1>3, <2>2, GoesNow, StillGood
<1> QED
  BY <1>1, <1>2, <1>3

\* An event of the mission itself, after which the process is none that walks.
LEMMA MissionEventGood ==
    ASSUME LogInv, PlacesInv, NEW p \in Gateways, NEW t \in RunTypes \ {"mission_completed"},
           NEW then, NEW else, Emit(p, RunEvent(t), then, else),
           RunShaped(then), then.next \subseteq Nodes, then.pc \notin WalkPcs \cup {"rehydrate"},
           RunShaped(else), else.next \subseteq Nodes, else.pc \notin WalkPcs \cup {"rehydrate"}
    PROVE  Good(p)
BY EmitGood, RunEventSound, IdleFits

\* A calm event of the node, in which the process stays.
LEMMA NodeEventGood ==
    ASSUME LogInv, PlacesInv, NEW p \in Gateways, run[p].pc \in NodePcs, NEW e,
           e.node = run[p].node, e.next = {}, e.type \in {"lease_claimed", "node_progress"},
           NEW then, NEW else, Emit(p, e, then, else),
           Fits(then, view[p], mission), then.pc \in NodePcs, Fits(else, view[p], mission)
    PROVE  Good(p)
<1>1. Fits(run[p], view[p], mission) /\ AtNode(run[p]) /\ MissionShaped(view[p])
  BY DEF PlacesInv, AtNode, LogInv, LogShaped
<1>2. Sound(view[p], e)
  BY <1>1, NodeEventSound DEF NodeTypes
<1>3. Alike(view[p], Reduced(view[p], e))
  BY <1>1, <1>2, CalmEvent DEF Sound
<1>4. RunShaped(then) /\ then.next \subseteq Nodes /\ (then.pc = "result" => then.answer \in Continuations)
  BY DEF Fits, Placed
<1>5. Fits(then, Reduced(view[p], e), mission')
  BY <1>3, <1>4, StaysFit
<1> QED
  BY <1>2, <1>5, EmitGood
--------------------------------------------------------------------------------
LEMMA SnapshotGood ==
    ASSUME LogInv, PlacesInv, NEW p \in Gateways, Snapshot(p)
    PROVE  Good(p)
<1> DEFINE r == run[p]
           sel == Selected(mission)
           pro == [n \in Nodes |-> mission.node[n].iteration]
           can == mission.status \in {"cancel_requested", "cancelling"}
           seq == mission.sequence
           x == [r EXCEPT !.pc = "rehydrate", !.seen = seq, !.chosen = sel, !.progress = pro,
                          !.cancel = can]
<1>1. run' = [run EXCEPT ![p] = x] /\ UNCHANGED <<mission, view, raced>>
  BY DEF Snapshot, logVars
<1>2. RunShaped(r) /\ r.next \subseteq Nodes /\ seq \in Nat
  BY DEF PlacesInv, Fits, Placed, LogInv, LogShaped, MissionShaped
<1>3. sel = [n \in Nodes |-> sel[n]]
  BY DEF Selected
<1>x. x = [r EXCEPT !.pc = "rehydrate", !.seen = seq, !.chosen = sel, !.progress = pro,
                    !.cancel = can]
  OBVIOUS
<1> HIDE DEF r, sel, pro, can, seq, x
<1>4. RunShaped(x) /\ x.next = r.next /\ x.pc = "rehydrate" /\ x.chosen = sel /\ x.seen = seq
  BY <1>2, <1>3, <1>x DEF RunShaped
<1>5. Recovers(x, mission)
  BY <1>2, <1>4 DEF Recovers, sel, seq
<1>6. Placed(x, view[p]) /\ Knows(x, view[p])
  BY <1>2, <1>4 DEF Placed, AtNode, NodePcs, Knows, WalkPcs
<1> QED
  BY <1>1, <1>4, <1>5, <1>6, StillGood DEF Fits

LEMMA RehydrateGood ==
    ASSUME LogInv, PlacesInv, NEW p \in Gateways, Rehydrate(p)
    PROVE  Good(p)
<1> DEFINE r == run[p]
           x == [r EXCEPT !.pc = "pick", !.seen = 0]
<1>1. /\ run' = [run EXCEPT ![p] = IF mission.status \in Stopped THEN Ended(r) ELSE x]
      /\ UNCHANGED mission /\ view' = [view EXCEPT ![p] = mission]
      /\ raced' = raced \cup (IF r.seen # mission.sequence THEN {"recovery"} ELSE {})
      /\ r.pc = "rehydrate"
  BY DEF Rehydrate
<1>2. view'[p] = mission /\ LogMoves(p)
  BY <1>1 DEF LogMoves, LogInv, LogShaped
<1>3. CASE mission.status \in Stopped
  <2>1. Lands(p, Ended(r))
    BY <1>1, <1>3, AsleepFits, FitsLands
  <2> QED
    BY <1>1, <1>2, <2>1 DEF Good
<1>4. CASE mission.status \notin Stopped
  <2>1. RunShaped(r) /\ r.next \subseteq Nodes /\ Recovers(r, mission)
    BY DEF PlacesInv, Fits, Placed
  <2>x. x = [r EXCEPT !.pc = "pick", !.seen = 0]
    OBVIOUS
  <2> HIDE DEF r, x
  <2>2. RunShaped(x) /\ x.next = r.next /\ x.pc = "pick" /\ x.chosen = r.chosen
    BY <2>1, <2>x DEF RunShaped
  <2>3. Placed(x, view'[p]) /\ Recovers(x, mission')
    BY <2>1, <2>2 DEF Placed, AtNode, NodePcs, Recovers
  <2>4. ASSUME "recovery" \notin raced' PROVE Knows(x, view'[p])
    <3>1. r.chosen = Selected(mission)
      BY <1>1, <2>1, <2>4 DEF Recovers
    <3> QED
      BY <1>2, <2>2, <3>1 DEF Knows, Selected
  <2>5. Lands(p, x)
    BY <1>1, <1>4, <2>2, <2>3, <2>4 DEF Lands
  <2> QED
    BY <1>1, <1>2, <2>5 DEF Good
<1> QED
  BY <1>3, <1>4

LEMMA PickGood ==
    ASSUME LogInv, PlacesInv, NEW p \in Gateways, Pick(p)
    PROVE  Good(p)
<1> DEFINE r == run[p]
           x == [r EXCEPT !.pc = "held", !.hold = "pick"]
<1>1. UNCHANGED raced /\ r.pc = "pick" /\ Fits(r, view[p], mission)
  BY DEF Pick, PlacesInv
<1>2. RunShaped(r) /\ r.next \subseteq Nodes
  BY <1>1 DEF Fits, Placed
<1>x. x = [r EXCEPT !.pc = "held", !.hold = "pick"]
  OBVIOUS
<1> HIDE DEF r, x
<1>3. RunShaped(x) /\ x.next = r.next /\ x.chosen = r.chosen /\ x.pc = "held" /\ x.hold = "pick"
  BY <1>2, <1>x DEF RunShaped
<1>4. ASSUME NEW w, Alike(view[p], w), NEW m PROVE Fits(x, w, m)
  BY <1>1, <1>2, <1>3, <1>4, WalksFit DEF WalkPcs
<1>5. CASE Goes(p, "cancel") /\ UNCHANGED logVars
  BY <1>1, <1>5, LeavesGood DEF logVars, WalkPcs, NodePcs
<1>6. CASE Accepted(p, RunEvent("paused")) /\ run' = [run EXCEPT ![p] = x]
  <2>1. /\ Sound(view[p], RunEvent("paused"))
        /\ Alike(view[p], Reduced(view[p], RunEvent("paused")))
    BY RunEventSound DEF RunTypes
  <2>2. view'[p] = Reduced(view[p], RunEvent("paused"))
    BY <1>6, AcceptedIsNext
  <2>3. Lands(p, x)
    BY <1>1, <1>4, <1>6, <2>1, <2>2, FitsLands
  <2> QED
    BY <1>1, <1>6, <2>1, <2>3 DEF Good, LogMoves
<1>7. CASE Refused(p, RunEvent("paused")) /\ Goes(p, "caught")
  BY <1>1, <1>7, LeavesGood DEF Refused, logVars, WalkPcs, NodePcs
<1>8. CASE run' = [run EXCEPT ![p] = x] /\ UNCHANGED logVars
  BY <1>1, <1>4, <1>8, SameAlike, StillGood DEF logVars
<1>9. CASE Ends(p) /\ UNCHANGED logVars
  BY <1>1, <1>9, LeavesGood DEF logVars
<1> QED
  BY <1>5, <1>6, <1>7, <1>8, <1>9 DEF Pick, x, r
--------------------------------------------------------------------------------
LEMMA CompleteMissionGood ==
    ASSUME LogInv, PlacesInv, NEW p \in Gateways, CompleteMission(p)
    PROVE  Good(p)
<1>1. run[p].pc = "pick" /\ run[p].pc \in WalkPcs /\ Open(p) = {}
  BY DEF CompleteMission, Walks, WalkPcs
<1>2. CASE Emit(p, RunEvent("mission_completed"), Ended(run[p]), Now(p, "caught"))
  <2> DEFINE e == RunEvent("mission_completed")
  <2>1. WellFormed(e) /\ e.type = "mission_completed" /\ e.next = {}
    BY RunEventFacts DEF WellFormed, RunTypes
  <2>2. ASSUME "recovery" \notin raced, NEW n \in Nodes, Reaches(view[p], n)
        PROVE  view[p].node[n].state = "completed"
    <3>1. Knows(run[p], view[p])
      BY <2>2 DEF PlacesInv, Fits
    <3>2. n \in ActiveNodes(p)
      BY <1>1, <2>2, <3>1, OpenReached
    <3> QED
      BY <1>1, <3>2 DEF Open, IsDone
  <2>3. Sound(view[p], e)
    BY <2>1, <2>2 DEF Sound, NodeTypes
  <2>4. Fits(Now(p, "caught"), view[p], mission)
    BY NowShaped, IdleFits DEF WalkPcs, NodePcs
  <2> QED
    BY <1>2, <2>3, <2>4, AsleepFits, EmitGood
<1>3. CASE Ends(p) /\ UNCHANGED <<logVars, exec, raced, worldVars>>
  BY <1>3, LeavesGood DEF logVars
<1> QED
  BY <1>2, <1>3 DEF CompleteMission

LEMMA ClaimLeaseGood ==
    ASSUME LogInv, PlacesInv, NEW p \in Gateways, ClaimLease(p)
    PROVE  Good(p)
<1> DEFINE r == run[p]
           i == run[p].progress[run[p].node] + 1
           x == [r EXCEPT !.pc = "begin", !.controller = "live", !.iteration = i]
<1>1. r.pc = "lease" /\ Fits(r, view[p], mission)
  BY DEF ClaimLease, PlacesInv
<1>2. CASE Goes(p, "caught") /\ UNCHANGED <<logVars, exec, raced, worldVars>>
  BY <1>2, LeavesGood DEF logVars, WalkPcs, NodePcs
<1>3. CASE Emit(p, OfNode(p, "lease_claimed"), x, Now(p, "caught"))
  <2>x. x = [r EXCEPT !.pc = "begin", !.controller = "live", !.iteration = i]
    OBVIOUS
  <2>1. RunShaped(r) /\ r.next \subseteq Nodes
    BY <1>1 DEF Fits, Placed
  <2>2. r = run[p]
    OBVIOUS
  <2> HIDE DEF r, i, x
  <2>3. RunShaped(x) /\ x.next = r.next /\ x.chosen = r.chosen /\ x.pc = "begin" /\ x.node = r.node
    BY <2>1, <2>x DEF RunShaped
  <2>4. Fits(x, view[p], mission)
    BY <1>1, <2>1, <2>3, SameAlike, StaysFit DEF NodePcs
  <2>5. Fits(Now(p, "caught"), view[p], mission)
    BY NowShaped, IdleFits DEF WalkPcs, NodePcs
  <2> QED
    BY <1>1, <1>3, <2>2, <2>3, <2>4, <2>5, OfNodeFacts, NodeEventGood DEF NodePcs
<1> QED
  BY <1>2, <1>3 DEF ClaimLease

LEMMA BeginIterationGood ==
    ASSUME LogInv, PlacesInv, NEW p \in Gateways, BeginIteration(p)
    PROVE  Good(p)
<1>1. /\ run[p].pc \in NodePcs /\ (Goes(p, "failing") \/ Goes(p, "work"))
      /\ UNCHANGED <<mission, view, raced>>
  BY DEF BeginIteration, logVars, NodePcs
<1> QED
  BY <1>1, LeavesGood DEF NodePcs

\* The loop's next iteration, or the end of its node.
LEMMA AgainFits ==
    ASSUME NEW r, NEW v, NEW m, Fits(r, v, m), AtNode(r),
           NEW x, RunShaped(x), x.next = r.next, x.node = r.node, x.chosen = r.chosen
    PROVE  Fits(Again(x), v, m) /\ Again(x).pc \in NodePcs
<1> DEFINE f == [x EXCEPT !.pc = "failing"]
           i == x.iteration + 1
           b == [x EXCEPT !.pc = "begin", !.iteration = i, !.answer = "none"]
<1>1. Again(x) = f \/ Again(x) = b
  BY DEF Again, RunShaped
<1>f. f = [x EXCEPT !.pc = "failing"]
  OBVIOUS
<1>b. b = [x EXCEPT !.pc = "begin", !.iteration = i, !.answer = "none"]
  OBVIOUS
<1> HIDE DEF f, b, i
<1>2. RunShaped(f) /\ f.next = x.next /\ f.node = x.node /\ f.chosen = x.chosen /\ f.pc = "failing"
  BY <1>f DEF RunShaped
<1>3. RunShaped(b) /\ b.next = x.next /\ b.node = x.node /\ b.chosen = x.chosen /\ b.pc = "begin"
  BY <1>b DEF RunShaped
<1>4. ASSUME NEW y, RunShaped(y), y.next = r.next, y.node = r.node, y.chosen = r.chosen,
             y.pc \in {"failing", "begin"}
      PROVE  Fits(y, v, m)
  <2>1. Placed(y, v)
    BY <1>4 DEF Fits, Placed, AtNode, NodePcs
  <2>2. Recovers(y, m)
    BY <1>4 DEF Recovers
  <2>3. "recovery" \notin raced => Knows(y, v)
    BY <1>4 DEF Fits, Knows, AtNode, WalkPcs
  <2> QED
    BY <1>4, <2>1, <2>2, <2>3 DEF Fits
<1> QED
  BY <1>1, <1>2, <1>3, <1>4 DEF NodePcs

LEMMA RecordIterationGood ==
    ASSUME LogInv, PlacesInv, NEW p \in Gateways, RecordIteration(p)
    PROVE  Good(p)
<1> DEFINE e == [OfNode(p, "node_progress") EXCEPT !.iteration = run[p].iteration]
           r == run[p]
           i == run[p].iteration
           c == [r.progress EXCEPT ![r.node] = i]
           x == [r EXCEPT !.progress = c]
<1>1. r.pc = "result" /\ Emit(p, e, AfterProgress(p), Now(p, "failing"))
      /\ Fits(r, view[p], mission)
  BY DEF RecordIteration, PlacesInv
<1>2. e.node = run[p].node /\ e.next = {} /\ e.type = "node_progress"
  BY OfNodeFacts
<1>3. RunShaped(r) /\ r.next \subseteq Nodes /\ r.answer \in Continuations /\ AtNode(r)
  BY <1>1 DEF Fits, Placed, AtNode, NodePcs
<1>4. [run[p] EXCEPT !.progress[run[p].node] = run[p].iteration] = x
  BY <1>3 DEF RunShaped
<1>5. AfterProgress(p) \in {Again(x), [x EXCEPT !.pc = "done"], [x EXCEPT !.pc = "failing"],
                            [x EXCEPT !.pc = "asking"]}
  <2>1. x.answer = r.answer
    BY <1>3 DEF RunShaped
  <2> HIDE DEF x
  <2> QED
    BY <1>3, <1>4, <2>1 DEF AfterProgress, Continuations
<1>x. x = [r EXCEPT !.progress = c]
  OBVIOUS
<1>r. r = run[p]
  OBVIOUS
<1> HIDE DEF e, r, i, c, x
<1>6. RunShaped(x) /\ x.next = r.next /\ x.chosen = r.chosen /\ x.node = r.node
  BY <1>3, <1>x DEF RunShaped
<1>7. ASSUME NEW y \in {"done", "failing", "asking"} PROVE Fits([x EXCEPT !.pc = y], view[p], mission)
  <2> DEFINE z == [x EXCEPT !.pc = y]
  <2>1. RunShaped(z) /\ z.next = x.next /\ z.chosen = x.chosen /\ z.node = x.node /\ z.pc = y
    BY <1>6 DEF RunShaped
  <2> HIDE DEF z
  <2>2. Fits(z, view[p], mission)
    BY <1>1, <1>3, <1>6, <2>1, SameAlike, StaysFit DEF NodePcs
  <2> QED
    BY <2>2 DEF z
<1>8. Fits(AfterProgress(p), view[p], mission) /\ AfterProgress(p).pc \in NodePcs
  <2>1. \A y \in {"done", "failing", "asking"} : [x EXCEPT !.pc = y].pc = y
    BY <1>6 DEF RunShaped
  <2>2. Fits(Again(x), view[p], mission) /\ Again(x).pc \in NodePcs
    BY <1>1, <1>3, <1>6, AgainFits
  <2> QED
    BY <1>5, <1>7, <2>1, <2>2 DEF NodePcs
<1>9. Fits(Now(p, "failing"), view[p], mission)
  BY <1>1, <1>r, NowShaped, SameAlike, StaysFit DEF NodePcs
<1> QED
  BY <1>1, <1>2, <1>8, <1>9, <1>r, NodeEventGood DEF NodePcs

LEMMA AskForInputGood ==
    ASSUME LogInv, PlacesInv, NEW p \in Gateways, AskForInput(p)
    PROVE  Good(p)
<1> DEFINE r == run[p]
           x == [r EXCEPT !.pc = "held", !.hold = "node"]
<1>1. r.pc \in {"asking", "yielding"} /\ Fits(r, view[p], mission) /\ r = run[p]
      /\ RunShaped(r) /\ r.next \subseteq Nodes
  BY DEF AskForInput, PlacesInv, Fits, Placed
<1>x. x = [r EXCEPT !.pc = "held", !.hold = "node"]
  OBVIOUS
<1>2. \/ Emit(p, RunEvent("pause_requested"), Now(p, "yielding"), Now(p, "failing"))
      \/ Emit(p, RunEvent("paused"), x, Now(p, "failing"))
  BY DEF AskForInput
<1> HIDE DEF r, x
<1>3. RunShaped(x) /\ x.next = r.next /\ x.chosen = r.chosen /\ x.pc = "held" /\ x.hold = "node"
      /\ x.node = r.node
  BY <1>1, <1>x DEF RunShaped
<1>4. ASSUME NEW t \in {"pause_requested", "paused"}
      PROVE  /\ Sound(view[p], RunEvent(t))
             /\ Alike(view[p], Reduced(view[p], RunEvent(t)))
  BY RunEventSound DEF RunTypes
<1>5. ASSUME NEW w, Alike(view[p], w), NEW m
      PROVE  /\ Fits(x, w, m) /\ Fits(Now(p, "yielding"), w, m) /\ Fits(Now(p, "failing"), w, m)
  <2>1. Fits(x, w, m)
    BY <1>1, <1>3, <1>5, StaysFit DEF NodePcs
  <2>2. ASSUME NEW c \in {"yielding", "failing"} PROVE Fits(Now(p, c), w, m)
    BY <1>1, <1>5, NowShaped, StaysFit DEF NodePcs
  <2> QED
    BY <2>1, <2>2
<1> QED
  BY <1>2, <1>4, <1>5, SameAlike, EmitGood

LEMMA FailNodeGood ==
    ASSUME LogInv, PlacesInv, NEW p \in Gateways, FailNode(p)
    PROVE  Good(p)
<1> DEFINE r == run[p]
           x == [r EXCEPT !.pc = "caught", !.controller = "none"]
           y == [r EXCEPT !.pc = "caught", !.controller = "none", !.failure = "none"]
           e == OfNode(p, "node_failed")
<1>1. r.pc = "failing" /\ Fits(r, view[p], mission) /\ RunShaped(r) /\ r.next \subseteq Nodes
      /\ AtNode(r) /\ Emit(p, e, x, y)
  BY DEF FailNode, PlacesInv, Fits, Placed, AtNode, NodePcs
<1>2. e.type = "node_failed" /\ e.node = r.node /\ e.next = {}
  BY OfNodeFacts
<1>x. x = [r EXCEPT !.pc = "caught", !.controller = "none"]
  OBVIOUS
<1>y. y = [r EXCEPT !.pc = "caught", !.controller = "none", !.failure = "none"]
  OBVIOUS
<1> HIDE DEF r, x, y, e
<1>3. RunShaped(x) /\ x.next = r.next /\ x.pc = "caught"
  BY <1>1, <1>x DEF RunShaped
<1>4. RunShaped(y) /\ y.next = r.next /\ y.pc = "caught"
  BY <1>1, <1>y DEF RunShaped
<1>5. Sound(view[p], e)
  BY <1>1, <1>2, NodeEventSound DEF NodeTypes
<1>6. ASSUME NEW w, NEW m PROVE Fits(x, w, m) /\ Fits(y, w, m)
  BY <1>1, <1>3, <1>4, IdleFits DEF WalkPcs, NodePcs
<1> QED
  BY <1>1, <1>5, <1>6, EmitGood

\* The end of a run, whichever way: events of the mission, outside the walk.
LEMMA EndGood ==
    ASSUME LogInv, PlacesInv, NEW p \in Gateways,
           FailMission(p) \/ RecordCompensation(p) \/ FinishCancellation(p) \/ CompletePause(p)
    PROVE  Good(p)
<1> DEFINE Idle(x) == RunShaped(x) /\ x.next \subseteq Nodes /\ x.pc \notin WalkPcs \cup {"rehydrate"}
<1>1. Idle(Ended(run[p]))
  <2>1. RunShaped(Ended(run[p]))
    BY AsleepFits
  <2>2. Ended(run[p]).next = {} /\ Ended(run[p]).pc = "ended"
    BY DEF Ended, Asleep
  <2> QED
    BY <2>1, <2>2 DEF WalkPcs, NodePcs
<1>2. ASSUME NEW c \in {"compensate", "outcome"} PROVE Idle(Now(p, c))
  BY NowShaped DEF WalkPcs, NodePcs
<1>3. run[p].pc = "cancel" => Idle(run[p])
  BY DEF PlacesInv, Fits, Placed, WalkPcs, NodePcs
<1> HIDE DEF Idle
<1>4. ASSUME NEW t \in {"mission_failed", "compensation_started", "compensation_completed",
                        "compensation_failed", "cancelling", "cancelled", "paused"},
             NEW x, NEW y, Emit(p, RunEvent(t), x, y), Idle(x), Idle(y)
      PROVE  Good(p)
  BY <1>4, MissionEventGood DEF Idle, RunTypes
<1>5. CASE Ends(p) /\ UNCHANGED <<logVars, exec, raced, worldVars>>
  BY <1>5, LeavesGood DEF logVars
<1>6. CASE Goes(p, "cancel") /\ UNCHANGED <<logVars, exec, raced, worldVars>>
  BY <1>6, LeavesGood DEF logVars, WalkPcs, NodePcs
<1>7. CASE FailMission(p)
  BY <1>1, <1>2, <1>4, <1>5, <1>6, <1>7 DEF FailMission
<1>8. CASE RecordCompensation(p)
  BY <1>1, <1>2, <1>4, <1>8 DEF RecordCompensation
<1>9. CASE FinishCancellation(p)
  BY <1>1, <1>3, <1>4, <1>5, <1>9 DEF FinishCancellation
<1>10. CASE CompletePause(p)
  BY <1>1, <1>4, <1>10 DEF CompletePause
<1> QED
  BY <1>7, <1>8, <1>9, <1>10

LEMMA RunStepGood ==
    ASSUME LogInv, PlacesInv, NEW p \in Gateways, RunStep(p)
    PROVE  Good(p)
BY SnapshotGood, RehydrateGood, PickGood, StartNodeGood, CompleteMissionGood, ClaimLeaseGood,
   BeginIterationGood, RecordIterationGood, AskForInputGood, CompleteNodeGood, FailNodeGood,
   EndGood DEF RunStep
--------------------------------------------------------------------------------
(* Executors, their keys and the ledger.                                   *)

\* Phases in which an executor has claimed its key, or holds one at all.
OwnerPhases == {"claimed", "applying", "observing", "compensating", "giving_up"}
KeyedPhases == OwnerPhases \cup {"planning", "committed"}

Owns(p, x) ==
    /\ x.phase \in KeyedPhases => x.key \in Keys
    /\ x.phase \in OwnerPhases => ledger[x.key].state = "claimed"
    /\ x.phase = "committed" => ledger[x.key].state = "committed"
    /\ x.phase = "applying" => Recorded(x.key)
    /\ x.phase = "observing" => applied[x.key] > 0
ExecutorsOwn == \A p \in Gateways : Owns(p, exec[p])
OwnersAlone ==
    \A p, q \in Gateways :
      exec[p].phase \in OwnerPhases /\ exec[q].phase \in OwnerPhases /\ exec[p].key = exec[q].key
        => p = q

\* What the ledger calls committed was applied, and what was applied is on record.
LedgerTrue == \A k \in Keys : ledger[k].state = "committed" => applied[k] > 0
AppliedRecorded == \A k \in Keys : applied[k] > 0 => Recorded(k)

ExecInv == ExecutorsOwn /\ OwnersAlone /\ LedgerTrue /\ AppliedRecorded
--------------------------------------------------------------------------------
LEMMA RestingFits ==
    ASSUME NEW r, NEW v, NEW m, Fits(r, v, m), r.pc # "rehydrate", NEW w, Alike(v, w), NEW m2,
           NEW x, RunShaped(x), x.next = r.next, x.node = r.node, x.chosen = r.chosen,
           x.pc = r.pc, x.hold = r.hold, x.answer = r.answer
    PROVE  Fits(x, w, m2)
<1>1. Placed(x, w)
  BY DEF Fits, Placed, AtNode, Alike
<1>2. Recovers(x, m2)
  BY DEF Recovers
<1>3. "recovery" \notin raced => Knows(x, w)
  BY DEF Fits, Knows, Alike
<1> QED
  BY <1>1, <1>2, <1>3 DEF Fits

LEMMA SameRun ==
    ASSUME PlacesInv, NEW p \in Gateways, UNCHANGED run
    PROVE  run' = [run EXCEPT ![p] = run[p]]
BY DEF PlacesInv

\* Where a step of an executor leaves the run of its process.
LEMMA WorkFits ==
    ASSUME PlacesInv, NEW p \in Gateways, run[p].pc = "work", NEW w, Alike(view[p], w), NEW m
    PROVE  /\ Fits(run[p], w, m)
           /\ \A f : Fits([run[p] EXCEPT !.pc = "failing", !.failure = f], w, m)
           /\ \A S \in SUBSET Nodes : Fits([run[p] EXCEPT !.pc = "done", !.next = S], w, m)
           /\ \A c \in Continuations, S \in SUBSET Nodes :
                Fits([run[p] EXCEPT !.pc = "result", !.answer = c, !.next = S], w, m)
<1> DEFINE r == run[p]
<1>1. Fits(r, view[p], mission) /\ RunShaped(r) /\ r.next \subseteq Nodes /\ r.pc = "work"
  BY DEF PlacesInv, Fits, Placed
<1> HIDE DEF r
<1>2. Fits(r, w, m)
  BY <1>1, RestingFits
<1>3. ASSUME NEW f PROVE Fits([r EXCEPT !.pc = "failing", !.failure = f], w, m)
  <2> DEFINE x == [r EXCEPT !.pc = "failing", !.failure = f]
  <2>x. x = [r EXCEPT !.pc = "failing", !.failure = f]
    OBVIOUS
  <2> HIDE DEF x
  <2>1. RunShaped(x) /\ x.next = r.next /\ x.node = r.node /\ x.chosen = r.chosen /\ x.pc = "failing"
    BY <1>1, <2>x DEF RunShaped
  <2>2. Fits(x, w, m)
    BY <1>1, <2>1, StaysFit DEF NodePcs
  <2> QED
    BY <2>2 DEF x
<1>4. ASSUME NEW S \in SUBSET Nodes PROVE Fits([r EXCEPT !.pc = "done", !.next = S], w, m)
  <2> DEFINE x == [r EXCEPT !.pc = "done", !.next = S]
  <2>x. x = [r EXCEPT !.pc = "done", !.next = S]
    OBVIOUS
  <2> HIDE DEF x
  <2>1. RunShaped(x) /\ x.next = S /\ x.node = r.node /\ x.chosen = r.chosen /\ x.pc = "done"
    BY <1>1, <2>x DEF RunShaped
  <2>2. Fits(x, w, m)
    BY <1>1, <2>1, StaysFit DEF NodePcs
  <2> QED
    BY <2>2 DEF x
<1>5. ASSUME NEW c \in Continuations, NEW S \in SUBSET Nodes
      PROVE  Fits([r EXCEPT !.pc = "result", !.answer = c, !.next = S], w, m)
  <2> DEFINE x == [r EXCEPT !.pc = "result", !.answer = c, !.next = S]
  <2>x. x = [r EXCEPT !.pc = "result", !.answer = c, !.next = S]
    OBVIOUS
  <2> HIDE DEF x
  <2>1. RunShaped(x) /\ x.next = S /\ x.node = r.node /\ x.chosen = r.chosen /\ x.pc = "result"
        /\ x.answer = c
    BY <1>1, <2>x DEF RunShaped
  <2>2. Fits(x, w, m)
    BY <1>1, <2>1, StaysFit DEF NodePcs
  <2> QED
    BY <2>2 DEF x
<1> QED
  BY <1>2, <1>3, <1>4, <1>5 DEF r

\* A step of an executor that appends nothing.
LEMMA WorkGood ==
    ASSUME LogInv, PlacesInv, NEW p \in Gateways, run[p].pc = "work",
           UNCHANGED <<mission, view, raced>>,
           \/ UNCHANGED run
           \/ \E f : run' = [run EXCEPT ![p] = [run[p] EXCEPT !.pc = "failing", !.failure = f]]
           \/ \E S \in SUBSET Nodes :
                run' = [run EXCEPT ![p] = [run[p] EXCEPT !.pc = "done", !.next = S]]
           \/ \E c \in Continuations, S \in SUBSET Nodes :
                run' = [run EXCEPT ![p] = [run[p] EXCEPT !.pc = "result", !.answer = c, !.next = S]]
    PROVE  Good(p)
<1> DEFINE F(f) == [run[p] EXCEPT !.pc = "failing", !.failure = f]
           D(S) == [run[p] EXCEPT !.pc = "done", !.next = S]
           R(c, S) == [run[p] EXCEPT !.pc = "result", !.answer = c, !.next = S]
<1>1. /\ Fits(run[p], view[p], mission)
      /\ \A f : Fits(F(f), view[p], mission)
      /\ \A S \in SUBSET Nodes : Fits(D(S), view[p], mission)
      /\ \A c \in Continuations, S \in SUBSET Nodes : Fits(R(c, S), view[p], mission)
  BY SameAlike, WorkFits
<1>2. \/ run' = [run EXCEPT ![p] = run[p]]
      \/ \E f : run' = [run EXCEPT ![p] = F(f)]
      \/ \E S \in SUBSET Nodes : run' = [run EXCEPT ![p] = D(S)]
      \/ \E c \in Continuations, S \in SUBSET Nodes : run' = [run EXCEPT ![p] = R(c, S)]
  BY SameRun
<1> HIDE DEF F, D, R
<1>3. \E x : run' = [run EXCEPT ![p] = x] /\ Fits(x, view[p], mission)
  BY <1>1, <1>2
<1> QED
  BY <1>3, StillGood

LEMMA ExecutorStepGood ==
    ASSUME LogInv, PlacesInv, ExecInv, NEW p \in Gateways, ExecutorStep(p) \/ StreamProgress(p)
    PROVE  Good(p)
<1>1. Fits(run[p], view[p], mission) /\ MissionShaped(view[p])
  BY DEF PlacesInv, LogInv, LogShaped
<1>2. run[p].pc = "work" => /\ AtNode(run[p]) /\ run[p].node \in Nodes
                            /\ Graph[run[p].node].children \subseteq Nodes
  BY <1>1, NextInNodes DEF Fits, Placed, AtNode, NodePcs
<1>3. ASSUME NEW e, e.type \in {"node_progress", "effect_started", "effect_committed"},
             e.node = run[p].node, e.next = {}, run[p].pc = "work",
             e.type = "effect_committed" => e.key \in Keys /\ ledger[e.key].state = "committed",
             Accepted(p, e), UNCHANGED raced,
             \/ UNCHANGED run
             \/ run' = [run EXCEPT ![p] = [run[p] EXCEPT !.pc = "done",
                                                         !.next = Graph[run[p].node].children]]
      PROVE  Good(p)
  <2>1. WellFormed(e) /\ Sound(view[p], e)
    BY <1>1, <1>2, <1>3 DEF Sound, WellFormed, NodeTypes, Fits, Placed
  <2>2. Alike(view[p], view'[p])
    BY <1>1, <1>3, <2>1, CalmEvent, AcceptedIsNext
  <2>3. LogMoves(p)
    BY <1>3, <2>1 DEF LogMoves
  <2> DEFINE C == Graph[run[p].node].children
             D == [run[p] EXCEPT !.pc = "done", !.next = C]
  <2>4. C \in SUBSET Nodes
    BY <1>2, <1>3
  <2> HIDE DEF C
  <2>5. Fits(run[p], view'[p], mission') /\ Fits(D, view'[p], mission')
    BY <1>3, <2>2, <2>4, WorkFits
  <2>6. run' = [run EXCEPT ![p] = run[p]] \/ run' = [run EXCEPT ![p] = D]
    BY <1>3, SameRun DEF C
  <2> HIDE DEF D
  <2>7. \E x : Lands(p, x)
    BY <1>3, <2>5, <2>6, FitsLands
  <2> QED
    BY <1>3, <2>3, <2>7 DEF Good
<1>4. CASE StreamProgress(p)
  <2> DEFINE e == OfNode(p, "node_progress")
  <2>1. e.type = "node_progress" /\ e.node = run[p].node /\ e.next = {}
    BY OfNodeFacts
  <2>2. run[p].pc = "work" /\ UNCHANGED <<run, raced>> /\ (Accepted(p, e) \/ Refused(p, e))
    BY <1>4 DEF StreamProgress, Phase
  <2> HIDE DEF e
  <2>3. CASE Accepted(p, e)
    BY <1>3, <2>1, <2>2, <2>3
  <2>4. CASE Refused(p, e)
    BY <2>2, <2>4, WorkGood DEF Refused, logVars
  <2> QED
    BY <2>2, <2>3, <2>4
<1>5. CASE Think(p)
  <2>1. run[p].pc = "work" /\ UNCHANGED <<mission, view, raced>>
    BY <1>5 DEF Think, logVars
  <2>2. CASE Stops(p, "failing", "none")
    BY <2>1, <2>2, WorkGood DEF Stops
  <2>3. ASSUME NEW next \in SUBSET Graph[run[p].node].children,
               \/ run' = [run EXCEPT ![p] = [@ EXCEPT !.pc = "done", !.next = next]]
               \/ \E c \in Continuations :
                    run' = [run EXCEPT ![p] = [@ EXCEPT !.pc = "result", !.answer = c, !.next = next]]
        PROVE  Good(p)
    <3>1. next \in SUBSET Nodes
      BY <1>2, <2>1
    <3> QED
      BY <2>1, <2>3, <3>1, WorkGood
  <2> QED
    BY <1>5, <2>2, <2>3 DEF Think
<1>6. CASE ClaimEffect(p)
  <2>1. run[p].pc = "work" /\ UNCHANGED <<mission, view, raced>>
    BY <1>6 DEF ClaimEffect, Phase, logVars
  <2>2. \/ UNCHANGED run
        \/ \E f : run' = [run EXCEPT ![p] = [run[p] EXCEPT !.pc = "failing", !.failure = f]]
        \/ run' = [run EXCEPT ![p] = [run[p] EXCEPT !.pc = "done",
                                                    !.next = Graph[run[p].node].children]]
    BY <1>6 DEF ClaimEffect, Stops
  <2>3. Graph[run[p].node].children \in SUBSET Nodes
    BY <1>2, <2>1
  <2> QED
    BY <2>1, <2>2, <2>3, WorkGood
<1>7. CASE AnnounceEffect(p)
  <2> DEFINE e == [OfNode(p, "effect_started") EXCEPT !.key = exec[p].key]
  <2>1. e.type = "effect_started" /\ e.node = run[p].node /\ e.next = {}
    BY OfNodeFacts
  <2>2. run[p].pc = "work" /\ UNCHANGED <<run, raced>> /\ (Accepted(p, e) \/ Refused(p, e))
    BY <1>7 DEF AnnounceEffect, Phase
  <2> HIDE DEF e
  <2>3. CASE Accepted(p, e)
    BY <1>3, <2>1, <2>2, <2>3
  <2>4. CASE Refused(p, e)
    BY <2>2, <2>4, WorkGood DEF Refused, logVars
  <2> QED
    BY <2>2, <2>3, <2>4
<1>8. CASE ApplyEffect(p) \/ ObserveEffect(p) \/ CompensateEffect(p)
  <2>1. run[p].pc = "work" /\ UNCHANGED <<mission, view, raced>>
    BY <1>8 DEF ApplyEffect, ObserveEffect, CompensateEffect, Phase, logVars
  <2>2. \/ UNCHANGED run
        \/ \E f : run' = [run EXCEPT ![p] = [run[p] EXCEPT !.pc = "failing", !.failure = f]]
    BY <1>8 DEF ApplyEffect, ObserveEffect, CompensateEffect, Stops
  <2> QED
    BY <2>1, <2>2, WorkGood
<1>9. CASE RecordEffect(p)
  <2> DEFINE e == [OfNode(p, "effect_committed") EXCEPT !.key = exec[p].key]
  <2>1. e.type = "effect_committed" /\ e.node = run[p].node /\ e.next = {} /\ e.key = exec[p].key
    BY OfNodeFacts
  <2>2. run[p].pc = "work" /\ exec[p].phase = "committed" /\ UNCHANGED raced
    BY <1>9 DEF RecordEffect, Phase
  <2>3. e.key \in Keys /\ ledger[e.key].state = "committed"
    BY <2>1, <2>2 DEF ExecInv, ExecutorsOwn, Owns, KeyedPhases
  <2>4. \/ Accepted(p, e) /\ run' = [run EXCEPT ![p] = [run[p] EXCEPT !.pc = "done",
                                                        !.next = Graph[run[p].node].children]]
        \/ Refused(p, e) /\ run' = [run EXCEPT ![p] = [run[p] EXCEPT !.pc = "failing",
                                                                     !.failure = "none"]]
    BY <1>9 DEF RecordEffect, Stops
  <2> HIDE DEF e
  <2>5. CASE Accepted(p, e) /\ run' = [run EXCEPT ![p] = [run[p] EXCEPT !.pc = "done",
                                                        !.next = Graph[run[p].node].children]]
    BY <1>3, <2>1, <2>2, <2>3, <2>5
  <2>6. CASE Refused(p, e) /\ run' = [run EXCEPT ![p] = [run[p] EXCEPT !.pc = "failing",
                                                                     !.failure = "none"]]
    BY <2>2, <2>6, WorkGood DEF Refused, logVars
  <2> QED
    BY <2>4, <2>5, <2>6
<1>10. CASE GiveUp(p)
  <2>1. UNCHANGED <<mission, view, raced>>
    BY <1>10 DEF GiveUp, logVars
  <2>2. CASE run[p].pc = "work"
    BY <1>10, <2>1, <2>2, WorkGood DEF GiveUp, Stops
  <2>3. CASE run[p].pc # "work"
    <3>1. run' = [run EXCEPT ![p] = run[p]]
      BY <1>10, <2>3, SameRun DEF GiveUp
    <3> QED
      BY <1>1, <2>1, <3>1, StillGood
  <2> QED
    BY <2>2, <2>3
<1> QED
  BY <1>4, <1>5, <1>6, <1>7, <1>8, <1>9, <1>10 DEF ExecutorStep
--------------------------------------------------------------------------------
\* An event of the mission that reaches a process while it waits.
LEMMA CommandGood ==
    ASSUME LogInv, NEW p \in Gateways, NEW t \in RunTypes \ {"mission_completed"},
           Accepted(p, RunEvent(t)), raced \subseteq raced',
           NEW x, run' = [run EXCEPT ![p] = x],
           \A w : Alike(view[p], w) => Fits(x, w, mission')
    PROVE  Good(p)
<1>1. /\ Sound(view[p], RunEvent(t)) /\ Alike(view[p], Reduced(view[p], RunEvent(t)))
  BY RunEventSound
<1>2. view'[p] = Reduced(view[p], RunEvent(t))
  BY AcceptedIsNext
<1>3. Fits(x, view'[p], mission')
  BY <1>1, <1>2
<1> QED
  BY <1>1, <1>3, FitsLands DEF Good, LogMoves

LEMMA ControlGood ==
    ASSUME LogInv, PlacesInv, NEW p \in Gateways, Control(p)
    PROVE  Good(p)
<1> DEFINE r == run[p]
           c == [r EXCEPT !.cancel = TRUE]
           a == [c EXCEPT !.controller = "aborted"]
           f == [c EXCEPT !.pc = "failing", !.controller = "aborted"]
           x == [r EXCEPT !.pc = "cancel", !.cancel = TRUE]
           h == [r EXCEPT !.hold = "none"]
           k == [r EXCEPT !.pc = "pick", !.hold = "none"]
<1>1. r = run[p] /\ Fits(r, view[p], mission) /\ RunShaped(r) /\ r.next \subseteq Nodes
      /\ (r.pc = "held" => r.hold \in {"pick", "node"})
  BY DEF PlacesInv, Fits, Placed
<1>2. r.pc \in {"held", "ended", "work"} /\ raced \subseteq raced'
  BY DEF Control, Pause, ResumeMission, Steer, Cancel, Commands, Waits, Crosses
<1>x. /\ c = [r EXCEPT !.cancel = TRUE]
      /\ a = [c EXCEPT !.controller = "aborted"]
      /\ f = [c EXCEPT !.pc = "failing", !.controller = "aborted"]
      /\ x = [r EXCEPT !.pc = "cancel", !.cancel = TRUE]
      /\ h = [r EXCEPT !.hold = "none"]
      /\ k = [r EXCEPT !.pc = "pick", !.hold = "none"]
  OBVIOUS
<1>3. CASE Pause(p)
  <2> HIDE DEF r, c, a, f, x, h, k
  <2>1. ASSUME NEW w, Alike(view[p], w) PROVE Fits(r, w, mission') /\ Fits(Now(p, "pausing"), w, mission')
    BY <1>1, <1>2, <2>1, RestingFits, NowShaped, IdleFits DEF WalkPcs, NodePcs
  <2>2. run' = [run EXCEPT ![p] = Now(p, "pausing")] \/ run' = [run EXCEPT ![p] = r]
    BY <1>1, <1>3, GoesNow, SameRun DEF Pause
  <2>3. Accepted(p, RunEvent("pause_requested")) /\ "pause_requested" \in RunTypes \ {"mission_completed"}
    BY <1>3 DEF Pause, RunTypes
  <2> QED
    BY <1>2, <2>1, <2>2, <2>3, CommandGood
<1>4. CASE Steer(p)
  <2> HIDE DEF r, c, a, f, x, h, k
  <2>1. ASSUME NEW w, Alike(view[p], w) PROVE Fits(r, w, mission')
    BY <1>1, <1>2, <2>1, RestingFits
  <2>2. run' = [run EXCEPT ![p] = r]
    BY <1>1, <1>4, SameRun DEF Steer
  <2>3. Accepted(p, RunEvent("steered")) /\ "steered" \in RunTypes \ {"mission_completed"}
    BY <1>4 DEF Steer, RunTypes
  <2> QED
    BY <1>2, <2>1, <2>2, <2>3, CommandGood
<1>5. CASE ResumeMission(p)
  <2>1. /\ run' = [run EXCEPT ![p] = IF r.pc # "held" THEN r
                                     ELSE IF r.hold = "pick" THEN k ELSE Again(h)]
        /\ Accepted(p, RunEvent("resumed")) /\ "resumed" \in RunTypes \ {"mission_completed"}
    BY <1>5 DEF ResumeMission, RunTypes
  <2> HIDE DEF r, c, a, f, x, h, k
  <2>2. RunShaped(k) /\ k.next = r.next /\ k.chosen = r.chosen /\ k.pc = "pick"
    BY <1>1, <1>x DEF RunShaped
  <2>3. RunShaped(h) /\ h.next = r.next /\ h.chosen = r.chosen /\ h.node = r.node
    BY <1>1, <1>x DEF RunShaped
  <2>4. ASSUME NEW w, Alike(view[p], w)
        PROVE  Fits(IF r.pc # "held" THEN r ELSE IF r.hold = "pick" THEN k ELSE Again(h), w, mission')
    <3>1. Fits(r, w, mission')
      BY <1>1, <1>2, <2>4, RestingFits
    <3>2. r.pc = "held" => Fits(k, w, mission')
      BY <1>1, <2>2, <2>4, WalksFit DEF WalkPcs
    <3>3. r.pc = "held" /\ r.hold # "pick" => Fits(Again(h), w, mission')
      BY <2>3, <3>1, AgainFits DEF AtNode
    <3> QED
      BY <3>1, <3>2, <3>3
  <2> QED
    BY <1>2, <2>1, <2>4, CommandGood
<1>6. CASE Cancel(p)
  <2>1. \/ /\ Accepted(p, RunEvent("cancellation_requested"))
           /\ run' = [run EXCEPT ![p] = Aborted(c)] \/ run' = [run EXCEPT ![p] = x]
        \/ Refused(p, RunEvent("cancellation_requested")) /\ run' = [run EXCEPT ![p] = c]
    <3>1. Refused(p, RunEvent("cancellation_requested")) /\ run' = [run EXCEPT ![p].cancel = TRUE]
          => run' = [run EXCEPT ![p] = c]
      BY DEF PlacesInv
    <3> QED
      BY <1>6, <3>1 DEF Cancel
  <2> HIDE DEF r, c, a, f, x, h, k
  <2>2. RunShaped(c) /\ c.next = r.next /\ c.chosen = r.chosen /\ c.node = r.node /\ c.pc = r.pc
        /\ c.hold = r.hold /\ c.answer = r.answer
    BY <1>1, <1>x DEF RunShaped
  <2>3. RunShaped(x) /\ x.next = r.next /\ x.pc = "cancel"
    BY <1>1, <1>x DEF RunShaped
  <2>4. RunShaped(a) /\ a.next = r.next /\ a.chosen = r.chosen /\ a.node = r.node /\ a.pc = r.pc
        /\ a.hold = r.hold /\ a.answer = r.answer
    BY <1>x, <2>2 DEF RunShaped
  <2>5. RunShaped(f) /\ f.next = r.next /\ f.chosen = r.chosen /\ f.node = r.node /\ f.pc = "failing"
    BY <1>x, <2>2 DEF RunShaped
  <2>6. Aborted(c) = IF r.pc = "work" THEN f ELSE a
    BY <1>x, <2>2 DEF Aborted
  <2>7. ASSUME NEW w, Alike(view[p], w), NEW m PROVE Fits(Aborted(c), w, m) /\ Fits(x, w, m) /\ Fits(c, w, m)
    <3>1. Fits(c, w, m) /\ Fits(a, w, m)
      BY <1>1, <1>2, <2>2, <2>4, <2>7, RestingFits
    <3>2. Fits(x, w, m)
      BY <1>1, <2>3, IdleFits DEF WalkPcs, NodePcs
    <3>3. r.pc = "work" => Fits(f, w, m)
      BY <1>1, <2>5, <2>7, StaysFit DEF NodePcs
    <3> QED
      BY <2>6, <3>1, <3>2, <3>3
  <2>8. "cancellation_requested" \in RunTypes \ {"mission_completed"}
    BY DEF RunTypes
  <2>9. CASE /\ Accepted(p, RunEvent("cancellation_requested"))
             /\ run' = [run EXCEPT ![p] = Aborted(c)] \/ run' = [run EXCEPT ![p] = x]
    BY <1>2, <2>7, <2>8, <2>9, CommandGood
  <2>10. CASE Refused(p, RunEvent("cancellation_requested")) /\ run' = [run EXCEPT ![p] = c]
    BY <1>2, <2>7, <2>10, SameAlike, StillGood DEF Refused, logVars
  <2> QED
    BY <2>1, <2>9, <2>10
<1> QED
  BY <1>3, <1>4, <1>5, <1>6 DEF Control

\* The end of a node's time, a shutdown, an exit and a crash append nothing.
LEMMA OutsideGood ==
    ASSUME LogInv, PlacesInv, NEW p \in Gateways,
           NodeTimesOut(p) \/ Close(p) \/ Exit(p) \/ CrashGateway(p)
    PROVE  Good(p)
<1> DEFINE r == run[p]
           a == [r EXCEPT !.controller = "aborted"]
           f == [r EXCEPT !.pc = "failing", !.controller = "aborted"]
           c == [r EXCEPT !.closed = TRUE]
           ca == [c EXCEPT !.controller = "aborted"]
           cf == [c EXCEPT !.pc = "failing", !.controller = "aborted"]
           cn == [r EXCEPT !.closed = TRUE, !.controller = "aborted", !.pc = "failing"]
<1>1. r = run[p] /\ Fits(r, view[p], mission) /\ RunShaped(r) /\ r.next \subseteq Nodes
      /\ (r.pc = "held" => r.hold \in {"pick", "node"})
  BY DEF PlacesInv, Fits, Placed
<1>x. /\ a = [r EXCEPT !.controller = "aborted"]
      /\ f = [r EXCEPT !.pc = "failing", !.controller = "aborted"]
      /\ c = [r EXCEPT !.closed = TRUE]
      /\ ca = [c EXCEPT !.controller = "aborted"]
      /\ cf = [c EXCEPT !.pc = "failing", !.controller = "aborted"]
      /\ cn = [r EXCEPT !.closed = TRUE, !.controller = "aborted", !.pc = "failing"]
  OBVIOUS
<1>2. CASE NodeTimesOut(p)
  <2>1. /\ run' = [run EXCEPT ![p] = Aborted(r)] /\ UNCHANGED <<mission, view, raced>>
        /\ r.pc \in {"held", "ended", "work"}
    BY <1>2 DEF NodeTimesOut, Waits, logVars
  <2>2. Aborted(r) = IF r.pc = "work" THEN f ELSE a
    BY DEF Aborted
  <2> HIDE DEF r, a, f, c, ca, cf, cn
  <2>3. RunShaped(a) /\ a.next = r.next /\ a.chosen = r.chosen /\ a.node = r.node /\ a.pc = r.pc
        /\ a.hold = r.hold /\ a.answer = r.answer
    BY <1>1, <1>x DEF RunShaped
  <2>4. RunShaped(f) /\ f.next = r.next /\ f.chosen = r.chosen /\ f.node = r.node /\ f.pc = "failing"
    BY <1>1, <1>x DEF RunShaped
  <2>5. Fits(a, view[p], mission)
    BY <1>1, <2>1, <2>3, SameAlike, RestingFits
  <2>6. r.pc = "work" => Fits(f, view[p], mission)
    BY <1>1, <2>4, SameAlike, StaysFit DEF NodePcs
  <2> QED
    BY <2>1, <2>2, <2>5, <2>6, StillGood
<1>3. CASE Close(p)
  <2>0. /\ run' = [run EXCEPT ![p] =
                     CASE r.pc = "ended" -> c
                       [] r.pc = "held" /\ r.hold = "pick" -> Ended(c)
                       [] r.pc = "held" /\ r.hold = "node" -> cn
                       [] r.pc = "work" -> Aborted(c)]
        /\ UNCHANGED <<mission, view, raced>> /\ r.pc \in {"held", "ended", "work"}
    BY <1>3 DEF Close, Waits, logVars
  <2>1. Aborted(c) = IF c.pc = "work" THEN cf ELSE ca
    BY DEF Aborted
  <2> HIDE DEF r, a, f, c, ca, cf, cn
  <2>2. RunShaped(c) /\ c.next = r.next /\ c.chosen = r.chosen /\ c.node = r.node /\ c.pc = r.pc
        /\ c.hold = r.hold /\ c.answer = r.answer
    BY <1>1, <1>x DEF RunShaped
  <2>3. RunShaped(cf) /\ cf.next = r.next /\ cf.chosen = r.chosen /\ cf.node = r.node
        /\ cf.pc = "failing"
    BY <1>x, <2>2 DEF RunShaped
  <2>4. RunShaped(cn) /\ cn.next = r.next /\ cn.chosen = r.chosen /\ cn.node = r.node
        /\ cn.pc = "failing"
    BY <1>1, <1>x DEF RunShaped
  <2>5. CASE r.pc = "ended"
    <3>1. Fits(c, view[p], mission)
      BY <1>1, <2>2, <2>5, SameAlike, RestingFits
    <3>2. run' = [run EXCEPT ![p] = c]
      BY <2>0, <2>5
    <3> QED
      BY <2>0, <3>1, <3>2, StillGood
  <2>6. CASE r.pc = "held" /\ r.hold = "pick"
    <3>1. run' = [run EXCEPT ![p] = Ended(c)]
      BY <2>0, <2>6
    <3> QED
      BY <2>0, <3>1, AsleepFits, StillGood
  <2>7. CASE r.pc = "held" /\ r.hold = "node"
    <3>1. run' = [run EXCEPT ![p] = cn]
      BY <2>0, <2>7
    <3>2. Placed(cn, view[p])
      BY <1>1, <2>4, <2>7 DEF Fits, Placed, AtNode, NodePcs
    <3>3. Recovers(cn, mission)
      BY <2>4 DEF Recovers
    <3>4. "recovery" \notin raced => Knows(cn, view[p])
      BY <1>1, <2>4, <2>7 DEF Fits, Knows, WalkPcs
    <3>5. Fits(cn, view[p], mission)
      BY <2>4, <3>2, <3>3, <3>4 DEF Fits
    <3> QED
      BY <2>0, <3>1, <3>5, StillGood
  <2>8. CASE r.pc = "work"
    <3>1. run' = [run EXCEPT ![p] = cf]
      BY <2>0, <2>1, <2>2, <2>8
    <3>2. Fits(cf, view[p], mission)
      BY <1>1, <2>3, <2>8, SameAlike, StaysFit DEF NodePcs
    <3> QED
      BY <2>0, <3>1, <3>2, StillGood
  <2> QED
    BY <1>1, <2>0, <2>5, <2>6, <2>7, <2>8
<1>4. CASE Exit(p) \/ CrashGateway(p)
  <2>1. /\ run' = [run EXCEPT ![p] = Asleep] /\ UNCHANGED <<mission, raced>>
        /\ view' = [view EXCEPT ![p] = Pending]
    BY <1>4 DEF Exit, CrashGateway
  <2>2. LogMoves(p)
    BY <2>1 DEF LogMoves, LogInv, LogShaped
  <2>3. Lands(p, Asleep)
    BY <2>1, AsleepFits, FitsLands
  <2> QED
    BY <2>1, <2>2, <2>3 DEF Good
<1> QED
  BY <1>2, <1>3, <1>4
--------------------------------------------------------------------------------
\* A step of one process disturbs nobody's place.
LEMMA PlaceStep ==
    ASSUME LogInv, PlacesInv, NEW p \in Gateways, Good(p),
           mission' = mission \/ mission'.sequence = mission.sequence + 1
    PROVE  PlacesInv'
<1>1. PICK x : Lands(p, x)
  BY DEF Good
<1>2. /\ run' = [run EXCEPT ![p] = x] /\ run = [q \in Gateways |-> run[q]]
  BY <1>1 DEF Lands, PlacesInv
<1>3. run' = [q \in Gateways |-> run'[q]]
  BY <1>2
<1>4. ASSUME NEW q \in Gateways PROVE Fits(run[q], view[q], mission)'
  <2>1. CASE q = p
    <3>1. run'[q] = x
      BY <1>2, <2>1
    <3> QED
      BY <1>1, <2>1, <3>1 DEF Lands, Fits, Placed, Recovers, Knows
  <2>2. CASE q # p
    <3>1. run'[q] = run[q]
      BY <1>2, <2>2
    <3>2. view'[q] = view[q]
      BY <2>2, AcceptedIsNext DEF Good, LogMoves
    <3>3. Fits(run[q], view[q], mission) /\ mission.sequence \in Nat
      BY DEF PlacesInv, LogInv, LogShaped, MissionShaped
    <3>4. Recovers(run[q], mission)'
      BY <3>1, <3>3 DEF Fits, Recovers, Selected
    <3>5. "recovery" \notin raced' => Knows(run[q], view[q])'
      BY <3>1, <3>2, <3>3 DEF Fits, Knows, Good
    <3>6. RunShaped(run[q])' /\ Placed(run[q], view[q])'
      BY <3>1, <3>2, <3>3 DEF Fits, RunShaped, Placed
    <3> QED
      BY <3>4, <3>5, <3>6 DEF Fits
  <2> QED
    BY <2>1, <2>2
<1> QED
  BY <1>3, <1>4 DEF PlacesInv
--------------------------------------------------------------------------------
(* What every step of a process does to the executors, the ledger and the site. *)

\* A row is claimed when it is free, and goes on only by the hand of its owner.
RowsMove(p, x) ==
    \A k \in Keys :
      \/ ledger'[k].state = ledger[k].state
      \/ ledger[k].state = "none"
      \/ /\ exec[p].phase \in OwnerPhases /\ exec[p].key = k /\ x.phase \notin OwnerPhases

\* The site applies what an executor that applies it has sent.
SiteMoves(p) ==
    \A k \in Keys :
      /\ applied[k] > 0 => applied'[k] > 0
      /\ applied'[k] > 0 => applied[k] > 0 \/ (exec[p].phase = "applying" /\ exec[p].key = k)
      /\ ledger'[k].state = "committed" => ledger[k].state = "committed" \/ applied'[k] > 0

\* The executor stays the owner of its key, or becomes it of one that was free.
Continues(p, x) ==
    /\ x.phase \in KeyedPhases => x.key \in Keys
    /\ x.phase \in OwnerPhases =>
         /\ ledger'[x.key].state = "claimed"
         /\ \/ exec[p].phase \in OwnerPhases /\ x.key = exec[p].key
            \/ ledger[x.key].state = "none"
    /\ x.phase = "committed" => ledger'[x.key].state = "committed"
    /\ x.phase = "applying" =>
         Recorded(x.key)' \/ (exec[p].phase = "applying" /\ x.key = exec[p].key)
    /\ x.phase = "observing" => applied'[x.key] > 0

Moves(p, x) ==
    /\ exec' = [exec EXCEPT ![p] = x]
    /\ RowsMove(p, x) /\ SiteMoves(p) /\ Continues(p, x)

\* What was committed in the ledger stays so, also if the log does not know it.
LEMMA MovesKeepRows ==
    ASSUME ExecInv, NEW p \in Gateways, NEW x, Moves(p, x), raced \subseteq raced'
    PROVE  LedgerKeeps
<1>1. ASSUME NEW k \in Keys, ledger[k].state = "committed" PROVE ledger'[k].state = "committed"
  BY <1>1 DEF Moves, RowsMove, ExecInv, ExecutorsOwn, Owns
<1> QED
  BY <1>1 DEF LedgerKeeps

LEMMA MovesKeep ==
    ASSUME Shaped, ExecInv, NEW p \in Gateways, NEW x, Moves(p, x),
           \A k : Recorded(k) => Recorded(k)'
    PROVE  ExecInv'
<1>1. exec'[p] = x /\ \A q \in Gateways \ {p} : exec'[q] = exec[q]
  BY DEF Moves, Shaped, ExecShaped
<1>2. ASSUME NEW q \in Gateways, q # p, exec[q].phase \in OwnerPhases
      PROVE  /\ ledger'[exec[q].key].state = "claimed" /\ exec[q].key \in Keys
             /\ x.phase \in OwnerPhases => x.key # exec[q].key
  <2>1. exec[q].key \in Keys /\ ledger[exec[q].key].state = "claimed"
    BY <1>2 DEF ExecInv, ExecutorsOwn, Owns, KeyedPhases
  <2>2. ~(exec[p].phase \in OwnerPhases /\ exec[p].key = exec[q].key)
    BY <1>2 DEF ExecInv, OwnersAlone
  <2> QED
    BY <2>1, <2>2 DEF Moves, RowsMove, Continues
<1>3. ASSUME NEW k \in Keys, ledger[k].state = "committed" PROVE ledger'[k].state = "committed"
  BY <1>3 DEF Moves, RowsMove, ExecInv, ExecutorsOwn, Owns
<1>4. Owns(p, x)'
  <2>1. x.phase = "applying" => Recorded(x.key)'
    BY DEF Moves, Continues, ExecInv, ExecutorsOwn, Owns
  <2> QED
    BY <1>1, <2>1 DEF Moves, Continues, Owns
<1>5. ASSUME NEW q \in Gateways, q # p PROVE Owns(q, exec[q])'
  <2>1. exec'[q] = exec[q] /\ Owns(q, exec[q])
    BY <1>1, <1>5 DEF ExecInv, ExecutorsOwn
  <2>2. exec[q].phase \in OwnerPhases => ledger'[exec[q].key].state = "claimed"
    BY <1>2, <1>5
  <2>3. exec[q].phase = "committed" => ledger'[exec[q].key].state = "committed"
    BY <1>3, <2>1 DEF Owns, KeyedPhases
  <2>4. exec[q].phase = "applying" => Recorded(exec[q].key)'
    BY <2>1 DEF Owns
  <2>5. exec[q].phase = "observing" => applied'[exec[q].key] > 0
    BY <2>1 DEF Owns, Moves, SiteMoves, KeyedPhases, OwnerPhases
  <2> QED
    BY <2>1, <2>2, <2>3, <2>4, <2>5 DEF Owns
<1>6. ExecutorsOwn'
  <2>1. ASSUME NEW q \in Gateways PROVE Owns(q, exec[q])'
    <3>1. CASE q = p
      BY <1>1, <1>4, <3>1 DEF Owns
    <3> QED
      BY <1>5, <3>1
  <2> QED
    BY <2>1 DEF ExecutorsOwn
<1>7. OwnersAlone'
  BY <1>1, <1>2 DEF ExecInv, OwnersAlone
<1>8. LedgerTrue'
  BY DEF ExecInv, LedgerTrue, Moves, SiteMoves
<1>9. AppliedRecorded'
  <2>1. ASSUME NEW k \in Keys, applied'[k] > 0 PROVE Recorded(k)
    BY <2>1 DEF ExecInv, AppliedRecorded, ExecutorsOwn, Owns, Moves, SiteMoves
  <2> QED
    BY <2>1 DEF AppliedRecorded
<1> QED
  BY <1>6, <1>7, <1>8, <1>9 DEF ExecInv
--------------------------------------------------------------------------------
LEMMA IdleMoves ==
    ASSUME Shaped, ExecInv, NEW p \in Gateways, UNCHANGED <<exec, ledger, applied>>
    PROVE  Moves(p, exec[p])
<1>1. exec' = [exec EXCEPT ![p] = exec[p]]
  BY DEF Shaped, ExecShaped
<1>2. RowsMove(p, exec[p]) /\ SiteMoves(p)
  BY DEF RowsMove, SiteMoves
<1>3. Continues(p, exec[p])
  BY DEF Continues, ExecInv, ExecutorsOwn, Owns
<1> QED
  BY <1>1, <1>2, <1>3 DEF Moves

\* An executor without a claim ends, or goes on to one without a claim.
LEMMA DropMoves ==
    ASSUME NEW p \in Gateways, NEW x, exec' = [exec EXCEPT ![p] = x], UNCHANGED ledger,
           x.phase \in KeyedPhases => x.phase = "planning" /\ x.key \in Keys, SiteMoves(p)
    PROVE  Moves(p, x)
BY DEF Moves, RowsMove, Continues, KeyedPhases, OwnerPhases

\* The site may have applied what an executor sent; nothing else applies anything.
LEMMA SiteFacts ==
    ASSUME Shaped, NEW p \in Gateways, UNCHANGED ledger,
           \/ UNCHANGED applied
           \/ /\ exec[p].phase = "applying"
              /\ \E done \in 0 .. 1 : applied' = [applied EXCEPT ![exec[p].key] = @ + done]
    PROVE  SiteMoves(p)
<1>1. CASE UNCHANGED applied
  BY <1>1 DEF SiteMoves
<1>2. ASSUME NEW done \in 0 .. 1, exec[p].phase = "applying",
             applied' = [applied EXCEPT ![exec[p].key] = @ + done]
      PROVE  SiteMoves(p)
  <2>1. \A k \in Keys : applied[k] \in Nat
    BY DEF Shaped
  <2>2. \A k \in Keys : /\ k # exec[p].key => applied'[k] = applied[k]
                        /\ k = exec[p].key => applied'[k] = applied[k] + done
    BY <1>2 DEF Shaped
  <2>3. \A k \in Keys : applied[k] > 0 => applied'[k] > 0
    BY <2>1, <2>2
  <2> QED
    BY <1>2, <2>2, <2>3 DEF SiteMoves
<1> QED
  BY <1>1, <1>2

\* The owner of a key goes on with it.
LEMMA OwnerMoves ==
    ASSUME Shaped, ExecInv, NEW p \in Gateways, NEW y \in {"applying", "observing", "compensating", "giving_up"},
           exec[p].phase \in OwnerPhases, Sets(p, y), UNCHANGED ledger, SiteMoves(p),
           NEW k, k = exec[p].key, y = "applying" => Recorded(k)', y = "observing" => applied'[k] > 0
    PROVE  \E x : Moves(p, x)
<1>1. PICK x : exec' = [exec EXCEPT ![p] = x] /\ x.phase = y /\ x.key = exec[p].key
  <2>1. [exec[p] EXCEPT !.phase = y].phase = y /\ [exec[p] EXCEPT !.phase = y].key = exec[p].key
    BY DEF Shaped, ExecShaped
  <2> QED
    BY <2>1 DEF Sets, Shaped, ExecShaped
<1>2. exec[p].key \in Keys /\ ledger[exec[p].key].state = "claimed"
  BY DEF ExecInv, ExecutorsOwn, Owns, KeyedPhases
<1>3. RowsMove(p, x)
  BY DEF RowsMove
<1>4. Continues(p, x)
  BY <1>1, <1>2 DEF Continues
<1> QED
  BY <1>1, <1>3, <1>4 DEF Moves
--------------------------------------------------------------------------------
LEMMA NoExecKeyless == NoExec.phase \notin KeyedPhases
BY DEF NoExec, KeyedPhases, OwnerPhases

LEMMA AbortMoves ==
    ASSUME Shaped, ExecInv, NEW p \in Gateways, UNCHANGED ledger, Abort(p)
    PROVE  \E x : Moves(p, x)
<1>1. CASE exec[p].phase \in {"applying", "observing", "compensating"}
  <2>1. Sets(p, "giving_up") /\ exec[p].phase \in OwnerPhases
    BY <1>1 DEF Abort, OwnerPhases
  <2>2. \/ UNCHANGED applied
        \/ /\ exec[p].phase = "applying"
           /\ \E done \in 0 .. 1 : applied' = [applied EXCEPT ![exec[p].key] = @ + done]
    <3>1. CASE exec[p].phase = "applying"
      BY <1>1, <3>1 DEF Abort
    <3>2. CASE exec[p].phase # "applying"
      BY <1>1, <3>2 DEF Abort, Shaped
    <3> QED
      BY <3>1, <3>2
  <2>3. SiteMoves(p)
    BY <2>2, SiteFacts
  <2> QED
    BY <2>1, <2>3, OwnerMoves
<1>2. CASE exec[p].phase \notin {"applying", "observing", "compensating"}
  <2>1. exec' = [exec EXCEPT ![p] = NoExec] /\ UNCHANGED applied
    BY <1>2 DEF Abort
  <2>2. Moves(p, NoExec)
    BY <2>1, SiteFacts, DropMoves, NoExecKeyless
  <2> QED
    BY <2>2
<1> QED
  BY <1>1, <1>2

LEMMA RunStepMoves ==
    ASSUME Shaped, ExecInv, PlacesInv, NEW p \in Gateways, RunStep(p)
    PROVE  \E x : Moves(p, x)
<1>1. CASE UNCHANGED <<exec, ledger, applied>>
  BY <1>1, IdleMoves
<1>2. CASE BeginIteration(p) /\ ~UNCHANGED exec
  <2> DEFINE n == run[p].node
             x == [phase |-> IF Graph[n].kind = "effect" THEN "planning" ELSE "thinking",
                   key |-> Graph[n].key, token |-> run[p].token]
  <2>1. exec' = [exec EXCEPT ![p] = x] /\ UNCHANGED <<ledger, applied>> /\ run[p].pc = "begin"
    BY <1>2 DEF BeginIteration, worldVars
  <2>2. n \in Nodes
    BY <2>1 DEF PlacesInv, Fits, Placed, AtNode, NodePcs
  <2>3. Graph[n].kind = "effect" => Graph[n].key \in Keys
    <3>1. Len(Graph) \in Nat /\ n \in 1 .. Len(Graph)
      BY <2>2, GraphAssumption DEF Nodes
    <3>2. Graph[n].key \in Keys \cup {NoKey} /\ (Graph[n].kind = "effect" => Graph[n].key # NoKey)
      <4> DEFINE T == [kind : NodeKinds, children : SUBSET Nat,
                       key : Keys \cup {NoKey}, iterations : Nat \ {0}]
      <4>1. Graph \in Seq(T) /\ ((Graph[n].kind = "effect") <=> (Graph[n].key # NoKey))
        BY <2>2, GraphAssumption
      <4> HIDE DEF T
      <4>2. Graph[n] \in T
        BY <3>1, <4>1
      <4> USE DEF T
      <4> QED
        BY <4>1, <4>2
    <3> QED
      BY <3>2
  <2>4. x.phase \in KeyedPhases => x.phase = "planning" /\ x.key \in Keys
    BY <2>3 DEF KeyedPhases, OwnerPhases
  <2> HIDE DEF x
  <2>5. Moves(p, x)
    BY <2>1, <2>4, SiteFacts, DropMoves
  <2> QED
    BY <2>5
<1>3. RunStep(p) => UNCHANGED <<exec, ledger, applied>> \/ (BeginIteration(p) /\ ~UNCHANGED exec)
  <2>1. CASE Snapshot(p) \/ Rehydrate(p) \/ Pick(p)
    BY <2>1 DEF Snapshot, Rehydrate, Pick, worldVars
  <2>2. CASE StartNode(p) \/ CompleteMission(p) \/ ClaimLease(p)
    BY <2>2 DEF StartNode, CompleteMission, ClaimLease, Emit, worldVars
  <2>3. CASE BeginIteration(p)
    BY <2>3 DEF BeginIteration, worldVars
  <2>4. CASE RecordIteration(p) \/ AskForInput(p) \/ CompleteNode(p) \/ FailNode(p)
    BY <2>4 DEF RecordIteration, AskForInput, CompleteNode, FailNode, Emit, worldVars
  <2>5. CASE FailMission(p)
    BY <2>5 DEF FailMission, Emit, worldVars
  <2>6. CASE RecordCompensation(p) \/ FinishCancellation(p) \/ CompletePause(p)
    BY <2>6 DEF RecordCompensation, FinishCancellation, CompletePause, Emit, worldVars
  <2> QED
    BY <2>1, <2>2, <2>3, <2>4, <2>5, <2>6 DEF RunStep
<1> QED
  BY <1>1, <1>2, <1>3

LEMMA OutsideMoves ==
    ASSUME Shaped, ExecInv, NEW p \in Gateways,
           Control(p) \/ NodeTimesOut(p) \/ Close(p) \/ Exit(p) \/ CrashGateway(p)
    PROVE  \E x : Moves(p, x)
<1>1. CASE Control(p) \/ NodeTimesOut(p) \/ Close(p)
  <2>1. UNCHANGED ledger /\ (Abort(p) \/ UNCHANGED <<exec, applied>>)
    BY <1>1 DEF Control, Pause, ResumeMission, Steer, Cancel, NodeTimesOut, Close
  <2> QED
    BY <2>1, AbortMoves, IdleMoves
<1>2. CASE Exit(p) \/ CrashGateway(p)
  <2>1. exec' = [exec EXCEPT ![p] = NoExec] /\ UNCHANGED ledger
    BY <1>2 DEF Exit, CrashGateway, worldVars
  <2>2. \/ UNCHANGED applied
        \/ /\ exec[p].phase = "applying"
           /\ \E done \in 0 .. 1 : applied' = [applied EXCEPT ![exec[p].key] = @ + done]
    BY <1>2 DEF Exit, CrashGateway, worldVars
  <2>3. Moves(p, NoExec)
    BY <2>1, <2>2, SiteFacts, DropMoves, NoExecKeyless
  <2> QED
    BY <2>3
<1> QED
  BY <1>1, <1>2
--------------------------------------------------------------------------------
LEMMA MarkFacts ==
    ASSUME Shaped, NEW k \in Keys, NEW t, NEW s, Mark(k, t, s)
    PROVE  ledger'[k].state = s /\ \A j \in Keys \ {k} : ledger'[j] = ledger[j]
BY DEF Shaped, Mark

\* The owner of a key ends with it, in the ledger as well.
LEMMA MarkMoves ==
    ASSUME Shaped, ExecInv, NEW p \in Gateways, exec[p].phase \in OwnerPhases,
           NEW t, NEW s \in {"committed", "failed"}, Mark(exec[p].key, t, s), UNCHANGED applied,
           s = "committed" => applied[exec[p].key] > 0,
           NEW x, exec' = [exec EXCEPT ![p] = x],
           \/ x.phase = "committed" /\ s = "committed" /\ x.key = exec[p].key
           \/ x.phase \notin KeyedPhases
    PROVE  Moves(p, x)
<1> DEFINE k == exec[p].key
<1>1. k \in Keys
  BY DEF ExecInv, ExecutorsOwn, Owns, KeyedPhases
<1>2. ledger'[k].state = s /\ \A j \in Keys \ {k} : ledger'[j] = ledger[j]
  BY <1>1, MarkFacts
<1>3. x.phase \notin OwnerPhases
  BY DEF KeyedPhases, OwnerPhases
<1>4. RowsMove(p, x)
  BY <1>2, <1>3 DEF RowsMove
<1>5. SiteMoves(p)
  BY <1>2 DEF SiteMoves
<1>6. Continues(p, x)
  BY <1>1, <1>2, <1>3 DEF Continues, KeyedPhases, OwnerPhases
<1> QED
  BY <1>4, <1>5, <1>6 DEF Moves

LEMMA ClaimMoves ==
    ASSUME Shaped, NEW p \in Gateways, exec[p].key \in Keys, IsFree(ledger[exec[p].key]),
           NEW t, Mark(exec[p].key, t, "claimed"), Sets(p, "claimed"), UNCHANGED applied
    PROVE  \E x : Moves(p, x)
<1> DEFINE k == exec[p].key
<1>1. ledger'[k].state = "claimed" /\ \A j \in Keys \ {k} : ledger'[j] = ledger[j]
  BY MarkFacts
<1>2. PICK x : exec' = [exec EXCEPT ![p] = x] /\ x.phase = "claimed" /\ x.key = k
  <2>1. /\ [exec[p] EXCEPT !.phase = "claimed"].phase = "claimed"
        /\ [exec[p] EXCEPT !.phase = "claimed"].key = exec[p].key
    BY DEF Shaped, ExecShaped
  <2> QED
    BY <2>1 DEF Sets, Shaped, ExecShaped
<1>3. RowsMove(p, x)
  BY <1>1 DEF RowsMove, IsFree
<1>4. SiteMoves(p)
  BY <1>1 DEF SiteMoves
<1>5. Continues(p, x)
  BY <1>1, <1>2 DEF Continues, IsFree
<1> QED
  BY <1>2, <1>3, <1>4, <1>5 DEF Moves

\* The reasoning of a node is reported, or could not be.
LEMMA ThinkMoves ==
    ASSUME Shaped, NEW p \in Gateways, NEW y \in {"reported", "spoiled"}, Sets(p, y),
           UNCHANGED <<ledger, applied>>
    PROVE  \E x : Moves(p, x)
<1>1. PICK x : exec' = [exec EXCEPT ![p] = x] /\ x.phase = y
  <2>1. [exec[p] EXCEPT !.phase = y].phase = y
    BY DEF Shaped, ExecShaped
  <2> QED
    BY <2>1 DEF Sets
<1>2. x.phase \notin KeyedPhases
  BY <1>1 DEF KeyedPhases, OwnerPhases
<1> QED
  BY <1>1, <1>2, SiteFacts, DropMoves

\* An effect is on record before it is sent.
LEMMA AnnouncedIsRecorded ==
    ASSUME LogInv, PlacesInv, NEW p \in Gateways, run[p].pc = "work", NEW e,
           e.type = "effect_started", e.node = run[p].node, Accepted(p, e)
    PROVE  Recorded(e.key)'
<1> DEFINE n == run[p].node
<1>1. n \in Nodes /\ MissionShaped(view[p]) /\ mission' = Reduced(view[p], e)
  BY AcceptedIsNext DEF PlacesInv, Fits, Placed, AtNode, NodePcs, LogInv, LogShaped
<1>2. e.type \in NodeTypes /\ e.node \in Nodes /\ WellFormed(e) /\ NodeShaped(view[p].node[e.node])
      /\ e.node = n
  BY <1>1 DEF WellFormed, NodeTypes, MissionShaped
<1> HIDE DEF n
<1>3. mission'.node[e.node] = NodeAfter(view[p], e) /\ mission'.committed = view[p].committed
  <2>1. Reduced(view[p], e).node[e.node] = NodeAfter(view[p], e)
    BY <1>1, <1>2, ReducedFacts
  <2>2. Reduced(view[p], e).committed = view[p].committed
    BY DEF Reduced
  <2> QED
    BY <1>1, <2>1, <2>2
<1>4. NodeAfter(view[p], e).inFlight = view[p].node[e.node].inFlight \cup ({e.key} \ view[p].committed)
  BY <1>1, <1>2, NodeAfterFacts
<1>5. e.key \in mission'.committed \/ e.key \in mission'.node[e.node].inFlight
  BY <1>3, <1>4
<1> QED
  BY <1>2, <1>5 DEF Recorded, InFlight

LEMMA ExecutorStepMoves ==
    ASSUME Shaped, ExecInv, LogInv, PlacesInv, NEW p \in Gateways,
           ExecutorStep(p) \/ StreamProgress(p)
    PROVE  \E x : Moves(p, x)
<1>1. ASSUME exec' = [exec EXCEPT ![p] = NoExec], UNCHANGED ledger, SiteMoves(p)
      PROVE  \E x : Moves(p, x)
  BY <1>1, DropMoves, NoExecKeyless
<1>2. CASE StreamProgress(p)
  <2>1. UNCHANGED <<ledger, applied>> /\ \E y \in {"reported", "spoiled"} : Sets(p, y)
    BY <1>2 DEF StreamProgress, Sets, worldVars
  <2> QED
    BY <2>1, ThinkMoves
<1>3. CASE Think(p) \/ RecordEffect(p)
  BY <1>1, <1>3, SiteFacts DEF Think, RecordEffect, Stops, worldVars
<1>4. CASE ClaimEffect(p)
  <2>1. exec[p].key \in Keys /\ UNCHANGED applied
    BY <1>4 DEF ClaimEffect, Phase, ExecInv, ExecutorsOwn, Owns, KeyedPhases
  <2>2. CASE /\ IsFree(ledger[exec[p].key]) /\ Mark(exec[p].key, exec[p].token, "claimed")
             /\ Sets(p, "claimed")
    BY <2>1, <2>2, ClaimMoves
  <2>3. CASE exec' = [exec EXCEPT ![p] = NoExec] /\ UNCHANGED ledger
    BY <1>1, <2>1, <2>3, SiteFacts
  <2> QED
    BY <1>4, <2>2, <2>3 DEF ClaimEffect, Stops
<1>5. CASE AnnounceEffect(p)
  <2>0. PICK e : e = [OfNode(p, "effect_started") EXCEPT !.key = exec[p].key]
    OBVIOUS
  <2>1. /\ exec[p].phase \in OwnerPhases /\ run[p].pc = "work" /\ UNCHANGED <<ledger, applied>>
        /\ (Accepted(p, e) /\ Sets(p, "applying")) \/ Sets(p, "giving_up")
    BY <1>5, <2>0 DEF AnnounceEffect, Phase, OwnerPhases, worldVars
  <2>2. e.type = "effect_started" /\ e.node = run[p].node /\ e.key = exec[p].key
    BY <2>0, OfNodeFacts
  <2>3. Accepted(p, e) => Recorded(e.key)'
    BY <2>1, <2>2, AnnouncedIsRecorded
  <2>4. SiteMoves(p)
    BY <2>1, SiteFacts
  <2> QED
    BY <2>1, <2>2, <2>3, <2>4, OwnerMoves
<1>6. CASE ApplyEffect(p)
  <2>1. /\ exec[p].phase = "applying" /\ exec[p].phase \in OwnerPhases /\ UNCHANGED ledger
        /\ exec[p].key \in Keys
    BY <1>6 DEF ApplyEffect, Phase, OwnerPhases, KeyedPhases, ExecInv, ExecutorsOwn, Owns
  <2>2. SiteMoves(p)
    BY <1>6, <2>1, SiteFacts DEF ApplyEffect
  <2>3. Sets(p, "observing") => applied'[exec[p].key] > 0
    <3>1. ASSUME Sets(p, "observing") PROVE applied' = [applied EXCEPT ![exec[p].key] = @ + 1]
      <4>1. exec'[p].phase = "observing"
        BY <3>1, SetsFacts DEF Shaped
      <4>2. ~Stops(p, "failing", "none") /\ ~Sets(p, "giving_up")
        BY <4>1, SetsFacts DEF Stops, NoExec, Shaped, ExecShaped
      <4> QED
        BY <1>6, <4>2 DEF ApplyEffect
    <3>2. applied[exec[p].key] \in Nat
      BY <2>1 DEF Shaped
    <3> QED
      BY <2>1, <3>1, <3>2 DEF Shaped
  <2>4. Sets(p, "observing") \/ Sets(p, "giving_up") \/ exec' = [exec EXCEPT ![p] = NoExec]
    BY <1>6 DEF ApplyEffect, Stops
  <2> QED
    BY <1>1, <2>1, <2>2, <2>3, <2>4, OwnerMoves
<1>7. CASE ObserveEffect(p)
  <2>1. /\ exec[p].phase \in OwnerPhases /\ UNCHANGED applied /\ applied[exec[p].key] > 0
    BY <1>7 DEF ObserveEffect, Phase, OwnerPhases, ExecInv, ExecutorsOwn, Owns
  <2>2. CASE Mark(exec[p].key, exec[p].token, "committed") /\ Sets(p, "committed")
    <3>1. PICK x : exec' = [exec EXCEPT ![p] = x] /\ x.phase = "committed" /\ x.key = exec[p].key
      <4>1. /\ [exec[p] EXCEPT !.phase = "committed"].phase = "committed"
            /\ [exec[p] EXCEPT !.phase = "committed"].key = exec[p].key
        BY DEF Shaped, ExecShaped
      <4> QED
        BY <2>2, <4>1 DEF Sets, Shaped, ExecShaped
    <3> QED
      BY <2>1, <2>2, <3>1, MarkMoves
  <2>3. CASE UNCHANGED ledger /\ (Sets(p, "compensating") \/ Sets(p, "giving_up"))
    BY <2>1, <2>3, SiteFacts, OwnerMoves
  <2>4. CASE UNCHANGED ledger /\ exec' = [exec EXCEPT ![p] = NoExec]
    BY <1>1, <2>1, <2>4, SiteFacts
  <2> QED
    BY <1>7, <2>2, <2>3, <2>4 DEF ObserveEffect, Stops
<1>8. CASE CompensateEffect(p)
  <2>1. exec[p].phase \in OwnerPhases /\ UNCHANGED applied
    BY <1>8 DEF CompensateEffect, Phase, OwnerPhases
  <2>2. CASE Mark(exec[p].key, exec[p].token, "failed") /\ exec' = [exec EXCEPT ![p] = NoExec]
    BY <2>1, <2>2, MarkMoves, NoExecKeyless
  <2>3. CASE UNCHANGED ledger /\ Sets(p, "giving_up")
    BY <2>1, <2>3, SiteFacts, OwnerMoves
  <2>4. CASE UNCHANGED ledger /\ exec' = [exec EXCEPT ![p] = NoExec]
    BY <1>1, <2>1, <2>4, SiteFacts
  <2> QED
    BY <1>8, <2>2, <2>3, <2>4 DEF CompensateEffect, Stops
<1>9. CASE GiveUp(p)
  <2>1. /\ exec[p].phase \in OwnerPhases /\ UNCHANGED applied
        /\ Mark(exec[p].key, exec[p].token, "failed") /\ exec' = [exec EXCEPT ![p] = NoExec]
    BY <1>9 DEF GiveUp, Stops, OwnerPhases
  <2> QED
    BY <2>1, MarkMoves, NoExecKeyless
<1> QED
  BY <1>2, <1>3, <1>4, <1>5, <1>6, <1>7, <1>8, <1>9 DEF ExecutorStep
--------------------------------------------------------------------------------
(* All of it together.                                                     *)

MissionInv == IInv /\ LogInv /\ GraphInv /\ PlacesInv /\ ExecInv

\* What a process does to the log, its place and its executor keeps all of them.
LEMMA ProcessStep ==
    ASSUME LogInv, GraphInv, PlacesInv, ExecInv, Shaped, NEW p \in Gateways,
           Good(p), NEW x, Moves(p, x)
    PROVE  LogInv' /\ GraphInv' /\ PlacesInv' /\ ExecInv'
<1>1. LedgerKeeps
  BY MovesKeepRows DEF Good
<1>2. /\ LogInv' /\ GraphInv' /\ \A k : Recorded(k) => Recorded(k)'
      /\ mission' = mission \/ mission'.sequence = mission.sequence + 1
  <2>1. CASE \E e : Sound(view[p], e) /\ Accepted(p, e)
    <3>1. PICK e : Sound(view[p], e) /\ Accepted(p, e)
      BY <2>1
    <3> QED
      BY <1>1, <3>1, AcceptedKeeps
  <2>2. CASE /\ UNCHANGED mission /\ view' = [q \in Gateways |-> view'[q]]
             /\ view'[p] \in {view[p], mission, Pending}
             /\ \A q \in Gateways \ {p} : view'[q] = view[q]
    BY <1>1, <2>2, ReadKeeps
  <2> QED
    BY <2>1, <2>2 DEF Good, LogMoves
<1>3. PlacesInv'
  BY <1>2, PlaceStep
<1>4. ExecInv'
  BY <1>2, MovesKeep
<1> QED
  BY <1>2, <1>3, <1>4

\* The admission of a mission, by the first process that submits it.
LEMMA SubmitKeeps ==
    ASSUME LogInv, GraphInv, PlacesInv, ExecInv, Shaped, NEW p \in Gateways, Submit(p)
    PROVE  LogInv' /\ GraphInv' /\ PlacesInv' /\ ExecInv'
<1> DEFINE e == RunEvent("mission_started")
<1>1. UNCHANGED <<view, lapsed, exec, raced, ledger, applied>> /\ Goes(p, "snapshot")
  BY DEF Submit, worldVars
<1>2. LedgerKeeps
  BY <1>1 DEF LedgerKeeps
<1>3. view = [q \in Gateways |-> view[q]]
  BY DEF LogInv, LogShaped
<1>4. /\ LogInv' /\ GraphInv' /\ \A k : Recorded(k) => Recorded(k)'
      /\ mission' = mission \/ mission'.sequence = mission.sequence + 1
  <2>1. CASE mission.status = "pending"
    <3>1. mission' = Reduced(mission, e) /\ MissionShaped(mission)
      BY <2>1 DEF Submit, LogInv, LogShaped
    <3>2. Sound(mission, e) /\ WellFormed(e)
      BY RunEventSound DEF RunTypes, Sound
    <3>3. Reducible(mission, e, lapsed)
      BY <2>1 DEF Reducible, AcceptedIn, RunEvent, NoNode, FencedTypes
    <3> HIDE DEF e
    <3>4. mission'.sequence = mission.sequence + 1
      BY <3>1, <3>2, ReducedFacts
    <3>5. LogInv'
      BY <1>1, <1>3, <3>1, <3>2, LogGrows
    <3>6. GraphInv' /\ \A k : Recorded(k) => Recorded(k)'
      BY <1>2, <3>1, <3>2, <3>3, EventGraph
    <3> QED
      BY <3>4, <3>5, <3>6
  <2>2. CASE mission.status # "pending"
    <3>1. UNCHANGED mission
      BY <2>2 DEF Submit
    <3> QED
      BY <1>1, <1>2, <1>3, <3>1, ReadKeeps
  <2> QED
    BY <2>1, <2>2
<1>5. PlacesInv'
  <2>1. run' = [run EXCEPT ![p] = Now(p, "snapshot")]
    BY <1>1, GoesNow
  <2>2. \A m : Fits(Now(p, "snapshot"), view[p], m)
    BY NowShaped, IdleFits DEF WalkPcs, NodePcs
  <2>3. run' = [q \in Gateways |-> run'[q]]
    BY <2>1 DEF PlacesInv
  <2>4. ASSUME NEW q \in Gateways PROVE Fits(run[q], view[q], mission)'
    <3>1. CASE q = p
      <4>1. run'[q] = Now(p, "snapshot")
        BY <2>1, <3>1 DEF PlacesInv
      <4>2. Fits(Now(p, "snapshot"), view[p], mission')
        BY <2>2
      <4> QED
        BY <1>1, <3>1, <4>1, <4>2 DEF Fits, Placed, Recovers, Knows
    <3>2. CASE q # p
      <4>1. run'[q] = run[q] /\ Fits(run[q], view[q], mission) /\ mission.sequence \in Nat
        BY <2>1, <3>2 DEF PlacesInv, LogInv, LogShaped, MissionShaped
      <4>2. Recovers(run[q], mission)'
        BY <1>4, <4>1 DEF Fits, Recovers, Selected
      <4> QED
        BY <1>1, <4>1, <4>2 DEF Fits, RunShaped, Placed, Knows
    <3> QED
      BY <3>1, <3>2
  <2> QED
    BY <2>3, <2>4 DEF PlacesInv
<1>6. ExecInv'
  <2>1. Moves(p, exec[p])
    BY <1>1, IdleMoves
  <2>2. PICK x : Moves(p, x)
    BY <2>1
  <2> QED
    BY <1>4, <2>2, MovesKeep
<1> QED
  BY <1>4, <1>5, <1>6

\* Time passes: a lease lapses, the mission becomes late.
LEMMA TimeKeeps ==
    ASSUME LogInv, GraphInv, PlacesInv, ExecInv, Shaped,
           UNCHANGED <<mission, view, run, exec, raced, ledger, applied>>
    PROVE  LogInv' /\ GraphInv' /\ PlacesInv' /\ ExecInv'
<1>1. LedgerKeeps /\ view = [q \in Gateways |-> view[q]]
  BY DEF LedgerKeeps, LogInv, LogShaped
<1>2. LogInv' /\ GraphInv'
  BY <1>1, ReadKeeps
<1>3. PlacesInv'
  BY DEF PlacesInv, Fits, RunShaped, Placed, Recovers, Knows
<1>4. ExecInv'
  BY DEF ExecInv, ExecutorsOwn, Owns, OwnersAlone, LedgerTrue, AppliedRecorded, Recorded
<1> QED
  BY <1>2, <1>3, <1>4

LEMMA NextMissionInv == MissionInv /\ [MissionNext]_missionVars => MissionInv'
<1> SUFFICES ASSUME MissionInv, [MissionNext]_missionVars PROVE MissionInv'
  OBVIOUS
<1>1. IInv' /\ Shaped /\ LogInv /\ GraphInv /\ PlacesInv /\ ExecInv
  BY NextIInv DEF MissionInv, IInv
<1>2. ASSUME NEW p \in Gateways, Submit(p) PROVE MissionInv'
  BY <1>1, <1>2, SubmitKeeps DEF MissionInv
<1>3. ASSUME NEW p \in Gateways, Good(p), \E x : Moves(p, x) PROVE MissionInv'
  BY <1>1, <1>3, ProcessStep DEF MissionInv
<1>4. ASSUME NEW p \in Gateways, RunStep(p) PROVE MissionInv'
  BY <1>1, <1>3, <1>4, RunStepGood, RunStepMoves
<1>5. ASSUME NEW p \in Gateways, ExecutorStep(p) \/ StreamProgress(p) PROVE MissionInv'
  BY <1>1, <1>3, <1>5, ExecutorStepGood, ExecutorStepMoves
<1>6. ASSUME NEW p \in Gateways,
             Control(p) \/ NodeTimesOut(p) \/ Close(p) \/ Exit(p) \/ CrashGateway(p)
      PROVE  MissionInv'
  BY <1>1, <1>3, <1>6, ControlGood, OutsideGood, OutsideMoves
<1>7. CASE UNCHANGED missionVars \/ BecomesLate \/ \E n \in Nodes : LeaseLapses(n)
  <2>1. UNCHANGED <<mission, view, run, exec, raced, ledger, applied>>
    BY <1>7 DEF missionVars, BecomesLate, LeaseLapses, logVars, worldVars
  <2> QED
    BY <1>1, <2>1, TimeKeeps DEF MissionInv
<1> QED
  BY <1>2, <1>4, <1>5, <1>6, <1>7 DEF MissionNext

LEMMA InitMissionInv == MissionInit => MissionInv
<1> SUFFICES ASSUME MissionInit PROVE MissionInv
  OBVIOUS
<1>1. IInv
  BY InitIInv
<1>2. LogInv
  BY PendingShaped DEF MissionInit, LogInv, LogShaped, CopiesFollow, Follows, MissionShaped
<1>3. /\ \A n \in Nodes : /\ mission.node[n].state = "none" /\ mission.node[n].inFlight = {}
                          /\ mission.node[n].next = {}
      /\ mission.committed = {} /\ mission.status = "pending"
  BY DEF MissionInit, Pending, Untouched
<1>4. GraphInv
  BY <1>3 DEF GraphInv, OnlyReached, NextInGraph, FlightsRun, NoneLeft, LogTrue
<1>5. PlacesInv
  BY AsleepFits DEF MissionInit, PlacesInv
<1>6. ExecInv
  BY DEF MissionInit, ExecInv, ExecutorsOwn, Owns, OwnersAlone, LedgerTrue, AppliedRecorded,
         NoExec, OwnerPhases, KeyedPhases
<1> QED
  BY <1>1, <1>2, <1>4, <1>5, <1>6 DEF MissionInv

\* The log never hides an effect, for any graph, any number of gateways and
\* whatever stops them: what may have been applied is in flight or committed in
\* it, what it calls committed was applied, and a mission that is paused or
\* cancelled, or completed by a recovery that read its events once, left none open.
THEOREM EffectsStayOnRecord == MissionSpec => []EffectsOnRecord
<1>1. ASSUME MissionInv PROVE EffectsOnRecord
  <2>1. \A k \in Keys : applied[k] > 0 => k \in mission.committed \cup InFlight(mission)
    BY <1>1 DEF MissionInv, ExecInv, AppliedRecorded, Recorded
  <2>2. \A k \in mission.committed : applied[k] > 0 /\ ledger[k].state = "committed"
    BY <1>1 DEF MissionInv, GraphInv, LogTrue, ExecInv, LedgerTrue
  <2>3. \/ mission.status \in {"paused", "cancelled"}
        \/ mission.status = "completed" /\ "recovery" \notin raced
        => InFlight(mission) = {}
    BY <1>1 DEF MissionInv, GraphInv, NoneLeft
  <2> QED
    BY <2>1, <2>2, <2>3 DEF EffectsOnRecord
<1> QED
  BY InitMissionInv, NextMissionInv, <1>1, PTL DEF MissionSpec

\* A node other than the entry was started only when a completed node had
\* selected it, over any number of recoveries that read the events once.
THEOREM ChosenBranchesOnly == MissionSpec => []OnlyChosenBranches
<1>1. ASSUME MissionInv PROVE OnlyChosenBranches
  <2> SUFFICES ASSUME "recovery" \notin raced, NEW n \in Nodes \ {1},
                      mission.node[n].state # "none"
               PROVE  \E m \in Nodes : mission.node[m].state = "completed" /\ n \in mission.node[m].next
    BY DEF OnlyChosenBranches
  <2> DEFINE S == {k \in Nodes : k = 1 \/ \E m \in Nodes : /\ mission.node[m].state = "completed"
                                                           /\ k \in mission.node[m].next}
  <2>1. 1 \in Nodes
    <3>1. Len(Graph) \in Nat /\ Len(Graph) # 0
      BY GraphAssumption
    <3> QED
      BY <3>1 DEF Nodes
  <2>2. \A m \in Nodes : mission.node[m].next \subseteq Nodes
    BY <1>1 DEF MissionInv, GraphInv, NextInGraph
  <2>3. ClosedIn(mission, S)
    BY <2>1, <2>2 DEF ClosedIn
  <2>4. n \in S
    BY <1>1, <2>3 DEF MissionInv, GraphInv, OnlyReached
  <2> QED
    BY <2>4
<1> QED
  BY InitMissionInv, NextMissionInv, <1>1, PTL DEF MissionSpec
--------------------------------------------------------------------------------
(* Who goes on with a mission.                                             *)

\* Nobody stopped, and every command reached a run that acts on it.
Undisturbed == stops = 0 /\ "command" \notin raced

\* Statuses that are never left for one in which the mission goes on.
Settled(m) == m.status \notin Steerable \cup {"pending"}

\* What a process does next fits the status it has seen.
Minds(r, v) ==
    /\ r.closed => stops > 0
    /\ r.pc = "compensate" => v.status = "failed"
    /\ r.pc = "outcome" => v.status = "compensation_running"
    /\ r.pc = "cancel" => r.cancel \/ v.status \in {"cancel_requested", "cancelling"}
    /\ r.pc = "pausing" => "command" \in raced
    /\ r.pc = "held" => v.status # "running"
    /\ AtNode(r) /\ r.pc # "lease" => r.controller # "none"
    /\ r.cancel /\ Undisturbed => Settled(mission)

\* A process whose copy is the log, or will be, and which goes on with it.
DrivesWith(r, v) ==
    \/ r.pc \in {"snapshot", "rehydrate"}
    \/ r.pc \notin {"none", "ended"} /\ v = mission
Drives(p) == DrivesWith(run[p], view[p])
SomeoneDrives ==
    Undisturbed /\ mission.status \in Steerable => \E p \in Gateways : Drives(p)

DriveInv == stops \in Nat /\ SomeoneDrives /\ \A p \in Gateways : Minds(run[p], view[p])

\* What a step of a process leaves: one that minds the status and drives the
\* mission, unless the mission is over or the process did not drive it before.
Heeds(p, x) ==
    /\ run' = [run EXCEPT ![p] = x]
    /\ Minds(x, view[p])'
    /\ Undisturbed' /\ mission'.status \in Steerable =>
         DrivesWith(x, view[p])' \/ (mission' = mission /\ ~Drives(p))

Disturbs == stops' \in Nat /\ stops' >= stops /\ raced \subseteq raced'

\* No event leads out of the settled statuses.
LEMMA SettledStays ==
    ASSUME LogInv, NEW p \in Gateways, Good(p), Settled(mission)
    PROVE  Settled(mission')
<1>1. CASE mission' = mission
  BY <1>1
<1>2. CASE mission' # mission
  <2>1. PICK e : Sound(view[p], e) /\ Accepted(p, e)
    BY <1>2 DEF Good, LogMoves
  <2>2. mission' = Reduced(mission, e) /\ Reducible(mission, e, lapsed) /\ WellFormed(e)
    BY <1>2, <2>1, AcceptedIsNext DEF Sound
  <2>3. CASE e.type \in NodeTypes
    <3>1. e.type \notin DOMAIN LeadsTo
      BY <2>3 DEF NodeTypes, LeadsTo
    <3>2. mission'.status = mission.status
      BY <2>2, <3>1 DEF Reduced
    <3> QED
      BY <3>2 DEF Settled
  <2>4. CASE e.type \in RunTypes
    <3>1. mission'.status = IF e.type = "steered" THEN mission.status ELSE LeadsTo[e.type]
      BY <2>2, <2>4 DEF Reduced, RunTypes, LeadsTo
    <3>2. e.type \notin {"mission_started", "pause_requested", "paused", "resumed", "steered"}
      BY <2>2 DEF Reducible, AcceptedIn, Settled, Steerable
    <3>3. e.type \in RunTypes \ {"mission_started", "pause_requested", "paused", "resumed", "steered"}
          => LeadsTo[e.type] \notin Steerable \cup {"pending"}
      BY DEF RunTypes, LeadsTo, Steerable
    <3> QED
      BY <2>4, <3>1, <3>2, <3>3 DEF Settled
  <2> QED
    BY <2>2, <2>3, <2>4 DEF WellFormed
<1> QED
  BY <1>1, <1>2

\* Every process minds the status, and the mission is driven, after such a step.
LEMMA HeedsKeeps ==
    ASSUME LogInv, PlacesInv, DriveInv, NEW p \in Gateways, Good(p), NEW x, Heeds(p, x), Disturbs
    PROVE  DriveInv'
<1>1. /\ run'[p] = x /\ \A q \in Gateways \ {p} : run'[q] = run[q] /\ view'[q] = view[q]
  BY AcceptedIsNext DEF Heeds, PlacesInv, Good, LogMoves
<1>2. Undisturbed' => Undisturbed
  BY DEF Undisturbed, Disturbs, DriveInv
<1>3. ASSUME NEW q \in Gateways PROVE Minds(run[q], view[q])'
  <2>1. CASE q = p
    BY <1>1, <2>1 DEF Heeds, Minds, Undisturbed, Settled
  <2>2. CASE q # p
    <3>1. Minds(run[q], view[q]) /\ run'[q] = run[q] /\ view'[q] = view[q]
      BY <1>1, <2>2 DEF DriveInv
    <3>2. run[q].closed => stops' > 0
      BY <3>1 DEF Minds, Disturbs, DriveInv
    <3>3. run[q].cancel /\ Undisturbed' => Settled(mission')
      BY <1>2, <3>1, SettledStays DEF Minds
    <3>4. run[q].pc = "pausing" => "command" \in raced'
      BY <3>1 DEF Minds, Disturbs
    <3> QED
      BY <3>1, <3>2, <3>3, <3>4 DEF Minds, Settled, Undisturbed
  <2> QED
    BY <2>1, <2>2
<1>4. SomeoneDrives'
  <2> SUFFICES ASSUME Undisturbed', mission'.status \in Steerable
               PROVE  \E q \in Gateways : Drives(q)'
    BY DEF SomeoneDrives
  <2>1. CASE DrivesWith(x, view[p])'
    BY <1>1, <2>1 DEF Drives, DrivesWith
  <2>2. CASE mission' = mission /\ ~Drives(p)
    <3>1. PICK q \in Gateways : Drives(q)
      BY <1>2, <2>2 DEF DriveInv, SomeoneDrives
    <3>2. q # p /\ run'[q] = run[q] /\ view'[q] = view[q]
      BY <1>1, <2>2, <3>1
    <3> QED
      BY <2>2, <3>1, <3>2 DEF Drives, DrivesWith
  <2> QED
    BY <2>1, <2>2 DEF Heeds
<1> QED
  BY <1>3, <1>4 DEF DriveInv, Disturbs
--------------------------------------------------------------------------------
\* A process that goes on with its walk or its node.
Plain(r, x) ==
    /\ x.cancel = r.cancel /\ x.closed = r.closed
    /\ x.pc \in {"pick", "caught"} \cup NodePcs
    /\ x.pc \in NodePcs \ {"lease"} => x.controller # "none"

LEMMA CancelStays ==
    ASSUME LogInv, DriveInv, NEW p \in Gateways, Good(p), Disturbs, run[p].cancel, Undisturbed'
    PROVE  Settled(mission')
<1>1. Undisturbed
  BY DEF Undisturbed, Disturbs, DriveInv
<1> QED
  BY <1>1, SettledStays DEF DriveInv, Minds

LEMMA ClosedStays ==
    ASSUME DriveInv, NEW p \in Gateways, Disturbs, run[p].closed
    PROVE  stops' > 0
<1>1. stops > 0
  BY DEF DriveInv, Minds
<1> QED
  BY <1>1 DEF DriveInv, Disturbs

LEMMA PlainHeeds ==
    ASSUME LogInv, DriveInv, NEW p \in Gateways, Good(p), Disturbs,
           NEW x, run' = [run EXCEPT ![p] = x], Plain(run[p], x),
           \/ view'[p] = mission'
           \/ UNCHANGED <<mission, view>> /\ run[p].pc \notin {"snapshot", "rehydrate"}
    PROVE  Heeds(p, x)
<1>1. Minds(x, view[p])'
  <2>1. x.closed => stops' > 0
    BY ClosedStays DEF Plain
  <2>2. x.cancel /\ Undisturbed' => Settled(mission')
    BY CancelStays DEF Plain
  <2> QED
    BY <2>1, <2>2 DEF Minds, Plain, NodePcs, AtNode, Settled, Undisturbed
<1>2. DrivesWith(x, view[p])' \/ (mission' = mission /\ ~Drives(p))
  BY DEF DrivesWith, Drives, Plain, NodePcs
<1> QED
  BY <1>1, <1>2 DEF Heeds

\* A run that ends leaves a mission that is over, or that it did not drive.
LEMMA EndsHeeds ==
    ASSUME LogInv, DriveInv, NEW p \in Gateways, Good(p), Disturbs,
           run' = [run EXCEPT ![p] = Ended(run[p])],
           Undisturbed' /\ mission'.status \in Steerable => mission' = mission /\ ~Drives(p)
    PROVE  Heeds(p, Ended(run[p]))
<1> DEFINE x == Ended(run[p])
<1>0. PICK y : y = x
  OBVIOUS
<1>1. y.pc = "ended" /\ y.cancel = run[p].cancel /\ y.closed = run[p].closed
  BY <1>0 DEF Ended, Asleep
<1> HIDE DEF x
<1>2. Minds(y, view[p])'
  <2>1. y.closed => stops' > 0
    BY <1>1, ClosedStays
  <2>2. y.cancel /\ Undisturbed' => Settled(mission')
    BY <1>1, CancelStays
  <2> QED
    BY <1>1, <2>1, <2>2 DEF Minds, NodePcs, AtNode, Settled, Undisturbed
<1>3. Heeds(p, y)
  BY <1>0, <1>2 DEF Heeds, x
<1> QED
  BY <1>0, <1>3 DEF x

\* A step that leaves the run of the process as it is, but for its controller.
LEMMA RestsHeeds ==
    ASSUME LogInv, DriveInv, NEW p \in Gateways, Good(p), Disturbs,
           NEW x, run' = [run EXCEPT ![p] = x],
           x.pc = run[p].pc, x.hold = run[p].hold, x.cancel = run[p].cancel,
           x.closed = run[p].closed, run[p].controller # "none" => x.controller # "none",
           \/ UNCHANGED <<mission, view>>
           \/ /\ run[p].pc \in {"held", "ended", "work"} /\ view'[p] = mission'
              /\ run[p].pc = "held" => mission'.status # "running"
              /\ run[p].pc = "ended" /\ Undisturbed' => mission'.status \notin Steerable
    PROVE  Heeds(p, x)
<1>1. Minds(x, view[p])'
  <2>1. x.closed => stops' > 0
    BY ClosedStays
  <2>2. x.cancel /\ Undisturbed' => Settled(mission')
    BY CancelStays
  <2>3. x.pc = "pausing" => "command" \in raced'
    BY DEF DriveInv, Minds, Disturbs
  <2>4. AtNode(x) /\ x.pc # "lease" => x.controller # "none"
    BY DEF DriveInv, Minds, AtNode
  <2>5. /\ x.pc = "compensate" => view'[p].status = "failed"
        /\ x.pc = "outcome" => view'[p].status = "compensation_running"
        /\ x.pc = "cancel" => x.cancel \/ view'[p].status \in {"cancel_requested", "cancelling"}
        /\ x.pc = "held" => view'[p].status # "running"
    BY DEF DriveInv, Minds
  <2> QED
    BY <2>1, <2>2, <2>3, <2>4, <2>5 DEF Minds, Settled, Undisturbed
<1>2. Undisturbed' /\ mission'.status \in Steerable =>
        DrivesWith(x, view[p])' \/ (mission' = mission /\ ~Drives(p))
  BY DEF DrivesWith, Drives
<1> QED
  BY <1>1, <1>2 DEF Heeds
--------------------------------------------------------------------------------
Heeded(p) == Disturbs /\ \E x : Heeds(p, x)

LEMMA CalmDisturbs ==
    ASSUME DriveInv, UNCHANGED stops, raced \subseteq raced'
    PROVE  Disturbs
BY DEF Disturbs, DriveInv

LEMMA GoodWidens == ASSUME NEW p, Good(p) PROVE raced \subseteq raced'
BY DEF Good

\* A process in a node has its controller, and may be moved within the node.
LEMMA NowPlain ==
    ASSUME PlacesInv, DriveInv, NEW p \in Gateways, NEW c
    PROVE  /\ c \in {"pick", "caught", "lease"} => Plain(run[p], Now(p, c))
           /\ c \in NodePcs /\ AtNode(run[p]) /\ run[p].pc # "lease" => Plain(run[p], Now(p, c))
<1>1. RunShaped(run[p]) /\ Minds(run[p], view[p])
  BY DEF PlacesInv, Fits, DriveInv
<1>2. /\ Now(p, c).pc = c /\ Now(p, c).cancel = run[p].cancel /\ Now(p, c).closed = run[p].closed
      /\ Now(p, c).controller = run[p].controller
  BY <1>1 DEF RunShaped, Now
<1> QED
  BY <1>1, <1>2 DEF Plain, NodePcs, Minds

LEMMA EmitPlain ==
    ASSUME LogInv, DriveInv, NEW p \in Gateways, Good(p), NEW e, NEW then, NEW else,
           Emit(p, e, then, else), run[p].pc \notin {"snapshot", "rehydrate"},
           Plain(run[p], then), Plain(run[p], else)
    PROVE  Heeded(p)
<1>1. Disturbs
  BY CalmDisturbs DEF Emit, worldVars
<1>2. CASE Accepted(p, e) /\ run' = [run EXCEPT ![p] = then]
  <2>1. view'[p] = mission'
    BY <1>2, AcceptedIsNext
  <2> QED
    BY <1>1, <1>2, <2>1, PlainHeeds DEF Heeded
<1>3. CASE Refused(p, e) /\ run' = [run EXCEPT ![p] = else]
  <2>1. UNCHANGED <<mission, view>>
    BY <1>3 DEF Refused, logVars
  <2> QED
    BY <1>1, <1>3, <2>1, PlainHeeds DEF Heeded
<1> QED
  BY <1>2, <1>3 DEF Emit

\* Steps of the walk and of a node, after which the process goes on.
LEMMA StartHeeds ==
    ASSUME LogInv, PlacesInv, DriveInv, NEW p \in Gateways, Good(p), StartNode(p)
    PROVE  Heeded(p)
<1>1. PICK n, token :
        Emit(p, [RunEvent("node_started") EXCEPT !.node = n, !.attempt = token],
             [run[p] EXCEPT !.pc = "lease", !.node = n, !.token = token], Now(p, "caught"))
  BY DEF StartNode
<1> DEFINE x == [run[p] EXCEPT !.pc = "lease", !.node = n, !.token = token]
<1>2. RunShaped(run[p]) /\ run[p].pc = "pick"
  BY DEF PlacesInv, Fits, StartNode, Walks
<1>3. x.pc = "lease" /\ x.cancel = run[p].cancel /\ x.closed = run[p].closed
  BY <1>2 DEF RunShaped
<1>4. Plain(run[p], x)
  BY <1>3 DEF Plain, NodePcs
<1> HIDE DEF x
<1>5. Plain(run[p], Now(p, "caught"))
  BY NowPlain
<1> QED
  BY <1>1, <1>2, <1>4, <1>5, EmitPlain DEF x

LEMMA LeaseHeeds ==
    ASSUME LogInv, PlacesInv, DriveInv, NEW p \in Gateways, Good(p), ClaimLease(p)
    PROVE  Heeded(p)
<1> DEFINE i == run[p].progress[run[p].node] + 1
           x == [run[p] EXCEPT !.pc = "begin", !.controller = "live", !.iteration = i]
<1>1. RunShaped(run[p]) /\ run[p].pc = "lease"
  BY DEF PlacesInv, Fits, ClaimLease
<1>2. x.pc = "begin" /\ x.cancel = run[p].cancel /\ x.closed = run[p].closed /\ x.controller = "live"
  <2> HIDE DEF i
  <2> QED
    BY <1>1 DEF RunShaped
<1>3. Plain(run[p], Now(p, "caught"))
  BY NowPlain
<1>4. Emit(p, OfNode(p, "lease_claimed"), x, Now(p, "caught")) => Heeded(p)
  <2> HIDE DEF x
  <2>1. Plain(run[p], x)
    BY <1>2 DEF Plain, NodePcs
  <2> QED
    BY <1>1, <1>3, <2>1, EmitPlain
<1>5. CASE Goes(p, "caught") /\ UNCHANGED <<logVars, exec, raced, worldVars>>
  <2>1. run' = [run EXCEPT ![p] = Now(p, "caught")] /\ Disturbs
    BY <1>5, GoesNow, CalmDisturbs DEF worldVars
  <2> QED
    BY <1>1, <1>3, <1>5, <2>1, PlainHeeds DEF Heeded, logVars
<1> QED
  BY <1>4, <1>5 DEF ClaimLease

LEMMA BeginHeeds ==
    ASSUME LogInv, PlacesInv, DriveInv, NEW p \in Gateways, Good(p), BeginIteration(p)
    PROVE  Heeded(p)
<1>1. /\ run[p].pc = "begin" /\ (Goes(p, "failing") \/ Goes(p, "work"))
      /\ UNCHANGED <<mission, view, raced, stops>>
  BY DEF BeginIteration, logVars, worldVars
<1>2. ASSUME NEW c \in {"failing", "work"}, Goes(p, c) PROVE Heeded(p)
  <2>1. run' = [run EXCEPT ![p] = Now(p, c)] /\ Disturbs
    BY <1>1, <1>2, GoesNow, CalmDisturbs
  <2>2. Plain(run[p], Now(p, c))
    BY <1>1, NowPlain DEF AtNode, NodePcs
  <2> QED
    BY <1>1, <2>1, <2>2, PlainHeeds DEF Heeded
<1> QED
  BY <1>1, <1>2

LEMMA AgainPlain ==
    ASSUME NEW r, NEW x, RunShaped(x), x.cancel = r.cancel, x.closed = r.closed,
           x.controller # "none"
    PROVE  Plain(r, Again(x))
<1> DEFINE f == [x EXCEPT !.pc = "failing"]
           i == x.iteration + 1
           b == [x EXCEPT !.pc = "begin", !.iteration = i, !.answer = "none"]
<1>1. Again(x) = f \/ Again(x) = b
  BY DEF Again, RunShaped
<1> HIDE DEF i
<1>2. /\ f.pc = "failing" /\ f.cancel = x.cancel /\ f.closed = x.closed /\ f.controller = x.controller
      /\ b.pc = "begin" /\ b.cancel = x.cancel /\ b.closed = x.closed /\ b.controller = x.controller
  BY DEF RunShaped
<1> HIDE DEF f, b
<1>3. Plain(r, f) /\ Plain(r, b)
  BY <1>2 DEF Plain, NodePcs
<1> QED
  BY <1>1, <1>3

LEMMA RecordHeeds ==
    ASSUME LogInv, PlacesInv, DriveInv, NEW p \in Gateways, Good(p), RecordIteration(p)
    PROVE  Heeded(p)
<1> DEFINE e == [OfNode(p, "node_progress") EXCEPT !.iteration = run[p].iteration]
           r == run[p]
           i == run[p].iteration
           c == [r.progress EXCEPT ![r.node] = i]
           x == [r EXCEPT !.progress = c]
<1>1. r.pc = "result" /\ Emit(p, e, AfterProgress(p), Now(p, "failing"))
  BY DEF RecordIteration
<1>2. RunShaped(r) /\ r.answer \in Continuations /\ AtNode(r) /\ r.controller # "none"
  BY <1>1 DEF PlacesInv, Fits, Placed, AtNode, NodePcs, DriveInv, Minds
<1>3. [run[p] EXCEPT !.progress[run[p].node] = run[p].iteration] = x
  BY <1>2 DEF RunShaped
<1>4. AfterProgress(p) \in {Again(x), [x EXCEPT !.pc = "done"], [x EXCEPT !.pc = "failing"],
                            [x EXCEPT !.pc = "asking"]}
  <2>1. x.answer = r.answer
    BY <1>2 DEF RunShaped
  <2> HIDE DEF x
  <2> QED
    BY <1>2, <1>3, <2>1 DEF AfterProgress, Continuations
<1>r. r = run[p]
  OBVIOUS
<1>x. x = [r EXCEPT !.progress = c]
  OBVIOUS
<1> HIDE DEF e, r, i, c, x
<1>5. RunShaped(x) /\ x.cancel = r.cancel /\ x.closed = r.closed /\ x.controller = r.controller
  BY <1>2, <1>x DEF RunShaped
<1>6. ASSUME NEW y \in {"done", "failing", "asking"} PROVE Plain(r, [x EXCEPT !.pc = y])
  <2> DEFINE z == [x EXCEPT !.pc = y]
  <2>1. z.cancel = x.cancel /\ z.closed = x.closed /\ z.controller = x.controller /\ z.pc = y
    BY <1>5 DEF RunShaped
  <2> HIDE DEF z
  <2>2. Plain(r, z)
    BY <1>2, <1>5, <2>1 DEF Plain, NodePcs
  <2> QED
    BY <2>2 DEF z
<1>7. Plain(r, AfterProgress(p))
  <2>1. Plain(r, Again(x))
    BY <1>2, <1>5, AgainPlain
  <2> QED
    BY <1>4, <1>6, <2>1
<1>8. Plain(r, Now(p, "failing"))
  BY <1>1, <1>2, <1>r, NowPlain DEF NodePcs
<1> QED
  BY <1>1, <1>7, <1>8, <1>r, EmitPlain

LEMMA LeaveNodeHeeds ==
    ASSUME LogInv, PlacesInv, DriveInv, NEW p \in Gateways, Good(p), CompleteNode(p) \/ FailNode(p)
    PROVE  Heeded(p)
<1> DEFINE r == run[p]
           n == r.node
           c == [r.chosen EXCEPT ![n] = r.next]
           x == [r EXCEPT !.pc = "pick", !.controller = "none", !.node = NoNode, !.token = 0,
                          !.iteration = 0, !.answer = "none", !.next = {},
                          !.chosen[n] = r.next]
           y == [r EXCEPT !.pc = "caught", !.controller = "none"]
           z == [r EXCEPT !.pc = "caught", !.controller = "none", !.failure = "none"]
<1>1. r.pc \in {"done", "failing"} /\ r = run[p] /\ RunShaped(r) /\ AtNode(r) /\ r.pc # "lease"
  BY DEF CompleteNode, FailNode, PlacesInv, Fits, AtNode, NodePcs
<1>2. Plain(r, Now(p, "failing"))
  BY <1>1, NowPlain DEF NodePcs
<1>3. /\ CompleteNode(p) => \E e : Emit(p, e, x, Now(p, "failing"))
      /\ FailNode(p) => \E e : Emit(p, e, y, z)
  BY DEF CompleteNode, FailNode
<1>x. x = [r EXCEPT !.pc = "pick", !.controller = "none", !.node = NoNode, !.token = 0,
                    !.iteration = 0, !.answer = "none", !.next = {}, !.chosen = c]
  BY <1>1 DEF RunShaped
<1>y. y = [r EXCEPT !.pc = "caught", !.controller = "none"]
  OBVIOUS
<1>z. z = [r EXCEPT !.pc = "caught", !.controller = "none", !.failure = "none"]
  OBVIOUS
<1> HIDE DEF r, n, c, x, y, z
<1>4. x.pc = "pick" /\ x.cancel = r.cancel /\ x.closed = r.closed
  BY <1>1, <1>x DEF RunShaped
<1>5. y.pc = "caught" /\ y.cancel = r.cancel /\ y.closed = r.closed
  BY <1>1, <1>y DEF RunShaped
<1>6. z.pc = "caught" /\ z.cancel = r.cancel /\ z.closed = r.closed
  BY <1>1, <1>z DEF RunShaped
<1>7. Plain(r, x) /\ Plain(r, y) /\ Plain(r, z)
  BY <1>4, <1>5, <1>6 DEF Plain, NodePcs
<1> QED
  BY <1>1, <1>2, <1>3, <1>7, EmitPlain
--------------------------------------------------------------------------------
\* What an accepted event of the mission makes of its status.
LEMMA StatusLed ==
    ASSUME LogInv, NEW p \in Gateways, NEW t, Accepted(p, RunEvent(t))
    PROVE  /\ view'[p] = mission' /\ view[p].status \in AcceptedIn[t]
           /\ mission'.status = IF t \in DOMAIN LeadsTo THEN LeadsTo[t] ELSE view[p].status
<1>1. /\ view'[p] = mission' /\ mission' = Reduced(view[p], RunEvent(t))
      /\ Reducible(view[p], RunEvent(t), lapsed)
  BY AcceptedIsNext
<1> QED
  BY <1>1, RunEventFacts DEF Reduced, Reducible

\* A process that waits for a paused mission to be resumed.
LEMMA HeldHeeds ==
    ASSUME LogInv, DriveInv, NEW p \in Gateways, Good(p), Disturbs,
           NEW x, run' = [run EXCEPT ![p] = x], x.cancel = run[p].cancel,
           x.closed = run[p].closed, x.pc = "held", x.hold = "pick" \/ x.controller # "none",
           view'[p].status = "paused",
           \/ view'[p] = mission'
           \/ UNCHANGED <<mission, view>> /\ run[p].pc \notin {"snapshot", "rehydrate"}
    PROVE  Heeded(p)
<1>1. Minds(x, view[p])'
  <2>1. x.closed => stops' > 0
    BY ClosedStays
  <2>2. x.cancel /\ Undisturbed' => Settled(mission')
    BY CancelStays
  <2> QED
    BY <2>1, <2>2 DEF Minds, NodePcs, AtNode, Settled, Undisturbed
<1>2. DrivesWith(x, view[p])' \/ (mission' = mission /\ ~Drives(p))
  BY DEF DrivesWith, Drives
<1> QED
  BY <1>1, <1>2 DEF Heeds, Heeded

\* A process that leaves the walk minds the status it leaves it for.
LEMMA AwayHeeds ==
    ASSUME LogInv, DriveInv, NEW p \in Gateways, Good(p), Disturbs,
           NEW x, run' = [run EXCEPT ![p] = x], x.cancel = run[p].cancel,
           x.closed = run[p].closed,
           \/ x.pc = "compensate" /\ view'[p].status = "failed"
           \/ x.pc = "outcome" /\ view'[p].status = "compensation_running"
           \/ x.pc = "cancel" /\ (x.cancel \/ view'[p].status \in {"cancel_requested", "cancelling"})
           \/ x.pc = "pausing" /\ "command" \in raced',
           \/ ~(Undisturbed' /\ mission'.status \in Steerable)
           \/ UNCHANGED <<mission, view>> /\ run[p].pc \notin {"snapshot", "rehydrate"}
    PROVE  Heeded(p)
<1>1. Minds(x, view[p])'
  <2>1. x.closed => stops' > 0
    BY ClosedStays
  <2>2. x.cancel /\ Undisturbed' => Settled(mission')
    BY CancelStays
  <2> QED
    BY <2>1, <2>2 DEF Minds, NodePcs, AtNode, Settled, Undisturbed
<1>2. Undisturbed' /\ mission'.status \in Steerable =>
        DrivesWith(x, view[p])' \/ (mission' = mission /\ ~Drives(p))
  BY DEF DrivesWith, Drives
<1> QED
  BY <1>1, <1>2 DEF Heeds, Heeded

LEMMA NowFacts ==
    ASSUME PlacesInv, NEW p \in Gateways, NEW c
    PROVE  Now(p, c).pc = c /\ Now(p, c).cancel = run[p].cancel /\ Now(p, c).closed = run[p].closed
<1>1. RunShaped(run[p])
  BY DEF PlacesInv, Fits
<1> QED
  BY <1>1 DEF RunShaped, Now

LEMMA GoesToCancel ==
    ASSUME LogInv, PlacesInv, DriveInv, NEW p \in Gateways, Good(p), UNCHANGED <<mission, view, stops>>,
           Cancelled(p), Goes(p, "cancel"), run[p].pc \notin {"snapshot", "rehydrate"}
    PROVE  Heeded(p)
<1>1. run' = [run EXCEPT ![p] = Now(p, "cancel")] /\ Disturbs
  BY GoesNow, CalmDisturbs, GoodWidens
<1> DEFINE x == Now(p, "cancel")
<1>2. x.pc = "cancel" /\ x.cancel = run[p].cancel /\ x.closed = run[p].closed
  BY NowFacts
<1>3. x.cancel \/ view'[p].status \in {"cancel_requested", "cancelling"}
  BY <1>2 DEF Cancelled
<1> HIDE DEF x
<1> QED
  BY <1>1, <1>2, <1>3, AwayHeeds DEF x

LEMMA AskHeeds ==
    ASSUME LogInv, PlacesInv, DriveInv, NEW p \in Gateways, Good(p), AskForInput(p)
    PROVE  Heeded(p)
<1> DEFINE x == [run[p] EXCEPT !.pc = "held", !.hold = "node"]
<1>1. /\ RunShaped(run[p]) /\ run[p].pc \in {"asking", "yielding"} /\ AtNode(run[p])
      /\ run[p].pc # "lease" /\ run[p].controller # "none"
  BY DEF AskForInput, PlacesInv, Fits, AtNode, NodePcs, DriveInv, Minds
<1>2. Plain(run[p], Now(p, "yielding")) /\ Plain(run[p], Now(p, "failing"))
  BY <1>1, NowPlain DEF NodePcs
<1>3. x.pc = "held" /\ x.cancel = run[p].cancel /\ x.closed = run[p].closed
      /\ x.controller = run[p].controller
  BY <1>1 DEF RunShaped
<1>4. CASE Emit(p, RunEvent("pause_requested"), Now(p, "yielding"), Now(p, "failing"))
  BY <1>1, <1>2, <1>4, EmitPlain
<1>5. CASE Emit(p, RunEvent("paused"), x, Now(p, "failing"))
  <2>0. Disturbs
    BY <1>5, CalmDisturbs DEF Emit, worldVars
  <2> HIDE DEF x
  <2>1. CASE Accepted(p, RunEvent("paused")) /\ run' = [run EXCEPT ![p] = x]
    <3>1. view'[p] = mission' /\ mission'.status = "paused"
      BY <2>1, StatusLed DEF LeadsTo
    <3> QED
      BY <1>1, <1>3, <2>0, <2>1, <3>1, HeldHeeds
  <2>2. CASE Refused(p, RunEvent("paused")) /\ run' = [run EXCEPT ![p] = Now(p, "failing")]
    <3>1. UNCHANGED <<mission, view>>
      BY <2>2 DEF Refused, logVars
    <3> QED
      BY <1>1, <1>2, <2>0, <2>2, <3>1, PlainHeeds DEF Heeded
  <2> QED
    BY <1>5, <2>1, <2>2 DEF Emit
<1> QED
  BY <1>4, <1>5 DEF AskForInput

LEMMA EnterHeeds ==
    ASSUME LogInv, PlacesInv, DriveInv, NEW p \in Gateways, Good(p), Snapshot(p) \/ Rehydrate(p)
    PROVE  Heeded(p)
<1> DEFINE r == run[p]
<1>1. RunShaped(r) /\ Minds(r, view[p]) /\ r = run[p] /\ Disturbs
  BY CalmDisturbs, GoodWidens DEF PlacesInv, Fits, DriveInv, Snapshot, Rehydrate, worldVars
<1> HIDE DEF r
<1>2. CASE Snapshot(p)
  <2> DEFINE sel == Selected(mission)
             pro == [n \in Nodes |-> mission.node[n].iteration]
             can == mission.status \in {"cancel_requested", "cancelling"}
             seq == mission.sequence
  <2>1. PICK x : x = [r EXCEPT !.pc = "rehydrate", !.seen = seq, !.chosen = sel, !.progress = pro,
                               !.cancel = can]
    OBVIOUS
  <2>2. run' = [run EXCEPT ![p] = x] /\ UNCHANGED <<mission, view>>
    BY <1>1, <1>2, <2>1 DEF Snapshot, logVars
  <2>3. can => Settled(mission)
    BY DEF Settled, Steerable
  <2> HIDE DEF sel, pro, can, seq
  <2>4. x.pc = "rehydrate" /\ x.cancel = can /\ x.closed = r.closed
    BY <1>1, <2>1 DEF RunShaped
  <2>5. x.cancel => Settled(mission)
    BY <2>3, <2>4
  <2>6. x.closed => stops' > 0
    BY <1>1, <2>4, ClosedStays
  <2>7. Minds(x, view[p])'
    BY <2>2, <2>4, <2>5, <2>6 DEF Minds, NodePcs, AtNode, Settled
  <2> QED
    BY <1>1, <2>2, <2>4, <2>7 DEF Heeds, Heeded, DrivesWith
<1>3. CASE Rehydrate(p) /\ mission.status \in Stopped
  <2>1. run' = [run EXCEPT ![p] = Ended(run[p])] /\ UNCHANGED mission
    BY <1>3 DEF Rehydrate
  <2>2. mission.status \notin Steerable
    BY <1>3 DEF Stopped, Final, Steerable
  <2> QED
    BY <1>1, <2>1, <2>2, EndsHeeds DEF Heeded
<1>4. CASE Rehydrate(p) /\ mission.status \notin Stopped
  <2>1. PICK x : x = [r EXCEPT !.pc = "pick", !.seen = 0]
    OBVIOUS
  <2>2. run' = [run EXCEPT ![p] = x] /\ view'[p] = mission'
    BY <1>1, <1>4, <2>1 DEF Rehydrate, LogInv, LogShaped
  <2>3. x.pc = "pick" /\ x.cancel = r.cancel /\ x.closed = r.closed
    BY <1>1, <2>1 DEF RunShaped
  <2>4. Plain(run[p], x)
    BY <1>1, <2>3 DEF Plain, NodePcs
  <2> QED
    BY <1>1, <2>2, <2>4, PlainHeeds DEF Heeded
<1> QED
  BY <1>2, <1>3, <1>4
--------------------------------------------------------------------------------
\* A run that drives a mission does not end while the mission goes on.
LEMMA StopHeeds ==
    ASSUME LogInv, DriveInv, NEW p \in Gateways, Good(p), Ends(p), UNCHANGED <<mission, view, stops>>,
           Undisturbed /\ mission.status \in Steerable => ~Drives(p)
    PROVE  Heeded(p)
<1>1. Disturbs /\ run' = [run EXCEPT ![p] = Ended(run[p])]
  BY CalmDisturbs, GoodWidens DEF Ends
<1>2. Undisturbed' => Undisturbed
  BY <1>1 DEF Undisturbed, Disturbs, DriveInv
<1> QED
  BY <1>1, <1>2, EndsHeeds DEF Heeded

\* An event that ends the run, one way or the other, or leaves it for what is next.
LEMMA EmitEnds ==
    ASSUME LogInv, PlacesInv, DriveInv, NEW p \in Gateways, Good(p),
           NEW t \in RunTypes \ {"mission_started", "pause_requested", "paused", "resumed", "steered"},
           NEW then, NEW else, Emit(p, RunEvent(t), then, else),
           \/ then = Ended(run[p])
           \/ /\ then.cancel = run[p].cancel /\ then.closed = run[p].closed
              /\ \/ then.pc = "compensate" /\ t = "mission_failed"
                 \/ then.pc = "outcome" /\ t = "compensation_started"
                 \/ then.pc = "cancel" /\ t = "cancelling",
           \/ else = Ended(run[p]) /\ (Undisturbed /\ mission.status \in Steerable /\ Drives(p)
                                       => ~Refused(p, RunEvent(t)))
           \/ Plain(run[p], else) /\ run[p].pc \notin {"snapshot", "rehydrate"}
    PROVE  Heeded(p)
<1>1. Disturbs /\ UNCHANGED stops
  BY CalmDisturbs DEF Emit, worldVars
<1>2. CASE Accepted(p, RunEvent(t)) /\ run' = [run EXCEPT ![p] = then]
  <2>1. view'[p] = mission' /\ mission'.status = LeadsTo[t]
    BY <1>2, StatusLed DEF LeadsTo, RunTypes
  <2>2. mission'.status \notin Steerable
    BY <2>1 DEF RunTypes, LeadsTo, Steerable
  <2>3. CASE then = Ended(run[p])
    BY <1>1, <1>2, <2>2, <2>3, EndsHeeds DEF Heeded
  <2>4. CASE /\ then.cancel = run[p].cancel /\ then.closed = run[p].closed
             /\ \/ then.pc = "compensate" /\ t = "mission_failed"
                \/ then.pc = "outcome" /\ t = "compensation_started"
                \/ then.pc = "cancel" /\ t = "cancelling"
    <3>1. \/ then.pc = "compensate" /\ view'[p].status = "failed"
          \/ then.pc = "outcome" /\ view'[p].status = "compensation_running"
          \/ then.pc = "cancel" /\ view'[p].status \in {"cancel_requested", "cancelling"}
      BY <2>1, <2>4 DEF LeadsTo
    <3> QED
      BY <1>1, <1>2, <2>2, <2>4, <3>1, AwayHeeds
  <2> QED
    BY <2>3, <2>4
<1>3. CASE Refused(p, RunEvent(t)) /\ run' = [run EXCEPT ![p] = else]
  <2>1. UNCHANGED <<mission, view>>
    BY <1>3 DEF Refused, logVars
  <2>2. CASE else = Ended(run[p]) /\ (Undisturbed /\ mission.status \in Steerable /\ Drives(p)
                                       => ~Refused(p, RunEvent(t)))
    BY <1>1, <1>3, <2>1, <2>2, StopHeeds DEF Ends
  <2>3. CASE Plain(run[p], else) /\ run[p].pc \notin {"snapshot", "rehydrate"}
    BY <1>1, <1>3, <2>1, <2>3, PlainHeeds DEF Heeded
  <2> QED
    BY <2>2, <2>3
<1> QED
  BY <1>2, <1>3 DEF Emit

LEMMA DrivesKnows ==
    ASSUME NEW p, Drives(p), run[p].pc \notin {"snapshot", "rehydrate"}
    PROVE  view[p] = mission
BY DEF Drives, DrivesWith

LEMMA PickHeeds ==
    ASSUME LogInv, PlacesInv, DriveInv, NEW p \in Gateways, Good(p), Pick(p)
    PROVE  Heeded(p)
<1>1. RunShaped(run[p]) /\ run[p].pc = "pick" /\ Disturbs /\ UNCHANGED stops
  BY CalmDisturbs, GoodWidens DEF PlacesInv, Fits, Pick, worldVars
<1>2. PICK x : x = [run[p] EXCEPT !.pc = "held", !.hold = "pick"]
  OBVIOUS
<1>3. x.pc = "held" /\ x.hold = "pick" /\ x.cancel = run[p].cancel /\ x.closed = run[p].closed
  BY <1>1, <1>2 DEF RunShaped
<1>4. CASE Cancelled(p) /\ Goes(p, "cancel") /\ UNCHANGED logVars
  BY <1>1, <1>4, GoesToCancel DEF logVars
<1>5. CASE Accepted(p, RunEvent("paused")) /\ run' = [run EXCEPT ![p] = x]
  <2>1. view'[p] = mission' /\ mission'.status = "paused"
    BY <1>5, StatusLed DEF LeadsTo
  <2> QED
    BY <1>1, <1>3, <1>5, <2>1, HeldHeeds
<1>6. CASE Refused(p, RunEvent("paused")) /\ Goes(p, "caught")
  <2>1. run' = [run EXCEPT ![p] = Now(p, "caught")] /\ UNCHANGED <<mission, view>>
    BY <1>6, GoesNow DEF Refused, logVars
  <2>2. Plain(run[p], Now(p, "caught"))
    BY NowPlain
  <2> QED
    BY <1>1, <2>1, <2>2, PlainHeeds DEF Heeded
<1>7. CASE view[p].status = "paused" /\ run' = [run EXCEPT ![p] = x] /\ UNCHANGED logVars
  BY <1>1, <1>3, <1>7, HeldHeeds DEF logVars
<1>8. CASE view[p].status \in Stopped /\ Ends(p) /\ UNCHANGED logVars
  <2>1. mission.status \in Steerable => ~Drives(p)
    BY <1>1, <1>8, DrivesKnows DEF Stopped, Final, Steerable
  <2> QED
    BY <1>1, <1>8, <2>1, StopHeeds DEF logVars
<1> QED
  BY <1>2, <1>4, <1>5, <1>6, <1>7, <1>8 DEF Pick

LEMMA CompleteMissionHeeds ==
    ASSUME LogInv, PlacesInv, DriveInv, NEW p \in Gateways, Good(p), CompleteMission(p)
    PROVE  Heeded(p)
<1>1. /\ run[p].pc = "pick" /\ view[p].status \notin {"pause_requested", "paused"}
      /\ UNCHANGED stops
  BY DEF CompleteMission, Walks, Emit, worldVars
<1>2. CASE Emit(p, RunEvent("mission_completed"), Ended(run[p]), Now(p, "caught"))
  <2>1. Plain(run[p], Now(p, "caught"))
    BY NowPlain
  <2> QED
    BY <1>1, <1>2, <2>1, EmitEnds DEF RunTypes
<1>3. CASE view[p].status # "running" /\ Ends(p) /\ UNCHANGED <<logVars, exec, raced, worldVars>>
  <2>1. mission.status \in Steerable => ~Drives(p)
    BY <1>1, <1>3, DrivesKnows DEF Steerable
  <2> QED
    BY <1>1, <1>3, <2>1, StopHeeds DEF logVars
<1> QED
  BY <1>2, <1>3 DEF CompleteMission

LEMMA FailMissionHeeds ==
    ASSUME LogInv, PlacesInv, DriveInv, NEW p \in Gateways, Good(p), FailMission(p)
    PROVE  Heeded(p)
<1>1. run[p].pc = "caught" /\ UNCHANGED stops /\ (run[p].closed => ~Undisturbed)
  BY DEF FailMission, Emit, worldVars, DriveInv, Minds, Undisturbed
<1>2. CASE /\ (run[p].closed \/ ~MayFail(view[p].status)) /\ Ends(p)
           /\ UNCHANGED <<logVars, exec, raced, worldVars>>
  <2>1. Undisturbed /\ mission.status \in Steerable => ~Drives(p)
    BY <1>1, <1>2, DrivesKnows DEF MayFail, Stopped, Final, Steerable
  <2> QED
    BY <1>1, <1>2, <2>1, StopHeeds DEF logVars
<1>3. CASE Cancelled(p) /\ Goes(p, "cancel") /\ UNCHANGED <<logVars, exec, raced, worldVars>>
  BY <1>1, <1>3, GoesToCancel DEF logVars
<1>4. CASE Emit(p, RunEvent("mission_failed"),
                IF run[p].failure = "none" THEN Ended(run[p]) ELSE Now(p, "compensate"),
                Ended(run[p]))
  <2>1. mission.status \in Steerable /\ Drives(p) => ~Refused(p, RunEvent("mission_failed"))
    <3>1. mission.status \in Steerable => Reducible(mission, RunEvent("mission_failed"), lapsed)
      BY RunEventFacts DEF Reducible, AcceptedIn, FencedTypes
    <3> QED
      BY <1>1, <3>1, DrivesKnows DEF Refused
  <2>2. /\ Now(p, "compensate").pc = "compensate" /\ Now(p, "compensate").cancel = run[p].cancel
        /\ Now(p, "compensate").closed = run[p].closed
    BY NowFacts
  <2> QED
    BY <1>4, <2>1, <2>2, EmitEnds DEF RunTypes
<1> QED
  BY <1>2, <1>3, <1>4 DEF FailMission

LEMMA WindUpHeeds ==
    ASSUME LogInv, PlacesInv, DriveInv, NEW p \in Gateways, Good(p),
           RecordCompensation(p) \/ FinishCancellation(p) \/ CompletePause(p)
    PROVE  Heeded(p)
<1>1. Minds(run[p], view[p])
  BY DEF DriveInv
<1>2. CASE RecordCompensation(p)
  <2>1. mission.status \in Steerable => ~Drives(p)
    BY <1>1, <1>2, DrivesKnows DEF RecordCompensation, Minds, Steerable
  <2>2. CASE run[p].pc = "compensate" /\ Emit(p, RunEvent("compensation_started"), Now(p, "outcome"), Ended(run[p]))
    <3>1. /\ Now(p, "outcome").pc = "outcome" /\ Now(p, "outcome").cancel = run[p].cancel
          /\ Now(p, "outcome").closed = run[p].closed
      BY NowFacts
    <3> QED
      BY <2>1, <2>2, <3>1, EmitEnds DEF RunTypes
  <2>3. CASE \E t \in {"compensation_completed", "compensation_failed"} :
               Emit(p, RunEvent(t), Ended(run[p]), Ended(run[p]))
    BY <2>1, <2>3, EmitEnds DEF RunTypes
  <2> QED
    BY <1>2, <2>2, <2>3 DEF RecordCompensation
<1>3. CASE FinishCancellation(p)
  <2>1. run[p].pc = "cancel"
    BY <1>3 DEF FinishCancellation
  <2>2. Undisturbed /\ mission.status \in Steerable => ~Drives(p)
    BY <1>1, <2>1, DrivesKnows DEF Minds, Settled, Steerable
  <2>3. CASE Emit(p, RunEvent("cancelling"), run[p], Ended(run[p]))
    BY <2>1, <2>2, <2>3, EmitEnds DEF RunTypes
  <2>4. CASE Emit(p, RunEvent("cancelled"), Ended(run[p]), Ended(run[p]))
    BY <2>2, <2>4, EmitEnds DEF RunTypes
  <2>5. CASE Ends(p) /\ UNCHANGED <<logVars, exec, raced, worldVars>>
    BY <2>2, <2>5, StopHeeds DEF logVars, worldVars
  <2> QED
    BY <1>3, <2>3, <2>4, <2>5 DEF FinishCancellation
<1>4. CASE CompletePause(p)
  <2>1. run[p].pc = "pausing" /\ Emit(p, RunEvent("paused"), Ended(run[p]), Ended(run[p]))
    BY <1>4 DEF CompletePause
  <2>2. run' = [run EXCEPT ![p] = Ended(run[p])] /\ Disturbs /\ "command" \in raced'
    BY <1>1, <2>1, CalmDisturbs DEF Emit, worldVars, Minds
  <2> QED
    BY <2>2, EndsHeeds DEF Heeded, Undisturbed
<1> QED
  BY <1>2, <1>3, <1>4
--------------------------------------------------------------------------------
\* A step of an executor, which leaves its process in the node.
LEMMA WorkHeeds ==
    ASSUME LogInv, PlacesInv, DriveInv, NEW p \in Gateways, Good(p), run[p].pc = "work",
           UNCHANGED stops, view'[p] = mission' \/ UNCHANGED <<mission, view>>,
           \/ UNCHANGED run
           \/ \E f : run' = [run EXCEPT ![p] = [run[p] EXCEPT !.pc = "failing", !.failure = f]]
           \/ \E S : run' = [run EXCEPT ![p] = [run[p] EXCEPT !.pc = "done", !.next = S]]
           \/ \E c, S :
                run' = [run EXCEPT ![p] = [run[p] EXCEPT !.pc = "result", !.answer = c, !.next = S]]
    PROVE  Heeded(p)
<1>1. Disturbs /\ RunShaped(run[p]) /\ run[p].controller # "none"
  BY CalmDisturbs, GoodWidens DEF PlacesInv, Fits, DriveInv, Minds, AtNode, NodePcs
<1>2. CASE UNCHANGED run
  <2>1. run' = [run EXCEPT ![p] = run[p]]
    BY <1>2, SameRun
  <2> QED
    BY <1>1, <2>1, RestsHeeds DEF Heeded
<1>3. ASSUME NEW x, x.cancel = run[p].cancel, x.closed = run[p].closed,
             x.controller = run[p].controller, x.pc \in NodePcs, run' = [run EXCEPT ![p] = x]
      PROVE  Heeded(p)
  <2>1. Plain(run[p], x)
    BY <1>1, <1>3 DEF Plain
  <2> QED
    BY <1>1, <1>3, <2>1, PlainHeeds DEF Heeded
<1>4. ASSUME NEW f, run' = [run EXCEPT ![p] = [run[p] EXCEPT !.pc = "failing", !.failure = f]]
      PROVE  Heeded(p)
  <2>1. PICK x : x = [run[p] EXCEPT !.pc = "failing", !.failure = f]
    OBVIOUS
  <2>2. x.cancel = run[p].cancel /\ x.closed = run[p].closed /\ x.controller = run[p].controller
        /\ x.pc = "failing"
    BY <1>1, <2>1 DEF RunShaped
  <2> QED
    BY <1>3, <1>4, <2>1, <2>2 DEF NodePcs
<1>5. ASSUME NEW S, run' = [run EXCEPT ![p] = [run[p] EXCEPT !.pc = "done", !.next = S]]
      PROVE  Heeded(p)
  <2>1. PICK x : x = [run[p] EXCEPT !.pc = "done", !.next = S]
    OBVIOUS
  <2>2. x.cancel = run[p].cancel /\ x.closed = run[p].closed /\ x.controller = run[p].controller
        /\ x.pc = "done"
    BY <1>1, <2>1 DEF RunShaped
  <2> QED
    BY <1>3, <1>5, <2>1, <2>2 DEF NodePcs
<1>6. ASSUME NEW c, NEW S,
             run' = [run EXCEPT ![p] = [run[p] EXCEPT !.pc = "result", !.answer = c, !.next = S]]
      PROVE  Heeded(p)
  <2>1. PICK x : x = [run[p] EXCEPT !.pc = "result", !.answer = c, !.next = S]
    OBVIOUS
  <2>2. x.cancel = run[p].cancel /\ x.closed = run[p].closed /\ x.controller = run[p].controller
        /\ x.pc = "result"
    BY <1>1, <2>1 DEF RunShaped
  <2> QED
    BY <1>3, <1>6, <2>1, <2>2 DEF NodePcs
<1> QED
  BY <1>2, <1>4, <1>5, <1>6

LEMMA ExecutorHeeds ==
    ASSUME LogInv, PlacesInv, DriveInv, NEW p \in Gateways, Good(p),
           ExecutorStep(p) \/ StreamProgress(p)
    PROVE  Heeded(p)
<1>1. ASSUME NEW e, Accepted(p, e) \/ Refused(p, e)
      PROVE  view'[p] = mission' \/ UNCHANGED <<mission, view>>
  BY <1>1, AcceptedIsNext DEF Refused, logVars
<1>2. CASE StreamProgress(p) \/ AnnounceEffect(p)
  <2>1. run[p].pc = "work" /\ UNCHANGED <<run, stops>>
    BY <1>2 DEF StreamProgress, AnnounceEffect, Phase, worldVars
  <2>2. \E e : Accepted(p, e) \/ Refused(p, e)
    BY <1>2 DEF StreamProgress, AnnounceEffect
  <2> QED
    BY <1>1, <2>1, <2>2, WorkHeeds
<1>3. CASE Think(p)
  <2>1. run[p].pc = "work" /\ UNCHANGED <<mission, view, stops>>
    BY <1>3 DEF Think, logVars, worldVars
  <2>2. \/ \E f : run' = [run EXCEPT ![p] = [run[p] EXCEPT !.pc = "failing", !.failure = f]]
        \/ \E S : run' = [run EXCEPT ![p] = [run[p] EXCEPT !.pc = "done", !.next = S]]
        \/ \E c, S :
             run' = [run EXCEPT ![p] = [run[p] EXCEPT !.pc = "result", !.answer = c, !.next = S]]
    BY <1>3 DEF Think, Stops
  <2> QED
    BY <2>1, <2>2, WorkHeeds
<1>4. CASE ClaimEffect(p)
  <2>1. run[p].pc = "work" /\ UNCHANGED <<mission, view, stops>>
    BY <1>4 DEF ClaimEffect, Phase, logVars
  <2>2. \/ UNCHANGED run
        \/ \E f : run' = [run EXCEPT ![p] = [run[p] EXCEPT !.pc = "failing", !.failure = f]]
        \/ \E S : run' = [run EXCEPT ![p] = [run[p] EXCEPT !.pc = "done", !.next = S]]
    BY <1>4 DEF ClaimEffect, Stops
  <2> QED
    BY <2>1, <2>2, WorkHeeds
<1>5. CASE ApplyEffect(p) \/ ObserveEffect(p) \/ CompensateEffect(p)
  <2>1. run[p].pc = "work" /\ UNCHANGED <<mission, view, stops>>
    BY <1>5 DEF ApplyEffect, ObserveEffect, CompensateEffect, Phase, logVars
  <2>2. \/ UNCHANGED run
        \/ \E f : run' = [run EXCEPT ![p] = [run[p] EXCEPT !.pc = "failing", !.failure = f]]
    BY <1>5 DEF ApplyEffect, ObserveEffect, CompensateEffect, Stops
  <2> QED
    BY <2>1, <2>2, WorkHeeds
<1>6. CASE RecordEffect(p)
  <2>1. run[p].pc = "work" /\ UNCHANGED stops
    BY <1>6 DEF RecordEffect, Phase, worldVars
  <2>2. \E e : Accepted(p, e) \/ Refused(p, e)
    BY <1>6 DEF RecordEffect
  <2>3. \/ \E f : run' = [run EXCEPT ![p] = [run[p] EXCEPT !.pc = "failing", !.failure = f]]
        \/ \E S : run' = [run EXCEPT ![p] = [run[p] EXCEPT !.pc = "done", !.next = S]]
    BY <1>6 DEF RecordEffect, Stops
  <2> QED
    BY <1>1, <2>1, <2>2, <2>3, WorkHeeds
<1>7. CASE GiveUp(p)
  <2>1. UNCHANGED <<mission, view, raced, stops>>
    BY <1>7 DEF GiveUp, logVars
  <2>2. CASE run[p].pc = "work"
    BY <1>7, <2>1, <2>2, WorkHeeds DEF GiveUp, Stops
  <2>3. CASE run[p].pc # "work"
    <3>1. run' = [run EXCEPT ![p] = run[p]] /\ Disturbs
      BY <1>7, <2>1, <2>3, SameRun, CalmDisturbs DEF GiveUp
    <3> QED
      BY <2>1, <3>1, RestsHeeds DEF Heeded
  <2> QED
    BY <2>2, <2>3
<1> QED
  BY <1>2, <1>3, <1>4, <1>5, <1>6, <1>7 DEF ExecutorStep
--------------------------------------------------------------------------------
\* A command that does not reach the run any more is one that disturbs.
LEMMA ControlHeeds ==
    ASSUME LogInv, PlacesInv, DriveInv, NEW p \in Gateways, Good(p), Control(p)
    PROVE  Heeded(p)
<1>1. /\ run[p].pc \in {"held", "ended", "work"} /\ RunShaped(run[p]) /\ Minds(run[p], view[p])
      /\ Disturbs
  BY CalmDisturbs, GoodWidens DEF Control, Pause, ResumeMission, Steer, Cancel, Commands, Waits,
     PlacesInv, Fits, DriveInv
<1>2. Crosses(p) /\ run[p].pc = "ended" => ~Undisturbed'
  BY DEF Crosses, Undisturbed
<1>3. run' = run => run' = [run EXCEPT ![p] = run[p]]
  BY SameRun
<1>4. CASE Pause(p)
  <2>1. /\ view'[p] = mission' /\ view[p].status = "running" /\ mission'.status = "pause_requested"
        /\ Crosses(p)
    BY <1>4, StatusLed DEF Pause, LeadsTo, AcceptedIn
  <2>2. run[p].pc # "held" /\ (run[p].pc = "work" => run[p].controller # "none")
    BY <1>1, <2>1 DEF Minds, AtNode, NodePcs
  <2>3. CASE run[p].controller = "none"
    <3>1. run' = [run EXCEPT ![p] = Now(p, "pausing")] /\ "command" \in raced' /\ ~Undisturbed'
      BY <1>1, <1>2, <1>4, <2>1, <2>2, <2>3, GoesNow DEF Pause, Crosses
    <3>2. /\ Now(p, "pausing").pc = "pausing" /\ Now(p, "pausing").cancel = run[p].cancel
          /\ Now(p, "pausing").closed = run[p].closed
      BY NowFacts
    <3> QED
      BY <1>1, <3>1, <3>2, AwayHeeds
  <2>4. CASE run[p].controller # "none"
    <3>1. run' = [run EXCEPT ![p] = run[p]]
      BY <1>3, <1>4, <2>4 DEF Pause
    <3> QED
      BY <1>1, <1>2, <2>1, <2>2, <3>1, RestsHeeds DEF Heeded
  <2> QED
    BY <2>3, <2>4
<1>5. CASE Steer(p)
  <2>1. view'[p] = mission' /\ mission'.status = view[p].status /\ Crosses(p)
    BY <1>5, StatusLed DEF Steer, LeadsTo
  <2>2. run' = [run EXCEPT ![p] = run[p]]
    BY <1>3, <1>5 DEF Steer
  <2>3. run[p].pc = "held" => mission'.status # "running"
    BY <1>1, <2>1 DEF Minds
  <2> QED
    BY <1>1, <1>2, <2>1, <2>2, <2>3, RestsHeeds DEF Heeded
<1>6. CASE ResumeMission(p)
  <2>1. view'[p] = mission' /\ Crosses(p)
    BY <1>6, StatusLed DEF ResumeMission
  <2>2. CASE run[p].pc # "held"
    <3>1. run' = [run EXCEPT ![p] = run[p]]
      BY <1>6, <2>2, SameRun DEF ResumeMission, PlacesInv
    <3> QED
      BY <1>1, <1>2, <2>1, <2>2, <3>1, RestsHeeds DEF Heeded
  <2>3. CASE run[p].pc = "held"
    <3>1. PICK k, h : /\ k = [run[p] EXCEPT !.pc = "pick", !.hold = "none"]
                      /\ h = [run[p] EXCEPT !.hold = "none"]
      OBVIOUS
    <3>2. run' = [run EXCEPT ![p] = IF run[p].hold = "pick" THEN k ELSE Again(h)]
      BY <1>6, <2>3, <3>1 DEF ResumeMission
    <3>3. /\ k.pc = "pick" /\ k.cancel = run[p].cancel /\ k.closed = run[p].closed
          /\ RunShaped(h) /\ h.cancel = run[p].cancel /\ h.closed = run[p].closed
          /\ h.controller = run[p].controller
      BY <1>1, <3>1 DEF RunShaped
    <3>4. Plain(run[p], k)
      BY <3>3 DEF Plain, NodePcs
    <3>5. run[p].hold # "pick" => Plain(run[p], Again(h))
      BY <1>1, <2>3, <3>3, AgainPlain DEF Minds, AtNode
    <3> QED
      BY <1>1, <2>1, <3>2, <3>4, <3>5, PlainHeeds DEF Heeded
  <2> QED
    BY <2>2, <2>3
<1>7. CASE Cancel(p) /\ Accepted(p, RunEvent("cancellation_requested"))
  <2>1. view'[p] = mission' /\ mission'.status = "cancel_requested" /\ Settled(mission')
    BY <1>7, StatusLed DEF LeadsTo, Settled, Steerable
  <2>2. ASSUME NEW x, run' = [run EXCEPT ![p] = x], x.closed = run[p].closed,
               x.pc \in {"held", "ended", "work", "failing", "cancel"},
               x.pc = "cancel" \/ x.controller # "none"
        PROVE  Heeded(p)
    <3>1. x.closed => stops' > 0
      BY <1>1, <2>2, ClosedStays
    <3>2. Minds(x, view[p])'
      BY <2>1, <2>2, <3>1 DEF Minds, NodePcs, AtNode, Settled
    <3> QED
      BY <1>1, <2>1, <2>2, <3>2 DEF Heeds, Heeded, Steerable
  <2>3. PICK c, a, f, x : /\ c = [run[p] EXCEPT !.cancel = TRUE]
                          /\ a = [c EXCEPT !.controller = "aborted"]
                          /\ f = [c EXCEPT !.pc = "failing", !.controller = "aborted"]
                          /\ x = [run[p] EXCEPT !.pc = "cancel", !.cancel = TRUE]
    OBVIOUS
  <2>4. /\ RunShaped(c) /\ c.pc = run[p].pc /\ c.closed = run[p].closed
        /\ x.pc = "cancel" /\ x.closed = run[p].closed
    BY <1>1, <2>3 DEF RunShaped
  <2>5. /\ a.pc = run[p].pc /\ a.closed = run[p].closed /\ a.controller = "aborted"
        /\ f.pc = "failing" /\ f.closed = run[p].closed /\ f.controller = "aborted"
    BY <2>3, <2>4 DEF RunShaped
  <2>6. \E y \in {a, f, x} : run' = [run EXCEPT ![p] = y]
    <3>1. \/ run' = [run EXCEPT ![p] = Aborted(c)] \/ run' = [run EXCEPT ![p] = x]
          \/ Refused(p, RunEvent("cancellation_requested"))
      BY <1>7, <2>3 DEF Cancel
    <3>2. Aborted(c) \in {a, f}
      BY <2>3 DEF Aborted
    <3>3. Refused(p, RunEvent("cancellation_requested")) => FALSE
      BY <1>7, AcceptedIsNext DEF Refused, logVars
    <3> QED
      BY <3>1, <3>2, <3>3
  <2> QED
    BY <1>1, <2>2, <2>4, <2>5, <2>6
<1>8. CASE Cancel(p) /\ Refused(p, RunEvent("cancellation_requested")) /\ "command" \in raced'
           /\ run' = [run EXCEPT ![p].cancel = TRUE]
  <2>1. PICK x : x = [run[p] EXCEPT !.cancel = TRUE]
    OBVIOUS
  <2>2. run' = [run EXCEPT ![p] = x] /\ UNCHANGED <<mission, view>> /\ ~Undisturbed'
    BY <1>8, <2>1 DEF Refused, logVars, Undisturbed, PlacesInv
  <2>3. /\ x.pc = run[p].pc /\ x.hold = run[p].hold /\ x.controller = run[p].controller
        /\ x.closed = run[p].closed
    BY <1>1, <2>1 DEF RunShaped
  <2>4. x.closed => stops' > 0
    BY <1>1, <2>3, ClosedStays
  <2>5. Minds(x, view[p])'
    BY <1>1, <2>2, <2>3, <2>4 DEF Minds, NodePcs, AtNode, Undisturbed
  <2> QED
    BY <1>1, <2>2, <2>5 DEF Heeds, Heeded
<1> QED
  BY <1>4, <1>5, <1>6, <1>7, <1>8 DEF Control, Cancel

\* Time-outs leave the run in its node; who stops disturbs.
LEMMA OutsideHeeds ==
    ASSUME LogInv, PlacesInv, DriveInv, NEW p \in Gateways, Good(p),
           NodeTimesOut(p) \/ Close(p) \/ Exit(p) \/ CrashGateway(p)
    PROVE  Heeded(p)
<1>1. RunShaped(run[p]) /\ Minds(run[p], view[p])
  BY DEF PlacesInv, Fits, DriveInv
<1>2. CASE NodeTimesOut(p)
  <2>1. /\ run' = [run EXCEPT ![p] = Aborted(run[p])] /\ UNCHANGED <<mission, view, stops>>
        /\ run[p].pc \in {"held", "ended", "work"} /\ Disturbs
    BY <1>2, CalmDisturbs, GoodWidens DEF NodeTimesOut, Waits, logVars
  <2>2. PICK a, f : /\ a = [run[p] EXCEPT !.controller = "aborted"]
                    /\ f = [run[p] EXCEPT !.pc = "failing", !.controller = "aborted"]
    OBVIOUS
  <2>3. /\ a.pc = run[p].pc /\ a.hold = run[p].hold /\ a.closed = run[p].closed
        /\ a.cancel = run[p].cancel /\ a.controller = "aborted"
        /\ f.pc = "failing" /\ f.closed = run[p].closed /\ f.cancel = run[p].cancel
        /\ f.controller = "aborted"
    BY <1>1, <2>2 DEF RunShaped
  <2>4. run' = [run EXCEPT ![p] = IF run[p].pc = "work" THEN f ELSE a]
    BY <2>1, <2>2 DEF Aborted
  <2>5. CASE run[p].pc = "work"
    <3>1. Plain(run[p], f)
      BY <2>3 DEF Plain, NodePcs
    <3> QED
      BY <2>1, <2>4, <2>5, <3>1, PlainHeeds DEF Heeded
  <2>6. CASE run[p].pc # "work"
    BY <2>1, <2>3, <2>4, <2>6, RestsHeeds DEF Heeded
  <2> QED
    BY <2>5, <2>6
<1>3. ASSUME NEW x, run' = [run EXCEPT ![p] = x], stops' \in Nat, stops' >= stops, stops' > 0,
             x.pc \in {"none", "ended", "failing"}, x.pc = "failing" => x.controller # "none"
      PROVE  Heeded(p)
  <2>1. Disturbs /\ ~Undisturbed'
    BY <1>3, GoodWidens DEF Disturbs, Undisturbed
  <2>2. Minds(x, view[p])'
    BY <1>3, <2>1 DEF Minds, NodePcs, AtNode, Undisturbed
  <2> QED
    BY <1>3, <2>1, <2>2 DEF Heeds, Heeded
<1>4. CASE Exit(p) \/ CrashGateway(p)
  <2>1. run' = [run EXCEPT ![p] = Asleep] /\ Asleep.pc = "none"
    BY <1>4 DEF Exit, CrashGateway, Asleep
  <2>2. stops' \in Nat /\ stops' >= stops /\ stops' > 0
    <3>1. stops \in Nat
      BY DEF DriveInv
    <3>2. CASE Exit(p)
      BY <1>1, <3>1, <3>2 DEF Exit, Minds, worldVars
    <3>3. CASE CrashGateway(p)
      BY <3>1, <3>3 DEF CrashGateway
    <3> QED
      BY <1>4, <3>2, <3>3
  <2>3. PICK x : x = Asleep
    OBVIOUS
  <2> QED
    BY <1>3, <2>1, <2>2, <2>3
<1>5. CASE Close(p)
  <2>1. stops' \in Nat /\ stops' >= stops /\ stops' > 0 /\ run[p].pc \in {"held", "ended", "work"}
    BY <1>5 DEF Close, DriveInv, Waits
  <2>2. PICK c, cf, cn, en : /\ c = [run[p] EXCEPT !.closed = TRUE]
                             /\ cf = [c EXCEPT !.pc = "failing", !.controller = "aborted"]
                             /\ cn = [run[p] EXCEPT !.closed = TRUE, !.controller = "aborted",
                                                    !.pc = "failing"]
                             /\ en = Ended(c)
    OBVIOUS
  <2>3. c.pc = run[p].pc /\ RunShaped(c) /\ cn.pc = "failing" /\ cn.controller = "aborted"
    BY <1>1, <2>2 DEF RunShaped
  <2>4. cf.pc = "failing" /\ cf.controller = "aborted" /\ en.pc = "ended"
    BY <2>2, <2>3 DEF RunShaped, Ended, Asleep
  <2>5. Aborted(c) = IF c.pc = "work" THEN cf ELSE [c EXCEPT !.controller = "aborted"]
    BY <2>2 DEF Aborted
  <2>6. run[p].pc = "held" => run[p].hold \in {"pick", "node"}
    BY DEF PlacesInv, Fits, Placed
  <2>7. run' = [run EXCEPT ![p] = CASE run[p].pc = "ended" -> c
                                    [] run[p].pc = "held" /\ run[p].hold = "pick" -> en
                                    [] run[p].pc = "held" /\ run[p].hold = "node" -> cn
                                    [] run[p].pc = "work" -> Aborted(c)]
    BY <1>5, <2>2 DEF Close
  <2>8. CASE run[p].pc = "ended"
    <3>1. run' = [run EXCEPT ![p] = c]
      BY <2>7, <2>8
    <3> QED
      BY <1>3, <2>1, <2>3, <2>8, <3>1
  <2>9. CASE run[p].pc = "held" /\ run[p].hold = "pick"
    <3>1. run' = [run EXCEPT ![p] = en]
      BY <2>7, <2>9
    <3> QED
      BY <1>3, <2>1, <2>4, <3>1
  <2>10. CASE run[p].pc = "held" /\ run[p].hold = "node"
    <3>1. run' = [run EXCEPT ![p] = cn]
      BY <2>7, <2>10
    <3> QED
      BY <1>3, <2>1, <2>3, <3>1
  <2>11. CASE run[p].pc = "work"
    <3>1. run' = [run EXCEPT ![p] = cf]
      BY <2>3, <2>5, <2>7, <2>11
    <3> QED
      BY <1>3, <2>1, <2>4, <3>1
  <2> QED
    BY <2>1, <2>6, <2>8, <2>9, <2>10, <2>11
<1> QED
  BY <1>2, <1>4, <1>5

LEMMA RunStepHeeds ==
    ASSUME LogInv, PlacesInv, DriveInv, NEW p \in Gateways, RunStep(p)
    PROVE  Good(p) /\ Heeded(p)
BY RunStepGood, EnterHeeds, PickHeeds, StartHeeds, CompleteMissionHeeds, LeaseHeeds, BeginHeeds,
   RecordHeeds, AskHeeds, LeaveNodeHeeds, FailMissionHeeds, WindUpHeeds DEF RunStep

LEMMA SubmitDrives ==
    ASSUME PlacesInv, DriveInv, NEW p \in Gateways, Submit(p)
    PROVE  DriveInv'
<1>1. /\ UNCHANGED <<view, raced, stops>> /\ run' = [run EXCEPT ![p] = Now(p, "snapshot")]
      /\ mission.status # "pending" => UNCHANGED mission
  BY GoesNow DEF Submit, worldVars
<1>2. \A q \in Gateways : Minds(run[q], view[q])
  BY DEF DriveInv
<1>3. ASSUME Undisturbed', Settled(mission) PROVE Undisturbed /\ Settled(mission')
  BY <1>1, <1>3 DEF Undisturbed, Settled
<1>4. PICK x : x = Now(p, "snapshot")
  OBVIOUS
<1>5. x.pc = "snapshot" /\ x.cancel = run[p].cancel /\ x.closed = run[p].closed
  BY <1>4, NowFacts
<1>6. run'[p] = x /\ \A q \in Gateways \ {p} : run'[q] = run[q]
  BY <1>1, <1>4 DEF PlacesInv
<1>7. ASSUME NEW q \in Gateways, NEW r, r.cancel = run[q].cancel, r.closed = run[q].closed,
             r = run[q] \/ r.pc = "snapshot"
      PROVE  Minds(r, view[q])'
  <2>1. Undisturbed' <=> Undisturbed
    BY <1>1 DEF Undisturbed
  <2>2. r.cancel /\ Undisturbed' => Settled(mission')
    BY <1>2, <1>3, <1>7, <2>1 DEF Minds
  <2>3. r.closed => stops' > 0
    BY <1>1, <1>2, <1>7 DEF Minds
  <2>4. /\ r.pc = "compensate" => view[q].status = "failed"
        /\ r.pc = "outcome" => view[q].status = "compensation_running"
        /\ r.pc = "cancel" => r.cancel \/ view[q].status \in {"cancel_requested", "cancelling"}
        /\ r.pc = "pausing" => "command" \in raced
        /\ r.pc = "held" => view[q].status # "running"
        /\ AtNode(r) /\ r.pc # "lease" => r.controller # "none"
    BY <1>2, <1>7 DEF Minds, AtNode, NodePcs
  <2> QED
    BY <1>1, <2>2, <2>3, <2>4 DEF Minds, Settled, Undisturbed
<1>8. ASSUME NEW q \in Gateways PROVE Minds(run[q], view[q])'
  <2>1. PICK r : r = run'[q]
    OBVIOUS
  <2>2. r.cancel = run[q].cancel /\ r.closed = run[q].closed /\ (r = run[q] \/ r.pc = "snapshot")
    BY <1>5, <1>6, <2>1
  <2>3. Minds(r, view[q])'
    BY <1>7, <2>2
  <2> QED
    BY <2>1, <2>3 DEF Minds, Settled, Undisturbed
<1>9. SomeoneDrives'
  BY <1>5, <1>6 DEF SomeoneDrives, Drives, DrivesWith
<1> QED
  BY <1>1, <1>8, <1>9 DEF DriveInv

KeptInv == MissionInv /\ DriveInv

LEMMA NextKeptInv == KeptInv /\ [MissionNext]_missionVars => KeptInv'
<1> SUFFICES ASSUME KeptInv, [MissionNext]_missionVars PROVE KeptInv'
  OBVIOUS
<1>1. MissionInv' /\ LogInv /\ PlacesInv /\ ExecInv /\ DriveInv
  BY NextMissionInv DEF KeptInv, MissionInv
<1>2. ASSUME NEW p \in Gateways, Submit(p) PROVE KeptInv'
  BY <1>1, <1>2, SubmitDrives DEF KeptInv
<1>3. ASSUME NEW p \in Gateways, Good(p), Heeded(p) PROVE KeptInv'
  BY <1>1, <1>3, HeedsKeeps DEF KeptInv, Heeded
<1>4. ASSUME NEW p \in Gateways, RunStep(p) PROVE KeptInv'
  BY <1>1, <1>3, <1>4, RunStepHeeds
<1>5. ASSUME NEW p \in Gateways, ExecutorStep(p) \/ StreamProgress(p) PROVE KeptInv'
  BY <1>1, <1>3, <1>5, ExecutorStepGood, ExecutorHeeds
<1>6. ASSUME NEW p \in Gateways, Control(p) PROVE KeptInv'
  BY <1>1, <1>3, <1>6, ControlGood, ControlHeeds
<1>7. ASSUME NEW p \in Gateways, NodeTimesOut(p) \/ Close(p) \/ Exit(p) \/ CrashGateway(p)
      PROVE  KeptInv'
  BY <1>1, <1>3, <1>7, OutsideGood, OutsideHeeds
<1>8. CASE UNCHANGED missionVars \/ BecomesLate \/ \E n \in Nodes : LeaseLapses(n)
  <2>1. UNCHANGED <<mission, view, run, raced, stops>>
    BY <1>8 DEF missionVars, BecomesLate, LeaseLapses, logVars, worldVars
  <2>2. DriveInv'
    BY <1>1, <2>1 DEF DriveInv, SomeoneDrives, Drives, DrivesWith, Minds, Settled, Undisturbed
  <2> QED
    BY <1>1, <2>2 DEF KeptInv
<1> QED
  BY <1>2, <1>4, <1>5, <1>6, <1>7, <1>8 DEF MissionNext

LEMMA InitKeptInv == MissionInit => KeptInv
<1> SUFFICES ASSUME MissionInit PROVE KeptInv
  OBVIOUS
<1>1. stops \in Nat /\ mission.status = "pending"
  BY DEF MissionInit, Pending
<1>2. SomeoneDrives
  BY <1>1 DEF SomeoneDrives, Steerable
<1>3. \A p \in Gateways : Minds(run[p], view[p])
  BY DEF MissionInit, Minds, Asleep, AtNode, NodePcs
<1> QED
  BY <1>1, <1>2, <1>3, InitMissionInv DEF KeptInv, DriveInv

\* While a mission runs, is asked to pause or is paused, some process still runs
\* it, for any graph and any number of gateways that race for its log: a refused
\* append ends only a run that is behind, and the one ahead goes on.
THEOREM NobodyAbandons == MissionSpec => []NotAbandoned
<1>1. ASSUME KeptInv PROVE NotAbandoned
  <2> SUFFICES ASSUME mission.status \in Steerable, Undisturbed
               PROVE  \E p \in Gateways : run[p].pc \notin {"none", "ended"}
    BY DEF NotAbandoned, Undisturbed
  <2>1. PICK p \in Gateways : Drives(p)
    BY <1>1 DEF KeptInv, DriveInv, SomeoneDrives
  <2> QED
    BY <2>1 DEF Drives, DrivesWith
<1> QED
  BY InitKeptInv, NextKeptInv, <1>1, PTL DEF MissionSpec
================================================================================
