-------------------------------- MODULE FlowRuns --------------------------------
(***************************************************************************)
(* The flow engine of packages/core/src/flow.ts: one flow run kept as an   *)
(* append-only file of events, the processes that start it, resume it at   *)
(* its gates and replay it, and their crashes.  A process reads the file   *)
(* once, decides, and then appends: no lock covers the run, so the state a *)
(* resume acts on may be stale when its first event is written.            *)
(*                                                                         *)
(* A step is known by its position in the flow.  What a step produced      *)
(* matters only as truthy or falsy, which is what "when" looks at.         *)
(***************************************************************************)
EXTENDS Integers, Sequences, SequencesExt

CONSTANTS
    Starters, Resumers, Replayers,  \* invocations of runFlow, resumeFlow, replayFlowRun
    Flow,         \* the steps: kind, when, needs, expires
    Items,        \* how many items a foreach runs over
    Retry,        \* step.retry
    Budget,       \* flow.budgetTokens
    Estimate,     \* estimateTokens of a prompt
    TokenCosts,   \* what an agent step may use
    Serialized,   \* TRUE: one process at a time acts on a run
    MaxFlowCrashes,   \* bound: crashes of a process
    MaxFlowTorn       \* bound: crashes in the middle of an append

VARIABLES
    log,      \* the events on file, per run
    ctx,      \* the ExecutionContext of each process, and where it is
    expired,  \* the pending gate's expiresAt has passed
    invoked,  \* history: how often each step's tool or agent was called
    crashes, torn

flowVars == <<log, ctx, expired, invoked, crashes, torn>>

FlowProcesses == Starters \cup Resumers \cup Replayers
Runs == {"run"} \cup Replayers    \* the run, and one for each replay of it
Steps == 1 .. Len(Flow)
NoStep == 0
Kinds == {"tool", "foreach", "agent", "gate"}

ASSUME FlowAssumption ==
    /\ Flow \in Seq([kind : Kinds, when : Nat, needs : SUBSET Nat, expires : BOOLEAN])
    /\ \A s \in Steps : Flow[s].when < s /\ Flow[s].needs \subseteq 1 .. s - 1
    /\ Items \in Nat \ {0} /\ Retry \in Nat
    /\ Budget \in Nat /\ Estimate \in Nat /\ TokenCosts \subseteq Nat
    /\ Serialized \in BOOLEAN
    /\ Replayers \cap ({"run"} \cup Starters \cup Resumers) = {}
    /\ MaxFlowCrashes \in Nat /\ MaxFlowTorn \in Nat

Verdicts == {"completed", "failed", "rejected", "expired", "budget_exceeded"}
Outputs == [Steps -> {"none", "truthy", "falsy"}]
Nothing == [s \in Steps |-> "none"]
--------------------------------------------------------------------------------
(* The events of a run and the state getFlowRun folds out of them. *)

Event(type, step, info) == [type |-> type, step |-> step, info |-> info, tokens |-> 0]
StepCompleted(step, output, tokens) ==
    [type |-> "step_completed", step |-> step, info |-> output, tokens |-> tokens]

Readable(events) ==
    /\ events # <<>>
    /\ \A i \in DOMAIN events : events[i].type # "torn"

\* The events that move a run's status: the last one counts.
Turns(events) ==
    {i \in DOMAIN events : events[i].type \in {"gate_pending", "gate_resolved", "run_finished"}}
LastTurn(events) == events[Max(Turns(events))]

Status(events) ==
    IF Turns(events) = {} THEN "running"
    ELSE CASE LastTurn(events).type = "gate_pending" -> "awaiting_approval"
           [] LastTurn(events).type = "gate_resolved" -> "running"
           [] LastTurn(events).type = "run_finished" -> LastTurn(events).info

PendingGate(events) ==
    IF Status(events) = "awaiting_approval" THEN LastTurn(events).step ELSE NoStep

\* Events that put an output on record: a completed step, an approved gate.
Writes(events, s) ==
    {i \in DOMAIN events :
        /\ events[i].step = s
        /\ \/ events[i].type = "step_completed"
           \/ events[i].type = "gate_resolved" /\ events[i].info = "approve"}

\* outputs: what each step that ran, and each gate that was granted, left behind.
RecordedOutputs(events) ==
    [s \in Steps |->
        IF Writes(events, s) = {} THEN "none"
        ELSE LET e == events[Max(Writes(events, s))]
             IN  IF e.type = "gate_resolved" THEN "truthy" ELSE e.info]

TokensUsed(events) ==
    LET used[i \in 0 .. Len(events)] == IF i = 0 THEN 0 ELSE used[i - 1] + events[i].tokens
    IN  used[Len(events)]

\* The decision a replay reuses: the first one recorded for the gate.
Resolutions(events, s) ==
    {i \in DOMAIN events : events[i].type = "gate_resolved" /\ events[i].step = s}
Decision(events, s) == events[Min(Resolutions(events, s))].info
--------------------------------------------------------------------------------
Phases == {"idle", "start", "resolve", "step", "call", "record", "fail", "finish", "returned"}

NotStarted == [phase |-> "idle", run |-> "run", next |-> 1, outputs |-> Nothing, tokens |-> 0,
         attempt |-> 1, item |-> 1, decision |-> "approve", verdict |-> "completed",
         replay |-> "no", source |-> <<>>]

Active(p) == ctx[p].phase \notin {"idle", "returned"}
StepOf(p) == Flow[ctx[p].next]
At(p, phase) == ctx[p].phase = phase

\* A process acts alone on the run where the caller sees to it.
Admitted(r) == Serialized => \A q \in FlowProcesses : Active(q) => ctx[q].run # r

FlowInit ==
    /\ log = [r \in Runs |-> <<>>]
    /\ ctx = [p \in FlowProcesses |-> NotStarted]
    /\ expired = FALSE
    /\ invoked = [r \in Runs |-> [s \in Steps |-> 0]]
    /\ crashes = 0 /\ torn = 0

\* appendEvent for process p's run.
Appends(p, e) == log' = [log EXCEPT ![ctx[p].run] = Append(@, e)]
Moves(p, c) == ctx' = [ctx EXCEPT ![p] = c]
To(p, phase) == [ctx[p] EXCEPT !.phase = phase]
EndsAs(p, verdict) == [ctx[p] EXCEPT !.phase = "finish", !.verdict = verdict]

\* runFlow: a flow that passed preflight starts at its first step.
RunFlow(p) ==
    /\ p \in Starters /\ At(p, "idle") /\ log["run"] = <<>>
    /\ Appends(p, Event("run_started", NoStep, "run"))
    /\ Moves(p, To(p, "step"))
    /\ UNCHANGED <<expired, invoked, crashes, torn>>

\* replayFlowRun: read the source run, then start a run of its own.
ReplayFlowRun(p, live) ==
    /\ p \in Replayers /\ At(p, "idle")
    /\ Readable(log["run"])
    /\ Moves(p, [To(p, "start") EXCEPT
                   !.run = p, !.source = log["run"],
                   !.replay = IF live THEN "live" ELSE "recorded"])
    /\ UNCHANGED <<log, expired, invoked, crashes, torn>>

StartReplay(p) ==
    /\ At(p, "start")
    /\ Appends(p, Event("run_started", NoStep, "replay"))
    /\ Moves(p, To(p, "step"))
    /\ UNCHANGED <<expired, invoked, crashes, torn>>

\* Mutant: a resumed run starts with a fresh token count.
Resume_ForgetsTokens(p, decision) ==
    LET events == log["run"]
        read == [ctx[p] EXCEPT !.outputs = RecordedOutputs(events),
                               !.next = PendingGate(events), !.decision = decision]
    IN  /\ p \in Resumers /\ At(p, "idle") /\ Admitted("run")
        /\ Readable(events) /\ Status(events) = "awaiting_approval"
        /\ Moves(p, IF expired THEN [read EXCEPT !.phase = "finish", !.verdict = "expired"]
                    ELSE [read EXCEPT !.phase = "resolve"])
        /\ UNCHANGED <<log, expired, invoked, crashes, torn>>

\* resumeFlow up to its first append: only a pending gate can be resumed, and a
\* gate found expired ends the run.  Otherwise it throws and nothing changes.
Resume(p, decision) ==
    LET events == log["run"]
        read == [ctx[p] EXCEPT !.outputs = RecordedOutputs(events),
                               !.tokens = TokensUsed(events),
                               !.next = PendingGate(events), !.decision = decision]
    IN  /\ p \in Resumers /\ At(p, "idle") /\ Admitted("run")
        /\ Readable(events) /\ Status(events) = "awaiting_approval"
        /\ Moves(p, IF expired THEN [read EXCEPT !.phase = "finish", !.verdict = "expired"]
                    ELSE [read EXCEPT !.phase = "resolve"])
        /\ UNCHANGED <<log, expired, invoked, crashes, torn>>

\* Mutant: a rejected run goes on like an approved one.
Resolve_RejectContinues(p) ==
    LET c == ctx[p]
    IN  /\ At(p, "resolve")
        /\ Appends(p, Event("gate_resolved", c.next, c.decision))
        /\ Moves(p, [To(p, "step") EXCEPT !.next = @ + 1,
                                 !.outputs[c.next] = "truthy"])
        /\ UNCHANGED <<expired, invoked, crashes, torn>>

\* The decision goes on file; a rejected run then ends, an approved one goes on.
Resolve(p) ==
    LET c == ctx[p]
    IN  /\ At(p, "resolve")
        /\ Appends(p, Event("gate_resolved", c.next, c.decision))
        /\ Moves(p, IF c.decision = "reject" THEN EndsAs(p, "rejected")
                    ELSE [To(p, "step") EXCEPT !.next = @ + 1,
                                               !.outputs[c.next] = "truthy"])
        /\ UNCHANGED <<expired, invoked, crashes, torn>>
--------------------------------------------------------------------------------
(* executeStepsTraced: one step at a time, up to the next gate. *)

InSteps(p) == At(p, "step") /\ ctx[p].next \in Steps

\* The "when" of the step is met; a reference to a skipped step is not.
Granted(p) == StepOf(p).when # NoStep => ctx[p].outputs[StepOf(p).when] = "truthy"

\* Every {{template}}, "show" and "over" finds its output.
Resolvable(p) == \A s \in StepOf(p).needs : ctx[p].outputs[s] # "none"

Due(p, kinds) == InSteps(p) /\ Granted(p) /\ Resolvable(p) /\ StepOf(p).kind \in kinds

\* step_skipped.
Skip(p) ==
    /\ InSteps(p) /\ ~Granted(p)
    /\ Appends(p, Event("step_skipped", ctx[p].next, "when"))
    /\ Moves(p, [ctx[p] EXCEPT !.next = @ + 1])
    /\ UNCHANGED <<expired, invoked, crashes, torn>>

\* A reference does not resolve, or a foreach does not get an array.
Misfit(p) ==
    /\ InSteps(p) /\ Granted(p)
    /\ ~Resolvable(p) \/ StepOf(p).kind = "foreach"
    /\ Moves(p, To(p, "fail"))
    /\ UNCHANGED <<log, expired, invoked, crashes, torn>>

\* A gate stops the run until somebody resumes it.
PendGate(p) ==
    /\ Due(p, {"gate"}) /\ ctx[p].replay = "no"
    /\ Appends(p, Event("gate_pending", ctx[p].next, "show"))
    /\ Moves(p, To(p, "returned"))
    /\ expired' = FALSE
    /\ UNCHANGED <<invoked, crashes, torn>>

\* A replay reuses the first decision the source run recorded.
ReplayGate(p) ==
    LET c == ctx[p]
        recorded == Decision(c.source, c.next)
    IN  /\ Due(p, {"gate"}) /\ c.replay # "no" /\ Resolutions(c.source, c.next) # {}
        /\ Appends(p, Event("gate_resolved", c.next, recorded))
        /\ Moves(p, IF recorded = "reject" THEN EndsAs(p, "rejected")
                    ELSE [c EXCEPT !.next = @ + 1, !.outputs[c.next] = "truthy"])
        /\ UNCHANGED <<expired, invoked, crashes, torn>>

\* Nothing recorded for the gate, or for an agent step that is not run live.
ReplayMisses(p) ==
    LET c == ctx[p]
    IN  /\ \/ Due(p, {"gate"}) /\ c.replay # "no" /\ Resolutions(c.source, c.next) = {}
           \/ Due(p, {"agent"}) /\ c.replay = "recorded"
              /\ RecordedOutputs(c.source)[c.next] = "none"
        /\ Moves(p, To(p, "fail"))
        /\ UNCHANGED <<log, expired, invoked, crashes, torn>>

OverBudget(c) == c.tokens + Estimate > Budget

\* An agent step that would exceed the budget ends the run.
StopForBudget(p) ==
    /\ Due(p, {"agent"}) /\ ctx[p].replay # "recorded" /\ OverBudget(ctx[p])
    /\ Moves(p, EndsAs(p, "budget_exceeded"))
    /\ UNCHANGED <<log, expired, invoked, crashes, torn>>

\* step_started: a tool, a foreach, an agent run, or a recorded agent output.
BeginStep(p) ==
    LET c == ctx[p]
        reuse == StepOf(p).kind = "agent" /\ c.replay = "recorded"
    IN  /\ Due(p, {"tool", "foreach", "agent"})
        /\ StepOf(p).kind = "agent" =>
             IF reuse THEN RecordedOutputs(c.source)[c.next] # "none" ELSE ~OverBudget(c)
        /\ Appends(p, Event("step_started", c.next, ""))
        /\ Moves(p, [c EXCEPT !.phase = IF reuse THEN "record" ELSE "call",
                              !.attempt = 1, !.item = 1])
        /\ UNCHANGED <<expired, invoked, crashes, torn>>

\* Mutant: one attempt too many.
LastAttempt_OneMore(p) == ctx[p].attempt > Retry + 1

\* An agent step is tried once, a tool 1 + retry times.
LastAttempt(p) == StepOf(p).kind = "agent" \/ ctx[p].attempt = Retry + 1

Invokes(p) == invoked' = [invoked EXCEPT ![ctx[p].run][ctx[p].next] = @ + 1]

CallSucceeds(p) ==
    /\ At(p, "call") /\ Invokes(p)
    /\ Moves(p, IF StepOf(p).kind = "foreach" /\ ctx[p].item < Items
                THEN [ctx[p] EXCEPT !.item = @ + 1, !.attempt = 1]
                ELSE To(p, "record"))
    /\ UNCHANGED <<log, expired, crashes, torn>>

CallFails(p) ==
    /\ At(p, "call") /\ Invokes(p)
    /\ Moves(p, IF LastAttempt(p) THEN To(p, "fail") ELSE [ctx[p] EXCEPT !.attempt = @ + 1])
    /\ UNCHANGED <<log, expired, crashes, torn>>

\* step_completed; an agent that went over the budget ends the run.
RecordStep(p) ==
    LET c == ctx[p]
        reuse == StepOf(p).kind = "agent" /\ c.replay = "recorded"
    IN  /\ At(p, "record")
        /\ \E output \in IF reuse THEN {RecordedOutputs(c.source)[c.next]}
                         ELSE IF StepOf(p).kind = "tool" THEN {"truthy", "falsy"} ELSE {"truthy"},
              cost \in IF StepOf(p).kind = "agent" /\ ~reuse THEN TokenCosts ELSE {0} :
             LET done == [c EXCEPT !.phase = "step", !.next = @ + 1,
                                   !.outputs[c.next] = output, !.tokens = @ + cost]
             IN  /\ Appends(p, StepCompleted(c.next, output, cost))
                 /\ Moves(p, IF cost # 0 /\ done.tokens > Budget
                             THEN [done EXCEPT !.phase = "finish", !.verdict = "budget_exceeded"]
                             ELSE done)
        /\ UNCHANGED <<expired, invoked, crashes, torn>>

\* Mutant: failStep leaves out finishRun.
FailStep_NoFinish(p) ==
    /\ At(p, "fail")
    /\ Appends(p, Event("step_failed", ctx[p].next, ""))
    /\ Moves(p, To(p, "returned"))
    /\ UNCHANGED <<expired, invoked, crashes, torn>>

\* failStep, whose second append is FinishFlow.
FailStep(p) ==
    /\ At(p, "fail")
    /\ Appends(p, Event("step_failed", ctx[p].next, ""))
    /\ Moves(p, EndsAs(p, "failed"))
    /\ UNCHANGED <<expired, invoked, crashes, torn>>

Complete(p) ==
    /\ At(p, "step") /\ ctx[p].next = Len(Flow) + 1
    /\ Moves(p, EndsAs(p, "completed"))
    /\ UNCHANGED <<log, expired, invoked, crashes, torn>>

\* finishRun.
FinishFlow(p) ==
    /\ At(p, "finish")
    /\ Appends(p, Event("run_finished", NoStep, ctx[p].verdict))
    /\ Moves(p, To(p, "returned"))
    /\ UNCHANGED <<expired, invoked, crashes, torn>>
--------------------------------------------------------------------------------
\* expiresAt of the pending gate passes.
GateExpires ==
    /\ ~expired /\ PendingGate(log["run"]) # NoStep
    /\ Flow[PendingGate(log["run"])].expires
    /\ expired' = TRUE
    /\ UNCHANGED <<log, ctx, invoked, crashes, torn>>

\* The process dies where it is; a call in flight may have had its effect.
FlowCrash(p) ==
    /\ Active(p) /\ crashes < MaxFlowCrashes
    /\ Moves(p, To(p, "returned"))
    /\ crashes' = crashes + 1
    /\ invoked' = invoked \/ (At(p, "call") /\ Invokes(p))
    /\ UNCHANGED <<log, expired, torn>>

\* It dies while it appends, and half a line stays.
CrashTorn(p) ==
    /\ Active(p) /\ ~At(p, "call") /\ crashes < MaxFlowCrashes /\ torn < MaxFlowTorn
    /\ Appends(p, Event("torn", NoStep, ""))
    /\ Moves(p, To(p, "returned"))
    /\ crashes' = crashes + 1 /\ torn' = torn + 1
    /\ UNCHANGED <<expired, invoked>>

Proceed(p) ==
    \/ StartReplay(p) \/ Resolve(p) \/ Skip(p) \/ Misfit(p) \/ PendGate(p) \/ ReplayGate(p)
    \/ ReplayMisses(p) \/ StopForBudget(p) \/ BeginStep(p) \/ CallSucceeds(p) \/ CallFails(p)
    \/ RecordStep(p) \/ FailStep(p) \/ Complete(p) \/ FinishFlow(p)

FlowNext ==
    \/ \E p \in FlowProcesses :
         \/ RunFlow(p) \/ Proceed(p) \/ FlowCrash(p) \/ CrashTorn(p)
         \/ \E live \in BOOLEAN : ReplayFlowRun(p, live)
         \/ \E decision \in {"approve", "reject"} : Resume(p, decision)
    \/ GateExpires

FlowSpec == FlowInit /\ [][FlowNext]_flowVars

\* A process that runs goes on, tools and agents return, and approvers come
\* back to a gate as long as somebody is left to ask.
FlowFairness ==
    \A p \in FlowProcesses :
        /\ WF_flowVars(Proceed(p))
        /\ WF_flowVars(\E decision \in {"approve", "reject"} : Resume(p, decision))

FlowFairSpec == FlowSpec /\ FlowFairness
--------------------------------------------------------------------------------
Context ==
    [phase : Phases, run : Runs, next : 1 .. Len(Flow) + 1, outputs : Outputs, tokens : Nat,
     attempt : 1 .. Retry + 1, item : 1 .. Items, decision : {"approve", "reject"},
     verdict : Verdicts, replay : {"no", "recorded", "live"}]

FlowTypeOK ==
    /\ \A p \in FlowProcesses :
         [f \in DOMAIN ctx[p] \ {"source"} |-> ctx[p][f]] \in Context
    /\ \A r \in Runs, s \in Steps : invoked[r][s] \in Nat
    /\ expired \in BOOLEAN
    /\ crashes \in 0 .. MaxFlowCrashes /\ torn \in 0 .. MaxFlowTorn

\* What a process carries in memory is what another one would read from the
\* file: a run resumed after any number of crashes, gates and restarts continues
\* with the outputs and the token count of the run it continues.
ContextIsRecorded ==
    \A p \in FlowProcesses : Active(p) /\ Readable(log[ctx[p].run]) =>
        /\ ctx[p].phase # "start" => ctx[p].outputs = RecordedOutputs(log[ctx[p].run])
        /\ ctx[p].phase # "start" => ctx[p].tokens = TokensUsed(log[ctx[p].run])

\* Nothing behind a gate is started before the gate was approved, whatever was
\* skipped, expired or crashed in between.
ApprovedFirst ==
    \A r \in Runs : \A i \in DOMAIN log[r] : log[r][i].type = "step_started" =>
        \A g \in 1 .. log[r][i].step - 1 :
            Flow[g].kind = "gate" /\ Flow[g].when = NoStep =>
                \E j \in 1 .. i - 1 :
                    log[r][j].type = "gate_resolved" /\ log[r][j].step = g
                    /\ log[r][j].info = "approve"

\* A replay grants a gate only where the source run granted it first.
ReplayGrantsRecorded ==
    \A p \in Replayers, s \in Steps :
        Flow[s].kind = "gate" /\ ctx[p].outputs[s] = "truthy" =>
            /\ Resolutions(ctx[p].source, s) # {}
            /\ Decision(ctx[p].source, s) = "approve"

\* A gate holds in a run and in its replay, whoever resumes it and whatever
\* crashes in between (runFlow, resumeFlow, replayFlowRun).
GatesHold == ApprovedFirst /\ ReplayGrantsRecorded

\* Crashes and resumes never repeat a step: its tool is called at most once per
\* item and attempt in the whole life of the run.
StepsRunOnce ==
    \A r \in Runs, s \in Steps :
        invoked[r][s] <= IF Flow[s].kind = "foreach" THEN Items * (Retry + 1)
                         ELSE IF Flow[s].kind = "agent" THEN 1 ELSE Retry + 1

\* A run that nobody crashes comes to a gate or to an end.
RunSettles ==
    \A r \in Runs : (log[r] # <<>>) ~> (Status(log[r]) # "running" \/ crashes > 0)

\* flow.test.ts:240, "resume reject marks the run rejected and skips the
\* remaining steps": no step starts after a rejection is on file.
RejectedSkipsRest ==
    \A i, j \in DOMAIN log["run"] :
        /\ log["run"][i].type = "gate_resolved" /\ log["run"][i].info = "reject"
        /\ log["run"][j].type = "step_started"
        => j < i

\* FLOW_ENGINE_SPEC.md:51-52, "Resume = re-run the file; the gate state lives in
\* the run record ... Survives restarts": an approved run gets on to its next
\* gate or its end.
ApprovedRunContinues ==
    (Status(log["run"]) = "running" /\ \E s \in Steps : Resolutions(log["run"], s) # {})
        ~> (Status(log["run"]) # "running")
================================================================================
