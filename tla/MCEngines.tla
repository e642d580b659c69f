------------------------------- MODULE MCEngines -------------------------------
(* The engines that the command line runs (packages/core), each over a file of  *)
(* its own: a flow run that is resumed at its gates, the schedules and the      *)
(* subagents.  They share no state here; a behaviour moves one of them.         *)
EXTENDS MCFlowRuns, MCSchedules, Subagents

VARIABLE engine    \* the one that moves

EnginesInit ==
    /\ engine \in {"flow", "schedules", "subagents"}
    /\ FlowInit /\ SubagentInit
    /\ ScheduleInit /\ (engine # "schedules" => schedules = <<>>)

engineVars == <<flowVars, cronVars, subagentVars, engine>>

\* Schedules are explored until a job has fired twice for a minute.
EnginesNext ==
    /\ UNCHANGED engine
    /\ \/ engine = "flow" /\ FlowNext /\ UNCHANGED <<cronVars, subagentVars>>
       \/ engine = "schedules" /\ ScheduleNext /\ again = {}
          /\ UNCHANGED <<flowVars, subagentVars>>
       \/ engine = "subagents" /\ SubagentNext /\ UNCHANGED <<flowVars, cronVars>>

\* An engine that rests owes no step: no run was started, no schedule and no
\* subagent is on file.
EnginesSpec ==
    /\ EnginesInit /\ [][EnginesNext]_engineVars
    /\ FlowFairness /\ ScheduleFairness /\ SubagentFairness
================================================================================
