------------------------------ MODULE MCDurableLogs ------------------------------
(* The files and stores that several processes write: the transition slots of *)
(* a delivery (DurableIngress) and the events of a mission (FrappeMissions),  *)
(* under a fencing token; the events of a flow run that is resumed and then   *)
(* replayed (FlowRuns) and of subagents (Subagents), appended without one;    *)
(* and pulses.json (Pulses), written whole.  They share no state here, so a   *)
(* behaviour moves one of them.  Processes are interchangeable.               *)
EXTENDS DurableIngress, MCMissions, MCFlowRuns, Pulses, Subagents

VARIABLE part    \* what moves; a mission alone, or with a second gateway

Minutes == "beat" :> {1, 2, 3, 4} @@ "task" :> {1, 2, 3, 4}
NoSchedules == {<<>>}
PulseFiles == {<<>>, <<Pulse("beat", 1)>>}

\* Commands that meet are explored with one pulse on file, and live.
OnePulse ==
    lapses.overlap =>
      /\ lapses.deaths = 0
      /\ \A c \in CliProcesses : "task" \notin Ids(runner[c].array)
      /\ pulses # Corrupt => "task" \notin Ids(pulses)

\* A replay reads the run it repeats once, when it starts; as the order of its
\* steps with those of the others makes no difference, they are over by then.
ReplayLast ==
    (\E y \in Replayers : ctx[y] # NotStarted) =>
        UNCHANGED expired /\ \A p \in Starters \cup Resumers : ctx'[p] = ctx[p]

jobVars == <<cronVars, pulseVars>>

LogsInit ==
    /\ Init /\ MissionInit /\ FlowInit /\ SubagentInit /\ ScheduleInit /\ PulseInit
    /\ part \in {"slots", "alone", "race", "flow", "subagents", "pulses"}
    /\ part # "pulses" => pulses = <<>> /\ checklist

Rests(others) == UNCHANGED <<part, others>>

LogsNext ==
    \/ /\ part = "slots" /\ Next
       /\ Rests(<<missionVars, flowVars, subagentVars, jobVars>>)
    \/ /\ part \in {"alone", "race"} /\ MissionNext
       /\ Rests(<<vars, flowVars, subagentVars, jobVars>>)
       /\ (part = "alone" => Alone') /\ (part = "race" => Race')
    \/ /\ part = "flow" /\ FlowNext /\ ReplayLast
       /\ Rests(<<vars, missionVars, subagentVars, jobVars>>)
    \/ /\ part = "subagents" /\ SubagentNext
       /\ Rests(<<vars, missionVars, flowVars, jobVars>>)
    \/ /\ part = "pulses" /\ PulseNext /\ OnePulse'
       /\ Rests(<<vars, missionVars, flowVars, subagentVars, scheduleVars>>)

logsVars == <<vars, missionVars, flowVars, subagentVars, jobVars, part>>
LogsSpec == LogsInit /\ [][LogsNext]_logsVars

\* The processes of every part bear the same names, so that one permutation
\* serves all of them.
Interchangeable == Permutations(Workers)
==================================================================================
