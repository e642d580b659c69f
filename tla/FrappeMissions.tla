----------------------------- MODULE FrappeMissions -----------------------------
(***************************************************************************)
(* The mission bridge (packages/gateway/src/frappe-mission-bridge.ts) and  *)
(* the governed effect executor (frappe-effect-executor.ts): gateway       *)
(* processes that run one mission's graph, each against its own copy of    *)
(* the folded events.  An append is accepted only at the next sequence, so *)
(* a process whose copy is behind can write nothing more.  The effects are *)
(* claimed in a ledger of their own, then applied at the Frappe site.      *)
(*                                                                         *)
(* A process is one thread: commands, timers and answers of the network    *)
(* reach it only where it waits for one.  Other processes and crashes come *)
(* between any two of its appends.                                         *)
(***************************************************************************)
EXTENDS MissionEvents

CONSTANTS
    Gateways,     \* processes on the same database files
    MaxStops,     \* bound: crashes and shutdowns
    MaxControls   \* bound: pause, resume, steer and cancel commands

VARIABLES
    mission,   \* the fold of the events in the store
    view,      \* runtime.state of each process
    run,       \* its #run: where it is and what it keeps in memory
    exec,      \* its node executor, which outlives a node that was aborted
    ledger,    \* governed_frappe_effects: state and fencing token of each key
    applied,   \* history: how often the site applied each effect
    lapsed,    \* the nodes whose lease has expired
    late,      \* the mission's deadline has passed
    raced,     \* history: "recovery", one read the events twice and found more;
               \* "command", one reached a run that was over or could not record it
    stops, controls

logVars == <<mission, view, lapsed>>                     \* what an append may change
worldVars == <<ledger, applied, late, stops, controls>>
missionVars == <<logVars, run, exec, raced, worldVars>>

ASSUME MissionAssumption == MaxStops \in Nat /\ MaxControls \in Nat

\* Statuses in which the bridge has nothing left to run (its TERMINAL).
Stopped == Final \cup {"failed"}

Every == [n \in Nodes |-> Graph[n].children]
Asleep == [pc |-> "none", hold |-> "none", answer |-> "none", node |-> NoNode, token |-> 0,
           iteration |-> 0, seen |-> 0, chosen |-> Every, progress |-> [n \in Nodes |-> 0], next |-> {},
           failure |-> "none", controller |-> "none", cancel |-> FALSE, closed |-> FALSE]
NoExec == [phase |-> "none", key |-> NoKey, token |-> 0]

\* The runtime stays in the bridge's map when its run is over.
Ended(r) == [Asleep EXCEPT !.pc = "ended", !.cancel = r.cancel, !.closed = r.closed]

MissionInit ==
    /\ mission = Pending
    /\ view = [p \in Gateways |-> Pending]
    /\ run = [p \in Gateways |-> Asleep]
    /\ exec = [p \in Gateways |-> NoExec]
    /\ ledger = [k \in Keys |-> [state |-> "none", token |-> 0]]
    /\ applied = [k \in Keys |-> 0]
    /\ lapsed = {} /\ late = FALSE /\ raced = {}
    /\ stops = 0 /\ controls = 0
--------------------------------------------------------------------------------
(* #emit: reduce the event on the process's copy, append it, keep the result. *)

\* Two processes that write the same event in the same instant write one row,
\* and both are told that it is there.  What a provider or the site answered is
\* never the same twice.
Twin(p, e) ==
    /\ view[p].sequence + 1 = mission.sequence /\ mission.last = e
    /\ e.type \notin {"node_progress", "node_completed", "effect_committed", "steered"}

Accepted(p, e) ==
    /\ Reducible(view[p], e, lapsed)
    /\ view[p].sequence = mission.sequence \/ Twin(p, e)
    /\ mission' = Reduced(view[p], e)
    /\ view' = [view EXCEPT ![p] = mission']
    /\ lapsed' = IF e.type = "lease_claimed" THEN lapsed \ {e.node} ELSE lapsed

Refused(p, e) ==
    /\ ~Reducible(view[p], e, lapsed) \/ view[p].sequence # mission.sequence
    /\ UNCHANGED logVars

\* The event of the node the process runs, under its fencing token.
OfNode(p, type) ==
    [RunEvent(type) EXCEPT !.node = run[p].node, !.attempt = run[p].token, !.token = run[p].token]

Goes(p, pc) == run' = [run EXCEPT ![p].pc = pc]
Ends(p) == run' = [run EXCEPT ![p] = Ended(@)]

\* A step of #run that only appends: where it goes when the event is in, and when not.
Emit(p, e, then, else) ==
    /\ \/ Accepted(p, e) /\ run' = [run EXCEPT ![p] = then]
       \/ Refused(p, e) /\ run' = [run EXCEPT ![p] = else]
    /\ UNCHANGED <<exec, raced, worldVars>>

Now(p, pc) == [run[p] EXCEPT !.pc = pc]

--------------------------------------------------------------------------------
(* submit: admit the mission once, then read its events twice.             *)

Submit(p) ==
    /\ run[p].pc = "none"
    /\ mission' = IF mission.status = "pending"
                  THEN Reduced(mission, RunEvent("mission_started")) ELSE mission
    /\ Goes(p, "snapshot")
    /\ UNCHANGED <<view, lapsed, exec, raced, worldVars>>

\* Mutant: a recovery does not read back what the completed nodes selected.
Selected_Forgotten(m) == Every

\* What each node leads to: all of its children, or those it selected.
Selected(m) ==
    [n \in Nodes |-> IF m.node[n].state = "completed" THEN m.node[n].next ELSE Graph[n].children]

Snapshot(p) ==
    /\ run[p].pc = "snapshot"
    /\ run' = [run EXCEPT ![p] =
                 [@ EXCEPT !.pc = "rehydrate", !.seen = mission.sequence,
                           !.chosen = Selected(mission),
                           !.progress = [n \in Nodes |-> mission.node[n].iteration],
                           !.cancel = mission.status \in {"cancel_requested", "cancelling"}]]
    /\ UNCHANGED <<logVars, exec, raced, worldVars>>

Rehydrate(p) ==
    /\ run[p].pc = "rehydrate"
    /\ view' = [view EXCEPT ![p] = mission]
    /\ raced' = raced \cup (IF run[p].seen # mission.sequence THEN {"recovery"} ELSE {})
    /\ run' = [run EXCEPT ![p] = IF mission.status \in Stopped THEN Ended(@)
                                 ELSE [@ EXCEPT !.pc = "pick", !.seen = 0]]
    /\ UNCHANGED <<mission, lapsed, exec, worldVars>>
--------------------------------------------------------------------------------
(* #run: walk the graph in topological order.                              *)

IsDone(p, n) == view[p].node[n].state = "completed"

\* The walk adds to activeNodes what each completed node leads to: the least
\* such set that holds the entry node.
Leads(p, S) == 1 \in S /\ \A m \in S : IsDone(p, m) => run[p].chosen[m] \subseteq S
ActiveNodes(p) == {n \in Nodes : \A S \in SUBSET Nodes : Leads(p, S) => n \in S}

\* The active nodes that are not completed.
Open(p) == {n \in ActiveNodes(p) : ~IsDone(p, n)}

Cancelled(p) == run[p].cancel \/ view[p].status = "cancel_requested"

\* The checks before each node: cancelled, to be paused, still paused, over.
Pick(p) ==
    /\ run[p].pc = "pick"
    /\ \/ Cancelled(p) /\ Goes(p, "cancel") /\ UNCHANGED logVars
       \/ /\ ~Cancelled(p) /\ view[p].status = "pause_requested"
          /\ \/ Accepted(p, RunEvent("paused"))
                /\ run' = [run EXCEPT ![p] = [@ EXCEPT !.pc = "held", !.hold = "pick"]]
             \/ Refused(p, RunEvent("paused")) /\ Goes(p, "caught")
       \/ /\ ~Cancelled(p) /\ view[p].status = "paused"
          /\ run' = [run EXCEPT ![p] = [@ EXCEPT !.pc = "held", !.hold = "pick"]]
          /\ UNCHANGED logVars
       \/ ~Cancelled(p) /\ view[p].status \in Stopped /\ Ends(p) /\ UNCHANGED logVars
    /\ UNCHANGED <<exec, raced, worldVars>>

Walks(p) ==
    run[p].pc = "pick" /\ ~Cancelled(p) /\ view[p].status \notin Stopped \cup {"pause_requested", "paused"}

\* The first of them in the order of the walk.
IsNext(p, n) == n \in Open(p) /\ \A m \in Open(p) : n <= m

StartNode(p) ==
    /\ Walks(p)
    /\ \E n \in Nodes :
         /\ IsNext(p, n)
         /\ LET token == view[p].node[n].token + 1
            IN  Emit(p, [RunEvent("node_started") EXCEPT !.node = n, !.attempt = token],
                     [run[p] EXCEPT !.pc = "lease", !.node = n, !.token = token],
                     Now(p, "caught"))

\* The end of the walk; a status nothing completes in ends the run as it is.
CompleteMission(p) ==
    /\ Walks(p) /\ Open(p) = {}
    /\ IF view[p].status = "running"
       THEN Emit(p, RunEvent("mission_completed"), Ended(run[p]), Now(p, "caught"))
       ELSE Ends(p) /\ UNCHANGED <<logVars, exec, raced, worldVars>>

ClaimLease(p) ==
    /\ run[p].pc = "lease"
    /\ IF late
       THEN Goes(p, "caught") /\ UNCHANGED <<logVars, exec, raced, worldVars>>
       ELSE Emit(p, OfNode(p, "lease_claimed"),
                 [run[p] EXCEPT !.pc = "begin", !.controller = "live",
                                !.iteration = run[p].progress[run[p].node] + 1],
                 Now(p, "caught"))

\* An iteration begins at a checkpoint; an aborted executor does nothing.
BeginIteration(p) ==
    /\ run[p].pc = "begin"
    /\ LET n == run[p].node
       IN  IF \/ run[p].iteration > Graph[n].iterations
              \/ Cancelled(p) \/ run[p].controller = "aborted"
           THEN Goes(p, "failing") /\ UNCHANGED exec
           ELSE /\ Goes(p, "work")
                /\ exec' = [exec EXCEPT ![p] =
                     [phase |-> IF Graph[n].kind = "effect" THEN "planning" ELSE "thinking",
                      key |-> Graph[n].key, token |-> run[p].token]]
    /\ UNCHANGED <<logVars, raced, worldVars>>

\* The loop goes round again, or has used up its iterations without verification.
Again(r) ==
    IF r.iteration = Graph[r.node].iterations THEN [r EXCEPT !.pc = "failing"]
    ELSE [r EXCEPT !.pc = "begin", !.iteration = @ + 1, !.answer = "none"]

Continuations == {"continue", "verified", "blocked", "needs_input"}

AfterProgress(p) ==
    LET r == [run[p] EXCEPT !.progress[run[p].node] = run[p].iteration]
    IN  CASE r.answer = "continue" -> Again(r)
          [] r.answer = "verified" -> [r EXCEPT !.pc = "done"]
          [] r.answer = "blocked" -> [r EXCEPT !.pc = "failing"]
          [] r.answer = "needs_input" -> [r EXCEPT !.pc = "asking"]

\* The result of a loop's iteration goes on record before it is looked at.
RecordIteration(p) ==
    /\ run[p].pc = "result"
    /\ Emit(p, [OfNode(p, "node_progress") EXCEPT !.iteration = run[p].iteration],
            AfterProgress(p), Now(p, "failing"))

\* A loop that needs input asks for a pause itself, and waits inside the node.
AskForInput(p) ==
    \/ run[p].pc = "asking" /\ Emit(p, RunEvent("pause_requested"), Now(p, "yielding"), Now(p, "failing"))
    \/ /\ run[p].pc = "yielding"
       /\ Emit(p, RunEvent("paused"), [run[p] EXCEPT !.pc = "held", !.hold = "node"],
               Now(p, "failing"))

CompleteNode(p) ==
    /\ run[p].pc = "done"
    /\ Emit(p, [OfNode(p, "node_completed") EXCEPT !.next = run[p].next],
            [run[p] EXCEPT !.pc = "pick", !.controller = "none", !.node = NoNode, !.token = 0,
                           !.iteration = 0, !.answer = "none", !.next = {},
                           !.chosen[run[p].node] = run[p].next],
            Now(p, "failing"))

\* A failure that cannot be recorded hides the one that led to it.
FailNode(p) ==
    /\ run[p].pc = "failing"
    /\ Emit(p, OfNode(p, "node_failed"), [run[p] EXCEPT !.pc = "caught", !.controller = "none"],
            [run[p] EXCEPT !.pc = "caught", !.controller = "none", !.failure = "none"])
--------------------------------------------------------------------------------
(* The end of a run that threw, and of one that was cancelled.             *)

\* Mutant: a mission that was asked to pause is not failed.
MayFail_Running(status) == status = "running"

\* #run's catch: mission_failed ends what is not over yet.
MayFail(status) == status \notin Stopped

FailMission(p) ==
    /\ run[p].pc = "caught"
    /\ \/ (run[p].closed \/ (~Cancelled(p) /\ ~MayFail(view[p].status))) /\ Ends(p)
          /\ UNCHANGED <<logVars, exec, raced, worldVars>>
       \/ /\ ~run[p].closed /\ Cancelled(p) /\ Goes(p, "cancel")
          /\ UNCHANGED <<logVars, exec, raced, worldVars>>
       \/ /\ ~run[p].closed /\ ~Cancelled(p) /\ MayFail(view[p].status)
          /\ Emit(p, RunEvent("mission_failed"),
                  IF run[p].failure = "none" THEN Ended(run[p]) ELSE Now(p, "compensate"),
                  Ended(run[p]))

\* What the executor reported of its compensation, as two events.
RecordCompensation(p) ==
    \/ /\ run[p].pc = "compensate"
       /\ Emit(p, RunEvent("compensation_started"), Now(p, "outcome"), Ended(run[p]))
    \/ /\ run[p].pc = "outcome"
       /\ Emit(p, RunEvent(IF run[p].failure = "compensated" THEN "compensation_completed"
                           ELSE "compensation_failed"), Ended(run[p]), Ended(run[p]))

FinishCancellation(p) ==
    /\ run[p].pc = "cancel"
    /\ CASE view[p].status = "cancel_requested" ->
               Emit(p, RunEvent("cancelling"), run[p], Ended(run[p]))
         [] view[p].status = "cancelling" ->
               Emit(p, RunEvent("cancelled"), Ended(run[p]), Ended(run[p]))
         [] OTHER -> Ends(p) /\ UNCHANGED <<logVars, exec, raced, worldVars>>
--------------------------------------------------------------------------------
(* The default executor: one provider run, whose reasoning is streamed.    *)

Phase(p, phase) == run[p].pc = "work" /\ exec[p].phase = phase
Stops(p, pc, failure) ==
    /\ run' = [run EXCEPT ![p] = [@ EXCEPT !.pc = pc, !.failure = failure]]
    /\ exec' = [exec EXCEPT ![p] = NoExec]

\* One summary per run stands for the stream; one that is refused spoils the run.
StreamProgress(p) ==
    /\ Phase(p, "thinking")
    /\ LET e == OfNode(p, "node_progress")
       IN  \/ Accepted(p, e) /\ exec' = [exec EXCEPT ![p].phase = "reported"]
           \/ Refused(p, e) /\ exec' = [exec EXCEPT ![p].phase = "spoiled"]
    /\ UNCHANGED <<run, raced, worldVars>>

\* The branches a node may select: all of its children unless it names some.
Think(p) ==
    /\ run[p].pc = "work" /\ exec[p].phase \in {"thinking", "reported", "spoiled"}
    /\ \/ Stops(p, "failing", "none")
       \/ /\ exec[p].phase # "spoiled"
          /\ exec' = [exec EXCEPT ![p] = NoExec]
          /\ \E next \in SUBSET Graph[run[p].node].children :
               IF Graph[run[p].node].kind = "task"
               THEN run' = [run EXCEPT ![p] = [@ EXCEPT !.pc = "done", !.next = next]]
               ELSE \E c \in Continuations :
                      /\ c # "verified" => next = {}
                      /\ run' = [run EXCEPT ![p] =
                                   [@ EXCEPT !.pc = "result", !.answer = c, !.next = next]]
    /\ UNCHANGED <<logVars, raced, worldVars>>
--------------------------------------------------------------------------------
(* The governed effect executor and its ledger.                            *)

Sets(p, phase) == exec' = [exec EXCEPT ![p].phase = phase]
Mark(k, token, state) == ledger' = [ledger EXCEPT ![k] = [state |-> state, token |-> token]]

\* Mutant: a failed effect is tried again under the same plan and approval.
IsFree_AfterFailure(row) == row.state \in {"none", "failed"}

\* claim: a key is claimed once.
IsFree(row) == row.state = "none"

\* The result of a committed effect is replayed to a holder that is not older;
\* everything else is a conflict.
Replays(row, token) == row.state = "committed" /\ row.token <= token

\* The plan and the authority are checked with the site, then the key is claimed.
ClaimEffect(p) ==
    /\ Phase(p, "planning")
    /\ LET k == exec[p].key
       IN  \/ Stops(p, "failing", "none") /\ UNCHANGED ledger
           \/ /\ IsFree(ledger[k]) /\ Mark(k, exec[p].token, "claimed")
              /\ Sets(p, "claimed") /\ UNCHANGED run
           \/ /\ Replays(ledger[k], exec[p].token)
              /\ run' = [run EXCEPT ![p] =
                           [@ EXCEPT !.pc = "done", !.next = Graph[run[p].node].children]]
              /\ exec' = [exec EXCEPT ![p] = NoExec] /\ UNCHANGED ledger
           \/ /\ ~IsFree(ledger[k]) /\ ~Replays(ledger[k], exec[p].token)
              /\ Stops(p, "failing", "needs_intervention") /\ UNCHANGED ledger
    /\ UNCHANGED <<logVars, applied, late, raced, stops, controls>>

AnnounceEffect(p) ==
    /\ Phase(p, "claimed")
    /\ LET e == [OfNode(p, "effect_started") EXCEPT !.key = exec[p].key]
       IN  \/ Accepted(p, e) /\ Sets(p, "applying")
           \/ Refused(p, e) /\ Sets(p, "giving_up")
    /\ UNCHANGED <<run, raced, worldVars>>

\* The site applies the effect or not, and its answer arrives or not.  An error
\* that the site reports leaves the claim as it is, any other releases it.
ApplyEffect(p) ==
    /\ Phase(p, "applying")
    /\ \E done \in 0 .. 1 :
         /\ applied' = [applied EXCEPT ![exec[p].key] = @ + done]
         /\ \/ done = 1 /\ Sets(p, "observing") /\ UNCHANGED run
            \/ Stops(p, "failing", "none")
            \/ Sets(p, "giving_up") /\ UNCHANGED run
    /\ UNCHANGED <<logVars, ledger, late, raced, stops, controls>>

\* What the site shows afterwards is verified before the ledger commits.
ObserveEffect(p) ==
    /\ Phase(p, "observing")
    /\ \/ Mark(exec[p].key, exec[p].token, "committed") /\ Sets(p, "committed") /\ UNCHANGED run
       \/ Sets(p, "compensating") /\ UNCHANGED <<run, ledger>>
       \/ Stops(p, "failing", "none") /\ UNCHANGED ledger
       \/ Sets(p, "giving_up") /\ UNCHANGED <<run, ledger>>
    /\ UNCHANGED <<logVars, applied, late, raced, stops, controls>>

CompensateEffect(p) ==
    /\ Phase(p, "compensating")
    /\ \/ \E outcome \in {"compensated", "needs_intervention"} :
            Mark(exec[p].key, exec[p].token, "failed") /\ Stops(p, "failing", outcome)
       \/ Stops(p, "failing", "none") /\ UNCHANGED ledger
       \/ Sets(p, "giving_up") /\ UNCHANGED <<run, ledger>>
    /\ UNCHANGED <<logVars, applied, late, raced, stops, controls>>

RecordEffect(p) ==
    /\ Phase(p, "committed")
    /\ LET e == [OfNode(p, "effect_committed") EXCEPT !.key = exec[p].key]
       IN  \/ /\ Accepted(p, e) /\ exec' = [exec EXCEPT ![p] = NoExec]
              /\ run' = [run EXCEPT ![p] =
                           [@ EXCEPT !.pc = "done", !.next = Graph[run[p].node].children]]
           \/ Refused(p, e) /\ Stops(p, "failing", "none")
    /\ UNCHANGED <<raced, worldVars>>

\* The claim is released as failed, also by an executor whose node is over.
GiveUp(p) ==
    /\ exec[p].phase = "giving_up"
    /\ Mark(exec[p].key, exec[p].token, "failed")
    /\ IF run[p].pc = "work" THEN Stops(p, "failing", "none")
       ELSE exec' = [exec EXCEPT ![p] = NoExec] /\ UNCHANGED run
    /\ UNCHANGED <<logVars, applied, late, raced, stops, controls>>
--------------------------------------------------------------------------------
(* What reaches a process from outside while it waits.                     *)

Awaiting == {"thinking", "reported", "spoiled", "planning", "applying", "observing", "compensating"}
Waits(p) ==
    run[p].pc \in {"held", "ended"} \/ (run[p].pc = "work" /\ exec[p].phase \in Awaiting)

\* The node's signal is aborted: its executor fails at the call it waits for,
\* which may have reached the site.
Abort(p) ==
    IF exec[p].phase \in {"applying", "observing", "compensating"}
    THEN /\ Sets(p, "giving_up")
         /\ \E done \in 0 .. 1 :
              applied' = [applied EXCEPT ![exec[p].key] =
                            IF exec[p].phase = "applying" THEN @ + done ELSE @]
    ELSE exec' = [exec EXCEPT ![p] = NoExec] /\ UNCHANGED applied

\* The state of the run after its controller, if there is one, was aborted.
Aborted(r) ==
    IF r.pc = "work" THEN [r EXCEPT !.pc = "failing", !.controller = "aborted"]
    ELSE [r EXCEPT !.controller = "aborted"]

Commands(p) == Waits(p) /\ controls < MaxControls /\ controls' = controls + 1

\* A command that a run which is over can still record.
Crosses(p) == raced' = raced \cup (IF run[p].pc = "ended" THEN {"command"} ELSE {})

\* While a node runs the pause waits for its end; without one it is complete.
Pause(p) ==
    /\ Commands(p) /\ Crosses(p)
    /\ Accepted(p, RunEvent("pause_requested"))
    /\ IF run[p].controller = "none" THEN Goes(p, "pausing") ELSE UNCHANGED run
    /\ UNCHANGED <<exec, ledger, applied, late, stops>>

CompletePause(p) ==
    run[p].pc = "pausing" /\ Emit(p, RunEvent("paused"), Ended(run[p]), Ended(run[p]))

ResumeMission(p) ==
    /\ Commands(p) /\ Crosses(p)
    /\ Accepted(p, RunEvent("resumed"))
    /\ run' = [run EXCEPT ![p] = IF @.pc # "held" THEN @
                                   ELSE IF @.hold = "pick"
                                     THEN [@ EXCEPT !.pc = "pick", !.hold = "none"]
                                     ELSE Again([@ EXCEPT !.hold = "none"])]
    /\ UNCHANGED <<exec, ledger, applied, late, stops>>

Steer(p) ==
    /\ Commands(p) /\ Crosses(p)
    /\ Accepted(p, RunEvent("steered"))
    /\ UNCHANGED <<run, exec, ledger, applied, late, stops>>

\* The flag is set first, whether or not the request can be recorded.  A live
\* node is aborted; otherwise the waiting run is released and cancelled here.
Cancel(p) ==
    /\ Commands(p)
    /\ \/ /\ Accepted(p, RunEvent("cancellation_requested"))
          /\ IF run[p].controller # "none"
             THEN Abort(p) /\ run' = [run EXCEPT ![p] = Aborted([@ EXCEPT !.cancel = TRUE])]
             ELSE /\ run' = [run EXCEPT ![p] = [@ EXCEPT !.pc = "cancel", !.cancel = TRUE]]
                  /\ UNCHANGED <<exec, applied>>
          /\ UNCHANGED raced
       \/ /\ Refused(p, RunEvent("cancellation_requested"))
          /\ run' = [run EXCEPT ![p].cancel = TRUE]
          /\ raced' = raced \cup {"command"}
          /\ UNCHANGED <<exec, applied>>
    /\ UNCHANGED <<ledger, late, stops>>

\* The node's budget, at most what is left of the mission's, expires.
NodeTimesOut(p) ==
    /\ Waits(p) /\ run[p].controller = "live"
    /\ Abort(p) /\ run' = [run EXCEPT ![p] = Aborted(@)]
    /\ UNCHANGED <<logVars, ledger, late, raced, stops, controls>>

LeaseLapses(n) ==
    /\ mission.node[n].leased /\ mission.status \notin Stopped
    /\ lapsed' = lapsed \cup {n}
    /\ UNCHANGED <<mission, view, run, exec, raced, worldVars>>

BecomesLate ==
    /\ ~late /\ late' = TRUE
    /\ UNCHANGED <<logVars, run, exec, ledger, applied, raced, stops, controls>>

\* close: abort the node or release the pause; the run ends without an event.
Close(p) ==
    /\ Waits(p) /\ ~run[p].closed /\ stops < MaxStops /\ stops' = stops + 1
    /\ run' = [run EXCEPT ![p] =
                 CASE @.pc = "ended" -> [@ EXCEPT !.closed = TRUE]
                   [] @.pc = "held" /\ @.hold = "pick" -> Ended([@ EXCEPT !.closed = TRUE])
                   [] @.pc = "held" /\ @.hold = "node" ->
                        [@ EXCEPT !.closed = TRUE, !.controller = "aborted", !.pc = "failing"]
                   [] @.pc = "work" -> Aborted([@ EXCEPT !.closed = TRUE])]
    /\ IF run[p].controller = "live" THEN Abort(p) ELSE UNCHANGED <<exec, applied>>
    /\ UNCHANGED <<logVars, ledger, late, raced, controls>>

\* A process that was shut down exits once its run is over, and may start again.
Exit(p) ==
    /\ run[p].pc = "ended" /\ run[p].closed
    /\ run' = [run EXCEPT ![p] = Asleep]
    /\ exec' = [exec EXCEPT ![p] = NoExec]
    /\ view' = [view EXCEPT ![p] = Pending]
    /\ UNCHANGED <<mission, lapsed, raced, worldVars>>

CrashGateway(p) ==
    /\ run[p].pc # "none" /\ stops < MaxStops /\ stops' = stops + 1
    /\ run' = [run EXCEPT ![p] = Asleep]
    /\ exec' = [exec EXCEPT ![p] = NoExec]
    /\ view' = [view EXCEPT ![p] = Pending]
    /\ \E done \in 0 .. 1 :
         applied' = IF exec[p].phase = "applying"
                    THEN [applied EXCEPT ![exec[p].key] = @ + done] ELSE applied
    /\ UNCHANGED <<mission, lapsed, ledger, late, raced, controls>>
--------------------------------------------------------------------------------
RunStep(p) ==
    \/ Snapshot(p) \/ Rehydrate(p) \/ Pick(p) \/ StartNode(p) \/ CompleteMission(p)
    \/ ClaimLease(p) \/ BeginIteration(p) \/ RecordIteration(p) \/ AskForInput(p)
    \/ CompleteNode(p) \/ FailNode(p) \/ FailMission(p) \/ RecordCompensation(p)
    \/ FinishCancellation(p) \/ CompletePause(p)

ExecutorStep(p) ==
    \/ Think(p) \/ ClaimEffect(p) \/ AnnounceEffect(p) \/ ApplyEffect(p) \/ ObserveEffect(p)
    \/ CompensateEffect(p) \/ RecordEffect(p) \/ GiveUp(p)

Control(p) == Pause(p) \/ ResumeMission(p) \/ Steer(p) \/ Cancel(p)

MissionNext ==
    \/ \E p \in Gateways :
         \/ Submit(p) \/ RunStep(p) \/ ExecutorStep(p) \/ StreamProgress(p) \/ Control(p)
         \/ NodeTimesOut(p) \/ Close(p) \/ Exit(p) \/ CrashGateway(p)
    \/ \E n \in Nodes : LeaseLapses(n)
    \/ BecomesLate

\* A process goes on with its run, and each call of an executor ends: the
\* transport and the provider both have a timeout.
MissionFairness ==
    \A p \in Gateways : WF_missionVars(RunStep(p) \/ ExecutorStep(p))

MissionSpec == MissionInit /\ [][MissionNext]_missionVars /\ MissionFairness
--------------------------------------------------------------------------------
\* No effect is applied twice at the site, whatever stops, aborts or recovers
\* the mission and whichever process runs it (governed_frappe_effects).
EffectAppliedOnce == \A k \in Keys : applied[k] <= 1

\* The log never hides an effect: one that may have been applied is committed
\* or in flight in it, a committed one was applied and verified, and a mission
\* that is paused, cancelled or completed has none that is not committed (a
\* mission_completed of a run whose recovery was raced does not look).
EffectsOnRecord ==
    /\ \A k \in Keys : applied[k] > 0 => k \in mission.committed \cup InFlight(mission)
    /\ \A k \in mission.committed : applied[k] > 0 /\ ledger[k].state = "committed"
    /\ \/ mission.status \in {"paused", "cancelled"}
       \/ mission.status = "completed" /\ "recovery" \notin raced
       => \A k \in Keys : applied[k] > 0 => k \in mission.committed

\* A node runs only when the entry or a completed node that selected it leads
\* to it, over restarts too, unless a recovery read the events at two moments.
OnlyChosenBranches ==
    "recovery" \in raced \/ \A n \in Nodes \ {1} :
      mission.node[n].state # "none" =>
        \E m \in Nodes : mission.node[m].state = "completed" /\ n \in mission.node[m].next

\* No mission is left behind: while it runs, is asked to pause or is paused,
\* some process is still running it, unless one stopped or a command reached a
\* run that could not act on it.  Each refused append ends a run, so this is what
\* the races of two processes could break.
NotAbandoned ==
    mission.status \in Steerable /\ stops = 0 /\ "command" \notin raced =>
      \E p \in Gateways : run[p].pc \notin {"none", "ended"}

\* A cancellation that was recorded takes effect: the mission is cancelled or
\* its effects are compensated for or handed to a person.
CancellationTakesEffect ==
    mission.status = "cancel_requested" ~> (mission.status \in Final \/ stops > 0)
=================================================================================
