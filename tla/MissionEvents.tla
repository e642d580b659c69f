----------------------------- MODULE MissionEvents -----------------------------
(***************************************************************************)
(* The run events of a mission and the pure reducer that folds them        *)
(* (reduceRunEvent, packages/core/src/run-events.ts).  A mission is the    *)
(* fold of its events, together with what the mission bridge reads back    *)
(* from their payloads: the branches a completed node selected and the     *)
(* iterations a loop node has on record.                                   *)
(*                                                                         *)
(* A node is known by its position in the topological order the bridge     *)
(* walks (graphHierarchy), the entry node being the first.                 *)
(***************************************************************************)
EXTENDS Naturals, Sequences

CONSTANTS
    Graph,   \* the nodes: kind, children, key, iterations
    Keys,    \* idempotency keys of the effects in the execution manifest
    NoKey    \* a node without an effect, an event without a key

Nodes == 1 .. Len(Graph)
NoNode == 0
NodeKinds == {"task", "loop", "effect"}

ASSUME GraphAssumption ==
    /\ Graph # <<>> /\ NoKey \notin Keys
    /\ Graph \in Seq([kind : NodeKinds, children : SUBSET Nat,
                      key : Keys \cup {NoKey}, iterations : Nat \ {0}])
    /\ \A n \in Nodes : /\ Graph[n].children \subseteq n + 1 .. Len(Graph)
                        /\ (Graph[n].kind = "effect") <=> (Graph[n].key # NoKey)
                        /\ Graph[n].kind # "loop" => Graph[n].iterations = 1

\* What the reducer takes no further event in.
Final == {"cancelled", "compensated", "needs_intervention", "completed"}
Steerable == {"running", "pause_requested", "paused"}
Unfinished == Steerable \cup {"cancel_requested", "cancelling", "compensation_running", "failed"}

Untouched == [state |-> "none", attempt |-> 0, token |-> 0, leased |-> FALSE,
              inFlight |-> {}, next |-> {}, iteration |-> 0]

RunEvent(type) == [type |-> type, node |-> NoNode, attempt |-> 0, token |-> 0,
                   key |-> NoKey, next |-> {}, iteration |-> 0]

Pending == [status |-> "pending", sequence |-> 1, node |-> [n \in Nodes |-> Untouched],
            committed |-> {}, last |-> RunEvent("none")]
--------------------------------------------------------------------------------
\* The statuses each event is accepted in.
AcceptedIn ==
    [mission_started |-> {"pending"},
     node_started |-> {"running"}, lease_claimed |-> {"running"},
     effect_started |-> {"running"}, node_progress |-> {"running"},
     effect_committed |-> Unfinished, node_completed |-> Unfinished, node_failed |-> Unfinished,
     pause_requested |-> {"running"}, paused |-> {"pause_requested"}, resumed |-> {"paused"},
     steered |-> Steerable, cancellation_requested |-> Steerable,
     cancelling |-> {"cancel_requested"}, cancelled |-> {"cancelling"},
     compensation_started |-> {"cancelling", "failed"},
     compensation_completed |-> {"compensation_running"},
     compensation_failed |-> {"compensation_running"},
     mission_failed |-> Steerable \cup {"cancelling"},
     mission_completed |-> {"running"}]

\* The status an event leads to; the others leave it as it is.
LeadsTo ==
    [mission_started |-> "running", pause_requested |-> "pause_requested",
     paused |-> "paused", resumed |-> "running",
     cancellation_requested |-> "cancel_requested", cancelling |-> "cancelling",
     cancelled |-> "cancelled", compensation_started |-> "compensation_running",
     compensation_completed |-> "compensated", compensation_failed |-> "needs_intervention",
     mission_failed |-> "failed", mission_completed |-> "completed"]

FencedTypes ==
    {"effect_started", "effect_committed", "node_progress", "node_completed", "node_failed"}

InFlight(m) == UNION {m.node[n].inFlight : n \in Nodes}

\* The writer holds the node's unexpired lease; over: the nodes whose lease ran out.
OwnsNode(m, e, over) ==
    LET nd == m.node[e.node]
    IN  /\ nd.state # "none" /\ nd.leased /\ e.node \notin over
        /\ e.token = nd.token /\ e.attempt = nd.attempt

\* Mutant: a node may be started again with an effect in flight.
NodeAdmits_ForgetsEffects(m, e) ==
    LET nd == m.node[e.node]
    IN  /\ e.type = "node_started" => nd.state # "completed"
        /\ e.type = "lease_claimed" => nd.state = "running" /\ e.token > nd.token
        /\ e.type = "node_progress" => nd.state = "running"
        /\ e.type = "node_completed" => nd.inFlight = {}

\* The node is in a state the event applies to.
NodeAdmits(m, e) ==
    LET nd == m.node[e.node]
    IN  /\ e.type = "node_started" => nd.state # "completed" /\ nd.inFlight = {}
        /\ e.type = "lease_claimed" => nd.state = "running" /\ e.token > nd.token
        /\ e.type = "node_progress" => nd.state = "running"
        /\ e.type = "node_completed" => nd.inFlight = {}

\* reduceRunEvent does not throw on the event.
Reducible(m, e, over) ==
    /\ m.status \in AcceptedIn[e.type]
    /\ e.node # NoNode => NodeAdmits(m, e)
    /\ e.type \in FencedTypes => OwnsNode(m, e, over)
    /\ e.type \in {"paused", "cancelled"} => InFlight(m) = {}
    /\ e.type = "mission_completed" => \A n \in Nodes : m.node[n].state # "running"

NodeAfter(m, e) ==
    LET nd == m.node[e.node]
    IN  CASE e.type = "node_started" ->
               [nd EXCEPT !.state = "running", !.attempt = e.attempt, !.leased = FALSE,
                          !.inFlight = {}]
          [] e.type = "lease_claimed" ->
               [nd EXCEPT !.attempt = e.attempt, !.token = e.token, !.leased = TRUE]
          [] e.type = "effect_started" ->
               [nd EXCEPT !.inFlight = @ \cup ({e.key} \ m.committed)]
          [] e.type = "effect_committed" -> [nd EXCEPT !.inFlight = @ \ {e.key}]
          [] e.type = "node_progress" ->
               [nd EXCEPT !.iteration = IF e.iteration > 0 THEN e.iteration ELSE @]
          [] e.type = "node_completed" -> [nd EXCEPT !.state = "completed", !.next = e.next]
          [] e.type = "node_failed" -> [nd EXCEPT !.state = "failed"]

\* The mission after an event the reducer accepts.
Reduced(m, e) ==
    [status |-> IF e.type \in DOMAIN LeadsTo THEN LeadsTo[e.type] ELSE m.status,
     sequence |-> m.sequence + 1,
     node |-> IF e.node = NoNode THEN m.node ELSE [m.node EXCEPT ![e.node] = NodeAfter(m, e)],
     committed |-> IF e.type = "effect_committed" THEN m.committed \cup {e.key} ELSE m.committed,
     last |-> e]
================================================================================
