----------------------------- MODULE ApprovalStore -----------------------------
(***************************************************************************)
(* The durable one-shot approval store (SqliteApprovalActionStore) and the *)
(* processes that use it: a button press consumes the action and claims    *)
(* its execution, a starting server claims what is pending in a batch, and *)
(* whoever executes marks the outcome.  Servers and the Telegram and Slack *)
(* loops share the database and crash independently; only a server runs    *)
(* recovery (server.ts:5311).                                              *)
(*                                                                         *)
(* A call is one execution of executeVerifiedApproval or one batch of      *)
(* recoverPendingApprovals: its name is the random executionOwner, so it   *)
(* is used once.  The fifteen-minute lease is never renewed; that it ran   *)
(* out is a step of its own.  What the flow does is left to FlowRuns: here *)
(* a decision is applied or refused.                                       *)
(***************************************************************************)
EXTENDS FiniteSets, Naturals

CONSTANTS
    Ids,         \* approval actions
    Presses,     \* executionOwners of presses
    Rounds,      \* executionOwners of recovery rounds
    Servers,     \* processes of startGatewayServer
    Loops,       \* processes of pollTelegram and the Slack socket
    Nobody,      \* execution_owner IS NULL, and no process
    NoId,        \* no action in hand
    MaxCrashes   \* bound: process crashes

VARIABLES
    action,      \* gateway_approval_actions, per id
    lapsed,   \* the ids whose execution_lease_until has passed
    stale,    \* the ids whose token expired (binding.expiresAt)
    call,     \* each call: its phase, its process and the ids left to execute
    gateway,  \* each process: down, recovering or listening
    crashes,
    applied,  \* history: the calls that carried out each id's decision
    lost      \* history: the ids whose lease ever ran out

approvalVars == <<action, lapsed, stale, call, gateway, crashes, applied, lost>>

Calls == Presses \cup Rounds
Gateways == Servers \cup Loops

ASSUME ApprovalAssumption ==
    /\ Nobody \notin Calls \cup Gateways
    /\ NoId \notin Ids
    /\ MaxCrashes \in Nat

Decisions == {"approve", "reject"}
Settled == {"completed", "failed"}
ApprovalRow == [state : {"absent", "available", "pending"} \cup Settled,
                decision : Decisions \cup {"none"},
                owner : Calls \cup {Nobody}]
Phases == {"unused", "verified", "executing", "applied", "refused", "done"}
Call == [phase : Phases, on : Gateways \cup {Nobody},
         id : Ids \cup {NoId}, batch : SUBSET Ids]

Absent == [state |-> "absent", decision |-> "none", owner |-> Nobody]
Unused == [phase |-> "unused", on |-> Nobody, id |-> NoId, batch |-> {}]
Verified(g, id) == [phase |-> "verified", on |-> g, id |-> id, batch |-> {}]

\* Call c has claimed id and not yet marked its outcome.
Executes(c, id) ==
    /\ call[c].phase \in {"executing", "applied", "refused"}
    /\ id = call[c].id \/ id \in call[c].batch

\* Call c goes on to another id of its batch, or is done.
Proceed(c) ==
    IF call[c].batch = {}
    THEN call' = [call EXCEPT ![c].phase = "done", ![c].id = NoId]
    ELSE \E next \in call[c].batch :
           call' = [call EXCEPT ![c].phase = "executing", ![c].id = next,
                                ![c].batch = @ \ {next}]

\* A server recovers before it listens; a loop does not.
Started(g) == IF g \in Servers THEN "recovering" ELSE "listening"

\* completed when resumeFlow returned, failed when something threw.
Outcome(c) == IF call[c].phase = "applied" THEN "completed" ELSE "failed"

\* Nobody executes the pending id, or whoever did has outlived the lease.
Claimable(id) ==
    /\ action[id].state = "pending"
    /\ action[id].owner = Nobody \/ id \in lapsed
--------------------------------------------------------------------------------
ApprovalInit ==
    /\ action = [id \in Ids |-> Absent]
    /\ lapsed = {} /\ stale = {}
    /\ call = [c \in Calls |-> Unused]
    /\ gateway = [g \in Gateways |-> Started(g)]
    /\ crashes = 0
    /\ applied = [id \in Ids |-> {}]
    /\ lost = {}

\* issue: the codec stores a fresh binding when the prompt is rendered.
Issue(id) ==
    /\ action[id] = Absent
    /\ \E g \in Gateways : gateway[g] = "listening"
    /\ action' = [action EXCEPT ![id].state = "available"]
    /\ UNCHANGED <<lapsed, stale, call, gateway, crashes, applied, lost>>

\* Mutant: consume does not look at consumed_at.
Press_Reconsumes(c, g, id, decision) ==
    /\ gateway[g] = "listening" /\ call[c] = Unused
    /\ action[id].state \notin {"absent"} /\ id \notin stale
    /\ action' = [action EXCEPT ![id] =
                 [state |-> "pending", decision |-> decision, owner |-> Nobody]]
    /\ call' = [call EXCEPT ![c] = Verified(g, id)]
    /\ lapsed' = lapsed \ {id}
    /\ UNCHANGED <<stale, gateway, crashes, applied, lost>>

\* parse and consume: the first press of an unexpired action decides it.  A
\* press that is refused (expired, wrong sender, or a replay, as a message that
\* durable ingress delivers again is) changes nothing.
Press(c, g, id, decision) ==
    /\ gateway[g] = "listening" /\ call[c] = Unused
    /\ action[id].state = "available" /\ id \notin stale
    /\ action' = [action EXCEPT ![id] =
                 [state |-> "pending", decision |-> decision, owner |-> Nobody]]
    /\ call' = [call EXCEPT ![c] = Verified(g, id)]
    /\ lapsed' = lapsed \ {id}
    /\ UNCHANGED <<stale, gateway, crashes, applied, lost>>

\* claimExecution: take the pending row, or answer that another worker has it.
ClaimExecution(c) ==
    /\ call[c].phase = "verified"
    /\ LET id == call[c].id
       IN  IF Claimable(id)
           THEN /\ action' = [action EXCEPT ![id].owner = c]
                /\ lapsed' = lapsed \ {id}
                /\ call' = [call EXCEPT ![c].phase = "executing"]
           ELSE Proceed(c) /\ UNCHANGED <<action, lapsed>>
    /\ UNCHANGED <<stale, gateway, crashes, applied, lost>>

\* Mutant: recovery claims every pending row.
ClaimPending_IgnoresLease(c, g) ==
    LET batch == {id \in Ids : action[id].state = "pending"}
    IN  /\ gateway[g] = "recovering" /\ call[c] = Unused
        /\ \A d \in Calls : call[d].on = g => call[d].phase = "done"
        /\ batch # {}
        /\ action' = [id \in Ids |-> IF id \in batch THEN [action[id] EXCEPT !.owner = c]
                                             ELSE action[id]]
        /\ lapsed' = lapsed \ batch
        /\ \E id \in batch :
             call' = [call EXCEPT ![c] = [phase |-> "executing", on |-> g,
                                          id |-> id, batch |-> batch \ {id}]]
        /\ UNCHANGED <<stale, gateway, crashes, applied, lost>>

\* Mutant: recovery takes what nobody executes, and forgets lapsed leases.
ClaimPending_SkipsLapsed(c, g) ==
    LET batch == {id \in Ids : action[id].state = "pending" /\ action[id].owner = Nobody}
    IN  /\ gateway[g] = "recovering" /\ call[c] = Unused
        /\ \A d \in Calls : call[d].on = g => call[d].phase = "done"
        /\ batch # {}
        /\ action' = [id \in Ids |-> IF id \in batch THEN [action[id] EXCEPT !.owner = c]
                                             ELSE action[id]]
        /\ lapsed' = lapsed \ batch
        /\ \E id \in batch :
             call' = [call EXCEPT ![c] = [phase |-> "executing", on |-> g,
                                          id |-> id, batch |-> batch \ {id}]]
        /\ UNCHANGED <<stale, gateway, crashes, applied, lost>>

\* claimPending: one round of a starting server takes all it may.
ClaimPending(c, g) ==
    LET batch == {id \in Ids : Claimable(id)}
    IN  /\ gateway[g] = "recovering" /\ call[c] = Unused
        /\ \A d \in Calls : call[d].on = g => call[d].phase = "done"
        /\ batch # {}
        /\ action' = [id \in Ids |-> IF id \in batch THEN [action[id] EXCEPT !.owner = c]
                                             ELSE action[id]]
        /\ lapsed' = lapsed \ batch
        /\ \E id \in batch :
             call' = [call EXCEPT ![c] = [phase |-> "executing", on |-> g,
                                          id |-> id, batch |-> batch \ {id}]]
        /\ UNCHANGED <<stale, gateway, crashes, applied, lost>>

\* An empty round ends recovery, and the server starts to listen.
Listen(g) ==
    /\ gateway[g] = "recovering"
    /\ \A d \in Calls : call[d].on = g => call[d].phase = "done"
    /\ \A id \in Ids : ~Claimable(id)
    /\ gateway' = [gateway EXCEPT ![g] = "listening"]
    /\ UNCHANGED <<action, lapsed, stale, call, crashes, applied, lost>>

\* resumeFlow carried the decision out; it may still throw afterwards.
Apply(c) ==
    /\ call[c].phase = "executing"
    /\ applied' = [applied EXCEPT ![call[c].id] = @ \cup {c}]
    /\ \E phase \in {"applied", "refused"} : call' = [call EXCEPT ![c].phase = phase]
    /\ UNCHANGED <<action, lapsed, stale, gateway, crashes, lost>>

\* The sender is no longer paired, the gate not current, its content changed.
Refuse(c) ==
    /\ call[c].phase = "executing"
    /\ call' = [call EXCEPT ![c].phase = "refused"]
    /\ UNCHANGED <<action, lapsed, stale, gateway, crashes, applied, lost>>

\* Mutant: the outcome is written without comparing the owner.
MarkExecution_IgnoresOwner(c) ==
    /\ call[c].phase \in {"applied", "refused"}
    /\ LET id == call[c].id
       IN  action' = IF action[id].state = "pending"
                  THEN [action EXCEPT ![id].state = Outcome(c)]
                  ELSE action
    /\ Proceed(c)
    /\ UNCHANGED <<lapsed, stale, gateway, crashes, applied, lost>>

\* markExecution: only the row's current owner settles it.
MarkExecution(c) ==
    /\ call[c].phase \in {"applied", "refused"}
    /\ LET id == call[c].id
       IN  action' = IF action[id].state = "pending" /\ action[id].owner = c
                  THEN [action EXCEPT ![id].state = Outcome(c)]
                  ELSE action
    /\ Proceed(c)
    /\ UNCHANGED <<lapsed, stale, gateway, crashes, applied, lost>>

\* execution_lease_until passes; nothing renews the lease.
LeaseEnds(id) ==
    /\ action[id].state = "pending" /\ action[id].owner # Nobody /\ id \notin lapsed
    /\ lapsed' = lapsed \cup {id}
    /\ lost' = lost \cup {id}
    /\ UNCHANGED <<action, stale, call, gateway, crashes, applied>>

\* The token's expiresAt passes before anybody pressed.
TokenExpires(id) ==
    /\ action[id].state = "available" /\ id \notin stale
    /\ stale' = stale \cup {id}
    /\ UNCHANGED <<action, lapsed, call, gateway, crashes, applied, lost>>

ProcessDies(g) ==
    /\ gateway[g] # "down" /\ crashes < MaxCrashes
    /\ crashes' = crashes + 1
    /\ gateway' = [gateway EXCEPT ![g] = "down"]
    /\ call' = [c \in Calls |->
          IF call[c].on = g
          THEN [call[c] EXCEPT !.phase = "done", !.id = NoId, !.batch = {}] ELSE call[c]]
    /\ UNCHANGED <<action, lapsed, stale, applied, lost>>

Restart(g) ==
    /\ gateway[g] = "down"
    /\ gateway' = [gateway EXCEPT ![g] = Started(g)]
    /\ UNCHANGED <<action, lapsed, stale, call, crashes, applied, lost>>

ApprovalNext ==
    \/ \E id \in Ids : Issue(id) \/ LeaseEnds(id) \/ TokenExpires(id)
    \/ \E c \in Presses, g \in Gateways, id \in Ids, d \in Decisions : Press(c, g, id, d)
    \/ \E c \in Presses : ClaimExecution(c)
    \/ \E c \in Rounds, g \in Servers : ClaimPending(c, g)
    \/ \E c \in Calls : Apply(c) \/ Refuse(c) \/ MarkExecution(c)
    \/ \E g \in Gateways : Listen(g) \/ ProcessDies(g) \/ Restart(g)

ApprovalSpec == ApprovalInit /\ [][ApprovalNext]_approvalVars

CallGoesOn(c) == ClaimExecution(c) \/ Apply(c) \/ Refuse(c) \/ MarkExecution(c)
GatewayGoesOn(g) == (\E c \in Rounds : ClaimPending(c, g)) \/ Listen(g) \/ Restart(g)

\* A call and a starting server do one thing after another and go on with it, the
\* lease clock advances, and a crashed gateway is started again; nobody has to
\* press a button.
ApprovalFairness ==
    /\ \A c \in Calls : WF_approvalVars(CallGoesOn(c))
    /\ \A id \in Ids : WF_approvalVars(LeaseEnds(id))
    /\ \A g \in Gateways : WF_approvalVars(GatewayGoesOn(g))

ApprovalFairSpec == ApprovalSpec /\ ApprovalFairness
--------------------------------------------------------------------------------
ApprovalTypeOK ==
    /\ action \in [Ids -> ApprovalRow]
    /\ lapsed \subseteq Ids /\ stale \subseteq Ids
    /\ call \in [Calls -> Call]
    /\ gateway \in [Gateways -> {"down", "recovering", "listening"}]
    /\ crashes \in 0 .. MaxCrashes
    /\ applied \in [Ids -> SUBSET Calls]
    /\ lost \subseteq Ids

\* One-shot (approval-store.ts:31): while the lease has never run out, at most
\* one call is between its claim and its mark for an action, or has carried the
\* action out, across presses, recovery rounds, restarts and processes.
AppliedOnce ==
    \A id \in Ids \ lost, c, d \in Calls :
        /\ c \in applied[id] \/ Executes(c, id)
        /\ d \in applied[id] \/ Executes(d, id)
        => c = d

\* A call that outlived its lease cannot settle the row of the call that took
\* over: the row leaves pending only for what its current owner observed.
OwnerSettles ==
    [][\A id \in Ids :
         action[id].state = "pending" /\ action'[id].state # "pending" =>
            /\ action[id].owner \in Calls
            /\ call[action[id].owner].id = id
            /\ action'[id].state = Outcome(action[id].owner)]_approvalVars

\* The first press stands: neither a later press nor recovery
\* turns an approval into a rejection, or opens a settled action again.
DecisionStands ==
    [][\A id \in Ids :
         /\ action[id].decision # "none" => action'[id].decision = action[id].decision
         /\ action[id].state \in Settled => action'[id] = action[id]]_approvalVars

\* Another process holds the action under a lease that runs, as nobody does
\* while the action is claimable.
LeasedElsewhere(id, g) ==
    action[id].owner \in Calls /\ call[action[id].owner].on # g /\ id \notin lapsed

\* The bound of a run stops g: it has worked off its rounds, something is left to
\* claim, and there is no round left to claim it with.
OutOfRounds(g) ==
    /\ \E id \in Ids : Claimable(id)
    /\ \A c \in Rounds : call[c] # Unused
    /\ \A c \in Calls : call[c].on = g => call[c].phase = "done"

\* A starting server settles whatever it may claim, above all what a dead process
\* left behind, unless it stops itself or another process takes a new lease on
\* it, which counts only as long as it lasts (recoverPendingApprovals).
RecoverySettles ==
    \A id \in Ids, g \in Servers :
        (gateway[g] = "recovering" /\ Claimable(id))
            ~> \/ action[id].state \in Settled \/ gateway[g] = "down"
               \/ LeasedElsewhere(id, g) \/ OutOfRounds(g)

\* The outbox is recoverable (approval-store.ts:31): a pressed action is settled
\* in the end, whatever crashes.
PressIsSettled ==
    \A id \in Ids : (action[id].state = "pending") ~> (action[id].state \in Settled)
================================================================================
