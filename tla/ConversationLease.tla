------------------------------ MODULE ConversationLease ------------------------------
(***************************************************************************)
(* One conversation's turns: runConversationExclusive (server.ts) chains   *)
(* the turns of one gateway process in arrival order, and the head of each *)
(* chain takes DurableConversationLease (conversation-lease.ts), a row of  *)
(* the idempotency store that all processes share.  Conversations have     *)
(* separate chains and separate rows, so one of them is modelled.          *)
(*                                                                         *)
(* Time: the lease is renewed every quarter of its length, so it lapses    *)
(* only if its holder crashed, stopped renewing after an error, or was     *)
(* stalled for a whole lease.                                              *)
(***************************************************************************)
EXTENDS GatewayFaults, Sequences, FiniteSets, SequencesExt

CONSTANTS
    Turns,   \* the turns of the conversation
    NoTurn   \* the store holds no lease row

VARIABLES
    chain,    \* CONVERSATION_RUN_QUEUES: per gateway, the turns in arrival order
    turn,     \* how far each turn is
    lease,    \* the turn whose claimToken is in the row
    lapsed,   \* the row's expires_at_ms has passed
    beatErr   \* turns whose heartbeatError is set

turnVars == <<chain, turn, lease, lapsed, beatErr>>
leaseVars == <<faultVars, turnVars>>

ASSUME LeaseAssumption == NoTurn \notin Turns

\* "outside" no call yet, "queued" in the chain, "running" task() executes,
\* "keeping"/"rejecting" the outcome is fixed and the row is being released.
TurnState == {"outside", "queued", "running", "keeping", "rejecting", "kept", "rejected", "lost"}

Queued(t) == turn[t] = "queued"
RunningTurns == {t \in Turns : turn[t] = "running"}
On(t, g) == t \in ToSet(chain[g])
\* `await previous` has resolved.
AtHead(t, g) == chain[g] # <<>> /\ Head(chain[g]) = t
--------------------------------------------------------------------------------
LeaseInit ==
    /\ FaultInit
    /\ chain = [g \in Gateways |-> <<>>]
    /\ turn = [t \in Turns |-> "outside"]
    /\ lease = NoTurn
    /\ lapsed = FALSE
    /\ beatErr = {}

\* runConversationExclusive up to `await previous`.
EnterQueue(t, g) ==
    /\ g \in up
    /\ turn[t] = "outside"
    /\ turn' = [turn EXCEPT ![t] = "queued"]
    /\ chain' = [chain EXCEPT ![g] = Append(@, t)]
    /\ UNCHANGED <<up, lease, lapsed, beatErr, faults>>

\* Mutant: the claim does not see the live row of another process.
ClaimTurn_Blind(t, g) ==
    /\ AtHead(t, g) /\ Queued(t)
    /\ lease' = t
    /\ lapsed' = FALSE
    /\ turn' = [turn EXCEPT ![t] = "running"]
    /\ UNCHANGED <<up, chain, beatErr, faults>>

\* Mutant: a row that expired is not taken over.
ClaimTurn_OnlyFree(t, g) ==
    /\ AtHead(t, g) /\ Queued(t)
    /\ lease = NoTurn
    /\ lease' = t
    /\ turn' = [turn EXCEPT ![t] = "running"]
    /\ UNCHANGED <<up, chain, lapsed, beatErr, faults>>

\* The claim that succeeds: no row, or a row that expired.  A refused claim
\* changes nothing and is retried after retryMs.
ClaimTurn(t, g) ==
    /\ AtHead(t, g) /\ Queued(t)
    /\ lease = NoTurn \/ lapsed
    /\ lease' = t
    /\ lapsed' = FALSE
    /\ turn' = [turn EXCEPT ![t] = "running"]
    /\ UNCHANGED <<up, chain, beatErr, faults>>

\* claimIdempotency throws: run() rejects before its try block, so there is
\* nothing to release.
ClaimFails(t, g) ==
    /\ AtHead(t, g) /\ Queued(t)
    /\ Fault("hiccup")
    /\ turn' = [turn EXCEPT ![t] = "rejected"]
    /\ chain' = [chain EXCEPT ![g] = Tail(@)]
    /\ UNCHANGED <<up, lease, lapsed, beatErr>>

\* The heartbeat finds that the row is gone, expired or of another generation.
\* (A renewal that succeeds keeps the row from lapsing and changes nothing else;
\* one that finds the row expired deletes it.)
BeatRefused(t) ==
    /\ turn[t] = "running" /\ t \notin beatErr
    /\ lease # t \/ lapsed
    /\ beatErr' = beatErr \cup {t}
    /\ lease' = IF lapsed THEN NoTurn ELSE lease
    /\ lapsed' = FALSE
    /\ UNCHANGED <<up, chain, turn, faults>>

\* The heartbeat throws although the lease is good: no later beat is sent.
BeatThrows(t) ==
    /\ turn[t] = "running" /\ t \notin beatErr
    /\ Fault("hiccup")
    /\ beatErr' = beatErr \cup {t}
    /\ UNCHANGED <<up, chain, turn, lease, lapsed>>

Leaving(t) == turn[t] \in {"keeping", "rejecting"}

\* While its turn is under way and no beat failed, the row is renewed in time.
Beating(t) == (turn[t] = "running" \/ Leaving(t)) /\ t \notin beatErr

\* A whole lease passes and nobody renews any more...
LeaseLapses ==
    /\ lease # NoTurn /\ ~lapsed /\ ~Beating(lease)
    /\ lapsed' = TRUE
    /\ UNCHANGED <<up, chain, turn, lease, beatErr, faults>>

\* ...or the process of the turn is stalled for that long.
LeaseStalls ==
    /\ lease # NoTurn /\ ~lapsed /\ Beating(lease)
    /\ Fault("stall")
    /\ lapsed' = TRUE
    /\ UNCHANGED <<up, chain, turn, lease, beatErr>>

\* Mutant: a result is returned although a renewal failed.
TaskReturns_Trusting(t, ok) ==
    /\ turn[t] = "running"
    /\ turn' = [turn EXCEPT ![t] = IF ok THEN "keeping" ELSE "rejecting"]
    /\ UNCHANGED <<up, chain, lease, lapsed, beatErr, faults>>

\* task() resolves or throws (ok); heartbeatError turns a result into an error.
TaskReturns(t, ok) ==
    /\ turn[t] = "running"
    /\ turn' = [turn EXCEPT ![t] = IF ok /\ t \notin beatErr THEN "keeping" ELSE "rejecting"]
    /\ UNCHANGED <<up, chain, lease, lapsed, beatErr, faults>>

\* The outcome is returned and the next turn of the chain may pass.
LeaveQueue(t, g) ==
    /\ turn' = [turn EXCEPT ![t] = IF @ = "keeping" THEN "kept" ELSE "rejected"]
    /\ chain' = [chain EXCEPT ![g] = Tail(@)]

\* releaseIdempotency deletes the live row of this claim only; then release()
\* lets the next turn of the chain pass.
ReleaseTurn(t, g) ==
    /\ AtHead(t, g) /\ Leaving(t)
    /\ lease' = IF lease = t /\ ~lapsed THEN NoTurn ELSE lease
    /\ LeaveQueue(t, g)
    /\ UNCHANGED <<up, lapsed, beatErr, faults>>

\* The release throws; `.catch(() => false)` swallows it and the row stays.
ReleaseFails(t, g) ==
    /\ AtHead(t, g) /\ Leaving(t)
    /\ Fault("hiccup")
    /\ LeaveQueue(t, g)
    /\ UNCHANGED <<up, lease, lapsed, beatErr>>

\* A crash forgets the chain; nothing restarts the turns of a dead process.
CrashTurns(g) ==
    /\ Stop(g)
    /\ turn' = [t \in Turns |-> IF On(t, g) THEN "lost" ELSE turn[t]]
    /\ chain' = [chain EXCEPT ![g] = <<>>]
    /\ UNCHANGED <<lease, lapsed, beatErr>>

TurnStep(t) ==
    \/ BeatRefused(t) \/ BeatThrows(t)
    \/ \E ok \in BOOLEAN : TaskReturns(t, ok)
    \/ \E g \in Gateways :
         \/ EnterQueue(t, g) \/ ClaimTurn(t, g) \/ ClaimFails(t, g)
         \/ ReleaseTurn(t, g) \/ ReleaseFails(t, g)

LeaseNext ==
    \/ \E t \in Turns : TurnStep(t)
    \/ LeaseLapses \/ LeaseStalls
    \/ \E g \in Gateways : CrashTurns(g) \/ (Start(g) /\ UNCHANGED turnVars)

\* A process that runs goes on with its turns; time passes over an abandoned row.
LeaseFairness ==
    /\ \A t \in Turns, g \in Gateways :
         WF_leaseVars(ClaimTurn(t, g)) /\ WF_leaseVars(ReleaseTurn(t, g))
    /\ \A t \in Turns : WF_leaseVars(TaskReturns(t, TRUE) \/ TaskReturns(t, FALSE))
    /\ WF_leaseVars(LeaseLapses)

LeaseSpec == LeaseInit /\ [][LeaseNext]_leaseVars /\ LeaseFairness
--------------------------------------------------------------------------------
LeaseTypeOK ==
    /\ FaultTypeOK
    /\ chain \in [Gateways -> Seq(Turns)]
    /\ turn \in [Turns -> TurnState]
    /\ lease \in Turns \cup {NoTurn}
    /\ lapsed \in BOOLEAN
    /\ beatErr \subseteq Turns

\* Two turns of a conversation run at once only if one of them already knows
\* that its lease is in doubt, or a process was stalled for a whole lease: every
\* stall admits one turn more.  This is what the retry loop, the heartbeat and
\* the claim token together are for.
TurnsExclude == Cardinality(RunningTurns \ beatErr) <= 1 + faults.stall

\* Without such a stall a turn hands its result back only while the row is
\* still its own: a renewal that failed turns the result into an error, and no
\* other turn's release can take the row away.
KeptUnderLease ==
    [][\A t \in Turns : turn[t] = "running" /\ turn'[t] = "keeping" /\ faults.stall = 0
                          => lease = t /\ ~lapsed]_leaseVars

\* A turn that waits for its conversation gets it, unless its process dies: the
\* row of a dead holder, or of one whose release failed, lapses.
TurnSettles ==
    \A t \in Turns : turn[t] = "queued" ~> turn[t] \in {"kept", "rejected", "lost"}
================================================================================
