-------------------------------- MODULE AsyncMessages --------------------------------
(***************************************************************************)
(* Asynchronous message runs: POST /v1/messages?async and its delegated    *)
(* Frappe form claim a durable run, answer 202, execute the turn in the    *)
(* background and let the client poll.  The rows live in                   *)
(* SqliteAsyncMessageRunStore (async-message-store.ts), every operation of *)
(* which is one transaction; the worker is AsyncMessageRunRegistry.start   *)
(* (server.ts).  What the run executes is left open here: a turn of its    *)
(* conversation (ConversationLease), or an isolated run in a directory of  *)
(* its own for the artifacts it makes.                                     *)
(*                                                                         *)
(* Time: `due` says that a row's instant has passed: the lease of a queued *)
(* or running row, the retention of a terminal one.  Deltas are numbered.  *)
(***************************************************************************)
EXTENDS GatewayFaults, Sequences, FiniteSets

CONSTANTS
    Hosts,      \* the gateways that accept asynchronous requests and collect artifacts
    Requests,   \* the requests; a run is named after the request that claims it
    Keys,       \* idempotency scopes: surface, sender and Idempotency-Key
    NoKey,      \* a request without a key (idempotency_scope NULL)
    NoCall,     \* the request claimed no run
    NoRow,      \* the run has no row: not claimed yet, or removed
    Asked,      \* what requests may ask for
    Limits,     \* what the limit may be configured to
    MaxDeltas   \* bound: pieces of text the provider streams in a run

VARIABLES
    limit,    \* how many rows the store keeps (an option of its constructor)
    row,      \* gateway_message_runs
    older,    \* the pairs of terminal rows of which the first has the smaller updated_at_ms
    call,     \* the request behind a run and the gateway whose worker owns it
    worker,   \* how far the worker is
    runErr,   \* workers whose leaseError is set
    emitted,  \* how many deltas the provider produced
    tried,    \* how many of them the persistence chain has tried to append
    dir,      \* the artifact directory of an isolated run
    gc        \* per gateway, the runs a collection in progress found retained

runVars == <<row, older, call, worker, runErr, emitted, tried, dir, gc>>
messageVars == <<faultVars, runVars>>

Row == [status : {"queued", "running", "completed", "failed"}, due : BOOLEAN,
        preview : Seq(1 .. MaxDeltas)]

Call == [on : Hosts, key : Keys \cup {NoKey}, isolated : BOOLEAN]

ASSUME MessageAssumption ==
    /\ Hosts \subseteq Gateways /\ Asked \subseteq Call /\ Limits \subseteq Nat \ {0}
    /\ NoCall \notin Call /\ NoRow \notin Row /\ NoKey \notin Keys /\ MaxDeltas \in Nat

Terminal(entry) == entry # NoRow /\ entry.status \in {"completed", "failed"}
Active(entry) == entry # NoRow /\ ~Terminal(entry)
Present(rows) == {r \in Requests : rows[r] # NoRow}
Working(r) == worker[r] \in {"claimed", "executing", "draining", "failing"}
Upto(m, n) == [i \in 1 .. n - m |-> m + i]

\* Mutant: a lease that ran out puts the run back into the queue.
Reap_Requeues(entry) ==
    IF entry = NoRow \/ ~entry.due THEN entry
    ELSE IF Terminal(entry) THEN NoRow
    ELSE [entry EXCEPT !.status = "queued", !.due = FALSE]

\* #reap on one row: an expired active run fails, an old terminal one goes.
Reap(entry) ==
    IF entry = NoRow \/ ~entry.due THEN entry
    ELSE IF Terminal(entry) THEN NoRow
    ELSE [entry EXCEPT !.status = "failed", !.due = FALSE]

Reaped == [r \in Requests |-> Reap(row[r])]

Done(rows) == {r \in Requests : Terminal(rows[r])}

\* The order of the terminal rows when the table becomes rows: those that became
\* terminal in this transaction are the newest, all at one instant.
Order(rows) ==
    {pair \in Done(rows) \X Done(rows) :
       pair \in older \/ (Terminal(row[pair[1]]) /\ ~Terminal(row[pair[2]]))}

SetRows(rows) == row' = rows /\ older' = Order(rows)

\* Mutant: an owner's UPDATE does not look at the status.
Owned_AnyStatus(r, statuses) == row[r] # NoRow

\* An owner's UPDATE finds its row.  owner_token is cleared when the run becomes
\* terminal, and only the claim that inserted the row was given it.
Owned(r, statuses) == row[r] # NoRow /\ row[r].status \in statuses

--------------------------------------------------------------------------------
MessageInit ==
    /\ FaultInit
    /\ limit \in Limits
    /\ row = [r \in Requests |-> NoRow]
    /\ older = {}
    /\ call = [r \in Requests |-> NoCall]
    /\ worker = [r \in Requests |-> "none"]
    /\ runErr = {}
    /\ emitted = [r \in Requests |-> 0]
    /\ tried = [r \in Requests |-> 0]
    /\ dir = [r \in Requests |-> "none"]
    /\ gc = [g \in Hosts |-> <<>>]

\* Mutant: only a finished run answers for its key.
Twins_Finished(key, rows) ==
    {p \in Present(rows) : key # NoKey /\ call[p].key = key /\ Terminal(rows[p])}

\* The row that already answers for an idempotency key.
Twins(key, rows) == {p \in Present(rows) : key # NoKey /\ call[p].key = key}

\* claim() finds the key: the client is answered from that row, or told of a
\* conflict if message or authority scope differ.  Only the reaping changes rows.
ClaimReplays(r, key) ==
    /\ up # {} /\ worker[r] = "none"
    /\ Twins(key, Reaped) # {}
    /\ worker' = [worker EXCEPT ![r] = "answered"]
    /\ SetRows(Reaped)
    /\ UNCHANGED <<faultVars, call, runErr, emitted, tried, dir, gc>>

\* #enforceLimit: a terminal row updated longest ago makes room.
MakeRoom(rows) ==
    LET oldest == {r \in Done(rows) : \A p \in Done(rows) : <<p, r>> \notin Order(rows)}
    IN  IF Cardinality(Present(rows)) < limit THEN {rows}
        ELSE {[rows EXCEPT ![r] = NoRow] : r \in oldest}

\* claim() inserts the run.  Without room the transaction rolls back and the
\* request is refused, which changes nothing.
ClaimInserts(r, c) ==
    /\ c.on \in up /\ worker[r] = "none"
    /\ Twins(c.key, Reaped) = {}
    /\ \E rows \in MakeRoom(Reaped) :
         /\ Cardinality(Present(rows)) < limit
         /\ SetRows([rows EXCEPT ![r] = [status |-> "queued", due |-> FALSE, preview |-> <<>>]])
    /\ worker' = [worker EXCEPT ![r] = "claimed"]
    /\ call' = [call EXCEPT ![r] = c]
    /\ UNCHANGED <<faultVars, runErr, emitted, tried, dir, gc>>

\* markRunning, then execute; an isolated run makes its directory.  A claim
\* whose row expired meanwhile ends without executing.
MarkRunning(r) ==
    /\ worker[r] = "claimed"
    /\ LET ok == Active(Reaped[r])
       IN  /\ SetRows(IF ok THEN [Reaped EXCEPT ![r].status = "running"] ELSE Reaped)
           /\ worker' = [worker EXCEPT ![r] = IF ok THEN "executing" ELSE "over"]
           /\ dir' = IF ok /\ call[r].isolated THEN [dir EXCEPT ![r] = "young"] ELSE dir
    /\ UNCHANGED <<faultVars, call, runErr, emitted, tried, gc>>

\* The transaction throws (busy database): the worker's promise rejects and
\* nothing more happens to the run.
MarkRunningFails(r) ==
    /\ worker[r] = "claimed"
    /\ Fault("hiccup")
    /\ worker' = [worker EXCEPT ![r] = "over"]
    /\ UNCHANGED <<up, row, older, call, runErr, emitted, tried, dir, gc>>

\* A worker that ended leaves nothing of its variables behind.
Forget(gone) ==
    /\ runErr' = runErr \ gone
    /\ emitted' = [r \in Requests |-> IF r \in gone THEN 0 ELSE emitted[r]]
    /\ tried' = [r \in Requests |-> IF r \in gone THEN 0 ELSE tried[r]]

\* onDelta: the text waits in pendingPreview for the next flush.
Emit(r) ==
    /\ worker[r] = "executing"
    /\ emitted[r] < MaxDeltas
    /\ emitted' = [emitted EXCEPT ![r] = @ + 1]
    /\ UNCHANGED <<faultVars, row, older, call, worker, runErr, tried, dir, gc>>

\* A flushed batch is appended when the chain reaches it (the flush timer decides
\* where batches end).  If the row is no longer the worker's, or the store
\* throws, the worker remembers that and the chain goes on without the batch.
AppendPreview(r, n) ==
    /\ Working(r) /\ n \in tried[r] + 1 .. emitted[r]
    /\ tried' = [tried EXCEPT ![r] = n]
    /\ IF Owned(r, {"running"})
         THEN \/ /\ row' = [row EXCEPT ![r].preview = @ \o Upto(tried[r], n)]
                 /\ UNCHANGED <<faults, runErr>>
              \/ Fault("hiccup") /\ runErr' = runErr \cup {r} /\ UNCHANGED row
         ELSE runErr' = runErr \cup {r} /\ UNCHANGED <<row, faults>>
    /\ UNCHANGED <<up, older, call, worker, emitted, dir, gc>>

\* execute() resolves or rejects; what is left of the preview is flushed and the
\* worker awaits the chain before it settles the row.
ExecuteReturns(r, ok) ==
    /\ worker[r] = "executing"
    /\ worker' = [worker EXCEPT ![r] = IF ok THEN "draining" ELSE "failing"]
    /\ UNCHANGED <<faultVars, row, older, call, runErr, emitted, tried, dir, gc>>

Drained(r) == tried[r] = emitted[r]

\* The heartbeat of the run finds its row expired or terminal.
HeartbeatRefused(r) ==
    /\ Working(r) /\ worker[r] # "claimed" /\ r \notin runErr
    /\ Active(row[r]) => row[r].due
    /\ runErr' = runErr \cup {r}
    /\ UNCHANGED <<faultVars, row, older, call, worker, emitted, tried, dir, gc>>

\* The heartbeat throws: no later one is sent.
HeartbeatThrows(r) ==
    /\ worker[r] \in {"executing", "draining"} /\ r \notin runErr
    /\ Fault("hiccup")
    /\ runErr' = runErr \cup {r}
    /\ UNCHANGED <<up, row, older, call, worker, emitted, tried, dir, gc>>

\* The lease of an active run passes because its heartbeat stopped...
RowLapses(r) ==
    /\ Active(row[r]) /\ ~row[r].due
    /\ Working(r) => r \in runErr
    /\ row' = [row EXCEPT ![r].due = TRUE]
    /\ UNCHANGED <<faultVars, older, call, worker, runErr, emitted, tried, dir, gc>>

\* ...or because its process is stalled for a whole lease.
RowStalls(r) ==
    /\ Active(row[r]) /\ ~row[r].due
    /\ Working(r) /\ r \notin runErr
    /\ Fault("stall")
    /\ row' = [row EXCEPT ![r].due = TRUE]
    /\ UNCHANGED <<up, older, call, worker, runErr, emitted, tried, dir, gc>>

\* Mutant: the result is committed although a write or a renewal failed.
Commit_Trusting(r) ==
    /\ worker[r] = "draining" /\ Drained(r)
    /\ IF Owned(r, {"running"})
         THEN /\ SetRows([row EXCEPT ![r].status = "completed", ![r].due = FALSE])
              /\ worker' = [worker EXCEPT ![r] = "over"]
         ELSE worker' = [worker EXCEPT ![r] = "failing"] /\ UNCHANGED <<row, older>>
    /\ UNCHANGED <<faultVars, call, runErr, emitted, tried, dir, gc>>

\* The chain is written: leaseError, or a row that is not the worker's any more,
\* turns the result into a failure.
Commit(r) ==
    /\ worker[r] = "draining" /\ Drained(r)
    /\ IF r \notin runErr /\ Owned(r, {"running"})
         THEN /\ SetRows([row EXCEPT ![r].status = "completed", ![r].due = FALSE])
              /\ worker' = [worker EXCEPT ![r] = "over"]
         ELSE worker' = [worker EXCEPT ![r] = "failing"] /\ UNCHANGED <<row, older>>
    /\ UNCHANGED <<faultVars, call, runErr, emitted, tried, dir, gc>>

CommitThrows(r) ==
    /\ worker[r] = "draining" /\ Drained(r)
    /\ Fault("hiccup")
    /\ worker' = [worker EXCEPT ![r] = "failing"]
    /\ UNCHANGED <<up, row, older, call, runErr, emitted, tried, dir, gc>>

\* fail(); whatever it returns or throws is swallowed and the heartbeat ends.
Fail(r) ==
    /\ worker[r] = "failing" /\ Drained(r)
    /\ worker' = [worker EXCEPT ![r] = "over"]
    /\ Forget({r})
    /\ \/ /\ SetRows(IF Owned(r, {"queued", "running"})
                       THEN [row EXCEPT ![r].status = "failed", ![r].due = FALSE] ELSE row)
          /\ UNCHANGED faults
       \/ Fault("hiccup") /\ UNCHANGED <<row, older>>
    /\ UNCHANGED <<up, call, dir, gc>>

\* GET /v1/messages/runs/:id, also each turn of a long poll.
Poll(r) ==
    /\ up # {} /\ worker[r] \notin {"none", "answered"}
    /\ SetRows(Reaped)
    /\ UNCHANGED <<faultVars, call, worker, runErr, emitted, tried, dir, gc>>

\* The retention of a terminal row passes, the older rows' first.
RetentionPasses(r) ==
    /\ Terminal(row[r]) /\ ~row[r].due
    /\ \A p \in Requests : <<p, r>> \in older => row[p].due
    /\ row' = [row EXCEPT ![r].due = TRUE]
    /\ UNCHANGED <<faultVars, older, call, worker, runErr, emitted, tried, dir, gc>>

\* An hour passes over a directory.  It does not within a collection that began
\* before the run was claimed, as the second half reads its clock first.
DirectoryAges(r) ==
    /\ dir[r] = "young"
    /\ \A g \in Hosts : gc[g] # <<>> => r \in Head(gc[g]) \/ row[r] = NoRow
    /\ dir' = [dir EXCEPT ![r] = "old"]
    /\ UNCHANGED <<faultVars, row, older, call, worker, runErr, emitted, tried, gc>>

\* collectExpiredAskArtifacts: list the roots of the rows that are left...
\* (Before the first claim there is nothing to list or remove.)
ListRoots(g) ==
    /\ g \in up /\ gc[g] = <<>>
    /\ \E r \in Requests : call[r] # NoCall
    /\ SetRows(Reaped)
    /\ gc' = [gc EXCEPT ![g] = <<Present(Reaped)>>]
    /\ UNCHANGED <<faultVars, call, worker, runErr, emitted, tried, dir>>

\* Mutant: the age of a directory does not matter.
SweepDirectories_AnyAge(g) ==
    /\ gc[g] # <<>>
    /\ dir' = [r \in Requests |->
                 IF dir[r] # "none" /\ r \notin Head(gc[g]) THEN "removed" ELSE dir[r]]
    /\ gc' = [gc EXCEPT ![g] = <<>>]
    /\ UNCHANGED <<faultVars, row, older, call, worker, runErr, emitted, tried>>

\* ...then remove the old directories that are not among them.
SweepDirectories(g) ==
    /\ gc[g] # <<>>
    /\ dir' = [r \in Requests |->
                 IF dir[r] = "old" /\ r \notin Head(gc[g]) THEN "removed" ELSE dir[r]]
    /\ gc' = [gc EXCEPT ![g] = <<>>]
    /\ UNCHANGED <<faultVars, row, older, call, worker, runErr, emitted, tried>>

\* A crash loses the workers of the process and its collection in progress.
Crash(g) ==
    LET dead == {r \in Requests : Working(r) /\ call[r].on = g}
    IN  /\ Stop(g)
        /\ worker' = [r \in Requests |-> IF r \in dead THEN "lost" ELSE worker[r]]
        /\ Forget(dead)
        /\ gc' = [gc EXCEPT ![g] = <<>>]
        /\ UNCHANGED <<row, older, call, dir>>

MessageNext ==
    \/ \E r \in Requests :
         \/ \E key \in Keys : ClaimReplays(r, key)
         \/ \E c \in Asked : ClaimInserts(r, c)
         \/ MarkRunning(r) \/ MarkRunningFails(r)
         \/ Emit(r) \/ \E n \in 1 .. MaxDeltas : AppendPreview(r, n)
         \/ ExecuteReturns(r, TRUE) \/ ExecuteReturns(r, FALSE)
         \/ HeartbeatRefused(r) \/ HeartbeatThrows(r) \/ RowLapses(r) \/ RowStalls(r)
         \/ Commit(r) \/ CommitThrows(r) \/ Fail(r) \/ Poll(r)
         \/ RetentionPasses(r) \/ DirectoryAges(r)
    \/ \E g \in Hosts :
         \/ ListRoots(g) \/ SweepDirectories(g) \/ Crash(g)
         \/ Start(g) /\ UNCHANGED runVars

--------------------------------------------------------------------------------
\* Execution and storage go on, an outstanding instant passes, a process that
\* died is started again and its timer collects every quarter of an hour.
MessageFairness ==
    /\ \A r \in Requests :
         /\ WF_messageVars(MarkRunning(r))
         /\ WF_messageVars(\E n \in 1 .. MaxDeltas : AppendPreview(r, n))
         /\ WF_messageVars(ExecuteReturns(r, TRUE) \/ ExecuteReturns(r, FALSE))
         /\ WF_messageVars(Commit(r)) /\ WF_messageVars(Fail(r))
         /\ WF_messageVars(RowLapses(r)) /\ WF_messageVars(HeartbeatRefused(r))
         /\ WF_messageVars(RetentionPasses(r)) /\ WF_messageVars(DirectoryAges(r))
    /\ \A g \in Hosts :
         /\ WF_messageVars(ListRoots(g)) /\ WF_messageVars(SweepDirectories(g))
         /\ WF_messageVars(Start(g) /\ UNCHANGED runVars)

MessageSpec ==
    MessageInit /\ [][MessageNext /\ UNCHANGED limit]_<<messageVars, limit>> /\ MessageFairness
--------------------------------------------------------------------------------
MessageTypeOK ==
    /\ FaultTypeOK
    /\ limit \in Limits
    /\ row \in [Requests -> Row \cup {NoRow}]
    /\ older \subseteq Requests \X Requests
    /\ call \in [Requests -> Call \cup {NoCall}]
    /\ worker \in [Requests -> {"none", "answered", "claimed", "executing", "draining",
                                "failing", "over", "lost"}]
    /\ runErr \subseteq Requests
    /\ emitted \in [Requests -> 0 .. MaxDeltas]
    /\ tried \in [Requests -> 0 .. MaxDeltas] /\ \A r \in Requests : tried[r] <= emitted[r]
    /\ dir \in [Requests -> {"none", "young", "old", "removed"}]
    /\ gc \in [Hosts -> {<<>>} \cup {<<runs>> : runs \in SUBSET Requests}]

\* The outcome of a run stands while its row is retained, so that no client is
\* told two: a worker that outlived its lease cannot overwrite what a poll, a
\* retry or the collector wrote when it reaped the run.  And the store stays
\* within its limit without giving up a run that is queued or running.
OutcomesStand ==
    [][/\ Cardinality(Present(row')) <= limit
       /\ \A r \in Requests :
            /\ Terminal(row[r]) => row'[r] = NoRow \/ row'[r].status = row[r].status
            /\ Active(row[r]) /\ ~row[r].due => row'[r] # NoRow]_messageVars

\* A completed run shows every piece of text its provider streamed, in order:
\* batches are chained, and one that was lost fails the run.
CompletedPreviewIsWhole ==
    \A r \in Requests :
      row[r] # NoRow => (row[r].status = "completed" =>
                           row[r].preview = Upto(0, emitted[r]))

\* A retry with the same key does not execute beside the first attempt, unless
\* that one's heartbeat failed or its process stalled: the row that answers for
\* the key is not given up under pressure while its run is under way.
KeyRunsAlone ==
    \A p, q \in Requests :
      p # q /\ Working(p) /\ Working(q) /\ call[p].key = call[q].key /\ call[p].key # NoKey
        => p \in runErr \/ q \in runErr \/ faults.stall > 0

\* The collector never removes the artifact directory of a run that is retained,
\* also when the run was claimed between its two halves.
ArtifactsKept == \A r \in Requests : row[r] # NoRow => dir[r] # "removed"

\* Every accepted run reaches an outcome, whatever crashed under it.
MessageSettles == \A r \in Requests : Active(row[r]) ~> ~Active(row[r])
================================================================================
