# Verification of the Muster gateway, flow engine, missions, task board and schedules

Muster (this repository) runs agents behind chat platforms. A gateway process receives platform
events, runs a provider, sends the reply, lets people approve gated actions with a button, and
resumes flows at their gates. For Frappe sites it runs missions: graphs of work whose effects were
approved one by one, steered, paused and cancelled by commands. Several gateway processes may share
one database, and each of them may crash, stall or be restarted at any point. On a terminal, chat
processes plan work as tasks of a board, run them with agents and let people review them; the board
is a log that they share. An external cron invokes commands that run what is due, and runs spawn
subagents; these share files that they read and write whole or append to. This directory holds TLA+
models of the parts where that matters, the TLC configurations that check them on small instances,
and proofs that hold for every size.

## Inventory

Sources are below `src/packages/` unless a path says otherwise. **M** = modelled, **P** = partly,
**–** = not modelled (the plan says when, or PROJECT.json says why not).

| Part | State | Operations | What makes it correct |
|---|---|---|---|
| **M** Durable ingress `gateway/src/durable-ingress.ts` | one claim row per delivery; numbered transition slots, folded into a lifecycle | claim, transition, renew, complete, fail, readLifecycle | lifecycle moves only along legal steps within its caps; a worker that lost the claim changes nothing; output is never regenerated; a completed delivery has an outcome |
| **M** Enterprise idempotency `core/src/enterprise-sqlite.ts`, `enterprise-governance.ts` | rows with fingerprint, claim token, state, expiry, result | claim, renew, complete, release, sweep | a lease holds as long as its holder was told; at most one live holder; an acknowledged result stays and is unique |
| **M** Ingress spool `gateway/src/ingress-spool.ts` | one JSON file per delivery with the payload, the reply and a send state | put, find, reassignOwnership, markers, remove, list | evidence of a send is never lost; the file never contradicts the lifecycle |
| **M** Asynchronous adapter delivery `gateway/src/server.ts` | tasks in memory | webhook route, Telegram poll, Slack socket, background task, lease timer, recovery at start | the user gets a reply at most once; "delivered" is true; an interrupted delivery is decided |
| **M** Approval actions `gateway/src/approval-store.ts`, `presentation.ts`, `server.ts` | rows: available, pending, completed, failed; owner and lease | issue, verify and consume, claimExecution, claimPending, markExecution | carried out once, first press stands, only the owner settles |
| **P** Flow engine `core/src/flow.ts` | an append-only file of events per run | runFlow, resumeFlow, replayFlowRun, steps, gates, budget | gates hold, steps are not repeated, memory agrees with the file, budget holds |
| **M** Asynchronous message runs `gateway/src/async-message-store.ts`, `server.ts` | rows queued/running/completed/failed with owner token and lease; artifact directories | claim, markRunning, renew, appendPreview, complete, fail, read, reap, collection | one worker per key, an outcome stands, a dead worker's run is failed, a completed run is whole, artifacts live as long as their row |
| **M** Conversation lease `gateway/src/conversation-lease.ts`, `server.ts` | a chain of turns per process; one idempotency row per conversation | run (queue, claim with retry, heartbeat, release) | turns of a conversation do not overlap; a waiting turn gets its turn |
| **P** Agent kanban `core/src/agent-kanban.ts`, `cli/src/chat-orchestration.ts`, `board-runtime.ts` | a log of events, folded into tasks, attempts and load; a lease file; open stores | the events of the reducer; mission, assign, retry, approve, cancel; lease, replay, commit, orphan reaping | load follows status, work waits for its dependencies, history is final, one writer, the log replays to what was acknowledged, no attempt runs for ever |
| **–** Outbound queue and drafts `gateway/src/streaming.ts` | queue, back-off, draft message id | enqueue, flush, edit, finish | order, bound, last edit wins |
| **P** Governed Frappe effects `gateway/src/frappe-effect-executor.ts`, `frappe-interaction-store.ts` | a ledger row per effect: claimed, committed, failed | authority, plan, claim, apply, observe, compensate, commit, fail | an effect is applied once, and the log never hides it |
| **P** Frappe run events, missions `gateway/src/frappe-run-events.ts`, `frappe-mission-bridge.ts`, `core/src/run-events.ts` | a log of events, its fold in each process, timers and waiters | submit, recover, run nodes and loops, pause, resume, steer, cancel, close; append, reduce | no fork, only chosen branches run, a mission is not left behind, a cancel takes effect |
| **–** OAuth, links, pairing `gateway/src/frappe-oauth.ts`, `frappe-telegram-link.ts`, `pairing.ts` | one-time states, links, pairing file | start, complete, redeem, confirm, revoke | a state is used once; a revoked link grants nothing |
| **–** Counters, receipts, reporting `core/src/enterprise-*.ts` | counters with windows, receipts | consume, record, report | a limit is not exceeded, a receipt is counted once |
| **P** Subagents `core/src/subagents.ts` | a log of events, folded into children | spawn under a cap, finish, claim by the parent, reap | a result reaches the parent once, slots return |
| **M** Scheduler `core/src/scheduler.ts` | schedules.json, read and written whole | add, remove, run what is due | a job fires once for a minute, a due job is caught, edits stay |
| **M** Pulse `core/src/pulse.ts` | pulses.json, records of tokens | add, resume, run what is due | the daily budget holds |
| **–** Workflow modules, agent graph `core/src/workflow-module.ts` | graph of steps and limits | run, repeat, compensate | limits hold, compensation in reverse |
| **–** Memory, sessions, providers, tools, MCP, learning, capabilities, observer `core/src/` | files, child processes | read, append, call | mostly sequential or external |
| **–** Gateway policy, rendering, adapters; CLI, UI, website, packs | configuration, text | – | – |
| **–** Frappe app `src/frappe_app/muster` | Frappe documents | HTTP calls of the gateway | its effect life cycle matches the gateway's |

How they interact: a platform event is **claimed** in the idempotency store by durable ingress,
written to the **spool**, acknowledged, run under the **conversation lease**, sent by the adapter
and **completed**. A reply may carry buttons that the **approval store** issues; a press consumes
one, and carrying it out resumes a **flow** run. The flow engine itself knows nothing of leases.
HTTP and CLI callers resume flows directly, without the approval store. A **message run** answers
at once and executes a turn of its conversation in the background. A **mission** is submitted
again to recover it; its events are in one table, the **ledger** of its effects in another database,
and the effects at a Frappe site. **Schedules** and **pulses** are run by commands that the external cron
invokes each minute, whether or not the previous one is over; **subagents** by a parent that spawns them and
a reaper that a user or a cron invokes. The **task board** shares nothing with the gateway: its processes
meet in the log and the lease file.

What is hard: leases that run out under a stalled worker; a crash between any two of claim, spool,
lifecycle, send and completion; a platform that delivers again; recovery working from a snapshot;
two processes with one database; a send or an effect whose answer is lost; an abort that leaves its
executor running; append-only files read once and
written later, by several stores of one process; whole files written back by commands that overlap. PROJECT.json lists each hazard at its line with the
property that covers it.

## Modules

| Module | Models | How |
|---|---|---|
| `LifecycleRules` | the pure functions of `durable-ingress.ts` | legal transitions, caps, successor lifecycle |
| `DeliveryLifecycle` | what durable ingress promises (abstract) | `lifecycle`, `closed`; a transition is one step |
| `IdempotencyRecords` | one row and each operation on it | functions of the row found and the clock read |
| `IdempotencyStore` | the table and its clients | one action per store operation; `lease`, `settled` are what clients were told |
| `DurableIngress` | `DurableGatewayIngress` | one action per store call of a transition; other workers run between calls; refines `DeliveryLifecycle` |
| `IngressPipeline` | `server.ts` delivery paths over claim and spool | one action per ingress call, one read and one write per spool change |
| `ApprovalStore` | approval rows and their callers | one action per store call; a call is one fresh `executionOwner` |
| `FlowRuns` | run files and the processes that act on them | one action per append and per tool call |
| `GatewayFaults` | what happens to gateway processes | crash, restart, and counters of crashes, stalls and failing store calls |
| `ConversationLease` | the chains of turns and the shared lease row | one action per store call of `DurableConversationLease.run`; `turn` is how far `runConversationExclusive` is |
| `AsyncMessages` | message runs, their workers, polls, and the collector of directories | one action per transaction of the store; the collector is a read and a sweep |
| `MissionEvents` | the reducer of run events | the statuses and node states each event is accepted in, and what it leads to, as tables |
| `FrappeMissions` | the mission bridge, the executor of governed effects and its ledger | one action per append and per call that leaves the process; each process has its own fold and appends at the next sequence only |
| `Subagents` | the file of subagent events and who reads and appends to it | one action per read that is acted on and per append; the file is its fold, and whether its last line was cut short |
| `Schedules` | schedules.json and the commands on it | one action per read and per write of the file and per job run; `command` holds the array a process read |
| `Pulses` | pulses.json, the checklist and the records of tokens (extends `Schedules` for cron and clock) | one action per read, write, gate and model call |
| `KanbanBoard` | the reducer of the board | each event is the set of boards behind it, empty where the reducer throws |
| `BoardStores` | chat processes, their stores, lease file and log | the file is the fold of its lines; one action per step of the lease and per commit; a command goes on from the state its own store holds |

`…_proofs` modules hold theorems; `MC…` modules and `.cfg` files instantiate a module for TLC.
`LifecycleRules` and `IdempotencyRecords` are shared: the first by `DeliveryLifecycle`,
`DurableIngress` and `IngressPipeline`, the second by `IdempotencyStore` and `DurableIngress`, so
that the abstract and the detailed specification cannot drift apart. `MCGatewayStores`,
`MCGatewayRecovery`, `MCDurableLogs`, `MCEngines`, `MCMessageTurns` and `MCTaskBoard` check modules that share no state
together: a behaviour moves one of them. Operators with a suffix and
the comment "Mutant" are plausible mistakes in the definition that follows them; PROJECT.json says
which property each of them breaks. They are in no behaviour of the models.

### Layering

    DeliveryLifecycle      promise                    IdempotencyStore   promise of the store
          ^ refinement (proved; TLC)                         | same record operations
    DurableIngress         store call by store call <--------+
          | a transition is one step
    IngressPipeline        routes, loops, background task, recovery, spool

`DurableIngress` shows that a transition, five or more store calls with other workers between
them, acts like one step of `DeliveryLifecycle`. That is what lets `IngressPipeline` take an
ingress call as one step. What the interleaving can leave behind, a slot that a crashed worker
claimed and did not complete, appears there as `slotPending`.

### Abstractions

* **Clock.** `IdempotencyStore` and `DurableIngress` have one, with callers that pass old readings
  (`resolveNow` is sampled before the call). Elsewhere a lease that runs out is a step.
* **Sweeping.** SQLite deletes expired rows of all keys, the in-memory store only some; the models
  leave open which.
* **Retention.** A completed record is kept for seven days; that is beyond the horizon of
  `DurableIngress` and `IngressPipeline`.
* **Pipeline.** One delivery and one conversation; a worker is a process with the one task it
  runs; a provider run is one step that answers, is silent or fails; a send is accepted, rejected
  or unclear. The spool write and the acknowledgement that follows it are one step, because
  nothing else happens in between that another process could see. Of the I/O errors of the spool,
  those of `put` are modelled.
* **Approvals.** Rows that one round of recovery takes are worked off in any order and without the
  limit of a hundred. The token checks of `presentation.ts` appear as what they decide. A press on
  a consumed action reports the first outcome and is not a step. What carrying out a decision does
  is applied or refused.
* **Messages.** Deltas of text are numbered, a batch of the preview is one of them or a few. The
  collector lists references and then sweeps directories that are old. What a run executes is
  left open, and a lease lapses only when its heartbeat failed or its process died or stalled.
* **Missions.** A node is its place in the order the bridge walks, its children, its effect and its
  iterations. A provider answers, fails or is aborted, with one summary of its reasoning at most; a
  loop's progress marker is new or the iteration fails. What a plan, an approval and a postcondition
  have to look like is whether their check succeeds. A command is a step of a process that waits;
  the table that claims command ids, what a steering says, and the retention of events are left out.
  Two processes that append the same event in the same millisecond share one row (`Twin`), as the
  event id has no writer in it; answers of a provider or a site are never the same.
* **Board.** Events that only leave a mark on a task (progress, output, stall, comment, approval
  request, checks, exit of a process) are left out, and so are scores and context bundles. A mission
  is about one task; commands that the board refuses at once are not started. A chat that
  exits leaves its lease file behind like one that crashed. Process ids are not reused. A worktree
  that cannot be made and checks that fail end a command early.
* **Flows.** A step is its position; an output is truthy or falsy; a gate shows the outputs it
  needs. `Serialized` says whether resumes of one run exclude each other: `TRUE` stands for
  resuming through `ApprovalStore`, whose `OneShot` theorem provides it while leases last, `FALSE`
  for HTTP and CLI callers.

* **Schedules and pulses.** A cron expression is the set of minutes it matches, a model call a cost.
  The cost is what a record of tokens counts, the attempt that answered; attempts which a governed
  fallback replaced are in no record (`run.ts:1191`), so that the budget does not see them.
  What a job runs and whether a reply is surfaced are left out; a corrupt file makes every
  command fail, as `readJsonFile` does. A read of a file that is being written, which throws, is a
  command that does nothing.
* **Subagents.** One parent. The cap of the spawn depth is a check of an argument and left out;
  what a run does is completed or failed. A claim works off its candidates in any order.

## Runs

Every run ends within a few minutes on two workers, the six violations at their counterexample,
the others without error. Deadlock checking is off: the models stop when a bound is used up or
everything is settled.

| Run | Instance | Shows |
|---|---|---|
| `stores` | 2 clients, 1 key, 2 fingerprints, 2 results, ttl 1 and 2, clock to 3, readings 1 old, 3 generations; for a delivery on its way 2 processes, 2 receipts, webhook and stream, two attempts of each kind; 2 crashes, one of them inside a transition, or one stall past the lease | every promise of the idempotency store holds under racing, late, sweeping and forgetting clients; at most one send, what is recorded is true (delivered means sent, spool and lifecycle agree), evidence and checkpoints are kept; a stalled owner is fenced off from claim and lifecycle |
| `recovery` | the default caps 8, 8 and 32; 1 action, 2 presses, 2 rounds, 2 servers, 1 loop, 1 crash; a spooled delivery with 2 processes, one crash, 3 process ids, two attempts of each kind; all fair | output is never regenerated and only the outcome of the very last attempt may lack a slot; an action is carried out once per lease, the first press stands, only the owner settles, a starting server settles what it may claim, whoever left it behind; a spooled delivery is decided after a crash |
| `delivery_cap` | the default caps 8, 8 and 32 | *violation*: the outcome of the last delivery attempt finds no slot |
| `durable_logs` | 2 workers, 3 slots, one attempt of each kind, clock to 2; a mission that branches to an effect and to a loop of 2 iterations, 2 gateways: one at a time with 3 disturbances (crash or shutdown, command, lapsed lease, deadline), or both with 1; a flow of tool, gate, agent with 2 racing resumes and a replay, recorded or live, of any prefix, as a run of its own; 2 subagents, cap 1, 2 claims at once, 1 crash; 2 pulses, 2 processes, 3 minutes in days of 2, budget 3 in calls of 2, 1 death | a stale owner cannot complete, and `DeliveryLifecycle` is implemented; an effect is applied once and stays on record, only chosen branches run, a mission is not left behind; gates hold in run and replay; a parent gets each result once; the daily budget is exceeded by less than a call |
| `mission_cancel` | a mission of one effect, 1 gateway, 1 command, no crash, fair | *violation*: the cancelled mission stays cancelling |
| `pipeline_batch` | a reply of two messages, no crash | *violation*: the batch is resumed from its first message |
| `engines` | a flow of 6 steps (tool, gate, agent, gate, agent, foreach), 3 resumes one at a time, 2 crashes, one inside an append; 2 processes, a job each hour and each minute, 2 minutes, files of earlier sessions, 1 crash; 2 subagents, cap 1, 1 crash; all fair | memory equals file, no step repeated, without a crash the run settles; a job fires once for a minute when commands do not meet, whoever crashes, and what is due is caught; the slots of crashed subagents return |
| `flow_reject` | tool, gate, tool; 2 racing resumes | *violation*: a rejected run goes on |
| `schedule_overlap` | the schedules of `engines` | *violation*: two commands that overlap fire a job twice |
| `messages` | 2 processes, 3 turns of one conversation; 2 requests with and without a key, room for 1 row and one crash, stall or failing store call, or room for 2 rows and no fault, 1 delta; for turns also a stall with a failing call, fair | turns exclude each other, results are kept only under the lease, every waiting turn settles; an outcome stands, a completed preview is whole, a key runs alone, artifacts are kept, every run settles |
| `board` | 2 tasks, the second behind the first, 1 card with limit 1, 1 agent, 2 attempts; 2 chat processes with one store at a time, 1 crash, a new log or one with an assigned task, commands begun up to sequence 7, fair | load, dependencies and history hold under every sequence of events; one writer, a store at work holds what is on file, attempts end |
| `board_log` | 1 chat process with two stores at a time, no crash | *violation*: an acknowledged event is refused by the replay |

### Why the bounds are enough

* Two workers, processes or clients are what each race in the code is between: the holder and the
  one that takes over. A third adds a second takeover, which `stores` reaches by a restart.
* Two crashes allow a crash during recovery from a crash. One transition left pending is the only
  one there can be, as the next one waits for it. Two receipts are a delivery and its redelivery.
* The lifecycle's rules do not depend on how large its caps are; `durable_logs` uses 3 slots, enough
  for running, generated and delivering, and `recovery` and `delivery_cap` use the default caps of the
  code, which no caller overrides.
* A branch, an effect and a loop are what a mission's walk tells apart, and the effect behind a
  branch meets each of them. Three disturbances are a command, a time-out and the crash in between;
  with two gateways the race is itself the disturbance, and one more meets it at every point; when one
  of the two stops, the other goes on alone. There the
  effect is always selected, since it is what they race for, and loops are verified at once. One stop is enough, as a recovery starts from the log alone.
* Two lengths of lease and readings one tick old make every order of expiry and late call
  possible; three generations allow takeover and takeover back.
* One approval action is enough for its races. Two rounds let a server that crashed in its first
  one, or another server, take the action up again; with three, TLC finds nothing else (5 minutes).
* Two minutes make a job missed, made up for or overlapped, and a job each minute falls due while
  one of each hour runs; a file of an older version has no nextRunAt. `engines` follows schedules until a job
  fired twice for a minute. For pulses that meet one is on file (`OnePulse`): the second matters to
  a command that turns to it after a call. Two calls of 2 exceed a budget of 3 by one, as a single
  process may; a third minute is another day. A replay is begun when the race it repeats is over,
  as it reads that run once (`ReplayLast`).
* Two children under a cap of one, or two claims, are what an overlap needs; the second child waits
  for a slot.
* The six-step flow has each kind of step before, between and behind gates, a `when` on a gate and
  on an agent, and a budget that is reached; its shape is the digest of `docs/FLOW_ENGINE_SPEC.md`.
* Three turns in two processes make one wait in a chain and one at the store. Room for one row
  makes every second claim remove something; a row of a finished run is the only one that may go.
  Room for two lets two requests with one key be at work at the same time.
* Two tasks and one card at its limit let a rework or a retry exceed what an assignment may not;
  a third attempt adds nothing that the second, the last permitted one, does not show. A log of
  seven events holds a mission, its end and the beginning of a retry.

### Fairness

Safety needs none. `recovery` assumes of a delivery that a task that runs goes on, that a lease and a
dead worker's slot end by the clock, and that a crashed process is started again; the platform
need not deliver again. Of approvals it assumes that a call and a starting server go on, that leases
end, and that a crashed gateway is restarted; nobody has to press. `engines` assumes that the external cron goes on invoking
run-due whenever a process is free, that a command that lives works, that time passes for a subagent
and the reaper is invoked again and again, and for flows that a process goes on, that
tools and agents return, and that whoever is left comes back to a gate. `messages` assumes that
workers, store calls and the collector's timer go on, that an instant that is due passes, and that
a process that died is started again. `mission_cancel` assumes
that a process goes on with its run, and that calls of its executor end, since transport and provider
have time-outs. `board` assumes that stores and executions go on, that a chat
is started again, and, strongly, that a living process with a free store shows the board and lets an
execution report again and again, as the polling view does. The rest is weak
fairness, which the code justifies because awaiting code is resumed,
the clock advances, and the deployment restarts the service. None of the liveness properties
assumes that a send, a provider or a tool succeeds.

### What the exceptions in properties say

* `NoPartSentTwice` and `EvidenceKept` hold on a webhook, and on a stream unless a worker died
  in the middle of a transition (`SendsAreOnRecord`). The Telegram and Slack loops `put` a fresh
  spool entry without looking for an old one; they rely on the lifecycle to refuse a reply that may
  be under way. If that worker died inside the transition, its redelivered update runs again, the
  entry in state send-attempted is replaced, and another crash lets recovery send the reply twice.
  A checkpointed reply that was not being sent is kept on the webhook only.
* `NoPartSentTwice`, the `StoresAgree` part of `RecordsAreTrue` and `EvidenceKept` say nothing behind a stall (`NobodyStalled`):
  the spool is not fenced by the claim, and a worker held up between its last check and its send
  still sends. What fencing does cover, claim and lifecycle, is `StaleOwnerFenced`, and what is
  recorded as delivered is true all the same.
* `AppliedOnce` is about actions whose lease never ran out. The fifteen-minute lease is not
  renewed, so a flow that takes longer may be taken over and carried out twice.
* `RecoverySettles` ends where another process takes a *new* lease on the action (`LeasedElsewhere`,
  which is false while the action is claimable: that its last, dead owner ran elsewhere is the main
  case and no exception), where the server stops, and where the bound stops it (`OutOfRounds`: its
  rounds are worked off, something is claimable, and none is left). When the other's lease runs out while the
  server still recovers, the promise begins anew.
* `TurnsExclude` admits one turn more for every stall of a whole lease, and does not count a turn
  whose heartbeat failed and which will reject its result. `KeptUnderLease` and `KeyRunsAlone` are
  about processes that were not stalled.
* `OneWriterOnFile` (its parts `OneWriter` and `StoreMatchesFile`) and `AttemptsEnd` end where a takeover unlinked the lease file of a
  living owner (`used.raced`), which may be a file that another store of its own process was about to
  fill; the last two also at a torn line. `StoreMatchesFile` is about one
  store at a time. The next section says what happens otherwise.
* `EffectsOnRecord` and `OnlyChosenBranches` admit that a recovery which read the events twice, with
  an append in between ("recovery" in `raced`), misses what a node selected, and that mission_completed does not
  look at effects in flight. `NotAbandoned` is about processes nobody stopped and commands that reached
  a run which acts on them (no "command" in `raced`). TLC showed why: a cancel that the log refuses
  leaves the flag of its run set, the event of a twin brings the run up to date, it ends without an
  event, and a steering that wakes the ended run leaves the mission behind.
* `RunSettles` is about runs nobody crashes; the next section says what a crash does.
* `FiresForward` is about commands that never meet, under any crash. `DueIsCaught` ends where a process died
  with the job, as the advance that was on file is not taken back (at most once), or the file is
  corrupt.
* `SpendIsBounded` admits one call per process that is at work at once and one for each call whose
  process died before its tokens were on record. Tokens that a living process fails to write down
  (an I/O error between the answer and its record, `run.ts:1189`) are not modelled. `ResultsReachParent` admits a second delivery when calls
  overlap or a claim was swallowed by a torn line, and a lost one behind a crash of the parent.

## Disagreements

Six are runs and findings in PROJECT.json:

* **An outcome without a slot** (`delivery_cap`). `fail()` is to "mark the lifecycle failed and release
  its pending ingress claim" (`durable-ingress.ts:333`). R runs and D deliveries with their failures take
  2R + 2D transitions, one more if a failure falls between output and delivery, and another if a caller
  fails before it runs, as `server.ts` does not (`ServedSpec`). The defaults are 8, 8 and 32: behind the
  eighth "delivering" there may be no slot for "failed", "delivered" or "unknown". The delivery stays
  "delivering", for which the next recovery sends a rejected reply again, beyond the cap. What holds at
  the defaults is `EarlierOutcomesHaveSlot`: no other outcome is ever without a slot.
* **A rejected batch is sent again** (`pipeline_batch`). When any message of a WhatsApp batch is
  rejected, the whole entry goes back to execution-completed, and the redelivery starts at the
  first message, which was accepted.
* **A rejected run goes on** (`flow_reject`). `resumeFlow` reads the pending gate and appends
  later. An approval and a rejection that race outside the approval store are both recorded.

* **A log outgrows its replay** (`board_log`). Each command of a chat opens a store of its own, which
  stamps events from the state it replayed then. Two at once, an approval whose checks take minutes
  and the report of a retried attempt, stamp the same sequence. Replay stops at the second line, and
  everything acknowledged behind it is lost.
* **A cancelled mission stays cancelling** (`mission_cancel`). The cancel aborts a node whose effect
  is at the site. node_failed leaves that effect in flight, so the reducer refuses `cancelled`, and
  the refusal is swallowed. No event follows and nothing is compensated; a recovery ends at the same
  place. The same happens to a loop node that is held for input, which nobody wakes up.

* **A schedule fires twice** (`schedule_overlap`). run-due reads the file and writes the advance later
  without a lock; a command that overlaps in between finds the job due as well. The comment
  (`scheduler.ts:159`) says that it cannot; about a crash the comment is right.

Ten more are stated as properties with a configuration of their own, which TLC refutes; run them
with `tlc -config <cfg> <module>`:

* `MCIngressPipelineAcked.cfg`, `AckedIsKept`: a redelivery that finds the claim of a worker which
  crashed before it spooled is answered 200 (`server.ts:4491`); the payload is in no store.
* `MCIngressPipelineNotice.cfg`, `FailureNoticeIsTrue`: a lease renewal that fires while the entry
  of a completed delivery is removed fails, and the user is told that the request failed
  (`server.ts:3931`).
* `MCIngressPipelinePid.cfg`, `InterruptedIsDecided`: a gateway that restarts under the crashed
  one's process id, as pid 1 of a container does, takes the entry's owner for alive, and recovery
  runs only at start (`ingress-spool.ts:236`).
* `ApprovalStorePress.cfg`, `PressIsSettled`: a gateway that is back within the lease finds
  nothing to recover, and looks again only at its next start (`server.ts:1340`).
* `MCFlowRunsResume.cfg`, `ApprovedRunContinues`: a process that dies between gate_resolved and
  the next event leaves the run "running", which nothing resumes (`flow.ts:768`).
* `MCTaskBoardLease.cfg`, `LeaseIsExclusive`: two processes that replace a stale lease together, or
  one that reads a lease file before it is filled, unlink the new owner's file
  (`board-runtime.ts:55`); "live owners force read-only" does not hold then.
* `MCTaskBoardTorn.cfg`, `AcknowledgedIsReplayed`: a line that a crash cut short swallows the next
  one, which was acknowledged (`board-runtime.ts:23`).
* `MCTaskBoardStarted.cfg`, `StartedAttemptsEnd`: a process that dies between task_attempt_started
  and process_started leaves an attempt that no reaper looks for (`board-runtime.ts:152`); a human
  can still cancel it.

* `MCDurableLogsPulses.cfg`, `PulseRunsOnce`: a pulse is advanced "past now before running (at-most-once,
  no burst)" (`pulse.ts:33`) in memory only; the file is written when all pulses are done, so that a
  command which dies, or the next one beside it, calls the model again for the same minute.
* `MCDurableLogsClaims.cfg`, `OverlappingClaimsAgree`: two overlapping claims both read again before
  either appends, and both hand the result out; `subagents.ts:181` says each is delivered exactly once,
  while line 24 says that the window is narrowed only.

## Proofs

All theorems hold for every value of the constants under the named assumptions of the modules:
caps and times are natural numbers, positive where the constructor demands it, sets that are counted
are finite, a cron expression matches some minute beyond the last one followed (for one without a match
in a year `computeNextRun` throws, which is not modelled), runs and their replays
have different names, no call uses more tokens than some greatest number, a completed row is retained
beyond the time followed (7 days in the code), and the "none" values are not elements of the sets they
extend (`StoresAssumption`, `CronAssumption`, `FlowAssumption`, `PulseAssumption`, `IngressAssumption`,
`PipelineAssumption`, `AbsenceAssumption` are the ones that say more than types). Each proof has the
same shape: an inductive invariant `IInv`, `Init => IInv`, one case per action for
`IInv /\ [Next]_vars => IInv'`, and the theorems from it.

| Module | Theorems | Inductive invariant |
|---|---|---|
| `DeliveryLifecycle_proofs` | `TypeCorrect`, `AttemptsCorrect`, `SettledCorrect`, `EarlierOutcomesRecordable`, `NeverRegenerated`, `TerminalStays` | The type, `AttemptsAccountForState`, `TransitionBudget`, `SettledHasOutput` and `LastOperationalTracksState`: a failed delivery's last operational state decides where it may go back to, so nothing about attempts is inductive without it |
| `DeliveryLifecycle_proofs` (store calls) | `DurableTypeCorrect`, `LogIsALifecycle`, `StaleCompletionsAreFenced` | `LogOf`: the slots hold n completed transitions, each the successor of the one before, retained beyond the time followed; then at most one slot that is not completed; then nothing. `Fits`: a worker in front of slot k carries the lifecycle the log has there, and completes the claim behind generated output only. What is on record is retained, so no late claim or sweep touches it: a completion of the first free slot is one `Advance`, the claim's completion is `Settle`, every other call is a stutter |
| `IdempotencyStore_proofs` | `TypeCorrect`, `LeasePromiseKept`, `MutualExclusion`, `CompletionsRetained`, `EveryPromiseKept`, `ResultsUnique` | The promises themselves, with `TokensUnique` (a token is handed out once, so it names a generation) and `SettlementsMatch` (a settlement and a lease of one generation are about one key): a promise is kept because whoever changes the row must present its token |
| `KanbanBoard_proofs` (board) | `TypeCorrect`, `LoadIsTrue`, `DependenciesGate`, `HistoryStands` | The type, load and dependencies themselves, and `Blank` (a task that was never created has no history). `TaskStepLegal` reduces the events to two: the creation of a task, and a commit of a legal state, which leaves tasks that are done alone; that is why what others waited for stays done |
| `KanbanBoard_proofs` (stores) | `WriterIsAlone` | Until a takeover raced, an open store belongs to the process that owns the lease (`OpenInOwner`), and the lease file names that process (`FileNamesOwner`); until an append was cut short all of the file is replayed (`FileIsWhole`); so a lone store holds the fold of what only it has written |
| `FrappeMissions_proofs` | `AppliedAtMostOnce` | Effects nobody claimed were not applied (`ClaimedFirst`), and an executor between its claim and the site's answer holds the key alone and has not applied it (`HeldAlone`, `HeldUnapplied`): the ledger is written before the call and never goes back to free, so it does not matter how the executor ends |
| | `EffectsStayOnRecord`, `ChosenBranchesOnly`, `NobodyAbandons` | Five parts. `LogInv`: the copy of each process is a prefix of the log, and the log one event ahead of it is that event reduced (`CopiesFollow`). `GraphInv`: what runs was reached over selected edges, effects in flight are of nodes that run. `PlacesInv`: the place of a process in its walk fits its copy, not the log, so an append by another process cannot disturb it; its own append succeeds only when the two agree. `ExecInv`: an executor that was aborted still owns its row, and what was applied is on record. `DriveInv`: while nobody was disturbed, some process whose copy is current goes on |
| `Engines_proofs` (subagents) | `SubagentsTypeCorrect`, `ResultsGivenOnce` | A run with a result has a child that is done (`ChildOnFile`), so no event replaces a result and what a call holds stays true (`ClaimsTrue`, `GivenTrue`); what was given or is held is claimed on file unless a claim was swallowed (`HandedIsClaimed`), so a call that reads again before it appends takes nothing that was given; calls that never met are one at a time (`OneCall`), so what that one holds is fresh (`FreshInHand`) |
| `Engines_proofs` (schedules) | `JobsFireForward` | `NeverMet`: while commands did not meet, one at most is at work, what it holds is what is on file (`InHand`, `OnFile`), and each job's next minute lies behind the one it last ran for (`Fresh`); a command that dies between the advance and the run only loses that minute |
| `Engines_proofs` (pulses) | `BudgetIsKept` | `Spending`: what a pulse burned on a day is on file, owed by a process between its call and its record, or lost with one that died; a process that will yet compare the tokens of another day leaves room for one call of its own, and is none of those that owe |
| `Engines_proofs` (flows) | `GatesAreKept` | `GateInv`: behind the place of each process, approvals of all gates it passed are on file (`Behind`), and appends never take one away. It needs no `Serialized` |
| | `ContextIsKept`, `StepsAreNotRepeated` | Under `Serialized`. `SerialInv`: an active process is alone on its run and carries what the file says (`AloneOn`), so that a step ahead of its place was never called (`Untouched`). That the token count is a sum over the file is shown by taking the least event at which two of its prefixes disagree |
| `MessageTurns_proofs` (turns) | `TurnsTakeTurns`, `ResultsKeptUnderLease` | `StallsAccountForDoubt`: the turns that believe in a lease they lost are no more than the stalls |
| `MessageTurns_proofs` (runs) | `KeysRunAlone`, `RetainedArtifactsStay`, `NothingMissing`, `OneOutcome` | A worker at work holds its row by its token (`WorkersHoldRows`), keys are unique among rows, and a directory which a collection in progress did not list is too young to be swept (`UnlistedAreYoung`) |
| `IngressPipeline_proofs` | `PipelineTypeCorrect`, `RecordsAreKeptTrue`, `RepliesAreSentOnce`, `EvidenceIsKept`, `StaleOwnersAreFenced` | Every task that took its claim itself (`Driver`) has a generation of its own, which no other worker has, and no file before it wrote one (`OwnToken`, `Apart`). So while nobody is held up a driver holds the claim, and nobody else can move the lifecycle, send, or write the spool, but for a recovery that marks it unknown: each place of a task goes with a state of the stores (`Placed`) and nobody disturbs it (`Footprint`). What the stores say is true (`StoresTrue`, also behind a stall) and agrees (`StoresMatch`); a task that may yet send has not sent (`Unsent`) |
| `ApprovalStore_proofs` | `TypeCorrect`, `OneShot`, `OnlyOwnerSettles`, `FirstPressStands` | `Rows` (an unpressed row has neither owner nor decision), `lapsed \subseteq lost`, `Hands` (a working call has an action) and `Holders`: whoever works on an action whose lease never ran out is the owner on its row, so two such calls are the same |

`NeverRegenerated`, `TerminalStays`, `OnlyOwnerSettles`, `FirstPressStands`, `HistoryStands`,
`ResultsKeptUnderLease`, `OneOutcome`, `EvidenceIsKept`, `StaleOwnersAreFenced` and
`StaleCompletionsAreFenced` are action properties, `LogIsALifecycle` is a refinement; the others are
invariants. Some of them (`AttemptsCorrect`, `SettledCorrect`, `TerminalStays`, `MutualExclusion`,
`ResultsUnique` and the types) are in no run any more, since the proof covers every instance. `MutualExclusion` follows from `LeasePromiseKept` and
`TokensUnique`: two live leases would name one row with two tokens.

`RepliesAreSentOnce` is about a reply of one message (`PartCount = 1`), as every reply but a WhatsApp
batch is; for two it is false, as `pipeline_batch` shows. `ContextIsKept` and `StepsAreNotRepeated`
are about resumes that exclude each other (`Serialized`), as those behind the approval store do while
leases last (`OneShot`).

The refinement theorem carries what is proved of `DeliveryLifecycle` over to the log of store calls:
its attempts, its terminal states and its slots are those of one lifecycle.

`EarlierOutcomesRecordable` has a hypothesis, a transition cap of at least 2R + 2D. The code's defaults
meet it with equality (32 for 8 and 8).

Only model-checked: the eight liveness properties, `SlotsReturn` of `Subagents` among
them, which are out of the prover's reach, as is anything about ENABLED; and what folds over sets and
recursive operators compute, which would need induction over data. Recursive functions over the
numbers can be reasoned about step by step, as for the tokens of a flow.

## Plan

1. `FlowApprovals`: `ApprovalStore` and `FlowRuns` composed, with HTTP callers beside presses; an
   action of a gate that was decided otherwise; `Serialized` discharged instead of assumed.
2. The rest of missions: the command table and its replayed dispatch, retention of events, the
   interaction store's proposals; an abstract log that missions and the board implement.
3. Counters and receipts, outbound queue, OAuth and links, as far as time allows.
4. Proofs: that the conversation lease and the approval store implement an abstract lock, step by
   step, and what the compositions of point 1 promise, from the invariants of their parts.

Instances stay at two actors and one key each; runs that ask about the same instance are merged.

## Running

    tlc -workers 2 -config MCGatewayStores.cfg MCGatewayStores.tla
    tlc -workers 2 -config MCGatewayRecovery.cfg MCGatewayRecovery.tla
    tlc -workers 2 -config MCTaskBoard.cfg MCTaskBoard.tla
    tlc -workers 2 -config MCMissionsCancel.cfg MCMissions.tla
    tlapm IngressPipeline_proofs.tla
