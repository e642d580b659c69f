------------------------------ MODULE BoardStores ------------------------------
(* The stores of the task board: a chat process opens one for each command     *)
(* (cli/src/chat-orchestration.ts openBoardStore, cli/src/index.ts             *)
(* createChatBoardController), takes the writer lease (cli/src/                *)
(* board-runtime.ts), replays the log and appends events of its own.  A store  *)
(* stamps its events from the state it replayed when it was opened.            *)
EXTENDS KanbanBoard

CONSTANTS
    Chats,          \* chat processes, each with one life
    Slots,          \* the stores a process may have open at once
    Asked,          \* the tasks that commands are about
    Earlier,        \* the boards that earlier sessions may have left on file
    MaxLog,         \* bound on the sequence at which a user starts a command
    MaxCrashes,     \* bound on crashes
    MaxTorn,        \* bound on appends that a crash cuts short
    NoChat, Idle

\* An attempt runs inside the chat process that started it.
ASSUME StoresAssumption == Processes = Chats /\ IsFiniteSet(Slots) /\ NoChat \notin [by : Chats, filled : BOOLEAN]

VARIABLES
    file,           \* <session>.events.jsonl, as the fold of its lines
    lease,          \* the lease file: [by, filled], or NoChat
    chat,           \* life of each process, and its entry in ownedLeases
    store,          \* the open stores, and how far the command behind each is
    turn,           \* the executions that retries left running
    used            \* faults so far

storeVars == <<file, lease, chat, store, turn, used>>
Commands == {"mission", "assign", "retry", "cancel", "approve"}
Up(c) == chat[c].life = "up"
--------------------------------------------------------------------------------
\* One event, and what the reducer makes of it; e.by is the process behind it.
Ev(type, t, n, on, c) == [type |-> type, task |-> t, n |-> n, on |-> on, by |-> c]

Reduced(b, e) ==
    CASE e.type = "task_created" -> TaskCreated(b, e.task)
      [] e.type = "session_bound" -> SessionBound(b, e.task)
      [] e.type = "card_registered" -> CardRegistered(b, e.on.card)
      [] e.type = "task_ready" -> TaskReady(b, e.task)
      [] e.type = "task_assigned" -> TaskAssigned(b, e.task, e.on)
      [] e.type = "task_unassigned" -> TaskUnassigned(b, e.task)
      [] e.type = "task_escalated" -> TaskEscalated(b, e.task)
      [] e.type = "intervention_resolved" -> InterventionResolved(b, e.task, "ready")
      [] e.type = "attempt_started" -> AttemptStarted(b, e.task, e.on.agent, e.n)
      [] e.type = "process_started" -> ProcessStarted(b, e.task, e.n, e.by)
      [] e.type \in Finished -> AttemptEnded(b, e.task, e.n, e.type)
      [] e.type = "orphan_reaped" -> OrphanReaped(b, e.task, e.n, b.task[e.task].process[e.n])
      [] e.type = "review_rejected" -> ReviewRejected(b, e.task, Human)
      [] e.type = "review_accepted" -> ReviewAccepted(b, e.task, e.n)

\* The replay of one more line: the first event that is refused, for its
\* sequence number or by the reducer, ends it.
Folded(f, line) ==
    LET next == IF f.ended \/ line.seq # f.seq THEN {} ELSE Reduced(f.board, line.event)
    IN  IF next = {} THEN [f EXCEPT !.ended = TRUE, !.lost = TRUE]
        ELSE [f EXCEPT !.board = CHOOSE b \in next : TRUE, !.seq = @ + 1]

\* appendFsync: a line that was cut short swallows the next one, and the
\* unreadable result is skipped by every reader.
Appended(f, line) ==
    IF f.torn THEN [f EXCEPT !.torn = FALSE, !.lost = TRUE] ELSE Folded(f, line)
--------------------------------------------------------------------------------
\* Mutant: the process owns what it reaps.
Orphans_SameProcess(b, c) ==
    {o \in Tasks \X Attempts : /\ b.task[o[1]].history[o[2]] = "running"
                               /\ b.task[o[1]].process[o[2]] = c}

\* The attempts findRelaunchOrphans lists for a process.
Orphans(b, c) ==
    {o \in Tasks \X Attempts : /\ b.task[o[1]].history[o[2]] = "running"
                               /\ b.task[o[1]].process[o[2]] \notin {NoOne, c}}

\* runMissionCommand and runMissionWaves, for one task.
MissionEvents(s, b, t, c) ==
    LET Next(types) == {Ev(type, t, b.task[t].attempts + 1, s.on, c) : type \in types}
        routed == IF DependenciesDone(b, t) THEN Next({"task_ready"}) ELSE {}
    IN  CASE s.did = "none" /\ b.task[t].status = "absent" -> Next({"task_created"})
          [] s.did = "task_created" -> Next({"session_bound"})
          [] s.did = "session_bound" -> Next({"task_escalated"})
               \cup IF b.cards[s.on.card] = "unknown" THEN Next({"card_registered"}) ELSE routed
          [] s.did = "card_registered" -> routed
          [] s.did = "task_ready" -> Next({"task_assigned", "task_escalated"})
          [] s.did = "task_assigned" -> Next({"attempt_started"})
          [] s.did = "attempt_started" ->
               {Ev(type, t, s.n, s.on, c) : type \in {"process_started", "failed"}}
          [] s.did = "process_started" ->
               {Ev(type, t, s.n, s.on, c) : type \in {"completed", "failed"}}
          [] OTHER -> {}

\* runAssignCommand.
AssignEvents(s, b, t, c) ==
    LET status == b.task[t].status
        Next(type) == {Ev(type, t, 0, s.on, c)}
    IN  IF b.cards[s.on.card] = "unknown" THEN {} ELSE
        CASE s.did = "none" /\ status = "assigned" -> Next("task_unassigned")
          [] s.did = "none" /\ status = "needs_intervention" -> Next("intervention_resolved")
          [] status \in {"backlog", "blocked"} -> Next("task_ready")
          [] status = "ready" -> Next("task_assigned")
          [] OTHER -> {}

\* retry: every way back leads over "assigned" to a new attempt.
RetryEvents(s, b, t, c) ==
    LET status == b.task[t].status
        Next(type) == {Ev(type, t, b.task[t].attempts + 1, b.task[t].on, c)}
    IN  IF b.task[t].on = NoOne \/ s.did = "attempt_started" THEN {} ELSE
        CASE status = "review" -> Next("review_rejected")
          [] status = "blocked" -> Next("task_ready")
          [] status = "needs_intervention" -> Next("intervention_resolved")
          [] status = "ready" /\ s.did # "none" -> Next("task_assigned")
          [] status = "assigned" -> Next("attempt_started")
          [] OTHER -> {}

\* approve: the attempt that was current when the command began is accepted when
\* its checks pass and its work is merged, which takes a while.
ApproveEvents(s, b, t, c) ==
    IF s.did = "none" /\ b.task[t].status = "review" /\ b.task[t].current # 0
    THEN {Ev("review_accepted", t, b.task[t].current, NoOne, c)} ELSE {}

\* The end of an execution that a retry started.
ReportEvents(s, b, t, c) ==
    IF s.did = "none" /\ b.task[t].status = "in_progress" /\ b.task[t].current = s.n
    THEN {Ev(type, t, s.n, NoOne, c) :
            type \in IF b.task[t].process[s.n] = NoOne THEN {"failed"} ELSE {"completed", "failed"}}
    ELSE {}

\* What the command behind a store commits next, read from the store's own state.
EventsOf(s, b, c) ==
    CASE s.kind = "mission" -> MissionEvents(s, b, s.task, c)
      [] s.kind = "assign" -> AssignEvents(s, b, s.task, c)
      [] s.kind = "retry" -> RetryEvents(s, b, s.task, c)
      [] s.kind = "approve" -> ApproveEvents(s, b, s.task, c)
      [] s.kind = "report" -> ReportEvents(s, b, s.task, c)
      [] s.kind = "cancel" ->
           IF s.did = "none" /\ b.task[s.task].status = "in_progress" /\ b.task[s.task].current # 0
           THEN {Ev("cancelled", s.task, b.task[s.task].current, NoOne, c)} ELSE {}
      [] s.kind = "attach" ->
           IF s.did = "none" THEN {Ev("process_started", s.task, s.n, NoOne, c)} ELSE {}
      [] s.kind = "view" -> {Ev("orphan_reaped", o[1], o[2], NoOne, c) : o \in Orphans(b, c)}
--------------------------------------------------------------------------------
Stores == Chats \X Slots

StoresInit ==
    /\ \E b \in Earlier :
         file = [board |-> b, seq |-> 1, ended |-> FALSE, lost |-> FALSE, torn |-> FALSE]
    /\ lease = NoChat
    /\ chat = [c \in Chats |-> [life |-> "new", owns |-> FALSE]]
    /\ store = [s \in Stores |-> Idle]
    /\ turn = {}
    /\ used = [crashes |-> 0, torn |-> 0, raced |-> FALSE]

\* openBoardStore begins: a process that owns the lease has it at once.
Opening(c, kind, t, n, on) ==
    [phase |-> IF chat[c].owns THEN "load" ELSE "claim", kind |-> kind, task |-> t, n |-> n,
     on |-> on, board |-> Opened(file.board.limit), seq |-> 0, did |-> "none"]

Free(s) == store[s] = Idle /\ Up(s[1])

\* A user starts a command; one that the board refuses at once is left out.
OpenCommand(s, kind, t, on) ==
    /\ Free(s) /\ file.seq <= MaxLog
    /\ EventsOf(Opening(s[1], kind, t, 0, on), file.board, s[1]) # {}
    /\ store' = [store EXCEPT ![s] = Opening(s[1], kind, t, 0, on)]
    /\ UNCHANGED <<file, lease, chat, turn, used>>

\* The board is shown: loadView, or runBoardCommand of another process.
OpenView(s) ==
    \E t \in Asked :
        /\ Free(s)
        /\ store' = [store EXCEPT ![s] = Opening(s[1], "view", t, 0, NoOne)]
        /\ UNCHANGED <<file, lease, chat, turn, used>>

\* An execution that a retry left behind reports that it runs, or its result.
OpenFor(s, x) ==
    /\ Free(s) /\ x \in turn /\ x.by = s[1] /\ x.phase \in {"spawned", "returned"}
    /\ LET kind == IF x.phase = "spawned" THEN "attach" ELSE "report"
       IN  /\ store' = [store EXCEPT ![s] = Opening(s[1], kind, x.task, x.n, NoOne)]
           /\ turn' = (turn \ {x})
                \cup IF kind = "attach" THEN {[x EXCEPT !.phase = "attaching"]} ELSE {}
    /\ UNCHANGED <<file, lease, chat, used>>

TurnReturns(x) ==
    /\ x \in turn /\ x.phase \in {"spawned", "running"}
    /\ turn' = (turn \ {x}) \cup {[x EXCEPT !.phase = "returned"]}
    /\ UNCHANGED <<file, lease, chat, store, used>>

In(s, phase) == store[s] # Idle /\ store[s].phase = phase
Goto(s, phase) == store' = [store EXCEPT ![s].phase = phase]

\* The execution behind an attach goes on when the store is done with it; its
\* onProcessStarted callback has thrown when the event was not committed.
TurnAfter(s, attached) ==
    IF store[s].kind # "attach" THEN turn
    ELSE {IF x.by = s[1] /\ x.phase = "attaching" /\ x.task = store[s].task /\ x.n = store[s].n
          THEN [x EXCEPT !.phase = IF attached THEN "running" ELSE "returned"] ELSE x : x \in turn}

Close(s) == store' = [store EXCEPT ![s] = Idle] /\ turn' = TurnAfter(s, FALSE)

\* Mutant: the lease file is not opened exclusively.
Claim_Overwrites(s) ==
    /\ In(s, "claim")
    /\ lease' = [by |-> s[1], filled |-> FALSE] /\ Goto(s, "fill")
    /\ UNCHANGED <<file, chat, turn, used>>

\* claim(): the lease file is created exclusively, and filled afterwards.
Claim(s) ==
    /\ In(s, "claim")
    /\ IF lease = NoChat
       THEN lease' = [by |-> s[1], filled |-> FALSE] /\ Goto(s, "fill")
       ELSE Goto(s, "inspect") /\ UNCHANGED lease
    /\ UNCHANGED <<file, chat, turn, used>>

\* A file that was unlinked meanwhile is filled all the same, unseen.
Fill(s) ==
    /\ In(s, "fill")
    /\ lease' = IF lease # NoChat /\ lease.by = s[1] THEN [lease EXCEPT !.filled = TRUE] ELSE lease
    /\ chat' = [chat EXCEPT ![s[1]].owns = TRUE]
    /\ Goto(s, "load")
    /\ UNCHANGED <<file, turn, used>>

\* The file exists: its own process, a living one (read-only, so the command's
\* commit throws), or a stale one; a file that is not filled yet counts as stale.
Inspect(s) ==
    /\ In(s, "inspect")
    /\ IF lease # NoChat /\ lease.filled /\ lease.by = s[1]
       THEN /\ chat' = [chat EXCEPT ![s[1]].owns = TRUE]
            /\ Goto(s, "load") /\ UNCHANGED turn
       ELSE /\ IF lease # NoChat /\ lease.filled /\ Up(lease.by)
               THEN Close(s) ELSE Goto(s, "unlink") /\ UNCHANGED turn
            /\ UNCHANGED chat
    /\ UNCHANGED <<file, lease, used>>

\* unlink: whose file it is by now is not looked at again; it may be one that
\* another store of the same process is about to fill.
Unlink(s) ==
    /\ In(s, "unlink")
    /\ lease' = NoChat
    /\ used' = [used EXCEPT !.raced = @ \/ (lease # NoChat /\ Up(lease.by))]
    /\ Goto(s, "reclaim")
    /\ UNCHANGED <<file, chat, turn>>

\* The second claim() throws when somebody else was faster.
Reclaim(s) ==
    /\ In(s, "reclaim")
    /\ IF lease = NoChat
       THEN lease' = [by |-> s[1], filled |-> FALSE] /\ Goto(s, "fill") /\ UNCHANGED turn
       ELSE Close(s) /\ UNCHANGED lease
    /\ UNCHANGED <<file, chat, used>>

\* readBoardEvents and the replay of openBoardStore.
Load(s) ==
    /\ In(s, "load")
    /\ store' = [store EXCEPT ![s].phase = "work", ![s].board = file.board, ![s].seq = file.seq]
    /\ UNCHANGED <<file, lease, chat, turn, used>>

\* A retry that started an attempt leaves its execution running.
Spawned(s, e) ==
    IF store[s].kind = "retry" /\ e.type = "attempt_started"
    THEN turn \cup {[by |-> s[1], task |-> e.task, n |-> e.n, phase |-> "spawned"]}
    ELSE IF store[s].kind = "attach" THEN TurnAfter(s, TRUE) ELSE turn

\* commit of the store: reduce first, append only on acceptance; a refused
\* event throws and ends the command.
CommitEvent(s, e) ==
    LET next == Reduced(store[s].board, e)
    IN  IF next = {} THEN Close(s) /\ UNCHANGED file
        ELSE /\ file' = Appended(file, [seq |-> store[s].seq, event |-> e])
             /\ store' = [store EXCEPT ![s].board = CHOOSE b \in next : TRUE,
                                       ![s].seq = @ + 1, ![s].did = e.type, ![s].n = e.n]
             /\ turn' = Spawned(s, e)

\* A command may end early: the acceptance checks or the merge failed, no model
\* was selected, or no worktree could be made for the attempt.
MayStop(s) ==
    LET status == s.board.task[s.task].status
    IN  \/ s.kind = "approve"
        \/ s.kind = "assign" /\ status = "ready"
        \/ s.kind \in {"mission", "retry"} /\ status = "assigned"

Work(s) ==
    /\ In(s, "work")
    /\ LET events == EventsOf(store[s], store[s].board, s[1])
       IN  \/ \E e \in events : CommitEvent(s, e)
           \/ (events = {} \/ MayStop(store[s])) /\ Close(s) /\ UNCHANGED file
    /\ UNCHANGED <<lease, chat, used>>

StartChat(c) ==
    /\ chat[c].life = "new"
    /\ chat' = [chat EXCEPT ![c].life = "up"]
    /\ UNCHANGED <<file, lease, store, turn, used>>

\* A process dies, possibly in the middle of an append.
CrashChat(c) ==
    /\ Up(c) /\ used.crashes < MaxCrashes
    /\ chat' = [chat EXCEPT ![c] = [life |-> "down", owns |-> FALSE]]
    /\ store' = [s \in Stores |-> IF s[1] = c THEN Idle ELSE store[s]]
    /\ turn' = {x \in turn : x.by # c}
    /\ \E cut \in {0, 1} :
         /\ cut = 1 => used.torn < MaxTorn /\ \E s \in Stores : s[1] = c /\ In(s, "work")
         /\ file' = IF cut = 1 THEN [file EXCEPT !.torn = TRUE] ELSE file
         /\ used' = [used EXCEPT !.crashes = @ + 1, !.torn = @ + cut]
    /\ UNCHANGED lease

Acquire(s) == Claim(s) \/ Fill(s) \/ Inspect(s) \/ Unlink(s) \/ Reclaim(s) \/ Load(s)

StoresNext ==
    \/ \E s \in Stores :
         \/ \E kind \in Commands, t \in Asked, on \in Assignment : OpenCommand(s, kind, t, on)
         \/ OpenView(s) \/ (\E x \in turn : OpenFor(s, x))
         \/ Acquire(s) \/ Work(s)
    \/ \E x \in turn : TurnReturns(x)
    \/ \E c \in Chats : StartChat(c) \/ CrashChat(c)

StoresSpec == StoresInit /\ [][StoresNext]_storeVars

\* Stores and executions make progress, a new chat is started, and the board is
\* looked at again and again.
StoresFairness ==
    /\ \A s \in Stores : /\ WF_storeVars(Acquire(s)) /\ WF_storeVars(Work(s))
                         /\ SF_storeVars(OpenView(s))
                         /\ SF_storeVars(\E x \in turn : OpenFor(s, x))
    /\ WF_storeVars(\E x \in turn : TurnReturns(x))
    /\ \A c \in Chats : WF_storeVars(StartChat(c))
--------------------------------------------------------------------------------
\* The lease keeps a board to one writing process, whoever crashed before, as
\* long as no takeover unlinks the file of a living owner (acquireBoardLease).
OneWriter ==
    ~used.raced => \A c, d \in Chats :
        Up(c) /\ Up(d) /\ chat[c].owns /\ chat[d].owns => c = d

\* board-runtime.ts:34, "live owners force read-only": OneWriter without the
\* exception.  It fails: see the README.
LeaseIsExclusive ==
    \A c, d \in Chats : Up(c) /\ Up(d) /\ chat[c].owns /\ chat[d].owns => c = d

\* "Reduce first, append only on acceptance": what the only store at work holds
\* is what any reader of the file would see, through crashes and takeovers.
StoreMatchesFile ==
    Cardinality(Slots) = 1 /\ ~used.raced /\ used.torn = 0 =>
        \A s \in Stores : In(s, "work") =>
            store[s].board = file.board /\ store[s].seq = file.seq

\* Whoever writes is alone, and writes on top of what is on file.
OneWriterOnFile == OneWriter /\ StoreMatchesFile

\* agent-kanban.ts:5, "The board is reconstructable from its log alone": every
\* event that a store acknowledged is one the replay accepts.
AcknowledgedIsReplayed == ~file.lost

Running(t, n) == file.board.task[t].history[n] = "running"
Executing(t, n) == Running(t, n) /\ file.board.task[t].process[n] # NoOne

\* An attempt that is known to run in a process ends on the board: by its
\* result, by the user, or as an orphan when its process died.
AttemptsEnd ==
    \A t \in Asked, n \in Attempts :
        Executing(t, n) ~> (~Executing(t, n) \/ used.raced \/ used.torn > 0)

\* The same of every attempt that was started.  It fails: see the README.
StartedAttemptsEnd ==
    \A t \in Asked, n \in Attempts : Running(t, n) ~> ~Running(t, n)
================================================================================
