--------------------------- MODULE KanbanBoard_proofs ---------------------------
(* What the reducer of the task board keeps, whatever events are applied and   *)
(* for any tasks, dependencies, cards, agents and limits; and what its stores  *)
(* keep, for any processes, commands and crashes: the log has one writer.      *)
EXTENDS BoardStores, FiniteSetTheorems, TLAPS

\* Mutual facts of all events of a task but its creation: the task is open, it
\* enters the earned statuses only behind its dependencies, and what its
\* history says stays.
Legal(b, t, s) ==
    /\ Open(b, t)
    /\ s.status # "absent"
    /\ s.status \in Earned => b.task[t].status \in Earned \/ DependenciesDone(b, t)
    /\ b.task[t].attempts <= s.attempts
    /\ \A n \in Attempts : b.task[t].history[n] \in Finished =>
         s.history[n] = b.task[t].history[n]

LoadsMatch(b) ==
    /\ \A c \in Cards : b.cardLoad[c] = Cardinality({t \in Tasks : HoldsCard(b.task[t], c)})
    /\ \A a \in Agents : b.agentLoad[a] = Cardinality({t \in Tasks : HoldsAgent(b.task[t], a)})

Gated(b) == \A t \in Tasks : b.task[t].status \in Earned => DependenciesDone(b, t)

\* A task that was never created has no history.
Blank(b) == \A t \in Tasks : b.task[t].status = "absent" => b.task[t] = Absent

IInv == board \in Board /\ LoadsMatch(board) /\ Gated(board) /\ Blank(board)
--------------------------------------------------------------------------------
\* A task that was never created is a task state.
LEMMA AbsentIsState == Absent \in TaskState /\ [Absent EXCEPT !.status = "backlog"] \in TaskState
  <1>1. 0 \in 0 .. MaxAttempts
    BY BoardAssumption
  <1>2. [n \in Attempts |-> "none"] \in [Attempts -> {"none", "running"} \cup Finished]
    OBVIOUS
  <1>3. [n \in Attempts |-> NoOne] \in [Attempts -> Processes \cup {NoOne}]
    OBVIOUS
  <1>4. "backlog" \in KanbanStatus
    BY DEF KanbanStatus, Transitions
  <1>5. Absent \in TaskState
    BY <1>1, <1>2, <1>3 DEF Absent, TaskState
  <1> QED BY <1>4, <1>5 DEF TaskState

\* commit replaces one task, keeps cards and limits, and moves the loads.
LEMMA CommitEffect ==
  ASSUME NEW b \in Board, NEW t \in Tasks, NEW s \in TaskState, NEW next \in Commit(b, t, s)
  PROVE  /\ next \in Board
         /\ next.task = [b.task EXCEPT ![t] = s]
         /\ next.cardLoad = [c \in Cards |->
               Shifted(b.cardLoad[c], HoldsCard(b.task[t], c), HoldsCard(s, c))]
         /\ next.agentLoad = [a \in Agents |->
               Shifted(b.agentLoad[a], HoldsAgent(b.task[t], a), HoldsAgent(s, a))]
  <1> DEFINE cardLoad == [c \in Cards |->
               Shifted(b.cardLoad[c], HoldsCard(b.task[t], c), HoldsCard(s, c))]
             agentLoad == [a \in Agents |->
               Shifted(b.agentLoad[a], HoldsAgent(b.task[t], a), HoldsAgent(s, a))]
  <1>1. next = [b EXCEPT !.task[t] = s, !.cardLoad = cardLoad, !.agentLoad = agentLoad]
    BY DEF Commit, When
  <1>2. cardLoad \in [Cards -> Nat] /\ agentLoad \in [Agents -> Nat]
    BY DEF Board, Shifted
  <1>3. [b.task EXCEPT ![t] = s] \in [Tasks -> TaskState]
    BY DEF Board
  <1> HIDE DEF cardLoad, agentLoad
  <1>4. /\ next.task = [b.task EXCEPT ![t] = s]
        /\ next.cardLoad = cardLoad /\ next.agentLoad = agentLoad
        /\ next \in Board
    BY <1>1, <1>2, <1>3 DEF Board
  <1> QED BY <1>4 DEF cardLoad, agentLoad

\* The same of the tasks alone.
LEMMA CommitReplaces ==
  ASSUME NEW b \in Board, NEW t \in Tasks, NEW s \in TaskState, NEW next \in Commit(b, t, s)
  PROVE  next \in Board /\ next.task = [b.task EXCEPT ![t] = s]
  <1>1. /\ next \in Board
        /\ next.task = [b.task EXCEPT ![t] = s]
        /\ next.cardLoad = [c \in Cards |->
              Shifted(b.cardLoad[c], HoldsCard(b.task[t], c), HoldsCard(s, c))]
        /\ next.agentLoad = [a \in Agents |->
              Shifted(b.agentLoad[a], HoldsAgent(b.task[t], a), HoldsAgent(s, a))]
    BY CommitEffect
  <1> QED BY <1>1

\* Every event of a task creates it, or commits a legal state of it.
LEMMA TaskStepLegal ==
  ASSUME board \in Board, NEW t \in Tasks, TaskStep(t)
  PROVE  \/ board' \in TaskCreated(board, t)
         \/ \E s \in TaskState : Legal(board, t, s) /\ board' \in Commit(board, t, s)
  <1> DEFINE old == board.task[t]
             Goal == \E s \in TaskState : Legal(board, t, s) /\ board' \in Commit(board, t, s)
  <1>0. old \in TaskState
    BY DEF Board
  <1>a. MaxAttempts \in Nat /\ old.attempts \in Nat
    BY <1>0, BoardAssumption DEF TaskState
  <1>b. ASSUME NEW status \in KanbanStatus, Open(board, t),
               status \in Earned => old.status \in Earned \/ DependenciesDone(board, t),
               board' \in Moved(board, t, status)
        PROVE  Goal
    <2> DEFINE s == [old EXCEPT !.status = status]
    <2>1. s \in TaskState
      BY <1>0, <1>b DEF TaskState
    <2>2. s.status = status /\ s.attempts = old.attempts /\ s.history = old.history
      BY <1>0 DEF TaskState
    <2>3. Legal(board, t, s)
      BY <1>a, <1>b, <2>2 DEF Legal, KanbanStatus, Transitions
    <2> QED BY <1>b, <2>1, <2>3 DEF Moved
  <1>1. CASE board' \in TaskCreated(board, t)
    BY <1>1
  <1>2. CASE board' \in TaskReady(board, t)
    BY <1>2, <1>b DEF TaskReady, Open, KanbanStatus, Transitions
  <1>3. CASE board' \in TaskBlocked(board, t)
    BY <1>3, <1>b DEF TaskBlocked, Earned, KanbanStatus, Transitions
  <1>4. CASE board' \in TaskEscalated(board, t)
    BY <1>4, <1>b DEF TaskEscalated, Earned, KanbanStatus, Transitions
  <1>5. CASE \E to \in {"ready", "backlog", "blocked"} : board' \in InterventionResolved(board, t, to)
    BY <1>5, <1>b DEF InterventionResolved, Open, Earned, KanbanStatus, Transitions
  <1>6. CASE \E on \in Assignment : board' \in TaskAssigned(board, t, on)
    <2> PICK on \in Assignment : board' \in TaskAssigned(board, t, on) BY <1>6
    <2> DEFINE s == [old EXCEPT !.status = "assigned", !.on = on]
    <2>1. s \in TaskState
      BY <1>0 DEF TaskState, KanbanStatus, Transitions
    <2>2. s.status = "assigned" /\ s.attempts = old.attempts /\ s.history = old.history
      BY <1>0 DEF TaskState
    <2>3. old.status = "ready" /\ board' \in Commit(board, t, s)
      BY DEF TaskAssigned
    <2>4. Legal(board, t, s)
      BY <1>a, <2>2, <2>3 DEF Legal, Open, Earned
    <2> QED BY <2>1, <2>3, <2>4
  <1>7. CASE board' \in TaskUnassigned(board, t)
    <2> DEFINE s == [old EXCEPT !.status = "ready", !.on = NoOne]
    <2>1. s \in TaskState
      BY <1>0 DEF TaskState, KanbanStatus, Transitions
    <2>2. s.status = "ready" /\ s.attempts = old.attempts /\ s.history = old.history
      BY <1>0 DEF TaskState
    <2>3. old.status = "assigned" /\ board' \in Commit(board, t, s)
      BY <1>7 DEF TaskUnassigned
    <2>4. Legal(board, t, s)
      BY <1>a, <2>2, <2>3 DEF Legal, Open, Earned
    <2> QED BY <2>1, <2>3, <2>4
  <1>8. CASE board' \in SessionBound(board, t)
    <2> DEFINE s == [old EXCEPT !.bound = TRUE]
    <2>1. s \in TaskState
      BY <1>0 DEF TaskState
    <2>2. s.status = old.status /\ s.attempts = old.attempts /\ s.history = old.history
      BY <1>0 DEF TaskState
    <2>3. Open(board, t) /\ board' \in Commit(board, t, s)
      BY <1>8 DEF SessionBound
    <2>4. Legal(board, t, s)
      BY <1>a, <2>2, <2>3 DEF Legal, Open
    <2> QED BY <2>1, <2>3, <2>4
  <1>9. CASE \E a \in Agents, n \in Attempts : board' \in AttemptStarted(board, t, a, n)
    <2> PICK a \in Agents, n \in Attempts : board' \in AttemptStarted(board, t, a, n) BY <1>9
    <2> DEFINE s == [old EXCEPT !.status = "in_progress", !.attempts = @ + 1, !.current = n,
                                !.history[n] = "running"]
    <2>1. /\ old.status = "assigned" /\ old.attempts < MaxAttempts /\ old.history[n] = "none"
          /\ board' \in Commit(board, t, s)
      BY DEF AttemptStarted
    <2>2. /\ s.status = "in_progress" /\ s.attempts = old.attempts + 1
          /\ s.history = [old.history EXCEPT ![n] = "running"]
      BY <1>0 DEF TaskState
    <2>3. s \in TaskState
      <3>1. s.history \in [Attempts -> {"none", "running"} \cup Finished]
        BY <1>0, <2>2 DEF TaskState
      <3>2. old.attempts + 1 \in 0 .. MaxAttempts /\ n \in 0 .. MaxAttempts
        BY <1>0, <1>a, <2>1 DEF TaskState, Attempts
      <3> QED BY <1>0, <2>2, <3>1, <3>2 DEF TaskState, KanbanStatus, Transitions
    <2>4. \A m \in Attempts : old.history[m] \in Finished => s.history[m] = old.history[m]
      BY <1>0, <2>1, <2>2 DEF TaskState, Finished
    <2>5. Legal(board, t, s)
      BY <1>a, <2>1, <2>2, <2>4 DEF Legal, Open, Earned
    <2> QED BY <2>1, <2>3, <2>5
  <1>10. CASE \E a \in Agents : board' \in TaskStarted(board, t, a)
    <2> PICK a \in Agents : board' \in TaskStarted(board, t, a) BY <1>10
    <2> DEFINE s == [old EXCEPT !.status = "in_progress", !.attempts = @ + 1]
    <2>1. /\ old.status = "assigned" /\ old.attempts < MaxAttempts
          /\ board' \in Commit(board, t, s)
      BY DEF TaskStarted
    <2>2. /\ s.status = "in_progress" /\ s.attempts = old.attempts + 1
          /\ s.history = old.history
      BY <1>0 DEF TaskState
    <2>3. s \in TaskState
      <3>1. old.attempts + 1 \in 0 .. MaxAttempts
        BY <1>0, <1>a, <2>1 DEF TaskState
      <3> QED BY <1>0, <2>2, <3>1 DEF TaskState, KanbanStatus, Transitions
    <2>4. Legal(board, t, s)
      BY <1>a, <2>1, <2>2 DEF Legal, Open, Earned
    <2> QED BY <2>1, <2>3, <2>4
  <1>11. CASE \E n \in Attempts, p \in Processes : board' \in ProcessStarted(board, t, n, p)
    <2> PICK n \in Attempts, p \in Processes : board' \in ProcessStarted(board, t, n, p) BY <1>11
    <2> DEFINE s == [old EXCEPT !.process[n] = p]
    <2>1. Open(board, t) /\ board' \in Commit(board, t, s)
      BY DEF ProcessStarted
    <2>2. s.status = old.status /\ s.attempts = old.attempts /\ s.history = old.history
      BY <1>0 DEF TaskState
    <2>3. s \in TaskState
      BY <1>0 DEF TaskState
    <2>4. Legal(board, t, s)
      BY <1>a, <2>1, <2>2 DEF Legal, Open
    <2> QED BY <2>1, <2>3, <2>4
  <1>c. ASSUME NEW status \in {"review", "blocked"}, NEW n \in Attempts, NEW verdict \in Finished,
               Open(board, t), status = "review" => old.status = "in_progress",
               old.history[n] = "running",
               board' \in Commit(board, t, [old EXCEPT !.status = status, !.history[n] = verdict])
        PROVE  Goal
    <2> DEFINE s == [old EXCEPT !.status = status, !.history[n] = verdict]
    <2>1. /\ s.status = status /\ s.attempts = old.attempts
          /\ s.history = [old.history EXCEPT ![n] = verdict]
      BY <1>0 DEF TaskState
    <2>2. s \in TaskState
      <3>1. s.history \in [Attempts -> {"none", "running"} \cup Finished]
        BY <1>0, <1>c, <2>1 DEF TaskState
      <3> QED BY <1>0, <1>c, <2>1, <3>1 DEF TaskState, KanbanStatus, Transitions
    <2>3. \A m \in Attempts : old.history[m] \in Finished => s.history[m] = old.history[m]
      BY <1>0, <1>c, <2>1 DEF TaskState, Finished
    <2>4. Legal(board, t, s)
      BY <1>a, <1>c, <2>1, <2>3 DEF Legal, Earned
    <2> QED BY <1>c, <2>2, <2>4
  <1>12. CASE \E n \in Attempts, v \in Finished : board' \in AttemptEnded(board, t, n, v)
    <2> PICK n \in Attempts, v \in Finished : board' \in AttemptEnded(board, t, n, v) BY <1>12
    <2> DEFINE status == IF v = "completed" THEN "review" ELSE "blocked"
    <2>1. /\ old.status = "in_progress" /\ old.history[n] = "running"
          /\ board' \in Commit(board, t, [old EXCEPT !.status = status, !.history[n] = v])
      BY DEF AttemptEnded
    <2>2. Open(board, t) /\ status \in {"review", "blocked"}
      BY <2>1 DEF Open
    <2> HIDE DEF status
    <2> QED BY <1>c, <2>1, <2>2
  <1>13. CASE \E n \in Attempts, p \in Processes : board' \in OrphanReaped(board, t, n, p)
    <2> PICK n \in Attempts, p \in Processes : board' \in OrphanReaped(board, t, n, p) BY <1>13
    <2>1. /\ Open(board, t) /\ old.history[n] = "running"
          /\ board' \in Commit(board, t, [old EXCEPT !.status = "blocked", !.history[n] = "failed"])
      BY DEF OrphanReaped
    <2> QED BY <1>c, <2>1 DEF Finished
  <1>14. CASE board' \in SubmittedForReview(board, t)
    BY <1>14, <1>b DEF SubmittedForReview, Open, Earned, KanbanStatus, Transitions
  <1>15. CASE \E r \in Agents \cup {Human} : board' \in ReviewRejected(board, t, r)
    BY <1>15, <1>b DEF ReviewRejected, Open, Earned, KanbanStatus, Transitions
  <1>16. CASE \E n \in Attempts : board' \in ReviewAccepted(board, t, n)
    BY <1>16, <1>b DEF ReviewAccepted, Open, Earned, KanbanStatus, Transitions
  <1>17. CASE \E r \in Agents \cup {Human} : board' \in TaskCompleted(board, t, r)
    BY <1>17, <1>b DEF TaskCompleted, Open, Earned, KanbanStatus, Transitions
  <1> QED
    BY <1>1, <1>2, <1>3, <1>4, <1>5, <1>6, <1>7, <1>8, <1>9, <1>10, <1>11, <1>12, <1>13,
       <1>14, <1>15, <1>16, <1>17, Zenon DEF TaskStep

\* Taking one element in or out of a set of tasks moves its cardinality as bump
\* moves the load.
LEMMA ShiftCounts ==
  ASSUME NEW A \in SUBSET Tasks, NEW B \in SUBSET Tasks, NEW t \in Tasks, A \ {t} = B \ {t},
         NEW had \in BOOLEAN, NEW has \in BOOLEAN, had <=> t \in A, has <=> t \in B
  PROVE  Cardinality(B) = Shifted(Cardinality(A), had, has)
  <1>1. IsFiniteSet(A) /\ IsFiniteSet(B)
    BY BoardAssumption, FS_Subset
  <1>2. Cardinality(A) \in Nat /\ Cardinality(B) \in Nat
    BY <1>1, FS_CardinalityType
  <1>3. CASE t \in A /\ t \in B
    <2>1. A = B BY <1>3
    <2> QED BY <1>3, <2>1 DEF Shifted
  <1>4. CASE t \notin A /\ t \notin B
    <2>1. A = B BY <1>4
    <2> QED BY <1>4, <2>1 DEF Shifted
  <1>5. CASE t \notin A /\ t \in B
    <2>1. B = A \cup {t} BY <1>5
    <2>2. Cardinality(B) = Cardinality(A) + 1 BY <1>1, <1>5, <2>1, FS_AddElement
    <2> QED BY <1>5, <2>2 DEF Shifted
  <1>6. CASE t \in A /\ t \notin B
    <2>1. B = A \ {t} BY <1>6
    <2>2. Cardinality(B) = Cardinality(A) - 1 BY <1>1, <1>6, <2>1, FS_RemoveElement
    <2>3. Cardinality(A) > 0 BY <1>2, <2>2
    <2> QED BY <1>2, <1>6, <2>2, <2>3 DEF Shifted
  <1> QED BY <1>3, <1>4, <1>5, <1>6

\* Replacing one task moves the loads of cards and agents to what the tasks say.
LEMMA LoadsFollow ==
  ASSUME NEW b \in Board, NEW t \in Tasks, NEW s \in TaskState, LoadsMatch(b),
         NEW next \in Commit(b, t, s)
  PROVE  LoadsMatch(next)
  <1>0. /\ next.task = [b.task EXCEPT ![t] = s]
        /\ next.cardLoad = [c \in Cards |->
              Shifted(b.cardLoad[c], HoldsCard(b.task[t], c), HoldsCard(s, c))]
        /\ next.agentLoad = [a \in Agents |->
              Shifted(b.agentLoad[a], HoldsAgent(b.task[t], a), HoldsAgent(s, a))]
    BY CommitEffect
  <1>1. b.task \in [Tasks -> TaskState]
    BY DEF Board
  <1>2. next.task[t] = s /\ \A u \in Tasks \ {t} : next.task[u] = b.task[u]
    BY <1>0, <1>1
  <1>3. ASSUME NEW c \in Cards
        PROVE  next.cardLoad[c] = Cardinality({u \in Tasks : HoldsCard(next.task[u], c)})
    <2> DEFINE A == {u \in Tasks : HoldsCard(b.task[u], c)}
               B == {u \in Tasks : HoldsCard(next.task[u], c)}
    <2>1. A \ {t} = B \ {t} BY <1>2
    <2>2. (t \in A <=> HoldsCard(b.task[t], c)) /\ (t \in B <=> HoldsCard(s, c)) BY <1>2
    <2>3. A \in SUBSET Tasks /\ B \in SUBSET Tasks OBVIOUS
    <2>4. b.cardLoad[c] = Cardinality(A) BY DEF LoadsMatch
    <2>5. next.cardLoad[c] = Shifted(Cardinality(A), HoldsCard(b.task[t], c), HoldsCard(s, c))
      BY <1>0, <2>4
    <2>6. HoldsCard(b.task[t], c) \in BOOLEAN /\ HoldsCard(s, c) \in BOOLEAN
      BY DEF HoldsCard
    <2> HIDE DEF A, B
    <2>7. Cardinality(B) = Shifted(Cardinality(A), HoldsCard(b.task[t], c), HoldsCard(s, c))
      BY <2>1, <2>2, <2>3, <2>6, ShiftCounts, Zenon
    <2> QED BY <2>5, <2>7, Zenon DEF B
  <1>4. ASSUME NEW a \in Agents
        PROVE  next.agentLoad[a] = Cardinality({u \in Tasks : HoldsAgent(next.task[u], a)})
    <2> DEFINE A == {u \in Tasks : HoldsAgent(b.task[u], a)}
               B == {u \in Tasks : HoldsAgent(next.task[u], a)}
    <2>1. A \ {t} = B \ {t} BY <1>2
    <2>2. (t \in A <=> HoldsAgent(b.task[t], a)) /\ (t \in B <=> HoldsAgent(s, a)) BY <1>2
    <2>3. A \in SUBSET Tasks /\ B \in SUBSET Tasks OBVIOUS
    <2>4. b.agentLoad[a] = Cardinality(A) BY DEF LoadsMatch
    <2>5. next.agentLoad[a] = Shifted(Cardinality(A), HoldsAgent(b.task[t], a), HoldsAgent(s, a))
      BY <1>0, <2>4
    <2>6. HoldsAgent(b.task[t], a) \in BOOLEAN /\ HoldsAgent(s, a) \in BOOLEAN
      BY DEF HoldsAgent
    <2> HIDE DEF A, B
    <2>7. Cardinality(B) = Shifted(Cardinality(A), HoldsAgent(b.task[t], a), HoldsAgent(s, a))
      BY <2>1, <2>2, <2>3, <2>6, ShiftCounts, Zenon
    <2> QED BY <2>5, <2>7, Zenon DEF B
  <1> QED BY <1>3, <1>4 DEF LoadsMatch

\* A legal commit leaves every task behind what it depends on: the task it moves
\* was not done, so no other task relied on it.
LEMMA GatesFollow ==
  ASSUME NEW b \in Board, NEW t \in Tasks, NEW s \in TaskState, Gated(b), Legal(b, t, s),
         NEW next \in Commit(b, t, s)
  PROVE  Gated(next)
  <1>0. b.task \in [Tasks -> TaskState]
    BY DEF Board
  <1>1. next.task = [b.task EXCEPT ![t] = s]
    BY CommitReplaces
  <1>2. next.task[t] = s /\ \A u \in Tasks \ {t} : next.task[u] = b.task[u]
    BY <1>0, <1>1
  <1>3. b.task[t].status # "done"
    BY DEF Legal, Open
  <1>4. \A u \in Tasks : DependsOn[u] \subseteq Tasks
    BY BoardAssumption
  <1>5. \A u \in Tasks : DependenciesDone(b, u) => DependenciesDone(next, u)
    BY <1>2, <1>3, <1>4 DEF DependenciesDone
  <1>6. \A u \in Tasks : next.task[u].status \in Earned => DependenciesDone(b, u)
    BY <1>2 DEF Gated, Legal
  <1> QED BY <1>5, <1>6 DEF Gated

\* The creation of a task is the replacement of a state that holds no load.
LEMMA CreationKeeps ==
  ASSUME board \in Board, NEW t \in Tasks, board' \in TaskCreated(board, t)
  PROVE  /\ board' \in Board
         /\ board.task[t].status = "absent"
         /\ board'.task = [board.task EXCEPT ![t] = [Absent EXCEPT !.status = "backlog"]]
         /\ board'.cardLoad = board.cardLoad /\ board'.agentLoad = board.agentLoad
  <1> DEFINE s == [Absent EXCEPT !.status = "backlog"]
  <1>1. board.task[t].status = "absent" /\ board' = [board EXCEPT !.task[t] = s]
    BY DEF TaskCreated, When
  <1>2. s \in TaskState
    BY AbsentIsState
  <1> HIDE DEF s
  <1>3. board'.task = [board.task EXCEPT ![t] = s] /\ board' \in Board
    BY <1>1, <1>2 DEF Board
  <1>4. board'.cardLoad = board.cardLoad /\ board'.agentLoad = board.agentLoad
    BY <1>1 DEF Board
  <1> QED BY <1>1, <1>3, <1>4 DEF s

\* The events of cards and limits touch neither tasks nor loads.
LEMMA CardStepKeeps ==
  ASSUME board \in Board, NEW c \in Cards, CardStep(c)
  PROVE  /\ board' \in Board /\ board'.task = board.task
         /\ board'.cardLoad = board.cardLoad /\ board'.agentLoad = board.agentLoad
  <1>1. CASE board' \in CardRegistered(board, c)
    BY <1>1 DEF CardRegistered, Board
  <1>2. CASE board' \in CardRetired(board, c)
    BY <1>2 DEF CardRetired, When, Board
  <1>3. CASE \E n \in Limits : board' \in WipLimitSet(board, c, n)
    BY <1>3 DEF WipLimitSet, Board
  <1> QED BY <1>1, <1>2, <1>3 DEF CardStep
--------------------------------------------------------------------------------
\* A new board satisfies the invariant.
LEMMA InitIsSound == BoardInit => IInv
  <1> SUFFICES ASSUME NEW n \in Limits, board = Opened([c \in Cards |-> n]) PROVE IInv
    BY DEF BoardInit
  <1>1. /\ board.task = [t \in Tasks |-> Absent]
        /\ board.cardLoad = [c \in Cards |-> 0] /\ board.agentLoad = [a \in Agents |-> 0]
    BY DEF Opened
  <1>2. board \in Board
    BY <1>1, AbsentIsState DEF Board, Opened
  <1>3. Absent.status = "absent"
    BY DEF Absent
  <1>4. /\ \A c \in Cards : {t \in Tasks : HoldsCard(board.task[t], c)} = {}
        /\ \A a \in Agents : {t \in Tasks : HoldsAgent(board.task[t], a)} = {}
    BY <1>1, <1>3 DEF HoldsCard, HoldsAgent, Capacity
  <1>5. LoadsMatch(board)
    BY <1>1, <1>4, FS_EmptySet DEF LoadsMatch
  <1>6. Gated(board) /\ Blank(board)
    BY <1>1, <1>3 DEF Gated, Earned, Blank
  <1> QED BY <1>2, <1>5, <1>6 DEF IInv

\* Every event keeps the invariant.
LEMMA StepIsSound == IInv /\ [BoardNext]_board => IInv'
  <1> SUFFICES ASSUME IInv, [BoardNext]_board PROVE IInv'
    OBVIOUS
  <1> USE DEF IInv
  <1>1. ASSUME NEW t \in Tasks, board' \in TaskCreated(board, t) PROVE IInv'
    <2> DEFINE s == [Absent EXCEPT !.status = "backlog"]
    <2>1. /\ board' \in Board /\ board.task[t].status = "absent"
          /\ board'.task = [board.task EXCEPT ![t] = s] /\ board.task \in [Tasks -> TaskState]
          /\ board'.cardLoad = board.cardLoad /\ board'.agentLoad = board.agentLoad
      BY <1>1, CreationKeeps DEF Board
    <2>2. s.status = "backlog"
      BY DEF Absent
    <2> HIDE DEF s
    <2>3. board'.task[t] = s /\ \A u \in Tasks \ {t} : board'.task[u] = board.task[u]
      BY <2>1
    <2>4. /\ \A u \in Tasks, c \in Cards :
               HoldsCard(board'.task[u], c) <=> HoldsCard(board.task[u], c)
          /\ \A u \in Tasks, a \in Agents :
               HoldsAgent(board'.task[u], a) <=> HoldsAgent(board.task[u], a)
      BY <2>1, <2>2, <2>3 DEF HoldsCard, HoldsAgent, Capacity
    <2>5. /\ \A c \in Cards : {u \in Tasks : HoldsCard(board'.task[u], c)}
                            = {u \in Tasks : HoldsCard(board.task[u], c)}
          /\ \A a \in Agents : {u \in Tasks : HoldsAgent(board'.task[u], a)}
                             = {u \in Tasks : HoldsAgent(board.task[u], a)}
      BY <2>4
    <2>6. LoadsMatch(board')
      BY <2>1, <2>5 DEF LoadsMatch
    <2>7. \A u \in Tasks : DependsOn[u] \subseteq Tasks
      BY BoardAssumption
    <2>8. Gated(board')
      BY <2>1, <2>2, <2>3, <2>7 DEF Gated, Earned, DependenciesDone
    <2>9. Blank(board')
      BY <2>2, <2>3 DEF Blank
    <2> QED BY <2>1, <2>6, <2>8, <2>9
  <1>2. ASSUME NEW t \in Tasks, NEW s \in TaskState, Legal(board, t, s),
               board' \in Commit(board, t, s)
        PROVE  IInv'
    <2>1. board.task \in [Tasks -> TaskState]
      BY DEF Board
    <2>2. board' \in Board /\ board'.task = [board.task EXCEPT ![t] = s]
      BY <1>2, CommitReplaces
    <2>3. LoadsMatch(board')
      BY <1>2, LoadsFollow
    <2>4. Gated(board')
      BY <1>2, GatesFollow
    <2>5. Blank(board')
      BY <1>2, <2>1, <2>2 DEF Blank, Legal
    <2> QED BY <2>2, <2>3, <2>4, <2>5
  <1>3. ASSUME NEW t \in Tasks, TaskStep(t) PROVE IInv'
    BY <1>1, <1>2, <1>3, TaskStepLegal
  <1>4. ASSUME NEW c \in Cards, CardStep(c) PROVE IInv'
    BY <1>4, CardStepKeeps DEF LoadsMatch, Gated, DependenciesDone, Blank
  <1>5. CASE UNCHANGED board
    BY <1>5
  <1> QED BY <1>3, <1>4, <1>5 DEF BoardNext

\* The inductive invariant holds of every board a log can describe.
THEOREM Invariance == BoardSpec => []IInv
  BY InitIsSound, StepIsSound, PTL DEF BoardSpec

\* Every board is well typed.
THEOREM TypeCorrect == BoardSpec => []BoardTypeOK
  <1>1. IInv => BoardTypeOK
    BY DEF IInv, BoardTypeOK
  <1> QED BY <1>1, Invariance, PTL

\* Load never drifts from what the tasks say (the comment in commit).
THEOREM LoadIsTrue == BoardSpec => []LoadMatchesStatus
  <1>1. IInv => LoadMatchesStatus
    BY DEF IInv, LoadsMatch, LoadMatchesStatus
  <1> QED BY <1>1, Invariance, PTL

\* No task stands behind "ready" while one it depends on is unfinished.
THEOREM DependenciesGate == BoardSpec => []WorkIsEarned
  <1>1. IInv => WorkIsEarned
    BY DEF IInv, Gated, WorkIsEarned
  <1> QED BY <1>1, Invariance, PTL

\* No event rewrites a finished attempt or a done task, or takes back an attempt.
THEOREM HistoryStands == BoardSpec => HistoryIsFinal
  <1> DEFINE Kept(t) ==
         /\ board.task[t].status = "done" => board'.task[t] = board.task[t]
         /\ board.task[t].attempts <= board'.task[t].attempts
         /\ \A n \in Attempts : board.task[t].history[n] \in Finished =>
              board'.task[t].history[n] = board.task[t].history[n]
  <1>1. ASSUME IInv, [BoardNext]_board, NEW t \in Tasks PROVE Kept(t)
    <2>0. board \in Board
      BY <1>1 DEF IInv
    <2>1. board.task \in [Tasks -> TaskState] /\ board.task[t] \in TaskState
      BY <2>0 DEF Board
    <2>2. board.task[t].attempts \in Int
      BY <2>1, BoardAssumption DEF TaskState
    <2>3. ASSUME board'.task[t] = board.task[t] PROVE Kept(t)
      BY <2>2, <2>3
    <2>4. ASSUME NEW u \in Tasks, board' \in TaskCreated(board, u) PROVE Kept(t)
      <3>1. CASE u # t
        BY <2>0, <2>1, <2>3, <2>4, <3>1, CreationKeeps
      <3>2. CASE u = t
        <4>1. board.task[t] = Absent /\ board.task[t].status = "absent"
          BY <1>1, <2>0, <2>4, <3>2, CreationKeeps DEF IInv, Blank
        <4>2. board'.task[t] = [Absent EXCEPT !.status = "backlog"]
          BY <2>0, <2>1, <2>4, <3>2, CreationKeeps
        <4>3. board'.task[t].attempts = Absent.attempts /\ board'.task[t].history = Absent.history
          BY <4>2 DEF Absent
        <4> QED BY <2>2, <4>1, <4>3
      <3> QED BY <3>1, <3>2
    <2>5. ASSUME NEW u \in Tasks, NEW s \in TaskState, Legal(board, u, s),
                 board' \in Commit(board, u, s)
          PROVE  Kept(t)
      <3>1. board'.task = [board.task EXCEPT ![u] = s]
        BY <2>0, <2>5, CommitReplaces
      <3>2. CASE u # t
        BY <2>1, <2>3, <3>1, <3>2
      <3>3. CASE u = t
        BY <2>1, <2>5, <3>1, <3>3 DEF Legal, Open
      <3> QED BY <3>2, <3>3
    <2>6. ASSUME NEW u \in Tasks, TaskStep(u) PROVE Kept(t)
      BY <2>0, <2>4, <2>5, <2>6, TaskStepLegal
    <2>7. ASSUME NEW c \in Cards, CardStep(c) PROVE Kept(t)
      BY <2>0, <2>3, <2>7, CardStepKeeps
    <2> QED BY <1>1, <2>3, <2>6, <2>7 DEF BoardNext
  <1>2. IInv /\ [BoardNext]_board => [\A t \in Tasks : Kept(t)]_board
    BY <1>1
  <1> QED BY <1>2, Invariance, PTL DEF BoardSpec, HistoryIsFinal

--------------------------------------------------------------------------------
(* The stores: for any number of chat processes, of stores that each of them   *)
(* has open, of crashes and torn appends.                                      *)

LeaseFile == [by : Chats, filled : BOOLEAN]
Phases == {"claim", "fill", "inspect", "unlink", "reclaim", "load", "work"}

\* The parts of the state that the lease and the log are about.
StoresTyped ==
    /\ lease \in LeaseFile \cup {NoChat}
    /\ chat \in [Chats -> [life : {"new", "up", "down"}, owns : BOOLEAN]]
    /\ used \in [crashes : Nat, torn : Nat, raced : BOOLEAN]
    /\ DOMAIN file = {"board", "seq", "ended", "lost", "torn"}
    /\ DOMAIN store = Stores
    /\ \A s \in Stores : store[s] # Idle =>
         /\ DOMAIN store[s] = {"phase", "kind", "task", "n", "on", "board", "seq", "did"}
         /\ store[s].phase \in Phases

\* A store is open only in a living process, and reads or writes the log only
\* when its process is in ownedLeases.
OpenInOwner ==
    /\ \A s \in Stores : store[s] # Idle => Up(s[1])
    /\ \A s \in Stores : In(s, "load") \/ In(s, "work") => chat[s[1]].owns
    /\ \A c \in Chats : chat[c].owns => Up(c)

\* As long as no takeover went wrong, the lease file names whoever owns it, or is
\* about to when its store has filled it.
FileNamesOwner ==
    ~used.raced =>
      /\ \A c \in Chats : chat[c].owns => lease # NoChat /\ lease.by = c
      /\ \A s \in Stores : In(s, "fill") => lease # NoChat /\ lease.by = s[1]

\* As long as, besides, no append was cut short, the whole file is replayed.
FileIsWhole ==
    used.torn = 0 => /\ ~file.torn
                     /\ Cardinality(Slots) = 1 /\ ~used.raced => ~file.ended

StoresInv == StoresTyped /\ OpenInOwner /\ FileNamesOwner /\ FileIsWhole /\ StoreMatchesFile

LEMMA StoresInitInv == StoresInit => StoresInv
  <1> SUFFICES ASSUME StoresInit PROVE StoresInv
    OBVIOUS
  <1>1. \A s \in Stores : store[s] = Idle
    BY DEF StoresInit
  <1>2. StoresTyped
    BY <1>1 DEF StoresInit, StoresTyped
  <1>3. OpenInOwner
    BY <1>1 DEF StoresInit, OpenInOwner, In
  <1>4. FileNamesOwner
    BY <1>1 DEF StoresInit, FileNamesOwner, In
  <1>5. FileIsWhole /\ StoreMatchesFile
    BY <1>1 DEF StoresInit, FileIsWhole, StoreMatchesFile, In
  <1> QED BY <1>2, <1>3, <1>4, <1>5 DEF StoresInv

\* The owner of an unraced lease is one process, and it has one store at work
\* when it may have one store at all.
LEMMA OneOwner == StoresTyped /\ FileNamesOwner => OneWriter
  BY DEF StoresTyped, FileNamesOwner, OneWriter

LEMMA OneStore ==
  ASSUME StoresTyped, OpenInOwner, FileNamesOwner, ~used.raced, Cardinality(Slots) = 1,
         NEW r \in Stores, NEW s \in Stores, chat[r[1]].owns, chat[s[1]].owns
  PROVE  r = s
  <1>1. \E x : Slots = {x}
    BY StoresAssumption, FS_Singleton
  <1>2. r[1] = s[1]
    BY DEF FileNamesOwner, Stores
  <1> QED BY <1>1, <1>2 DEF Stores

\* What a step makes of one store, the others staying as they are: a phase, or Idle.
Becomes(s, phases) ==
    /\ DOMAIN store' = Stores
    /\ \A r \in Stores \ {s} : store'[r] = store[r]
    /\ store'[s] # Idle =>
         /\ DOMAIN store'[s] = {"phase", "kind", "task", "n", "on", "board", "seq", "did"}
         /\ store'[s].phase \in phases

LEMMA OpeningFact ==
  ASSUME StoresTyped, NEW s \in Stores, NEW kind, NEW t, NEW n, NEW on,
         store' = [store EXCEPT ![s] = Opening(s[1], kind, t, n, on)]
  PROVE  Becomes(s, IF chat[s[1]].owns THEN {"load"} ELSE {"claim"})
  BY DEF StoresTyped, Becomes, Opening

LEMMA GotoFact ==
  ASSUME StoresTyped, NEW s \in Stores, store[s] # Idle, NEW p, Goto(s, p)
  PROVE  Becomes(s, {p})
  BY DEF StoresTyped, Becomes, Goto

LEMMA CloseFact ==
  ASSUME StoresTyped, NEW s \in Stores, Close(s)
  PROVE  Becomes(s, {})
  BY DEF StoresTyped, Becomes, Close

LEMMA LoadFact ==
  ASSUME StoresTyped, NEW s \in Stores, Load(s)
  PROVE  /\ Becomes(s, {"work"})
         /\ store'[s].board = file.board /\ store'[s].seq = file.seq
         /\ UNCHANGED <<file, lease, chat, turn, used>>
  BY DEF StoresTyped, Becomes, Load, In

\* A commit either ends the command or does to the store what it does to a file
\* that is whole and says the same.
LEMMA CommitFact ==
  ASSUME StoresTyped, NEW s \in Stores, In(s, "work"), NEW e, CommitEvent(s, e)
  PROVE  \/ Becomes(s, {}) /\ file' = file
         \/ /\ Becomes(s, {"work"})
            /\ DOMAIN file' = {"board", "seq", "ended", "lost", "torn"}
            /\ ~file.torn => ~file'.torn
            /\ /\ ~file.torn /\ ~file.ended
               /\ store[s].board = file.board /\ store[s].seq = file.seq
               => /\ ~file'.ended /\ store'[s].board = file'.board /\ store'[s].seq = file'.seq
  <1> DEFINE next == Reduced(store[s].board, e)
             line == [seq |-> store[s].seq, event |-> e]
             accepted == CHOOSE b \in next : TRUE
  <1>1. CASE next = {}
    <2>1. Close(s) /\ file' = file
      BY <1>1 DEF CommitEvent
    <2> QED BY <2>1, CloseFact
  <1>2. CASE next # {}
    <2>1. /\ file' = Appended(file, line)
          /\ store' = [store EXCEPT ![s].board = accepted, ![s].seq = @ + 1,
                                    ![s].did = e.type, ![s].n = e.n]
      BY <1>2 DEF CommitEvent
    <2>2. /\ DOMAIN store[s] = {"phase", "kind", "task", "n", "on", "board", "seq", "did"}
          /\ store[s].phase = "work" /\ DOMAIN store = Stores
      BY DEF StoresTyped, In
    <2> HIDE DEF accepted
    <2>3. store'[s] = [store[s] EXCEPT !.board = accepted, !.seq = store[s].seq + 1,
                                       !.did = e.type, !.n = e.n]
      BY <2>1, <2>2
    <2>4. /\ store'[s].board = accepted /\ store'[s].seq = store[s].seq + 1
          /\ store'[s].phase = "work"
          /\ DOMAIN store'[s] = {"phase", "kind", "task", "n", "on", "board", "seq", "did"}
      BY <2>2, <2>3
    <2>5. Becomes(s, {"work"})
      BY <2>1, <2>2, <2>4 DEF Becomes
    <2>6. DOMAIN file = {"board", "seq", "ended", "lost", "torn"}
      BY DEF StoresTyped
    <2>7. CASE file.torn
      <3>1. file' = [file EXCEPT !.torn = FALSE, !.lost = TRUE]
        BY <2>1, <2>7 DEF Appended
      <3>2. DOMAIN file' = {"board", "seq", "ended", "lost", "torn"}
        BY <2>6, <3>1
      <3> QED BY <2>5, <2>7, <3>2
    <2>8. CASE ~file.torn
      <3>1. file' = Folded(file, line)
        BY <2>1, <2>8 DEF Appended
      <3>2. ASSUME file.ended \/ line.seq # file.seq \/ Reduced(file.board, e) = {}
            PROVE  file' = [file EXCEPT !.ended = TRUE, !.lost = TRUE]
        BY <3>1, <3>2 DEF Folded
      <3>3. ASSUME ~(file.ended \/ line.seq # file.seq), Reduced(file.board, e) # {}
            PROVE  file' = [file EXCEPT !.board = CHOOSE b \in Reduced(file.board, e) : TRUE,
                                        !.seq = file.seq + 1]
        BY <3>1, <3>3 DEF Folded
      <3>4. /\ DOMAIN file' = {"board", "seq", "ended", "lost", "torn"}
            /\ file'.torn = file.torn
        BY <2>6, <3>2, <3>3
      <3>5. ASSUME ~file.ended, store[s].board = file.board, store[s].seq = file.seq
            PROVE  ~file'.ended /\ file'.board = accepted /\ file'.seq = store[s].seq + 1
        <4>1. next = Reduced(file.board, e) /\ line.seq = file.seq
          BY <3>5
        <4>2. accepted = CHOOSE b \in Reduced(file.board, e) : TRUE
          BY <4>1 DEF accepted
        <4>3. file' = [file EXCEPT !.board = accepted, !.seq = file.seq + 1]
          BY <1>2, <3>3, <3>5, <4>1, <4>2
        <4> HIDE DEF next, line
        <4>4. file'.ended = file.ended /\ file'.board = accepted /\ file'.seq = file.seq + 1
          BY <2>6, <4>3
        <4> QED BY <3>5, <4>4
      <3> QED BY <2>4, <2>5, <2>8, <3>4, <3>5
    <2> QED BY <2>7, <2>8
  <1> QED BY <1>1, <1>2

\* A step of one store that leaves the lease, its owners and the log alone.
LEMMA ApartStep ==
  ASSUME StoresInv, NEW s \in Stores, NEW phases \in SUBSET (Phases \ {"fill", "work"}),
         Becomes(s, phases), Up(s[1]), "load" \in phases => chat[s[1]].owns,
         UNCHANGED <<file, lease, chat, used>>
  PROVE  StoresInv'
  <1> USE DEF StoresInv
  <1>1. StoresTyped'
    BY DEF StoresTyped, Becomes
  <1>2. \A r \in Stores, p \in Phases : In(r, p)' =>
           (r # s /\ In(r, p) /\ store'[r] = store[r]) \/ (r = s /\ p \in phases)
    BY DEF StoresTyped, Becomes, In
  <1>3. OpenInOwner'
    BY <1>2 DEF OpenInOwner, Becomes, Up, Phases
  <1>4. FileNamesOwner'
    BY <1>2 DEF FileNamesOwner, Phases
  <1>5. FileIsWhole'
    BY DEF FileIsWhole
  <1>6. StoreMatchesFile'
    BY <1>2 DEF StoreMatchesFile, Becomes, Phases
  <1> QED BY <1>1, <1>3, <1>4, <1>5, <1>6

LEMMA OpenStep ==
  ASSUME StoresInv, NEW s \in Stores,
         \/ \E kind, t, on : OpenCommand(s, kind, t, on)
         \/ OpenView(s) \/ \E x \in turn : OpenFor(s, x)
  PROVE  StoresInv'
  <1>1. /\ \E kind, t, n, on : store' = [store EXCEPT ![s] = Opening(s[1], kind, t, n, on)]
        /\ Up(s[1]) /\ UNCHANGED <<file, lease, chat, used>>
    BY DEF OpenCommand, OpenView, OpenFor, Free
  <1>2. Becomes(s, IF chat[s[1]].owns THEN {"load"} ELSE {"claim"})
    BY <1>1, OpeningFact DEF StoresInv
  <1>3. CASE chat[s[1]].owns
    BY <1>1, <1>2, <1>3, ApartStep DEF Phases
  <1>4. CASE ~chat[s[1]].owns
    BY <1>1, <1>2, <1>4, ApartStep DEF Phases
  <1> QED BY <1>3, <1>4

\* The lease file is created where none is.
LEMMA ClaimStep ==
  ASSUME StoresInv, NEW s \in Stores, Claim(s) \/ Reclaim(s)
  PROVE  StoresInv'
  <1>0. StoresTyped /\ store[s] # Idle /\ Up(s[1])
    BY DEF StoresInv, OpenInOwner, Claim, Reclaim, In
  <1>1. CASE lease # NoChat
    <2>1. Goto(s, "inspect") \/ Close(s)
      BY <1>1 DEF Claim, Reclaim
    <2>2. Becomes(s, {"inspect"}) \/ Becomes(s, {})
      BY <1>0, <2>1, GotoFact, CloseFact
    <2>3. UNCHANGED <<file, lease, chat, used>>
      BY <1>1 DEF Claim, Reclaim
    <2> QED BY <1>0, <2>2, <2>3, ApartStep DEF Phases
  <1>2. CASE lease = NoChat
    <2>1. /\ lease' = [by |-> s[1], filled |-> FALSE] /\ Goto(s, "fill")
          /\ UNCHANGED <<file, chat, used>>
      BY <1>2 DEF Claim, Reclaim
    <2>2. Becomes(s, {"fill"})
      BY <1>0, <2>1, GotoFact
    <2>3. lease' \in LeaseFile /\ lease'.by = s[1] /\ lease' # NoChat
      <3>1. s[1] \in Chats
        BY DEF Stores
      <3>2. lease' \in LeaseFile /\ lease'.by = s[1]
        BY <2>1, <3>1 DEF LeaseFile
      <3>3. NoChat \notin LeaseFile
        BY StoresAssumption DEF LeaseFile
      <3> QED BY <3>2, <3>3
    <2>4. StoresTyped'
      BY <1>0, <2>1, <2>2, <2>3 DEF StoresTyped, Becomes, Phases
    <2>5. \A r \in Stores, p \in Phases : In(r, p)' =>
           (r # s /\ In(r, p) /\ store'[r] = store[r]) \/ (r = s /\ p = "fill")
      BY <2>2 DEF Becomes, In
    <2>6. OpenInOwner'
      BY <1>0, <2>1, <2>2, <2>5 DEF StoresInv, OpenInOwner, Becomes, Up, Phases
    <2>7. FileNamesOwner'
      BY <1>2, <2>1, <2>3, <2>5 DEF StoresInv, FileNamesOwner, Phases
    <2>8. FileIsWhole'
      BY <2>1 DEF StoresInv, FileIsWhole
    <2>9. StoreMatchesFile'
      BY <2>1, <2>2, <2>5 DEF StoresInv, StoreMatchesFile, Becomes, Phases
    <2> QED BY <2>4, <2>6, <2>7, <2>8, <2>9 DEF StoresInv
  <1> QED BY <1>1, <1>2

\* A process becomes an owner when the lease file, as far as it knows, names it.
LEMMA OwnStep ==
  ASSUME StoresInv, NEW s \in Stores,
         Fill(s) \/ (Inspect(s) /\ lease # NoChat /\ lease.filled /\ lease.by = s[1])
  PROVE  StoresInv'
  <1>0. StoresTyped /\ store[s] # Idle /\ Up(s[1]) /\ s[1] \in Chats
    BY DEF StoresInv, OpenInOwner, Fill, Inspect, In, Stores
  <1>1. Becomes(s, {"load"}) /\ UNCHANGED <<file, used>>
    BY <1>0, GotoFact DEF Fill, Inspect
  <1>2. /\ chat' \in [Chats -> [life : {"new", "up", "down"}, owns : BOOLEAN]]
        /\ chat'[s[1]].owns
        /\ \A c \in Chats : chat'[c].life = chat[c].life
        /\ \A c \in Chats \ {s[1]} : chat'[c] = chat[c]
    <2>1. chat' = [chat EXCEPT ![s[1]] = [chat[s[1]] EXCEPT !.owns = TRUE]]
      BY <1>0 DEF Fill, Inspect, StoresTyped
    <2>2. chat[s[1]] \in [life : {"new", "up", "down"}, owns : BOOLEAN]
      BY <1>0 DEF StoresTyped
    <2> DEFINE entry == [chat[s[1]] EXCEPT !.owns = TRUE]
    <2>3. entry \in [life : {"new", "up", "down"}, owns : BOOLEAN] /\ entry.owns /\ entry.life = chat[s[1]].life
      BY <2>2
    <2> HIDE DEF entry
    <2> QED BY <1>0, <2>1, <2>3 DEF StoresTyped
  <1>3. /\ lease' \in LeaseFile \cup {NoChat}
        /\ lease = NoChat => lease' = NoChat
        /\ lease # NoChat => lease' # NoChat /\ lease'.by = lease.by
    <2>1. CASE lease' = lease
      BY <1>0, <2>1 DEF StoresTyped
    <2>2. CASE lease # NoChat /\ lease' = [lease EXCEPT !.filled = TRUE]
      <3>1. lease \in LeaseFile
        BY <1>0, <2>2 DEF StoresTyped
      <3>2. lease' \in LeaseFile /\ lease'.by = lease.by
        BY <2>2, <3>1 DEF LeaseFile
      <3> QED BY <2>2, <3>2, StoresAssumption DEF LeaseFile
    <2> QED BY <2>1, <2>2 DEF Fill, Inspect
  <1>4. ~used.raced => lease # NoChat /\ lease.by = s[1]
    BY DEF Fill, Inspect, StoresInv, FileNamesOwner
  <1>5. StoresTyped'
    BY <1>0, <1>1, <1>2, <1>3 DEF StoresTyped, Becomes, Phases
  <1>6. \A r \in Stores, p \in Phases : In(r, p)' =>
           (r # s /\ In(r, p) /\ store'[r] = store[r]) \/ (r = s /\ p = "load")
    BY <1>1 DEF Becomes, In
  <1>7. OpenInOwner'
    BY <1>0, <1>1, <1>2, <1>6 DEF StoresInv, OpenInOwner, Becomes, Up, Phases, Stores
  <1>8. FileNamesOwner'
    BY <1>1, <1>2, <1>3, <1>4, <1>6 DEF StoresInv, FileNamesOwner, Phases
  <1>9. FileIsWhole'
    BY <1>1 DEF StoresInv, FileIsWhole
  <1>10. StoreMatchesFile'
    BY <1>1, <1>6 DEF StoresInv, StoreMatchesFile, Becomes, Phases
  <1> QED BY <1>5, <1>7, <1>8, <1>9, <1>10 DEF StoresInv

LEMMA InspectStep ==
  ASSUME StoresInv, NEW s \in Stores, Inspect(s)
  PROVE  StoresInv'
  <1>0. StoresTyped /\ store[s] # Idle /\ Up(s[1])
    BY DEF StoresInv, OpenInOwner, Inspect, In
  <1>1. CASE lease # NoChat /\ lease.filled /\ lease.by = s[1]
    BY <1>1, OwnStep
  <1>2. CASE ~(lease # NoChat /\ lease.filled /\ lease.by = s[1])
    <2>1. Close(s) \/ Goto(s, "unlink")
      BY <1>2 DEF Inspect
    <2>2. Becomes(s, {}) \/ Becomes(s, {"unlink"})
      BY <1>0, <2>1, GotoFact, CloseFact
    <2>3. UNCHANGED <<file, lease, chat, used>>
      BY <1>2 DEF Inspect
    <2> QED BY <1>0, <2>2, <2>3, ApartStep DEF Phases
  <1> QED BY <1>1, <1>2

\* A takeover that goes wrong is remembered; one that does not finds no owner.
LEMMA UnlinkStep ==
  ASSUME StoresInv, NEW s \in Stores, Unlink(s)
  PROVE  StoresInv'
  <1>0. StoresTyped /\ store[s] # Idle /\ Up(s[1])
    BY DEF StoresInv, OpenInOwner, Unlink, In
  <1>1. Becomes(s, {"reclaim"}) /\ lease' = NoChat /\ UNCHANGED <<file, chat>>
    BY <1>0, GotoFact DEF Unlink
  <1>2. /\ used' \in [crashes : Nat, torn : Nat, raced : BOOLEAN]
        /\ used'.torn = used.torn
        /\ ~used'.raced => ~used.raced /\ ~(lease # NoChat /\ Up(lease.by))
    <2> DEFINE raced == used.raced \/ (lease # NoChat /\ Up(lease.by))
    <2>1. used \in [crashes : Nat, torn : Nat, raced : BOOLEAN]
      BY <1>0 DEF StoresTyped
    <2>2. used' = [used EXCEPT !.raced = raced]
      BY DEF Unlink
    <2>3. raced \in BOOLEAN
      BY <2>1
    <2>4. ~raced => ~used.raced /\ ~(lease # NoChat /\ Up(lease.by))
      OBVIOUS
    <2> HIDE DEF raced
    <2>5. used' \in [crashes : Nat, torn : Nat, raced : BOOLEAN] /\ used'.torn = used.torn
      BY <2>1, <2>2, <2>3
    <2>6. used'.raced = raced
      BY <2>1, <2>2
    <2> QED BY <2>4, <2>5, <2>6
  <1>3. \A r \in Stores, p \in Phases : In(r, p)' =>
           (r # s /\ In(r, p) /\ store'[r] = store[r]) \/ (r = s /\ p = "reclaim")
    BY <1>1 DEF Becomes, In
  <1>4. StoresTyped'
    BY <1>0, <1>1, <1>2 DEF StoresTyped, Becomes, Phases
  <1>5. OpenInOwner'
    BY <1>0, <1>1, <1>3 DEF StoresInv, OpenInOwner, Becomes, Up, Phases
  <1>6. FileNamesOwner'
    <2>1. ASSUME ~used'.raced, NEW c \in Chats, Up(c) PROVE ~(lease # NoChat /\ lease.by = c)
      BY <1>2, <2>1
    <2>2. ASSUME ~used'.raced, NEW c \in Chats PROVE ~chat[c].owns
      BY <1>2, <2>1, <2>2 DEF StoresInv, OpenInOwner, FileNamesOwner
    <2>3. ASSUME ~used'.raced, NEW r \in Stores PROVE ~In(r, "fill")
      <3>1. r[1] \in Chats
        BY DEF Stores
      <3> QED BY <1>2, <2>1, <2>3, <3>1 DEF StoresInv, OpenInOwner, FileNamesOwner, In
    <2> QED BY <1>1, <1>3, <2>2, <2>3 DEF FileNamesOwner, Phases
  <1>7. FileIsWhole' /\ StoreMatchesFile'
    BY <1>1, <1>2, <1>3 DEF StoresInv, FileIsWhole, StoreMatchesFile, Phases
  <1> QED BY <1>4, <1>5, <1>6, <1>7 DEF StoresInv

\* A store that replays the log, or appends to it, is the only one of the only owner.
LEMMA WorkStep ==
  ASSUME StoresInv, NEW s \in Stores, Load(s) \/ Work(s)
  PROVE  StoresInv'
  <1>0. StoresTyped /\ store[s] # Idle /\ Up(s[1]) /\ chat[s[1]].owns
    BY DEF StoresInv, OpenInOwner, Load, Work, In
  <1>1. UNCHANGED <<lease, chat, used>>
    BY DEF Load, Work
  <1>2. \/ Becomes(s, {}) /\ file' = file
        \/ /\ Becomes(s, {"work"}) /\ file' = file
           /\ store'[s].board = file.board /\ store'[s].seq = file.seq
        \/ \E e : In(s, "work") /\ CommitEvent(s, e)
    BY <1>0, LoadFact, CloseFact DEF Work
  <1>3. CASE Becomes(s, {}) /\ file' = file
    BY <1>0, <1>1, <1>3, ApartStep DEF Phases
  <1>4. ASSUME Becomes(s, {"work"}), DOMAIN file' = {"board", "seq", "ended", "lost", "torn"},
               ~file.torn => ~file'.torn,
               Cardinality(Slots) = 1 /\ ~used.raced /\ used.torn = 0 =>
                 /\ ~file'.ended
                 /\ store'[s].board = file'.board /\ store'[s].seq = file'.seq
        PROVE  StoresInv'
    <2>1. \A r \in Stores, p \in Phases : In(r, p)' =>
             (r # s /\ In(r, p) /\ store'[r] = store[r]) \/ (r = s /\ p = "work")
      BY <1>4 DEF Becomes, In
    <2>2. StoresTyped'
      BY <1>0, <1>1, <1>4 DEF StoresTyped, Becomes, Phases
    <2>3. OpenInOwner'
      BY <1>0, <1>1, <1>4, <2>1 DEF StoresInv, OpenInOwner, Becomes, Up, Phases
    <2>4. FileNamesOwner'
      BY <1>1, <2>1 DEF StoresInv, FileNamesOwner, Phases
    <2>5. FileIsWhole'
      BY <1>1, <1>4 DEF StoresInv, FileIsWhole
    <2>6. StoreMatchesFile'
      <3> SUFFICES ASSUME Cardinality(Slots) = 1, ~used'.raced, used'.torn = 0,
                          NEW r \in Stores, In(r, "work")'
                   PROVE  store'[r].board = file'.board /\ store'[r].seq = file'.seq
        BY DEF StoreMatchesFile
      <3>1. ~used.raced /\ used.torn = 0
        BY <1>1
      <3>2. r = s
        <4>1. r # s => In(r, "work")
          BY <2>1 DEF Phases
        <4>2. r # s => chat[r[1]].owns
          BY <4>1 DEF StoresInv, OpenInOwner
        <4> QED BY <1>0, <3>1, <4>2, OneStore DEF StoresInv
      <3> QED BY <1>4, <3>1, <3>2
    <2> QED BY <2>2, <2>3, <2>4, <2>5, <2>6 DEF StoresInv
  <1>5. CASE /\ Becomes(s, {"work"}) /\ file' = file
             /\ store'[s].board = file.board /\ store'[s].seq = file.seq
    BY <1>0, <1>4, <1>5 DEF StoresInv, StoresTyped, FileIsWhole
  <1>6. ASSUME NEW e, In(s, "work"), CommitEvent(s, e) PROVE StoresInv'
    <2>1. Cardinality(Slots) = 1 /\ ~used.raced /\ used.torn = 0 =>
            /\ ~file.torn /\ ~file.ended
            /\ store[s].board = file.board /\ store[s].seq = file.seq
      BY <1>6 DEF StoresInv, FileIsWhole, StoreMatchesFile
    <2> QED BY <1>0, <1>3, <1>4, <1>6, <2>1, CommitFact
  <1> QED BY <1>2, <1>3, <1>5, <1>6

LEMMA ChatStep ==
  ASSUME StoresInv, NEW c \in Chats, StartChat(c) \/ CrashChat(c)
  PROVE  StoresInv'
  <1>0. StoresTyped /\ lease' = lease
    BY DEF StoresInv, StartChat, CrashChat
  <1>1. /\ chat' \in [Chats -> [life : {"new", "up", "down"}, owns : BOOLEAN]]
        /\ \A d \in Chats : d # c => chat'[d] = chat[d]
        /\ chat'[c].owns => chat[c].owns /\ chat'[c].life = "up"
    <2>1. CASE StartChat(c)
      <3>1. chat[c] \in [life : {"new", "up", "down"}, owns : BOOLEAN] /\ chat[c].life = "new"
        BY <1>0, <2>1 DEF StoresTyped, StartChat
      <3>2. chat' = [chat EXCEPT ![c] = [chat[c] EXCEPT !.life = "up"]]
        BY <1>0, <2>1 DEF StoresTyped, StartChat
      <3> DEFINE entry == [chat[c] EXCEPT !.life = "up"]
      <3>3. entry \in [life : {"new", "up", "down"}, owns : BOOLEAN] /\ entry.life = "up"
            /\ entry.owns = chat[c].owns
        BY <3>1
      <3> HIDE DEF entry
      <3> QED BY <1>0, <3>2, <3>3 DEF StoresTyped
    <2>2. CASE CrashChat(c)
      BY <1>0, <2>2 DEF StoresTyped, CrashChat
    <2> QED BY <2>1, <2>2
  <1>2. /\ used' \in [crashes : Nat, torn : Nat, raced : BOOLEAN]
        /\ used'.raced = used.raced /\ used.torn <= used'.torn
        /\ DOMAIN file' = {"board", "seq", "ended", "lost", "torn"}
        /\ file'.ended = file.ended /\ file'.board = file.board /\ file'.seq = file.seq
        /\ used'.torn = 0 => file'.torn = file.torn
    <2>1. CASE StartChat(c)
      BY <1>0, <2>1 DEF StoresTyped, StartChat
    <2>2. CASE CrashChat(c)
      <3>1. PICK cut \in {0, 1} :
              /\ file' = IF cut = 1 THEN [file EXCEPT !.torn = TRUE] ELSE file
              /\ used' = [used EXCEPT !.crashes = @ + 1, !.torn = @ + cut]
        BY <2>2 DEF CrashChat
      <3>2. used'.torn = used.torn + cut /\ used'.raced = used.raced
            /\ used' \in [crashes : Nat, torn : Nat, raced : BOOLEAN] /\ used.torn \in Nat
        <4> DEFINE crashes == used.crashes + 1
                   torn == used.torn + cut
        <4>1. used \in [crashes : Nat, torn : Nat, raced : BOOLEAN]
          BY <1>0 DEF StoresTyped
        <4>2. crashes \in Nat /\ torn \in Nat
          BY <4>1
        <4>3. used' = [used EXCEPT !.crashes = crashes, !.torn = torn]
          BY <3>1, <4>1
        <4>4. torn = used.torn + cut /\ used.torn \in Nat
          BY <4>1
        <4> HIDE DEF crashes, torn
        <4>5. used' \in [crashes : Nat, torn : Nat, raced : BOOLEAN] /\ used'.torn = torn
          BY <4>1, <4>2, <4>3
        <4>6. used'.raced = used.raced
          BY <4>1, <4>3
        <4> QED BY <4>4, <4>5, <4>6
      <3>3. CASE cut = 0
        BY <1>0, <3>1, <3>2, <3>3 DEF StoresTyped
      <3>4. CASE cut = 1
        <4>1. file' = [file EXCEPT !.torn = TRUE] /\ DOMAIN file = {"board", "seq", "ended", "lost", "torn"}
          BY <1>0, <3>1, <3>4 DEF StoresTyped
        <4>2. /\ DOMAIN file' = {"board", "seq", "ended", "lost", "torn"}
              /\ file'.ended = file.ended /\ file'.board = file.board /\ file'.seq = file.seq
          BY <4>1
        <4>3. used'.torn # 0 /\ used.torn <= used'.torn
          BY <3>2, <3>4
        <4> QED BY <3>2, <4>2, <4>3
      <3> QED BY <3>3, <3>4
    <2> QED BY <2>1, <2>2
  <1>3. DOMAIN store' = Stores /\ \A r \in Stores : store'[r] # Idle =>
            store'[r] = store[r] /\ Up(r[1])' /\ (chat[r[1]].owns => chat'[r[1]].owns)
    <2>1. CASE StartChat(c)
      <3>1. store' = store /\ \A d \in Chats : Up(d) => d # c
        BY <1>0, <2>1 DEF StoresTyped, StartChat, Up
      <3>2. \A d \in Chats : Up(d) => Up(d)' /\ (chat[d].owns => chat'[d].owns)
        BY <1>1, <3>1 DEF Up
      <3> QED BY <1>0, <3>1, <3>2 DEF StoresInv, StoresTyped, OpenInOwner, Stores
    <2>2. CASE CrashChat(c)
      <3>1. \A r \in Stores : store'[r] # Idle => store'[r] = store[r] /\ r[1] # c /\ r[1] \in Chats
        BY <2>2 DEF CrashChat, Stores
      <3> QED BY <1>1, <2>2, <3>1 DEF CrashChat, StoresInv, OpenInOwner, Up
    <2> QED BY <2>1, <2>2
  <1>4. \A r \in Stores, p \in Phases : In(r, p)' => In(r, p) /\ store'[r] = store[r] /\ r[1] \in Chats
                                                     /\ (chat[r[1]].owns => chat'[r[1]].owns)
    BY <1>3 DEF In, Stores
  <1>5. StoresTyped'
    BY <1>0, <1>1, <1>2, <1>3 DEF StoresTyped
  <1>6. OpenInOwner'
    <2>1. \A d \in Chats : chat'[d].owns => Up(d)'
      BY <1>1 DEF StoresInv, OpenInOwner, Up
    <2> QED BY <1>3, <1>4, <2>1 DEF StoresInv, OpenInOwner, Phases
  <1>7. FileNamesOwner'
    BY <1>0, <1>1, <1>2, <1>4 DEF StoresInv, FileNamesOwner, Phases
  <1>8. FileIsWhole'
    BY <1>0, <1>2 DEF StoresInv, FileIsWhole, StoresTyped
  <1>9. StoreMatchesFile'
    BY <1>0, <1>2, <1>4 DEF StoresInv, StoreMatchesFile, StoresTyped, Phases
  <1> QED BY <1>5, <1>6, <1>7, <1>8, <1>9 DEF StoresInv

LEMMA StoresStep == StoresInv /\ [StoresNext]_storeVars => StoresInv'
  <1> SUFFICES ASSUME StoresInv, [StoresNext]_storeVars PROVE StoresInv'
    OBVIOUS
  <1>1. ASSUME NEW s \in Stores, Acquire(s) PROVE StoresInv'
    BY <1>1, ClaimStep, OwnStep, InspectStep, UnlinkStep, WorkStep DEF Acquire
  <1>2. CASE UNCHANGED <<file, lease, chat, store, used>>
    BY <1>2 DEF StoresInv, StoresTyped, OpenInOwner, FileNamesOwner, FileIsWhole, StoreMatchesFile, In, Up
  <1>3. ASSUME NEW x \in turn, TurnReturns(x) PROVE StoresInv'
    BY <1>2, <1>3 DEF TurnReturns
  <1>4. CASE UNCHANGED storeVars
    BY <1>2, <1>4 DEF storeVars
  <1> QED BY <1>1, <1>3, <1>4, OpenStep, WorkStep, ChatStep DEF StoresNext

\* acquireBoardLease and openBoardStore: with any number of chat processes and of
\* stores in each of them, through crashes and takeovers, as long as no takeover
\* unlinks the file of a living process, one process owns the board, and its only
\* store appends to exactly the log that it replayed.
THEOREM WriterIsAlone == StoresSpec => []OneWriterOnFile
  <1>1. StoresInv => OneWriterOnFile
    BY OneOwner DEF StoresInv, OneWriterOnFile
  <1> QED BY <1>1, StoresInitInv, StoresStep, PTL DEF StoresSpec
================================================================================
