--------------------------- MODULE MessageTurns_proofs ---------------------------
(* Proofs about the two services behind POST /v1/messages, for any number of    *)
(* gateways, turns and requests and any budget of faults: the turns of a        *)
(* conversation (ConversationLease) and the message runs (AsyncMessages).       *)
EXTENDS ConversationLease, AsyncMessages, FiniteSetTheorems, SequenceTheorems, TLAPS

--------------------------------------------------------------------------------
(* Conversation turns.                                                          *)

\* The turns under way that renewed in time, as far as they know, and yet do not
\* hold the live row.
Doubtful == {t \in Turns : Beating(t) /\ ~(lease = t /\ ~lapsed)}

\* Every one of them was made by a stall.
StallsAccountForDoubt == IsFiniteSet(Doubtful) /\ Cardinality(Doubtful) <= faults.stall

LeaseInv == LeaseTypeOK /\ StallsAccountForDoubt

LEMMA LeaseInitInv == LeaseInit => LeaseInv
<1> SUFFICES ASSUME LeaseInit PROVE LeaseInv
  OBVIOUS
<1>1. LeaseTypeOK
  <2>1. FaultTypeOK
    BY DEF LeaseInit, FaultInit, FaultTypeOK, FaultCount
  <2>2. chain \in [Gateways -> Seq(Turns)] /\ turn \in [Turns -> TurnState]
    BY DEF LeaseInit, TurnState
  <2> QED
    BY <2>1, <2>2 DEF LeaseInit, LeaseTypeOK
<1>2. Doubtful = {}
  BY DEF LeaseInit, Doubtful, Beating, Leaving
<1>3. StallsAccountForDoubt
  BY <1>2, FS_EmptySet DEF StallsAccountForDoubt, LeaseInit, FaultInit
<1> QED
  BY <1>1, <1>3 DEF LeaseInv

\* A fault is counted once, under its kind.
LEMMA FaultFact ==
    ASSUME FaultTypeOK, NEW kind \in {"crash", "stall", "hiccup"}, Fault(kind)
    PROVE  /\ faults' \in FaultCount
           /\ faults'.stall = faults.stall + (IF kind = "stall" THEN 1 ELSE 0)
BY DEF FaultTypeOK, FaultCount, Fault

LEMMA NoNewDoubt ==
    ASSUME StallsAccountForDoubt, faults.stall \in Nat, faults'.stall \in Nat,
           Doubtful' \subseteq Doubtful, faults'.stall >= faults.stall
    PROVE  StallsAccountForDoubt'
<1>1. /\ IsFiniteSet(Doubtful') /\ Cardinality(Doubtful') <= Cardinality(Doubtful)
      /\ Cardinality(Doubtful') \in Nat /\ Cardinality(Doubtful) \in Nat
  BY FS_Subset, FS_CardinalityType DEF StallsAccountForDoubt
<1> QED
  BY <1>1 DEF StallsAccountForDoubt

LEMMA LeaseTypeStep == LeaseTypeOK /\ [LeaseNext]_leaseVars => LeaseTypeOK'
<1> SUFFICES ASSUME LeaseTypeOK, [LeaseNext]_leaseVars PROVE LeaseTypeOK'
  OBVIOUS
<1> USE LeaseAssumption
<1>1. FaultTypeOK /\ FaultTypeOK'
  <2>1. ASSUME NEW kind \in {"crash", "stall", "hiccup"}, Fault(kind) PROVE faults' \in FaultCount
    BY <2>1, FaultFact DEF LeaseTypeOK
  <2>2. faults' \in FaultCount
    BY <2>1 DEF LeaseTypeOK, FaultTypeOK, LeaseNext, TurnStep, EnterQueue, ClaimTurn, ClaimFails,
                BeatRefused, BeatThrows, TaskReturns, ReleaseTurn, ReleaseFails, LeaseLapses,
                LeaseStalls, CrashTurns, Stop, Start, leaseVars, faultVars
  <2>3. up' \subseteq Gateways
    BY DEF LeaseTypeOK, FaultTypeOK, LeaseNext, TurnStep, EnterQueue, ClaimTurn, ClaimFails,
           BeatRefused, BeatThrows, TaskReturns, ReleaseTurn, ReleaseFails, LeaseLapses,
           LeaseStalls, CrashTurns, Stop, Start, leaseVars, faultVars
  <2> QED
    BY <2>2, <2>3 DEF LeaseTypeOK, FaultTypeOK
<1>2. chain' \in [Gateways -> Seq(Turns)]
  <2>1. chain \in [Gateways -> Seq(Turns)]
    BY DEF LeaseTypeOK
  <2>2. \/ chain' = chain
        \/ \E t \in Turns, g \in Gateways : chain' = [chain EXCEPT ![g] = Append(@, t)]
        \/ \E t \in Turns, g \in Gateways : AtHead(t, g) /\ chain' = [chain EXCEPT ![g] = Tail(@)]
        \/ \E g \in Gateways : chain' = [chain EXCEPT ![g] = <<>>]
    BY DEF LeaveQueue, LeaseNext, TurnStep, EnterQueue, ClaimTurn, ClaimFails,
           BeatRefused, BeatThrows, TaskReturns, ReleaseTurn, ReleaseFails, LeaseLapses,
           LeaseStalls, CrashTurns, leaseVars, turnVars
  <2>3. ASSUME NEW t \in Turns, NEW g \in Gateways, chain' = [chain EXCEPT ![g] = Append(@, t)]
        PROVE  chain' \in [Gateways -> Seq(Turns)]
    BY <2>1, <2>3
  <2>4. ASSUME NEW t \in Turns, NEW g \in Gateways, AtHead(t, g),
               chain' = [chain EXCEPT ![g] = Tail(@)]
        PROVE  chain' \in [Gateways -> Seq(Turns)]
    <3>1. Tail(chain[g]) \in Seq(Turns)
      BY <2>1, <2>4, HeadTailProperties DEF AtHead
    <3> QED
      BY <2>1, <2>4, <3>1
  <2>5. ASSUME NEW g \in Gateways, chain' = [chain EXCEPT ![g] = <<>>]
        PROVE  chain' \in [Gateways -> Seq(Turns)]
    BY <2>1, <2>5
  <2> QED
    BY <2>1, <2>2, <2>3, <2>4, <2>5
<1>3. turn' \in [Turns -> TurnState]
  BY DEF LeaseTypeOK, TurnState, LeaveQueue, LeaseNext, TurnStep, EnterQueue, ClaimTurn, ClaimFails,
         BeatRefused, BeatThrows, TaskReturns, ReleaseTurn, ReleaseFails, LeaseLapses,
         LeaseStalls, CrashTurns, leaseVars, turnVars
<1>4. lease' \in Turns \cup {NoTurn} /\ lapsed' \in BOOLEAN /\ beatErr' \subseteq Turns
  BY DEF LeaseTypeOK, LeaseNext, TurnStep, EnterQueue, ClaimTurn, ClaimFails,
         BeatRefused, BeatThrows, TaskReturns, ReleaseTurn, ReleaseFails, LeaseLapses,
         LeaseStalls, CrashTurns, leaseVars, turnVars
<1> QED
  BY <1>1, <1>2, <1>3, <1>4 DEF LeaseTypeOK

\* Only a stall makes a turn doubtful, and one turn at a time.
LEMMA LeaseStep == LeaseInv /\ [LeaseNext]_leaseVars => StallsAccountForDoubt'
<1> SUFFICES ASSUME LeaseInv, [LeaseNext]_leaseVars PROVE StallsAccountForDoubt'
  OBVIOUS
<1> USE LeaseAssumption
<1>1. LeaseTypeOK /\ FaultTypeOK /\ StallsAccountForDoubt /\ faults.stall \in Nat
  BY DEF LeaseInv, LeaseTypeOK, FaultTypeOK, FaultCount
<1>2. ASSUME faults' = faults, Doubtful' \subseteq Doubtful PROVE StallsAccountForDoubt'
  BY <1>1, <1>2, NoNewDoubt
<1>3. ASSUME NEW kind \in {"crash", "hiccup"}, Fault(kind), Doubtful' \subseteq Doubtful
      PROVE  StallsAccountForDoubt'
  <2>1. faults'.stall = faults.stall
    BY <1>1, <1>3, FaultFact
  <2> QED
    BY <1>1, <1>3, <2>1, NoNewDoubt
<1> USE DEF LeaseTypeOK, Doubtful, Beating, Leaving, TurnState
<1>4. ASSUME NEW t \in Turns, NEW g \in Gateways, EnterQueue(t, g) PROVE StallsAccountForDoubt'
  BY <1>1, <1>2, <1>4 DEF EnterQueue
<1>5. ASSUME NEW t \in Turns, NEW g \in Gateways, ClaimTurn(t, g) PROVE StallsAccountForDoubt'
  BY <1>1, <1>2, <1>5 DEF ClaimTurn
<1>6. ASSUME NEW t \in Turns, NEW g \in Gateways, ClaimFails(t, g) PROVE StallsAccountForDoubt'
  BY <1>1, <1>3, <1>6 DEF ClaimFails
<1>7. ASSUME NEW t \in Turns, BeatRefused(t) PROVE StallsAccountForDoubt'
  BY <1>1, <1>2, <1>7 DEF BeatRefused
<1>8. ASSUME NEW t \in Turns, BeatThrows(t) PROVE StallsAccountForDoubt'
  BY <1>1, <1>3, <1>8 DEF BeatThrows
<1>9. ASSUME NEW t \in Turns, NEW ok \in BOOLEAN, TaskReturns(t, ok) PROVE StallsAccountForDoubt'
  BY <1>1, <1>2, <1>9 DEF TaskReturns
<1>10. ASSUME NEW t \in Turns, NEW g \in Gateways, ReleaseTurn(t, g) PROVE StallsAccountForDoubt'
  BY <1>1, <1>2, <1>10 DEF ReleaseTurn, LeaveQueue
<1>11. ASSUME NEW t \in Turns, NEW g \in Gateways, ReleaseFails(t, g) PROVE StallsAccountForDoubt'
  BY <1>1, <1>3, <1>11 DEF ReleaseFails, LeaveQueue
<1>12. CASE LeaseLapses
  BY <1>1, <1>2, <1>12 DEF LeaseLapses
<1>13. CASE LeaseStalls
  <2>1. Doubtful' = Doubtful \cup {lease}
    BY <1>1, <1>13 DEF LeaseStalls
  <2>2. faults'.stall = faults.stall + 1
    BY <1>1, <1>13, FaultFact DEF LeaseStalls
  <2> HIDE DEF LeaseTypeOK, Doubtful, Beating, Leaving, TurnState
  <2>3. /\ IsFiniteSet(Doubtful \cup {lease}) /\ Cardinality(Doubtful) \in Nat
        /\ Cardinality(Doubtful \cup {lease}) <= Cardinality(Doubtful) + 1
    <3>1. IsFiniteSet(Doubtful)
      BY <1>1 DEF StallsAccountForDoubt
    <3>2. IsFiniteSet(Doubtful \cup {lease})
      BY <3>1, FS_AddElement
    <3>3. Cardinality(Doubtful) \in Nat
      BY <3>1, FS_CardinalityType
    <3>4. \/ Cardinality(Doubtful \cup {lease}) = Cardinality(Doubtful)
          \/ Cardinality(Doubtful \cup {lease}) = Cardinality(Doubtful) + 1
      BY <3>1, FS_AddElement
    <3> QED
      BY <3>2, <3>3, <3>4
  <2>4. Cardinality(Doubtful') \in Nat
    BY <2>1, <2>3, FS_CardinalityType
  <2> QED
    BY <1>1, <2>1, <2>2, <2>3, <2>4 DEF StallsAccountForDoubt
<1>14. ASSUME NEW g \in Gateways, CrashTurns(g) PROVE StallsAccountForDoubt'
  BY <1>1, <1>3, <1>14 DEF CrashTurns, Stop
<1>15. ASSUME NEW g \in Gateways, Start(g), UNCHANGED turnVars PROVE StallsAccountForDoubt'
  BY <1>1, <1>2, <1>15 DEF Start, turnVars
<1>16. CASE UNCHANGED leaseVars
  BY <1>1, <1>2, <1>16 DEF leaseVars, turnVars, faultVars
<1> HIDE DEF LeaseTypeOK, Doubtful, Beating, Leaving, TurnState
<1> QED
  BY <1>4, <1>5, <1>6, <1>7, <1>8, <1>9, <1>10, <1>11, <1>12, <1>13, <1>14, <1>15, <1>16
     DEF LeaseNext, TurnStep

\* conversation-lease.ts: in every state the variables of the turns have their
\* types and the stalls account for every turn that trusts a lease it lost.
THEOREM LeaseInvariance == LeaseSpec => []LeaseInv
<1>1. LeaseInv /\ [LeaseNext]_leaseVars => LeaseInv'
  BY LeaseTypeStep, LeaseStep DEF LeaseInv
<1> QED
  BY <1>1, LeaseInitInv, PTL DEF LeaseSpec

\* conversation-lease.ts: turns of a conversation that are under way and trust
\* their lease are never more than one, and one more for every stall that
\* outlasted a lease.
THEOREM TurnsTakeTurns == LeaseSpec => []TurnsExclude
<1>1. LeaseInv => TurnsExclude
  <2> SUFFICES ASSUME LeaseInv PROVE TurnsExclude
    OBVIOUS
  <2> DEFINE trusting == RunningTurns \ beatErr
  <2>1. trusting \subseteq Doubtful \cup {lease}
    BY DEF RunningTurns, Doubtful, Beating
  <2>2. /\ IsFiniteSet(Doubtful \cup {lease})
        /\ Cardinality(Doubtful \cup {lease}) <= Cardinality(Doubtful) + 1
        /\ Cardinality(Doubtful) \in Nat /\ Cardinality(Doubtful \cup {lease}) \in Nat
    BY FS_AddElement, FS_CardinalityType DEF LeaseInv, StallsAccountForDoubt
  <2>3. Cardinality(trusting) <= Cardinality(Doubtful \cup {lease}) /\ Cardinality(trusting) \in Nat
    BY <2>1, <2>2, FS_Subset, FS_CardinalityType
  <2>4. faults.stall \in Nat /\ Cardinality(Doubtful) <= faults.stall
    BY DEF LeaseInv, LeaseTypeOK, FaultTypeOK, FaultCount, StallsAccountForDoubt
  <2> QED
    BY <2>2, <2>3, <2>4 DEF TurnsExclude
<1> QED
  BY <1>1, LeaseInvariance, PTL

\* server.ts, runConversationExclusive: as long as no process was stalled for a
\* whole lease, a turn keeps its result only while it holds the live row.
THEOREM ResultsKeptUnderLease == LeaseSpec => KeptUnderLease
<1> DEFINE Kept == \A t \in Turns : turn[t] = "running" /\ turn'[t] = "keeping" /\ faults.stall = 0
                                        => lease = t /\ ~lapsed
<1>1. LeaseInv /\ [LeaseNext]_leaseVars => [Kept]_leaseVars
  <2> SUFFICES ASSUME LeaseInv, LeaseNext, NEW t \in Turns, turn[t] = "running",
                      turn'[t] = "keeping", faults.stall = 0
               PROVE  lease = t /\ ~lapsed
    OBVIOUS
  <2>1. t \notin beatErr
    BY DEF LeaseInv, LeaseTypeOK, TurnState, LeaseNext, TurnStep, EnterQueue, ClaimTurn, ClaimFails,
           BeatRefused, BeatThrows, TaskReturns, ReleaseTurn, ReleaseFails, LeaveQueue, Leaving,
           Queued, LeaseLapses, LeaseStalls, CrashTurns, turnVars
  <2>2. Doubtful = {}
    BY FS_EmptySet, FS_CardinalityType DEF LeaseInv, StallsAccountForDoubt
  <2> QED
    BY <2>1, <2>2 DEF Doubtful, Beating
<1> QED
  BY <1>1, LeaseInvariance, PTL DEF LeaseSpec, KeptUnderLease

--------------------------------------------------------------------------------
(* Message runs.                                                                *)

\* A request that claimed no run has left no trace.
UnclaimedIsBlank ==
    \A r \in Requests :
      IF worker[r] \in {"none", "answered"}
        THEN /\ row[r] = NoRow /\ dir[r] = "none" /\ r \notin runErr
             /\ emitted[r] = 0 /\ tried[r] = 0
        ELSE call[r] \in Call

\* A key names one retained run.
KeysUnique ==
    \A p, q \in Present(row) : p # q /\ call[p].key = call[q].key => call[p].key = NoKey

\* A worker that knows of no trouble has its row, with every piece it wrote.
WorkersHoldRows ==
    \A r \in Requests :
      Working(r) /\ r \notin runErr =>
        /\ faults.stall = 0 => Active(row[r]) /\ ~row[r].due
        /\ row[r] # NoRow => row[r].preview = Upto(0, tried[r])

CompletedIsOver ==
    \A r \in Requests :
      row[r] # NoRow => (row[r].status = "completed" =>
        worker[r] = "over" /\ row[r].preview = Upto(0, emitted[r]))

\* The directory of a retained run that a collection in progress does not know of is young.
UnlistedAreYoung ==
    \A g \in Hosts, r \in Requests :
      gc[g] # <<>> /\ row[r] # NoRow /\ r \notin Head(gc[g]) => dir[r] \in {"none", "young"}

WithinLimit == IsFiniteSet(Present(row)) /\ Cardinality(Present(row)) <= limit

MessageInv ==
    /\ MessageTypeOK /\ UnclaimedIsBlank /\ KeysUnique /\ WorkersHoldRows
    /\ CompletedIsOver /\ UnlistedAreYoung /\ ArtifactsKept /\ WithinLimit

LEMMA MessageInitInv == MessageInit => MessageInv
<1> SUFFICES ASSUME MessageInit PROVE MessageInv
  OBVIOUS
<1>1. MessageTypeOK
  <2>1. FaultTypeOK
    BY DEF MessageInit, FaultInit, FaultTypeOK, FaultCount
  <2> QED
    BY <2>1, MessageAssumption DEF MessageInit, MessageTypeOK
<1>2. UnclaimedIsBlank /\ WorkersHoldRows /\ CompletedIsOver /\ UnlistedAreYoung /\ ArtifactsKept
  BY DEF MessageInit, UnclaimedIsBlank, WorkersHoldRows, CompletedIsOver, UnlistedAreYoung,
         ArtifactsKept, Working
<1>3. Present(row) = {}
  BY DEF MessageInit, Present
<1>4. KeysUnique /\ WithinLimit
  BY <1>1, <1>3, FS_EmptySet, MessageAssumption DEF KeysUnique, WithinLimit, MessageTypeOK
<1> QED
  BY <1>1, <1>2, <1>4 DEF MessageInv

\* What the transactions of others may make of a row: only one that is due or
\* terminal is touched.
Yields(new, old) ==
    \/ new = old
    \/ new = NoRow /\ ~(Active(old) /\ ~old.due)
    \/ Active(old) /\ old.due /\ new = [old EXCEPT !.status = "failed", !.due = FALSE]

\* Tables that differ from the store's by such transactions.
Narrowed == {rows \in [Requests -> Row \cup {NoRow}] : \A r \in Requests : Yields(rows[r], row[r])}

\* Reaping touches no row that is retained or held.
LEMMA ReapFact == MessageTypeOK => Reaped \in Narrowed
<1> SUFFICES ASSUME MessageTypeOK, NEW r \in Requests
             PROVE  Reap(row[r]) \in Row \cup {NoRow} /\ Yields(Reap(row[r]), row[r])
  BY DEF Narrowed, Reaped
<1> row[r] \in Row \cup {NoRow}
  BY DEF MessageTypeOK
<1> QED
  BY MessageAssumption DEF Reap, Yields, Active, Terminal, Row

\* Nor does making room for a claim.
LEMMA MakeRoomFact ==
    ASSUME MessageTypeOK, NEW rows \in MakeRoom(Reaped)
    PROVE  rows \in Narrowed /\ Present(rows) \subseteq Present(Reaped)
<1>1. Reaped \in Narrowed
  BY ReapFact
<1>2. ASSUME NEW r \in Done(Reaped), rows = [Reaped EXCEPT ![r] = NoRow]
      PROVE  rows \in Narrowed /\ Present(rows) \subseteq Present(Reaped)
  <2>1. Terminal(Reaped[r]) /\ r \in Requests
    BY DEF Done
  <2>2. Yields(NoRow, row[r])
    BY <1>1, <2>1, MessageAssumption DEF Narrowed, Yields, Active, Terminal, Row, MessageTypeOK
  <2> QED
    BY <1>1, <1>2, <2>1, <2>2 DEF Narrowed, Present
<1> QED
  BY <1>1, <1>2 DEF MakeRoom

LEMMA StaysWithin ==
    ASSUME WithinLimit, limit \in Nat, limit' = limit, Present(row') \subseteq Present(row)
    PROVE  WithinLimit'
<1>1. /\ IsFiniteSet(Present(row')) /\ Cardinality(Present(row')) <= Cardinality(Present(row))
      /\ Cardinality(Present(row')) \in Nat /\ Cardinality(Present(row)) \in Nat
  BY FS_Subset, FS_CardinalityType DEF WithinLimit
<1> QED
  BY <1>1 DEF WithinLimit

\* Batches are numbered without a gap.
LEMMA UptoFact ==
    ASSUME NEW m \in Nat, NEW n \in Nat, m <= n, NEW b \in Nat, n <= b
    PROVE  /\ Upto(0, m) \in Seq(1 .. b) /\ Upto(m, n) \in Seq(1 .. b)
           /\ Upto(0, m) \o Upto(m, n) = Upto(0, n)
<1>1. Upto(0, m) \in Seq(1 .. b)
  BY DEF Upto
<1>2. Upto(m, n) \in Seq(1 .. b)
  BY DEF Upto
<1>3. Len(Upto(0, m)) = m /\ Len(Upto(m, n)) = n - m
  BY DEF Upto
<1>4. Upto(0, m) \o Upto(m, n) = Upto(0, n)
  BY <1>1, <1>2, <1>3 DEF Upto
<1> QED
  BY <1>1, <1>2, <1>4

\* No run changes the table but by narrowing it, by what its worker writes, or
\* by the passing of a row's instant.
LEMMA RowSteps ==
    ASSUME MessageTypeOK, MessageNext
    PROVE  \/ row' = row \/ row' \in Narrowed
           \/ \E r \in Requests, rows \in Narrowed :
                /\ worker[r] = "none" /\ Cardinality(Present(rows)) < limit
                /\ row' = [rows EXCEPT ![r] = [status |-> "queued", due |-> FALSE, preview |-> <<>>]]
           \/ \E r \in Requests :
                /\ worker[r] = "claimed" /\ Active(Reaped[r])
                /\ row' = [Reaped EXCEPT ![r].status = "running"]
           \/ \E r \in Requests, n \in 1 .. MaxDeltas :
                /\ n \in tried[r] + 1 .. emitted[r] /\ row[r] # NoRow
                /\ row' = [row EXCEPT ![r].preview = @ \o Upto(tried[r], n)]
           \/ \E r \in Requests : row[r] # NoRow /\ row' = [row EXCEPT ![r].due = TRUE]
           \/ \E r \in Requests, outcome \in {"completed", "failed"} :
                /\ Owned(r, {"queued", "running"})
                /\ row' = [row EXCEPT ![r].status = outcome, ![r].due = FALSE]
<1>1. Reaped \in Narrowed /\ \A rows \in MakeRoom(Reaped) : rows \in Narrowed
  BY ReapFact, MakeRoomFact
<1>2. ASSUME NEW r \in Requests, NEW c \in Asked, ClaimInserts(r, c)
      PROVE  \E rows \in Narrowed :
                /\ worker[r] = "none" /\ Cardinality(Present(rows)) < limit
                /\ row' = [rows EXCEPT ![r] = [status |-> "queued", due |-> FALSE, preview |-> <<>>]]
  BY <1>1, <1>2 DEF ClaimInserts, SetRows
<1>3. ASSUME NEW r \in Requests, Fail(r)
      PROVE  \/ row' = row
             \/ /\ Owned(r, {"queued", "running"})
                /\ row' = [row EXCEPT ![r].status = "failed", ![r].due = FALSE]
  BY <1>3 DEF Fail, SetRows
<1>4. ASSUME NEW r \in Requests, Commit(r)
      PROVE  \/ row' = row
             \/ /\ Owned(r, {"queued", "running"})
                /\ row' = [row EXCEPT ![r].status = "completed", ![r].due = FALSE]
  BY <1>4 DEF Commit, SetRows, Owned
<1>5. ASSUME NEW r \in Requests, NEW n \in 1 .. MaxDeltas, AppendPreview(r, n)
      PROVE  \/ row' = row
             \/ /\ n \in tried[r] + 1 .. emitted[r] /\ row[r] # NoRow
                /\ row' = [row EXCEPT ![r].preview = @ \o Upto(tried[r], n)]
  BY <1>5 DEF AppendPreview, Owned
<1>6. ASSUME NEW r \in Requests, MarkRunning(r)
      PROVE  \/ row' \in Narrowed
             \/ /\ worker[r] = "claimed" /\ Active(Reaped[r])
                /\ row' = [Reaped EXCEPT ![r].status = "running"]
  BY <1>1, <1>6 DEF MarkRunning, SetRows
<1>7. ASSUME NEW r \in Requests, RowLapses(r) \/ RowStalls(r) \/ RetentionPasses(r)
      PROVE  row[r] # NoRow /\ row' = [row EXCEPT ![r].due = TRUE]
  BY <1>7 DEF RowLapses, RowStalls, RetentionPasses, Active, Terminal
<1>8. \/ row' = row \/ row' = Reaped
      \/ \E r \in Requests :
           \/ \E c \in Asked : ClaimInserts(r, c)
           \/ MarkRunning(r) \/ Commit(r) \/ Fail(r) \/ \E n \in 1 .. MaxDeltas : AppendPreview(r, n)
           \/ RowLapses(r) \/ RowStalls(r) \/ RetentionPasses(r)
  BY DEF MessageNext, ClaimReplays, MarkRunningFails, Emit, ExecuteReturns, HeartbeatRefused,
         HeartbeatThrows, CommitThrows, Poll, DirectoryAges, ListRoots, SweepDirectories, Crash,
         runVars, SetRows
<1>9. CASE row' = row \/ row' = Reaped
  BY <1>1, <1>9
<1>10. ASSUME NEW r \in Requests, NEW c \in Asked, ClaimInserts(r, c)
       PROVE  \E q \in Requests, rows \in Narrowed :
                /\ worker[q] = "none" /\ Cardinality(Present(rows)) < limit
                /\ row' = [rows EXCEPT ![q] = [status |-> "queued", due |-> FALSE, preview |-> <<>>]]
  BY <1>2, <1>10
<1>11. ASSUME NEW r \in Requests, NEW n \in 1 .. MaxDeltas, AppendPreview(r, n)
       PROVE  \/ row' = row
              \/ \E q \in Requests, m \in 1 .. MaxDeltas :
                   /\ m \in tried[q] + 1 .. emitted[q] /\ row[q] # NoRow
                   /\ row' = [row EXCEPT ![q].preview = @ \o Upto(tried[q], m)]
  BY <1>5, <1>11
<1>12. ASSUME NEW r \in Requests, Commit(r) \/ Fail(r)
       PROVE  \/ row' = row
              \/ \E q \in Requests, outcome \in {"completed", "failed"} :
                   /\ Owned(q, {"queued", "running"})
                   /\ row' = [row EXCEPT ![q].status = outcome, ![q].due = FALSE]
  BY <1>3, <1>4, <1>12
<1> QED
  BY <1>6, <1>7, <1>8, <1>9, <1>10, <1>11, <1>12

LEMMA MessageTypeStep ==
    MessageTypeOK /\ [MessageNext /\ UNCHANGED limit]_<<messageVars, limit>> => MessageTypeOK'
<1> SUFFICES ASSUME MessageTypeOK, [MessageNext /\ UNCHANGED limit]_<<messageVars, limit>>
             PROVE  MessageTypeOK'
  OBVIOUS
<1>1. CASE UNCHANGED <<messageVars, limit>>
  BY <1>1 DEF messageVars, runVars, faultVars, MessageTypeOK, FaultTypeOK
<1>2. CASE MessageNext /\ UNCHANGED limit
  <2> USE <1>2, MessageAssumption
  <2>1. FaultTypeOK'
    <3>1. ASSUME NEW kind \in {"crash", "stall", "hiccup"}, Fault(kind) PROVE faults' \in FaultCount
      BY <3>1, FaultFact DEF MessageTypeOK
    <3>2. faults' \in FaultCount
      BY <3>1 DEF MessageTypeOK, FaultTypeOK, MessageNext, ClaimReplays, ClaimInserts, MarkRunning,
             MarkRunningFails, Emit, AppendPreview, ExecuteReturns, HeartbeatRefused, HeartbeatThrows,
             RowLapses, RowStalls, Commit, CommitThrows, Fail, Poll, RetentionPasses, DirectoryAges,
             ListRoots, SweepDirectories, Crash, Stop, Start, faultVars
    <3>3. up' \subseteq Gateways
      BY DEF MessageTypeOK, FaultTypeOK, MessageNext, ClaimReplays, ClaimInserts, MarkRunning,
             MarkRunningFails, Emit, AppendPreview, ExecuteReturns, HeartbeatRefused, HeartbeatThrows,
             RowLapses, RowStalls, Commit, CommitThrows, Fail, Poll, RetentionPasses, DirectoryAges,
             ListRoots, SweepDirectories, Crash, Stop, Start, faultVars
    <3> QED
      BY <3>2, <3>3 DEF FaultTypeOK
  <2>2. row' \in [Requests -> Row \cup {NoRow}]
    <3>1. Narrowed \subseteq [Requests -> Row \cup {NoRow}] /\ Reaped \in Narrowed
      BY ReapFact DEF Narrowed
    <3>2. ASSUME NEW r \in Requests, Active(Reaped[r]),
                 row' = [Reaped EXCEPT ![r].status = "running"]
          PROVE  row' \in [Requests -> Row \cup {NoRow}]
      BY <3>1, <3>2 DEF Row, Active
    <3>3. ASSUME NEW r \in Requests, NEW n \in 1 .. MaxDeltas,
                 n \in tried[r] + 1 .. emitted[r], row[r] # NoRow,
                 row' = [row EXCEPT ![r].preview = @ \o Upto(tried[r], n)]
          PROVE  row' \in [Requests -> Row \cup {NoRow}]
      <4> tried[r] \in Nat /\ n \in Nat /\ tried[r] <= n /\ n <= MaxDeltas
        BY <3>3 DEF MessageTypeOK
      <4>1. Upto(tried[r], n) \in Seq(1 .. MaxDeltas)
        BY UptoFact
      <4>2. row[r] \in Row /\ row[r].preview \o Upto(tried[r], n) \in Seq(1 .. MaxDeltas)
        BY <3>3, <4>1 DEF MessageTypeOK, Row
      <4> QED
        BY <3>3, <4>2 DEF MessageTypeOK, Row
    <3>4. ASSUME NEW r \in Requests, row[r] # NoRow, row' = [row EXCEPT ![r].due = TRUE]
          PROVE  row' \in [Requests -> Row \cup {NoRow}]
      BY <3>4 DEF MessageTypeOK, Row
    <3>5. ASSUME NEW r \in Requests, NEW outcome \in {"completed", "failed"},
                 Owned(r, {"queued", "running"}),
                 row' = [row EXCEPT ![r].status = outcome, ![r].due = FALSE]
          PROVE  row' \in [Requests -> Row \cup {NoRow}]
      <4>1. row[r] \in Row
        BY <3>5 DEF MessageTypeOK, Owned
      <4>2. [row[r] EXCEPT !.status = outcome, !.due = FALSE] \in Row
        BY <4>1 DEF Row
      <4>3. row' = [row EXCEPT ![r] = [row[r] EXCEPT !.status = outcome, !.due = FALSE]]
        BY <3>5 DEF MessageTypeOK
      <4> QED
        BY <4>2, <4>3 DEF MessageTypeOK
    <3>6. ASSUME NEW r \in Requests, NEW rows \in Narrowed,
                 row' = [rows EXCEPT ![r] = [status |-> "queued", due |-> FALSE, preview |-> <<>>]]
          PROVE  row' \in [Requests -> Row \cup {NoRow}]
      BY <3>1, <3>6 DEF Row
    <3>7. CASE row' = row \/ row' \in Narrowed
      BY <3>1, <3>7 DEF MessageTypeOK
    <3> QED
      BY RowSteps, <3>2, <3>3, <3>4, <3>5, <3>6, <3>7
  <2>3. older' \subseteq Requests \X Requests
    <3>1. \A rows : Order(rows) \subseteq Requests \X Requests
      BY DEF Order, Done
    <3>2. older' = older \/ \E rows : older' = Order(rows)
      BY DEF SetRows, MessageNext, ClaimReplays, ClaimInserts, MarkRunning,
             MarkRunningFails, Emit, AppendPreview, ExecuteReturns, HeartbeatRefused, HeartbeatThrows,
             RowLapses, RowStalls, Commit, CommitThrows, Fail, Poll, RetentionPasses, DirectoryAges,
             ListRoots, SweepDirectories, Crash, runVars
    <3> QED
      BY <3>1, <3>2 DEF MessageTypeOK
  <2>4. call' \in [Requests -> Call \cup {NoCall}]
    BY DEF MessageTypeOK, MessageNext, ClaimReplays, ClaimInserts, MarkRunning,
           MarkRunningFails, Emit, AppendPreview, ExecuteReturns, HeartbeatRefused, HeartbeatThrows,
           RowLapses, RowStalls, Commit, CommitThrows, Fail, Poll, RetentionPasses, DirectoryAges,
           ListRoots, SweepDirectories, Crash, runVars
  <2>5. worker' \in [Requests -> {"none", "answered", "claimed", "executing", "draining",
                                  "failing", "over", "lost"}]
    BY DEF MessageTypeOK, MessageNext, ClaimReplays, ClaimInserts, MarkRunning,
           MarkRunningFails, Emit, AppendPreview, ExecuteReturns, HeartbeatRefused, HeartbeatThrows,
           RowLapses, RowStalls, Commit, CommitThrows, Fail, Poll, RetentionPasses, DirectoryAges,
           ListRoots, SweepDirectories, Crash, runVars
  <2>6. runErr' \subseteq Requests
    <3>1. runErr' = runErr \/ (\E r \in Requests : runErr' = runErr \cup {r}) \/ \E gone : Forget(gone)
      BY DEF MessageNext, ClaimReplays, ClaimInserts, MarkRunning,
             MarkRunningFails, Emit, AppendPreview, ExecuteReturns, HeartbeatRefused, HeartbeatThrows,
             RowLapses, RowStalls, Commit, CommitThrows, Fail, Poll, RetentionPasses, DirectoryAges,
             ListRoots, SweepDirectories, Crash, runVars
    <3> QED
      BY <3>1 DEF MessageTypeOK, Forget
  <2>7. /\ emitted' \in [Requests -> 0 .. MaxDeltas] /\ tried' \in [Requests -> 0 .. MaxDeltas]
        /\ \A r \in Requests : tried'[r] <= emitted'[r]
    <3>1. \/ UNCHANGED <<emitted, tried>> \/ \E gone : Forget(gone)
          \/ \E r \in Requests : Emit(r) \/ \E n \in 1 .. MaxDeltas : AppendPreview(r, n)
      BY DEF MessageNext, ClaimReplays, ClaimInserts, MarkRunning,
             MarkRunningFails, ExecuteReturns, HeartbeatRefused, HeartbeatThrows,
             RowLapses, RowStalls, Commit, CommitThrows, Fail, Poll, RetentionPasses, DirectoryAges,
             ListRoots, SweepDirectories, Crash, runVars
    <3>2. CASE \E r \in Requests : Emit(r)
      BY <3>2 DEF Emit, MessageTypeOK
    <3>3. CASE \E r \in Requests : \E n \in 1 .. MaxDeltas : AppendPreview(r, n)
      BY <3>3 DEF AppendPreview, MessageTypeOK
    <3>4. CASE \E gone : Forget(gone)
      BY <3>4 DEF Forget, MessageTypeOK
    <3> QED
      BY <3>1, <3>2, <3>3, <3>4 DEF MessageTypeOK
  <2>8. dir' \in [Requests -> {"none", "young", "old", "removed"}]
    BY DEF MessageTypeOK, MessageNext, ClaimReplays, ClaimInserts, MarkRunning,
           MarkRunningFails, Emit, AppendPreview, ExecuteReturns, HeartbeatRefused, HeartbeatThrows,
           RowLapses, RowStalls, Commit, CommitThrows, Fail, Poll, RetentionPasses, DirectoryAges,
           ListRoots, SweepDirectories, Crash, runVars
  <2>9. gc' \in [Hosts -> {<<>>} \cup {<<runs>> : runs \in SUBSET Requests}]
    BY DEF MessageTypeOK, Present, MessageNext, ClaimReplays, ClaimInserts, MarkRunning,
           MarkRunningFails, Emit, AppendPreview, ExecuteReturns, HeartbeatRefused, HeartbeatThrows,
           RowLapses, RowStalls, Commit, CommitThrows, Fail, Poll, RetentionPasses, DirectoryAges,
           ListRoots, SweepDirectories, Crash, runVars
  <2> QED
    BY <2>1, <2>2, <2>3, <2>4, <2>5, <2>6, <2>7, <2>8, <2>9 DEF MessageTypeOK
<1> QED
  BY <1>1, <1>2

\* What the rest of the invariant says.
Sound ==
    UnclaimedIsBlank /\ KeysUnique /\ WorkersHoldRows /\ CompletedIsOver /\ UnlistedAreYoung /\ ArtifactsKept

\* A narrowed table keeps what it says of each row that is left.
LEMMA NarrowedFact ==
    ASSUME MessageTypeOK, NEW rows \in Narrowed, NEW r \in Requests
    PROVE  /\ rows[r] # NoRow =>
                /\ row[r] # NoRow /\ rows[r].preview = row[r].preview
                /\ rows[r].status = "completed" => row[r].status = "completed"
           /\ Active(row[r]) /\ ~row[r].due => rows[r] = row[r]
           /\ Terminal(row[r]) => rows[r] = row[r] \/ rows[r] = NoRow
<1> row[r] \in Row \cup {NoRow} /\ Yields(rows[r], row[r])
  BY DEF MessageTypeOK, Narrowed
<1> QED
  BY MessageAssumption DEF Yields, Active, Terminal, Row

\* Actions that leave the table alone, but for an instant that passes.
LEMMA QuietStep ==
    ASSUME MessageInv, NEW r \in Requests,
           \/ MarkRunningFails(r) \/ Emit(r) \/ ExecuteReturns(r, TRUE) \/ ExecuteReturns(r, FALSE)
           \/ HeartbeatRefused(r) \/ HeartbeatThrows(r) \/ CommitThrows(r) \/ DirectoryAges(r)
    PROVE  Sound'
<1>0. faults'.stall = faults.stall
  <2>1. faults' = faults \/ Fault("hiccup")
    BY DEF MarkRunningFails, Emit, ExecuteReturns, HeartbeatRefused, HeartbeatThrows, CommitThrows,
           DirectoryAges, faultVars
  <2>2. FaultTypeOK
    BY DEF MessageInv, MessageTypeOK
  <2> QED
    BY <2>1, <2>2, FaultFact DEF FaultTypeOK, FaultCount
<1> USE MessageAssumption DEF MessageInv, MessageTypeOK
<1>1. UnclaimedIsBlank'
  BY DEF UnclaimedIsBlank, MarkRunningFails, Emit, ExecuteReturns, HeartbeatRefused, HeartbeatThrows,
         CommitThrows, DirectoryAges, Working
<1>2. KeysUnique'
  BY DEF KeysUnique, MarkRunningFails, Emit, ExecuteReturns, HeartbeatRefused, HeartbeatThrows,
         CommitThrows, DirectoryAges, Present
<1>3. WorkersHoldRows'
  BY <1>0 DEF WorkersHoldRows, MarkRunningFails, Emit, ExecuteReturns, HeartbeatRefused, HeartbeatThrows,
         CommitThrows, DirectoryAges, Working
<1>4. CompletedIsOver'
  BY DEF CompletedIsOver, MarkRunningFails, Emit, ExecuteReturns, HeartbeatRefused, HeartbeatThrows,
         CommitThrows, DirectoryAges, Working
<1>5. UnlistedAreYoung'
  BY DEF UnlistedAreYoung, MarkRunningFails, Emit, ExecuteReturns, HeartbeatRefused, HeartbeatThrows,
         CommitThrows, DirectoryAges
<1>6. ArtifactsKept'
  BY DEF ArtifactsKept, MarkRunningFails, Emit, ExecuteReturns, HeartbeatRefused, HeartbeatThrows,
         CommitThrows, DirectoryAges
<1> QED
  BY <1>1, <1>2, <1>3, <1>4, <1>5, <1>6 DEF Sound

LEMMA InstantStep ==
    ASSUME MessageInv, NEW r \in Requests, RowLapses(r) \/ RowStalls(r) \/ RetentionPasses(r)
    PROVE  Sound'
<1> USE MessageAssumption DEF MessageInv, MessageTypeOK, FaultTypeOK
<1>0. row' = [row EXCEPT ![r].due = TRUE] /\ row[r] \in Row
      /\ UNCHANGED <<call, worker, runErr, emitted, tried, dir, gc>>
  BY DEF RowLapses, RowStalls, RetentionPasses, Active, Terminal
<1>1. \A q \in Requests : (row'[q] # NoRow => row[q] # NoRow /\ row'[q].preview = row[q].preview
                                               /\ row'[q].status = row[q].status)
                          /\ (row[q] = NoRow => row'[q] = NoRow)
  BY <1>0 DEF Row
<1>2. UnclaimedIsBlank'
  BY <1>0, <1>1 DEF UnclaimedIsBlank
<1>3. KeysUnique'
  BY <1>0, <1>1 DEF KeysUnique, Present
<1>4. WorkersHoldRows'
  <2>1. Active(row[r]) /\ ~row[r].due /\ Working(r) /\ r \notin runErr => faults'.stall # 0
    BY FaultFact DEF FaultCount, RowLapses, RowStalls, RetentionPasses, Active
  <2>2. faults'.stall = 0 => faults.stall = 0
    BY FaultFact DEF FaultCount, RowLapses, RowStalls, RetentionPasses, faultVars
  <2> QED
    BY <1>0, <1>1, <2>1, <2>2 DEF WorkersHoldRows, Working, Active, Terminal, Row
<1>5. CompletedIsOver' /\ UnlistedAreYoung' /\ ArtifactsKept'
  BY <1>0, <1>1 DEF CompletedIsOver, UnlistedAreYoung, ArtifactsKept
<1> QED
  BY <1>2, <1>3, <1>4, <1>5 DEF Sound

\* A transaction that only narrows the table, and at most answers a request or
\* ends a worker.
LEMMA NarrowStep ==
    ASSUME MessageInv, row' \in Narrowed, faults' = faults,
           UNCHANGED <<call, runErr, emitted, tried, dir>>,
           \A r \in Requests :
             \/ worker'[r] = worker[r]
             \/ worker[r] = "none" /\ worker'[r] = "answered"
             \/ worker[r] = "claimed" /\ worker'[r] = "over",
           gc' = gc \/ \A g \in Hosts : gc'[g] = gc[g] \/ gc'[g] = <<Present(row')>>
    PROVE  Sound'
<1> USE MessageAssumption DEF MessageInv
<1>1. \A r \in Requests : row'[r] # NoRow => /\ row[r] # NoRow /\ row'[r].preview = row[r].preview
                                             /\ row'[r].status = "completed" => row[r].status = "completed"
  BY NarrowedFact
<1>2. UnclaimedIsBlank'
  BY <1>1 DEF UnclaimedIsBlank
<1>3. KeysUnique'
  BY <1>1 DEF KeysUnique, Present
<1>4. WorkersHoldRows'
  <2>1. \A r \in Requests : Active(row[r]) /\ ~row[r].due => row'[r] = row[r]
    BY NarrowedFact
  <2> QED
    BY <1>1, <2>1 DEF WorkersHoldRows, Working
<1>5. CompletedIsOver'
  BY <1>1 DEF CompletedIsOver
<1>6. UnlistedAreYoung'
  BY <1>1 DEF UnlistedAreYoung, Present
<1>7. ArtifactsKept'
  BY <1>1 DEF ArtifactsKept
<1> QED
  BY <1>2, <1>3, <1>4, <1>5, <1>6, <1>7 DEF Sound

LEMMA ReplayStep ==
    ASSUME MessageInv,
           \/ \E r \in Requests : Poll(r) \/ \E key \in Keys : ClaimReplays(r, key)
           \/ \E r \in Requests : MarkRunning(r) /\ ~Active(Reaped[r])
           \/ \E g \in Hosts : ListRoots(g)
    PROVE  Sound'
<1>1. MessageTypeOK /\ Reaped \in Narrowed
  BY ReapFact DEF MessageInv
<1> QED
  BY <1>1, NarrowStep DEF Poll, ClaimReplays, MarkRunning, ListRoots, SetRows, faultVars, MessageTypeOK

LEMMA InsertStep ==
    ASSUME MessageInv, NEW r \in Requests, NEW c \in Asked, ClaimInserts(r, c)
    PROVE  Sound'
<1> USE MessageAssumption DEF MessageInv, MessageTypeOK
<1> DEFINE fresh == [status |-> "queued", due |-> FALSE, preview |-> <<>>]
<1>1. PICK rows \in Narrowed : row' = [rows EXCEPT ![r] = fresh] /\ Present(rows) \subseteq Present(Reaped)
  BY MakeRoomFact DEF ClaimInserts, SetRows
<1>2. /\ worker[r] = "none" /\ worker' = [worker EXCEPT ![r] = "claimed"]
      /\ call' = [call EXCEPT ![r] = c] /\ c \in Call
      /\ UNCHANGED <<faults, runErr, emitted, tried, dir, gc>>
  BY DEF ClaimInserts, faultVars
<1>3. \A q \in Requests \ {r} : row'[q] # NoRow =>
            /\ row[q] # NoRow /\ row'[q].preview = row[q].preview
            /\ row'[q].status = "completed" => row[q].status = "completed"
  BY <1>1, NarrowedFact DEF Narrowed
<1>4. row'[r] \in Row /\ row'[r].status = "queued" /\ ~row'[r].due /\ row'[r].preview = <<>>
  <2>1. fresh \in Row /\ fresh.status = "queued" /\ ~fresh.due /\ fresh.preview = <<>>
    BY DEF Row
  <2>2. row'[r] = fresh
    BY <1>1 DEF Narrowed
  <2> QED
    BY <2>1, <2>2
<1>5. UnclaimedIsBlank'
  BY <1>2, <1>3 DEF UnclaimedIsBlank
<1>6. KeysUnique'
  <2>1. \A p \in Present(row) \ {r} : p \in Present(row') /\ call[p].key = c.key => c.key = NoKey
    BY <1>1 DEF Present, ClaimInserts, Twins, Narrowed
  <2> QED
    BY <1>2, <1>3, <1>4, <2>1 DEF KeysUnique, Present
<1>7. WorkersHoldRows'
  <2>1. \A q \in Requests \ {r} : Active(row[q]) /\ ~row[q].due => row'[q] = row[q]
    BY <1>1, NarrowedFact DEF Narrowed
  <2>2. tried[r] = 0 /\ <<>> = Upto(0, 0)
    BY <1>2 DEF UnclaimedIsBlank, Upto
  <2> QED
    BY <1>2, <1>3, <1>4, <2>1, <2>2 DEF WorkersHoldRows, Working, Active, Terminal
<1>8. CompletedIsOver'
  BY <1>2, <1>3, <1>4 DEF CompletedIsOver
<1>9. UnlistedAreYoung' /\ ArtifactsKept'
  BY <1>2, <1>3 DEF UnlistedAreYoung, ArtifactsKept, UnclaimedIsBlank
<1> QED
  BY <1>5, <1>6, <1>7, <1>8, <1>9 DEF Sound

LEMMA RunStep ==
    ASSUME MessageInv, NEW r \in Requests, MarkRunning(r), Active(Reaped[r])
    PROVE  Sound'
<1> USE MessageAssumption DEF MessageInv, MessageTypeOK
<1>1. Reaped \in Narrowed /\ row' = [Reaped EXCEPT ![r].status = "running"]
  BY ReapFact DEF MarkRunning, SetRows
<1>2. /\ worker[r] = "claimed" /\ worker' = [worker EXCEPT ![r] = "executing"]
      /\ dir' = IF call[r].isolated THEN [dir EXCEPT ![r] = "young"] ELSE dir
      /\ UNCHANGED <<faults, call, runErr, emitted, tried, gc>>
  BY DEF MarkRunning, faultVars
<1>0. /\ row'[r] # NoRow /\ row'[r].preview = Reaped[r].preview /\ row'[r].status = "running"
      /\ row'[r].due = Reaped[r].due /\ \A q \in Requests \ {r} : row'[q] = Reaped[q]
  <2>1. Reaped[r] \in Row
    BY <1>1 DEF Narrowed, Active
  <2>2. [Reaped[r] EXCEPT !.status = "running"] \in Row
    BY <2>1 DEF Row
  <2>3. row'[r] = [Reaped[r] EXCEPT !.status = "running"]
    BY <1>1 DEF Narrowed
  <2> QED
    BY <1>1, <2>1, <2>2, <2>3 DEF Narrowed, Row
<1>3. \A q \in Requests : row'[q] # NoRow =>
            /\ row[q] # NoRow /\ row'[q].preview = row[q].preview
            /\ row'[q].status = "completed" => row[q].status = "completed"
  BY <1>0, <1>1, NarrowedFact DEF Active
<1>4. \A q \in Requests : Active(row[q]) /\ ~row[q].due => Active(row'[q]) /\ ~row'[q].due
  BY <1>0, <1>1, NarrowedFact DEF Active, Terminal
<1>5. UnclaimedIsBlank'
  BY <1>2, <1>3 DEF UnclaimedIsBlank
<1>6. KeysUnique'
  BY <1>2, <1>3 DEF KeysUnique, Present
<1>7. WorkersHoldRows'
  BY <1>2, <1>3, <1>4 DEF WorkersHoldRows, Working
<1>8. CompletedIsOver'
  BY <1>2, <1>3 DEF CompletedIsOver
<1>9. UnlistedAreYoung' /\ ArtifactsKept'
  BY <1>2, <1>3 DEF UnlistedAreYoung, ArtifactsKept
<1> QED
  BY <1>5, <1>6, <1>7, <1>8, <1>9 DEF Sound

LEMMA AppendStep ==
    ASSUME MessageInv, NEW r \in Requests, NEW n \in 1 .. MaxDeltas, AppendPreview(r, n)
    PROVE  Sound'
<1> USE MessageAssumption DEF MessageInv, MessageTypeOK
<1>1. /\ Working(r) /\ n \in tried[r] + 1 .. emitted[r] /\ tried' = [tried EXCEPT ![r] = n]
      /\ \/ /\ row[r] # NoRow /\ row' = [row EXCEPT ![r].preview = @ \o Upto(tried[r], n)]
            /\ UNCHANGED <<faults, runErr>>
         \/ row' = row /\ runErr' = runErr \cup {r}
      /\ UNCHANGED <<call, worker, emitted, dir, gc>>
  BY DEF AppendPreview, Owned
<1>2. faults'.stall = faults.stall
  <2>1. faults' = faults \/ Fault("hiccup")
    BY DEF AppendPreview
  <2> QED
    BY <2>1, FaultFact DEF FaultTypeOK, FaultCount
<1>3. \A q \in Requests : /\ row'[q] # NoRow <=> row[q] # NoRow
                          /\ q # r => row'[q] = row[q]
                          /\ row[q] # NoRow => row'[q].status = row[q].status /\ row'[q].due = row[q].due
  <2>1. CASE row' = row
    BY <2>1
  <2>2. CASE row[r] # NoRow /\ row' = [row EXCEPT ![r].preview = @ \o Upto(tried[r], n)]
    <3> tried[r] \in Nat /\ n \in Nat /\ tried[r] <= n /\ n <= MaxDeltas
      BY <1>1
    <3>1. row[r] \in Row /\ Upto(tried[r], n) \in Seq(1 .. MaxDeltas)
      BY <2>2, UptoFact
    <3>2. row[r].preview \o Upto(tried[r], n) \in Seq(1 .. MaxDeltas)
      BY <3>1 DEF Row
    <3>3. row'[r] = [row[r] EXCEPT !.preview = row[r].preview \o Upto(tried[r], n)]
      BY <2>2
    <3>4. row'[r] \in Row /\ row'[r].status = row[r].status /\ row'[r].due = row[r].due
      BY <3>1, <3>2, <3>3 DEF Row
    <3> QED
      BY <2>2, <3>1, <3>4
  <2> QED
    BY <1>1, <2>1, <2>2
<1>4. UnclaimedIsBlank'
  BY <1>1, <1>3 DEF UnclaimedIsBlank, Working
<1>5. KeysUnique'
  BY <1>1, <1>3 DEF KeysUnique, Present
<1>6. WorkersHoldRows'
  <2>1. r \notin runErr' /\ row[r] # NoRow => row'[r].preview = Upto(0, n)
    <3> SUFFICES ASSUME r \notin runErr', row[r] # NoRow PROVE row'[r].preview = Upto(0, n)
      OBVIOUS
    <3>1. /\ row[r] \in Row /\ row'[r].preview = row[r].preview \o Upto(tried[r], n)
          /\ r \notin runErr
      BY <1>1 DEF Row
    <3>2. row[r].preview = Upto(0, tried[r])
      BY <1>1, <3>1 DEF WorkersHoldRows
    <3>3. tried[r] \in Nat /\ n \in Nat /\ tried[r] <= n /\ n <= MaxDeltas
      BY <1>1
    <3> QED
      BY <3>1, <3>2, <3>3, UptoFact
  <2>2. \A q \in Requests : Active(row[q]) => Active(row'[q])
    BY <1>3 DEF Active, Terminal
  <2>3. \A q \in Requests : q \notin runErr' => q \notin runErr
    BY <1>1
  <2>4. \A q \in Requests : Working(q)' <=> Working(q)
    BY <1>1 DEF Working
  <2>5. \A q \in Requests \ {r} : tried'[q] = tried[q]
    BY <1>1
  <2>6. tried'[r] = n
    BY <1>1
  <2>7. ASSUME NEW q \in Requests, Working(q), q \notin runErr', faults.stall = 0
        PROVE  Active(row'[q]) /\ ~row'[q].due
    BY <1>3, <2>2, <2>3, <2>7 DEF WorkersHoldRows, Active
  <2>8. ASSUME NEW q \in Requests, Working(q), q \notin runErr', row'[q] # NoRow
        PROVE  row'[q].preview = Upto(0, tried'[q])
    BY <1>3, <2>1, <2>3, <2>5, <2>6, <2>8 DEF WorkersHoldRows
  <2> QED
    BY <1>2, <2>4, <2>7, <2>8 DEF WorkersHoldRows
<1>7. CompletedIsOver'
  BY <1>1, <1>3 DEF CompletedIsOver, Working
<1>8. UnlistedAreYoung' /\ ArtifactsKept'
  BY <1>1, <1>3 DEF UnlistedAreYoung, ArtifactsKept
<1> QED
  BY <1>4, <1>5, <1>6, <1>7, <1>8 DEF Sound

\* The worker settles the row it has, or gives up on it.
LEMMA SettleStep ==
    ASSUME MessageInv, NEW r \in Requests, Commit(r) \/ Fail(r)
    PROVE  Sound'
<1> USE MessageAssumption DEF MessageInv, MessageTypeOK
<1>1. /\ Working(r) /\ tried[r] = emitted[r] /\ UNCHANGED <<call, dir, gc>>
      /\ \A q \in Requests \ {r} : /\ worker'[q] = worker[q] /\ (q \in runErr' <=> q \in runErr)
                                   /\ emitted'[q] = emitted[q] /\ tried'[q] = tried[q]
      /\ worker'[r] \in {"failing", "over"} /\ (r \in runErr' => r \in runErr)
  BY DEF Commit, Fail, Drained, Forget, Working
<1>2. faults'.stall = faults.stall
  <2>1. faults' = faults \/ Fault("hiccup")
    BY DEF Commit, Fail, faultVars
  <2> QED
    BY <2>1, FaultFact DEF FaultTypeOK, FaultCount
<1>3. \/ row' = row
      \/ /\ row[r] \in Row /\ worker'[r] = "over"
         /\ row' = [row EXCEPT ![r].status = "completed", ![r].due = FALSE]
         /\ r \notin runErr /\ emitted' = emitted
      \/ /\ row[r] \in Row /\ worker'[r] = "over" /\ row[r].status \in {"queued", "running"}
         /\ row' = [row EXCEPT ![r].status = "failed", ![r].due = FALSE]
  BY DEF Commit, Fail, SetRows, Owned
<1>4. \A q \in Requests : /\ row'[q] # NoRow <=> row[q] # NoRow
                          /\ q # r => row'[q] = row[q]
                          /\ row'[q] # NoRow => row'[q].preview = row[q].preview
  <2>1. ASSUME NEW outcome \in {"completed", "failed"}, row[r] \in Row,
               row' = [row EXCEPT ![r].status = outcome, ![r].due = FALSE]
        PROVE  /\ row'[r] \in Row /\ row'[r].preview = row[r].preview
               /\ \A q \in Requests \ {r} : row'[q] = row[q]
    <3>1. row'[r] = [row[r] EXCEPT !.status = outcome, !.due = FALSE]
      BY <2>1
    <3>2. row'[r] \in Row /\ row'[r].preview = row[r].preview
      BY <2>1, <3>1 DEF Row
    <3> QED
      BY <2>1, <3>2
  <2> QED
    BY <1>3, <2>1
<1>5. UnclaimedIsBlank'
  BY <1>1, <1>4 DEF UnclaimedIsBlank, Working
<1>6. KeysUnique'
  BY <1>1, <1>4 DEF KeysUnique, Present
<1>7. WorkersHoldRows'
  <2>1. ASSUME NEW q \in Requests \ {r}, Working(q)', q \notin runErr'
        PROVE  Working(q) /\ q \notin runErr /\ row'[q] = row[q] /\ tried'[q] = tried[q]
    BY <1>1, <1>4, <2>1 DEF Working
  <2>2. ASSUME Working(r)', r \notin runErr' PROVE row' = row /\ tried' = tried /\ r \notin runErr
    BY <2>2 DEF Working, Commit, Fail
  <2> QED
    BY <1>1, <1>2, <2>1, <2>2 DEF WorkersHoldRows
<1>8. CompletedIsOver'
  <2>1. ASSUME row[r] \in Row, row' = [row EXCEPT ![r].status = "completed", ![r].due = FALSE],
               r \notin runErr, emitted' = emitted
        PROVE  row[r].preview = Upto(0, emitted'[r])
    BY <1>1, <2>1 DEF WorkersHoldRows
  <2>2. ASSUME row[r] \in Row, row' = [row EXCEPT ![r].status = "failed", ![r].due = FALSE]
        PROVE  row'[r].status = "failed"
    BY <2>2 DEF Row
  <2>3. row[r] # NoRow => row[r].status # "completed"
    BY <1>1 DEF CompletedIsOver, Working
  <2>4. row'[r] # NoRow /\ row'[r].status = "completed" =>
          worker'[r] = "over" /\ row'[r].preview = Upto(0, emitted'[r])
    BY <1>3, <1>4, <2>1, <2>2, <2>3
  <2> QED
    BY <1>1, <1>4, <2>4 DEF CompletedIsOver
<1>9. UnlistedAreYoung' /\ ArtifactsKept'
  BY <1>1, <1>4 DEF UnlistedAreYoung, ArtifactsKept
<1> QED
  BY <1>5, <1>6, <1>7, <1>8, <1>9 DEF Sound

\* What a gateway does to the runs of all: sweep, crash, start.
LEMMA HostStep ==
    ASSUME MessageInv, NEW g \in Hosts,
           SweepDirectories(g) \/ Crash(g) \/ (Start(g) /\ UNCHANGED runVars)
    PROVE  Sound'
<1> USE MessageAssumption DEF MessageInv, MessageTypeOK
<1>1. row' = row /\ call' = call
  BY DEF SweepDirectories, Crash, runVars
<1>2. faults'.stall = faults.stall
  <2>1. faults' = faults \/ Fault("crash")
    BY DEF SweepDirectories, Crash, Stop, Start, faultVars
  <2> QED
    BY <2>1, FaultFact DEF FaultTypeOK, FaultCount
<1>3. \A r \in Requests : \/ worker'[r] = worker[r] /\ (r \in runErr' <=> r \in runErr)
                             /\ emitted'[r] = emitted[r] /\ tried'[r] = tried[r]
                          \/ Working(r) /\ worker'[r] = "lost" /\ r \notin runErr'
  BY DEF SweepDirectories, Crash, Forget, runVars
<1>4. \A h \in Hosts : gc'[h] = gc[h] \/ gc'[h] = <<>>
  BY DEF SweepDirectories, Crash, runVars
<1>5. \A r \in Requests : \/ dir'[r] = dir[r]
                          \/ dir[r] = "old" /\ dir'[r] = "removed" /\ gc[g] # <<>> /\ r \notin Head(gc[g])
  BY DEF SweepDirectories, Crash, runVars
<1>6. UnclaimedIsBlank'
  BY <1>1, <1>3, <1>5 DEF UnclaimedIsBlank, Working
<1>7. KeysUnique'
  BY <1>1 DEF KeysUnique, Present
<1>8. WorkersHoldRows'
  BY <1>1, <1>2, <1>3 DEF WorkersHoldRows, Working
<1>9. CompletedIsOver'
  BY <1>1, <1>3 DEF CompletedIsOver, Working
<1>10. UnlistedAreYoung' /\ ArtifactsKept'
  BY <1>1, <1>4, <1>5 DEF UnlistedAreYoung, ArtifactsKept
<1> QED
  BY <1>6, <1>7, <1>8, <1>9, <1>10 DEF Sound

\* Only a claim adds a row, and it found room for it.
LEMMA LimitStep ==
    ASSUME MessageInv, MessageNext, limit' = limit
    PROVE  WithinLimit'
<1>1. MessageTypeOK /\ WithinLimit /\ limit \in Nat
  BY MessageAssumption DEF MessageInv, MessageTypeOK
<1>2. ASSUME NEW rows \in Narrowed PROVE Present(rows) \subseteq Present(row)
  BY <1>1, NarrowedFact DEF Present
<1>3. ASSUME NEW r \in Requests, NEW rows \in Narrowed, Cardinality(Present(rows)) < limit,
             row' = [rows EXCEPT ![r] = [status |-> "queued", due |-> FALSE, preview |-> <<>>]]
      PROVE  WithinLimit'
  <2>1. IsFiniteSet(Present(rows))
    BY <1>1, <1>2, FS_Subset DEF WithinLimit
  <2>2. IsFiniteSet(Present(rows) \cup {r})
    BY <2>1, FS_AddElement
  <2>3. \/ Cardinality(Present(rows) \cup {r}) = Cardinality(Present(rows))
        \/ Cardinality(Present(rows) \cup {r}) = Cardinality(Present(rows)) + 1
    BY <2>1, FS_AddElement
  <2>4. Present(row') \subseteq Present(rows) \cup {r}
    BY <1>3 DEF Present, Narrowed
  <2>5. IsFiniteSet(Present(row'))
    BY <2>2, <2>4, FS_Subset
  <2>6. Cardinality(Present(row')) <= Cardinality(Present(rows) \cup {r})
    BY <2>2, <2>4, FS_Subset
  <2>7. Cardinality(Present(rows)) \in Nat /\ Cardinality(Present(row')) \in Nat
    BY <2>1, <2>5, FS_CardinalityType
  <2> QED
    BY <1>1, <1>3, <2>3, <2>5, <2>6, <2>7, limit' = limit DEF WithinLimit
<1>4. ASSUME NEW r \in Requests, Active(Reaped[r]), row' = [Reaped EXCEPT ![r].status = "running"]
      PROVE  WithinLimit'
  <2>1. Present(row') \subseteq Present(Reaped)
    BY <1>4 DEF Present, Active, Reaped
  <2> QED
    BY <1>1, <1>2, <2>1, ReapFact, StaysWithin
<1>5. ASSUME NEW r \in Requests, NEW entry, row[r] # NoRow, row' = [row EXCEPT ![r] = entry]
      PROVE  WithinLimit'
  <2>1. Present(row') \subseteq Present(row)
    BY <1>1, <1>5 DEF Present, MessageTypeOK
  <2> QED
    BY <1>1, <2>1, StaysWithin
<1>6. CASE row' = row \/ row' \in Narrowed
  BY <1>1, <1>2, <1>6, StaysWithin
<1>7. ASSUME NEW r \in Requests, NEW n \in 1 .. MaxDeltas, row[r] # NoRow,
             row' = [row EXCEPT ![r].preview = @ \o Upto(tried[r], n)]
      PROVE  WithinLimit'
  BY <1>5, <1>7
<1>8. ASSUME NEW r \in Requests, row[r] # NoRow, row' = [row EXCEPT ![r].due = TRUE]
      PROVE  WithinLimit'
  BY <1>5, <1>8
<1>9. ASSUME NEW r \in Requests, NEW outcome \in {"completed", "failed"}, Owned(r, {"queued", "running"}),
             row' = [row EXCEPT ![r].status = outcome, ![r].due = FALSE]
      PROVE  WithinLimit'
  <2>1. row' = [row EXCEPT ![r] = [row[r] EXCEPT !.status = outcome, !.due = FALSE]]
    BY <1>1, <1>9 DEF MessageTypeOK
  <2> QED
    BY <1>5, <1>9, <2>1 DEF Owned
<1> QED
  BY <1>1, <1>3, <1>4, <1>6, <1>7, <1>8, <1>9, RowSteps

LEMMA MessageStep ==
    MessageInv /\ [MessageNext /\ UNCHANGED limit]_<<messageVars, limit>> => MessageInv'
<1> SUFFICES ASSUME MessageInv, [MessageNext /\ UNCHANGED limit]_<<messageVars, limit>>
             PROVE  MessageInv'
  OBVIOUS
<1>1. MessageTypeOK'
  BY MessageTypeStep DEF MessageInv
<1>2. CASE MessageNext /\ limit' = limit
  <2>1. Sound'
    <3>1. ASSUME NEW r \in Requests, MarkRunning(r) PROVE Sound'
      BY <3>1, RunStep, ReplayStep
    <3> QED
      BY <1>2, <3>1, ReplayStep, InsertStep, QuietStep, InstantStep, AppendStep, SettleStep, HostStep
         DEF MessageNext
  <2> QED
    BY <1>1, <1>2, <2>1, LimitStep DEF MessageInv, Sound
<1>3. CASE UNCHANGED <<messageVars, limit>>
  BY <1>1, <1>3 DEF messageVars, runVars, faultVars, MessageInv, UnclaimedIsBlank, KeysUnique,
     WorkersHoldRows, CompletedIsOver, UnlistedAreYoung, ArtifactsKept, WithinLimit, Present, Working
<1> QED
  BY <1>2, <1>3

\* async-message-store.ts, AsyncMessageRunRegistry: in every state the invariant
\* of the message runs holds, the types of their variables included.
THEOREM MessageInvariance == MessageSpec => []MessageInv
BY MessageInitInv, MessageStep, PTL DEF MessageSpec

\* AsyncMessageRunRegistry.start: without a stall, two workers of one idempotency
\* key that know of no trouble are never under way together, because each of them
\* has its row and the rows' keys differ.
THEOREM KeysRunAlone == MessageSpec => []KeyRunsAlone
<1>1. MessageInv => KeyRunsAlone
  BY DEF MessageInv, MessageTypeOK, FaultTypeOK, FaultCount, KeyRunsAlone, WorkersHoldRows,
         KeysUnique, Present, Active
<1> QED
  BY <1>1, MessageInvariance, PTL

\* collectExpiredAskArtifacts: the directory of a retained run stays, however the
\* two halves of a collection and the claims of other requests interleave.
THEOREM RetainedArtifactsStay == MessageSpec => []ArtifactsKept
<1>1. MessageInv => ArtifactsKept
  BY DEF MessageInv
<1> QED
  BY <1>1, MessageInvariance, PTL

\* AsyncMessageRunRegistry.start: a run is completed only with every batch of its
\* preview in place, in order.
THEOREM NothingMissing == MessageSpec => []CompletedPreviewIsWhole
<1>1. MessageInv => CompletedPreviewIsWhole
  BY DEF MessageInv, CompletedIsOver, CompletedPreviewIsWhole
<1> QED
  BY <1>1, MessageInvariance, PTL

\* async-message-store.ts: a terminal status stands until its row goes, an active
\* row whose lease lasts is never given up, and the limit holds.
THEOREM OneOutcome == MessageSpec => OutcomesStand
<1> DEFINE Stands ==
       /\ Cardinality(Present(row')) <= limit
       /\ \A r \in Requests :
            /\ Terminal(row[r]) => row'[r] = NoRow \/ row'[r].status = row[r].status
            /\ Active(row[r]) /\ ~row[r].due => row'[r] # NoRow
<1>1. MessageInv /\ MessageInv' /\ [MessageNext /\ UNCHANGED limit]_<<messageVars, limit>>
        => [Stands]_messageVars
  <2> SUFFICES ASSUME MessageInv, MessageInv', MessageNext, limit' = limit PROVE Stands
    BY DEF messageVars
  <2>1. MessageTypeOK /\ row \in [Requests -> Row \cup {NoRow}]
    BY DEF MessageInv, MessageTypeOK
  <2>2. Cardinality(Present(row')) <= limit
    BY DEF MessageInv, WithinLimit
  <2>3. ASSUME NEW r \in Requests
        PROVE  /\ Terminal(row[r]) => row'[r] = NoRow \/ row'[r].status = row[r].status
               /\ Active(row[r]) /\ ~row[r].due => row'[r] # NoRow
    <3> DEFINE Kept == /\ Terminal(row[r]) => row'[r] = NoRow \/ row'[r].status = row[r].status
                       /\ Active(row[r]) /\ ~row[r].due => row'[r] # NoRow
    <3> row[r] \in Row \cup {NoRow} /\ NoRow \notin Row
      BY <2>1, MessageAssumption
    <3>1. ASSUME row'[r] = row[r] PROVE Kept
      BY <3>1 DEF Active
    <3>2. ASSUME NEW rows \in Narrowed, row'[r] = rows[r] PROVE Kept
      BY <2>1, <3>2, NarrowedFact DEF Active
    <3>3. ASSUME NEW q \in Requests, NEW rows \in Narrowed, worker[q] = "none",
                 row' = [rows EXCEPT ![q] = [status |-> "queued", due |-> FALSE, preview |-> <<>>]]
          PROVE  Kept
      <4>1. CASE q # r
        BY <3>2, <3>3, <4>1 DEF Narrowed
      <4>2. CASE q = r
        BY <3>3, <4>2 DEF MessageInv, UnclaimedIsBlank, Active, Terminal
      <4> QED
        BY <4>1, <4>2
    <3>4. ASSUME NEW q \in Requests, Active(Reaped[q]), row' = [Reaped EXCEPT ![q].status = "running"]
          PROVE  Kept
      <4>1. Reaped \in Narrowed
        BY <2>1, ReapFact
      <4>2. CASE q # r
        BY <3>2, <3>4, <4>1, <4>2 DEF Narrowed
      <4>3. CASE q = r
        <5>1. Reaped[r] \in Row /\ ~Terminal(row[r])
          BY <2>1, <3>4, <4>1, <4>3, NarrowedFact DEF Active, Narrowed
        <5>2. row'[r] = [Reaped[r] EXCEPT !.status = "running"]
          BY <3>4, <4>1, <4>3 DEF Narrowed
        <5>3. row'[r] \in Row
          BY <5>1, <5>2 DEF Row
        <5> QED
          BY <5>1, <5>3
      <4> QED
        BY <4>2, <4>3
    <3>5. ASSUME NEW q \in Requests, NEW entry, row' = [row EXCEPT ![q] = entry],
                 row[q] # NoRow => entry # NoRow /\ (Terminal(row[q]) => entry.status = row[q].status)
          PROVE  Kept
      <4>1. CASE q # r
        BY <2>1, <3>1, <3>5, <4>1
      <4>2. CASE q = r
        <5>1. row'[r] = entry
          BY <2>1, <3>5, <4>2
        <5> QED
          BY <3>5, <4>2, <5>1 DEF Active, Terminal
      <4> QED
        BY <4>1, <4>2
    <3>6. ASSUME NEW q \in Requests, NEW n \in 1 .. MaxDeltas, row[q] # NoRow,
                 n \in tried[q] + 1 .. emitted[q],
                 row' = [row EXCEPT ![q].preview = @ \o Upto(tried[q], n)]
          PROVE  Kept
      <4> DEFINE text == row[q].preview \o Upto(tried[q], n)
      <4>1. row[q] \in Row /\ row' = [row EXCEPT ![q] = [row[q] EXCEPT !.preview = text]]
        BY <2>1, <3>6
      <4>2. tried[q] \in Nat /\ n \in Nat /\ tried[q] <= n /\ n <= MaxDeltas /\ MaxDeltas \in Nat
        BY <2>1, <3>6, MessageAssumption DEF MessageTypeOK
      <4>3. text \in Seq(1 .. MaxDeltas)
        BY <4>1, <4>2, UptoFact DEF Row
      <4>4. [row[q] EXCEPT !.preview = text] \in Row /\ [row[q] EXCEPT !.preview = text].status = row[q].status
        <5> HIDE DEF text
        <5> QED
          BY <4>1, <4>3 DEF Row
      <4> QED
        BY <3>5, <4>1, <4>4
    <3>7. ASSUME NEW q \in Requests, row[q] # NoRow, row' = [row EXCEPT ![q].due = TRUE] PROVE Kept
      <4>1. row[q] \in Row /\ row' = [row EXCEPT ![q] = [row[q] EXCEPT !.due = TRUE]]
        BY <2>1, <3>7
      <4>2. [row[q] EXCEPT !.due = TRUE] \in Row /\ [row[q] EXCEPT !.due = TRUE].status = row[q].status
        BY <4>1 DEF Row
      <4> QED
        BY <3>5, <4>1, <4>2
    <3>8. ASSUME NEW q \in Requests, NEW outcome \in {"completed", "failed"},
                 Owned(q, {"queued", "running"}),
                 row' = [row EXCEPT ![q].status = outcome, ![q].due = FALSE]
          PROVE  Kept
      <4>1. row[q] \in Row /\ row' = [row EXCEPT ![q] = [row[q] EXCEPT !.status = outcome, !.due = FALSE]]
        BY <2>1, <3>8 DEF Owned
      <4>2. [row[q] EXCEPT !.status = outcome, !.due = FALSE] \in Row
        BY <4>1 DEF Row
      <4>3. ~Terminal(row[q])
        BY <3>8 DEF Owned, Terminal
      <4> QED
        BY <3>5, <4>1, <4>2, <4>3
    <3> QED
      BY <2>1, <3>1, <3>2, <3>3, <3>4, <3>6, <3>7, <3>8, RowSteps
  <2> QED
    BY <2>2, <2>3
<1> QED
  BY <1>1, MessageInvariance, PTL DEF MessageSpec, OutcomesStand
=============================================================================
