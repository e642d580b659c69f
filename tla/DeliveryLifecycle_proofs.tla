------------------------ MODULE DeliveryLifecycle_proofs ------------------------
(***************************************************************************)
(* Proofs about one delivery, for every value of the caps, any number of   *)
(* workers and any lease: what the abstract lifecycle promises, that the   *)
(* durable ingress, whose transitions take several store calls, implements *)
(* it, and that a worker whose lease was taken over cannot settle it.      *)
(***************************************************************************)
EXTENDS DeliveryLifecycle, DurableIngress, WellFoundedInduction, FiniteSetTheorems, TLAPS

(* The abstract lifecycle. *)

\* The last operational state is the current state, or, after a failure, the
\* state the delivery failed in.
LastOperationalTracksState ==
    IF lifecycle.state = "failed"
      THEN lifecycle.lastOperationalState
             \in {"accepted", "running", "generated", "delivering"}
      ELSE lifecycle.lastOperationalState = lifecycle.state

IInv ==
    /\ LifecycleTypeOK
    /\ LastOperationalTracksState
    /\ AttemptsAccountForState
    /\ SettledHasOutput
    /\ TransitionBudget
--------------------------------------------------------------------------------
\* Where a recorded transition leads: the successor's fields, one case per
\* legal transition (isLegalTransition and nextLifecycle).
LEMMA AdvanceCases ==
    ASSUME IInv, NEW to \in DeliveryState, Advance(to)
    PROVE  /\ lifecycle' = Successor(lifecycle, to)
           /\ closed' = closed
           /\ lifecycle.state \notin Terminal
           /\ lifecycle'.state = to
           /\ lifecycle'.transitionCount = lifecycle.transitionCount + 1
           /\ \/ to = "failed" /\ lifecycle.state \in {"accepted", "running", "generated", "delivering"}
              \/ to = "running" /\ lifecycle.state = "accepted"
              \/ to = "running" /\ lifecycle.state = "failed"
                   /\ lifecycle.lastOperationalState \in {"accepted", "running"}
              \/ to = "generated" /\ lifecycle.state = "running"
              \/ to = "delivering" /\ lifecycle.state = "generated"
              \/ to = "delivering" /\ lifecycle.state = "failed"
                   /\ lifecycle.lastOperationalState \in {"generated", "delivering"}
              \/ to \in Terminal /\ lifecycle.state = "delivering"
  BY DEF IInv, LifecycleTypeOK, Lifecycle, OperationalState, DeliveryState, Advance, MayTransition,
         IsLegalTransition, Successor, LastOperationalTracksState, Terminal

\* A recorded transition keeps the lifecycle well typed.
LEMMA SuccessorType ==
    ASSUME NEW lc \in Lifecycle, NEW to \in DeliveryState
    PROVE  Successor(lc, to) \in Lifecycle
  BY DEF Lifecycle, DeliveryState, OperationalState, Successor

LEMMA InitIInv == ASSUME LifecycleInit PROVE IInv
  <1>1. LifecycleTypeOK
    BY DEF LifecycleInit, LifecycleTypeOK, Lifecycle, OperationalState, DeliveryState, InitialLifecycle
  <1>2. LastOperationalTracksState /\ AttemptsAccountForState /\ TransitionBudget
    BY CapsAssumption
       DEF LifecycleInit, InitialLifecycle, LastOperationalTracksState, AttemptsAccountForState,
           PostGeneration, TransitionBudget, Terminal
  <1>3. SettledHasOutput
    BY Zenon DEF LifecycleInit, SettledHasOutput
  <1> QED
    BY <1>1, <1>2, <1>3 DEF IInv

LEMMA AdvanceIInv ==
    ASSUME IInv, NEW to \in DeliveryState, Advance(to)
    PROVE  IInv'
  <1>1. LifecycleTypeOK'
    BY SuccessorType, AdvanceCases DEF IInv, LifecycleTypeOK
  <1>2. LastOperationalTracksState'
    BY AdvanceCases DEF IInv, LastOperationalTracksState, Successor, Terminal
  <1>3. AttemptsAccountForState'
    <2>1. /\ lifecycle'.runAttempts <= MaxRunAttempts
          /\ lifecycle'.deliveryAttempts <= MaxDeliveryAttempts
      BY DEF Advance, MayTransition
    <2>2. (lifecycle.lastOperationalState \in {"delivering", "delivered", "unknown"}
             <=> lifecycle.deliveryAttempts > 0)'
      BY AdvanceCases
         DEF IInv, LifecycleTypeOK, Lifecycle, AttemptsAccountForState, LastOperationalTracksState,
             Successor, Terminal
    <2>3. (lifecycle.lastOperationalState # "accepted" <=> lifecycle.runAttempts > 0)'
      BY AdvanceCases
         DEF IInv, LifecycleTypeOK, Lifecycle, AttemptsAccountForState, LastOperationalTracksState,
             Successor, Terminal
    <2> QED
      BY <2>1, <2>2, <2>3 DEF AttemptsAccountForState
  <1>4. SettledHasOutput'
    <2>1. lifecycle.lastOperationalState \in PostGeneration
            => lifecycle'.lastOperationalState \in PostGeneration
      BY AdvanceCases DEF IInv, LastOperationalTracksState, Successor, PostGeneration, Terminal
    <2>2. closed' = closed /\ SettledHasOutput
      BY AdvanceCases DEF IInv
    <2> QED
      BY <2>1, <2>2, Zenon DEF SettledHasOutput
  <1>5. TransitionBudget'
    BY AdvanceCases
       DEF IInv, LifecycleTypeOK, Lifecycle, TransitionBudget, LastOperationalTracksState, Successor,
           PostGeneration, Terminal
  <1> QED
    BY <1>1, <1>2, <1>3, <1>4, <1>5 DEF IInv

LEMMA SettleIInv == ASSUME IInv, Settle PROVE IInv'
  BY DEF IInv, Settle, LifecycleTypeOK, LastOperationalTracksState, AttemptsAccountForState,
         SettledHasOutput, TransitionBudget

\* The inductive invariant holds in every reachable state.
THEOREM Invariance == LifecycleSpec => []IInv
  <1>1. IInv /\ [LifecycleNext]_lcVars => IInv'
    <2> SUFFICES ASSUME IInv, [LifecycleNext]_lcVars PROVE IInv'
      OBVIOUS
    <2>1. CASE \E to \in DeliveryState : Advance(to)
      BY <2>1, AdvanceIInv
    <2>2. CASE Settle
      BY <2>2, SettleIInv
    <2>3. CASE UNCHANGED lcVars
      BY <2>3 DEF lcVars, IInv, LifecycleTypeOK, LastOperationalTracksState, AttemptsAccountForState,
                  SettledHasOutput, TransitionBudget
    <2> QED
      BY <2>1, <2>2, <2>3 DEF LifecycleNext
  <1> QED
    BY InitIInv, <1>1, PTL DEF LifecycleSpec
--------------------------------------------------------------------------------
\* The lifecycle is always well typed.
THEOREM TypeCorrect == LifecycleSpec => []LifecycleTypeOK
  BY Invariance, PTL DEF IInv

\* Attempt counters never exceed their caps and agree with the state.
THEOREM AttemptsCorrect == LifecycleSpec => []AttemptsAccountForState
  BY Invariance, PTL DEF IInv

\* Only a delivery with generated output is ever settled.
THEOREM SettledCorrect == LifecycleSpec => []SettledHasOutput
  BY Invariance, PTL DEF IInv

\* With a transition cap of at least 2R + 2D, as the defaults have it (32 for 8
\* and 8), no outcome lacks a slot while an attempt of either kind is left.
THEOREM EarlierOutcomesRecordable ==
    ASSUME MaxTransitions >= 2 * MaxRunAttempts + 2 * MaxDeliveryAttempts
    PROVE  LifecycleSpec => []EarlierOutcomesHaveSlot
  <1>1. IInv => EarlierOutcomesHaveSlot
    <2> SUFFICES ASSUME IInv,
                        lifecycle.state \in {"running", "generated", "delivering"},
                        \/ lifecycle.runAttempts < MaxRunAttempts
                        \/ lifecycle.deliveryAttempts < MaxDeliveryAttempts
                 PROVE  lifecycle.transitionCount < MaxTransitions
      BY DEF EarlierOutcomesHaveSlot
    <2>1. /\ lifecycle.transitionCount \in Nat /\ lifecycle.runAttempts \in Nat
          /\ lifecycle.deliveryAttempts \in Nat
      BY DEF IInv, LifecycleTypeOK, Lifecycle
    <2>2. /\ lifecycle.runAttempts <= MaxRunAttempts
          /\ lifecycle.deliveryAttempts <= MaxDeliveryAttempts
      BY DEF IInv, AttemptsAccountForState
    <2>3. lifecycle.transitionCount <= 2 * lifecycle.runAttempts + 2 * lifecycle.deliveryAttempts + 1
      BY <2>1 DEF IInv, TransitionBudget
    <2> QED
      BY <2>1, <2>2, <2>3, CapsAssumption
  <1> QED
    BY Invariance, <1>1, PTL

\* No step after generation runs the provider again.
THEOREM NeverRegenerated == LifecycleSpec => OutputNeverRegenerated
  <1>1. IInv /\ [LifecycleNext]_lcVars
          => [lifecycle.lastOperationalState \in PostGeneration
                => /\ lifecycle'.runAttempts = lifecycle.runAttempts
                   /\ lifecycle'.lastOperationalState \in PostGeneration]_lcVars
    <2> SUFFICES ASSUME IInv, LifecycleNext, lifecycle.lastOperationalState \in PostGeneration
                 PROVE  /\ lifecycle'.runAttempts = lifecycle.runAttempts
                        /\ lifecycle'.lastOperationalState \in PostGeneration
      BY DEF lcVars
    <2>1. CASE \E to \in DeliveryState : Advance(to)
      BY <2>1, AdvanceCases
         DEF IInv, LifecycleTypeOK, Lifecycle, LastOperationalTracksState, Successor, PostGeneration, Terminal
    <2>2. CASE Settle
      BY <2>2 DEF Settle
    <2> QED
      BY <2>1, <2>2 DEF LifecycleNext
  <1> QED
    BY Invariance, <1>1, PTL DEF LifecycleSpec, OutputNeverRegenerated

\* A terminal lifecycle never changes again.
THEOREM TerminalStays == LifecycleSpec => TerminalIsFinal
  <1>1. IInv /\ [LifecycleNext]_lcVars
          => [lifecycle.state \in Terminal => lifecycle' = lifecycle]_lcVars
    <2> SUFFICES ASSUME IInv, LifecycleNext, lifecycle.state \in Terminal
                 PROVE  lifecycle' = lifecycle
      BY DEF lcVars
    <2>1. CASE \E to \in DeliveryState : Advance(to)
      BY <2>1, AdvanceCases
    <2>2. CASE Settle
      BY <2>2 DEF Settle
    <2> QED
      BY <2>1, <2>2 DEF LifecycleNext
  <1> QED
    BY Invariance, <1>1, PTL DEF LifecycleSpec, TerminalIsFinal
--------------------------------------------------------------------------------
(* The log of recorded transitions.  s stands for the slots. *)

Kept(row) == row # NoRecord /\ row.state = "completed"
LifeOf(s, k) == IF k = 0 THEN InitialLifecycle ELSE s[k].resultRef

\* How far a log reaches, as RecordedCount has it.
CountOf(s) ==
    LET Recorded(n) == \A k \in 1 .. n : s[k] # NoRecord /\ s[k].state = "completed"
    IN  CHOOSE n \in 0 .. MaxTransitions :
          Recorded(n) /\ (n = MaxTransitions \/ ~Recorded(n + 1))

\* LastOperationalTracksState, of any lifecycle.
Tracks(lc) ==
    IF lc.state = "failed"
      THEN lc.lastOperationalState \in {"accepted", "running", "generated", "delivering"}
      ELSE lc.lastOperationalState = lc.state

Counted(lc, k) == lc \in Lifecycle /\ lc.transitionCount = k /\ Tracks(lc)

\* n transitions are recorded, and will be retained; one more may be pending.
LogOf(s, n) ==
    /\ n \in 0 .. MaxTransitions
    /\ \A k \in 1 .. n : Kept(s[k]) /\ s[k].expiresAt > MaxNow
    /\ \A k \in Slots : k > n => ~Kept(s[k])
    /\ \A k \in Slots : k > n + 1 => s[k] = NoRecord
    /\ \A k \in 0 .. n : Counted(LifeOf(s, k), k)

\* The log s2 of n2 transitions goes on from the log s of n.
GoesOn(s, n, s2, n2) ==
    /\ n <= n2
    /\ \A k \in 0 .. n : LifeOf(s2, k) = LifeOf(s, k)
    /\ LifeOf(s, n).lastOperationalState \in PostGeneration
         => LifeOf(s2, n2).lastOperationalState \in PostGeneration

\* A log reaches as far as it is one.
LEMMA CountIs ==
    ASSUME NEW s, NEW n, LogOf(s, n)
    PROVE  CountOf(s) = n
<1> DEFINE Recorded(m) == \A k \in 1 .. m : s[k] # NoRecord /\ s[k].state = "completed"
           Ends(m) == Recorded(m) /\ (m = MaxTransitions \/ ~Recorded(m + 1))
<1>1. n \in 0 .. MaxTransitions /\ MaxTransitions \in Nat
  BY CapsAssumption DEF LogOf
<1>2. Ends(n)
  <2>1. Recorded(n)
    BY DEF LogOf, Kept
  <2>2. n # MaxTransitions => ~Recorded(n + 1)
    <3>1. SUFFICES ASSUME n # MaxTransitions PROVE ~Recorded(n + 1)
      OBVIOUS
    <3>2. n + 1 \in Slots /\ n + 1 > n /\ n + 1 \in 1 .. n + 1
      BY <1>1, <3>1 DEF Slots
    <3> QED
      BY <3>2 DEF LogOf, Kept
  <2> QED
    BY <2>1, <2>2
<1>3. ASSUME NEW m \in 0 .. MaxTransitions, Ends(m) PROVE m = n
  <2>1. ~(m < n)
    <3>1. SUFFICES ASSUME m < n PROVE FALSE
      OBVIOUS
    <3>2. m # MaxTransitions /\ \A k \in 1 .. m + 1 : k \in 1 .. n
      BY <1>1, <3>1
    <3> QED
      BY <1>2, <1>3, <3>2
  <2>2. ~(n < m)
    <3>1. SUFFICES ASSUME n < m PROVE FALSE
      OBVIOUS
    <3>2. n + 1 \in Slots /\ n + 1 > n /\ n + 1 \in 1 .. m
      BY <1>1, <3>1 DEF Slots
    <3> QED
      BY <1>3, <3>2 DEF LogOf, Kept
  <2> QED
    BY <1>1, <2>1, <2>2
<1>4. CountOf(s) = CHOOSE m \in 0 .. MaxTransitions : Ends(m)
  BY Zenon DEF CountOf
<1> HIDE DEF Ends
<1> QED
  BY <1>1, <1>2, <1>3, <1>4

\* A slot is written that is not on record, or its record is written again.
LEMMA SlotWritten ==
    ASSUME NEW s \in [Slots -> SlotRow], NEW n, LogOf(s, n),
           NEW k \in Slots, k <= n + 1, NEW row \in SlotRow,
           \/ k > n /\ ~Kept(row)
           \/ /\ k <= n /\ Kept(row) /\ row.expiresAt > MaxNow
              /\ row.resultRef = s[k].resultRef,
           NEW s2, s2 = [s EXCEPT ![k] = row]
    PROVE  LogOf(s2, n) /\ GoesOn(s, n, s2, n)
<1>1. n \in 0 .. MaxTransitions /\ MaxTransitions \in Nat
  BY CapsAssumption DEF LogOf
<1>2. \A j \in Slots : s2[j] = IF j = k THEN row ELSE s[j]
  OBVIOUS
<1>3. ASSUME NEW j \in 0 .. n PROVE LifeOf(s2, j) = LifeOf(s, j)
  <2>1. CASE j = 0
    BY <2>1 DEF LifeOf
  <2>2. CASE j # 0
    <3>1. j \in Slots
      BY <1>1, <2>2 DEF Slots
    <3>2. s2[j].resultRef = s[j].resultRef
      BY <1>1, <1>2, <3>1 DEF Slots
    <3> QED
      BY <2>2, <3>2 DEF LifeOf
  <2> QED
    BY <2>1, <2>2
<1>4. \A j \in 1 .. n : Kept(s2[j]) /\ s2[j].expiresAt > MaxNow
  <2>1. \A j \in 1 .. n : j \in Slots
    BY <1>1 DEF Slots
  <2> QED
    BY <1>1, <1>2, <2>1 DEF LogOf, Slots
<1>5. /\ \A j \in Slots : j > n => ~Kept(s2[j])
      /\ \A j \in Slots : j > n + 1 => s2[j] = NoRecord
  BY <1>1, <1>2 DEF LogOf, Slots
<1>6. n <= n /\ n \in 0 .. n
  BY <1>1
<1>7. LogOf(s2, n)
  BY <1>1, <1>3, <1>4, <1>5 DEF LogOf
<1> QED
  BY <1>3, <1>6, <1>7 DEF GoesOn

\* What a transition does to the lifecycle it is legal for.
LEMMA SuccessorCounted ==
    ASSUME NEW lc, NEW n \in Nat, Counted(lc, n), NEW to \in DeliveryState,
           MayTransition(lc, to)
    PROVE  /\ Counted(Successor(lc, to), n + 1)
           /\ lc.lastOperationalState \in PostGeneration
                => Successor(lc, to).lastOperationalState \in PostGeneration
<1>1. Successor(lc, to) \in Lifecycle
  BY SuccessorType DEF Counted
<1> QED
  BY <1>1 DEF Counted, Tracks, Lifecycle, DeliveryState, OperationalState, MayTransition,
              IsLegalTransition, Successor, PostGeneration

\* row records the transition to `to` behind the n of the log s, which makes it
\* the log s2.
Records(s, n, to, row, s2) ==
    /\ s \in [Slots -> SlotRow] /\ LogOf(s, n) /\ n < MaxTransitions
    /\ to \in DeliveryState /\ MayTransition(LifeOf(s, n), to)
    /\ row \in SlotRow /\ Kept(row) /\ row.expiresAt > MaxNow
    /\ row.resultRef = Successor(LifeOf(s, n), to)
    /\ s2 = [s EXCEPT ![n + 1] = row]

\* The first free slot is completed: the log is one transition longer.
LEMMA SlotRecorded ==
    ASSUME NEW s, NEW n, NEW to, NEW row, NEW s2, Records(s, n, to, row, s2)
    PROVE  /\ LogOf(s2, n + 1)
           /\ GoesOn(s, n, s2, n + 1)
           /\ LifeOf(s2, n + 1) = Successor(LifeOf(s, n), to)
           /\ LifeOf(s, n).transitionCount = n
<1>1. n \in 0 .. MaxTransitions /\ MaxTransitions \in Nat /\ n + 1 \in 0 .. MaxTransitions
  BY CapsAssumption DEF LogOf, Records
<1>2. n + 1 \in Slots /\ n \in Nat
  BY <1>1 DEF Slots
<1>3. \A j \in Slots : s2[j] = IF j = n + 1 THEN row ELSE s[j]
  BY <1>2 DEF Records
<1>4. ASSUME NEW j \in 0 .. n PROVE LifeOf(s2, j) = LifeOf(s, j)
  <2>1. CASE j = 0
    BY <2>1 DEF LifeOf
  <2>2. CASE j # 0
    <3>1. j \in Slots /\ j # n + 1
      BY <1>1, <2>2 DEF Slots
    <3> QED
      BY <1>3, <2>2, <3>1 DEF LifeOf
  <2> QED
    BY <2>1, <2>2
<1>5. LifeOf(s2, n + 1) = Successor(LifeOf(s, n), to)
  BY <1>2, <1>3 DEF LifeOf, Records
<1>6. Counted(LifeOf(s, n), n)
  BY <1>1 DEF LogOf, Records
<1>7. /\ Counted(LifeOf(s2, n + 1), n + 1)
      /\ LifeOf(s, n).lastOperationalState \in PostGeneration
           => LifeOf(s2, n + 1).lastOperationalState \in PostGeneration
  <2>1. to \in DeliveryState /\ MayTransition(LifeOf(s, n), to)
    BY DEF Records
  <2> QED
    BY <1>2, <1>5, <1>6, <2>1, SuccessorCounted
<1>8. \A j \in 0 .. n + 1 : Counted(LifeOf(s2, j), j)
  <2>1. \A j \in 0 .. n + 1 : j \in 0 .. n \/ j = n + 1
    BY <1>2
  <2> QED
    BY <1>4, <1>7, <2>1 DEF LogOf, Records
<1>9. \A j \in 1 .. n + 1 : Kept(s2[j]) /\ s2[j].expiresAt > MaxNow
  <2>1. \A j \in 1 .. n + 1 : j \in Slots /\ (j \in 1 .. n \/ j = n + 1)
    BY <1>1 DEF Slots
  <2> QED
    BY <1>3, <2>1 DEF LogOf, Records
<1>10. \A j \in Slots : j > n + 1 => s2[j] = NoRecord
  BY <1>2, <1>3 DEF LogOf, Slots, Records
<1>11. /\ \A j \in Slots : j > n + 1 => ~Kept(s2[j])
       /\ \A j \in Slots : j > (n + 1) + 1 => s2[j] = NoRecord
  BY <1>2, <1>10 DEF Kept, Slots
<1>12. LogOf(s2, n + 1)
  BY <1>1, <1>8, <1>9, <1>11 DEF LogOf
<1>13. n <= n + 1
  BY <1>2
<1> QED
  BY <1>4, <1>5, <1>6, <1>7, <1>12, <1>13 DEF GoesOn, Counted
--------------------------------------------------------------------------------
(* The inductive invariant.  m stands for a worker's record. *)

Settled == Kept(ingress)

\* Where a worker is goes with the log: the lifecycle it carries is the one in
\* front of its slot, its next transition is legal, and it completes the claim
\* behind generated output only.
Fits(m, s, n) ==
    /\ m.t <= MaxNow
    /\ m.pc \in {"claimSlot", "completeSlot"} =>
         m.slot \in 1 .. n + 1 /\ m.cur = LifeOf(s, m.slot - 1)
    /\ m.pc = "completeSlot" =>
         m.slot <= MaxTransitions /\ m.to \in DeliveryState /\ MayTransition(m.cur, m.to)
    /\ m.pc = "completeIngress" => LifeOf(s, n).lastOperationalState \in PostGeneration

DurableInv ==
    /\ TypeOK
    /\ now <= MaxNow
    /\ Settled => ingress.expiresAt > MaxNow
    /\ LogOf(slots, RecordedCount)
    /\ \A x \in Workers : Fits(worker[x], slots, RecordedCount)

\* A place that fits a log fits it as it goes on.
LEMMA FitsOn ==
    ASSUME NEW s, NEW n, LogOf(s, n), NEW v \in Worker, Fits(v, s, n),
           NEW s2, NEW n2 \in Nat, GoesOn(s, n, s2, n2)
    PROVE  Fits(v, s2, n2)
<1>1. n \in Nat /\ n <= n2
  BY CapsAssumption DEF LogOf, GoesOn
<1>2. v.slot \in 1 .. n + 1 => v.slot \in 1 .. n2 + 1 /\ v.slot - 1 \in 0 .. n
  BY <1>1
<1>3. v.slot \in 1 .. n + 1 => LifeOf(s2, v.slot - 1) = LifeOf(s, v.slot - 1)
  BY <1>2 DEF GoesOn
<1> QED
  BY <1>1, <1>2, <1>3 DEF Fits, GoesOn

\* A worker moves to a place that fits the log as it goes on.
LEMMA WorkerMoves ==
    ASSUME NEW w \in [Workers -> Worker], NEW s, NEW n, LogOf(s, n),
           \A y \in Workers : Fits(w[y], s, n),
           NEW s2, NEW n2 \in Nat, GoesOn(s, n, s2, n2),
           NEW x \in Workers, NEW m \in Worker, Fits(m, s2, n2),
           NEW w2, w2 = [w EXCEPT ![x] = m]
    PROVE  /\ w2 \in [Workers -> Worker]
           /\ \A y \in Workers : Fits(w2[y], s2, n2)
<1>1. \A y \in Workers : w2[y] = IF y = x THEN m ELSE w[y]
  OBVIOUS
<1>2. \A y \in Workers : Fits(w[y], s2, n2)
  BY FitsOn
<1> QED
  BY <1>1, <1>2

\* A log goes on from itself.
LEMMA LogStays ==
    ASSUME NEW s, NEW n \in Nat
    PROVE  GoesOn(s, n, s, n)
  BY DEF GoesOn

\* What a worker is when its operation is over.
LEMMA OperationEnds ==
    ASSUME TypeOK, NEW x \in Workers, worker[x].t <= MaxNow, Return(x) \/ Throw(x)
    PROVE  \E m \in Worker :
             /\ worker' = [worker EXCEPT ![x] = m]
             /\ m.pc \in {"idle", "releaseIngress"}
             /\ m.t <= MaxNow
<1>1. PICK v : v = worker[x]
  OBVIOUS
<1>2. v \in Worker /\ v.t <= MaxNow
  BY <1>1 DEF TypeOK
<1>3. Idle(v.token) \in Worker /\ Idle(v.token).pc = "idle" /\ Idle(v.token).t <= MaxNow
  BY <1>2, IngressAssumption
     DEF Idle, Worker, InitialLifecycle, Lifecycle, DeliveryState, OperationalState
<1>4. PICK u : u = [v EXCEPT !.pc = "releaseIngress"]
  OBVIOUS
<1>5. u \in Worker /\ u.pc = "releaseIngress" /\ u.t <= MaxNow
  BY <1>2, <1>4 DEF Worker
<1>6. \/ worker' = [worker EXCEPT ![x] = u]
      \/ worker' = [worker EXCEPT ![x] = Idle(v.token)]
  BY <1>1, <1>4, Zenon DEF Return, Throw
<1> QED
  BY <1>3, <1>5, <1>6

\* Whose operation is over fits any log.
LEMMA EndsFit ==
    ASSUME NEW m, m.pc \in {"idle", "releaseIngress"}, m.t <= MaxNow, NEW s, NEW n
    PROVE  Fits(m, s, n)
  BY DEF Fits

\* The row a renewal leaves.
LEMMA ExtendedRow ==
    ASSUME NEW Fs, NEW Rs, NEW row \in Record(Fs, Rs), NEW t \in Nat, NEW ttl \in Nat
    PROVE  /\ Extended(row, t, ttl) \in Record(Fs, Rs)
           /\ Extended(row, t, ttl).state = row.state
           /\ Extended(row, t, ttl).expiresAt >= t + ttl
<1> DEFINE Rows == [fingerprint : Fs, claimToken : Nat, state : {"pending", "completed"},
                    expiresAt : Nat, resultRef : Rs \cup {NoResult}]
<1>1. row \in Rows /\ (row.state = "completed" <=> row.resultRef # NoResult)
  BY DEF Record
<1>2. PICK l : l = Later(row.expiresAt, t + ttl)
  OBVIOUS
<1>3. l \in Nat /\ l >= t + ttl
  BY <1>1, <1>2 DEF Later
<1>4. PICK e : e = [row EXCEPT !.expiresAt = l]
  OBVIOUS
<1>5. e \in Rows /\ e.state = row.state /\ e.resultRef = row.resultRef /\ e.expiresAt = l
  BY <1>1, <1>3, <1>4
<1>6. Extended(row, t, ttl) = e
  BY <1>2, <1>4, Zenon DEF Extended
<1>7. e \in Record(Fs, Rs)
  BY <1>1, <1>5 DEF Record
<1> QED
  BY <1>3, <1>5, <1>6, <1>7

\* The row a completion leaves.
LEMMA CompletedRow ==
    ASSUME NEW Fs, NEW Rs, NEW row \in Record(Fs, Rs), NEW t \in Nat, NEW ttl \in Nat \ {0},
           NEW result \in Rs, result # NoResult, NoRecord \notin Record(Fs, Rs)
    PROVE  /\ Completed(row, result, t, ttl) \in Record(Fs, Rs)
           /\ Kept(Completed(row, result, t, ttl))
           /\ Completed(row, result, t, ttl).resultRef = result
           /\ Completed(row, result, t, ttl).expiresAt >= t + ttl
<1> DEFINE Rows == [fingerprint : Fs, claimToken : Nat, state : {"pending", "completed"},
                    expiresAt : Nat, resultRef : Rs \cup {NoResult}]
<1>1. PICK e : e = Extended(row, t, ttl)
  OBVIOUS
<1>2. e \in Record(Fs, Rs) /\ e.expiresAt >= t + ttl
  BY <1>1, ExtendedRow
<1>3. e \in Rows
  BY <1>2 DEF Record
<1>4. PICK c : c = [e EXCEPT !.state = "completed", !.resultRef = result]
  OBVIOUS
<1>5. c \in Rows /\ c.state = "completed" /\ c.resultRef = result /\ c.expiresAt = e.expiresAt
  BY <1>3, <1>4
<1>6. Completed(row, result, t, ttl) = c
  <2>1. (IF ttl = 0 THEN row ELSE Extended(row, t, ttl)) = e
    BY <1>1
  <2> QED
    BY <1>4, <2>1, Zenon DEF Completed
<1>7. c \in Record(Fs, Rs)
  BY <1>5 DEF Record
<1> QED
  BY <1>2, <1>5, <1>6, <1>7 DEF Kept

\* The row a claim leaves.
LEMMA ClaimedRow ==
    ASSUME NEW Fs, NEW Rs, NEW fingerprint \in Fs, NEW token \in Nat, NEW t, NEW ttl, t + ttl \in Nat
    PROVE  /\ Claimed(fingerprint, token, t, ttl) \in Record(Fs, Rs)
           /\ ~Kept(Claimed(fingerprint, token, t, ttl))
  BY DEF Claimed, Record, Kept

\* A row of a store that is swept is as it was, or gone because it had expired.
LEMMA SweptRow ==
    ASSUME NEW row, NEW t, t <= MaxNow, Kept(row) => row.expiresAt > MaxNow,
           t \in Nat, Kept(row) => row.expiresAt \in Nat
    PROVE  /\ Swept(row, t) \in {row, NoRecord}
           /\ Kept(Swept(row, t)) <=> Kept(row)
           /\ Kept(row) => Live(row, t) /\ Swept(row, t) = row
<1>1. Kept(row) => Live(row, t)
  BY IngressAssumption DEF Kept, Live
<1> QED
  BY <1>1 DEF Swept, Kept

\* The ingress row that a call leaves when it finds the row expired at t.
LEMMA SweptIngress ==
    ASSUME DurableInv, NEW t \in Nat, t <= MaxNow
    PROVE  /\ Swept(ingress, t) \in IngressRow
           /\ Kept(Swept(ingress, t)) <=> Settled
           /\ Settled => Live(ingress, t) /\ Swept(ingress, t) = ingress
<1>1. ingress \in IngressRow /\ NoRecord \in IngressRow
  BY DEF DurableInv, TypeOK, IngressRow
<1>2. Settled => ingress.expiresAt \in Nat /\ ingress.expiresAt > MaxNow
  BY <1>1 DEF DurableInv, Settled, Kept, IngressRow, Record
<1> QED
  BY <1>1, <1>2, SweptRow DEF Settled

\* A step that leaves the log alone, or writes slots that are not on record.
LEMMA QuietStep ==
    ASSUME DurableInv, now' \in Nat, now' <= MaxNow,
           ingress' \in IngressRow, Kept(ingress') => ingress'.expiresAt > MaxNow,
           slots' \in [Slots -> SlotRow], LogOf(slots', RecordedCount),
           GoesOn(slots, RecordedCount, slots', RecordedCount),
           worker' \in [Workers -> Worker],
           \A y \in Workers : Fits(worker'[y], slots', RecordedCount)
    PROVE  /\ DurableInv'
           /\ RecordedLifecycle(RecordedCount)' = RecordedLifecycle(RecordedCount)
<1>1. RecordedCount = CountOf(slots) /\ RecordedCount' = CountOf(slots')
  BY Zenon DEF RecordedCount, CountOf
<1>2. RecordedCount' = RecordedCount
  BY <1>1, CountIs
<1>3. DurableInv'
  BY <1>2 DEF DurableInv, TypeOK, Settled
<1>4. LifeOf(slots', RecordedCount) = LifeOf(slots, RecordedCount)
  BY CapsAssumption DEF GoesOn, LogOf
<1>5. /\ RecordedLifecycle(RecordedCount) = LifeOf(slots, RecordedCount)
      /\ RecordedLifecycle(RecordedCount)' = LifeOf(slots', RecordedCount')
  BY DEF RecordedLifecycle, LifeOf
<1> QED
  BY <1>2, <1>3, <1>4, <1>5

\* Such a step, where the claim is as settled as before, is a stutter of the
\* abstract lifecycle.
LEMMA StutterStep ==
    ASSUME DurableInv, now' \in Nat, now' <= MaxNow,
           ingress' \in IngressRow, Kept(ingress') => ingress'.expiresAt > MaxNow,
           Kept(ingress') <=> Settled,
           slots' \in [Slots -> SlotRow], LogOf(slots', RecordedCount),
           GoesOn(slots, RecordedCount, slots', RecordedCount),
           worker' \in [Workers -> Worker],
           \A y \in Workers : Fits(worker'[y], slots', RecordedCount)
    PROVE  DurableInv' /\ UNCHANGED Abstract!lcVars
<1>1. /\ DurableInv'
      /\ RecordedLifecycle(RecordedCount)' = RecordedLifecycle(RecordedCount)
  BY QuietStep
<1>2. (ingress' # NoRecord /\ ingress'.state = "completed")
        = (ingress # NoRecord /\ ingress.state = "completed")
  BY DEF Settled, Kept
<1> QED
  BY <1>1, <1>2 DEF Abstract!lcVars

\* The log is as it was.
LEMMA SameLog ==
    ASSUME DurableInv, UNCHANGED slots
    PROVE  /\ slots' \in [Slots -> SlotRow]
           /\ LogOf(slots', RecordedCount)
           /\ GoesOn(slots, RecordedCount, slots', RecordedCount)
<1>1. RecordedCount \in Nat
  BY CapsAssumption DEF DurableInv, LogOf
<1> QED
  BY <1>1, LogStays DEF DurableInv, TypeOK

\* A worker that moves while the log is as it was, or goes on by writes of
\* slots that are not on record.
LEMMA WorkerSteps ==
    ASSUME DurableInv, GoesOn(slots, RecordedCount, slots', RecordedCount),
           NEW x \in Workers, NEW m \in Worker, Fits(m, slots', RecordedCount),
           worker' = [worker EXCEPT ![x] = m]
    PROVE  /\ worker' \in [Workers -> Worker]
           /\ \A y \in Workers : Fits(worker'[y], slots', RecordedCount)
<1>1. RecordedCount \in Nat
  BY CapsAssumption DEF DurableInv, LogOf
<1>2. worker \in [Workers -> Worker] /\ LogOf(slots, RecordedCount)
  BY DEF DurableInv, TypeOK
<1>3. PICK w : w = worker
  OBVIOUS
<1>4. PICK w2 : w2 = worker'
  OBVIOUS
<1>5. PICK n : n = RecordedCount
  OBVIOUS
<1>6. /\ w \in [Workers -> Worker] /\ LogOf(slots, n) /\ n \in Nat
      /\ \A y \in Workers : Fits(w[y], slots, n)
      /\ GoesOn(slots, n, slots', n) /\ Fits(m, slots', n)
      /\ w2 = [w EXCEPT ![x] = m]
  BY <1>1, <1>2, <1>3, <1>4, <1>5 DEF DurableInv
<1>7. w2 \in [Workers -> Worker] /\ \A y \in Workers : Fits(w2[y], slots', n)
  BY <1>6, WorkerMoves
<1> QED
  BY <1>4, <1>5, <1>7
--------------------------------------------------------------------------------
(* Fresh tokens. *)

\* The range of a function with a finite domain is finite.
LEMMA RangeIsFinite ==
    ASSUME NEW S, IsFiniteSet(S), NEW f, f = [s \in S |-> f[s]]
    PROVE  IsFiniteSet({f[s] : s \in S})
<1> DEFINE T == {f[s] : s \in S}
<1>1. f \in Surjection(S, T)
  BY DEF Surjection
<1> HIDE DEF T
<1> QED
  BY <1>1, FS_Surjection DEF T

\* A finite set leaves one of the numbers up to one more than its size unused.
LEMMA ANumberIsUnused ==
    ASSUME NEW S, IsFiniteSet(S)
    PROVE  (1 .. Cardinality(S) + 1) \ S # {}
<1> DEFINE n == Cardinality(S)
<1>1. n \in Nat
  BY FS_CardinalityType
<1>2. SUFFICES ASSUME 1 .. n + 1 \subseteq S PROVE FALSE
  BY <1>1
<1>3. Cardinality(1 .. n + 1) <= n
  BY <1>2, FS_Subset
<1>4. Cardinality(1 .. n + 1) = n + 1
  <2>1. 1 \in Int /\ n + 1 \in Int /\ ~(1 > n + 1) /\ (n + 1) - 1 + 1 = n + 1
    BY <1>1
  <2> HIDE DEF n
  <2> QED
    BY <2>1, FS_Interval
<1> QED
  BY <1>1, <1>3, <1>4

\* A set of numbers has a least one.
LEMMA LeastNumber ==
    ASSUME NEW S \in SUBSET Nat, S # {}
    PROVE  Min(S) \in S /\ \A n \in S : Min(S) <= n
<1> DEFINE R == {pair \in Nat \X Nat : pair[1] < pair[2]}
<1>1. IsWellFoundedOn(R, Nat)
  BY NatLessThanWellFounded DEF OpToRel
<1>2. PICK x \in S : \A y \in S : ~(<<y, x>> \in R)
  BY <1>1, WFMin
<1>3. ASSUME NEW y \in S PROVE x <= y
  <2>1. ~(<<y, x>> \in R) /\ x \in Nat /\ y \in Nat
    BY <1>2
  <2>2. y < x => <<y, x>> \in R
    BY <2>1, Zenon
  <2> QED
    BY <2>1, <2>2
<1> QED
  BY <1>2, <1>3 DEF Min

\* randomUUID always has a token to give.
LEMMA FreshTokenType ==
    ASSUME DurableInv
    PROVE  FreshToken \in Nat
<1> DEFINE Rows == ({slots[k] : k \in Slots} \cup {ingress}) \ {NoRecord}
           Tokens == {worker[x].token : x \in Workers}
           SlotTokens == {worker[x].slotToken : x \in Workers}
           RowTokens == {row.claimToken : row \in Rows}
           inUse == Tokens \cup SlotTokens \cup RowTokens
<1>1. IsFiniteSet(Workers) /\ IsFiniteSet(Slots)
  BY IngressAssumption, CapsAssumption, FS_Interval DEF Slots
<1>2. IsFiniteSet(Tokens)
  <2>1. PICK f : f = [x \in Workers |-> worker[x].token]
    OBVIOUS
  <2>2. IsFiniteSet({f[x] : x \in Workers})
    BY <1>1, <2>1, RangeIsFinite
  <2> QED
    BY <2>1, <2>2
<1>3. IsFiniteSet(SlotTokens)
  <2>1. PICK f : f = [x \in Workers |-> worker[x].slotToken]
    OBVIOUS
  <2>2. IsFiniteSet({f[x] : x \in Workers})
    BY <1>1, <2>1, RangeIsFinite
  <2> QED
    BY <2>1, <2>2
<1>4. IsFiniteSet(RowTokens)
  <2>1. IsFiniteSet({slots[k] : k \in Slots})
    <3>1. slots = [k \in Slots |-> slots[k]]
      BY DEF DurableInv, TypeOK
    <3> QED
      BY <1>1, <3>1, RangeIsFinite
  <2>2. IsFiniteSet({slots[k] : k \in Slots} \cup {ingress})
    BY <2>1, FS_Singleton, FS_Union
  <2>3. IsFiniteSet(Rows)
    <3>1. Rows \in SUBSET ({slots[k] : k \in Slots} \cup {ingress})
      OBVIOUS
    <3> QED
      BY <2>2, <3>1, FS_Subset
  <2>4. PICK f : f = [row \in Rows |-> row.claimToken]
    OBVIOUS
  <2>5. IsFiniteSet({f[row] : row \in Rows})
    BY <2>3, <2>4, RangeIsFinite
  <2> QED
    BY <2>4, <2>5
<1>5. IsFiniteSet(inUse)
  <2> HIDE DEF Tokens, SlotTokens, RowTokens
  <2> QED
    BY <1>2, <1>3, <1>4, FS_Union
<1>6. FreshToken = Min((1 .. Cardinality(inUse) + 1) \ inUse)
  BY Zenon DEF FreshToken
<1>7. (1 .. Cardinality(inUse) + 1) \ inUse # {}
  <2> HIDE DEF inUse
  <2> QED
    BY <1>5, ANumberIsUnused
<1>8. (1 .. Cardinality(inUse) + 1) \ inUse \subseteq Nat
  <2>1. Cardinality(inUse) \in Nat
    BY <1>5, FS_CardinalityType
  <2> HIDE DEF inUse
  <2> QED
    BY <2>1
<1> HIDE DEF inUse
<1> QED
  BY <1>6, <1>7, <1>8, LeastNumber
--------------------------------------------------------------------------------
(* One lemma for each action: it keeps the invariant, and is a step of the *)
(* abstract lifecycle or a stutter.                                        *)

\* A worker that only knows its token fits any log.
LEMMA IdleFits ==
    ASSUME NEW token \in Nat, NEW s, NEW n
    PROVE  Idle(token) \in Worker /\ Fits(Idle(token), s, n)
<1>1. Idle(token) \in Worker /\ Idle(token).pc = "idle" /\ Idle(token).t <= MaxNow
  BY IngressAssumption
     DEF Idle, Worker, InitialLifecycle, Lifecycle, DeliveryState, OperationalState
<1> QED
  BY <1>1 DEF Fits

LEMMA TickStep ==
    ASSUME DurableInv, Tick
    PROVE  DurableInv' /\ UNCHANGED Abstract!lcVars
<1>1. now' \in Nat /\ now' <= MaxNow
  BY IngressAssumption DEF DurableInv, TypeOK, Tick
<1>2. UNCHANGED <<ingress, slots, worker>>
  BY DEF Tick
<1>3. /\ slots' \in [Slots -> SlotRow]
      /\ LogOf(slots', RecordedCount)
      /\ GoesOn(slots, RecordedCount, slots', RecordedCount)
  BY <1>2, SameLog
<1>4. /\ ingress' \in IngressRow
      /\ Kept(ingress') => ingress'.expiresAt > MaxNow
      /\ Kept(ingress') <=> Settled
      /\ worker' \in [Workers -> Worker]
      /\ \A y \in Workers : Fits(worker'[y], slots', RecordedCount)
  BY <1>2 DEF DurableInv, TypeOK, Settled
<1> QED
  BY <1>1, <1>3, <1>4, StutterStep

\* A step of a worker that leaves the log and the clock alone.
LEMMA WorkerStutter ==
    ASSUME DurableInv, UNCHANGED <<now, slots>>,
           ingress' \in IngressRow, Kept(ingress') => ingress'.expiresAt > MaxNow,
           NEW x \in Workers, NEW m \in Worker, Fits(m, slots, RecordedCount),
           worker' = [worker EXCEPT ![x] = m]
    PROVE  /\ DurableInv'
           /\ RecordedLifecycle(RecordedCount)' = RecordedLifecycle(RecordedCount)
           /\ (Kept(ingress') <=> Settled) => UNCHANGED Abstract!lcVars
<1>1. now' \in Nat /\ now' <= MaxNow
  BY DEF DurableInv, TypeOK
<1>2. /\ slots' \in [Slots -> SlotRow]
      /\ LogOf(slots', RecordedCount)
      /\ GoesOn(slots, RecordedCount, slots', RecordedCount)
  BY SameLog
<1>3. Fits(m, slots', RecordedCount)
  OBVIOUS
<1>4. /\ worker' \in [Workers -> Worker]
      /\ \A y \in Workers : Fits(worker'[y], slots', RecordedCount)
  BY <1>2, <1>3, WorkerSteps
<1> QED
  BY <1>1, <1>2, <1>4, QuietStep, StutterStep

LEMMA ClaimStep ==
    ASSUME DurableInv, NEW x \in Workers, Claim(x)
    PROVE  DurableInv' /\ UNCHANGED Abstract!lcVars
<1>1. /\ ~Live(ingress, now)
      /\ ingress' = Claimed(Fingerprint, FreshToken, now, LeaseMs)
      /\ worker' = [worker EXCEPT ![x] = Idle(FreshToken)]
      /\ UNCHANGED <<now, slots>>
  BY DEF Claim
<1>2. FreshToken \in Nat /\ now \in Nat /\ now <= MaxNow
  BY FreshTokenType DEF DurableInv, TypeOK
<1>3. ~Settled
  BY <1>1, <1>2, SweptIngress
<1>4. now + LeaseMs \in Nat
  BY <1>2, IngressAssumption
<1>5. ingress' \in IngressRow /\ ~Kept(ingress')
  BY <1>1, <1>2, <1>4, ClaimedRow DEF IngressRow
<1>6. Idle(FreshToken) \in Worker /\ Fits(Idle(FreshToken), slots, RecordedCount)
  BY <1>2, IdleFits
<1> QED
  BY <1>1, <1>3, <1>5, <1>6, WorkerStutter

\* The ingress row of a step that leaves it alone or sweeps it.
LEMMA SweepOrKeep ==
    ASSUME DurableInv, NEW t \in Nat, t <= MaxNow,
           ingress' \in {ingress, Swept(ingress, t)}
    PROVE  /\ ingress' \in IngressRow
           /\ Kept(ingress') => ingress'.expiresAt > MaxNow
           /\ Kept(ingress') <=> Settled
<1>1. /\ ingress \in IngressRow
      /\ Settled => ingress.expiresAt > MaxNow
  BY DEF DurableInv, TypeOK
<1>2. CASE ingress' = ingress
  BY <1>1, <1>2 DEF Settled
<1>3. CASE ingress' = Swept(ingress, t)
  <2>1. /\ Swept(ingress, t) \in IngressRow
        /\ Kept(Swept(ingress, t)) <=> Settled
        /\ Settled => Swept(ingress, t) = ingress
    BY SweptIngress
  <2> QED
    BY <1>1, <1>3, <2>1
<1> QED
  BY <1>2, <1>3

LEMMA AdoptStep ==
    ASSUME DurableInv, NEW x \in Workers, AdoptOwnership(x)
    PROVE  DurableInv' /\ UNCHANGED Abstract!lcVars
<1>1. /\ ingress # NoRecord
      /\ worker' = [worker EXCEPT ![x] = Idle(ingress.claimToken)]
      /\ UNCHANGED <<now, ingress, slots>>
  BY DEF AdoptOwnership
<1>2. ingress.claimToken \in Nat
  BY <1>1 DEF DurableInv, TypeOK, IngressRow, Record
<1>3. /\ ingress' \in IngressRow
      /\ Kept(ingress') => ingress'.expiresAt > MaxNow
      /\ Kept(ingress') <=> Settled
  BY <1>1 DEF DurableInv, TypeOK, Settled
<1>4. Idle(ingress.claimToken) \in Worker /\ Fits(Idle(ingress.claimToken), slots, RecordedCount)
  BY <1>2, IdleFits
<1> QED
  BY <1>1, <1>3, <1>4, WorkerStutter

LEMMA BeginStep ==
    ASSUME DurableInv, NEW x \in Workers, NEW op \in {"transition", "fail", "complete"}, Begin(x, op)
    PROVE  DurableInv' /\ UNCHANGED Abstract!lcVars
<1>1. PICK v : v = worker[x]
  OBVIOUS
<1>2. v \in Worker /\ now \in Nat /\ now <= MaxNow
  BY <1>1 DEF DurableInv, TypeOK
<1>3. /\ ingress' = Swept(ingress, now)
      /\ UNCHANGED <<now, slots>>
  BY DEF Begin
<1>4. /\ ingress' \in IngressRow
      /\ Kept(ingress') => ingress'.expiresAt > MaxNow
      /\ Kept(ingress') <=> Settled
  BY <1>2, <1>3, SweepOrKeep
<1>5. PICK i : i = Idle(v.token)
  OBVIOUS
<1>6. i \in Worker /\ Fits(i, slots, RecordedCount)
  BY <1>2, <1>5, IdleFits DEF Worker
<1>7. PICK m : m = [i EXCEPT !.pc = "readSlots", !.op = op, !.t = now, !.lease = ingress.expiresAt]
  OBVIOUS
<1>8. \/ worker' = [worker EXCEPT ![x] = i]
      \/ Live(ingress, now) /\ worker' = [worker EXCEPT ![x] = m]
  BY <1>1, <1>5, <1>7, Zenon DEF Begin, Throw
<1>9. Live(ingress, now) => m \in Worker /\ m.pc = "readSlots" /\ m.t = now
  <2>1. Live(ingress, now) => ingress.expiresAt \in Nat
    BY DEF Live, DurableInv, TypeOK, IngressRow, Record
  <2> QED
    BY <1>2, <1>6, <1>7, <2>1 DEF Worker
<1>10. Live(ingress, now) => m \in Worker /\ Fits(m, slots, RecordedCount)
  BY <1>2, <1>9 DEF Fits
<1> QED
  BY <1>3, <1>4, <1>6, <1>8, <1>10, WorkerStutter

LEMMA CrashStep ==
    ASSUME DurableInv, NEW x \in Workers, Crash(x)
    PROVE  DurableInv' /\ UNCHANGED Abstract!lcVars
<1>1. /\ worker' = [worker EXCEPT ![x] = Idle(0)]
      /\ UNCHANGED <<now, ingress, slots>>
  BY DEF Crash
<1>2. /\ ingress' \in IngressRow
      /\ Kept(ingress') => ingress'.expiresAt > MaxNow
      /\ Kept(ingress') <=> Settled
  BY <1>1 DEF DurableInv, TypeOK, Settled
<1>3. Idle(0) \in Worker /\ Fits(Idle(0), slots, RecordedCount)
  BY IdleFits
<1> QED
  BY <1>1, <1>2, <1>3, WorkerStutter

LEMMA ReleaseStep ==
    ASSUME DurableInv, NEW x \in Workers, ReleaseIngress(x)
    PROVE  DurableInv' /\ UNCHANGED Abstract!lcVars
<1>1. PICK v : v = worker[x]
  OBVIOUS
<1>2. v \in Worker /\ v.t \in Nat /\ v.t <= MaxNow
  BY <1>1 DEF DurableInv, TypeOK, Worker, Fits
<1>3. /\ IF MayRelease(ingress, Fingerprint, v.token, v.t)
           THEN ingress' = NoRecord
           ELSE ingress' \in {ingress, Swept(ingress, v.t)}
      /\ worker' = [worker EXCEPT ![x] = Idle(0)]
      /\ UNCHANGED <<now, slots>>
  BY <1>1, Zenon DEF ReleaseIngress
<1>4. /\ ingress' \in IngressRow
      /\ Kept(ingress') => ingress'.expiresAt > MaxNow
      /\ Kept(ingress') <=> Settled
  <2>1. CASE MayRelease(ingress, Fingerprint, v.token, v.t)
    BY <1>3, <2>1 DEF MayRelease, Kept, Settled, IngressRow
  <2>2. CASE ~MayRelease(ingress, Fingerprint, v.token, v.t)
    BY <1>2, <1>3, <2>2, SweepOrKeep
  <2> QED
    BY <2>1, <2>2
<1>5. Idle(0) \in Worker /\ Fits(Idle(0), slots, RecordedCount)
  BY IdleFits
<1> QED
  BY <1>3, <1>4, <1>5, WorkerStutter

LEMMA RenewStep ==
    ASSUME DurableInv, NEW x \in Workers, Renew(x)
    PROVE  DurableInv' /\ UNCHANGED Abstract!lcVars
<1>1. PICK v : v = worker[x]
  OBVIOUS
<1>2. /\ v \in Worker /\ Fits(v, slots, RecordedCount) /\ now \in Nat /\ now <= MaxNow
      /\ worker \in [Workers -> Worker]
  BY <1>1 DEF DurableInv, TypeOK
<1>3. /\ ingress' = IF MayRenew(ingress, Fingerprint, v.token, now)
                      THEN Extended(ingress, now, LeaseMs)
                      ELSE Swept(ingress, now)
      /\ UNCHANGED <<now, slots, worker>>
  BY <1>1, Zenon DEF Renew
<1>4. /\ ingress' \in IngressRow
      /\ Kept(ingress') => ingress'.expiresAt > MaxNow
      /\ Kept(ingress') <=> Settled
  <2>1. CASE MayRenew(ingress, Fingerprint, v.token, now)
    <3>1. ingress \in Record({Fingerprint}, {ResultRef}) /\ ingress.state = "pending"
      BY <2>1 DEF MayRenew, Live, DurableInv, TypeOK, IngressRow
    <3>2. LeaseMs \in Nat
      BY IngressAssumption
    <3>3. ingress' \in Record({Fingerprint}, {ResultRef}) /\ ingress'.state = "pending"
      <4>1. /\ Extended(ingress, now, LeaseMs) \in Record({Fingerprint}, {ResultRef})
            /\ Extended(ingress, now, LeaseMs).state = ingress.state
        <5>1. PICK Fs, Rs : Fs = {Fingerprint} /\ Rs = {ResultRef}
          OBVIOUS
        <5>2. ingress \in Record(Fs, Rs) /\ now \in Nat
          BY <1>2, <3>1, <5>1
        <5>3. /\ Extended(ingress, now, LeaseMs) \in Record(Fs, Rs)
              /\ Extended(ingress, now, LeaseMs).state = ingress.state
          BY <3>2, <5>2, ExtendedRow
        <5> QED
          BY <5>1, <5>3
      <4> QED
        BY <1>3, <2>1, <3>1, <4>1
    <3> QED
      BY <3>1, <3>3 DEF Kept, Settled, IngressRow
  <2>2. CASE ~MayRenew(ingress, Fingerprint, v.token, now)
    BY <1>2, <1>3, <2>2, SweepOrKeep
  <2> QED
    BY <2>1, <2>2
<1>5. worker' = [worker EXCEPT ![x] = v]
  BY <1>1, <1>2, <1>3
<1> QED
  BY <1>2, <1>3, <1>4, <1>5, WorkerStutter

\* The claim is settled behind generated output, or nothing happens to it.
LEMMA CompleteIngressStep ==
    ASSUME DurableInv, NEW x \in Workers, CompleteIngress(x)
    PROVE  DurableInv' /\ (Abstract!Settle \/ UNCHANGED Abstract!lcVars)
<1>1. PICK v : v = worker[x]
  OBVIOUS
<1>2. /\ v \in Worker /\ Fits(v, slots, RecordedCount) /\ v.t \in Nat /\ v.t <= MaxNow
      /\ v.pc = "completeIngress" /\ v.token \in Nat
  BY <1>1 DEF DurableInv, TypeOK, Worker, Fits, CompleteIngress
<1>3. /\ ingress' = IF IngressMayComplete(v.token, v.t)
                      THEN Completed(ingress, ResultRef, v.t, ReplayRetention)
                      ELSE Swept(ingress, v.t)
      /\ worker' = [worker EXCEPT ![x] = Idle(v.token)]
      /\ UNCHANGED <<now, slots>>
  BY <1>1, Zenon DEF CompleteIngress, Throw
<1>4. Idle(v.token) \in Worker /\ Fits(Idle(v.token), slots, RecordedCount)
  BY <1>2, IdleFits
<1>5. CASE IngressMayComplete(v.token, v.t)
  <2>1. ingress \in Record({Fingerprint}, {ResultRef})
    BY <1>5 DEF IngressMayComplete, MayComplete, Live, DurableInv, TypeOK, IngressRow
  <2>2. /\ ReplayRetention \in Nat /\ ReplayRetention # 0 /\ ReplayRetention > MaxNow
        /\ ResultRef # NoResult /\ NoRecord \notin Record({Fingerprint}, {ResultRef})
    BY IngressAssumption
  <2>3. PICK c : c = Completed(ingress, ResultRef, v.t, ReplayRetention)
    OBVIOUS
  <2>4. /\ c \in Record({Fingerprint}, {ResultRef})
        /\ Kept(c)
        /\ c.expiresAt >= v.t + ReplayRetention
    <3>1. ReplayRetention \in Nat \ {0} /\ ResultRef \in {ResultRef}
      BY <2>2
    <3> QED
      BY <1>2, <2>1, <2>2, <2>3, <3>1, CompletedRow
  <2>5. c \in IngressRow /\ Kept(c) /\ c.expiresAt > MaxNow
    <3>1. c.expiresAt \in Nat /\ MaxNow \in Nat
      BY <2>4, IngressAssumption DEF Record
    <3> QED
      BY <1>2, <2>2, <2>4, <3>1 DEF IngressRow
  <2>6. ingress' = c
    BY <1>3, <1>5, <2>3
  <2>7. DurableInv' /\ RecordedLifecycle(RecordedCount)' = RecordedLifecycle(RecordedCount)
    BY <1>3, <1>4, <2>5, <2>6, WorkerStutter
  <2>8. RecordedLifecycle(RecordedCount).lastOperationalState \in PostGeneration
    BY <1>2 DEF Fits, RecordedLifecycle, LifeOf
  <2>9. ingress' # NoRecord /\ ingress'.state = "completed"
    BY <2>5, <2>6 DEF Kept
  <2>10. Abstract!Settle
    BY <2>7, <2>8, <2>9 DEF Abstract!Settle, Abstract!PostGeneration, PostGeneration
  <2> QED
    BY <2>7, <2>10
<1>6. CASE ~IngressMayComplete(v.token, v.t)
  <2>1. /\ ingress' \in IngressRow
        /\ Kept(ingress') => ingress'.expiresAt > MaxNow
        /\ Kept(ingress') <=> Settled
    BY <1>2, <1>3, <1>6, SweepOrKeep
  <2> QED
    BY <1>3, <1>4, <2>1, WorkerStutter
<1> QED
  BY <1>5, <1>6

\* A step that writes slots, or none, and leaves the claim and the clock alone.
LEMMA SlotStutter ==
    ASSUME DurableInv, UNCHANGED <<now, ingress>>,
           slots' \in [Slots -> SlotRow], LogOf(slots', RecordedCount),
           GoesOn(slots, RecordedCount, slots', RecordedCount),
           NEW x \in Workers, NEW m \in Worker, Fits(m, slots, RecordedCount),
           worker' = [worker EXCEPT ![x] = m]
    PROVE  DurableInv' /\ UNCHANGED Abstract!lcVars
<1>1. /\ now' \in Nat /\ now' <= MaxNow /\ ingress' \in IngressRow
      /\ Kept(ingress') => ingress'.expiresAt > MaxNow
      /\ Kept(ingress') <=> Settled
  BY DEF DurableInv, TypeOK, Settled
<1>2. Fits(m, slots', RecordedCount)
  BY FitsOn, CapsAssumption DEF DurableInv, LogOf
<1>3. /\ worker' \in [Workers -> Worker]
      /\ \A y \in Workers : Fits(worker'[y], slots', RecordedCount)
  BY <1>2, WorkerSteps
<1> QED
  BY <1>1, <1>3, StutterStep

\* What is on record is retained; a slot behind it is free to be written.
LEMMA SlotWrites ==
    ASSUME DurableInv, NEW k \in Slots, k <= RecordedCount + 1, NEW r \in SlotRow,
           \/ k > RecordedCount /\ ~Kept(r)
           \/ /\ k <= RecordedCount /\ Kept(r) /\ r.expiresAt > MaxNow
              /\ r.resultRef = slots[k].resultRef,
           slots' = [slots EXCEPT ![k] = r]
    PROVE  /\ slots' \in [Slots -> SlotRow]
           /\ LogOf(slots', RecordedCount)
           /\ GoesOn(slots, RecordedCount, slots', RecordedCount)
<1>1. PICK s, n, s2 : s = slots /\ n = RecordedCount /\ s2 = slots'
  OBVIOUS
<1>2. s \in [Slots -> SlotRow] /\ LogOf(s, n) /\ s2 = [s EXCEPT ![k] = r]
  BY <1>1 DEF DurableInv, TypeOK
<1>3. /\ k <= n + 1
      /\ \/ k > n /\ ~Kept(r)
         \/ /\ k <= n /\ Kept(r) /\ r.expiresAt > MaxNow
            /\ r.resultRef = s[k].resultRef
  BY <1>1
<1>4. LogOf(s2, n) /\ GoesOn(s, n, s2, n)
  BY <1>2, <1>3, SlotWritten
<1>5. s2 \in [Slots -> SlotRow]
  BY <1>2
<1> QED
  BY <1>1, <1>4, <1>5

\* A slot of the log is on record and retained, one behind it is not.
LEMMA SlotOnRecord ==
    ASSUME DurableInv, NEW k \in Slots
    PROVE  /\ k <= RecordedCount <=> Kept(slots[k])
           /\ k <= RecordedCount => slots[k].expiresAt > MaxNow /\ slots[k].expiresAt \in Nat
           /\ LifeOf(slots, k) = slots[k].resultRef
<1>1. PICK n : n = RecordedCount
  OBVIOUS
<1>2. LogOf(slots, n) /\ n \in Nat /\ k \in Nat /\ k > 0
  BY <1>1, CapsAssumption DEF DurableInv, LogOf, Slots
<1>3. k <= n <=> Kept(slots[k])
  BY <1>2 DEF LogOf
<1>4. k <= n => slots[k].expiresAt > MaxNow
  BY <1>2 DEF LogOf
<1>5. Kept(slots[k]) => slots[k].expiresAt \in Nat
  BY DEF DurableInv, TypeOK, Kept, SlotRow, Record
<1> QED
  BY <1>1, <1>2, <1>3, <1>4, <1>5 DEF LifeOf

\* A slot that is swept: what is on record stays.
LEMMA SlotSweeps ==
    ASSUME DurableInv, NEW k \in Slots, k <= RecordedCount + 1, NEW t \in Nat, t <= MaxNow,
           slots' = [slots EXCEPT ![k] = Swept(slots[k], t)]
    PROVE  /\ slots' \in [Slots -> SlotRow]
           /\ LogOf(slots', RecordedCount)
           /\ GoesOn(slots, RecordedCount, slots', RecordedCount)
<1>1. PICK row, r : row = slots[k] /\ r = Swept(slots[k], t)
  OBVIOUS
<1>2. row \in SlotRow /\ NoRecord \in SlotRow
  BY <1>1 DEF DurableInv, TypeOK, SlotRow
<1>3. Kept(row) => row.expiresAt > MaxNow /\ row.expiresAt \in Nat
  BY <1>1, SlotOnRecord
<1>4. r \in {row, NoRecord} /\ (Kept(r) <=> Kept(row)) /\ (Kept(row) => r = row)
  BY <1>1, <1>3, SweptRow
<1>5. RecordedCount \in Nat /\ k \in Nat /\ (k <= RecordedCount <=> Kept(row))
  BY <1>1, SlotOnRecord, CapsAssumption DEF DurableInv, LogOf, Slots
<1>6. \/ k > RecordedCount /\ ~Kept(r)
      \/ /\ k <= RecordedCount /\ Kept(r) /\ r.expiresAt > MaxNow
         /\ r.resultRef = slots[k].resultRef
  BY <1>1, <1>3, <1>4, <1>5
<1>7. r \in SlotRow /\ slots' = [slots EXCEPT ![k] = r]
  BY <1>1, <1>2, <1>4
<1> QED
  BY <1>6, <1>7, SlotWrites

\* Behind the fold a worker stands in front of the next slot, or completes the
\* claim of generated output.
LEMMA FoldFits ==
    ASSUME DurableInv, NEW x \in Workers,
           FoldDone(x, RecordedLifecycle(RecordedCount), RecordedCount + 1)
    PROVE  \E m \in Worker :
             /\ worker' = [worker EXCEPT ![x] = m]
             /\ Fits(m, slots, RecordedCount)
<1>1. PICK v, n, cur : v = worker[x] /\ n = RecordedCount /\ cur = LifeOf(slots, n)
  OBVIOUS
<1>2. /\ v \in Worker /\ v.t <= MaxNow
      /\ n \in Nat /\ LogOf(slots, n) /\ worker \in [Workers -> Worker]
  BY <1>1, CapsAssumption DEF DurableInv, TypeOK, LogOf, Fits
<1>3. cur \in Lifecycle /\ Tracks(cur)
  BY <1>1, <1>2 DEF LogOf, Counted
<1>4. FoldDone(x, cur, n + 1)
  BY <1>1 DEF RecordedLifecycle, LifeOf
<1>5. PICK u : u = [v EXCEPT !.pc = "completeIngress"]
  OBVIOUS
<1>6. PICK m : m = [v EXCEPT !.pc = "claimSlot", !.cur = cur, !.slot = n + 1]
  OBVIOUS
<1>7. \/ cur.state \in Completable /\ worker' = [worker EXCEPT ![x] = u]
      \/ Throw(x)
      \/ worker' = [worker EXCEPT ![x] = m]
  <2>1. worker' = [worker EXCEPT ![x].pc = "completeIngress"]
          => worker' = [worker EXCEPT ![x] = u]
    BY <1>1, <1>5, Zenon
  <2>2. worker' = [worker EXCEPT ![x].pc = "claimSlot", ![x].cur = cur, ![x].slot = n + 1]
          => worker' = [worker EXCEPT ![x] = m]
    BY <1>1, <1>2, <1>6
  <2> QED
    BY <1>4, <2>1, <2>2, Zenon DEF FoldDone
<1>8. CASE cur.state \in Completable /\ worker' = [worker EXCEPT ![x] = u]
  <2>1. u \in Worker /\ u.pc = "completeIngress" /\ u.t = v.t
    BY <1>2, <1>5 DEF Worker
  <2>2. cur.lastOperationalState \in PostGeneration
    BY <1>3, <1>8 DEF Tracks, Completable, PostGeneration
  <2>3. Fits(u, slots, n)
    BY <1>1, <1>2, <2>1, <2>2 DEF Fits
  <2> QED
    BY <1>1, <1>8, <2>1, <2>3
<1>9. CASE Throw(x)
  <2>1. PICK i \in Worker : /\ worker' = [worker EXCEPT ![x] = i]
                            /\ i.pc \in {"idle", "releaseIngress"} /\ i.t <= MaxNow
    BY <1>1, <1>2, <1>9, OperationEnds DEF DurableInv
  <2>2. Fits(i, slots, RecordedCount)
    BY <2>1, EndsFit
  <2> QED
    BY <2>1, <2>2
<1>10. CASE worker' = [worker EXCEPT ![x] = m]
  <2>1. /\ m \in Worker /\ m.pc = "claimSlot" /\ m.t = v.t
        /\ m.slot = n + 1 /\ m.cur = cur
    <3>1. PICK k : k = n + 1
      OBVIOUS
    <3>2. k \in Nat /\ m = [v EXCEPT !.pc = "claimSlot", !.cur = cur, !.slot = k]
      BY <1>2, <1>6, <3>1
    <3>3. m \in Worker /\ m.pc = "claimSlot" /\ m.t = v.t /\ m.slot = k /\ m.cur = cur
      BY <1>2, <1>3, <3>2 DEF Worker
    <3> QED
      BY <3>1, <3>3
  <2>2. m.slot \in 1 .. n + 1 /\ m.slot - 1 = n
    BY <1>2, <2>1
  <2>3. Fits(m, slots, n)
    BY <1>1, <1>2, <2>1, <2>2 DEF Fits
  <2> QED
    BY <1>1, <1>10, <2>1, <2>3
<1> QED
  BY <1>7, <1>8, <1>9, <1>10

LEMMA ReadLifecycleStep ==
    ASSUME DurableInv, NEW x \in Workers, ReadLifecycle(x)
    PROVE  DurableInv' /\ UNCHANGED Abstract!lcVars
<1>1. PICK v, n : v = worker[x] /\ n = RecordedCount
  OBVIOUS
<1>2. /\ v.t \in Nat /\ v.t <= MaxNow /\ worker[x].t <= MaxNow
      /\ n \in 0 .. MaxTransitions /\ MaxTransitions \in Nat
  BY <1>1, CapsAssumption DEF DurableInv, TypeOK, Worker, Fits, LogOf
<1>3. /\ UNCHANGED <<now, ingress>>
      /\ \/ UNCHANGED slots
         \/ /\ n # MaxTransitions
            /\ slots' = [slots EXCEPT ![n + 1] = Swept(slots[n + 1], v.t)]
      /\ \/ Return(x) \/ Throw(x)
         \/ FoldDone(x, RecordedLifecycle(n), n + 1)
  BY <1>1, Zenon DEF ReadLifecycle
<1>4. /\ slots' \in [Slots -> SlotRow]
      /\ LogOf(slots', RecordedCount)
      /\ GoesOn(slots, RecordedCount, slots', RecordedCount)
  <2>1. CASE UNCHANGED slots
    BY <2>1, SameLog
  <2>2. CASE n # MaxTransitions /\ slots' = [slots EXCEPT ![n + 1] = Swept(slots[n + 1], v.t)]
    <3>1. PICK k : k = n + 1
      OBVIOUS
    <3>2. k \in Slots /\ k <= RecordedCount + 1
      BY <1>1, <1>2, <2>2, <3>1 DEF Slots
    <3>3. slots' = [slots EXCEPT ![k] = Swept(slots[k], v.t)]
      BY <2>2, <3>1
    <3> QED
      BY <1>2, <3>2, <3>3, SlotSweeps
  <2> QED
    BY <1>3, <2>1, <2>2
<1>5. PICK m \in Worker : /\ worker' = [worker EXCEPT ![x] = m]
                          /\ Fits(m, slots, RecordedCount)
  <2>1. CASE Return(x) \/ Throw(x)
    <3>1. PICK m \in Worker : /\ worker' = [worker EXCEPT ![x] = m]
                              /\ m.pc \in {"idle", "releaseIngress"} /\ m.t <= MaxNow
      BY <1>2, <2>1, OperationEnds DEF DurableInv
    <3>2. Fits(m, slots, RecordedCount)
      BY <3>1, EndsFit
    <3> QED
      BY <3>1, <3>2
  <2>2. CASE FoldDone(x, RecordedLifecycle(n), n + 1)
    BY <1>1, <2>2, FoldFits
  <2> QED
    BY <1>3, <2>1, <2>2
<1> QED
  BY <1>3, <1>4, <1>5, SlotStutter

\* The claim of a slot writes none that is on record.
LEMMA ClaimSlotStep ==
    ASSUME DurableInv, NEW x \in Workers, ClaimSlot(x)
    PROVE  DurableInv' /\ UNCHANGED Abstract!lcVars
<1>1. PICK v, n, token : v = worker[x] /\ n = RecordedCount /\ token = FreshToken
  OBVIOUS
<1>2. /\ v \in Worker /\ v.t \in Nat /\ v.t <= MaxNow /\ worker[x].t <= MaxNow
      /\ v.cur \in Lifecycle /\ v.slot \in Nat /\ v.lease \in Nat
      /\ n \in 0 .. MaxTransitions /\ MaxTransitions \in Nat /\ token \in Nat
      /\ worker \in [Workers -> Worker]
  BY <1>1, FreshTokenType, CapsAssumption DEF DurableInv, TypeOK, Worker, Fits, LogOf
<1>3. UNCHANGED <<now, ingress>> /\ v.pc = "claimSlot"
  BY <1>1 DEF ClaimSlot
<1>4. v.slot \in 1 .. n + 1 /\ v.cur = LifeOf(slots, v.slot - 1)
  BY <1>1, <1>3 DEF DurableInv, Fits
<1>5. PICK to \in DeliveryState :
        \/ (Return(x) \/ Throw(x)) /\ UNCHANGED slots
        \/ /\ ~(v.slot > MaxTransitions) /\ MayTransition(v.cur, to)
           /\ ~Live(slots[v.slot], v.t)
           /\ slots' = [slots EXCEPT ![v.slot] =
                Claimed(TransitionFingerprint(v.cur, Successor(v.cur, to)), token,
                        v.t, v.lease - v.t)]
           /\ worker' = [worker EXCEPT ![x].pc = "completeSlot", ![x].to = to,
                                       ![x].slotToken = token]
  <2>1. {"failed"} \subseteq DeliveryState
    BY DEF DeliveryState
  <2> QED
    BY <1>1, <2>1, Zenon DEF ClaimSlot, SlotIsFree
<1>6. CASE (Return(x) \/ Throw(x)) /\ UNCHANGED slots
  <2>1. PICK m \in Worker : /\ worker' = [worker EXCEPT ![x] = m]
                            /\ m.pc \in {"idle", "releaseIngress"} /\ m.t <= MaxNow
    BY <1>2, <1>6, OperationEnds DEF DurableInv
  <2>2. Fits(m, slots, RecordedCount)
    BY <2>1, EndsFit
  <2>3. /\ slots' \in [Slots -> SlotRow]
        /\ LogOf(slots', RecordedCount)
        /\ GoesOn(slots, RecordedCount, slots', RecordedCount)
    BY <1>6, SameLog
  <2> QED
    BY <1>3, <2>1, <2>2, <2>3, SlotStutter
<1>7. CASE /\ ~(v.slot > MaxTransitions) /\ MayTransition(v.cur, to)
           /\ ~Live(slots[v.slot], v.t)
           /\ slots' = [slots EXCEPT ![v.slot] =
                Claimed(TransitionFingerprint(v.cur, Successor(v.cur, to)), token,
                        v.t, v.lease - v.t)]
           /\ worker' = [worker EXCEPT ![x].pc = "completeSlot", ![x].to = to,
                                       ![x].slotToken = token]
  <2>1. PICK k : k = v.slot
    OBVIOUS
  <2>2. k \in Slots /\ k <= RecordedCount + 1
    BY <1>1, <1>2, <1>4, <1>7, <2>1 DEF Slots
  <2>3. ~(k <= RecordedCount)
    <3>1. k <= RecordedCount
            => Kept(slots[k]) /\ slots[k].expiresAt > MaxNow /\ slots[k].expiresAt \in Nat
      BY <2>2, SlotOnRecord
    <3>2. MaxNow \in Nat
      BY IngressAssumption
    <3> QED
      BY <1>2, <1>7, <2>1, <3>1, <3>2 DEF Kept, Live
  <2>4. PICK fp : fp = TransitionFingerprint(v.cur, Successor(v.cur, to))
    OBVIOUS
  <2>5. fp \in [from : DeliveryState, next : Lifecycle]
    <3>1. Successor(v.cur, to) \in Lifecycle /\ v.cur.state \in DeliveryState
      BY <1>2, SuccessorType DEF Lifecycle
    <3> QED
      BY <2>4, <3>1 DEF TransitionFingerprint
  <2>6. PICK r : r = Claimed(fp, token, v.t, v.lease - v.t)
    OBVIOUS
  <2>7. r \in SlotRow /\ ~Kept(r)
    <3>1. v.t + (v.lease - v.t) \in Nat
      BY <1>2
    <3>2. /\ Claimed(fp, token, v.t, v.lease - v.t)
               \in Record([from : DeliveryState, next : Lifecycle], Lifecycle)
          /\ ~Kept(Claimed(fp, token, v.t, v.lease - v.t))
      BY <1>2, <2>5, <3>1, ClaimedRow
    <3> QED
      BY <2>6, <3>2 DEF SlotRow
  <2>8. slots' = [slots EXCEPT ![k] = r]
    BY <1>7, <2>1, <2>4, <2>6
  <2>9. k > RecordedCount
    BY <1>1, <1>2, <1>4, <2>1, <2>3
  <2>10. /\ slots' \in [Slots -> SlotRow]
         /\ LogOf(slots', RecordedCount)
         /\ GoesOn(slots, RecordedCount, slots', RecordedCount)
    BY <2>2, <2>7, <2>8, <2>9, SlotWrites
  <2>11. PICK m : m = [v EXCEPT !.pc = "completeSlot", !.to = to, !.slotToken = token]
    OBVIOUS
  <2>12. /\ m \in Worker /\ m.pc = "completeSlot" /\ m.t = v.t
         /\ m.slot = v.slot /\ m.cur = v.cur /\ m.to = to
    BY <1>2, <2>11 DEF Worker
  <2>13. worker' = [worker EXCEPT ![x] = m]
    BY <1>1, <1>2, <1>7, <2>11
  <2>14. Fits(m, slots, RecordedCount)
    <3>1. v.slot <= MaxTransitions
      BY <1>2, <1>7
    <3> QED
      BY <1>1, <1>2, <1>4, <1>7, <2>12, <3>1 DEF Fits
  <2> QED
    BY <1>3, <2>10, <2>12, <2>13, <2>14, SlotStutter
<1> QED
  BY <1>5, <1>6, <1>7

\* The completion of the first free slot records a transition; that of a slot on
\* record, under the same result, changes nothing.
LEMMA CompleteSlotStep ==
    ASSUME DurableInv, NEW x \in Workers, CompleteSlot(x)
    PROVE  /\ DurableInv'
           /\ \/ \E to \in DeliveryState : Abstract!Advance(to)
              \/ UNCHANGED Abstract!lcVars
<1>1. PICK v, n, next, row :
        /\ v = worker[x] /\ n = RecordedCount
        /\ next = Successor(v.cur, v.to) /\ row = slots[v.slot]
  OBVIOUS
<1>2. v \in Worker /\ v.pc = "completeSlot" /\ Fits(v, slots, n)
  BY <1>1 DEF DurableInv, TypeOK, CompleteSlot
<1>3. /\ v.t \in Nat /\ v.t <= MaxNow /\ worker[x].t <= MaxNow
      /\ v.cur \in Lifecycle /\ v.to \in DeliveryState
      /\ n \in 0 .. MaxTransitions /\ MaxTransitions \in Nat
      /\ v.slot \in 1 .. n + 1 /\ v.slot <= MaxTransitions
      /\ v.cur = LifeOf(slots, v.slot - 1) /\ MayTransition(v.cur, v.to)
  BY <1>1, <1>2, CapsAssumption DEF DurableInv, Worker, Fits, LogOf
<1>4. v.slot \in Slots /\ next \in Lifecycle /\ v.slot <= RecordedCount + 1
  BY <1>1, <1>3, SuccessorType DEF Slots
<1>5. /\ UNCHANGED <<now, ingress>>
      /\ IF MayComplete(row, TransitionFingerprint(v.cur, next), v.slotToken, next, v.t)
           THEN slots' = [slots EXCEPT ![v.slot] = Completed(row, next, v.t, ReplayRetention)]
           ELSE slots' = [slots EXCEPT ![v.slot] = Swept(row, v.t)]
      /\ Return(x) \/ Throw(x)
  BY <1>1, Zenon DEF CompleteSlot
<1>6. PICK m \in Worker : /\ worker' = [worker EXCEPT ![x] = m]
                          /\ m.pc \in {"idle", "releaseIngress"} /\ m.t <= MaxNow
  BY <1>3, <1>5, OperationEnds DEF DurableInv
<1>7. Fits(m, slots, RecordedCount)
  BY <1>6, EndsFit
<1>8. CASE ~MayComplete(row, TransitionFingerprint(v.cur, next), v.slotToken, next, v.t)
  <2>1. slots' = [slots EXCEPT ![v.slot] = Swept(slots[v.slot], v.t)]
    BY <1>1, <1>5, <1>8
  <2>2. /\ slots' \in [Slots -> SlotRow]
        /\ LogOf(slots', RecordedCount)
        /\ GoesOn(slots, RecordedCount, slots', RecordedCount)
    BY <1>3, <1>4, <2>1, SlotSweeps
  <2> QED
    BY <1>5, <1>6, <1>7, <2>2, SlotStutter
<1>9. CASE MayComplete(row, TransitionFingerprint(v.cur, next), v.slotToken, next, v.t)
  <2>1. PICK Fs, Rs : Fs = [from : DeliveryState, next : Lifecycle] /\ Rs = Lifecycle
    OBVIOUS
  <2>2. row \in Record(Fs, Rs) /\ (row.state = "completed" => row.resultRef = next)
    BY <1>1, <1>4, <1>9, <2>1 DEF MayComplete, Live, DurableInv, TypeOK, SlotRow
  <2>3. /\ ReplayRetention \in Nat \ {0} /\ ReplayRetention > MaxNow /\ MaxNow \in Nat
        /\ next \in Rs /\ next # NoResult /\ NoRecord \notin Record(Fs, Rs)
    BY <1>4, <2>1, IngressAssumption
  <2>4. PICK r : r = Completed(row, next, v.t, ReplayRetention)
    OBVIOUS
  <2>5. /\ r \in Record(Fs, Rs) /\ Kept(r) /\ r.resultRef = next
        /\ r.expiresAt >= v.t + ReplayRetention
    <3>1. PICK t, ttl : t = v.t /\ ttl = ReplayRetention
      OBVIOUS
    <3>2. t \in Nat /\ ttl \in Nat \ {0} /\ row \in Record(Fs, Rs)
      BY <1>3, <2>2, <2>3, <3>1
    <3>3. /\ Completed(row, next, t, ttl) \in Record(Fs, Rs)
          /\ Kept(Completed(row, next, t, ttl))
          /\ Completed(row, next, t, ttl).resultRef = next
          /\ Completed(row, next, t, ttl).expiresAt >= t + ttl
      BY <2>3, <3>2, CompletedRow
    <3> QED
      BY <2>4, <3>1, <3>3
  <2>6. r \in SlotRow /\ r.expiresAt > MaxNow
    <3>1. r.expiresAt \in Nat
      BY <2>5 DEF Record
    <3> QED
      BY <1>3, <2>1, <2>3, <2>5, <3>1 DEF SlotRow
  <2>7. slots' = [slots EXCEPT ![v.slot] = r]
    BY <1>5, <1>9, <2>4
  <2>8. CASE v.slot <= n
    <3>1. r.resultRef = slots[v.slot].resultRef
      <4>1. Kept(slots[v.slot])
        BY <1>1, <1>4, <2>8, SlotOnRecord
      <4> QED
        BY <1>1, <2>2, <2>5, <4>1 DEF Kept
    <3>2. /\ slots' \in [Slots -> SlotRow]
          /\ LogOf(slots', RecordedCount)
          /\ GoesOn(slots, RecordedCount, slots', RecordedCount)
      BY <1>1, <1>4, <2>5, <2>6, <2>7, <2>8, <3>1, SlotWrites
    <3> QED
      BY <1>5, <1>6, <1>7, <3>2, SlotStutter
  <2>9. CASE ~(v.slot <= n)
    <3>1. v.slot = n + 1 /\ n < MaxTransitions /\ v.cur = LifeOf(slots, n)
      BY <1>3, <2>9
    <3>2. PICK s, s2 : s = slots /\ s2 = slots'
      OBVIOUS
    <3>3. /\ s \in [Slots -> SlotRow] /\ LogOf(s, n)
          /\ MayTransition(LifeOf(s, n), v.to)
          /\ r.resultRef = Successor(LifeOf(s, n), v.to)
          /\ s2 = [s EXCEPT ![n + 1] = r]
      BY <1>1, <1>3, <2>5, <2>7, <3>1, <3>2 DEF DurableInv, TypeOK
    <3>4. /\ LogOf(s2, n + 1) /\ GoesOn(s, n, s2, n + 1)
          /\ LifeOf(s2, n + 1) = Successor(LifeOf(s, n), v.to)
          /\ LifeOf(s, n).transitionCount = n
      <4>1. Records(s, n, v.to, r, s2)
        BY <1>3, <2>5, <2>6, <3>1, <3>3 DEF Records
      <4> QED
        BY <4>1, SlotRecorded
    <3>5. s2 \in [Slots -> SlotRow]
      BY <2>6, <3>3
    <3>6. RecordedCount' = n + 1
      <4>1. RecordedCount' = CountOf(slots')
        BY Zenon DEF RecordedCount, CountOf
      <4> QED
        BY <3>2, <3>4, <4>1, CountIs
    <3>7. /\ worker' \in [Workers -> Worker]
          /\ \A y \in Workers : Fits(worker'[y], s2, n + 1)
      <4>1. PICK w, w2 : w = worker /\ w2 = worker'
        OBVIOUS
      <4>2. /\ w \in [Workers -> Worker] /\ w2 = [w EXCEPT ![x] = m]
            /\ \A y \in Workers : Fits(w[y], s, n)
        BY <1>1, <1>6, <3>2, <4>1 DEF DurableInv, TypeOK
      <4>3. Fits(m, s2, n + 1) /\ n + 1 \in Nat
        BY <1>3, <1>6, EndsFit
      <4>4. /\ w2 \in [Workers -> Worker]
            /\ \A y \in Workers : Fits(w2[y], s2, n + 1)
        BY <3>3, <3>4, <4>2, <4>3, WorkerMoves
      <4> QED
        BY <4>1, <4>4
    <3>8. DurableInv'
      <4>1. /\ now' \in Nat /\ now' <= MaxNow /\ ingress' \in IngressRow
            /\ Kept(ingress') => ingress'.expiresAt > MaxNow
        BY <1>5 DEF DurableInv, TypeOK, Settled
      <4> QED
        BY <3>2, <3>4, <3>5, <3>6, <3>7, <4>1 DEF DurableInv, TypeOK, Settled
    <3>9. /\ RecordedLifecycle(RecordedCount) = LifeOf(s, n)
          /\ RecordedLifecycle(RecordedCount)' = LifeOf(s2, n + 1)
      BY <1>1, <3>2, <3>6 DEF RecordedLifecycle, LifeOf
    <3>10. (ingress' # NoRecord /\ ingress'.state = "completed")
             = (ingress # NoRecord /\ ingress.state = "completed")
      BY <1>5
    <3>11. Abstract!Advance(v.to)
      <4>1. Abstract!MayTransition(LifeOf(s, n), v.to)
        BY <3>3 DEF Abstract!MayTransition, Abstract!IsLegalTransition, Abstract!Successor,
                    MayTransition, IsLegalTransition, Successor
      <4>2. Abstract!Successor(LifeOf(s, n), v.to) = Successor(LifeOf(s, n), v.to)
        BY DEF Abstract!Successor, Successor
      <4> QED
        BY <3>1, <3>4, <3>9, <3>10, <4>1, <4>2 DEF Abstract!Advance
    <3> QED
      BY <1>3, <3>8, <3>11
  <2> QED
    BY <2>8, <2>9
<1> QED
  BY <1>8, <1>9
--------------------------------------------------------------------------------
LEMMA DurableInit ==
    ASSUME Init
    PROVE  DurableInv /\ Abstract!LifecycleInit
<1>1. PICK s : s = slots
  OBVIOUS
<1>2. s = [k \in Slots |-> NoRecord] /\ MaxTransitions \in Nat
  BY <1>1, CapsAssumption DEF Init
<1>3. LogOf(s, 0)
  <2>1. Counted(LifeOf(s, 0), 0)
    BY DEF Counted, LifeOf, Tracks, InitialLifecycle, Lifecycle, DeliveryState, OperationalState
  <2>2. \A k \in Slots : s[k] = NoRecord /\ ~Kept(s[k])
    BY <1>2 DEF Kept
  <2>3. 0 \in 0 .. MaxTransitions /\ 1 .. 0 = {} /\ 0 .. 0 = {0}
    BY <1>2
  <2> QED
    BY <2>1, <2>2, <2>3 DEF LogOf
<1>4. RecordedCount = 0
  <2>1. RecordedCount = CountOf(slots)
    BY Zenon DEF RecordedCount, CountOf
  <2> QED
    BY <1>1, <1>3, <2>1, CountIs
<1>5. TypeOK
  <2>1. \A x \in Workers : Idle(0) \in Worker
    BY IdleFits
  <2>2. worker \in [Workers -> Worker]
    BY <2>1 DEF Init
  <2> QED
    BY <1>1, <1>2, <2>2 DEF Init, TypeOK, IngressRow, SlotRow
<1>6. \A x \in Workers : Fits(worker[x], slots, RecordedCount)
  <2>1. \A x \in Workers : worker[x] = Idle(0)
    BY DEF Init
  <2> QED
    BY <2>1, IdleFits
<1>7. DurableInv
  BY <1>1, <1>3, <1>4, <1>5, <1>6, IngressAssumption DEF DurableInv, Init, Settled, Kept
<1>8. RecordedLifecycle(RecordedCount) = Abstract!InitialLifecycle
  BY <1>4 DEF RecordedLifecycle, Abstract!InitialLifecycle, InitialLifecycle
<1>9. (ingress # NoRecord /\ ingress.state = "completed") = FALSE
  BY DEF Init
<1> QED
  BY <1>7, <1>8, <1>9 DEF Abstract!LifecycleInit

\* Every step keeps the invariant, and is a step of the abstract lifecycle or a
\* stutter.
LEMMA DurableStep ==
    ASSUME DurableInv, [Next]_vars
    PROVE  DurableInv' /\ [Abstract!LifecycleNext]_(Abstract!lcVars)
<1>1. CASE UNCHANGED vars
  <2>1. UNCHANGED <<now, ingress, slots, worker>>
    BY <1>1 DEF vars
  <2>2. /\ now' \in Nat /\ now' <= MaxNow /\ ingress' \in IngressRow
        /\ Kept(ingress') => ingress'.expiresAt > MaxNow
        /\ Kept(ingress') <=> Settled
        /\ worker' \in [Workers -> Worker]
        /\ \A y \in Workers : Fits(worker'[y], slots', RecordedCount)
    BY <2>1 DEF DurableInv, TypeOK, Settled
  <2>3. /\ slots' \in [Slots -> SlotRow]
        /\ LogOf(slots', RecordedCount)
        /\ GoesOn(slots, RecordedCount, slots', RecordedCount)
    BY <2>1, SameLog
  <2> QED
    BY <2>2, <2>3, StutterStep
<1>2. CASE Tick
  BY <1>2, TickStep
<1>3. ASSUME NEW x \in Workers, Step(x)
      PROVE  DurableInv' /\ [Abstract!LifecycleNext]_(Abstract!lcVars)
  <2>1. CASE Claim(x) \/ AdoptOwnership(x) \/ Renew(x) \/ Crash(x)
    BY <2>1, ClaimStep, AdoptStep, RenewStep, CrashStep
  <2>2. CASE BeginTransition(x) \/ BeginFail(x) \/ BeginComplete(x)
    BY <2>2, BeginStep DEF BeginTransition, BeginFail, BeginComplete
  <2>3. CASE ReadLifecycle(x) \/ ClaimSlot(x) \/ ReleaseIngress(x)
    BY <2>3, ReadLifecycleStep, ClaimSlotStep, ReleaseStep
  <2>4. CASE CompleteSlot(x)
    <3>1. /\ DurableInv'
          /\ \/ \E to \in DeliveryState : Abstract!Advance(to)
             \/ UNCHANGED Abstract!lcVars
      BY <2>4, CompleteSlotStep
    <3>2. Abstract!DeliveryState = DeliveryState
      BY DEF Abstract!DeliveryState, DeliveryState, Abstract!OperationalState, OperationalState
    <3> QED
      BY <3>1, <3>2 DEF Abstract!LifecycleNext
  <2>5. CASE CompleteIngress(x)
    BY <2>5, CompleteIngressStep DEF Abstract!LifecycleNext
  <2> QED
    BY <1>3, <2>1, <2>2, <2>3, <2>4, <2>5 DEF Step
<1> QED
  BY <1>1, <1>2, <1>3 DEF Next

\* The invariant of the interleaved log holds in every reachable state.
THEOREM DurableInvariance == Spec => []DurableInv
<1>1. DurableInv /\ [Next]_vars => DurableInv'
  BY DurableStep
<1> QED
  BY DurableInit, <1>1, PTL DEF Spec

\* The stores and what the workers remember are always well typed.
THEOREM DurableTypeCorrect == Spec => []TypeOK
<1>1. DurableInv => TypeOK
  BY DEF DurableInv
<1> QED
  BY DurableInvariance, <1>1, PTL

\* However the store calls of the workers interleave, stall, are repeated or are
\* cut short, the log of transitions is one delivery's lifecycle: each step of
\* it is legal and capped, and nothing else is ever recorded.
THEOREM LogIsALifecycle == Spec => ImplementsLifecycle
<1>1. Init => Abstract!LifecycleInit
  BY DurableInit
<1>2. DurableInv /\ [Next]_vars => [Abstract!LifecycleNext]_(Abstract!lcVars)
  BY DurableStep
<1> QED
  BY DurableInvariance, <1>1, <1>2, PTL DEF Spec, ImplementsLifecycle, Abstract!LifecycleSpec
--------------------------------------------------------------------------------
\* A worker that changes while it completes the claim took a step, and if the
\* claim changed too, that step was the completion.
LEMMA CompletionActs ==
    ASSUME TypeOK, Next, NEW x \in Workers, worker[x].pc = "completeIngress",
           worker'[x] # worker[x], ingress' # ingress
    PROVE  CompleteIngress(x)
<1>1. PICK y \in Workers : Step(y)
  BY DEF Next, Tick
<1>2. worker \in [Workers -> Worker]
  BY DEF TypeOK
<1>3. ASSUME y # x PROVE worker'[x] = worker[x]
  <2>1. \A m : worker' = [worker EXCEPT ![y] = m] => worker'[x] = worker[x]
    BY <1>2, <1>3
  <2>2. CASE Claim(y) \/ AdoptOwnership(y) \/ Renew(y) \/ Crash(y) \/ ReleaseIngress(y)
    BY <1>2, <1>3, <2>2 DEF Claim, AdoptOwnership, Renew, Crash, ReleaseIngress
  <2>3. CASE Return(y) \/ Throw(y)
    BY <2>1, <2>3, Zenon DEF Return, Throw
  <2>4. CASE BeginTransition(y) \/ BeginFail(y) \/ BeginComplete(y)
    BY <2>1, <2>3, <2>4, Zenon DEF BeginTransition, BeginFail, BeginComplete, Begin
  <2>5. CASE ReadLifecycle(y)
    <3>1. \/ Return(y) \/ Throw(y)
          \/ FoldDone(y, RecordedLifecycle(RecordedCount), RecordedCount + 1)
      BY <2>5, Zenon DEF ReadLifecycle
    <3>2. CASE FoldDone(y, RecordedLifecycle(RecordedCount), RecordedCount + 1)
      <4>1. CASE Throw(y)
        BY <2>3, <4>1
      <4>2. CASE ~Throw(y)
        BY <1>2, <1>3, <3>2, <4>2 DEF FoldDone
      <4> QED
        BY <4>1, <4>2
    <3> QED
      BY <2>3, <3>1, <3>2
  <2>6. CASE ClaimSlot(y)
    <3>1. CASE Return(y) \/ Throw(y)
      BY <2>3, <3>1
    <3>2. CASE ~(Return(y) \/ Throw(y))
      <4>1. PICK to, token : worker' = [worker EXCEPT ![y].pc = "completeSlot", ![y].to = to,
                                                      ![y].slotToken = token]
        BY <2>6, <3>2, Zenon DEF ClaimSlot
      <4> QED
        BY <1>2, <1>3, <4>1
    <3> QED
      BY <3>1, <3>2
  <2>7. CASE CompleteSlot(y) \/ CompleteIngress(y)
    BY <2>3, <2>7, Zenon DEF CompleteSlot, CompleteIngress
  <2> QED
    BY <1>1, <2>2, <2>4, <2>5, <2>6, <2>7 DEF Step
<1>4. Step(x)
  BY <1>1, <1>3
<1>5. ~Renew(x) /\ ~Crash(x)
  BY DEF Renew, Crash
<1>6. ~Claim(x) /\ ~AdoptOwnership(x)
  BY DEF Claim, AdoptOwnership, Idle
<1>7. /\ ~BeginTransition(x) /\ ~BeginFail(x) /\ ~BeginComplete(x) /\ ~ReadLifecycle(x)
      /\ ~ClaimSlot(x) /\ ~CompleteSlot(x) /\ ~ReleaseIngress(x)
  BY DEF BeginTransition, BeginFail, BeginComplete, Begin, ReadLifecycle, ClaimSlot, CompleteSlot,
         ReleaseIngress
<1> QED
  BY <1>4, <1>5, <1>6, <1>7 DEF Step

\* A worker whose lease was taken over cannot settle the delivery.
THEOREM StaleCompletionsAreFenced == Spec => StaleCompletionFenced
<1> DEFINE Fenced(x) ==
      worker[x].pc = "completeIngress" /\ worker'[x] # worker[x] /\ ingress' # ingress
        => \/ ingress' = NoRecord
           \/ ingress.claimToken = worker[x].token
<1>1. TypeOK /\ [Next]_vars => [\A x \in Workers : Fenced(x)]_vars
  <2> SUFFICES ASSUME TypeOK, Next, NEW x \in Workers, worker[x].pc = "completeIngress",
                      worker'[x] # worker[x], ingress' # ingress, ingress' # NoRecord
               PROVE  ingress.claimToken = worker[x].token
    OBVIOUS
  <2>1. CompleteIngress(x)
    BY CompletionActs
  <2>2. PICK v : v = worker[x]
    OBVIOUS
  <2>3. ingress' = IF IngressMayComplete(v.token, v.t)
                     THEN Completed(ingress, ResultRef, v.t, ReplayRetention)
                     ELSE Swept(ingress, v.t)
    BY <2>1, <2>2, Zenon DEF CompleteIngress
  <2>4. IngressMayComplete(v.token, v.t)
    BY <2>3 DEF Swept
  <2> QED
    BY <2>2, <2>4 DEF IngressMayComplete, MayComplete, Owns
<1> QED
  BY DurableTypeCorrect, <1>1, PTL DEF Spec, StaleCompletionFenced
================================================================================
