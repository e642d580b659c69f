----------------------------- MODULE DurableIngress -----------------------------
(***************************************************************************)
(* The durable ingress of one inbound delivery, as its workers execute it. *)
(* The ingress row is the claim on the delivery; the lifecycle is a log of *)
(* numbered transition slots in the same store, folded from slot 1.  A     *)
(* transition is a read of the ingress row, a read of every slot up to the *)
(* first free one, a claim of that slot and its completion: each of these  *)
(* is one store call, any other worker may run between two of them, and    *)
(* the clock reading they pass is the one sampled at the start.  Workers   *)
(* may stall at any point until their lease is over, crash, or pick up a   *)
(* dead worker's claim token from the spool.                               *)
(***************************************************************************)
EXTENDS LifecycleRules, IdempotencyRecords, FiniteSetsExt

CONSTANTS
    Workers,
    Fingerprint,      \* the delivery's fingerprint
    ResultRef,        \* the opaque reference completion stores
    NoTarget,
    LeaseMs,          \* config.defaultLeaseMs
    ReplayRetention,  \* config.replayRetentionMs, 7 days: beyond MaxNow
    MaxNow            \* bound on the clock

ASSUME IngressAssumption ==
    /\ IsFiniteSet(Workers)
    /\ LeaseMs \in Nat \ {0}
    /\ MaxNow \in Nat
    /\ ReplayRetention \in Nat /\ ReplayRetention > MaxNow
    /\ NoRecord \notin Record([from : DeliveryState, next : Lifecycle], Lifecycle)
    /\ NoRecord \notin Record({Fingerprint}, {ResultRef})
    /\ NoResult \notin Lifecycle \cup {ResultRef}

VARIABLES
    now,
    ingress,  \* the ingress row
    slots,    \* the transition slots
    worker    \* what each worker knows and where it is

vars == <<now, ingress, slots, worker>>

Slots == 1 .. MaxTransitions

\* lifecycleFingerprint: the hash of the step from one lifecycle to the next.
TransitionFingerprint(cur, next) == [from |-> cur.state, next |-> next]

SlotRow ==
    Record([from : DeliveryState, next : Lifecycle], Lifecycle) \cup {NoRecord}
IngressRow == Record({Fingerprint}, {ResultRef}) \cup {NoRecord}

Worker ==
    [pc : {"idle", "readSlots", "claimSlot", "completeSlot", "completeIngress", "releaseIngress"},
     op : {"none", "transition", "fail", "complete"},
     token : Nat, to : DeliveryState \cup {NoTarget}, t : Nat, lease : Nat,
     cur : Lifecycle, slot : Nat, slotToken : Nat]

Idle(token) ==
    [pc |-> "idle", op |-> "none", token |-> token, to |-> NoTarget, t |-> 0, lease |-> 0,
     cur |-> InitialLifecycle, slot |-> 1, slotToken |-> 0]

\* How far the log of completed transitions reaches.
RecordedCount ==
    LET Recorded(n) == \A k \in 1 .. n : slots[k] # NoRecord /\ slots[k].state = "completed"
    IN  CHOOSE n \in 0 .. MaxTransitions :
          Recorded(n) /\ (n = MaxTransitions \/ ~Recorded(n + 1))

RecordedLifecycle(n) == IF n = 0 THEN InitialLifecycle ELSE slots[n].resultRef

\* The states complete() accepts.
Completable == {"generated", "delivering", "delivered", "unknown"}

\* Mutant: completion does not compare claim generations.
IngressMayComplete_AnyGeneration(token, t) ==
    Live(ingress, t) /\ ingress.fingerprint = Fingerprint

IngressMayComplete(token, t) == MayComplete(ingress, Fingerprint, token, ResultRef, t)

\* applyCompletedTransition does not throw on the row.
AppliesTo(cur, row) ==
    /\ IsLegalTransition(cur, row.resultRef.state)
    /\ row.fingerprint = TransitionFingerprint(cur, row.resultRef)
    /\ row.resultRef = Successor(cur, row.resultRef.state)

\* inferPendingTarget finds the target of a pending slot.
Recognized(cur, row) ==
    \E to \in LegalTargets(cur) :
        row.fingerprint = TransitionFingerprint(cur, Successor(cur, to))

\* randomUUID: a token no row and no worker has.
FreshToken ==
    LET inUse == {worker[x].token : x \in Workers} \cup {worker[x].slotToken : x \in Workers}
                   \cup {row.claimToken : row \in ({slots[k] : k \in Slots} \cup {ingress}) \ {NoRecord}}
    IN  Min((1 .. Cardinality(inUse) + 1) \ inUse)

\* An operation returns, possibly without having done anything, or throws.
\* fail() goes on to release the ingress claim only if its transition returned.
Return(x) ==
    worker' = [worker EXCEPT ![x] =
                 IF worker[x].op = "fail" THEN [@ EXCEPT !.pc = "releaseIngress"]
                                          ELSE Idle(@.token)]
Throw(x) == worker' = [worker EXCEPT ![x] = Idle(@.token)]
--------------------------------------------------------------------------------
Init ==
    /\ now = 0
    /\ ingress = NoRecord
    /\ slots = [k \in Slots |-> NoRecord]
    /\ worker = [x \in Workers |-> Idle(0)]

Tick ==
    /\ now < MaxNow
    /\ now' = now + 1
    /\ UNCHANGED <<ingress, slots, worker>>

\* claim() returning "claimed"; its other outcomes change nothing.
Claim(x) ==
    /\ worker[x] = Idle(0)
    /\ ~Live(ingress, now)
    /\ ingress' = Claimed(Fingerprint, FreshToken, now, LeaseMs)
    /\ worker' = [worker EXCEPT ![x] = Idle(FreshToken)]
    /\ UNCHANGED <<now, slots>>

\* Spool recovery continues under the token of a dead process's entry.
AdoptOwnership(x) ==
    /\ worker[x] = Idle(0)
    /\ ingress # NoRecord
    /\ \A y \in Workers : worker[y].token # ingress.claimToken
    /\ worker' = [worker EXCEPT ![x] = Idle(ingress.claimToken)]
    /\ UNCHANGED <<now, ingress, slots>>

\* transition(), fail() and complete() start alike: they sample the clock, read
\* the ingress row and assert that it is theirs.
Begin(x, op) ==
    /\ worker[x].pc = "idle"
    /\ worker[x].token # 0
    /\ IF Live(ingress, now) /\ Owns(ingress, Fingerprint, worker[x].token)
         THEN worker' = [worker EXCEPT ![x] =
                [Idle(@.token) EXCEPT !.pc = "readSlots", !.op = op,
                                      !.t = now, !.lease = ingress.expiresAt]]
         ELSE Throw(x)
    /\ ingress' = Swept(ingress, now)
    /\ UNCHANGED <<now, slots>>

BeginTransition(x) == Begin(x, "transition")
BeginFail(x) == Begin(x, "fail")
BeginComplete(x) == Begin(x, "complete")

\* Mutant: complete() settles the claim in whatever state the fold ends.
FoldDone_CompletesAnyState(x, cur, next) ==
    IF worker[x].op = "complete"
      THEN worker' = [worker EXCEPT ![x].pc = "completeIngress"]
      ELSE worker' = [worker EXCEPT ![x].pc = "claimSlot", ![x].cur = cur, ![x].slot = next]

\* The fold is over: transition() turns to the next slot, complete() to its check.
FoldDone(x, cur, next) ==
    IF worker[x].op = "complete"
      THEN IF cur.state \in Completable
             THEN worker' = [worker EXCEPT ![x].pc = "completeIngress"]
             ELSE Throw(x)
      ELSE worker' = [worker EXCEPT ![x].pc = "claimSlot", ![x].cur = cur, ![x].slot = next]

\* #readLifecycle.  Its loop is one step: a completed slot does not change while
\* it is retained, so the reads in front of the first other slot commute with
\* everything, and the read of that slot is the one that counts.
ReadLifecycle(x) ==
    LET me  == worker[x]
        n   == RecordedCount
        cur == RecordedLifecycle(n)
        row == slots[n + 1]
    IN  /\ me.pc = "readSlots"
        /\ IF \E k \in 1 .. n : ~AppliesTo(RecordedLifecycle(k - 1), slots[k])
             THEN Throw(x) /\ UNCHANGED slots
             ELSE IF n = MaxTransitions
               THEN FoldDone(x, cur, n + 1) /\ UNCHANGED slots
               ELSE /\ slots' = [slots EXCEPT ![n + 1] = Swept(row, me.t)]
                    /\ IF Live(row, me.t) /\ me.op # "complete"
                         THEN IF Recognized(cur, row) THEN Return(x) ELSE Throw(x)
                         ELSE FoldDone(x, cur, n + 1)
        /\ UNCHANGED <<now, ingress>>

SlotIsFree(row, t) == ~Live(row, t)

\* The decision between the fold and the slot's claim, and the claim.  The
\* target of a transition() first matters here, so it is chosen here; the cases
\* that return or throw without a store call end the operation.
ClaimSlot(x) ==
    LET me == worker[x]
        targets == IF me.op = "fail" THEN {"failed"} ELSE DeliveryState
    IN  /\ me.pc = "claimSlot"
        /\ \E to \in targets :
             IF to = me.cur.state THEN Return(x) /\ UNCHANGED slots
             ELSE IF me.slot > MaxTransitions \/ ~MayTransition(me.cur, to)
               THEN Throw(x) /\ UNCHANGED slots
             ELSE IF ~SlotIsFree(slots[me.slot], me.t)
               THEN Return(x) /\ UNCHANGED slots
             ELSE LET next == Successor(me.cur, to)
                  IN  /\ slots' = [slots EXCEPT ![me.slot] =
                           Claimed(TransitionFingerprint(me.cur, next), FreshToken,
                                   me.t, me.lease - me.t)]
                      /\ worker' = [worker EXCEPT ![x].pc = "completeSlot", ![x].to = to,
                                                  ![x].slotToken = FreshToken]
        /\ UNCHANGED <<now, ingress>>

CompleteSlot(x) ==
    LET me == worker[x]
        next == Successor(me.cur, me.to)
        row == slots[me.slot]
    IN  /\ me.pc = "completeSlot"
        /\ IF MayComplete(row, TransitionFingerprint(me.cur, next), me.slotToken, next, me.t)
             THEN /\ slots' = [slots EXCEPT ![me.slot] =
                                 Completed(row, next, me.t, ReplayRetention)]
                  /\ Return(x)
             ELSE /\ slots' = [slots EXCEPT ![me.slot] = Swept(row, me.t)]
                  /\ Throw(x)
        /\ UNCHANGED <<now, ingress>>

CompleteIngress(x) ==
    LET me == worker[x]
    IN  /\ me.pc = "completeIngress"
        /\ ingress' = IF IngressMayComplete(me.token, me.t)
                        THEN Completed(ingress, ResultRef, me.t, ReplayRetention)
                        ELSE Swept(ingress, me.t)
        /\ Throw(x)
        /\ UNCHANGED <<now, slots>>

\* The end of fail(): the claim is given up whatever release() answered.
ReleaseIngress(x) ==
    LET me == worker[x]
    IN  /\ me.pc = "releaseIngress"
        /\ IF MayRelease(ingress, Fingerprint, me.token, me.t)
             THEN ingress' = NoRecord
             ELSE ingress' \in {ingress, Swept(ingress, me.t)}
        /\ worker' = [worker EXCEPT ![x] = Idle(0)]
        /\ UNCHANGED <<now, slots>>

\* renew(), called by the lease timer while the worker is anywhere.
Renew(x) ==
    /\ worker[x].token # 0
    /\ ingress' = IF MayRenew(ingress, Fingerprint, worker[x].token, now)
                    THEN Extended(ingress, now, LeaseMs)
                    ELSE Swept(ingress, now)
    /\ UNCHANGED <<now, slots, worker>>

Crash(x) ==
    /\ worker[x] # Idle(0)
    /\ worker' = [worker EXCEPT ![x] = Idle(0)]
    /\ UNCHANGED <<now, ingress, slots>>

Step(x) ==
    \/ Claim(x) \/ AdoptOwnership(x)
    \/ BeginTransition(x) \/ BeginFail(x) \/ BeginComplete(x)
    \/ ReadLifecycle(x) \/ ClaimSlot(x) \/ CompleteSlot(x)
    \/ CompleteIngress(x) \/ ReleaseIngress(x)
    \/ Renew(x) \/ Crash(x)

Next == Tick \/ \E x \in Workers : Step(x)

Spec == Init /\ [][Next]_vars
--------------------------------------------------------------------------------
TypeOK ==
    /\ now \in Nat
    /\ ingress \in IngressRow
    /\ slots \in [Slots -> SlotRow]
    /\ worker \in [Workers -> Worker]

\* A completion is the work of the generation that holds the claim: a worker
\* whose lease was taken over cannot settle the delivery, whatever it read
\* before ("claim generations prevent stale workers from completing a
\* reclaimed delivery").
StaleCompletionFenced ==
    [][\A x \in Workers :
         worker[x].pc = "completeIngress" /\ worker'[x] # worker[x] /\ ingress' # ingress
           => \/ ingress' = NoRecord
              \/ ingress.claimToken = worker[x].token]_vars

\* The log, with its interleaved multi-call transitions, implements the
\* one-step lifecycle: every recorded transition is one legal, capped step.
Abstract ==
    INSTANCE DeliveryLifecycle
      WITH lifecycle <- RecordedLifecycle(RecordedCount),
           closed <- (ingress # NoRecord /\ ingress.state = "completed")

ImplementsLifecycle == Abstract!LifecycleSpec
================================================================================
