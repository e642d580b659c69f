----------------------------- MODULE IngressPipeline -----------------------------
(***************************************************************************)
(* One asynchronous adapter delivery from the platform's request to its    *)
(* reply: the webhook route, the Telegram poll and Slack socket loops, the *)
(* background task and the recovery at start-up of server.ts, over the two *)
(* stores they share, the ingress claim with its lifecycle and the         *)
(* file-backed spool of ingress-spool.ts.  A worker is one process with    *)
(* the task it is running.  A call on the ingress is one step; that its    *)
(* transitions are is what DurableIngress establishes.  A change of the    *)
(* spool is two steps, a read and a write of the file.                     *)
(***************************************************************************)
EXTENDS LifecycleRules, FiniteSets

CONSTANTS
    Workers,
    Pids,         \* process ids the host hands out; 0 is none
    PartCount,    \* messages the reply consists of: a WhatsApp batch has several
    NoClaim, NoEntry,
    ReusesPids,   \* whether a new process may get the pid of the spool entry's owner
    Channels,     \* how the platform delivers: "webhook", or "stream" for poll and socket
    MaxReceipts,  \* bound on the platform's (re)deliveries
    Faults        \* bounds: the combinations explored of process crashes, of crashes among
                  \* them that leave a transition slot pending (torn), and of leases that
                  \* lapse while their owner is still at work (stalls)

ASSUME PipelineAssumption ==
    /\ IsFiniteSet(Workers)
    /\ \A pid \in Pids : pid \in Nat /\ pid # 0
    /\ PartCount \in Nat \ {0}
    /\ ReusesPids \in BOOLEAN
    /\ Channels \subseteq {"webhook", "stream"}
    /\ MaxReceipts \in Nat
    /\ Faults \subseteq [crashes : Nat, torn : Nat, stalls : Nat]

VARIABLES
    channel,
    row,        \* the ingress claim: its generation and whether it is completed
    lifecycle,
    slotPending,\* a crashed worker's transition slot is still claimed
    spool,      \* the delivery's spool file
    acked,      \* the platform has its 200, envelope acknowledgement or offset
    sent,       \* how often the platform has accepted each part of the reply
    silent,     \* a handler found nothing to reply
    notified,   \* notifyBackgroundFailure has told the user the request failed
    worker,
    used        \* what is consumed of each bound

vars == <<channel, row, lifecycle, slotPending, spool, acked, sent, silent, notified, worker, used>>
stores == <<row, lifecycle, slotPending>>
outside == <<acked, sent, silent, notified>>

Parts == 1 .. PartCount

SpoolState ==
    {"accepted", "execution-completed", "send-attempted", "unknown-after-send", "platform-delivered"}

Entry == [state : SpoolState, token : Nat, pid : Pids]

\* No file and no claim are different from every one there can be.
ASSUME AbsenceAssumption ==
    \A absent \in {NoClaim, NoEntry} : absent \notin Entry /\ absent \notin [token : Nat, done : BOOLEAN]

\* The spool's state changes: the states each accepts and the one it leaves.
Mark == {"executionCompleted", "sendAttempted", "unknownAfterSend", "deliveryRejected", "platformDelivered"}

MarkFrom(m) ==
    CASE m = "executionCompleted" -> {"accepted", "execution-completed"}
      [] m = "sendAttempted"      -> {"execution-completed", "send-attempted"}
      [] m = "unknownAfterSend"   -> {"send-attempted", "unknown-after-send"}
      [] m = "deliveryRejected"   -> {"send-attempted"}
      [] m = "platformDelivered"  -> SpoolState \ {"unknown-after-send"}

MarkTo(m) ==
    CASE m \in {"executionCompleted", "deliveryRejected"} -> "execution-completed"
      [] m = "sendAttempted"     -> "send-attempted"
      [] m = "unknownAfterSend"  -> "unknown-after-send"
      [] m = "platformDelivered" -> "platform-delivered"

\* path is the try block a task is in: still taking the delivery in, running the
\* handler, resuming from a checkpoint, or inside a catch block.
Worker ==
    [pc : {"down", "idle", "recover", "reclaim", "find", "reassign", "writeReassign",
           "begin", "put", "run", "read", "write", "toGenerated", "toDelivering",
           "startDelivering", "send", "setDelivered", "finish", "remove", "fail", "release"},
     path : {"intake", "run", "resume", "resumeTry", "caught"},
     recovering : BOOLEAN, pid : Pids \cup {0}, token : Nat,
     attempted : BOOLEAN, delivered : BOOLEAN,
     mark : Mark, image : Entry \cup {NoEntry}, final : Terminal, part : Nat]

Resting(pid) ==
    [pc |-> IF pid = 0 THEN "down" ELSE "idle", path |-> "intake", recovering |-> FALSE,
     pid |-> pid, token |-> 0, attempted |-> FALSE, delivered |-> FALSE,
     mark |-> "executionCompleted", image |-> NoEntry, final |-> "delivered", part |-> 1]

AtWork(w) == worker[w].pc \notin {"down", "idle"}

\* randomUUID: a generation nobody remembers.
FreshToken ==
    LET inUse == {worker[w].token : w \in Workers}
                   \cup {worker[w].image.token : w \in {v \in Workers : worker[v].image # NoEntry}}
                   \cup {e.token : e \in {row, spool} \ {NoClaim, NoEntry}}
    IN  CHOOSE t \in 1 .. Cardinality(inUse) + 1 : t \notin inUse

Goto(w, pc) == worker' = [worker EXCEPT ![w].pc = pc]
ReadMark(w, m) == worker' = [worker EXCEPT ![w].pc = "read", ![w].mark = m]
Finish(w, final) == worker' = [worker EXCEPT ![w].pc = "finish", ![w].final = final]

\* Mutant: ownership of the claim is not compared, only its presence.
OwnsClaim_AnyGeneration(w) == row # NoClaim

OwnsClaim(w) == row # NoClaim /\ row.token = worker[w].token

\* advanceAdapterIngressToDelivering and ...ToGenerated: the transition each
\* loop requests next.
TowardDelivering ==
    CASE lifecycle.state = "accepted"  -> "running"
      [] lifecycle.state = "running"   -> "generated"
      [] lifecycle.state = "generated" -> "delivering"
      [] OTHER -> IF lifecycle.lastOperationalState \in {"generated", "delivering"}
                    THEN "delivering" ELSE "running"

TowardGenerated == IF lifecycle.state \in {"accepted", "failed"} THEN "running" ELSE "generated"

\* The transition a task is about to request.
Target(w) ==
    LET me == worker[w]
    IN  CASE me.pc = "begin"           -> "running"
          [] me.pc = "toGenerated"     -> TowardGenerated
          [] me.pc = "toDelivering"    -> TowardDelivering
          [] me.pc = "startDelivering" -> "delivering"
          [] me.pc = "setDelivered"    -> "delivered"
          [] me.pc = "fail"            -> "failed"
          [] me.pc = "finish"          -> IF lifecycle.state = "delivering"
                                            THEN me.final ELSE TowardDelivering

\* ingress.transition(): a pending slot answers "in-flight" or "conflict", which
\* no caller looks at, and a transition to the current state is a replay.
Steps(w, to) ==
    /\ OwnsClaim(w)
    /\ ~slotPending
    /\ lifecycle.transitionCount < MaxTransitions
    /\ MayTransition(lifecycle, to)
Returns(w, to) == \/ Steps(w, to)
                  \/ OwnsClaim(w) /\ (slotPending \/ lifecycle.state = to)
Transition(w, to) ==
    /\ Returns(w, to)
    /\ lifecycle' = IF Steps(w, to) /\ lifecycle.state # to THEN Successor(lifecycle, to) ELSE lifecycle
    /\ UNCHANGED <<row, slotPending>>
--------------------------------------------------------------------------------
(* How a task ends, and what its catch blocks do. *)

\* Everything was settled, or the error is a PostDeliveryPersistenceError.
EndQuietly(w) ==
    /\ worker' = [worker EXCEPT ![w] = Resting(@.pid)]
    /\ UNCHANGED notified

\* The error reaches the background task's catch, which tells the user; the poll
\* and socket loops and recovery only log it.
EndWithError(w) ==
    /\ worker' = [worker EXCEPT ![w] = Resting(@.pid)]
    /\ notified' = (notified \/ (channel = "webhook" /\ worker[w].path # "intake"
                                   /\ ~worker[w].recovering))

CatchBy(w, m) ==
    /\ worker' = [worker EXCEPT ![w].path = "caught", ![w].pc = "read", ![w].mark = m]
    /\ UNCHANGED notified

\* Mutant: every error of a send counts as a definitive rejection.
Catch_AllDefinitive(w, definitive) ==
    LET me == worker[w]
    IN  IF me.path = "resumeTry" \/ (me.path = "run" /\ me.attempted /\ ~me.delivered)
          THEN CatchBy(w, "deliveryRejected")
        ELSE IF me.path # "run" THEN EndWithError(w)
        ELSE IF me.delivered /\ ~me.recovering THEN EndQuietly(w)
        ELSE Goto(w, "fail") /\ UNCHANGED notified

Catch(w, definitive) ==
    LET me == worker[w]
    IN  IF me.path = "resumeTry" \/ (me.path = "run" /\ me.attempted /\ ~me.delivered)
          THEN CatchBy(w, IF definitive THEN "deliveryRejected" ELSE "unknownAfterSend")
        ELSE IF me.path # "run" THEN EndWithError(w)
        ELSE IF me.delivered /\ ~me.recovering THEN EndQuietly(w)
        ELSE Goto(w, "fail") /\ UNCHANGED notified

Throw(w) == Catch(w, FALSE) /\ UNCHANGED <<stores, spool, acked, sent, silent>>

--------------------------------------------------------------------------------
Init ==
    /\ channel \in Channels
    /\ row = NoClaim
    /\ lifecycle = InitialLifecycle
    /\ slotPending = FALSE
    /\ spool = NoEntry
    /\ acked = FALSE
    /\ sent = [p \in Parts |-> 0]
    /\ silent = FALSE
    /\ notified = FALSE
    /\ worker = [w \in Workers |-> Resting(0)]
    /\ used = [receipts |-> 0, crashes |-> 0, torn |-> 0, stalls |-> 0]

\* The platform delivers, or delivers again.  A claim that is held or completed
\* is acknowledged at once.
Receive(w) ==
    /\ worker[w].pc = "idle"
    /\ used.receipts < MaxReceipts
    /\ used' = [used EXCEPT !.receipts = @ + 1]
    /\ IF row = NoClaim
         THEN /\ row' = [token |-> FreshToken, done |-> FALSE]
              /\ worker' = [worker EXCEPT ![w].token = FreshToken,
                              ![w].pc = IF channel = "webhook" THEN "find" ELSE "begin"]
              /\ UNCHANGED acked
         ELSE acked' = TRUE /\ UNCHANGED <<row, worker>>
    /\ UNCHANGED <<channel, lifecycle, slotPending, spool, sent, silent, notified>>

\* ingressSpool.find: an entry left by an earlier owner is taken over.
Find(w) ==
    /\ worker[w].pc = "find"
    /\ IF spool = NoEntry THEN Goto(w, "begin")
         ELSE worker' = [worker EXCEPT ![w].pc = "reassign", ![w].image = spool]
    /\ UNCHANGED <<stores, spool, outside>>

\* reassignOwnership: the read, refused if the generation has changed since.
Reassign(w) ==
    LET me == worker[w]
    IN  /\ me.pc = "reassign"
        /\ IF spool # NoEntry /\ spool.token = me.image.token
             THEN /\ worker' = [worker EXCEPT ![w].pc = "writeReassign",
                        ![w].image = [spool EXCEPT !.token = me.token, !.pid = me.pid]]
                  /\ UNCHANGED <<stores, spool, outside>>
             ELSE Throw(w)

\* Mutant: an entry that was being sent is taken to have been delivered.
Resume_TrustsAttempt(w, state, token) ==
    LET At(path, pc, m, final) ==
          worker' = [worker EXCEPT ![w].path = path, ![w].pc = pc, ![w].mark = m,
                                   ![w].final = final, ![w].token = token]
        me == worker[w]
    IN  CASE state \in {"platform-delivered", "send-attempted"} -> At("resume", "finish", me.mark, "delivered")
          [] state = "unknown-after-send" /\ ~me.recovering -> At("resume", "finish", me.mark, "unknown")
          [] state = "execution-completed" -> At("resume", "toDelivering", me.mark, me.final)
          [] OTHER -> At("run", "run", me.mark, me.final)

\* What a task makes of the entry it now owns: resumeClaimedDurableAdapter, and
\* the branches of recoverIngressSpool, whose last one runs the handler on
\* whatever is left.
Resume(w, state, token) ==
    LET At(path, pc, m, final) ==
          worker' = [worker EXCEPT ![w].path = path, ![w].pc = pc, ![w].mark = m,
                                   ![w].final = final, ![w].token = token]
        me == worker[w]
    IN  CASE state = "platform-delivered" -> At("resume", "finish", me.mark, "delivered")
          [] state = "send-attempted"     -> At("resume", "read", "unknownAfterSend", me.final)
          [] state = "unknown-after-send" /\ ~me.recovering -> At("resume", "finish", me.mark, "unknown")
          [] state = "execution-completed" -> At("resume", "toDelivering", me.mark, me.final)
          [] OTHER -> At("run", "run", me.mark, me.final)

\* The write; a webhook answers 200 before it resumes.
WriteReassign(w) ==
    LET me == worker[w]
    IN  /\ me.pc = "writeReassign"
        /\ spool' = me.image
        /\ acked' = (acked \/ ~me.recovering)
        /\ Resume(w, me.image.state, me.token)
        /\ UNCHANGED <<stores, sent, silent, notified>>

\* Mutant: a transition that throws does not stop the delivery from being spooled.
Begin_SwallowsError(w) ==
    /\ worker[w].pc = "begin"
    /\ IF Returns(w, "running") THEN Transition(w, "running") ELSE UNCHANGED stores
    /\ Goto(w, "put")
    /\ UNCHANGED <<spool, outside>>

\* transition(running) of a delivery with no spool entry to resume.
Begin(w) ==
    /\ worker[w].pc = "begin"
    /\ \/ Transition(w, "running") /\ Goto(w, "put") /\ UNCHANGED <<spool, outside>>
       \/ ~Returns(w, "running") /\ Throw(w)

\* ingressSpool.put and the acknowledgement behind it; put may fail.
Put(w) ==
    LET me == worker[w]
    IN  /\ me.pc = "put"
        /\ \/ /\ spool' = [state |-> "accepted", token |-> me.token, pid |-> me.pid]
              /\ acked' = TRUE
              /\ worker' = [worker EXCEPT ![w].pc = "run", ![w].path = "run"]
           \/ Goto(w, "fail") /\ UNCHANGED <<spool, acked>>
        /\ UNCHANGED <<stores, sent, silent, notified>>

\* The provider and the handler up to its checkpoint: it throws, has nothing to
\* reply, or checkpoints the reply.
Run(w) ==
    /\ worker[w].pc = "run"
    /\ \/ Throw(w)
       \/ ReadMark(w, "platformDelivered") /\ silent' = TRUE
            /\ UNCHANGED <<stores, spool, acked, sent, notified>>
       \/ ReadMark(w, "executionCompleted") /\ UNCHANGED <<stores, spool, outside>>

\* A mark* of the spool: the read, whose assertState may throw, ...
ReadSpool(w) ==
    LET me == worker[w]
    IN  /\ me.pc = "read"
        /\ IF spool # NoEntry /\ spool.state \in MarkFrom(me.mark)
             THEN /\ worker' = [worker EXCEPT ![w].pc = "write",
                                   ![w].image = [spool EXCEPT !.state = MarkTo(me.mark)]]
                  /\ UNCHANGED <<stores, spool, outside>>
             ELSE Throw(w)

\* ... and the write, with what follows it in each hook and catch block.
WriteSpool(w) ==
    LET me == worker[w]
    IN  /\ me.pc = "write"
        /\ spool' = me.image
        /\ worker' = [worker EXCEPT ![w] =
             CASE me.mark = "executionCompleted" -> [@ EXCEPT !.pc = "toGenerated"]
               [] me.mark = "sendAttempted" /\ me.path = "run" ->
                    [@ EXCEPT !.attempted = TRUE, !.pc = "startDelivering"]
               [] me.mark = "sendAttempted" /\ me.path = "resume" ->
                    [@ EXCEPT !.path = "resumeTry", !.part = 1, !.pc = "send"]
               [] me.mark = "platformDelivered" ->
                    [@ EXCEPT !.delivered = TRUE,
                              !.pc = IF me.attempted THEN "setDelivered" ELSE "finish"]
               [] me.mark = "unknownAfterSend" -> [@ EXCEPT !.pc = "finish", !.final = "unknown"]
               [] me.mark = "deliveryRejected" -> [@ EXCEPT !.attempted = FALSE, !.pc = "fail"]]
        /\ UNCHANGED <<stores, outside>>

\* One round of advanceAdapterIngressToGenerated.  readLifecycle compares no
\* generation, so a task that lost its claim passes when the state is right.
AdvanceToGenerated(w) ==
    /\ worker[w].pc = "toGenerated"
    /\ IF row # NoClaim /\ lifecycle.state = "generated"
         THEN ReadMark(w, "sendAttempted") /\ UNCHANGED <<stores, spool, outside>>
       ELSE IF lifecycle.state \notin {"delivering", "delivered", "unknown"} /\ Steps(w, TowardGenerated)
         THEN Transition(w, TowardGenerated) /\ UNCHANGED <<worker, spool, outside>>
       ELSE Throw(w)

\* One round of advanceAdapterIngressToDelivering before a resumed send.
AdvanceToDelivering(w) ==
    /\ worker[w].pc = "toDelivering"
    /\ IF row # NoClaim /\ lifecycle.state = "delivering"
         THEN ReadMark(w, "sendAttempted") /\ UNCHANGED <<stores, spool, outside>>
       ELSE IF lifecycle.state \notin Terminal /\ Steps(w, TowardDelivering)
         THEN Transition(w, TowardDelivering) /\ UNCHANGED <<worker, spool, outside>>
       ELSE Throw(w)

\* begin(): transition(delivering) behind the send-attempted mark.
StartDelivering(w) ==
    /\ worker[w].pc = "startDelivering"
    /\ \/ Transition(w, "delivering") /\ Goto(w, "send") /\ UNCHANGED <<spool, outside>>
       \/ ~Returns(w, "delivering") /\ Throw(w)

\* One message of the reply: accepted, definitively rejected, or interrupted,
\* when nobody knows whether the platform has it.
SendPart(w) ==
    LET me == worker[w]
        delivered == [sent EXCEPT ![me.part] = @ + 1]
    IN  /\ me.pc = "send"
        /\ \/ /\ sent' = delivered
              /\ worker' = [worker EXCEPT ![w] =
                   IF me.part + 1 \in Parts THEN [me EXCEPT !.part = me.part + 1]
                   ELSE [me EXCEPT !.pc = "read", !.mark = "platformDelivered"]]
              /\ UNCHANGED notified
           \/ UNCHANGED sent /\ Catch(w, TRUE)
           \/ sent' \in {sent, delivered} /\ Catch(w, FALSE)
        /\ UNCHANGED <<stores, spool, acked, silent>>

\* delivered(): transition(delivered); what the handler does behind it, the
\* artifacts of a draft, may still throw.
SetDelivered(w) ==
    /\ worker[w].pc = "setDelivered"
    /\ \/ /\ Transition(w, "delivered")
          /\ \/ Finish(w, "delivered") /\ UNCHANGED notified
             \/ Catch(w, FALSE)
          /\ UNCHANGED <<spool, acked, sent, silent>>
       \/ ~Returns(w, "delivered") /\ Throw(w)

\* One round of completeAdapterIngress, its last one with ingress.complete().
CompleteAdapterIngress(w) ==
    LET me == worker[w]
    IN  /\ me.pc = "finish"
        /\ IF lifecycle.state = me.final /\ OwnsClaim(w)
             THEN /\ row' = [row EXCEPT !.done = TRUE]
                  /\ IF me.final = "delivered" THEN Goto(w, "remove") /\ UNCHANGED notified
                                               ELSE EndQuietly(w)
                  /\ UNCHANGED <<lifecycle, slotPending, spool, acked, sent, silent>>
           ELSE IF lifecycle.state \notin Terminal /\ Steps(w, Target(w))
             THEN Transition(w, Target(w)) /\ UNCHANGED <<worker, spool, outside>>
           ELSE Throw(w)

\* spool.remove.  The lease timer may fire while the unlink is under way; it
\* finds the claim completed, and withIngressLease turns that into an error.
RemoveEntry(w) ==
    /\ worker[w].pc = "remove"
    /\ spool' = NoEntry
    /\ EndQuietly(w) \/ EndWithError(w)
    /\ UNCHANGED <<stores, acked, sent, silent>>

\* What follows ingress.fail(), which every caller but rejectDelivery swallows.
AfterFail(w) ==
    LET me == worker[w]
    IN  IF me.recovering /\ me.path = "intake"
          THEN Goto(w, "reclaim") /\ UNCHANGED notified
        ELSE IF me.recovering /\ me.path = "run"
          THEN worker' = [worker EXCEPT ![w] = Resting(@.pid)] /\ notified' = TRUE
        ELSE EndWithError(w)

Fail(w) ==
    /\ worker[w].pc = "fail"
    /\ \/ Transition(w, "failed") /\ Goto(w, "release") /\ UNCHANGED notified
       \/ ~Returns(w, "failed") /\ UNCHANGED stores /\ AfterFail(w)
    /\ UNCHANGED <<spool, acked, sent, silent>>

Release(w) ==
    /\ worker[w].pc = "release"
    /\ row' = IF OwnsClaim(w) /\ ~row.done THEN NoClaim ELSE row
    /\ AfterFail(w)
    /\ UNCHANGED <<lifecycle, slotPending, spool, acked, sent, silent>>
--------------------------------------------------------------------------------
(* Processes, leases and recovery. *)

FreePids ==
    {pid \in Pids : (\A w \in Workers : worker[w].pid # pid)
                      /\ (ReusesPids \/ spool = NoEntry \/ spool.pid # pid)}

\* A process starts: recoverIngressSpool takes its snapshot of the spool.
Start(w) ==
    /\ worker[w].pc = "down"
    /\ \E pid \in FreePids :
         worker' = [worker EXCEPT ![w] =
           IF spool = NoEntry \/ spool.state = "unknown-after-send" THEN Resting(pid)
           ELSE [Resting(pid) EXCEPT !.pc = "recover", !.recovering = TRUE, !.image = spool]]
    /\ UNCHANGED <<stores, spool, outside>>

\* Mutant: the signal's error code is not recognised.
OwnerIsDead_Never(w) == FALSE

\* spoolOwnerIsDeadOnThisHost: an owner with this process's own pid passes for alive.
OwnerIsDead(w) ==
    LET owner == worker[w].image.pid
    IN  owner # worker[w].pid /\ \A v \in Workers : worker[v].pid # owner

\* The claim of recovery and what its outcome leads to.
Recover(w) ==
    LET me == worker[w]
        entry == me.image
    IN  /\ me.pc = "recover"
        /\ IF row = NoClaim
             THEN /\ row' = [token |-> FreshToken, done |-> FALSE]
                  /\ worker' = [worker EXCEPT ![w].token = FreshToken, ![w].pc = "reassign"]
           ELSE /\ UNCHANGED row
                /\ CASE row.done -> IF entry.state = "platform-delivered" THEN Goto(w, "remove")
                                    ELSE worker' = [worker EXCEPT ![w] = Resting(@.pid)]
                     [] ~row.done /\ ~OwnerIsDead(w) -> worker' = [worker EXCEPT ![w] = Resting(@.pid)]
                     [] ~row.done /\ OwnerIsDead(w) ->
                          IF entry.state \in {"platform-delivered", "send-attempted"}
                            THEN Resume(w, entry.state, entry.token)
                            ELSE worker' = [worker EXCEPT ![w].token = entry.token, ![w].pc = "fail"]
        /\ UNCHANGED <<lifecycle, slotPending, spool, outside>>

\* The second claim, after a dead owner's was failed.
Reclaim(w) ==
    /\ worker[w].pc = "reclaim"
    /\ IF row = NoClaim
         THEN /\ row' = [token |-> FreshToken, done |-> FALSE]
              /\ worker' = [worker EXCEPT ![w].token = FreshToken, ![w].pc = "reassign"]
         ELSE worker' = [worker EXCEPT ![w] = Resting(@.pid)] /\ UNCHANGED row
    /\ UNCHANGED <<lifecycle, slotPending, spool, outside>>

\* Some combination of faults has room for these.
Explored(count) == \E bound \in Faults : \A kind \in DOMAIN bound : count[kind] <= bound[kind]

Crash(w) ==
    /\ worker[w].pc # "down"
    /\ \/ UNCHANGED slotPending /\ used' = [used EXCEPT !.crashes = @ + 1]
       \/ /\ worker[w].pc \in {"begin", "toGenerated", "toDelivering", "startDelivering",
                               "setDelivered", "finish", "fail"}
          /\ Steps(w, Target(w))
          /\ slotPending' = TRUE
          /\ used' = [used EXCEPT !.crashes = @ + 1, !.torn = @ + 1]
    /\ Explored(used')
    /\ worker' = [worker EXCEPT ![w] = Resting(0)]
    /\ UNCHANGED <<channel, row, lifecycle, spool, outside>>

\* The claim's lease ends.  The lease timer keeps that from a task at work,
\* unless its process is held up for as long as the lease.
LeaseLapses ==
    /\ row # NoClaim /\ ~row.done
    /\ IF \E w \in Workers : AtWork(w) /\ OwnsClaim(w)
         THEN used' = [used EXCEPT !.stalls = @ + 1] /\ Explored(used')
         ELSE UNCHANGED used
    /\ row' = NoClaim
    /\ slotPending' = FALSE
    /\ UNCHANGED <<channel, lifecycle, spool, outside, worker>>

\* A dead worker's slot claim ends with the lease it was taken under.
SlotLapses ==
    /\ slotPending
    /\ slotPending' = FALSE
    /\ UNCHANGED <<channel, row, lifecycle, spool, outside, worker, used>>

Task(w) ==
    /\ \/ Find(w) \/ Reassign(w) \/ WriteReassign(w) \/ Begin(w) \/ Put(w) \/ Run(w)
       \/ ReadSpool(w) \/ WriteSpool(w) \/ AdvanceToGenerated(w) \/ AdvanceToDelivering(w)
       \/ StartDelivering(w) \/ SendPart(w) \/ SetDelivered(w) \/ CompleteAdapterIngress(w)
       \/ RemoveEntry(w) \/ Fail(w) \/ Release(w) \/ Start(w) \/ Recover(w) \/ Reclaim(w)
    /\ UNCHANGED <<channel, used>>

Next ==
    \/ LeaseLapses \/ SlotLapses
    \/ \E w \in Workers : Receive(w) \/ Task(w) \/ Crash(w)

Spec == Init /\ [][Next]_vars

Fairness ==
    /\ WF_vars(LeaseLapses)
    /\ WF_vars(SlotLapses)
    /\ \A w \in Workers : WF_vars(Task(w))

FairSpec == Spec /\ Fairness
--------------------------------------------------------------------------------
TypeOK ==
    /\ channel \in Channels
    /\ row \in [token : Nat, done : BOOLEAN] \cup {NoClaim}
    /\ lifecycle \in Lifecycle
    /\ slotPending \in BOOLEAN
    /\ spool \in Entry \cup {NoEntry}
    /\ sent \in [Parts -> Nat]
    /\ {acked, silent, notified} \subseteq BOOLEAN
    /\ worker \in [Workers -> Worker]
    /\ used \in [receipts : 0 .. MaxReceipts, crashes : Nat, torn : Nat, stalls : Nat]

WasSent == \A p \in Parts : sent[p] > 0

\* The polling and socket loops put a fresh spool entry without looking for an
\* old one: they rely on the lifecycle to refuse a reply that may be under way,
\* and a worker that dies in the middle of a transition takes that record along.
SendsAreOnRecord == channel = "webhook" \/ used.torn = 0

\* The spool is not fenced by the claim: a worker that was held up past its lease
\* between its last check and its write or send goes on with it.
NobodyStalled == used.stalls = 0

\* No message of a reply reaches the user twice, whatever crashes, restarts,
\* recoveries and redeliveries come between (ingress-spool.ts states,
\* deliverPreparedAdapter and the catch blocks around every send).
NoPartSentTwice == NobodyStalled /\ SendsAreOnRecord => \A p \in Parts : sent[p] <= 1

\* What is recorded is true, also behind a stall: delivered means that the
\* platform has accepted the whole reply, or the handler had none; and a
\* completed claim, which answers every redelivery for seven days, stands for a
\* delivery whose outcome is recorded (completeAdapterIngress).
DeliveredIsTrue ==
    /\ lifecycle.state = "delivered" => WasSent \/ silent
    /\ row # NoClaim => (row.done => lifecycle.state \in Terminal)

\* The spool file and the lifecycle, written by different calls with crashes
\* between them, never contradict each other: delivered means sent, an attempt
\* is behind a generated output, and a terminal delivery is not left resumable.
StoresAgree ==
    NobodyStalled /\ spool # NoEntry =>
      /\ spool.state = "platform-delivered" => WasSent \/ silent
      /\ spool.state = "send-attempted" =>
           lifecycle.lastOperationalState \in {"generated", "delivering"}
      /\ lifecycle.state \in Terminal =>
           spool.state \in {"platform-delivered", "unknown-after-send"}

\* What is on record in the three stores is true of the platform and of each
\* other, whichever of them a crash left behind.
RecordsAreTrue == DeliveredIsTrue /\ StoresAgree

\* Evidence that a send was under way is never overwritten by a fresh entry: a
\* redelivery that reaches put() found nothing being sent.  On the webhook route,
\* which looks first, not even a checkpointed reply is discarded for a new
\* provider run, redelivered or recovered (put, find and reassignOwnership).
EvidenceKept ==
    [][(/\ NobodyStalled
        /\ spool # NoEntry /\ spool' # NoEntry /\ spool.state # "accepted"
        /\ \/ channel = "webhook"
           \/ SendsAreOnRecord /\ spool.state # "execution-completed" /\ ~silent)
         => spool'.state # "accepted"]_vars

\* A task whose claim was taken over while it was held up changes neither the
\* claim nor the lifecycle any more (assertOwnership in every ingress call).
StaleOwnerFenced ==
    [][\A w \in Workers :
         AtWork(w) /\ worker'[w] # worker[w] /\ row # NoClaim /\ row.token # worker[w].token
           => row' = row /\ lifecycle' = lifecycle]_vars

\* A spooled delivery that a crash interrupts is decided after the restart:
\* failed, delivered, unknown, or left to the operator (recoverIngressSpool).
Decided ==
    \/ lifecycle.state \in {"failed", "delivered", "unknown"}
    \/ spool # NoEntry /\ spool.state = "unknown-after-send"

InterruptedIsDecided == spool # NoEntry ~> Decided

\* The user is told that a request "failed before completion" and that "nothing
\* is being claimed as complete" only when the reply has not been delivered
\* (notifyBackgroundFailure).
FailureNoticeIsTrue == [][~notified /\ notified' => ~WasSent']_vars

\* A payload the platform was told to forget is in the write-ahead spool, or
\* settled, once nobody is working on it ("Local write-ahead spool for channel
\* payloads acknowledged before provider work").
AckedIsKept ==
    acked /\ (\A w \in Workers : ~AtWork(w)) => spool # NoEntry \/ lifecycle.state \in Terminal
================================================================================
