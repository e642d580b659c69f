-------------------------- MODULE ApprovalStore_proofs --------------------------
(***************************************************************************)
(* Proofs about ApprovalStore for any number of actions, executions,       *)
(* gateways and crashes: its type invariant, that an action is carried out *)
(* at most once while its lease never ran out, and that decisions and      *)
(* outcomes stand.                                                         *)
(***************************************************************************)
EXTENDS ApprovalStore, TLAPS

\* Nobody owns or has decided an action that was not pressed.
Rows ==
    \A id \in Ids : action[id].state \in {"absent", "available"} =>
        action[id].owner = Nobody /\ action[id].decision = "none"

\* What a call that runs has in hand.
Hands ==
    \A c \in Calls :
        /\ call[c].phase \in {"verified", "executing", "applied", "refused"}
             => call[c].id \in Ids
        /\ call[c].phase = "verified" => call[c].batch = {}
        /\ call[c].id \notin call[c].batch

\* While the lease never ran out, the row names the call that executes the
\* action and the call that carried it out.
Holders ==
    \A id \in Ids \ lost, c \in Calls :
        /\ Executes(c, id) => action[id].owner = c /\ action[id].state = "pending"
        /\ c \in applied[id] => action[id].owner = c

IInv == ApprovalTypeOK /\ Rows /\ lapsed \subseteq lost /\ Hands /\ Holders

\* The initial state satisfies the inductive invariant.
LEMMA InitIInv == ApprovalInit => IInv
  BY ApprovalAssumption
  DEF ApprovalInit, Started, IInv, ApprovalTypeOK, Rows, Hands, Holders, Executes, Absent, Unused,
      ApprovalRow, Call,
      Phases, Settled, Decisions, Calls

\* What becomes of a call that goes on: only its own entry changes, and it
\* executes nothing it did not have in its batch.
LEMMA ProceedFacts ==
  ASSUME IInv, NEW c \in Calls, Proceed(c),
         call[c].phase \in {"verified", "applied", "refused"}
  PROVE  /\ call' \in [Calls -> Call]
         /\ Hands'
         /\ \A d \in Calls, id \in Ids : Executes(d, id)' =>
               Executes(d, id) /\ ~(d = c /\ id = call[c].id)
<1>1. call \in [Calls -> Call] BY DEF IInv, ApprovalTypeOK
<1>2. CASE call[c].batch = {}
  <2>1. call' = [call EXCEPT ![c].phase = "done", ![c].id = NoId]
    BY <1>2 DEF Proceed
  <2>2. call' \in [Calls -> Call]
    BY <1>1, <2>1 DEF Call, Phases
  <2>3. Hands'
    BY <1>1, <1>2, <2>1, ApprovalAssumption DEF IInv, Hands, Call
  <2>4. \A d \in Calls, id \in Ids : Executes(d, id)' => d # c /\ Executes(d, id)
    BY <1>1, <2>1 DEF Executes
  <2> QED BY <2>2, <2>3, <2>4
<1>3. CASE call[c].batch # {}
  <2>1. PICK next \in call[c].batch :
          call' = [call EXCEPT ![c].phase = "executing", ![c].id = next,
                               ![c].batch = @ \ {next}]
    BY <1>3 DEF Proceed
  <2>2. next \in Ids /\ next # call[c].id
    BY <1>1, <2>1 DEF Call, IInv, Hands
  <2>3. call[c].phase \in {"applied", "refused"}
    BY <1>3 DEF IInv, Hands
  <2>4. call' \in [Calls -> Call]
    BY <1>1, <2>1, <2>2 DEF Call, Phases
  <2>5. Hands'
    BY <1>1, <2>1, <2>2 DEF IInv, Hands, Call
  <2>6. \A d \in Calls, id \in Ids : Executes(d, id)' =>
           Executes(d, id) /\ ~(d = c /\ id = call[c].id)
    BY <1>1, <2>1, <2>2, <2>3 DEF Executes, IInv, Hands, Call
  <2> QED BY <2>4, <2>5, <2>6
<1> QED BY <1>2, <1>3

\* A step that leaves the rows, leases, calls and histories of executing and
\* applied calls alone preserves the invariant; each action is one step below.
LEMMA NextIInv == IInv /\ [ApprovalNext]_approvalVars => IInv'
<1> SUFFICES ASSUME IInv, [ApprovalNext]_approvalVars PROVE IInv'
  OBVIOUS
<1> USE ApprovalAssumption
<1>1. ASSUME NEW id \in Ids, Issue(id) PROVE IInv'
  BY <1>1 DEF Issue, IInv, ApprovalTypeOK, Rows, Hands, Holders, Executes, ApprovalRow, Absent
<1>2. ASSUME NEW id \in Ids, LeaseEnds(id) PROVE IInv'
  BY <1>2 DEF LeaseEnds, IInv, ApprovalTypeOK, Rows, Hands, Holders, Executes
<1>3. ASSUME NEW id \in Ids, TokenExpires(id) PROVE IInv'
  BY <1>3 DEF TokenExpires, IInv, ApprovalTypeOK, Rows, Hands, Holders, Executes
<1>4. ASSUME NEW c \in Presses, NEW g \in Gateways, NEW id \in Ids,
             NEW d \in Decisions, Press(c, g, id, d)
      PROVE  IInv'
  <2>1. c \in Calls BY DEF Calls
  <2>2. ApprovalTypeOK'
    BY <1>4, <2>1 DEF Press, IInv, ApprovalTypeOK, Verified, Call, Phases, ApprovalRow
  <2>3. Hands' BY <1>4, <2>1 DEF Press, IInv, ApprovalTypeOK, Hands, Verified
  <2>4. Rows' BY <1>4 DEF Press, IInv, ApprovalTypeOK, Rows
  <2>5. \A e \in Calls, i \in Ids : Executes(e, i)' => Executes(e, i)
    BY <1>4, <2>1 DEF Press, IInv, ApprovalTypeOK, Executes, Verified
  <2>6. \A i \in Ids : i # id => action'[i] = action[i]
    BY <1>4 DEF Press, IInv, ApprovalTypeOK
  <2>7. action[id].owner = Nobody /\ action[id].state # "pending"
    BY <1>4 DEF Press, IInv, Rows
  <2>8. Holders'
    BY <1>4, <2>5, <2>6, <2>7 DEF Press, IInv, Holders, Calls
  <2> QED BY <1>4, <2>2, <2>3, <2>4, <2>8 DEF Press, IInv
<1>5. ASSUME NEW c \in Presses, ClaimExecution(c) PROVE IInv'
  <2>1. c \in Calls /\ call[c].id \in Ids BY <1>5 DEF Calls, ClaimExecution, IInv, Hands
  <2> DEFINE id == call[c].id
  <2>2. CASE Claimable(id)
    <3>1. /\ action' = [action EXCEPT ![id].owner = c]
          /\ lapsed' = lapsed \ {id}
          /\ call' = [call EXCEPT ![c].phase = "executing"]
          /\ UNCHANGED <<stale, gateway, crashes, applied, lost>>
      BY <1>5, <2>2 DEF ClaimExecution
    <3>2. ApprovalTypeOK'
      <4>1. action' \in [Ids -> ApprovalRow] BY <2>1, <3>1 DEF IInv, ApprovalTypeOK, ApprovalRow
      <4>2. call' \in [Calls -> Call] BY <2>1, <3>1 DEF IInv, ApprovalTypeOK, Call, Phases
      <4> QED BY <3>1, <4>1, <4>2 DEF IInv, ApprovalTypeOK
    <3>3. Rows' BY <2>1, <2>2, <3>1 DEF IInv, ApprovalTypeOK, Rows, Claimable, ApprovalRow
    <3>4. Hands' BY <2>1, <3>1 DEF IInv, ApprovalTypeOK, Hands
    <3>5. \A d \in Calls, i \in Ids :
             Executes(d, i)' => Executes(d, i) \/ (d = c /\ i = id)
      BY <1>5, <2>1, <3>1 DEF IInv, ApprovalTypeOK, Hands, Executes, ClaimExecution
    <3>6. id \in lost \/ action[id].owner = Nobody
      BY <2>2 DEF Claimable, IInv
    <3>7. Holders'
      BY <2>1, <2>2, <3>1, <3>5, <3>6 DEF IInv, ApprovalTypeOK, Holders, Claimable, ApprovalRow
    <3> QED BY <3>1, <3>2, <3>3, <3>4, <3>7 DEF IInv
  <2>3. CASE ~Claimable(id)
    <3>1. Proceed(c) /\ UNCHANGED <<action, lapsed, stale, gateway, crashes, applied, lost>>
      BY <1>5, <2>3 DEF ClaimExecution
    <3>2. call[c].phase = "verified" BY <1>5 DEF ClaimExecution
    <3> QED BY <2>1, <3>1, <3>2, ProceedFacts DEF IInv, ApprovalTypeOK, Rows, Holders
  <2> QED BY <2>2, <2>3
<1>6. ASSUME NEW c \in Rounds, NEW g \in Servers, ClaimPending(c, g) PROVE IInv'
  <2>g. g \in Gateways BY DEF Gateways
  <2> DEFINE taken == {i \in Ids : Claimable(i)}
  <2>1. c \in Calls BY DEF Calls
  <2>2. PICK id \in taken :
          call' = [call EXCEPT ![c] = [phase |-> "executing", on |-> g,
                                       id |-> id, batch |-> taken \ {id}]]
    BY <1>6 DEF ClaimPending
  <2>3. /\ action' = [i \in Ids |-> IF i \in taken THEN [action[i] EXCEPT !.owner = c]
                                             ELSE action[i]]
        /\ lapsed' = lapsed \ taken
        /\ UNCHANGED <<stale, gateway, crashes, applied, lost>>
    BY <1>6 DEF ClaimPending
  <2>4. ApprovalTypeOK' BY <2>g, <2>1, <2>2, <2>3 DEF IInv, ApprovalTypeOK, Call, Phases, ApprovalRow
  <2>5. Rows' BY <2>3 DEF IInv, ApprovalTypeOK, Rows, Claimable, ApprovalRow
  <2>6. Hands' BY <2>1, <2>2 DEF IInv, ApprovalTypeOK, Hands
  <2>7. \A d \in Calls, i \in Ids :
           Executes(d, i)' => Executes(d, i) \/ (d = c /\ i \in taken)
    BY <2>1, <2>2 DEF IInv, ApprovalTypeOK, Executes
  <2>8. \A i \in taken : action[i].state = "pending" /\ (i \in lost \/ action[i].owner = Nobody)
    BY DEF Claimable, IInv
  <2>9. \A d \in Calls : d # c /\ (\E i \in Ids : Executes(d, i)') => call'[d] = call[d]
    BY <2>1, <2>2 DEF IInv, ApprovalTypeOK
  <2>10. Holders'
    <3> SUFFICES ASSUME NEW i \in Ids \ lost, NEW d \in Calls
                 PROVE  /\ Executes(d, i)' => action'[i].owner = d /\ action'[i].state = "pending"
                        /\ d \in applied[i] => action'[i].owner = d
      BY <2>3 DEF Holders
    <3>1. CASE i \in taken
      <4>1. ~Executes(d, i) /\ d \notin applied[i]
        BY <2>8, <3>1 DEF IInv, Holders
      <4>2. action'[i].owner = c /\ action'[i].state = "pending"
        BY <2>3, <2>8, <3>1 DEF IInv, ApprovalTypeOK, ApprovalRow
      <4> QED BY <2>7, <4>1, <4>2
    <3>2. CASE i \notin taken
      <4>1. action'[i] = action[i] BY <2>3, <3>2
      <4> QED BY <2>7, <3>2, <4>1 DEF IInv, Holders
    <3> QED BY <3>1, <3>2
  <2> QED BY <2>3, <2>4, <2>5, <2>6, <2>10 DEF IInv
<1>7. ASSUME NEW c \in Calls, Apply(c) PROVE IInv'
  <2>1. call[c].id \in Ids BY <1>7 DEF Apply, IInv, Hands
  <2>2. PICK p \in {"applied", "refused"} : call' = [call EXCEPT ![c].phase = p]
    BY <1>7 DEF Apply
  <2>3. ApprovalTypeOK' BY <1>7, <2>1, <2>2 DEF Apply, IInv, ApprovalTypeOK, Call, Phases
  <2>4. Hands' BY <1>7, <2>1, <2>2 DEF Apply, IInv, ApprovalTypeOK, Hands
  <2>5. \A d \in Calls, i \in Ids : Executes(d, i)' => Executes(d, i)
    BY <1>7, <2>2 DEF Apply, IInv, ApprovalTypeOK, Executes
  <2>6. Executes(c, call[c].id) BY <1>7 DEF Apply, Executes
  <2>7. Holders'
    BY <1>7, <2>1, <2>5, <2>6 DEF Apply, IInv, ApprovalTypeOK, Holders
  <2> QED BY <1>7, <2>3, <2>4, <2>7 DEF Apply, IInv, Rows
<1>8. ASSUME NEW c \in Calls, Refuse(c) PROVE IInv'
  <2>1. ApprovalTypeOK' BY <1>8 DEF Refuse, IInv, ApprovalTypeOK, Call, Phases
  <2>2. Hands' BY <1>8 DEF Refuse, IInv, ApprovalTypeOK, Hands
  <2>3. \A d \in Calls, i \in Ids : Executes(d, i)' => Executes(d, i)
    BY <1>8 DEF Refuse, IInv, ApprovalTypeOK, Executes
  <2> QED BY <1>8, <2>1, <2>2, <2>3 DEF Refuse, IInv, Rows, Holders
<1>9. ASSUME NEW c \in Calls, MarkExecution(c) PROVE IInv'
  <2>1. call[c].id \in Ids BY <1>9 DEF MarkExecution, IInv, Hands
  <2> DEFINE id == call[c].id
  <2>2. /\ Proceed(c)
        /\ action' = IF action[id].state = "pending" /\ action[id].owner = c
                  THEN [action EXCEPT ![id].state = Outcome(c)] ELSE action
        /\ UNCHANGED <<lapsed, stale, gateway, crashes, applied, lost>>
    BY <1>9 DEF MarkExecution
  <2>3. /\ call' \in [Calls -> Call]
        /\ Hands'
        /\ \A d \in Calls, i \in Ids : Executes(d, i)' =>
              Executes(d, i) /\ ~(d = c /\ i = id)
    BY <1>9, <2>2, ProceedFacts DEF MarkExecution
  <2>4. Outcome(c) \in Settled BY DEF Outcome, Settled
  <2>5. ApprovalTypeOK' BY <2>1, <2>2, <2>3, <2>4 DEF IInv, ApprovalTypeOK, ApprovalRow
  <2>6. Rows' BY <2>1, <2>2, <2>4 DEF IInv, ApprovalTypeOK, Rows, ApprovalRow, Settled
  <2>7. \A i \in Ids : /\ action'[i].owner = action[i].owner
                       /\ action'[i].state = action[i].state \/ (i = id /\ action[i].owner = c)
    BY <2>1, <2>2 DEF IInv, ApprovalTypeOK, ApprovalRow
  <2>8. Holders' BY <2>2, <2>3, <2>7 DEF IInv, Holders
  <2> QED BY <2>2, <2>3, <2>5, <2>6, <2>8 DEF IInv
<1>10. ASSUME NEW g \in Gateways, Listen(g) PROVE IInv'
  BY <1>10 DEF Listen, IInv, ApprovalTypeOK, Rows, Hands, Holders, Executes
<1>11. ASSUME NEW g \in Gateways, ProcessDies(g) PROVE IInv'
  <2> DEFINE Stopped(d) == [call[d] EXCEPT !.phase = "done", !.id = NoId, !.batch = {}]
  <2>a. call' = [d \in Calls |-> IF call[d].on = g THEN Stopped(d) ELSE call[d]]
    BY <1>11 DEF ProcessDies
  <2>b. ASSUME NEW d \in Calls
        PROVE  /\ Stopped(d) \in Call
               /\ Stopped(d).phase = "done" /\ Stopped(d).id = NoId /\ Stopped(d).batch = {}
    BY DEF IInv, ApprovalTypeOK, Call, Phases
  <2>c. \A d \in Calls :
          \/ call'[d] = call[d]
          \/ call'[d].phase = "done" /\ call'[d].id = NoId /\ call'[d].batch = {}
    BY <2>a, <2>b
  <2>d. call' \in [Calls -> Call]
    BY <2>a, <2>b DEF IInv, ApprovalTypeOK
  <2>e. crashes' \in 0 .. MaxCrashes
    <3>1. crashes' = crashes + 1 /\ crashes < MaxCrashes
      BY <1>11 DEF ProcessDies
    <3>2. crashes \in 0 .. MaxCrashes
      BY DEF IInv, ApprovalTypeOK
    <3>3. MaxCrashes \in Nat
      BY DEF ApprovalAssumption
    <3> QED BY <3>1, <3>2, <3>3
  <2>1. ApprovalTypeOK' BY <1>11, <2>d, <2>e DEF ProcessDies, IInv, ApprovalTypeOK
  <2>2. Hands' BY <2>c DEF IInv, Hands
  <2>3. ASSUME NEW d \in Calls, NEW i \in Ids, Executes(d, i)' PROVE Executes(d, i)
    <3>1. call'[d].phase # "done" BY <2>3 DEF Executes
    <3>2. call'[d] = call[d] BY <2>c, <3>1
    <3> QED BY <2>3, <3>2 DEF Executes
  <2> QED BY <1>11, <2>1, <2>2, <2>3 DEF ProcessDies, IInv, Rows, Holders
<1>12. ASSUME NEW g \in Gateways, Restart(g) PROVE IInv'
  BY <1>12 DEF Restart, Started, IInv, ApprovalTypeOK, Rows, Hands, Holders, Executes
<1>13. CASE UNCHANGED approvalVars
  BY <1>13 DEF approvalVars, IInv, ApprovalTypeOK, Rows, Hands, Holders, Executes
<1> QED
  BY <1>1, <1>2, <1>3, <1>4, <1>5, <1>6, <1>7, <1>8, <1>9, <1>10, <1>11, <1>12, <1>13
  DEF ApprovalNext

\* The inductive invariant holds throughout.
LEMMA Invariance == ApprovalSpec => []IInv
  BY InitIInv, NextIInv, PTL DEF ApprovalSpec

\* Type correctness of the store and its callers.
THEOREM TypeCorrect == ApprovalSpec => []ApprovalTypeOK
<1>1. IInv => ApprovalTypeOK BY DEF IInv
<1> QED BY <1>1, Invariance, PTL

\* One-shot: without a lease that ran out, no two calls carry out one action,
\* however presses, recovery rounds and crashes interleave.
THEOREM OneShot == ApprovalSpec => []AppliedOnce
<1>1. IInv => AppliedOnce BY DEF IInv, Holders, AppliedOnce
<1> QED BY <1>1, Invariance, PTL

\* Only the owner's own outcome settles a row.
THEOREM OnlyOwnerSettles == ApprovalSpec => OwnerSettles
<1> DEFINE A == \A id \in Ids :
         action[id].state = "pending" /\ action'[id].state # "pending" =>
            /\ action[id].owner \in Calls
            /\ call[action[id].owner].id = id
            /\ action'[id].state = Outcome(action[id].owner)
<1>1. IInv /\ [ApprovalNext]_approvalVars => A
  <2> SUFFICES ASSUME IInv, [ApprovalNext]_approvalVars, NEW i \in Ids,
                      action[i].state = "pending", action'[i].state # "pending"
               PROVE  /\ action[i].owner \in Calls
                      /\ call[action[i].owner].id = i
                      /\ action'[i].state = Outcome(action[i].owner)
    OBVIOUS
  <2>1. ASSUME NEW id \in Ids, Issue(id) PROVE FALSE
    BY <2>1 DEF Issue, IInv, ApprovalTypeOK, Absent
  <2>2. ASSUME NEW c \in Presses, NEW g \in Gateways, NEW id \in Ids,
               NEW d \in Decisions, Press(c, g, id, d)
        PROVE FALSE
    BY <2>2 DEF Press, IInv, ApprovalTypeOK
  <2>3. ASSUME NEW c \in Presses, ClaimExecution(c) PROVE FALSE
    BY <2>3 DEF ClaimExecution, Claimable, IInv, ApprovalTypeOK, ApprovalRow
  <2>4. ASSUME NEW c \in Rounds, NEW g \in Servers, ClaimPending(c, g) PROVE FALSE
    BY <2>4 DEF ClaimPending, Claimable, IInv, ApprovalTypeOK, ApprovalRow
  <2>5. ASSUME UNCHANGED action PROVE FALSE
    BY <2>5
  <2>6. PICK c \in Calls : MarkExecution(c)
    BY <2>1, <2>2, <2>3, <2>4, <2>5
    DEF ApprovalNext, approvalVars, LeaseEnds, TokenExpires, Apply, Refuse, Listen, ProcessDies, Restart
  <2> QED BY <2>6 DEF MarkExecution, IInv, ApprovalTypeOK, ApprovalRow
<1>2. IInv /\ [ApprovalNext]_approvalVars => [A]_approvalVars
  BY <1>1
<1> QED BY <1>2, Invariance, PTL DEF ApprovalSpec, OwnerSettles

\* The first press stands, and a settled action is never opened again.
THEOREM FirstPressStands == ApprovalSpec => DecisionStands
<1> DEFINE A == \A id \in Ids :
         /\ action[id].decision # "none" => action'[id].decision = action[id].decision
         /\ action[id].state \in Settled => action'[id] = action[id]
<1>1. IInv /\ [ApprovalNext]_approvalVars => A
  <2> SUFFICES ASSUME IInv, [ApprovalNext]_approvalVars, NEW i \in Ids
               PROVE  /\ action[i].decision # "none" => action'[i].decision = action[i].decision
                      /\ action[i].state \in Settled => action'[i] = action[i]
    OBVIOUS
  <2>1. ASSUME NEW id \in Ids, Issue(id) PROVE A
    BY <2>1 DEF Issue, IInv, ApprovalTypeOK, Absent, ApprovalRow, Settled
  <2>2. ASSUME NEW c \in Presses, NEW g \in Gateways, NEW id \in Ids,
               NEW d \in Decisions, Press(c, g, id, d)
        PROVE A
    BY <2>2 DEF Press, IInv, ApprovalTypeOK, Rows, ApprovalRow, Settled
  <2>3. ASSUME NEW c \in Presses, ClaimExecution(c) PROVE A
    BY <2>3 DEF ClaimExecution, Claimable, IInv, ApprovalTypeOK, ApprovalRow, Settled
  <2>4. ASSUME NEW c \in Rounds, NEW g \in Servers, ClaimPending(c, g) PROVE A
    BY <2>4 DEF ClaimPending, Claimable, IInv, ApprovalTypeOK, ApprovalRow, Settled
  <2>5. ASSUME NEW c \in Calls, MarkExecution(c) PROVE A
    BY <2>5 DEF MarkExecution, IInv, ApprovalTypeOK, ApprovalRow, Settled
  <2>6. ASSUME UNCHANGED action PROVE A
    BY <2>6
  <2> QED
    BY <2>1, <2>2, <2>3, <2>4, <2>5, <2>6
    DEF ApprovalNext, approvalVars, LeaseEnds, TokenExpires, Apply, Refuse, Listen, ProcessDies, Restart
<1>2. IInv /\ [ApprovalNext]_approvalVars => [A]_approvalVars
  BY <1>1
<1> QED BY <1>2, Invariance, PTL DEF ApprovalSpec, DecisionStands
================================================================================
