------------------------------ MODULE Engines_proofs ------------------------------
(* Proofs about the engines that the command line runs, each over a file of its  *)
(* own: the schedules (Schedules), the flow runs (FlowRuns), the subagents       *)
(* (Subagents) and the pulses (Pulses), for any jobs, any flow, any children,    *)
(* any pulses and costs, any number of processes and any bound on crashes.       *)
EXTENDS Pulses, FlowRuns, Subagents, WellFoundedInduction, SequenceTheorems,
        FiniteSetTheorems, TLAPS

\* A set of numbers that is not empty has a least one.
LEMMA LeastNumber ==
    ASSUME NEW S \in SUBSET Nat, S # {}
    PROVE  Min(S) \in S /\ \A n \in S : Min(S) <= n
<1> DEFINE R == {pair \in Nat \X Nat : pair[1] < pair[2]}
<1>1. IsWellFoundedOn(R, Nat)
  BY NatLessThanWellFounded DEF OpToRel
<1>2. PICK x \in S : \A y \in S : ~(<<y, x>> \in R)
  BY <1>1, WFMin
<1>3. ASSUME NEW y \in S PROVE x <= y
  <2>1. ~(<<y, x>> \in R) /\ x \in Nat /\ y \in Nat
    BY <1>2
  <2>2. y < x => <<y, x>> \in R
    BY <2>1, Zenon
  <2> QED
    BY <2>1, <2>2
<1> QED
  BY <1>2, <1>3 DEF Min

\* Two numbers have a largest one.
LEMMA LargerNumber ==
    ASSUME NEW m \in Nat, NEW n \in Nat
    PROVE  Max({m, n}) = (IF m >= n THEN m ELSE n) /\ Max({m, n}) \in {m, n}
<1>1. Max({m, n}) = IF m >= n THEN m ELSE n
  BY DEF Max
<1> QED
  BY <1>1

\* A set of positions that is not empty has a last one.
LEMMA LastPosition ==
    ASSUME NEW n \in Nat, NEW S \in SUBSET (1 .. n), S # {}
    PROVE  Max(S) \in S /\ \A i \in S : i <= Max(S)
<1> DEFINE Mirror == {n - i : i \in S}
<1>1. Mirror \in SUBSET Nat /\ Mirror # {}
  <2>1. \A i \in S : i \in Nat /\ n - i \in Nat
    OBVIOUS
  <2> QED
    BY <2>1
<1>2. PICK i \in S : Min(Mirror) = n - i
  BY <1>1, LeastNumber
<1>3. \A k \in S : n - i <= n - k
  BY <1>1, <1>2, LeastNumber
<1>4. i \in S /\ \A k \in S : k <= i
  BY <1>3
<1> QED
  BY <1>4 DEF Max
--------------------------------------------------------------------------------
(* Schedules: commands that never meet.                                        *)

Kept == {j \in Jobs : asked[j] = "kept"}
CommandPhases == {"idle", "adding", "removing", "due", "running"}

\* Each job of the array is due later than the minutes it has fired for.
Fresh(jobs) == \A i \in DOMAIN jobs : NextRun(jobs[i]) > consumed[jobs[i].id]

\* The job a command has yet to run has not fired for that minute, and is advanced
\* past now in its array.
DueInHand(c) ==
    \A d \in command[c].due :
        /\ d.at \in DOMAIN command[c].jobs /\ d.id = command[c].jobs[d.at].id
        /\ command[c].jobs[d.at].next > command[c].now
        /\ d.minute \in Nat /\ consumed[d.id] < d.minute
        /\ \A e \in command[c].due : e.at = d.at => e = d

\* The advance is on file.
DueOnFile(c) ==
    \A d \in command[c].due :
        /\ d.at \in DOMAIN schedules /\ d.id = schedules[d.at].id
        /\ schedules[d.at].next > command[c].now

InHand(c) ==
    /\ command[c].now \in 1 .. clock
    /\ JobArray(command[c].jobs) /\ Fresh(command[c].jobs)
    /\ command[c].phase = "adding" =>
         \E j \in Jobs : command[c].due = {Edit(j)} /\ Ids(command[c].jobs) = Kept \cup {j}
    /\ command[c].phase = "removing" =>
         \E j \in Jobs : command[c].due = {Edit(j)} /\ Ids(command[c].jobs) = Kept \ {j}
    /\ command[c].phase \in {"due", "running"} => Ids(command[c].jobs) = Kept /\ DueInHand(c)
    /\ command[c].phase = "running" => DueOnFile(c)

OnFile ==
    schedules # Corrupt => JobArray(schedules) /\ Ids(schedules) = Kept /\ Fresh(schedules)

NeverMet ==
    /\ clock \in 1 .. MaxMinute
    /\ asked \in [Jobs -> {"never", "kept", "removed"}]
    /\ consumed \in [Jobs -> 0 .. clock]
    /\ again = {}
    /\ command = [c \in CliProcesses |-> [phase |-> command[c].phase, jobs |-> command[c].jobs,
                                          now |-> command[c].now, due |-> command[c].due]]
    /\ \A c \in CliProcesses : command[c].phase \in CommandPhases
    /\ \A c, d \in AtWork : c = d
    /\ OnFile
    /\ \A c \in AtWork : InHand(c)

ScheduleInv == met \in [overlap : BOOLEAN, crashes : Nat] /\ (~met.overlap => NeverMet)

--------------------------------------------------------------------------------
\* The next minute a job is due is a later one.
LEMMA NextIsLater ==
    ASSUME NEW j \in Jobs, NEW from \in 0 .. MaxMinute
    PROVE  ComputeNextRun(j, from) \in Nat /\ ComputeNextRun(j, from) > from
<1>1. {m \in Cron[j] : m > from} \in SUBSET Nat /\ {m \in Cron[j] : m > from} # {}
  BY CronAssumption
<1> QED
  BY <1>1, LeastNumber DEF ComputeNextRun

LEMMA NextRunIsMinute ==
    ASSUME NEW job \in [id : Jobs, next : Nat, last : 0 .. MaxMinute]
    PROVE  NextRun(job) \in Nat /\ NextRun(job) > 0
<1>1. job.id \in Jobs /\ job.next \in Nat /\ job.last \in 0 .. MaxMinute
  OBVIOUS
<1> QED
  BY <1>1, NextIsLater, CronAssumption DEF NextRun, Unset

\* A new job at the end of an array.
LEMMA AppendedJob ==
    ASSUME NEW jobs, JobArray(jobs), NEW job \in [id : Jobs, next : Nat, last : 0 .. MaxMinute],
           job.id \notin Ids(jobs)
    PROVE  /\ JobArray(Append(jobs, job))
           /\ Ids(Append(jobs, job)) = Ids(jobs) \cup {job.id}
           /\ \A i \in DOMAIN Append(jobs, job) :
                Append(jobs, job)[i] = job \/ \E k \in DOMAIN jobs : Append(jobs, job)[i] = jobs[k]
<1> DEFINE more == Append(jobs, job)
<1>1. /\ more \in Seq([id : Jobs, next : Nat, last : 0 .. MaxMinute])
      /\ DOMAIN more = 1 .. Len(jobs) + 1 /\ DOMAIN jobs = 1 .. Len(jobs) /\ Len(jobs) \in Nat
      /\ \A i \in 1 .. Len(jobs) : more[i] = jobs[i]
      /\ more[Len(jobs) + 1] = job
  BY DEF JobArray
<1> HIDE DEF more
<1>2. \A i \in DOMAIN more : i \in DOMAIN jobs \/ i = Len(jobs) + 1
  BY <1>1
<1>a. \A i, k \in DOMAIN jobs : jobs[i].id = jobs[k].id => i = k
  BY DEF JobArray
<1>b. \A i \in DOMAIN jobs : jobs[i].id # job.id
  BY DEF Ids
<1>3. ASSUME NEW i \in DOMAIN more, NEW k \in DOMAIN more, more[i].id = more[k].id PROVE i = k
  BY <1>1, <1>2, <1>3, <1>a, <1>b
<1>4. Ids(more) = Ids(jobs) \cup {job.id}
  BY <1>1, <1>2 DEF Ids
<1> QED
  BY <1>1, <1>2, <1>3, <1>4 DEF JobArray, more

\* A job taken out of an array.
LEMMA RemovedJob ==
    ASSUME NEW jobs, JobArray(jobs), NEW i \in DOMAIN jobs
    PROVE  /\ JobArray(RemoveAt(jobs, i))
           /\ Ids(RemoveAt(jobs, i)) = Ids(jobs) \ {jobs[i].id}
           /\ \A k \in DOMAIN RemoveAt(jobs, i) : \E m \in DOMAIN jobs : RemoveAt(jobs, i)[k] = jobs[m]
<1> DEFINE fewer == RemoveAt(jobs, i)  S == [id : Jobs, next : Nat, last : 0 .. MaxMinute]
<1>1. jobs \in Seq(S) /\ DOMAIN jobs = 1 .. Len(jobs) /\ Len(jobs) \in Nat /\ i \in 1 .. Len(jobs)
  BY DEF JobArray
<1>2. /\ fewer \in Seq(S) /\ DOMAIN fewer = 1 .. Len(jobs) - 1
      /\ \A k \in 1 .. Len(jobs) - 1 : fewer[k] = IF k < i THEN jobs[k] ELSE jobs[k + 1]
  <2> HIDE DEF S
  <2> DEFINE front == SubSeq(jobs, 1, i - 1)  back == SubSeq(jobs, i + 1, Len(jobs))
  <2>1. front \in Seq(S) /\ Len(front) = i - 1 /\ \A k \in 1 .. i - 1 : front[k] = jobs[k]
    BY <1>1
  <2>2. /\ back \in Seq(S) /\ Len(back) = Len(jobs) - i
        /\ \A k \in 1 .. Len(jobs) - i : back[k] = jobs[i + k]
    BY <1>1
  <2>3. fewer = front \o back
    BY DEF RemoveAt
  <2> HIDE DEF front, back, fewer
  <2>4. /\ fewer \in Seq(S) /\ Len(fewer) = Len(front) + Len(back)
        /\ \A k \in 1 .. Len(front) + Len(back) :
             fewer[k] = IF k <= Len(front) THEN front[k] ELSE back[k - Len(front)]
    BY <2>1, <2>2, <2>3, ConcatProperties
  <2>5. Len(fewer) = Len(jobs) - 1 /\ DOMAIN fewer = 1 .. Len(jobs) - 1
    BY <1>1, <2>1, <2>2, <2>4
  <2>6. ASSUME NEW k \in 1 .. Len(jobs) - 1
        PROVE  fewer[k] = IF k < i THEN jobs[k] ELSE jobs[k + 1]
    <3>1. CASE k < i
      BY <1>1, <2>1, <2>2, <2>4, <3>1
    <3>2. CASE k >= i
      <4>1. k - (i - 1) \in 1 .. Len(jobs) - i /\ i + (k - (i - 1)) = k + 1
        BY <1>1, <3>2
      <4>2. fewer[k] = back[k - (i - 1)]
        BY <1>1, <2>1, <2>2, <2>4, <3>2
      <4> QED
        BY <1>1, <2>2, <3>2, <4>1, <4>2
    <3> QED
      BY <1>1, <3>1, <3>2
  <2> QED
    BY <2>4, <2>5, <2>6
<1> HIDE DEF fewer, S
<1>3. \A k \in DOMAIN fewer : IF k < i THEN k \in DOMAIN jobs /\ fewer[k] = jobs[k]
                              ELSE k + 1 \in DOMAIN jobs /\ fewer[k] = jobs[k + 1]
  BY <1>1, <1>2
<1>a. \A k, m \in DOMAIN jobs : jobs[k].id = jobs[m].id => k = m
  BY DEF JobArray
<1>4. ASSUME NEW k \in DOMAIN fewer, NEW m \in DOMAIN fewer, fewer[k].id = fewer[m].id PROVE k = m
  BY <1>1, <1>2, <1>3, <1>4, <1>a
<1>5. ASSUME NEW k \in DOMAIN fewer PROVE \E m \in DOMAIN jobs : fewer[k] = jobs[m] /\ m # i
  BY <1>1, <1>2, <1>3
<1>5a. Ids(fewer) \subseteq Ids(jobs) \ {jobs[i].id}
  BY <1>5, <1>a DEF Ids
<1>6. ASSUME NEW m \in DOMAIN jobs, jobs[m].id # jobs[i].id PROVE jobs[m].id \in Ids(fewer)
  <2>1. CASE m < i
    BY <1>1, <1>2, <2>1 DEF Ids
  <2>2. CASE m > i
    <3>1. m - 1 \in DOMAIN fewer /\ fewer[m - 1] = jobs[m]
      BY <1>1, <1>2, <2>2
    <3> QED
      BY <3>1 DEF Ids
  <2> QED
    BY <1>1, <1>6, <2>1, <2>2
<1>7. Ids(fewer) = Ids(jobs) \ {jobs[i].id}
  BY <1>5a, <1>6 DEF Ids
<1> QED
  BY <1>2, <1>3, <1>4, <1>7 DEF JobArray, fewer, S
--------------------------------------------------------------------------------
\* How an array stands when only the history of its jobs has not changed.
LEMMA FreshStays ==
    ASSUME NEW jobs, Fresh(jobs), consumed' = consumed
    PROVE  \A i \in DOMAIN jobs : NextRun(jobs[i]) > consumed'[jobs[i].id]
BY DEF Fresh

\* The jobs of an array.
LEMMA ArrayElement ==
    ASSUME NEW jobs, JobArray(jobs), NEW i \in DOMAIN jobs
    PROVE  /\ jobs[i] \in [id : Jobs, next : Nat, last : 0 .. MaxMinute]
           /\ DOMAIN jobs = 1 .. Len(jobs) /\ Len(jobs) \in Nat
<1> DEFINE S == [id : Jobs, next : Nat, last : 0 .. MaxMinute]
<1>1. jobs \in Seq(S)
  BY DEF JobArray
<1> HIDE DEF S
<1>2. jobs[i] \in S /\ DOMAIN jobs = 1 .. Len(jobs) /\ Len(jobs) \in Nat
  BY <1>1
<1> QED
  BY <1>2 DEF S

LEMMA ScheduleInitInv == ScheduleInit => ScheduleInv
<1> SUFFICES ASSUME ScheduleInit PROVE ScheduleInv
  OBVIOUS
<1>1. schedules \in EarlierJobs /\ JobArray(schedules)
  BY CronAssumption DEF ScheduleInit
<1>2. \A i \in DOMAIN schedules : schedules[i] \in [id : Jobs, next : Nat, last : 0 .. MaxMinute]
  BY <1>1, ArrayElement
<1>3. Ids(schedules) = Kept
  BY <1>2 DEF ScheduleInit, Ids, Kept
<1>4. Fresh(schedules)
  BY <1>2, NextRunIsMinute DEF Fresh, ScheduleInit
<1>5. AtWork = {}
  BY DEF AtWork, ScheduleInit, Resting
<1>6. clock \in 1 .. MaxMinute /\ consumed \in [Jobs -> 0 .. clock]
  BY CronAssumption DEF ScheduleInit
<1>7. asked \in [Jobs -> {"never", "kept", "removed"}] /\ again = {}
  BY DEF ScheduleInit
<1>8. /\ command = [c \in CliProcesses |-> [phase |-> command[c].phase, jobs |-> command[c].jobs,
                                            now |-> command[c].now, due |-> command[c].due]]
      /\ \A c \in CliProcesses : command[c].phase \in CommandPhases
  BY DEF ScheduleInit, Resting, CommandPhases
<1>9. met \in [overlap : BOOLEAN, crashes : Nat]
  BY DEF ScheduleInit
<1> QED
  BY <1>1, <1>3, <1>4, <1>5, <1>6, <1>7, <1>8, <1>9 DEF ScheduleInv, NeverMet, OnFile

\* A command that reads while no other is at work.
LEMMA ReadStep ==
    ASSUME ScheduleInv, NEW c \in CliProcesses, NEW phase \in {"adding", "removing", "due"},
           NEW jobs, NEW due, ReadsFile(c, phase, jobs, due), UNCHANGED clock,
           NeverMet =>
           /\ JobArray(jobs) /\ Fresh(jobs)
           /\ phase = "adding" => \E j \in Jobs : due = {Edit(j)} /\ Ids(jobs) = Kept \cup {j}
           /\ phase = "removing" => \E j \in Jobs : due = {Edit(j)} /\ Ids(jobs) = Kept \ {j}
           /\ phase = "due" =>
                /\ Ids(jobs) = Kept
                /\ \A d \in due :
                     /\ d.at \in DOMAIN jobs /\ d.id = jobs[d.at].id
                     /\ jobs[d.at].next > clock /\ d.minute \in Nat /\ consumed[d.id] < d.minute
                     /\ \A e \in due : e.at = d.at => e = d
    PROVE  ScheduleInv'
<1>1. met' \in [overlap : BOOLEAN, crashes : Nat]
      /\ (~met'.overlap => ~met.overlap /\ AtWork = {})
  BY DEF ScheduleInv, ReadsFile
<1> SUFFICES ASSUME ~met'.overlap PROVE NeverMet'
  BY <1>1 DEF ScheduleInv
<1>2. NeverMet /\ AtWork = {}
  BY <1>1 DEF ScheduleInv
<1>3. /\ schedules # Corrupt /\ UNCHANGED <<schedules, asked, consumed, again, clock>>
      /\ command' = [command EXCEPT ![c] = [phase |-> phase, jobs |-> jobs,
                                            now |-> clock, due |-> due]]
  BY DEF ReadsFile
<1>4. \A d \in CliProcesses : IF d = c THEN command'[d] = [phase |-> phase, jobs |-> jobs, now |-> clock, due |-> due]
                              ELSE command'[d] = command[d] /\ command[d].phase = "idle"
  BY <1>2, <1>3 DEF NeverMet, AtWork
<1>5. AtWork' = {c}
  BY <1>4 DEF AtWork
<1>6. command' = [d \in CliProcesses |->
                    [phase |-> command'[d].phase, jobs |-> command'[d].jobs,
                     now |-> command'[d].now, due |-> command'[d].due]]
      /\ \A d \in CliProcesses : command'[d].phase \in CommandPhases
  BY <1>2, <1>3, <1>4 DEF NeverMet, CommandPhases
<1>7. Kept' = Kept /\ OnFile'
  BY <1>2, <1>3 DEF Kept, NeverMet, OnFile, Fresh, NextRun, ComputeNextRun
<1>8. InHand(c)'
  <2>1. command'[c].phase = phase /\ command'[c].jobs = jobs /\ command'[c].now = clock
        /\ command'[c].due = due
    BY <1>4
  <2>2. clock' \in 1 .. MaxMinute /\ clock' = clock
    BY <1>2, <1>3 DEF NeverMet
  <2>3. JobArray(jobs) /\ Fresh(jobs)'
    BY <1>2, <1>3 DEF Fresh, NextRun, ComputeNextRun
  <2>4. phase = "due" => DueInHand(c)'
    BY <1>2, <1>3, <2>1 DEF DueInHand
  <2> QED
    BY <1>2, <1>7, <2>1, <2>2, <2>3, <2>4 DEF InHand, Fresh, NextRun, ComputeNextRun, Ids
<1> QED
  BY <1>2, <1>3, <1>5, <1>6, <1>7, <1>8 DEF NeverMet
--------------------------------------------------------------------------------
LEMMA AddStep ==
    ASSUME ScheduleInv, NEW c \in CliProcesses, NEW j \in Jobs, AddSchedule(c, j), UNCHANGED clock
    PROVE  ScheduleInv'
<1> DEFINE job == Job(j, ComputeNextRun(j, clock), clock)
<1>1. ReadsFile(c, "adding", Append(schedules, job), {Edit(j)}) /\ schedules # Corrupt /\ asked[j] = "never"
  BY DEF AddSchedule
<1>2. ASSUME NeverMet
      PROVE  /\ JobArray(Append(schedules, job)) /\ Fresh(Append(schedules, job))
             /\ Ids(Append(schedules, job)) = Kept \cup {j}
  <2>1. JobArray(schedules) /\ Ids(schedules) = Kept /\ Fresh(schedules) /\ clock \in 1 .. MaxMinute
        /\ consumed[j] \in 0 .. clock
    BY <1>1, <1>2 DEF NeverMet, OnFile
  <2>2. ComputeNextRun(j, clock) \in Nat /\ ComputeNextRun(j, clock) > clock
    BY <2>1, NextIsLater, CronAssumption
  <2>3. /\ job \in [id : Jobs, next : Nat, last : 0 .. MaxMinute] /\ job.id = j
        /\ NextRun(job) > consumed[j]
    BY <2>1, <2>2, CronAssumption DEF Job, NextRun, Unset
  <2>4. job.id \notin Ids(schedules)
    BY <1>1, <2>1, <2>3 DEF Kept
  <2> HIDE DEF job
  <2>5. /\ JobArray(Append(schedules, job))
        /\ Ids(Append(schedules, job)) = Ids(schedules) \cup {job.id}
        /\ \A i \in DOMAIN Append(schedules, job) :
             \/ Append(schedules, job)[i] = job
             \/ \E k \in DOMAIN schedules : Append(schedules, job)[i] = schedules[k]
    BY <2>1, <2>3, <2>4, AppendedJob
  <2>6. Fresh(Append(schedules, job))
    BY <2>1, <2>3, <2>5 DEF Fresh
  <2> QED
    BY <2>1, <2>3, <2>5, <2>6
<1> HIDE DEF job
<1> QED
  BY <1>1, <1>2, ReadStep

LEMMA RemoveStep ==
    ASSUME ScheduleInv, NEW c \in CliProcesses, NEW j \in Jobs, RemoveSchedule(c, j), UNCHANGED clock
    PROVE  ScheduleInv'
<1>1. PICK i \in DOMAIN schedules :
        schedules[i].id = j /\ ReadsFile(c, "removing", RemoveAt(schedules, i), {Edit(j)})
  BY DEF RemoveSchedule
<1>2. ASSUME NeverMet
      PROVE  /\ JobArray(RemoveAt(schedules, i)) /\ Fresh(RemoveAt(schedules, i))
             /\ Ids(RemoveAt(schedules, i)) = Kept \ {j}
  <2>1. JobArray(schedules) /\ Ids(schedules) = Kept /\ Fresh(schedules)
    BY <1>1, <1>2 DEF NeverMet, OnFile, RemoveSchedule
  <2>2. /\ JobArray(RemoveAt(schedules, i))
        /\ Ids(RemoveAt(schedules, i)) = Ids(schedules) \ {schedules[i].id}
        /\ \A k \in DOMAIN RemoveAt(schedules, i) :
             \E m \in DOMAIN schedules : RemoveAt(schedules, i)[k] = schedules[m]
    BY <2>1, RemovedJob
  <2> QED
    BY <1>1, <2>1, <2>2 DEF Fresh
<1> QED
  BY <1>1, <1>2, ReadStep

\* What phase 1 makes of the array.
Advanced(jobs, now) ==
    [i \in DOMAIN jobs |->
       IF IsDue(jobs[i], now) THEN [jobs[i] EXCEPT !.next = ComputeNextRun(jobs[i].id, now)]
                              ELSE jobs[i]]

LEMMA AdvancedArray ==
    ASSUME NEW jobs, JobArray(jobs), NEW now \in 0 .. MaxMinute
    PROVE  /\ JobArray(Advanced(jobs, now)) /\ Ids(Advanced(jobs, now)) = Ids(jobs)
           /\ DOMAIN Advanced(jobs, now) = DOMAIN jobs
           /\ \A i \in DOMAIN jobs :
                /\ Advanced(jobs, now)[i].id = jobs[i].id
                /\ IF IsDue(jobs[i], now)
                     THEN /\ NextRun(jobs[i]) <= now
                          /\ Advanced(jobs, now)[i].next > now
                          /\ NextRun(Advanced(jobs, now)[i]) > now
                     ELSE Advanced(jobs, now)[i] = jobs[i]
<1> DEFINE S == [id : Jobs, next : Nat, last : 0 .. MaxMinute]  after == Advanced(jobs, now)
<1>1. \A i \in DOMAIN jobs : jobs[i] \in S /\ DOMAIN jobs = 1 .. Len(jobs) /\ Len(jobs) \in Nat
  BY ArrayElement
<1>2. DOMAIN jobs = 1 .. Len(jobs) /\ Len(jobs) \in Nat /\ DOMAIN after = DOMAIN jobs
  <2>1. jobs \in Seq(S)
    BY DEF JobArray
  <2> HIDE DEF S
  <2> QED
    BY <2>1 DEF Advanced
<1>3. ASSUME NEW i \in DOMAIN jobs
      PROVE  /\ after[i] \in S /\ after[i].id = jobs[i].id
             /\ IF IsDue(jobs[i], now)
                  THEN NextRun(jobs[i]) <= now /\ after[i].next > now /\ NextRun(after[i]) > now
                  ELSE after[i] = jobs[i]
  <2>1. jobs[i] \in S /\ ComputeNextRun(jobs[i].id, now) \in Nat /\ ComputeNextRun(jobs[i].id, now) > now
    BY <1>1, NextIsLater
  <2>2. CASE IsDue(jobs[i], now)
    <3>1. after[i] = [jobs[i] EXCEPT !.next = ComputeNextRun(jobs[i].id, now)]
      BY <2>2 DEF Advanced
    <3>2. after[i] \in S /\ after[i].id = jobs[i].id /\ after[i].next > now
      BY <2>1, <3>1
    <3>3. NextRun(after[i]) > now /\ NextRun(jobs[i]) <= now
      BY <2>1, <2>2, <3>1 DEF NextRun, Unset, IsDue
    <3> QED
      BY <2>2, <3>2, <3>3
  <2>3. CASE ~IsDue(jobs[i], now)
    BY <2>1, <2>3 DEF Advanced
  <2> QED
    BY <2>2, <2>3
<1>4. after \in Seq(S)
  <2>1. after \in [1 .. Len(jobs) -> S]
    BY <1>2, <1>3 DEF Advanced
  <2> QED
    BY <1>2, <2>1, SeqDef
<1>5. \A i, k \in DOMAIN after : after[i].id = after[k].id => i = k
  BY <1>2, <1>3 DEF JobArray
<1>6. Ids(after) = Ids(jobs)
  BY <1>2, <1>3 DEF Ids
<1> QED
  BY <1>2, <1>3, <1>4, <1>5, <1>6 DEF JobArray

LEMMA RunDueStep ==
    ASSUME ScheduleInv, NEW c \in CliProcesses, RunDue(c), UNCHANGED clock
    PROVE  ScheduleInv'
<1> DEFINE jobs == Advanced(schedules, clock)
           due == {[at |-> i, id |-> schedules[i].id, minute |-> NextRun(schedules[i])] :
                     i \in DueIndexes(schedules, clock)}
<1>1. ReadsFile(c, "due", jobs, due) /\ schedules # Corrupt
  BY DEF RunDue, Advanced
<1>2. ASSUME NeverMet
      PROVE  /\ JobArray(jobs) /\ Fresh(jobs) /\ Ids(jobs) = Kept
             /\ \A d \in due :
                  /\ d.at \in DOMAIN jobs /\ d.id = jobs[d.at].id
                  /\ jobs[d.at].next > clock /\ d.minute \in Nat /\ consumed[d.id] < d.minute
                  /\ \A e \in due : e.at = d.at => e = d
  <2>1. JobArray(schedules) /\ Ids(schedules) = Kept /\ Fresh(schedules) /\ clock \in 1 .. MaxMinute
        /\ consumed \in [Jobs -> 0 .. clock]
    BY <1>1, <1>2 DEF NeverMet, OnFile
  <2>2. /\ JobArray(jobs) /\ Ids(jobs) = Ids(schedules) /\ DOMAIN jobs = DOMAIN schedules
        /\ \A i \in DOMAIN schedules :
             /\ jobs[i].id = schedules[i].id
             /\ IF IsDue(schedules[i], clock)
                  THEN /\ NextRun(schedules[i]) <= clock
                       /\ jobs[i].next > clock /\ NextRun(jobs[i]) > clock
                  ELSE jobs[i] = schedules[i]
    BY <2>1, AdvancedArray, CronAssumption
  <2>3. \A i \in DOMAIN schedules : schedules[i].id \in Jobs /\ NextRun(schedules[i]) \in Nat
    BY <2>1, ArrayElement, NextRunIsMinute
  <2>3a. \A i \in DOMAIN jobs : NextRun(jobs[i]) \in Nat
    BY <2>2, ArrayElement, NextRunIsMinute
  <2> HIDE DEF jobs
  <2>4. Fresh(jobs)
    BY <2>1, <2>2, <2>3, <2>3a DEF Fresh
  <2>5. ASSUME NEW d \in due
        PROVE  /\ d.at \in DOMAIN jobs /\ d.id = jobs[d.at].id
               /\ jobs[d.at].next > clock /\ d.minute \in Nat /\ consumed[d.id] < d.minute
               /\ \A e \in due : e.at = d.at => e = d
    <3>1. PICK i \in DueIndexes(schedules, clock) :
            d = [at |-> i, id |-> schedules[i].id, minute |-> NextRun(schedules[i])]
      OBVIOUS
    <3>2. i \in DOMAIN schedules /\ IsDue(schedules[i], clock)
      BY DEF DueIndexes
    <3> QED
      BY <2>1, <2>2, <2>3, <3>1, <3>2 DEF Fresh
  <2> QED
    BY <2>1, <2>2, <2>4, <2>5
<1> HIDE DEF jobs, due
<1> QED
  BY <1>1, <1>2, ReadStep
--------------------------------------------------------------------------------
\* A command that nobody met is the only one at work.
LEMMA OnlyCommand ==
    ASSUME NeverMet, NEW c \in CliProcesses, command[c].phase # "idle"
    PROVE  /\ AtWork = {c} /\ InHand(c)
           /\ \A d \in CliProcesses : d # c => command[d].phase = "idle"
BY DEF NeverMet, AtWork

\* A command that ends, with its array on file or not.
LEMMA RestStep ==
    ASSUME ScheduleInv, NEW c \in CliProcesses, command[c].phase # "idle",
           command' = [command EXCEPT ![c] = Resting],
           met' \in [overlap : BOOLEAN, crashes : Nat], met'.overlap = met.overlap,
           UNCHANGED <<clock, consumed, again>>,
           NeverMet => asked' \in [Jobs -> {"never", "kept", "removed"}] /\ OnFile'
    PROVE  ScheduleInv'
<1> SUFFICES ASSUME ~met.overlap PROVE NeverMet'
  BY DEF ScheduleInv
<1>1. NeverMet
  BY DEF ScheduleInv
<1>2. \A d \in CliProcesses : d # c => command[d].phase = "idle"
  BY <1>1, OnlyCommand
<1>3. \A d \in CliProcesses : IF d = c THEN command'[d] = Resting ELSE command'[d] = command[d]
  BY <1>1 DEF NeverMet
<1>4. AtWork' = {}
  BY <1>2, <1>3 DEF AtWork, Resting
<1>5. command' = [d \in CliProcesses |->
                    [phase |-> command'[d].phase, jobs |-> command'[d].jobs,
                     now |-> command'[d].now, due |-> command'[d].due]]
      /\ \A d \in CliProcesses : command'[d].phase \in CommandPhases
  BY <1>1, <1>3 DEF NeverMet, CommandPhases, Resting
<1> QED
  BY <1>1, <1>4, <1>5 DEF NeverMet

LEMMA WriteEditStep ==
    ASSUME ScheduleInv, NEW c \in CliProcesses, WriteEdit(c), UNCHANGED clock
    PROVE  ScheduleInv'
<1>1. /\ command[c].phase \in {"adding", "removing"} /\ schedules' = command[c].jobs
      /\ command' = [command EXCEPT ![c] = Resting] /\ UNCHANGED <<consumed, again, met>>
  BY DEF WriteEdit, WritesBack
<1>2. PICK edit \in command[c].due :
        asked' = [asked EXCEPT ![edit.id] =
                    IF command[c].phase = "adding" THEN "kept" ELSE "removed"]
  BY DEF WriteEdit
<1>3. ASSUME NeverMet PROVE asked' \in [Jobs -> {"never", "kept", "removed"}] /\ OnFile'
  <2>1. InHand(c) /\ asked \in [Jobs -> {"never", "kept", "removed"}]
    BY <1>1, <1>3, OnlyCommand DEF NeverMet
  <2>2. PICK j \in Jobs :
          /\ command[c].due = {Edit(j)}
          /\ Ids(command[c].jobs) = IF command[c].phase = "adding" THEN Kept \cup {j} ELSE Kept \ {j}
    BY <1>1, <2>1 DEF InHand
  <2>3. edit.id = j
    BY <1>2, <2>2 DEF Edit
  <2>4. asked' \in [Jobs -> {"never", "kept", "removed"}]
        /\ Kept' = IF command[c].phase = "adding" THEN Kept \cup {j} ELSE Kept \ {j}
    BY <1>1, <1>2, <2>1, <2>3 DEF Kept
  <2>5. JobArray(schedules') /\ Ids(schedules') = Kept' /\ Fresh(schedules)'
    BY <1>1, <2>1, <2>2, <2>4 DEF InHand, Fresh
  <2> QED
    BY <2>4, <2>5 DEF OnFile, Ids, Fresh, NextRun, ComputeNextRun
<1> QED
  BY <1>1, <1>3, RestStep DEF ScheduleInv

LEMMA WriteResultsStep ==
    ASSUME ScheduleInv, NEW c \in CliProcesses, WriteResults(c), UNCHANGED clock
    PROVE  ScheduleInv'
<1>1. /\ command[c].phase = "running" /\ schedules' = command[c].jobs
      /\ command' = [command EXCEPT ![c] = Resting] /\ UNCHANGED <<asked, consumed, again, met>>
  BY DEF WriteResults, WritesBack
<1>2. ASSUME NeverMet PROVE asked' \in [Jobs -> {"never", "kept", "removed"}] /\ OnFile'
  <2>1. InHand(c) /\ asked \in [Jobs -> {"never", "kept", "removed"}]
    BY <1>1, <1>2, OnlyCommand DEF NeverMet
  <2>2. JobArray(schedules') /\ Ids(schedules') = Kept /\ Fresh(schedules)'
    BY <1>1, <2>1 DEF InHand, Fresh
  <2> QED
    BY <1>1, <2>1, <2>2 DEF OnFile, Kept
<1> QED
  BY <1>1, <1>2, RestStep DEF ScheduleInv

LEMMA ScheduleCrashStep ==
    ASSUME ScheduleInv, NEW c \in CliProcesses, ScheduleCrash(c), UNCHANGED clock
    PROVE  ScheduleInv'
<1>1. /\ command[c].phase # "idle" /\ (schedules' = schedules \/ schedules' = Corrupt)
      /\ command' = [command EXCEPT ![c] = Resting] /\ UNCHANGED <<asked, consumed, again>>
      /\ met' = [met EXCEPT !.crashes = @ + 1]
  BY DEF ScheduleCrash, AtWork
<1>2. met' \in [overlap : BOOLEAN, crashes : Nat] /\ met'.overlap = met.overlap
  BY <1>1 DEF ScheduleInv
<1>3. ASSUME NeverMet PROVE asked' \in [Jobs -> {"never", "kept", "removed"}] /\ OnFile'
  BY <1>1, <1>3 DEF NeverMet, OnFile, Kept, Fresh
<1> QED
  BY <1>1, <1>2, <1>3, RestStep

LEMMA WriteAdvanceStep ==
    ASSUME ScheduleInv, NEW c \in CliProcesses, WriteAdvance(c), UNCHANGED clock
    PROVE  ScheduleInv'
<1>1. /\ command[c].phase = "due" /\ schedules' = command[c].jobs
      /\ command' = [command EXCEPT ![c] = [command[c] EXCEPT !.phase = "running"]]
      /\ UNCHANGED <<asked, consumed, again, met>>
  BY DEF WriteAdvance, WritesBack
<1> SUFFICES ASSUME ~met.overlap PROVE NeverMet'
  BY <1>1 DEF ScheduleInv
<1>2. NeverMet
  BY DEF ScheduleInv
<1>3. InHand(c) /\ \A d \in CliProcesses : d # c => command[d].phase = "idle"
  BY <1>1, <1>2, OnlyCommand
<1>4. /\ \A d \in CliProcesses : d # c => command'[d] = command[d]
      /\ command'[c].phase = "running" /\ command'[c].jobs = command[c].jobs
      /\ command'[c].now = command[c].now /\ command'[c].due = command[c].due
      /\ command' = [d \in CliProcesses |->
                       [phase |-> command'[d].phase, jobs |-> command'[d].jobs,
                        now |-> command'[d].now, due |-> command'[d].due]]
  BY <1>1, <1>2 DEF NeverMet
<1>5. AtWork' = {c} /\ \A d \in CliProcesses : command'[d].phase \in CommandPhases
  BY <1>2, <1>3, <1>4 DEF AtWork, NeverMet, CommandPhases
<1>6. OnFile' /\ Kept' = Kept
  BY <1>1, <1>3 DEF OnFile, InHand, Kept, Fresh
<1>7. InHand(c)'
  <2>1. JobArray(command'[c].jobs) /\ Fresh(command[c].jobs)' /\ Ids(command'[c].jobs) = Kept
        /\ command'[c].now \in 1 .. clock'
    BY <1>1, <1>3, <1>4 DEF InHand, Fresh
  <2>2. DueInHand(c)'
    BY <1>1, <1>3, <1>4 DEF InHand, DueInHand
  <2>3. DueOnFile(c)'
    BY <1>1, <1>3, <1>4 DEF InHand, DueInHand, DueOnFile
  <2> QED
    BY <1>4, <1>6, <2>1, <2>2, <2>3 DEF InHand, Fresh, Ids
<1> QED
  BY <1>1, <1>2, <1>4, <1>5, <1>6, <1>7 DEF NeverMet

LEMMA RunJobStep ==
    ASSUME ScheduleInv, NEW c \in CliProcesses, RunJob(c), UNCHANGED clock
    PROVE  ScheduleInv'
<1>1. PICK d \in command[c].due :
         /\ command' = [command EXCEPT ![c].due = @ \ {d},
                                       ![c].jobs[d.at].last = command[c].now]
         /\ consumed' = [consumed EXCEPT ![d.id] = Max({@, command[c].now})]
         /\ again' = IF d.minute <= consumed[d.id] THEN again \cup {d.id} ELSE again
  BY DEF RunJob
<1>2. command[c].phase = "running" /\ UNCHANGED <<schedules, asked, met>>
  BY DEF RunJob
<1> SUFFICES ASSUME ~met.overlap PROVE NeverMet'
  BY <1>2 DEF ScheduleInv
<1>3. NeverMet
  BY DEF ScheduleInv
<1>4. InHand(c) /\ \A p \in CliProcesses : p # c => command[p].phase = "idle"
  BY <1>2, <1>3, OnlyCommand
<1> DEFINE jobs == command[c].jobs  now == command[c].now  after == command'[c].jobs
<1>5. /\ now \in 1 .. clock /\ clock \in 1 .. MaxMinute
      /\ JobArray(jobs) /\ Fresh(jobs) /\ Ids(jobs) = Kept /\ DueInHand(c) /\ DueOnFile(c)
      /\ consumed \in [Jobs -> 0 .. clock]
  BY <1>2, <1>3, <1>4 DEF InHand, NeverMet
<1>6. /\ d.at \in DOMAIN jobs /\ d.id = jobs[d.at].id /\ jobs[d.at].next > now
      /\ d.minute \in Nat /\ consumed[d.id] < d.minute /\ d.at \in DOMAIN schedules /\ d.id = schedules[d.at].id
      /\ schedules[d.at].next > now /\ \A e \in command[c].due : e.at = d.at => e = d
  BY <1>5 DEF DueInHand, DueOnFile
<1>7. /\ jobs[d.at] \in [id : Jobs, next : Nat, last : 0 .. MaxMinute]
      /\ DOMAIN jobs = 1 .. Len(jobs) /\ Len(jobs) \in Nat /\ d.id \in Jobs
  BY <1>5, <1>6, ArrayElement
<1>8. /\ \A p \in CliProcesses : p # c => command'[p] = command[p]
      /\ command'[c].phase = "running" /\ command'[c].now = now
      /\ command'[c].due = command[c].due \ {d}
      /\ after = [jobs EXCEPT ![d.at] = [jobs[d.at] EXCEPT !.last = now]]
      /\ command' = [p \in CliProcesses |->
                       [phase |-> command'[p].phase, jobs |-> command'[p].jobs,
                        now |-> command'[p].now, due |-> command'[p].due]]
  <2>1. PICK r : r = [command[c] EXCEPT !.due = @ \ {d}, !.jobs[d.at].last = now]
    OBVIOUS
  <2>2. command' = [command EXCEPT ![c] = r]
    BY <1>1, <2>1
  <2>3. command[c] = [phase |-> command[c].phase, jobs |-> jobs, now |-> now, due |-> command[c].due]
    BY <1>3 DEF NeverMet
  <2>4. r = [phase |-> "running", jobs |-> [jobs EXCEPT ![d.at] = [jobs[d.at] EXCEPT !.last = now]],
             now |-> now, due |-> command[c].due \ {d}]
    BY <1>2, <2>1, <2>3
  <2> QED
    BY <1>3, <2>2, <2>4 DEF NeverMet
<1>9. AtWork' = {c} /\ \A p \in CliProcesses : command'[p].phase \in CommandPhases
  BY <1>3, <1>4, <1>8 DEF AtWork, NeverMet, CommandPhases
<1>10. /\ consumed'[d.id] \in {consumed[d.id], now} /\ consumed'[d.id] \in 0 .. clock
       /\ \A j \in Jobs : j # d.id => consumed'[j] = consumed[j]
       /\ consumed' \in [Jobs -> 0 .. clock]
  <2>1. consumed[d.id] \in 0 .. clock /\ now \in 0 .. clock /\ clock \in Nat
    BY <1>5, <1>7
  <2>2. Max({consumed[d.id], now}) \in {consumed[d.id], now}
    BY <2>1, LargerNumber
  <2> QED
    BY <1>1, <1>5, <1>7, <2>1, <2>2
<1>11. again' = {} /\ Kept' = Kept
  <2>1. consumed[d.id] \in Nat /\ again = {}
    BY <1>3, <1>5, <1>7 DEF NeverMet
  <2>2. ~(d.minute <= consumed[d.id])
    BY <1>6, <2>1
  <2> QED
    BY <1>1, <1>2, <2>1, <2>2 DEF Kept
\* What the run leaves of the array and of the file.
<1>12. /\ JobArray(after) /\ Ids(after) = Ids(jobs) /\ DOMAIN after = DOMAIN jobs
       /\ \A i \in DOMAIN jobs : after[i].id = jobs[i].id /\ after[i].next = jobs[i].next
       /\ \A i \in DOMAIN jobs : i # d.at => after[i] = jobs[i]
  <2> DEFINE S == [id : Jobs, next : Nat, last : 0 .. MaxMinute]
             job == [jobs[d.at] EXCEPT !.last = now]
  <2>1. job \in S /\ job.id = jobs[d.at].id /\ job.next = jobs[d.at].next
    <3>1. now \in 0 .. MaxMinute
      BY <1>5, CronAssumption
    <3> QED
      BY <1>7, <3>1
  <2>2. jobs \in Seq(S)
    BY <1>5 DEF JobArray
  <2> HIDE DEF job, S
  <2>3. after \in Seq(S) /\ DOMAIN after = DOMAIN jobs
        /\ \A i \in DOMAIN jobs : after[i] = IF i = d.at THEN job ELSE jobs[i]
    BY <1>6, <1>7, <1>8, <2>1, <2>2, ExceptSeq DEF job
  <2> HIDE DEF after
  <2>4. \A i \in DOMAIN jobs : after[i].id = jobs[i].id /\ after[i].next = jobs[i].next
    BY <2>1, <2>3
  <2>5. \A i, k \in DOMAIN after : after[i].id = after[k].id => i = k
    BY <1>5, <2>3, <2>4 DEF JobArray
  <2>6. Ids(after) = Ids(jobs)
    BY <2>3, <2>4 DEF Ids
  <2> QED
    BY <2>3, <2>4, <2>5, <2>6 DEF JobArray, S
<1> HIDE DEF after
<1>13. ASSUME NEW array, JobArray(array), Fresh(array), NEW i \in DOMAIN array,
              array[i].id = d.id => array[i].next > now
       PROVE  NextRun(array[i]) > consumed'[array[i].id]
  <2>1. array[i] \in [id : Jobs, next : Nat, last : 0 .. MaxMinute] /\ NextRun(array[i]) \in Nat
    BY <1>13, ArrayElement, NextRunIsMinute
  <2>2. NextRun(array[i]) > consumed[array[i].id]
    BY <1>13 DEF Fresh
  <2>3. CASE array[i].id # d.id
    BY <1>10, <2>1, <2>2, <2>3
  <2>4. CASE array[i].id = d.id
    <3>1. NextRun(array[i]) > now
      BY <1>5, <1>13, <2>1, <2>4 DEF NextRun, Unset
    <3> QED
      BY <1>10, <2>2, <2>4, <3>1
  <2> QED
    BY <2>3, <2>4
<1>14. OnFile'
  <2>1. ASSUME schedules # Corrupt PROVE JobArray(schedules) /\ Ids(schedules) = Kept /\ Fresh(schedules)'
    <3>1. JobArray(schedules) /\ Ids(schedules) = Kept /\ Fresh(schedules)
      BY <1>3, <2>1 DEF NeverMet, OnFile
    <3>2. \A i \in DOMAIN schedules : schedules[i].id = d.id => i = d.at
      BY <1>6, <3>1 DEF JobArray
    <3>3. \A i \in DOMAIN schedules : NextRun(schedules[i]) > consumed'[schedules[i].id]
      BY <1>6, <1>13, <3>1, <3>2
    <3> QED
      BY <1>2, <3>1, <3>3 DEF Fresh, NextRun, ComputeNextRun
  <2> QED
    BY <1>2, <1>11, <2>1 DEF OnFile
<1>15. \A i \in DOMAIN after : NextRun(after[i]) > consumed'[after[i].id]
  <2>1. \A i \in DOMAIN jobs : jobs[i].id = d.id => i = d.at
    BY <1>5, <1>6 DEF JobArray
  <2>2. \A i \in DOMAIN jobs : NextRun(jobs[i]) > consumed'[jobs[i].id]
    BY <1>5, <1>6, <1>13, <2>1
  <2>3. \A i \in DOMAIN jobs : NextRun(after[i]) = NextRun(jobs[i])
    BY <1>5, <1>6, <1>12 DEF NextRun, Unset
  <2> QED
    BY <1>12, <2>2, <2>3
<1>16. InHand(c)'
  <2>1. \A e \in command'[c].due : e \in command[c].due /\ e # d /\ e.at # d.at
    BY <1>6, <1>8
  <2>2. ASSUME NEW e \in command'[c].due
        PROVE  /\ e.at \in DOMAIN after /\ e.id = after[e.at].id /\ after[e.at].next > now
               /\ e.minute \in Nat /\ consumed'[e.id] < e.minute
               /\ \A f \in command'[c].due : f.at = e.at => f = e
    <3>1. /\ e.at \in DOMAIN jobs /\ e.id = jobs[e.at].id /\ jobs[e.at].next > now
          /\ e.minute \in Nat /\ consumed[e.id] < e.minute
          /\ \A f \in command[c].due : f.at = e.at => f = e
      BY <1>5, <2>1 DEF DueInHand
    <3>2. e.id # d.id /\ e.id \in Jobs
      BY <1>5, <1>6, <2>1, <3>1, ArrayElement DEF JobArray
    <3> QED
      BY <1>8, <1>10, <1>12, <3>1, <3>2
  <2>3. DueInHand(c)'
    BY <1>8, <2>2 DEF DueInHand, after
  <2>4. DueOnFile(c)'
    BY <1>2, <1>5, <1>8, <2>1 DEF DueOnFile
  <2>5. JobArray(command'[c].jobs) /\ Ids(command'[c].jobs) = Kept
    BY <1>5, <1>12 DEF after
  <2>6. Fresh(command[c].jobs)'
    BY <1>15 DEF after, Fresh, NextRun, ComputeNextRun
  <2>7. command'[c].now \in 1 .. clock' /\ command'[c].phase = "running"
    BY <1>5, <1>8
  <2> QED
    BY <1>11, <2>3, <2>4, <2>5, <2>6, <2>7 DEF InHand, Fresh, Ids
<1> QED
  BY <1>2, <1>3, <1>5, <1>8, <1>9, <1>10, <1>11, <1>14, <1>16 DEF NeverMet

LEMMA MinuteStep ==
    ASSUME ScheduleInv, MinutePasses, UNCHANGED scheduleVars
    PROVE  ScheduleInv'
<1>1. clock' = clock + 1 /\ clock < MaxMinute /\ UNCHANGED <<schedules, command, asked, consumed, again, met>>
  BY DEF MinutePasses, scheduleVars
<1> SUFFICES ASSUME ~met.overlap PROVE NeverMet'
  BY <1>1 DEF ScheduleInv
<1>2. NeverMet
  BY DEF ScheduleInv
<1>3. clock' \in 1 .. MaxMinute /\ consumed' \in [Jobs -> 0 .. clock'] /\ clock \in Nat
  BY <1>1, <1>2, CronAssumption DEF NeverMet
<1>4. AtWork' = AtWork /\ Kept' = Kept /\ OnFile'
  BY <1>1, <1>2 DEF NeverMet, AtWork, Kept, OnFile, Fresh
<1>5. ASSUME NEW c \in AtWork PROVE InHand(c)'
  <2>1. InHand(c)
    BY <1>2 DEF NeverMet
  <2>2. command[c].now \in 1 .. clock'
    BY <1>1, <1>3, <2>1 DEF InHand
  <2> QED
    BY <1>1, <1>4, <2>1, <2>2 DEF InHand, Fresh, DueInHand, DueOnFile
<1> QED
  BY <1>1, <1>2, <1>3, <1>4, <1>5 DEF NeverMet

LEMMA ScheduleStepInv == ScheduleInv /\ [ScheduleNext]_cronVars => ScheduleInv'
<1> SUFFICES ASSUME ScheduleInv, [ScheduleNext]_cronVars PROVE ScheduleInv'
  OBVIOUS
<1>1. CASE MinutePasses /\ UNCHANGED scheduleVars
  BY <1>1, MinuteStep
<1>2. CASE UNCHANGED cronVars
  BY <1>2 DEF cronVars, scheduleVars, ScheduleInv, NeverMet, OnFile, AtWork, InHand, Kept, Fresh,
              DueInHand, DueOnFile
<1>3. ASSUME UNCHANGED clock, NEW c \in CliProcesses,
             \/ \E j \in Jobs : AddSchedule(c, j) \/ RemoveSchedule(c, j)
             \/ RunDue(c) \/ ScheduleProceeds(c) \/ ScheduleCrash(c)
      PROVE  ScheduleInv'
  BY <1>3, AddStep, RemoveStep, RunDueStep, WriteEditStep, WriteAdvanceStep, RunJobStep,
     WriteResultsStep, ScheduleCrashStep DEF ScheduleProceeds
<1> QED
  BY <1>1, <1>2, <1>3 DEF ScheduleNext

\* A job fires twice for a minute only when two commands met, whatever crashes and
\* however many minutes are missed; and commands that never meet keep the file
\* what the user asked for (runDueSchedules, addSchedule, removeSchedule).
THEOREM JobsFireForward == ScheduleSpec => []FiresForward
<1>1. ScheduleInv => FiresForward
  BY DEF ScheduleInv, NeverMet, OnFile, Kept, FiresForward
<1> QED
  BY <1>1, ScheduleInitInv, ScheduleStepInv, PTL DEF ScheduleSpec
--------------------------------------------------------------------------------
(* Flow runs. *)

EventOK(e) ==
    /\ e.type \in {"gate_pending", "gate_resolved", "step_started", "step_completed"} =>
         e.step \in Steps
    /\ e.type = "gate_resolved" => e.info \in {"approve", "reject"}
    /\ e.type = "step_completed" => e.info \in {"none", "truthy", "falsy"}
    /\ e.type = "run_finished" => e.info \in Verdicts
    /\ e.type = "gate_pending" => Flow[e.step].kind = "gate"
    /\ e.type = "step_completed" => Flow[e.step].kind # "gate"
FlowEventTypes ==
    {"run_started", "step_started", "step_completed", "step_failed", "step_skipped",
     "gate_pending", "gate_resolved", "run_finished", "torn"}
FlowInfos ==
    {"run", "replay", "when", "show", "", "approve", "reject",
     "none", "truthy", "falsy"} \cup Verdicts
FlowEvents ==
    {e \in [type : FlowEventTypes, step : 0 .. Len(Flow), info : FlowInfos, tokens : Nat] : EventOK(e)}

FlowContexts ==
    [phase : Phases, run : Runs, next : 1 .. Len(Flow) + 1, outputs : Outputs, tokens : Nat,
     attempt : 1 .. Retry + 1, item : 1 .. Items, decision : {"approve", "reject"},
     verdict : Verdicts, replay : {"no", "recorded", "live"}, source : Seq(FlowEvents)]

\* Every gate before the step that nothing may skip was approved in these events.
Behind(events, s) ==
    \A g \in 1 .. s - 1 : Flow[g].kind = "gate" /\ Flow[g].when = NoStep =>
        \E j \in DOMAIN events :
            events[j].type = "gate_resolved" /\ events[j].step = g /\ events[j].info = "approve"

\* A run's events.
EventsHold ==
    \A r \in Runs :
        /\ log[r] \in Seq(FlowEvents)
        /\ \A i \in DOMAIN log[r] : log[r][i].type = "gate_pending" => Behind(log[r], log[r][i].step)

\* Where a process is.
PlaceHolds(p) ==
    /\ ctx[p] \in FlowContexts
    /\ ctx[p].phase = "idle" => ctx[p] = NotStarted
    /\ p \in Replayers /\ ctx[p].phase # "idle" =>
         ctx[p].run = p /\ ctx[p].replay # "no" /\ ctx[p].phase # "resolve"
    /\ p \notin Replayers =>
         ctx[p].run = "run" /\ ctx[p].replay = "no" /\ ctx[p].phase # "start"
    /\ ctx[p].phase \in {"resolve", "call", "record", "fail"} => ctx[p].next \in Steps
    /\ ctx[p].phase = "resolve" => StepOf(p).kind = "gate"
    /\ ctx[p].phase \in {"call", "record"} => StepOf(p).kind # "gate"
    /\ Active(p) => Behind(log[ctx[p].run], ctx[p].next)
    /\ ctx[p].phase = "start" => ctx[p].next = 1

GateInv ==
    /\ log = [r \in Runs |-> log[r]] /\ ctx = [p \in FlowProcesses |-> ctx[p]]
    /\ EventsHold /\ ApprovedFirst /\ ReplayGrantsRecorded
    /\ \A p \in FlowProcesses : PlaceHolds(p)

\* A flow's steps are numbers.
LEMMA StepsFact ==
    /\ Len(Flow) \in Nat /\ Steps = DOMAIN Flow
    /\ \A s \in Steps : s \in Nat /\ s > 0 /\ Flow[s].kind \in Kinds
                        /\ Flow[s].when \in Nat /\ Flow[s].when < s
                        /\ Flow[s].needs \subseteq 1 .. s - 1 /\ Flow[s].expires \in BOOLEAN
<1>1. /\ Flow \in Seq([kind : Kinds, when : Nat, needs : SUBSET Nat, expires : BOOLEAN])
      /\ \A s \in Steps : Flow[s].when < s /\ Flow[s].needs \subseteq 1 .. s - 1
  BY FlowAssumption
<1>2. Len(Flow) \in Nat /\ DOMAIN Flow = 1 .. Len(Flow)
  BY <1>1
<1>3. \A s \in 1 .. Len(Flow) : Flow[s] \in [kind : Kinds, when : Nat, needs : SUBSET Nat, expires : BOOLEAN]
  BY <1>1, ElementOfSeq
<1> QED
  BY <1>1, <1>2, <1>3 DEF Steps

\* Appending an event to a run.
LEMMA AppendedEvent ==
    ASSUME NEW events \in Seq(FlowEvents), NEW e \in FlowEvents
    PROVE  /\ Append(events, e) \in Seq(FlowEvents)
           /\ DOMAIN events = 1 .. Len(events) /\ Len(events) \in Nat
           /\ DOMAIN Append(events, e) = 1 .. Len(events) + 1
           /\ \A i \in DOMAIN events : Append(events, e)[i] = events[i] /\ i <= Len(events)
           /\ Append(events, e)[Len(events) + 1] = e
           /\ \A i \in DOMAIN Append(events, e) : i \in DOMAIN events \/ i = Len(events) + 1
           /\ Append(events, e) # <<>>
OBVIOUS

LEMMA BehindGrows ==
    ASSUME NEW events \in Seq(FlowEvents), NEW e \in FlowEvents, NEW s, Behind(events, s)
    PROVE  Behind(Append(events, e), s)
<1>1. /\ \A i \in DOMAIN events : i \in DOMAIN Append(events, e) /\ Append(events, e)[i] = events[i]
  BY AppendedEvent
<1> QED
  BY <1>1 DEF Behind

\* A step taken leaves one gate more behind, if it was one that nothing may skip.
LEMMA BehindNext ==
    ASSUME NEW events, NEW s \in Steps, Behind(events, s),
           Flow[s].kind = "gate" /\ Flow[s].when = NoStep =>
               \E j \in DOMAIN events :
                 events[j].type = "gate_resolved" /\ events[j].step = s /\ events[j].info = "approve"
    PROVE  Behind(events, s + 1)
<1>1. \A g \in 1 .. (s + 1) - 1 : g \in 1 .. s - 1 \/ g = s
  BY StepsFact
<1> QED
  BY <1>1 DEF Behind

\* A step of a process that appends an event to its run, or none.
LEMMA ProcessStep ==
    ASSUME GateInv, NEW p \in FlowProcesses, NEW c, ctx' = [ctx EXCEPT ![p] = c],
           \/ log' = log
           \/ \E e \in FlowEvents :
                /\ log' = [log EXCEPT ![ctx[p].run] = Append(@, e)]
                /\ e.type \in {"gate_pending", "step_started"} => Behind(log[ctx[p].run], e.step),
           \A s \in Steps : p \in Replayers /\ Flow[s].kind = "gate" /\ c.outputs[s] = "truthy" =>
                Resolutions(c.source, s) # {} /\ Decision(c.source, s) = "approve",
           PlaceHolds(p)'
    PROVE  GateInv'
<1>1. /\ log = [r \in Runs |-> log[r]] /\ ctx = [q \in FlowProcesses |-> ctx[q]]
      /\ ctx[p].run \in Runs
      /\ \A r \in Runs : log[r] \in Seq(FlowEvents)
  BY DEF GateInv, EventsHold, PlaceHolds, FlowContexts
<1>2. /\ ctx' = [q \in FlowProcesses |-> ctx'[q]] /\ ctx'[p] = c
      /\ \A q \in FlowProcesses : q # p => ctx'[q] = ctx[q]
  BY <1>1
<1>3. \A r \in Runs : \/ log'[r] = log[r]
                      \/ \E e \in FlowEvents :
                           /\ log'[r] = Append(log[r], e)
                           /\ e.type \in {"gate_pending", "step_started"} => Behind(log[r], e.step)
  BY <1>1
<1>4. log' = [r \in Runs |-> log'[r]]
  BY <1>1
<1>5. \A r \in Runs : \A s : Behind(log[r], s) => Behind(log'[r], s)
  <2> SUFFICES ASSUME NEW r \in Runs, NEW s, Behind(log[r], s) PROVE Behind(log'[r], s)
    OBVIOUS
  <2>1. CASE log'[r] = log[r]
    BY <2>1
  <2>2. CASE \E e \in FlowEvents : log'[r] = Append(log[r], e)
    BY <1>1, <2>2, BehindGrows
  <2> QED
    BY <1>3, <2>1, <2>2
<1>6. EventsHold'
  <2> SUFFICES ASSUME NEW r \in Runs
               PROVE  /\ log'[r] \in Seq(FlowEvents)
                      /\ \A i \in DOMAIN log'[r] :
                           log'[r][i].type = "gate_pending" => Behind(log'[r], log'[r][i].step)
    BY DEF EventsHold, Behind
  <2>1. CASE log'[r] = log[r]
    BY <2>1 DEF GateInv, EventsHold
  <2>2. CASE \E e \in FlowEvents :
               /\ log'[r] = Append(log[r], e)
               /\ e.type \in {"gate_pending", "step_started"} => Behind(log[r], e.step)
    <3>1. PICK e \in FlowEvents :
               /\ log'[r] = Append(log[r], e)
               /\ e.type \in {"gate_pending", "step_started"} => Behind(log[r], e.step)
      BY <2>2
    <3>2. \A i \in DOMAIN log[r] : log[r][i].type = "gate_pending" => Behind(log[r], log[r][i].step)
      BY DEF GateInv, EventsHold
    <3>3. /\ log'[r] \in Seq(FlowEvents) /\ log'[r][Len(log[r]) + 1] = e
          /\ \A i \in DOMAIN log[r] : log'[r][i] = log[r][i]
          /\ \A i \in DOMAIN log'[r] : i \in DOMAIN log[r] \/ i = Len(log[r]) + 1
      BY <1>1, <3>1, AppendedEvent
    <3>4. \A s : Behind(log[r], s) => Behind(log'[r], s)
      BY <1>5
    <3> QED
      BY <3>1, <3>2, <3>3, <3>4
  <2> QED
    BY <1>3, <2>1, <2>2
<1>7. ApprovedFirst'
  <2> SUFFICES ASSUME NEW r \in Runs, NEW i \in DOMAIN log'[r], log'[r][i].type = "step_started",
                      NEW g \in 1 .. log'[r][i].step - 1,
                      Flow[g].kind = "gate", Flow[g].when = NoStep
               PROVE  \E j \in 1 .. i - 1 :
                        /\ log'[r][j].type = "gate_resolved" /\ log'[r][j].step = g
                        /\ log'[r][j].info = "approve"
    BY DEF ApprovedFirst
  <2>1. \A k \in DOMAIN log[r] : log[r][k].type = "step_started" =>
           \A h \in 1 .. log[r][k].step - 1 :
              Flow[h].kind = "gate" /\ Flow[h].when = NoStep =>
                \E j \in 1 .. k - 1 :
                    log[r][j].type = "gate_resolved" /\ log[r][j].step = h
                    /\ log[r][j].info = "approve"
    BY DEF GateInv, ApprovedFirst
  <2>2. CASE log'[r] = log[r]
    BY <2>1, <2>2
  <2>3. CASE \E e \in FlowEvents :
               /\ log'[r] = Append(log[r], e)
               /\ e.type \in {"gate_pending", "step_started"} => Behind(log[r], e.step)
    <3>1. PICK e \in FlowEvents :
               /\ log'[r] = Append(log[r], e)
               /\ e.type \in {"gate_pending", "step_started"} => Behind(log[r], e.step)
      BY <2>3
    <3>2. /\ DOMAIN log[r] = 1 .. Len(log[r]) /\ Len(log[r]) \in Nat
          /\ \A k \in DOMAIN log[r] : log'[r][k] = log[r][k]
          /\ i \in DOMAIN log[r] \/ i = Len(log[r]) + 1
          /\ log'[r][Len(log[r]) + 1] = e
      BY <1>1, <3>1, AppendedEvent
    <3>3. CASE i \in DOMAIN log[r]
      <4>1. PICK j \in 1 .. i - 1 :
                    log[r][j].type = "gate_resolved" /\ log[r][j].step = g
                    /\ log[r][j].info = "approve"
        BY <2>1, <3>2, <3>3
      <4>2. j \in DOMAIN log[r]
        BY <3>2, <3>3
      <4> QED
        BY <3>2, <4>1, <4>2
    <3>4. CASE i = Len(log[r]) + 1
      <4>1. Behind(log[r], e.step) /\ log'[r][i] = e
        BY <3>1, <3>2, <3>4
      <4>2. PICK j \in DOMAIN log[r] :
                    log[r][j].type = "gate_resolved" /\ log[r][j].step = g
                    /\ log[r][j].info = "approve"
        BY <4>1 DEF Behind
      <4>3. j \in 1 .. i - 1
        BY <3>2, <3>4
      <4> QED
        BY <3>2, <4>2, <4>3
    <3> QED
      BY <3>2, <3>3, <3>4
  <2> QED
    BY <1>3, <2>2, <2>3
<1>8. ReplayGrantsRecorded'
  <2>1. \A q \in FlowProcesses : q = p \/ ctx'[q] = ctx[q]
    BY <1>2
  <2> QED
    BY <1>2, <2>1 DEF GateInv, ReplayGrantsRecorded, FlowProcesses
<1>9. ASSUME NEW q \in FlowProcesses PROVE PlaceHolds(q)'
  <2>1. CASE q = p
    BY <2>1
  <2>2. CASE q # p
    <3>1. PlaceHolds(q) /\ ctx'[q] = ctx[q] /\ ctx[q].run \in Runs
      BY <1>2, <2>2 DEF GateInv, PlaceHolds, FlowContexts
    <3>2. Behind(log[ctx[q].run], ctx[q].next) => Behind(log'[ctx[q].run], ctx[q].next)
      BY <1>5, <3>1
    <3>3. (Active(q)' <=> Active(q)) /\ StepOf(q)' = StepOf(q)
      BY <3>1 DEF Active, StepOf
    <3>4. Active(q)' => Behind(log'[ctx'[q].run], ctx'[q].next)
      BY <3>1, <3>2, <3>3 DEF PlaceHolds
    <3> HIDE DEF FlowContexts
    <3>5. Active(q)' => Behind(log[ctx[q].run], ctx[q].next)'
      BY <3>4 DEF Behind
    <3> QED
      BY <3>1, <3>3, <3>5 DEF PlaceHolds
  <2> QED
    BY <2>1, <2>2
<1> QED
  BY <1>2, <1>4, <1>6, <1>7, <1>8, <1>9 DEF GateInv

\* What the first n events used.
Sums(events, n, f) ==
    f = [i \in 0 .. n |-> IF i = 0 THEN 0 ELSE f[i - 1] + events[i].tokens]

LEMMA SumsTyped ==
    ASSUME NEW events \in Seq(FlowEvents), NEW n \in 0 .. Len(events), NEW f, Sums(events, n, f)
    PROVE  \A i \in 0 .. n : f[i] \in Nat
<1> DEFINE Bad == {i \in 0 .. n : f[i] \notin Nat}
<1>1. \A i \in 0 .. n : f[i] = IF i = 0 THEN 0 ELSE f[i - 1] + events[i].tokens
  BY DEF Sums
<1>2. \A i \in 1 .. Len(events) : events[i].tokens \in Nat
  BY ElementOfSeq DEF FlowEvents
<1>3. SUFFICES ASSUME Bad # {} PROVE FALSE
  OBVIOUS
<1>4. Bad \in SUBSET Nat
  OBVIOUS
<1>5. PICK least \in Bad : \A i \in Bad : least <= i
  BY <1>3, <1>4, LeastNumber
<1>6. least # 0
  BY <1>1, <1>5
<1>7. least - 1 \in 0 .. n /\ least - 1 \notin Bad
  BY <1>5, <1>6
<1>8. f[least - 1] \in Nat /\ least \in 1 .. Len(events) /\ least \in 0 .. n
  BY <1>5, <1>6, <1>7
<1>9. f[least] = f[least - 1] + events[least].tokens
  BY <1>1, <1>6, <1>8
<1> QED
  BY <1>2, <1>5, <1>8, <1>9

LEMMA SumsUnique ==
    ASSUME NEW events \in Seq(FlowEvents), NEW n \in 0 .. Len(events),
           NEW f, Sums(events, n, f), NEW g, Sums(events, n, g)
    PROVE  f = g
<1> DEFINE Bad == {i \in 0 .. n : f[i] # g[i]}
<1>1. /\ \A i \in 0 .. n : f[i] = IF i = 0 THEN 0 ELSE f[i - 1] + events[i].tokens
      /\ f = [i \in 0 .. n |-> f[i]]
  BY DEF Sums
<1>2. /\ \A i \in 0 .. n : g[i] = IF i = 0 THEN 0 ELSE g[i - 1] + events[i].tokens
      /\ g = [i \in 0 .. n |-> g[i]]
  BY DEF Sums
<1>3. CASE Bad # {}
  <2>1. Bad \in SUBSET Nat
    OBVIOUS
  <2>2. PICK least \in Bad : \A i \in Bad : least <= i
    BY <1>3, <2>1, LeastNumber
  <2>3. least # 0
    BY <1>1, <1>2, <2>2
  <2>4. least - 1 \in 0 .. n /\ least - 1 \notin Bad
    BY <2>2, <2>3
  <2> QED
    BY <1>1, <1>2, <2>2, <2>3, <2>4
<1>4. CASE Bad = {}
  BY <1>1, <1>2, <1>4
<1> QED
  BY <1>3, <1>4

LEMMA SumsExist ==
    ASSUME NEW events \in Seq(FlowEvents)
    PROVE  \A n \in 0 .. Len(events) : \E f : Sums(events, n, f)
<1> DEFINE Bad == {n \in 0 .. Len(events) : ~\E f : Sums(events, n, f)}
<1>1. SUFFICES ASSUME Bad # {} PROVE FALSE
  OBVIOUS
<1>2. Bad \in SUBSET Nat
  OBVIOUS
<1>3. PICK least \in Bad : \A n \in Bad : least <= n
  BY <1>1, <1>2, LeastNumber
<1>4. CASE least = 0
  <2> DEFINE zero == [i \in 0 .. 0 |-> 0]
  <2>1. zero = [i \in 0 .. 0 |-> IF i = 0 THEN 0 ELSE zero[i - 1] + events[i].tokens]
    OBVIOUS
  <2>2. Sums(events, 0, zero)
    BY <2>1 DEF Sums
  <2> QED
    BY <1>3, <1>4, <2>2
<1>5. CASE least # 0
  <2>1. least - 1 \in 0 .. Len(events) /\ least - 1 \notin Bad
    BY <1>3, <1>5
  <2>2. PICK f : Sums(events, least - 1, f)
    BY <2>1
  <2> DEFINE more == [i \in 0 .. least |-> IF i = least THEN f[least - 1] + events[least].tokens ELSE f[i]]
  <2>3. \A i \in 0 .. least - 1 : f[i] = IF i = 0 THEN 0 ELSE f[i - 1] + events[i].tokens
    BY <2>2 DEF Sums
  <2>4. \A i \in 0 .. least : more[i] = IF i = 0 THEN 0 ELSE more[i - 1] + events[i].tokens
    <3> SUFFICES ASSUME NEW i \in 0 .. least
                 PROVE  more[i] = IF i = 0 THEN 0 ELSE more[i - 1] + events[i].tokens
      OBVIOUS
    <3>1. CASE i = least
      BY <1>3, <1>5, <3>1
    <3>2. CASE i # least
      BY <1>3, <1>5, <2>3, <3>2
    <3> QED
      BY <3>1, <3>2
  <2>5. more = [i \in 0 .. least |-> IF i = 0 THEN 0 ELSE more[i - 1] + events[i].tokens]
    <3> DEFINE other == [i \in 0 .. least |-> IF i = 0 THEN 0 ELSE more[i - 1] + events[i].tokens]
    <3>1. \A i \in 0 .. least : more[i] = other[i]
      BY <2>4
    <3>2. more = [i \in 0 .. least |-> more[i]] /\ other = [i \in 0 .. least |-> other[i]]
      OBVIOUS
    <3> QED
      BY <3>1, <3>2
  <2> HIDE DEF more
  <2> QED
    BY <1>3, <2>5 DEF Sums
<1> QED
  BY <1>4, <1>5

\* The tokens of a run are the sum of what its events used.
LEMMA UsedSum ==
    ASSUME NEW events \in Seq(FlowEvents)
    PROVE  \E f : Sums(events, Len(events), f) /\ TokensUsed(events) = f[Len(events)]
<1>1. TokensUsed(events) = (CHOOSE f : Sums(events, Len(events), f))[Len(events)]
  BY DEF TokensUsed, Sums
<1>2. Len(events) \in 0 .. Len(events)
  OBVIOUS
<1>3. \E f : Sums(events, Len(events), f)
  BY <1>2, SumsExist
<1> QED
  BY <1>1, <1>3

LEMMA UsedFact ==
    ASSUME NEW events \in Seq(FlowEvents)
    PROVE  /\ TokensUsed(events) \in Nat
           /\ events = <<>> => TokensUsed(events) = 0
           /\ \A e \in FlowEvents : TokensUsed(Append(events, e)) = TokensUsed(events) + e.tokens
<1>1. PICK f : Sums(events, Len(events), f) /\ TokensUsed(events) = f[Len(events)]
  BY UsedSum
<1>2. Len(events) \in Nat /\ Len(events) \in 0 .. Len(events)
  OBVIOUS
<1>3. TokensUsed(events) \in Nat
  BY <1>1, <1>2, SumsTyped
<1>4. events = <<>> => TokensUsed(events) = 0
  BY <1>1 DEF Sums
<1>5. ASSUME NEW e \in FlowEvents
      PROVE  TokensUsed(Append(events, e)) = TokensUsed(events) + e.tokens
  <2> DEFINE more == Append(events, e)
  <2>1. /\ more \in Seq(FlowEvents) /\ Len(more) = Len(events) + 1
        /\ \A i \in 1 .. Len(events) : more[i] = events[i]
        /\ more[Len(more)] = e
    OBVIOUS
  <2> HIDE DEF more
  <2>2. PICK g : Sums(more, Len(more), g) /\ TokensUsed(more) = g[Len(more)]
    BY <2>1, UsedSum
  <2> DEFINE h == [i \in 0 .. Len(events) |-> g[i]]
  <2>3. \A i \in 0 .. Len(more) : g[i] = IF i = 0 THEN 0 ELSE g[i - 1] + more[i].tokens
    BY <2>2 DEF Sums
  <2>4. \A i \in 0 .. Len(events) : h[i] = IF i = 0 THEN 0 ELSE h[i - 1] + events[i].tokens
    <3> SUFFICES ASSUME NEW i \in 0 .. Len(events)
                 PROVE  h[i] = IF i = 0 THEN 0 ELSE h[i - 1] + events[i].tokens
      OBVIOUS
    <3>1. i \in 0 .. Len(more) /\ h[i] = g[i] /\ (i # 0 => h[i - 1] = g[i - 1] /\ i \in 1 .. Len(events))
      BY <1>2, <2>1
    <3> QED
      BY <2>1, <2>3, <3>1
  <2>5. h = [i \in 0 .. Len(events) |-> IF i = 0 THEN 0 ELSE h[i - 1] + events[i].tokens]
    <3> DEFINE other == [i \in 0 .. Len(events) |-> IF i = 0 THEN 0 ELSE h[i - 1] + events[i].tokens]
    <3>1. \A i \in 0 .. Len(events) : h[i] = other[i]
      BY <2>4
    <3>2. h = [i \in 0 .. Len(events) |-> h[i]] /\ other = [i \in 0 .. Len(events) |-> other[i]]
      OBVIOUS
    <3> QED
      BY <3>1, <3>2
  <2>6. h = f
    <3> HIDE DEF h
    <3>1. Sums(events, Len(events), h)
      BY <2>5 DEF Sums
    <3> QED
      BY <1>1, <1>2, <3>1, SumsUnique
  <2>7. g[Len(events)] = f[Len(events)]
    BY <1>2, <2>6
  <2>8. g[Len(more)] = g[Len(events)] + e.tokens
    BY <1>2, <2>1, <2>3
  <2> QED
    BY <1>1, <2>2, <2>7, <2>8 DEF more
<1> QED
  BY <1>3, <1>4, <1>5

\* The last event that moves the status, or writes an output, is there.
LEMMA LastTurnThere ==
    ASSUME NEW events \in Seq(FlowEvents), Turns(events) # {}
    PROVE  /\ Max(Turns(events)) \in Turns(events) /\ Max(Turns(events)) \in DOMAIN events
           /\ LastTurn(events) = events[Max(Turns(events))] /\ LastTurn(events) \in FlowEvents
           /\ LastTurn(events).type \in {"gate_pending", "gate_resolved", "run_finished"}
<1>1. Len(events) \in Nat /\ DOMAIN events = 1 .. Len(events)
  OBVIOUS
<1>2. Turns(events) \in SUBSET (1 .. Len(events))
  BY <1>1 DEF Turns
<1>3. Max(Turns(events)) \in Turns(events)
  BY <1>1, <1>2, LastPosition
<1> HIDE DEF Turns
<1>4. LastTurn(events) \in FlowEvents
  BY <1>1, <1>2, <1>3, ElementOfSeq DEF LastTurn
<1>5. \A i \in Turns(events) : events[i].type \in {"gate_pending", "gate_resolved", "run_finished"}
  BY DEF Turns
<1> QED
  BY <1>1, <1>2, <1>3, <1>4, <1>5 DEF LastTurn

LEMMA LastWriteThere ==
    ASSUME NEW events \in Seq(FlowEvents), NEW s, Writes(events, s) # {}
    PROVE  Max(Writes(events, s)) \in Writes(events, s) /\ Max(Writes(events, s)) \in DOMAIN events
<1>1. Len(events) \in Nat /\ DOMAIN events = 1 .. Len(events)
  OBVIOUS
<1>2. Writes(events, s) \in SUBSET (1 .. Len(events))
  BY <1>1 DEF Writes
<1> QED
  BY <1>1, <1>2, LastPosition

LEMMA FirstResolutionThere ==
    ASSUME NEW events \in Seq(FlowEvents), NEW s, Resolutions(events, s) # {}
    PROVE  /\ Min(Resolutions(events, s)) \in DOMAIN events
           /\ events[Min(Resolutions(events, s))].type = "gate_resolved"
<1>1. Len(events) \in Nat /\ DOMAIN events = 1 .. Len(events)
  OBVIOUS
<1>2. Resolutions(events, s) \in SUBSET Nat
  BY <1>1 DEF Resolutions
<1>3. Min(Resolutions(events, s)) \in Resolutions(events, s)
  BY <1>2, LeastNumber
<1> QED
  BY <1>3 DEF Resolutions

LEMMA StatusRead ==
    ASSUME NEW events \in Seq(FlowEvents), Status(events) = "awaiting_approval"
    PROVE  /\ PendingGate(events) \in Steps
           /\ \E i \in DOMAIN events :
                events[i].type = "gate_pending" /\ events[i].step = PendingGate(events)
           /\ Flow[PendingGate(events)].kind = "gate"
<1>1. Turns(events) # {}
  BY DEF Status
<1>2. LastTurn(events).type = "run_finished" => LastTurn(events).info \in Verdicts
  BY <1>1, LastTurnThere DEF FlowEvents, EventOK
<1>3. LastTurn(events).type = "gate_pending"
  BY <1>1, <1>2, LastTurnThere DEF Status, Verdicts
<1>4. PendingGate(events) = LastTurn(events).step
  BY DEF PendingGate
<1>5. LastTurn(events).step \in Steps /\ Flow[LastTurn(events).step].kind = "gate"
  BY <1>1, <1>3, LastTurnThere DEF FlowEvents, EventOK
<1> QED
  BY <1>1, <1>3, <1>4, <1>5, LastTurnThere

LEMMA OutputsRead ==
    ASSUME NEW events \in Seq(FlowEvents)
    PROVE  RecordedOutputs(events) \in Outputs
<1>1. ASSUME NEW s \in Steps
      PROVE  RecordedOutputs(events)[s] \in {"none", "truthy", "falsy"}
  <2>1. CASE Writes(events, s) = {}
    BY <2>1 DEF RecordedOutputs
  <2>2. CASE Writes(events, s) # {}
    <3> DEFINE e == events[Max(Writes(events, s))]
    <3> DEFINE last == Max(Writes(events, s))
    <3>0. last \in Writes(events, s) /\ last \in DOMAIN events
      BY <2>2, LastWriteThere
    <3> HIDE DEF last
    <3>a. events[last].type = "step_completed" \/ events[last].type = "gate_resolved"
      BY <3>0 DEF Writes
    <3>1. last \in DOMAIN events /\ (e.type = "step_completed" \/ e.type = "gate_resolved")
      BY <3>0, <3>a DEF last
    <3> USE DEF last
    <3>2. e \in FlowEvents
      BY <3>1, ElementOfSeq
    <3>3. e.type = "step_completed" => e.info \in {"none", "truthy", "falsy"}
      BY <3>2 DEF FlowEvents, EventOK
    <3>4. RecordedOutputs(events)[s] = IF e.type = "gate_resolved" THEN "truthy" ELSE e.info
      BY <2>2 DEF RecordedOutputs
    <3> QED
      BY <3>1, <3>3, <3>4
  <2> QED
    BY <2>1, <2>2
<1> QED
  BY <1>1 DEF RecordedOutputs, Outputs

LEMMA DecisionRead ==
    ASSUME NEW events \in Seq(FlowEvents), NEW s, Resolutions(events, s) # {}
    PROVE  Decision(events, s) \in {"approve", "reject"}
<1>1. Min(Resolutions(events, s)) \in DOMAIN events /\ events[Min(Resolutions(events, s))].type = "gate_resolved"
  BY FirstResolutionThere
<1>2. events[Min(Resolutions(events, s))] \in FlowEvents
  BY <1>1, ElementOfSeq
<1> QED
  BY <1>1, <1>2 DEF FlowEvents, EventOK, Decision

\* What a run says once an event is appended to it.
LEMMA MaxOfMore ==
    ASSUME NEW n \in Nat, NEW S \in SUBSET (1 .. n)
    PROVE  Max(S \cup {n + 1}) = n + 1
<1>1. n + 1 \in S \cup {n + 1} /\ \A i \in S \cup {n + 1} : n + 1 >= i
  OBVIOUS
<1>2. \A x \in S \cup {n + 1} : (\A y \in S \cup {n + 1} : x >= y) => x = n + 1
  OBVIOUS
<1> QED
  BY <1>1, <1>2 DEF Max

LEMMA StatusAppended ==
    ASSUME NEW events \in Seq(FlowEvents), NEW e \in FlowEvents
    PROVE  /\ e.type \notin {"gate_pending", "gate_resolved", "run_finished"} =>
                /\ Status(Append(events, e)) = Status(events)
                /\ PendingGate(Append(events, e)) = PendingGate(events)
           /\ e.type = "gate_pending" =>
                Status(Append(events, e)) = "awaiting_approval" /\ PendingGate(Append(events, e)) = e.step
           /\ e.type = "gate_resolved" => Status(Append(events, e)) = "running"
           /\ e.type = "run_finished" =>
                Status(Append(events, e)) # "awaiting_approval"
<1> DEFINE more == Append(events, e)
<1>1. /\ DOMAIN events = 1 .. Len(events) /\ Len(events) \in Nat
      /\ DOMAIN more = 1 .. Len(events) + 1
      /\ \A i \in DOMAIN events : more[i] = events[i]
      /\ more[Len(events) + 1] = e
  BY AppendedEvent
<1> HIDE DEF more
<1>2. CASE e.type \notin {"gate_pending", "gate_resolved", "run_finished"}
  <2>1. Turns(more) = Turns(events)
    BY <1>1, <1>2 DEF Turns
  <2>2. Turns(events) # {} => LastTurn(more) = LastTurn(events)
    <3>1. Turns(events) # {} => Max(Turns(events)) \in DOMAIN events
      BY LastTurnThere
    <3> QED
      BY <1>1, <2>1, <3>1 DEF LastTurn
  <2>3. Status(more) = Status(events)
    <3>1. CASE Turns(events) = {}
      BY <2>1, <3>1 DEF Status
    <3>2. CASE Turns(events) # {}
      BY <2>1, <2>2, <3>2, LastTurnThere DEF Status
    <3> QED
      BY <3>1, <3>2
  <2>4. Status(events) = "awaiting_approval" => Turns(events) # {}
    BY DEF Status
  <2> QED
    BY <1>2, <2>2, <2>3, <2>4 DEF more, PendingGate
<1>3. CASE e.type \in {"gate_pending", "gate_resolved", "run_finished"}
  <2>1. Turns(events) \in SUBSET (1 .. Len(events))
    BY <1>1 DEF Turns
  <2>2. Turns(more) = Turns(events) \cup {Len(events) + 1}
    BY <1>1, <1>3 DEF Turns
  <2>3. LastTurn(more) = e
    BY <1>1, <2>1, <2>2, MaxOfMore DEF LastTurn
  <2>4. e.type = "run_finished" => e.info \in Verdicts
    BY DEF FlowEvents, EventOK
  <2> QED
    BY <1>3, <2>2, <2>3, <2>4 DEF more, Status, PendingGate, Verdicts
<1> QED
  BY <1>2, <1>3

LEMMA OutputsAppended ==
    ASSUME NEW events \in Seq(FlowEvents), NEW e \in FlowEvents
    PROVE  /\ e.type \notin {"step_completed", "gate_resolved"} =>
                RecordedOutputs(Append(events, e)) = RecordedOutputs(events)
           /\ e.type = "gate_resolved" /\ e.info # "approve" =>
                RecordedOutputs(Append(events, e)) = RecordedOutputs(events)
           /\ e.type = "gate_resolved" /\ e.info = "approve" =>
                RecordedOutputs(Append(events, e)) = [RecordedOutputs(events) EXCEPT ![e.step] = "truthy"]
           /\ e.type = "step_completed" =>
                RecordedOutputs(Append(events, e)) = [RecordedOutputs(events) EXCEPT ![e.step] = e.info]
<1> DEFINE more == Append(events, e)
           Written(s) == e.step = s /\ (e.type = "step_completed" \/ (e.type = "gate_resolved" /\ e.info = "approve"))
<1>1. /\ DOMAIN events = 1 .. Len(events) /\ Len(events) \in Nat
      /\ DOMAIN more = 1 .. Len(events) + 1
      /\ \A i \in DOMAIN events : more[i] = events[i]
      /\ more[Len(events) + 1] = e
  BY AppendedEvent
<1> HIDE DEF more
<1>2. ASSUME NEW s \in Steps, ~Written(s)
      PROVE  RecordedOutputs(more)[s] = RecordedOutputs(events)[s]
  <2>1. Writes(more, s) = Writes(events, s)
    BY <1>1, <1>2 DEF Writes
  <2>2. Writes(events, s) # {} => Max(Writes(events, s)) \in DOMAIN events
    BY LastWriteThere
  <2> QED
    BY <1>1, <2>1, <2>2 DEF RecordedOutputs
<1>3. ASSUME NEW s \in Steps, Written(s)
      PROVE  RecordedOutputs(more)[s] = IF e.type = "gate_resolved" THEN "truthy" ELSE e.info
  <2>1. Writes(events, s) \in SUBSET (1 .. Len(events))
    BY <1>1 DEF Writes
  <2>2. Writes(more, s) = Writes(events, s) \cup {Len(events) + 1}
    BY <1>1, <1>3 DEF Writes
  <2>3. more[Max(Writes(more, s))] = e
    BY <1>1, <2>1, <2>2, MaxOfMore
  <2> QED
    BY <2>2, <2>3 DEF RecordedOutputs
<1>4. \A x : RecordedOutputs(x) = [s \in Steps |-> RecordedOutputs(x)[s]]
  BY DEF RecordedOutputs
<1>5. CASE \A s \in Steps : ~Written(s)
  <2>1. RecordedOutputs(more) = RecordedOutputs(events)
    BY <1>2, <1>4, <1>5
  <2>2. e.type \in {"step_completed", "gate_resolved"} => e.step \in Steps
    BY DEF FlowEvents, EventOK
  <2> QED
    BY <1>5, <2>1, <2>2 DEF more
<1>6. CASE \E s \in Steps : Written(s)
  <2> DEFINE value == IF e.type = "gate_resolved" THEN "truthy" ELSE e.info
             old == RecordedOutputs(events)  new == RecordedOutputs(more)
  <2>1. e.step \in Steps /\ Written(e.step)
    BY <1>6
  <2>2. new[e.step] = value /\ \A s \in Steps : s # e.step => new[s] = old[s]
    BY <1>2, <1>3, <2>1
  <2>3. new = [s \in Steps |-> new[s]] /\ old = [s \in Steps |-> old[s]]
    BY <1>4
  <2> HIDE DEF new, old
  <2>4. new = [old EXCEPT ![e.step] = value]
    BY <2>1, <2>2, <2>3
  <2> QED
    BY <2>1, <2>4 DEF more, new, old
<1> QED
  BY <1>5, <1>6
--------------------------------------------------------------------------------
\* A process that acts stays where it is, and appends an event or none.
Appended(p, e) ==
    /\ e \in FlowEvents /\ log' = [log EXCEPT ![ctx[p].run] = Append(@, e)]
    /\ e.type \in {"gate_pending", "step_started"} => e.step = ctx[p].next

LEMMA ActiveFact ==
    ASSUME GateInv, NEW p \in FlowProcesses, Active(p)
    PROVE  /\ ctx[p] \in FlowContexts /\ ctx[p].run \in Runs /\ log[ctx[p].run] \in Seq(FlowEvents)
           /\ log = [r \in Runs |-> log[r]] /\ ctx = [q \in FlowProcesses |-> ctx[q]]
           /\ Behind(log[ctx[p].run], ctx[p].next)
           /\ p \in Replayers => ctx[p].run = p /\ ctx[p].replay # "no" /\ ctx[p].phase # "resolve"
           /\ p \notin Replayers =>
                ctx[p].run = "run" /\ ctx[p].replay = "no" /\ ctx[p].phase # "start"
           /\ ctx[p].next \in Nat /\ ctx[p].tokens \in Nat /\ ctx[p].outputs \in Outputs
           /\ ctx[p].source \in Seq(FlowEvents)
           /\ \A s \in Steps : p \in Replayers /\ Flow[s].kind = "gate" /\ ctx[p].outputs[s] = "truthy" =>
                Resolutions(ctx[p].source, s) # {} /\ Decision(ctx[p].source, s) = "approve"
<1>1. PlaceHolds(p) /\ EventsHold /\ ReplayGrantsRecorded
      /\ log = [r \in Runs |-> log[r]] /\ ctx = [q \in FlowProcesses |-> ctx[q]]
  BY DEF GateInv
<1>2. ctx[p] \in FlowContexts
  BY <1>1 DEF PlaceHolds
<1>3. /\ ctx[p].run \in Runs /\ ctx[p].next \in Nat /\ ctx[p].tokens \in Nat
      /\ ctx[p].outputs \in Outputs /\ ctx[p].source \in Seq(FlowEvents)
  BY <1>2 DEF FlowContexts
<1>4. ctx[p].phase # "idle"
  BY DEF Active
<1> HIDE DEF FlowContexts
<1> QED
  BY <1>1, <1>2, <1>3, <1>4 DEF PlaceHolds, EventsHold, ReplayGrantsRecorded

LEMMA StayStep ==
    ASSUME GateInv, NEW p \in FlowProcesses, Active(p), NEW c \in FlowContexts,
           ctx' = [ctx EXCEPT ![p] = c], log' = log \/ \E e : Appended(p, e),
           c.run = ctx[p].run, c.replay = ctx[p].replay, c.source = ctx[p].source,
           c.next = ctx[p].next, c.outputs = ctx[p].outputs,
           c.phase \notin {"idle", "start", "resolve"},
           c.phase \in {"call", "record", "fail"} => c.next \in Steps,
           c.phase \in {"call", "record"} => Flow[c.next].kind # "gate"
    PROVE  GateInv'
<1>1. \/ log' = log
      \/ \E e \in FlowEvents :
           /\ log' = [log EXCEPT ![ctx[p].run] = Append(@, e)]
           /\ e.type \in {"gate_pending", "step_started"} => Behind(log[ctx[p].run], e.step)
  BY ActiveFact DEF Appended
<1>2. ctx'[p] = c
  BY ActiveFact
<1>3. Behind(log'[c.run], c.next)
  <2>1. CASE log' = log
    BY <2>1, ActiveFact
  <2>2. CASE \E e : Appended(p, e)
    <3>1. PICK e : Appended(p, e)
      BY <2>2
    <3>2. log'[c.run] = Append(log[ctx[p].run], e) /\ e \in FlowEvents
      BY <3>1, ActiveFact DEF Appended
    <3> QED
      BY <3>2, ActiveFact, BehindGrows
  <2> QED
    BY <2>1, <2>2
<1>4. PlaceHolds(p)'
  <2>1. Behind(log[ctx[p].run], ctx[p].next)'
    BY <1>2, <1>3 DEF Behind
  <2> HIDE DEF FlowContexts
  <2> QED
    BY <1>2, <2>1, ActiveFact DEF PlaceHolds, StepOf
<1>5. \A s \in Steps : p \in Replayers /\ Flow[s].kind = "gate" /\ c.outputs[s] = "truthy" =>
                Resolutions(c.source, s) # {} /\ Decision(c.source, s) = "approve"
  BY ActiveFact
<1> QED
  BY <1>1, <1>4, <1>5, ProcessStep

\* A process that acts goes on to the next step.
LEMMA AdvanceStep ==
    ASSUME GateInv, NEW p \in FlowProcesses, Active(p), NEW c \in FlowContexts,
           ctx' = [ctx EXCEPT ![p] = c], NEW e, Appended(p, e),
           c.run = ctx[p].run, c.replay = ctx[p].replay, c.source = ctx[p].source,
           ctx[p].next \in Steps, c.next = ctx[p].next + 1, c.phase \in {"step", "finish"},
           Flow[ctx[p].next].kind = "gate" /\ Flow[ctx[p].next].when = NoStep =>
             e.type = "gate_resolved" /\ e.info = "approve" /\ e.step = ctx[p].next,
           \A s \in Steps : p \in Replayers /\ Flow[s].kind = "gate" /\ c.outputs[s] = "truthy" =>
                \/ ctx[p].outputs[s] = "truthy"
                \/ Resolutions(c.source, s) # {} /\ Decision(c.source, s) = "approve"
    PROVE  GateInv'
<1>1. /\ e \in FlowEvents /\ log' = [log EXCEPT ![ctx[p].run] = Append(@, e)]
      /\ e.type \in {"gate_pending", "step_started"} => Behind(log[ctx[p].run], e.step)
  BY ActiveFact DEF Appended
<1>2. ctx'[p] = c /\ log'[c.run] = Append(log[ctx[p].run], e)
  BY <1>1, ActiveFact
<1>3. Behind(log'[c.run], ctx[p].next)
  BY <1>1, <1>2, ActiveFact, BehindGrows
<1>4. Behind(log'[c.run], c.next)
  <2>1. /\ Len(log[ctx[p].run]) + 1 \in DOMAIN log'[c.run]
        /\ log'[c.run][Len(log[ctx[p].run]) + 1] = e
    BY <1>1, <1>2, ActiveFact, AppendedEvent
  <2> QED
    BY <1>3, <2>1, BehindNext
<1>5. PlaceHolds(p)'
  <2>0. ctx'[p].run = c.run /\ ctx'[p].next = c.next
    BY <1>2
  <2>1. Behind(log[ctx[p].run], ctx[p].next)'
    BY <1>4, <2>0 DEF Behind
  <2> HIDE DEF FlowContexts
  <2> QED
    BY <1>2, <2>1, ActiveFact DEF PlaceHolds, StepOf
<1>6. \A s \in Steps : p \in Replayers /\ Flow[s].kind = "gate" /\ c.outputs[s] = "truthy" =>
                Resolutions(c.source, s) # {} /\ Decision(c.source, s) = "approve"
  BY ActiveFact
<1> QED
  BY <1>1, <1>5, <1>6, ProcessStep

\* The events that the actions append, and what they change in the context.
LEMMA EventFact ==
    ASSUME NEW type \in FlowEventTypes, NEW step \in 0 .. Len(Flow), NEW info \in FlowInfos,
           EventOK(Event(type, step, info))
    PROVE  Event(type, step, info) \in FlowEvents
<1>1. Event(type, step, info) \in [type : FlowEventTypes, step : 0 .. Len(Flow), info : FlowInfos, tokens : Nat]
  BY DEF Event
<1> QED
  BY <1>1 DEF FlowEvents

LEMMA EventParts ==
    ASSUME NEW type, NEW step, NEW info
    PROVE  /\ Event(type, step, info).type = type /\ Event(type, step, info).step = step
           /\ Event(type, step, info).info = info /\ Event(type, step, info).tokens = 0
BY DEF Event

LEMMA EventAppended ==
    ASSUME GateInv, NEW p \in FlowProcesses, Active(p),
           NEW type \in FlowEventTypes, NEW step \in 0 .. Len(Flow), NEW info \in FlowInfos,
           Appends(p, Event(type, step, info)),
           type \in {"gate_pending", "gate_resolved", "step_started"} =>
              step = ctx[p].next /\ step \in Steps,
           type = "gate_resolved" => info \in {"approve", "reject"},
           type = "run_finished" => info \in Verdicts,
           type = "gate_pending" => Flow[step].kind = "gate",
           type # "step_completed"
    PROVE  Appended(p, Event(type, step, info))
<1>1. EventOK(Event(type, step, info))
  BY EventParts DEF EventOK
<1>2. Event(type, step, info) \in FlowEvents
  BY <1>1, EventFact
<1> QED
  BY <1>2, EventParts DEF Appended, Appends

LEMMA CompletedFact ==
    ASSUME NEW step \in Steps, NEW output \in {"none", "truthy", "falsy"}, NEW cost \in Nat,
           Flow[step].kind # "gate"
    PROVE  /\ StepCompleted(step, output, cost) \in FlowEvents
           /\ StepCompleted(step, output, cost).type = "step_completed"
           /\ StepCompleted(step, output, cost).step = step
           /\ StepCompleted(step, output, cost).info = output
           /\ StepCompleted(step, output, cost).tokens = cost
<1> DEFINE e == StepCompleted(step, output, cost)
<1>1. /\ e = [type |-> "step_completed", step |-> step, info |-> output, tokens |-> cost]
      /\ step \in 0 .. Len(Flow)
  BY StepsFact DEF StepCompleted, Steps
<1>2. e \in [type : FlowEventTypes, step : 0 .. Len(Flow), info : FlowInfos, tokens : Nat]
  <2>1. "step_completed" \in FlowEventTypes /\ output \in FlowInfos
    BY DEF FlowEventTypes, FlowInfos
  <2> QED
    BY <1>1, <2>1
<1>3. e.type = "step_completed" /\ e.step = step /\ e.info = output /\ e.tokens = cost
  BY Zenon DEF StepCompleted
<1>4. EventOK(e)
  BY <1>3 DEF EventOK
<1> QED
  BY <1>2, <1>3, <1>4 DEF FlowEvents

LEMMA PhaseEdit ==
    ASSUME NEW x \in FlowContexts, NEW phase \in Phases
    PROVE  [x EXCEPT !.phase = phase] \in FlowContexts
<1> DEFINE S == Seq(FlowEvents)
<1> HIDE DEF S
<1>1. x \in [phase : Phases, run : Runs, next : 1 .. Len(Flow) + 1, outputs : Outputs, tokens : Nat,
     attempt : 1 .. Retry + 1, item : 1 .. Items, decision : {"approve", "reject"},
     verdict : Verdicts, replay : {"no", "recorded", "live"}, source : S]
  BY DEF S, FlowContexts
<1>2. [x EXCEPT !.phase = phase] \in [phase : Phases, run : Runs, next : 1 .. Len(Flow) + 1, outputs : Outputs, tokens : Nat,
     attempt : 1 .. Retry + 1, item : 1 .. Items, decision : {"approve", "reject"},
     verdict : Verdicts, replay : {"no", "recorded", "live"}, source : S]
  BY <1>1
<1> QED
  BY <1>2 DEF S, FlowContexts

LEMMA EndEdit ==
    ASSUME NEW x \in FlowContexts, NEW verdict \in Verdicts
    PROVE  /\ [x EXCEPT !.phase = "finish", !.verdict = verdict] \in FlowContexts
           /\ LET y == [x EXCEPT !.phase = "finish", !.verdict = verdict]
              IN  /\ y.phase = "finish" /\ y.run = x.run /\ y.replay = x.replay
                  /\ y.source = x.source /\ y.next = x.next /\ y.outputs = x.outputs
                  /\ y.tokens = x.tokens
<1> DEFINE S == Seq(FlowEvents)
<1> HIDE DEF S
<1>0. "finish" \in Phases
  BY DEF Phases
<1>1. x \in [phase : Phases, run : Runs, next : 1 .. Len(Flow) + 1, outputs : Outputs, tokens : Nat,
     attempt : 1 .. Retry + 1, item : 1 .. Items, decision : {"approve", "reject"},
     verdict : Verdicts, replay : {"no", "recorded", "live"}, source : S]
  BY DEF S, FlowContexts
<1>2. [x EXCEPT !.phase = "finish", !.verdict = verdict] \in
       [phase : Phases, run : Runs, next : 1 .. Len(Flow) + 1, outputs : Outputs, tokens : Nat,
     attempt : 1 .. Retry + 1, item : 1 .. Items, decision : {"approve", "reject"},
     verdict : Verdicts, replay : {"no", "recorded", "live"}, source : S]
  BY <1>0, <1>1
<1>3. LET y == [x EXCEPT !.phase = "finish", !.verdict = verdict]
      IN  /\ y.phase = "finish" /\ y.run = x.run /\ y.replay = x.replay
          /\ y.source = x.source /\ y.next = x.next /\ y.outputs = x.outputs
          /\ y.tokens = x.tokens
  BY <1>1
<1> QED
  BY <1>2, <1>3 DEF S, FlowContexts

--------------------------------------------------------------------------------
LEMMA StartReplayStep ==
    ASSUME GateInv, NEW p \in FlowProcesses, StartReplay(p)
    PROVE  GateInv'
<1>1. Active(p) /\ ctx[p].phase = "start"
  BY DEF StartReplay, At, Active
<1> DEFINE e == Event("run_started", NoStep, "replay")  c == [ctx[p] EXCEPT !.phase = "step"]
<1>2. Appended(p, e)
  <2>1. "run_started" \in FlowEventTypes /\ NoStep \in 0 .. Len(Flow) /\ "replay" \in FlowInfos
    BY StepsFact DEF FlowEventTypes, FlowInfos, NoStep
  <2> QED
    BY <1>1, <2>1, EventAppended DEF StartReplay
<1>3. c \in FlowContexts /\ ctx' = [ctx EXCEPT ![p] = c]
  BY <1>1, ActiveFact, PhaseEdit DEF StartReplay, Moves, To, Phases
<1> QED
  BY <1>1, <1>2, <1>3, StayStep DEF FlowContexts

LEMMA MisfitStep ==
    ASSUME GateInv, NEW p \in FlowProcesses, Misfit(p)
    PROVE  GateInv'
<1>1. Active(p) /\ ctx[p].phase = "step" /\ ctx[p].next \in Steps /\ log' = log
  BY DEF Misfit, InSteps, At, Active
<1> DEFINE c == [ctx[p] EXCEPT !.phase = "fail"]
<1>2. c \in FlowContexts /\ ctx' = [ctx EXCEPT ![p] = c]
  BY <1>1, ActiveFact, PhaseEdit DEF Misfit, Moves, To, Phases
<1> QED
  BY <1>1, <1>2, StayStep DEF FlowContexts

LEMMA SkipStep ==
    ASSUME GateInv, NEW p \in FlowProcesses, Skip(p)
    PROVE  GateInv'
<1>1. /\ Active(p) /\ ctx[p].phase = "step" /\ ctx[p].next \in Steps
      /\ Flow[ctx[p].next].when # NoStep
  BY DEF Skip, InSteps, At, Active, Granted, StepOf
<1> DEFINE e == Event("step_skipped", ctx[p].next, "when")  c == [ctx[p] EXCEPT !.next = @ + 1]
<1>2. Appended(p, e)
  <2>1. "step_skipped" \in FlowEventTypes /\ ctx[p].next \in 0 .. Len(Flow) /\ "when" \in FlowInfos
    BY <1>1, StepsFact DEF FlowEventTypes, FlowInfos, Steps
  <2> QED
    BY <1>1, <2>1, EventAppended DEF Skip
<1>3. ctx[p] \in FlowContexts /\ ctx[p].next + 1 \in 1 .. Len(Flow) + 1
  BY <1>1, ActiveFact, StepsFact DEF Steps
<1>4. c \in FlowContexts /\ ctx' = [ctx EXCEPT ![p] = c]
  BY <1>3 DEF Skip, Moves, FlowContexts
<1>5. /\ c.run = ctx[p].run /\ c.replay = ctx[p].replay /\ c.source = ctx[p].source
      /\ c.next = ctx[p].next + 1 /\ c.phase = "step" /\ c.outputs = ctx[p].outputs
  BY <1>1, <1>3 DEF FlowContexts
<1> QED
  BY <1>1, <1>2, <1>4, <1>5, AdvanceStep

LEMMA PendGateStep ==
    ASSUME GateInv, NEW p \in FlowProcesses, PendGate(p)
    PROVE  GateInv'
<1>1. /\ Active(p) /\ ctx[p].phase = "step" /\ ctx[p].next \in Steps
      /\ Flow[ctx[p].next].kind = "gate"
  BY DEF PendGate, Due, InSteps, At, Active, StepOf
<1> DEFINE e == Event("gate_pending", ctx[p].next, "show")  c == [ctx[p] EXCEPT !.phase = "returned"]
<1>2. Appended(p, e)
  <2>1. "gate_pending" \in FlowEventTypes /\ ctx[p].next \in 0 .. Len(Flow) /\ "show" \in FlowInfos
    BY <1>1, StepsFact DEF FlowEventTypes, FlowInfos, Steps
  <2> QED
    BY <1>1, <2>1, EventAppended DEF PendGate
<1>3. c \in FlowContexts /\ ctx' = [ctx EXCEPT ![p] = c]
  BY <1>1, ActiveFact, PhaseEdit DEF PendGate, Moves, To, Phases
<1> QED
  BY <1>1, <1>2, <1>3, StayStep DEF FlowContexts

LEMMA ReplayMissesStep ==
    ASSUME GateInv, NEW p \in FlowProcesses, ReplayMisses(p)
    PROVE  GateInv'
<1>1. Active(p) /\ ctx[p].phase = "step" /\ ctx[p].next \in Steps /\ log' = log
  BY DEF ReplayMisses, Due, InSteps, At, Active
<1> DEFINE c == [ctx[p] EXCEPT !.phase = "fail"]
<1>2. c \in FlowContexts
  BY <1>1, ActiveFact, PhaseEdit DEF Phases
<1>3. ctx' = [ctx EXCEPT ![p] = c]
  BY DEF ReplayMisses, Moves, To
<1> QED
  BY <1>1, <1>2, <1>3, StayStep DEF FlowContexts

\* A process that goes on to finish, with an event or none.
LEMMA EndStep ==
    ASSUME GateInv, NEW p \in FlowProcesses, Active(p), NEW verdict \in Verdicts,
           Moves(p, EndsAs(p, verdict)), log' = log \/ \E e : Appended(p, e)
    PROVE  GateInv'
<1> DEFINE c == EndsAs(p, verdict)
<1>1. ctx[p] \in FlowContexts
  BY ActiveFact
<1>2. /\ c \in FlowContexts
      /\ c.phase = "finish" /\ c.run = ctx[p].run /\ c.replay = ctx[p].replay
      /\ c.source = ctx[p].source /\ c.next = ctx[p].next /\ c.outputs = ctx[p].outputs
  BY <1>1, EndEdit, Zenon DEF EndsAs
<1> HIDE DEF c
<1>3. ctx' = [ctx EXCEPT ![p] = c]
  BY DEF Moves, c
<1> QED
  BY <1>2, <1>3, StayStep

LEMMA StopForBudgetStep ==
    ASSUME GateInv, NEW p \in FlowProcesses, StopForBudget(p)
    PROVE  GateInv'
<1>1. Active(p) /\ log' = log
  BY DEF StopForBudget, Due, InSteps, At, Active
<1>2. Moves(p, EndsAs(p, "budget_exceeded")) /\ "budget_exceeded" \in Verdicts
  BY DEF StopForBudget, Verdicts
<1> QED
  BY <1>1, <1>2, EndStep

LEMMA CompleteStep ==
    ASSUME GateInv, NEW p \in FlowProcesses, Complete(p)
    PROVE  GateInv'
<1>1. Active(p) /\ log' = log
  BY DEF Complete, At, Active
<1>2. Moves(p, EndsAs(p, "completed")) /\ "completed" \in Verdicts
  BY DEF Complete, Verdicts
<1> QED
  BY <1>1, <1>2, EndStep

LEMMA FailStepStep ==
    ASSUME GateInv, NEW p \in FlowProcesses, FailStep(p)
    PROVE  GateInv'
<1>1. Active(p) /\ ctx[p].phase = "fail" /\ ctx[p].next \in Steps
  BY DEF FailStep, At, Active, GateInv, PlaceHolds
<1>2. Appended(p, Event("step_failed", ctx[p].next, ""))
  <2>1. "step_failed" \in FlowEventTypes /\ ctx[p].next \in 0 .. Len(Flow) /\ "" \in FlowInfos
    BY <1>1, StepsFact DEF FlowEventTypes, FlowInfos, Steps
  <2> QED
    BY <1>1, <2>1, EventAppended DEF FailStep
<1>3. Moves(p, EndsAs(p, "failed")) /\ "failed" \in Verdicts
  BY DEF FailStep, Verdicts
<1> QED
  BY <1>1, <1>2, <1>3, EndStep

LEMMA BeginStepStep ==
    ASSUME GateInv, NEW p \in FlowProcesses, BeginStep(p)
    PROVE  GateInv'
<1>1. /\ Active(p) /\ ctx[p].phase = "step" /\ ctx[p].next \in Steps
      /\ Flow[ctx[p].next].kind # "gate"
  BY DEF BeginStep, Due, InSteps, At, Active, StepOf
<1>2. Appended(p, Event("step_started", ctx[p].next, ""))
  <2>1. "step_started" \in FlowEventTypes /\ ctx[p].next \in 0 .. Len(Flow) /\ "" \in FlowInfos
    BY <1>1, StepsFact DEF FlowEventTypes, FlowInfos, Steps
  <2> QED
    BY <1>1, <2>1, EventAppended DEF BeginStep
<1>3. PICK phase \in {"record", "call"} :
         ctx' = [ctx EXCEPT ![p] = [ctx[p] EXCEPT !.phase = phase, !.attempt = 1, !.item = 1]]
  BY DEF BeginStep, Moves
<1> DEFINE c == [ctx[p] EXCEPT !.phase = phase, !.attempt = 1, !.item = 1]
<1>4. ctx[p] \in FlowContexts /\ 1 \in 1 .. Retry + 1 /\ 1 \in 1 .. Items /\ phase \in Phases
  BY <1>1, ActiveFact, FlowAssumption DEF Phases
<1>5. c \in FlowContexts
  BY <1>4 DEF FlowContexts
<1>6. /\ c.run = ctx[p].run /\ c.replay = ctx[p].replay /\ c.source = ctx[p].source
      /\ c.next = ctx[p].next /\ c.phase = phase /\ c.outputs = ctx[p].outputs
  BY <1>4 DEF FlowContexts
<1> HIDE DEF c
<1>7. ctx' = [ctx EXCEPT ![p] = c]
  BY <1>3 DEF c
<1> QED
  BY <1>1, <1>2, <1>5, <1>6, <1>7, StayStep

LEMMA CallStep ==
    ASSUME GateInv, NEW p \in FlowProcesses, CallSucceeds(p) \/ CallFails(p)
    PROVE  GateInv'
<1>1. /\ Active(p) /\ ctx[p].phase = "call" /\ log' = log
      /\ ctx[p].next \in Steps /\ Flow[ctx[p].next].kind # "gate"
  <2>1. ctx[p].phase = "call" /\ log' = log
    BY DEF CallSucceeds, CallFails, At
  <2> QED
    BY <2>1 DEF Active, GateInv, PlaceHolds, StepOf
<1>2. ctx[p] \in FlowContexts
  BY <1>1, ActiveFact
<1>3. PICK c : /\ ctx' = [ctx EXCEPT ![p] = c]
               /\ \/ c = [ctx[p] EXCEPT !.item = @ + 1, !.attempt = 1] /\ ctx[p].item < Items
                  \/ c = [ctx[p] EXCEPT !.phase = "record"]
                  \/ c = [ctx[p] EXCEPT !.phase = "fail"]
                  \/ c = [ctx[p] EXCEPT !.attempt = @ + 1] /\ ctx[p].attempt # Retry + 1
  BY DEF CallSucceeds, CallFails, Moves, To, LastAttempt
<1>4. /\ ctx[p].item \in 1 .. Items /\ ctx[p].attempt \in 1 .. Retry + 1
      /\ Items \in Nat /\ Retry \in Nat /\ 1 \in 1 .. Retry + 1
      /\ "record" \in Phases /\ "fail" \in Phases
  BY <1>2, FlowAssumption DEF FlowContexts, Phases
<1>a. /\ ctx[p].item < Items => ctx[p].item + 1 \in 1 .. Items
      /\ ctx[p].attempt # Retry + 1 => ctx[p].attempt + 1 \in 1 .. Retry + 1
  BY <1>4
<1>5. /\ c \in FlowContexts
      /\ c.run = ctx[p].run /\ c.replay = ctx[p].replay /\ c.source = ctx[p].source
      /\ c.next = ctx[p].next /\ c.outputs = ctx[p].outputs
      /\ c.phase \in {"call", "record", "fail"}
  <2>1. CASE c = [ctx[p] EXCEPT !.item = @ + 1, !.attempt = 1] /\ ctx[p].item < Items
    BY <1>1, <1>2, <1>4, <1>a, <2>1 DEF FlowContexts
  <2>2. CASE c = [ctx[p] EXCEPT !.phase = "record"]
    BY <1>1, <1>2, <1>4, <2>2 DEF FlowContexts
  <2>3. CASE c = [ctx[p] EXCEPT !.phase = "fail"]
    BY <1>1, <1>2, <1>4, <2>3 DEF FlowContexts
  <2>4. CASE c = [ctx[p] EXCEPT !.attempt = @ + 1] /\ ctx[p].attempt # Retry + 1
    BY <1>1, <1>2, <1>a, <2>4 DEF FlowContexts
  <2> QED
    BY <1>3, <2>1, <2>2, <2>3, <2>4
<1> QED
  BY <1>1, <1>3, <1>5, StayStep

LEMMA FinishFlowStep ==
    ASSUME GateInv, NEW p \in FlowProcesses, FinishFlow(p)
    PROVE  GateInv'
<1>1. Active(p) /\ ctx[p].phase = "finish"
  BY DEF FinishFlow, At, Active
<1>2. ctx[p] \in FlowContexts /\ ctx[p].verdict \in Verdicts
  BY <1>1, ActiveFact DEF FlowContexts
<1> DEFINE e == Event("run_finished", NoStep, ctx[p].verdict)  c == [ctx[p] EXCEPT !.phase = "returned"]
<1>3. Appended(p, e)
  <2>1. "run_finished" \in FlowEventTypes /\ NoStep \in 0 .. Len(Flow) /\ ctx[p].verdict \in FlowInfos
    <3>1. "run_finished" \in FlowEventTypes /\ ctx[p].verdict \in FlowInfos
      BY <1>2 DEF FlowEventTypes, FlowInfos
    <3>2. NoStep \in 0 .. Len(Flow)
      BY StepsFact DEF NoStep
    <3> QED
      BY <3>1, <3>2
  <2> QED
    BY <1>1, <1>2, <2>1, EventAppended DEF FinishFlow
<1>4. c \in FlowContexts /\ ctx' = [ctx EXCEPT ![p] = c]
  BY <1>2, PhaseEdit DEF FinishFlow, Moves, To, Phases
<1> QED
  BY <1>1, <1>3, <1>4, StayStep DEF FlowContexts

LEMMA CrashStep ==
    ASSUME GateInv, NEW p \in FlowProcesses, FlowCrash(p) \/ CrashTorn(p)
    PROVE  GateInv'
<1>1. Active(p)
  BY DEF FlowCrash, CrashTorn
<1> DEFINE c == [ctx[p] EXCEPT !.phase = "returned"]
<1>2. c \in FlowContexts
  BY <1>1, ActiveFact, PhaseEdit DEF Phases
<1>3. ctx' = [ctx EXCEPT ![p] = c]
  BY DEF FlowCrash, CrashTorn, Moves, To
<1>4. log' = log \/ Appended(p, Event("torn", NoStep, ""))
  <2>1. "torn" \in FlowEventTypes /\ NoStep \in 0 .. Len(Flow) /\ "" \in FlowInfos
    BY StepsFact DEF FlowEventTypes, FlowInfos, NoStep
  <2>2. log' = log \/ Appends(p, Event("torn", NoStep, ""))
    BY DEF FlowCrash, CrashTorn
  <2> QED
    BY <1>1, <2>1, <2>2, EventAppended
<1> QED
  BY <1>1, <1>2, <1>3, <1>4, StayStep DEF FlowContexts

\* The context a process starts with.
LEMMA StartContext ==
    /\ NotStarted \in FlowContexts /\ NotStarted.phase = "idle" /\ NotStarted.run = "run"
    /\ NotStarted.next = 1 /\ NotStarted.outputs = Nothing /\ NotStarted.replay = "no"
    /\ NotStarted.source = <<>> /\ NotStarted.tokens = 0
    /\ \A s \in Steps : NotStarted.outputs[s] = "none"
<1>1. /\ "idle" \in Phases /\ "run" \in Runs /\ 1 \in 1 .. Len(Flow) + 1 /\ Nothing \in Outputs
      /\ 1 \in 1 .. Retry + 1 /\ 1 \in 1 .. Items /\ "completed" \in Verdicts
      /\ <<>> \in Seq(FlowEvents)
  BY StepsFact, FlowAssumption DEF Phases, Runs, Nothing, Outputs, Verdicts
<1>2. NotStarted \in FlowContexts
  BY <1>1 DEF NotStarted, FlowContexts
<1> QED
  BY <1>2 DEF NotStarted, Nothing

\* What a process that has not started begins with is its own.
LEMMA BeginContext ==
    ASSUME GateInv, NEW p \in FlowProcesses, At(p, "idle")
    PROVE  ctx[p] = NotStarted
BY DEF GateInv, PlaceHolds, At

LEMMA RunFlowStep ==
    ASSUME GateInv, NEW p \in FlowProcesses, RunFlow(p)
    PROVE  GateInv'
<1>1. p \in Starters /\ p \notin Replayers /\ ctx[p] = NotStarted
  BY BeginContext, FlowAssumption DEF RunFlow
<1> DEFINE e == Event("run_started", NoStep, "run")  c == [NotStarted EXCEPT !.phase = "step"]
<1>2. e \in FlowEvents /\ e.type = "run_started"
  <2>1. "run_started" \in FlowEventTypes /\ "run" \in FlowInfos
    BY DEF FlowEventTypes, FlowInfos
  <2>2. NoStep \in 0 .. Len(Flow)
    BY StepsFact DEF NoStep
  <2>3. EventOK(e)
    BY EventParts DEF EventOK
  <2> QED
    BY <2>1, <2>2, <2>3, EventFact, EventParts
<1>3. /\ c \in FlowContexts /\ c.phase = "step" /\ c.run = "run" /\ c.replay = "no" /\ c.next = 1
      /\ c.outputs = NotStarted.outputs
  <2>1. c \in FlowContexts
    BY StartContext, PhaseEdit DEF Phases
  <2>2. c.phase = "step" /\ c.run = "run" /\ c.replay = "no" /\ c.next = 1 /\ c.outputs = NotStarted.outputs
    BY DEF NotStarted
  <2> QED
    BY <2>1, <2>2
<1>4. ctx' = [ctx EXCEPT ![p] = c] /\ log' = [log EXCEPT ![ctx[p].run] = Append(@, e)]
  BY <1>1 DEF RunFlow, Moves, To, Appends
<1> HIDE DEF c, e
<1>5. ctx'[p] = c
  BY <1>4 DEF GateInv
<1>6. PlaceHolds(p)'
  <2>1. Behind(log[ctx[p].run], ctx[p].next)'
    BY <1>3, <1>5 DEF Behind
  <2> HIDE DEF FlowContexts
  <2> QED
    BY <1>1, <1>3, <1>5, <2>1 DEF PlaceHolds
<1> QED
  BY <1>1, <1>2, <1>4, <1>6, ProcessStep

LEMMA ReplayFlowRunStep ==
    ASSUME GateInv, NEW p \in FlowProcesses, NEW live \in BOOLEAN, ReplayFlowRun(p, live)
    PROVE  GateInv'
<1>1. p \in Replayers /\ ctx[p] = NotStarted /\ log' = log /\ p \in Runs /\ "run" \in Runs
  BY BeginContext DEF ReplayFlowRun, Runs
<1> DEFINE replay == IF live THEN "live" ELSE "recorded"
           c == [NotStarted EXCEPT !.phase = "start", !.run = p, !.source = log["run"], !.replay = replay]
<1>2. log["run"] \in Seq(FlowEvents) /\ "start" \in Phases /\ replay \in {"recorded", "live"}
  BY <1>1 DEF GateInv, EventsHold, Phases
<1>3. c \in FlowContexts
  BY <1>1, <1>2, StartContext DEF FlowContexts
<1>4. /\ c.phase = "start" /\ c.run = p /\ c.replay = replay /\ c.next = 1
      /\ c.outputs = NotStarted.outputs
  BY StartContext DEF FlowContexts
<1>5. ctx' = [ctx EXCEPT ![p] = c]
  BY <1>1 DEF ReplayFlowRun, Moves, To
<1> HIDE DEF c, replay
<1>6. ctx'[p] = c
  BY <1>5 DEF GateInv
<1>7. PlaceHolds(p)'
  <2>1. Behind(log[ctx[p].run], ctx[p].next)'
    BY <1>4, <1>6 DEF Behind
  <2> HIDE DEF FlowContexts
  <2> QED
    BY <1>1, <1>2, <1>3, <1>4, <1>6, <2>1 DEF PlaceHolds
<1>8. \A s \in Steps : p \in Replayers /\ Flow[s].kind = "gate" /\ c.outputs[s] = "truthy" =>
                Resolutions(c.source, s) # {} /\ Decision(c.source, s) = "approve"
  BY <1>4, StartContext
<1> QED
  BY <1>1, <1>5, <1>7, <1>8, ProcessStep

LEMMA ResumeStep ==
    ASSUME GateInv, NEW p \in FlowProcesses, NEW decision \in {"approve", "reject"},
           Resume(p, decision)
    PROVE  GateInv'
<1> DEFINE events == log["run"]
           read == [ctx[p] EXCEPT !.outputs = RecordedOutputs(events),
                               !.tokens = TokensUsed(events),
                               !.next = PendingGate(events), !.decision = decision]
<1>1. p \in Resumers /\ p \notin Replayers /\ ctx[p] = NotStarted /\ log' = log
  BY BeginContext, FlowAssumption DEF Resume
<1>2. events \in Seq(FlowEvents)
  BY DEF GateInv, EventsHold, Runs
<1>3. Status(events) = "awaiting_approval"
  BY DEF Resume
<1>4. /\ RecordedOutputs(events) \in Outputs /\ TokensUsed(events) \in Nat
      /\ PendingGate(events) \in Steps /\ PendingGate(events) \in 1 .. Len(Flow) + 1
      /\ Flow[PendingGate(events)].kind = "gate"
  BY <1>2, <1>3, OutputsRead, UsedFact, StatusRead, StepsFact DEF Steps
<1>5. Behind(events, PendingGate(events))
  <2>1. \A i \in DOMAIN events : events[i].type = "gate_pending" => Behind(events, events[i].step)
    BY DEF GateInv, EventsHold, Runs
  <2>2. PICK i \in DOMAIN events : events[i].type = "gate_pending" /\ events[i].step = PendingGate(events)
    BY <1>2, <1>3, StatusRead
  <2>3. Behind(events, events[i].step)
    BY <2>1, <2>2
  <2> QED
    BY <2>2, <2>3
<1>6. PICK c : /\ ctx' = [ctx EXCEPT ![p] = c]
               /\ \/ c = [read EXCEPT !.phase = "finish", !.verdict = "expired"]
                  \/ c = [read EXCEPT !.phase = "resolve"]
  <2>1. \/ ctx' = [ctx EXCEPT ![p] = [read EXCEPT !.phase = "finish", !.verdict = "expired"]]
        \/ ctx' = [ctx EXCEPT ![p] = [read EXCEPT !.phase = "resolve"]]
    BY DEF Resume, Moves
  <2> QED
    BY <2>1
<1> HIDE DEF events
<1>7. read \in FlowContexts
  <2> HIDE DEF Outputs
  <2>1. ctx[p] \in FlowContexts
    BY <1>1, StartContext
  <2> QED
    BY <1>4, <2>1 DEF FlowContexts
<1>8. read.run = "run" /\ read.replay = "no" /\ read.next = PendingGate(events)
  BY <1>1, StartContext DEF FlowContexts
<1> HIDE DEF read
<1>9. /\ c \in FlowContexts /\ c.run = "run" /\ c.replay = "no" /\ c.next = PendingGate(events)
      /\ c.phase \in {"finish", "resolve"}
  <2>1. CASE c = [read EXCEPT !.phase = "finish", !.verdict = "expired"]
    <3>1. "expired" \in Verdicts
      BY DEF Verdicts
    <3> QED
      BY <1>7, <1>8, <2>1, <3>1, EndEdit
  <2>2. CASE c = [read EXCEPT !.phase = "resolve"]
    <3>1. c.run = read.run /\ c.replay = read.replay /\ c.next = read.next /\ c.phase = "resolve"
      BY <1>7, <2>2 DEF FlowContexts
    <3> QED
      BY <1>7, <1>8, <2>2, <3>1, PhaseEdit DEF Phases
  <2> QED
    BY <1>6, <2>1, <2>2
<1>10. ctx'[p] = c
  BY <1>6 DEF GateInv
<1>11. PlaceHolds(p)'
  <2>1. Behind(log'["run"], c.next)
    BY <1>1, <1>5, <1>9 DEF events
  <2>2. ctx'[p].run = "run" /\ ctx'[p].next = c.next
    BY <1>9, <1>10
  <2>3. Behind(log[ctx[p].run], ctx[p].next)'
    BY <2>1, <2>2 DEF Behind
  <2> HIDE DEF FlowContexts
  <2> QED
    BY <1>1, <1>4, <1>9, <1>10, <2>3 DEF PlaceHolds, StepOf
<1> QED
  BY <1>1, <1>6, <1>11, ProcessStep

LEMMA ResolveStep ==
    ASSUME GateInv, NEW p \in FlowProcesses, Resolve(p)
    PROVE  GateInv'
<1>1. /\ Active(p) /\ ctx[p].phase = "resolve" /\ ctx[p].next \in Steps
      /\ Flow[ctx[p].next].kind = "gate" /\ p \notin Replayers
  BY DEF Resolve, At, Active, GateInv, PlaceHolds, StepOf
<1>2. ctx[p] \in FlowContexts /\ ctx[p].decision \in {"approve", "reject"}
  BY <1>1, ActiveFact DEF FlowContexts
<1> DEFINE e == Event("gate_resolved", ctx[p].next, ctx[p].decision)
<1>3. Appended(p, e)
  <2>1. "gate_resolved" \in FlowEventTypes /\ ctx[p].decision \in FlowInfos
    BY <1>2 DEF FlowEventTypes, FlowInfos
  <2>2. ctx[p].next \in 0 .. Len(Flow)
    BY <1>1, StepsFact DEF Steps
  <2> QED
    BY <1>1, <1>2, <2>1, <2>2, EventAppended DEF Resolve
<1>4. CASE ctx[p].decision = "reject"
  <2>1. Moves(p, EndsAs(p, "rejected")) /\ "rejected" \in Verdicts
    BY <1>4 DEF Resolve, Verdicts
  <2> QED
    BY <1>1, <1>3, <2>1, EndStep
<1>5. CASE ctx[p].decision = "approve"
  <2> DEFINE c == [ctx[p] EXCEPT !.phase = "step", !.next = ctx[p].next + 1,
                                 !.outputs = [ctx[p].outputs EXCEPT ![ctx[p].next] = "truthy"]]
  <2>1. /\ [ctx[p].outputs EXCEPT ![ctx[p].next] = "truthy"] \in Outputs
        /\ ctx[p].next + 1 \in 1 .. Len(Flow) + 1 /\ "step" \in Phases
    BY <1>1, ActiveFact, StepsFact DEF Outputs, Phases, Steps
  <2>2. ctx' = [ctx EXCEPT ![p] = c]
    BY <1>5 DEF Resolve, Moves, To
  <2>3. c \in FlowContexts
    BY <1>2, <2>1 DEF FlowContexts
  <2>4. /\ c.run = ctx[p].run /\ c.replay = ctx[p].replay /\ c.source = ctx[p].source
        /\ c.next = ctx[p].next + 1 /\ c.phase = "step"
    BY <1>2 DEF FlowContexts
  <2>5. e.type = "gate_resolved" /\ e.info = "approve" /\ e.step = ctx[p].next
    BY <1>5, EventParts
  <2> HIDE DEF c, e
  <2> QED
    BY <1>1, <1>3, <2>2, <2>3, <2>4, <2>5, AdvanceStep
<1> QED
  BY <1>2, <1>4, <1>5

LEMMA ReplayGateStep ==
    ASSUME GateInv, NEW p \in FlowProcesses, ReplayGate(p)
    PROVE  GateInv'
<1> DEFINE decided == Decision(ctx[p].source, ctx[p].next)
           e == Event("gate_resolved", ctx[p].next, decided)
<1>1. /\ Active(p) /\ ctx[p].phase = "step" /\ ctx[p].next \in Steps
      /\ Flow[ctx[p].next].kind = "gate" /\ Resolutions(ctx[p].source, ctx[p].next) # {}
  BY DEF ReplayGate, Due, InSteps, At, Active, StepOf
<1>2. ctx[p] \in FlowContexts /\ decided \in {"approve", "reject"}
  BY <1>1, ActiveFact, DecisionRead
<1>3. Appended(p, e)
  <2>1. "gate_resolved" \in FlowEventTypes /\ decided \in FlowInfos
    BY <1>2 DEF FlowEventTypes, FlowInfos
  <2>2. ctx[p].next \in 0 .. Len(Flow)
    BY <1>1, StepsFact DEF Steps
  <2>3. Appends(p, e)
    BY DEF ReplayGate
  <2> HIDE DEF decided
  <2> QED
    BY <1>1, <1>2, <2>1, <2>2, <2>3, EventAppended
<1>4. CASE decided = "reject"
  <2>1. Moves(p, EndsAs(p, "rejected")) /\ "rejected" \in Verdicts
    BY <1>4 DEF ReplayGate, Verdicts
  <2> QED
    BY <1>1, <1>3, <2>1, EndStep
<1>5. CASE decided = "approve"
  <2> DEFINE outputs == [ctx[p].outputs EXCEPT ![ctx[p].next] = "truthy"]
             c == [ctx[p] EXCEPT !.next = ctx[p].next + 1, !.outputs = outputs]
  <2>1. outputs \in Outputs /\ ctx[p].next + 1 \in 1 .. Len(Flow) + 1
    BY <1>1, ActiveFact, StepsFact DEF Outputs, Steps
  <2>2. ctx' = [ctx EXCEPT ![p] = c]
    BY <1>5 DEF ReplayGate, Moves
  <2>3. \A s \in Steps : outputs[s] = "truthy" => ctx[p].outputs[s] = "truthy" \/ s = ctx[p].next
    BY <1>1, ActiveFact DEF Outputs
  <2> HIDE DEF outputs
  <2>4. c \in FlowContexts
    BY <1>2, <2>1 DEF FlowContexts
  <2>5. /\ c.run = ctx[p].run /\ c.replay = ctx[p].replay /\ c.source = ctx[p].source
        /\ c.next = ctx[p].next + 1 /\ c.phase = "step" /\ c.outputs = outputs
    BY <1>1, <1>2 DEF FlowContexts
  <2>6. e.type = "gate_resolved" /\ e.info = "approve" /\ e.step = ctx[p].next
    BY <1>5, EventParts
  <2>7. \A s \in Steps : c.outputs[s] = "truthy" =>
          \/ ctx[p].outputs[s] = "truthy"
          \/ Resolutions(c.source, s) # {} /\ Decision(c.source, s) = "approve"
    BY <1>1, <1>5, <2>3, <2>5
  <2> HIDE DEF c, decided, e
  <2> QED
    BY <1>1, <1>3, <2>2, <2>4, <2>5, <2>6, <2>7, AdvanceStep
<1> QED
  BY <1>2, <1>4, <1>5

LEMMA RecordStepStep ==
    ASSUME GateInv, NEW p \in FlowProcesses, RecordStep(p)
    PROVE  GateInv'
<1>1. /\ Active(p) /\ ctx[p].phase = "record" /\ ctx[p].next \in Steps
      /\ Flow[ctx[p].next].kind # "gate"
  <2>1. ctx[p].phase = "record"
    BY DEF RecordStep, At
  <2> QED
    BY <2>1 DEF Active, GateInv, PlaceHolds, StepOf
<1>2. ctx[p] \in FlowContexts /\ ctx[p].tokens \in Nat
  BY <1>1, ActiveFact
<1> DEFINE reuse == StepOf(p).kind = "agent" /\ ctx[p].replay = "recorded"
           done(output, cost) ==
             [ctx[p] EXCEPT !.phase = "step", !.next = ctx[p].next + 1,
                            !.outputs = [ctx[p].outputs EXCEPT ![ctx[p].next] = output],
                            !.tokens = ctx[p].tokens + cost]
<1>3. PICK output \in IF reuse THEN {RecordedOutputs(ctx[p].source)[ctx[p].next]}
                      ELSE IF StepOf(p).kind = "tool" THEN {"truthy", "falsy"} ELSE {"truthy"},
           cost \in IF StepOf(p).kind = "agent" /\ ~reuse THEN TokenCosts ELSE {0} :
         /\ Appends(p, StepCompleted(ctx[p].next, output, cost))
         /\ Moves(p, IF cost # 0 /\ done(output, cost).tokens > Budget
                     THEN [done(output, cost) EXCEPT !.phase = "finish", !.verdict = "budget_exceeded"]
                     ELSE done(output, cost))
  BY DEF RecordStep
<1>4. output \in {"none", "truthy", "falsy"} /\ cost \in Nat
  <2>1. RecordedOutputs(ctx[p].source)[ctx[p].next] \in {"none", "truthy", "falsy"}
    BY <1>1, ActiveFact, OutputsRead DEF Outputs
  <2> QED
    BY <1>3, <2>1, FlowAssumption
<1> DEFINE e == StepCompleted(ctx[p].next, output, cost)
           outputs == [ctx[p].outputs EXCEPT ![ctx[p].next] = output]
<1>5. Appended(p, e) /\ e.type = "step_completed"
  BY <1>1, <1>3, <1>4, CompletedFact DEF Appended, Appends
<1>6. /\ outputs \in Outputs /\ ctx[p].next + 1 \in 1 .. Len(Flow) + 1 /\ ctx[p].tokens + cost \in Nat
      /\ \A s \in Steps : outputs[s] = "truthy" => ctx[p].outputs[s] = "truthy" \/ s = ctx[p].next
      /\ "step" \in Phases /\ "budget_exceeded" \in Verdicts
  BY <1>1, <1>2, <1>4, ActiveFact, StepsFact DEF Outputs, Phases, Steps, Verdicts
<1> DEFINE base == done(output, cost)
<1>7. /\ base \in FlowContexts /\ base.phase = "step" /\ base.next = ctx[p].next + 1
      /\ base.outputs = outputs /\ base.run = ctx[p].run /\ base.replay = ctx[p].replay
      /\ base.source = ctx[p].source
  <2> HIDE DEF outputs
  <2>1. base = [ctx[p] EXCEPT !.phase = "step", !.next = ctx[p].next + 1,
                              !.outputs = outputs, !.tokens = ctx[p].tokens + cost]
    BY DEF outputs
  <2> HIDE DEF base
  <2> QED
    BY <1>2, <1>6, <2>1 DEF FlowContexts
<1>8. PICK c : /\ ctx' = [ctx EXCEPT ![p] = c]
               /\ c = base \/ c = [base EXCEPT !.phase = "finish", !.verdict = "budget_exceeded"]
  BY <1>3 DEF Moves
<1> HIDE DEF base, outputs, e, reuse, done
<1>9. /\ c \in FlowContexts /\ c.phase \in {"step", "finish"} /\ c.next = ctx[p].next + 1
      /\ c.outputs = outputs /\ c.run = ctx[p].run /\ c.replay = ctx[p].replay
      /\ c.source = ctx[p].source
  <2>1. CASE c = base
    BY <1>7, <2>1
  <2>2. CASE c = [base EXCEPT !.phase = "finish", !.verdict = "budget_exceeded"]
    BY <1>6, <1>7, <2>2, EndEdit
  <2> QED
    BY <1>8, <2>1, <2>2
<1>10. \A s \in Steps : Flow[s].kind = "gate" /\ c.outputs[s] = "truthy" => ctx[p].outputs[s] = "truthy"
  BY <1>1, <1>6, <1>9
<1> QED
  BY <1>1, <1>5, <1>8, <1>9, <1>10, AdvanceStep

LEMMA GateStepInv == GateInv /\ [FlowNext]_flowVars => GateInv'
<1> SUFFICES ASSUME GateInv, [FlowNext]_flowVars PROVE GateInv'
  OBVIOUS
<1>1. CASE UNCHANGED <<log, ctx>>
  <2> USE <1>1
  <2>1. EventsHold'
    BY DEF GateInv, EventsHold, Behind
  <2>2. ApprovedFirst'
    BY DEF GateInv, ApprovedFirst
  <2>3. ReplayGrantsRecorded'
    BY DEF GateInv, ReplayGrantsRecorded
  <2>4. \A p \in FlowProcesses : PlaceHolds(p)'
    <3> SUFFICES ASSUME NEW p \in FlowProcesses, PlaceHolds(p) PROVE PlaceHolds(p)'
      BY DEF GateInv
    <3>1. Behind(log[ctx[p].run], ctx[p].next) => Behind(log[ctx[p].run], ctx[p].next)'
      BY DEF Behind
    <3> HIDE DEF FlowContexts
    <3> QED
      BY <3>1 DEF PlaceHolds, Active, StepOf
  <2> QED
    BY <2>1, <2>2, <2>3, <2>4 DEF GateInv
<1>2. CASE GateExpires \/ UNCHANGED flowVars
  BY <1>1, <1>2 DEF GateExpires, flowVars
<1>3. ASSUME NEW p \in FlowProcesses,
             RunFlow(p) \/ FlowCrash(p) \/ CrashTorn(p)
             \/ (\E live \in BOOLEAN : ReplayFlowRun(p, live))
             \/ \E decision \in {"approve", "reject"} : Resume(p, decision)
      PROVE  GateInv'
  BY <1>3, RunFlowStep, CrashStep, ReplayFlowRunStep, ResumeStep
<1>4. ASSUME NEW p \in FlowProcesses, Proceed(p)
      PROVE  GateInv'
  BY <1>4, StartReplayStep, ResolveStep, SkipStep, MisfitStep, PendGateStep, ReplayGateStep,
     ReplayMissesStep, StopForBudgetStep, BeginStepStep, CallStep, RecordStepStep, FailStepStep,
     CompleteStep, FinishFlowStep DEF Proceed
<1> QED
  BY <1>2, <1>3, <1>4 DEF FlowNext

LEMMA GateInitInv == FlowInit => GateInv
<1> SUFFICES ASSUME FlowInit PROVE GateInv
  OBVIOUS
<1>1. /\ log = [r \in Runs |-> <<>>] /\ ctx = [p \in FlowProcesses |-> NotStarted]
  BY DEF FlowInit
<1>2. \A r \in Runs : log[r] = <<>> /\ DOMAIN log[r] = {} /\ log[r] \in Seq(FlowEvents)
  BY <1>1
<1>3. EventsHold /\ ApprovedFirst
  BY <1>2 DEF EventsHold, ApprovedFirst
<1>4. \A p \in FlowProcesses : ctx[p] = NotStarted
  BY <1>1
<1>5. ReplayGrantsRecorded
  BY <1>4, StartContext DEF ReplayGrantsRecorded, FlowProcesses
<1>6. \A p \in FlowProcesses : PlaceHolds(p)
  BY <1>4, StartContext DEF PlaceHolds, Active
<1> QED
  BY <1>1, <1>3, <1>5, <1>6 DEF GateInv

\* A gate holds in a run and in its replays.
THEOREM GatesAreKept == FlowSpec => []GatesHold
<1>1. GateInv => GatesHold
  BY DEF GateInv, GatesHold
<1> QED
  BY <1>1, GateInitInv, GateStepInv, PTL DEF FlowSpec
--------------------------------------------------------------------------------
(* Flow runs on which one process at a time acts. *)

Untouched(r, first) == \A s \in Steps : s >= first => invoked[r][s] = 0

\* How often a step's tool or agent may be called.
CallLimit(s) == IF Flow[s].kind = "foreach" THEN Items * (Retry + 1)
                ELSE IF Flow[s].kind = "agent" THEN 1 ELSE Retry + 1

\* The calls that the attempts and items before this one made.
CallsMade(c, s) == IF Flow[s].kind = "foreach" THEN (c.item - 1) * (Retry + 1) + (c.attempt - 1)
                   ELSE c.attempt - 1

\* A run as it is on file, whoever acts on it.
RunHolds(r) ==
    /\ invoked[r] \in [Steps -> Nat]
    /\ \A s \in Steps : invoked[r][s] <= CallLimit(s)
    /\ log[r] = <<>> => Untouched(r, 1)
    /\ Status(log[r]) = "awaiting_approval" => Untouched(r, PendingGate(log[r]))

\* A process that acts alone carries in memory what the file says.
AloneOn(p) ==
    /\ ctx[p].outputs = RecordedOutputs(log[ctx[p].run])
    /\ ctx[p].tokens = TokensUsed(log[ctx[p].run])
    /\ ctx[p].phase = "start" <=> log[ctx[p].run] = <<>>
    /\ ctx[p].phase \notin {"resolve", "finish"} => Status(log[ctx[p].run]) # "awaiting_approval"
    /\ ctx[p].phase \in {"step", "resolve"} => Untouched(ctx[p].run, ctx[p].next)
    /\ ctx[p].phase \in {"call", "record"} => Untouched(ctx[p].run, ctx[p].next + 1)
    /\ ctx[p].phase = "call" =>
         /\ invoked[ctx[p].run][ctx[p].next] <= CallsMade(ctx[p], ctx[p].next)
         /\ Flow[ctx[p].next].kind = "agent" => ctx[p].attempt = 1

SerialInv ==
    /\ invoked = [r \in Runs |-> invoked[r]]
    /\ \A p, q \in FlowProcesses : Active(p) /\ Active(q) /\ ctx[p].run = ctx[q].run => p = q
    /\ \A p \in Replayers : ctx[p].phase = "idle" => log[p] = <<>>
    /\ \A r \in Runs : RunHolds(r)
    /\ \A p \in FlowProcesses : Active(p) => AloneOn(p)

\* A step of one process on its run.
LEMMA SerialStep ==
    ASSUME GateInv, SerialInv, NEW p \in FlowProcesses, NEW c \in FlowContexts,
           ctx' = [ctx EXCEPT ![p] = c],
           log' = log \/ \E e : log' = [log EXCEPT ![c.run] = Append(@, e)],
           invoked' = invoked
             \/ \E s \in Steps :
                  invoked' = [invoked EXCEPT ![c.run] =
                                [invoked[c.run] EXCEPT ![s] = invoked[c.run][s] + 1]],
           c.phase # "idle", p \in Replayers => c.run = p, p \notin Replayers => c.run = "run",
           \A q \in FlowProcesses : q # p /\ Active(q) => ctx[q].run # c.run,
           RunHolds(c.run)', c.phase # "returned" => AloneOn(p)'
    PROVE  SerialInv'
<1>1. /\ ctx = [q \in FlowProcesses |-> ctx[q]] /\ log = [r \in Runs |-> log[r]]
      /\ invoked = [r \in Runs |-> invoked[r]] /\ c.run \in Runs
  BY DEF GateInv, SerialInv, FlowContexts
<1>2. ctx'[p] = c /\ \A q \in FlowProcesses : q # p => ctx'[q] = ctx[q]
  BY <1>1
<1>3. \A r \in Runs : r # c.run => log'[r] = log[r] /\ invoked'[r] = invoked[r]
  BY <1>1
<1>4. invoked' = [r \in Runs |-> invoked'[r]]
  BY <1>1
<1>5. \A q \in FlowProcesses : q # p => (Active(q)' <=> Active(q))
  BY <1>2 DEF Active
<1>6. \A q1, q2 \in FlowProcesses : Active(q1)' /\ Active(q2)' /\ ctx'[q1].run = ctx'[q2].run => q1 = q2
  BY <1>2, <1>5 DEF SerialInv
<1>7. \A q \in Replayers : ctx'[q].phase = "idle" => log'[q] = <<>>
  <2> SUFFICES ASSUME NEW q \in Replayers, ctx'[q].phase = "idle" PROVE log'[q] = <<>>
    OBVIOUS
  <2>1. q \in FlowProcesses /\ q \in Runs /\ q # "run"
    BY FlowAssumption DEF FlowProcesses, Runs
  <2>2. q # p /\ ctx'[q] = ctx[q]
    BY <1>2, <2>1
  <2>3. q # c.run
    BY <2>1, <2>2
  <2> QED
    BY <1>3, <2>1, <2>2, <2>3 DEF SerialInv
<1>8. \A r \in Runs : RunHolds(r)'
  <2> SUFFICES ASSUME NEW r \in Runs, r # c.run PROVE RunHolds(r)'
    OBVIOUS
  <2>1. RunHolds(r) /\ log'[r] = log[r] /\ invoked'[r] = invoked[r]
    BY <1>3 DEF SerialInv
  <2> QED
    BY <2>1 DEF RunHolds, Untouched
<1>9. \A q \in FlowProcesses : Active(q)' => AloneOn(q)'
  <2> SUFFICES ASSUME NEW q \in FlowProcesses, Active(q)' PROVE AloneOn(q)'
    OBVIOUS
  <2>1. CASE q = p
    <3>1. c.phase # "returned"
      BY <1>2, <2>1 DEF Active
    <3> QED
      BY <2>1, <3>1
  <2>2. CASE q # p
    <3>1. Active(q) /\ ctx'[q] = ctx[q] /\ ctx[q].run # c.run
      BY <1>2, <1>5, <2>2
    <3>2. ctx[q].run \in Runs
      BY <3>1, ActiveFact
    <3>3. AloneOn(q) /\ log'[ctx[q].run] = log[ctx[q].run] /\ invoked'[ctx[q].run] = invoked[ctx[q].run]
      BY <1>3, <3>1, <3>2 DEF SerialInv
    <3> QED
      BY <3>1, <3>3 DEF AloneOn, Untouched
  <2> QED
    BY <2>1, <2>2
<1> QED
  BY <1>4, <1>6, <1>7, <1>8, <1>9 DEF SerialInv

\* An event says what the lemmas about appended events say.
LEMMA AppendedFact ==
    ASSUME GateInv, NEW p \in FlowProcesses, Active(p), NEW e, Appended(p, e)
    PROVE  /\ log'[ctx[p].run] = Append(log[ctx[p].run], e) /\ log'[ctx[p].run] # <<>>
           /\ e \in FlowEvents /\ e.tokens \in Nat
           /\ log[ctx[p].run] \in Seq(FlowEvents) /\ ctx[p].run \in Runs
           /\ TokensUsed(log'[ctx[p].run]) = TokensUsed(log[ctx[p].run]) + e.tokens
<1>1. /\ log'[ctx[p].run] = Append(log[ctx[p].run], e) /\ e \in FlowEvents
      /\ log[ctx[p].run] \in Seq(FlowEvents) /\ ctx[p].run \in Runs
  BY ActiveFact DEF Appended
<1>2. e.tokens \in Nat
  BY <1>1 DEF FlowEvents
<1> QED
  BY <1>1, <1>2, UsedFact, AppendedEvent

\* A run on which nothing is called.
LEMMA RunKept ==
    ASSUME GateInv, SerialInv, NEW p \in FlowProcesses, Active(p), invoked' = invoked,
           NEW r, r = ctx[p].run,
           log' = log \/ \E e : Appended(p, e) /\ (e.type = "gate_pending" => ctx[p].phase = "step")
    PROVE  RunHolds(r)'
<1>1. r \in Runs /\ RunHolds(r) /\ AloneOn(p)
  BY ActiveFact DEF SerialInv
<1>2. CASE log' = log
  BY <1>1, <1>2 DEF RunHolds, Untouched
<1>3. CASE \E e : Appended(p, e) /\ (e.type = "gate_pending" => ctx[p].phase = "step")
  <2>1. PICK e : Appended(p, e) /\ (e.type = "gate_pending" => ctx[p].phase = "step")
    BY <1>3
  <2>2. /\ log'[r] = Append(log[r], e) /\ log'[r] # <<>> /\ e \in FlowEvents
        /\ log[r] \in Seq(FlowEvents)
    BY <2>1, AppendedFact
  <2>3. e.type = "gate_pending" => e.step = ctx[p].next /\ Untouched(r, ctx[p].next)
    BY <1>1, <2>1 DEF Appended, AloneOn
  <2>4. Status(log'[r]) = "awaiting_approval" => Untouched(r, PendingGate(log'[r]))
    BY <1>1, <2>2, <2>3, StatusAppended DEF RunHolds
  <2> QED
    BY <1>1, <2>2, <2>4 DEF RunHolds, Untouched
<1> QED
  BY <1>2, <1>3

\* A step of a process that calls nothing.
LEMMA QuietSerial ==
    ASSUME GateInv, SerialInv, NEW p \in FlowProcesses, Active(p), NEW c \in FlowContexts,
           ctx' = [ctx EXCEPT ![p] = c], c.run = ctx[p].run, c.phase # "idle",
           invoked' = invoked,
           log' = log \/ \E e : Appended(p, e) /\ (e.type = "gate_pending" => ctx[p].phase = "step"),
           c.phase # "returned" => AloneOn(p)'
    PROVE  SerialInv'
<1>3. RunHolds(c.run)'
  BY RunKept
<1>4. log' = log \/ \E e : log' = [log EXCEPT ![c.run] = Append(@, e)]
  BY DEF Appended
<1>5. \A q \in FlowProcesses : q # p /\ Active(q) => ctx[q].run # c.run
  BY DEF SerialInv
<1>6. (p \in Replayers => c.run = p) /\ (p \notin Replayers => c.run = "run")
  BY ActiveFact
<1> QED
  BY <1>3, <1>4, <1>5, <1>6, SerialStep

\* An event that moves neither the status nor an output.
LEMMA PlainEvent ==
    ASSUME GateInv, NEW p \in FlowProcesses, Active(p), NEW e, Appended(p, e), e.tokens = 0,
           e.type \notin {"gate_pending", "gate_resolved", "step_completed", "run_finished"}
    PROVE  /\ Status(log'[ctx[p].run]) = Status(log[ctx[p].run]) /\ log'[ctx[p].run] # <<>>
           /\ RecordedOutputs(log'[ctx[p].run]) = RecordedOutputs(log[ctx[p].run])
           /\ TokensUsed(log'[ctx[p].run]) = TokensUsed(log[ctx[p].run])
<1>1. /\ log'[ctx[p].run] = Append(log[ctx[p].run], e) /\ log'[ctx[p].run] # <<>>
      /\ e \in FlowEvents /\ log[ctx[p].run] \in Seq(FlowEvents)
      /\ TokensUsed(log'[ctx[p].run]) = TokensUsed(log[ctx[p].run]) + e.tokens
  BY AppendedFact
<1>2. TokensUsed(log[ctx[p].run]) \in Nat
  BY <1>1, UsedFact
<1>3. Status(log'[ctx[p].run]) = Status(log[ctx[p].run])
  BY <1>1, StatusAppended
<1>4. RecordedOutputs(log'[ctx[p].run]) = RecordedOutputs(log[ctx[p].run])
  BY <1>1, OutputsAppended
<1> QED
  BY <1>1, <1>2, <1>3, <1>4

\* A process that acts alone stays at its step.
LEMMA StayAlone ==
    ASSUME GateInv, SerialInv, NEW p \in FlowProcesses, Active(p), NEW c \in FlowContexts,
           ctx' = [ctx EXCEPT ![p] = c], c.run = ctx[p].run, invoked' = invoked,
           c.next = ctx[p].next, c.outputs = ctx[p].outputs, c.tokens = ctx[p].tokens,
           c.phase \notin {"idle", "start", "resolve"},
           \/ log' = log /\ ctx[p].phase # "start"
           \/ \E e : /\ Appended(p, e) /\ e.tokens = 0
                     /\ e.type \notin {"gate_pending", "gate_resolved", "step_completed", "run_finished"},
           c.phase \in {"finish", "returned"} \/ ctx[p].phase \notin {"resolve", "finish"},
           c.phase = "step" => ctx[p].phase \in {"start", "step"},
           c.phase \in {"call", "record"} => ctx[p].phase = "step",
           c.phase = "call" => c.attempt = 1 /\ c.item = 1 /\ c.next \in Steps
    PROVE  SerialInv'
<1>1. ctx'[p] = c /\ AloneOn(p) /\ ctx[p].run \in Runs /\ RunHolds(ctx[p].run)
  BY ActiveFact DEF GateInv, SerialInv
<1>2. log' = log \/ \E e : Appended(p, e) /\ (e.type = "gate_pending" => ctx[p].phase = "step")
  OBVIOUS
<1>3. /\ Status(log'[c.run]) = Status(log[c.run]) /\ log'[c.run] # <<>>
      /\ RecordedOutputs(log'[c.run]) = RecordedOutputs(log[c.run])
      /\ TokensUsed(log'[c.run]) = TokensUsed(log[c.run])
  <2>1. CASE log' = log /\ ctx[p].phase # "start"
    BY <1>1, <2>1 DEF AloneOn
  <2>2. CASE log' # log \/ ctx[p].phase = "start"
    BY <2>2, PlainEvent
  <2> QED
    BY <2>1, <2>2
<1>4. Flow[c.next].kind = "agent" \/ Flow[c.next].kind # "agent"
  OBVIOUS
<1>5. ASSUME c.phase # "returned" PROVE AloneOn(p)'
  <2>1. c.phase \in {"step"} => Untouched(c.run, c.next)
    <3>1. CASE ctx[p].phase = "step"
      BY <1>1, <3>1 DEF AloneOn
    <3>2. CASE ctx[p].phase = "start"
      <4>1. Untouched(c.run, 1) /\ c.next \in Nat /\ \A s \in Steps : s >= 1
        BY <1>1, <3>2, ActiveFact, StepsFact DEF AloneOn, RunHolds
      <4> QED
        BY <4>1 DEF Untouched
    <3> QED
      BY <3>1, <3>2
  <2>2. c.phase \in {"call", "record"} => Untouched(c.run, c.next)
    BY <1>1 DEF AloneOn
  <2>3. c.phase \in {"call", "record"} => Untouched(c.run, c.next + 1)
    <3>1. \A s \in Steps : s \in Nat /\ c.next \in Nat /\ (s >= c.next + 1 => s >= c.next)
      BY StepsFact, ActiveFact
    <3> QED
      BY <2>2, <3>1 DEF Untouched
  <2>4. c.phase = "call" => invoked[c.run][c.next] = 0
    <3>1. c.next >= c.next
      BY ActiveFact
    <3> QED
      BY <2>2, <3>1 DEF Untouched
  <2>5. c.phase = "call" => CallsMade(c, c.next) = 0
    BY FlowAssumption DEF CallsMade
  <2>6. c.phase = "call" => invoked'[c.run][c.next] <= CallsMade(c, c.next)
    BY <2>4, <2>5
  <2>7. c.phase \notin {"resolve", "finish", "returned"} => Status(log'[c.run]) # "awaiting_approval"
    BY <1>1, <1>3 DEF AloneOn
  <2>8. /\ c.outputs = RecordedOutputs(log'[c.run]) /\ c.tokens = TokensUsed(log'[c.run])
        /\ c.phase # "start"
    BY <1>1, <1>3 DEF AloneOn
  <2>9. /\ c.phase \in {"step", "resolve"} => \A s \in Steps : s >= c.next => invoked'[c.run][s] = 0
        /\ c.phase \in {"call", "record"} => \A s \in Steps : s >= c.next + 1 => invoked'[c.run][s] = 0
    BY <2>1, <2>3 DEF Untouched
  <2> HIDE DEF CallsMade
  <2> QED
    BY <1>1, <1>3, <1>5, <2>6, <2>7, <2>8, <2>9 DEF AloneOn, Untouched
<1> QED
  BY <1>2, <1>5, QuietSerial

\* A process that acts alone goes on to the next step, or ends there.
LEMMA AdvanceAlone ==
    ASSUME GateInv, SerialInv, NEW p \in FlowProcesses, Active(p), NEW c \in FlowContexts,
           ctx' = [ctx EXCEPT ![p] = c], c.run = ctx[p].run, invoked' = invoked,
           c.phase \in {"step", "finish"}, ctx[p].phase \in {"step", "resolve", "record"},
           ctx[p].next \in Steps, c.next = ctx[p].next + 1,
           NEW e, Appended(p, e), e.type \notin {"gate_pending", "run_finished"},
           ctx[p].phase = "resolve" => e.type = "gate_resolved",
           c.tokens = ctx[p].tokens + e.tokens,
           c.outputs = IF e.type = "gate_resolved" /\ e.info = "approve"
                         THEN [ctx[p].outputs EXCEPT ![e.step] = "truthy"]
                         ELSE IF e.type = "step_completed"
                         THEN [ctx[p].outputs EXCEPT ![e.step] = e.info]
                         ELSE ctx[p].outputs
    PROVE  SerialInv'
<1>1. ctx'[p] = c /\ AloneOn(p) /\ ctx[p].run \in Runs
  BY ActiveFact DEF GateInv, SerialInv
<1>2. log' = log \/ \E x : Appended(p, x) /\ (x.type = "gate_pending" => ctx[p].phase = "step")
  OBVIOUS
<1>3. /\ log'[c.run] = Append(log[c.run], e) /\ log'[c.run] # <<>>
      /\ e \in FlowEvents /\ log[c.run] \in Seq(FlowEvents)
      /\ TokensUsed(log'[c.run]) = TokensUsed(log[c.run]) + e.tokens
  BY AppendedFact
<1>4. c.tokens = TokensUsed(log'[c.run])
  BY <1>1, <1>3 DEF AloneOn
<1>5. c.outputs = RecordedOutputs(log'[c.run])
  <2>1. ctx[p].outputs = RecordedOutputs(log[c.run])
    BY <1>1 DEF AloneOn
  <2> QED
    BY <1>3, <2>1, OutputsAppended
<1>6. Status(log'[c.run]) # "awaiting_approval"
  <2>1. ctx[p].phase # "resolve" => Status(log[c.run]) # "awaiting_approval"
    BY <1>1 DEF AloneOn
  <2> QED
    BY <1>3, <2>1, StatusAppended
<1>7. \A s \in Steps : s >= c.next => invoked'[c.run][s] = 0
  <2>1. \A s \in Steps : s \in Nat /\ ctx[p].next \in Nat /\ (s >= ctx[p].next + 1 => s >= ctx[p].next)
    BY StepsFact
  <2>2. Untouched(c.run, ctx[p].next) \/ Untouched(c.run, ctx[p].next + 1)
    BY <1>1 DEF AloneOn
  <2> QED
    BY <2>1, <2>2 DEF Untouched
<1>8. AloneOn(p)'
  BY <1>1, <1>3, <1>4, <1>5, <1>6, <1>7 DEF AloneOn, Untouched
<1> QED
  BY <1>2, <1>8, QuietSerial

\* What a step of a process leaves in its context is one.
LEMMA NextContext ==
    ASSUME GateInv, GateInv', NEW p \in FlowProcesses, NEW x, ctx' = [ctx EXCEPT ![p] = x]
    PROVE  x \in FlowContexts /\ ctx'[p] = x
<1>1. ctx'[p] = x
  BY DEF GateInv
<1>2. ctx'[p] \in FlowContexts
  BY DEF GateInv, PlaceHolds
<1> QED
  BY <1>1, <1>2

\* A process that changes only its phase, and perhaps its verdict.
LEMMA PhaseAlone ==
    ASSUME GateInv, GateInv', SerialInv, NEW p \in FlowProcesses, Active(p), invoked' = invoked,
           NEW phase \in {"step", "fail", "finish"}, NEW verdict,
           ctx' = [ctx EXCEPT ![p] = [ctx[p] EXCEPT !.phase = phase, !.verdict = verdict]],
           \/ log' = log /\ ctx[p].phase # "start"
           \/ \E e : /\ Appended(p, e) /\ e.tokens = 0
                     /\ e.type \notin {"gate_pending", "gate_resolved", "step_completed", "run_finished"},
           ctx[p].phase \notin {"resolve", "finish"},
           phase = "step" => ctx[p].phase \in {"start", "step"}
    PROVE  SerialInv'
<1> DEFINE c == [ctx[p] EXCEPT !.phase = phase, !.verdict = verdict]
<1>1. ctx[p] \in FlowContexts
  BY ActiveFact
<1>2. /\ c.run = ctx[p].run /\ c.next = ctx[p].next /\ c.outputs = ctx[p].outputs
      /\ c.tokens = ctx[p].tokens /\ c.phase = phase
  BY <1>1 DEF FlowContexts
<1>3. c \in FlowContexts
  BY NextContext
<1> HIDE DEF c
<1>4. ctx' = [ctx EXCEPT ![p] = c]
  BY DEF c
<1> QED
  BY <1>2, <1>3, <1>4, StayAlone

\* A process that returns.
LEMMA ReturnAlone ==
    ASSUME GateInv, GateInv', SerialInv, NEW p \in FlowProcesses, Active(p), invoked' = invoked,
           ctx' = [ctx EXCEPT ![p] = [ctx[p] EXCEPT !.phase = "returned"]],
           log' = log \/ \E e : Appended(p, e) /\ (e.type = "gate_pending" => ctx[p].phase = "step")
    PROVE  SerialInv'
<1> DEFINE c == [ctx[p] EXCEPT !.phase = "returned"]
<1>1. ctx[p] \in FlowContexts
  BY ActiveFact
<1>2. c.run = ctx[p].run /\ c.phase = "returned"
  BY <1>1 DEF FlowContexts
<1>3. c \in FlowContexts
  BY NextContext
<1> HIDE DEF c
<1>4. ctx' = [ctx EXCEPT ![p] = c]
  BY DEF c
<1> QED
  BY <1>2, <1>3, <1>4, QuietSerial

\* The events that the actions append, as events of this process.
LEMMA OwnEvent ==
    ASSUME GateInv, NEW p \in FlowProcesses, Active(p), NEW type, NEW step, NEW info,
           Appends(p, Event(type, step, info)), Event(type, step, info) \in FlowEvents,
           type \in {"gate_pending", "step_started"} => step = ctx[p].next
    PROVE  Appended(p, Event(type, step, info)) /\ Event(type, step, info).tokens = 0
BY EventParts DEF Appended, Appends

LEMMA EventTyped ==
    ASSUME NEW type \in FlowEventTypes, NEW step \in 0 .. Len(Flow), NEW info \in FlowInfos,
           type \in {"gate_pending", "gate_resolved", "step_started"} => step \in Steps,
           type = "gate_resolved" => info \in {"approve", "reject"},
           type = "run_finished" => info \in Verdicts,
           type = "gate_pending" => Flow[step].kind = "gate",
           type # "step_completed"
    PROVE  Event(type, step, info) \in FlowEvents
<1>1. EventOK(Event(type, step, info))
  BY EventParts DEF EventOK
<1> QED
  BY <1>1, EventFact
--------------------------------------------------------------------------------
LEMMA StartReplayAlone ==
    ASSUME GateInv, GateInv', SerialInv, NEW p \in FlowProcesses, StartReplay(p)
    PROVE  SerialInv'
<1>1. Active(p) /\ ctx[p].phase = "start" /\ invoked' = invoked
  BY DEF StartReplay, At, Active
<1> DEFINE e == Event("run_started", NoStep, "replay")
<1>2. Appended(p, e) /\ e.tokens = 0 /\ e.type = "run_started"
  <2>1. "run_started" \in FlowEventTypes /\ "replay" \in FlowInfos
    BY DEF FlowEventTypes, FlowInfos
  <2>2. NoStep \in 0 .. Len(Flow)
    BY StepsFact DEF NoStep
  <2>3. Event("run_started", NoStep, "replay") \in FlowEvents
    BY <2>1, <2>2, EventTyped
  <2> QED
    BY <1>1, <2>3, OwnEvent, EventParts DEF StartReplay
<1> HIDE DEF e
<1>3. ctx' = [ctx EXCEPT ![p] = [ctx[p] EXCEPT !.phase = "step"]]
  BY DEF StartReplay, Moves, To
<1>4. [ctx[p] EXCEPT !.phase = "step"] = [ctx[p] EXCEPT !.phase = "step", !.verdict = ctx[p].verdict]
  BY <1>1, ActiveFact DEF FlowContexts
<1> QED
  BY <1>1, <1>2, <1>3, <1>4, PhaseAlone

\* A step that goes wrong, or a replay that has nothing to repeat.
LEMMA FailsAlone ==
    ASSUME GateInv, GateInv', SerialInv, NEW p \in FlowProcesses, Misfit(p) \/ ReplayMisses(p)
    PROVE  SerialInv'
<1>1. Active(p) /\ ctx[p].phase = "step" /\ invoked' = invoked /\ log' = log
  BY DEF Misfit, ReplayMisses, Due, InSteps, At, Active
<1>2. ctx' = [ctx EXCEPT ![p] = [ctx[p] EXCEPT !.phase = "fail"]]
  BY DEF Misfit, ReplayMisses, Moves, To
<1>3. [ctx[p] EXCEPT !.phase = "fail"] = [ctx[p] EXCEPT !.phase = "fail", !.verdict = ctx[p].verdict]
  BY <1>1, ActiveFact DEF FlowContexts
<1> QED
  BY <1>1, <1>2, <1>3, PhaseAlone

LEMMA EndsAlone ==
    ASSUME GateInv, GateInv', SerialInv, NEW p \in FlowProcesses, StopForBudget(p) \/ Complete(p)
    PROVE  SerialInv'
<1>1. Active(p) /\ ctx[p].phase = "step" /\ invoked' = invoked /\ log' = log
  BY DEF StopForBudget, Complete, Due, InSteps, At, Active
<1>2. PICK verdict \in Verdicts :
        ctx' = [ctx EXCEPT ![p] = [ctx[p] EXCEPT !.phase = "finish", !.verdict = verdict]]
  BY DEF StopForBudget, Complete, Moves, EndsAs, Verdicts
<1> QED
  BY <1>1, <1>2, PhaseAlone

LEMMA FailStepAlone ==
    ASSUME GateInv, GateInv', SerialInv, NEW p \in FlowProcesses, FailStep(p)
    PROVE  SerialInv'
<1>1. Active(p) /\ ctx[p].phase = "fail" /\ ctx[p].next \in Steps /\ invoked' = invoked
  BY DEF FailStep, At, Active, GateInv, PlaceHolds
<1> DEFINE e == Event("step_failed", ctx[p].next, "")
<1>2. Appended(p, e) /\ e.tokens = 0 /\ e.type = "step_failed"
  <2>1. "step_failed" \in FlowEventTypes /\ "" \in FlowInfos
    BY DEF FlowEventTypes, FlowInfos
  <2>2. ctx[p].next \in 0 .. Len(Flow)
    BY <1>1, StepsFact DEF Steps
  <2>3. Event("step_failed", ctx[p].next, "") \in FlowEvents
    BY <2>1, <2>2, EventTyped
  <2>4. e.type = "step_failed"
    BY DEF Event
  <2>5. Appends(p, Event("step_failed", ctx[p].next, ""))
    BY DEF FailStep
  <2> QED
    BY <1>1, <2>3, <2>4, <2>5, OwnEvent
<1> HIDE DEF e
<1>3. ctx' = [ctx EXCEPT ![p] = [ctx[p] EXCEPT !.phase = "finish", !.verdict = "failed"]]
  BY DEF FailStep, Moves, EndsAs
<1> QED
  BY <1>1, <1>2, <1>3, PhaseAlone

LEMMA PendGateAlone ==
    ASSUME GateInv, GateInv', SerialInv, NEW p \in FlowProcesses, PendGate(p)
    PROVE  SerialInv'
<1>1. /\ Active(p) /\ ctx[p].phase = "step" /\ ctx[p].next \in Steps /\ invoked' = invoked
      /\ Flow[ctx[p].next].kind = "gate"
  BY DEF PendGate, Due, InSteps, At, Active, StepOf
<1>2. Appended(p, Event("gate_pending", ctx[p].next, "show"))
  <2>1. "gate_pending" \in FlowEventTypes /\ "show" \in FlowInfos
    BY DEF FlowEventTypes, FlowInfos
  <2>2. ctx[p].next \in 0 .. Len(Flow)
    BY <1>1, StepsFact DEF Steps
  <2>3. Event("gate_pending", ctx[p].next, "show") \in FlowEvents
    BY <1>1, <2>1, <2>2, EventTyped
  <2> QED
    BY <1>1, <2>3, OwnEvent DEF PendGate
<1>3. ctx' = [ctx EXCEPT ![p] = [ctx[p] EXCEPT !.phase = "returned"]]
  BY DEF PendGate, Moves, To
<1> QED
  BY <1>1, <1>2, <1>3, ReturnAlone

LEMMA FinishFlowAlone ==
    ASSUME GateInv, GateInv', SerialInv, NEW p \in FlowProcesses, FinishFlow(p)
    PROVE  SerialInv'
<1>1. Active(p) /\ ctx[p].phase = "finish" /\ invoked' = invoked
  BY DEF FinishFlow, At, Active
<1>2. Appended(p, Event("run_finished", NoStep, ctx[p].verdict))
  <2>1. ctx[p].verdict \in Verdicts
    BY <1>1, ActiveFact DEF FlowContexts
  <2>2. "run_finished" \in FlowEventTypes /\ ctx[p].verdict \in FlowInfos
    BY <2>1 DEF FlowEventTypes, FlowInfos
  <2>3. NoStep \in 0 .. Len(Flow)
    BY StepsFact DEF NoStep
  <2>4. Event("run_finished", NoStep, ctx[p].verdict) \in FlowEvents
    BY <2>1, <2>2, <2>3, EventTyped
  <2> QED
    BY <1>1, <2>4, OwnEvent DEF FinishFlow
<1>3. Event("run_finished", NoStep, ctx[p].verdict).type # "gate_pending"
  BY EventParts
<1>4. ctx' = [ctx EXCEPT ![p] = [ctx[p] EXCEPT !.phase = "returned"]]
  BY DEF FinishFlow, Moves, To
<1> QED
  BY <1>1, <1>2, <1>3, <1>4, ReturnAlone

LEMMA CrashTornAlone ==
    ASSUME GateInv, GateInv', SerialInv, NEW p \in FlowProcesses, CrashTorn(p)
    PROVE  SerialInv'
<1>1. Active(p) /\ invoked' = invoked
  BY DEF CrashTorn
<1>2. Appended(p, Event("torn", NoStep, ""))
  <2>1. "torn" \in FlowEventTypes /\ "" \in FlowInfos
    BY DEF FlowEventTypes, FlowInfos
  <2>2. NoStep \in 0 .. Len(Flow)
    BY StepsFact DEF NoStep
  <2>3. Event("torn", NoStep, "") \in FlowEvents
    BY <2>1, <2>2, EventTyped
  <2> QED
    BY <1>1, <2>3, OwnEvent DEF CrashTorn
<1>3. Event("torn", NoStep, "").type # "gate_pending"
  BY DEF Event
<1>4. ctx' = [ctx EXCEPT ![p] = [ctx[p] EXCEPT !.phase = "returned"]]
  BY DEF CrashTorn, Moves, To
<1> QED
  BY <1>1, <1>2, <1>3, <1>4, ReturnAlone

LEMMA BeginStepAlone ==
    ASSUME GateInv, GateInv', SerialInv, NEW p \in FlowProcesses, BeginStep(p)
    PROVE  SerialInv'
<1>1. Active(p) /\ ctx[p].phase = "step" /\ ctx[p].next \in Steps /\ invoked' = invoked
  BY DEF BeginStep, Due, InSteps, At, Active, StepOf
<1> DEFINE e == Event("step_started", ctx[p].next, "")
<1>2. Appended(p, e) /\ e.tokens = 0 /\ e.type = "step_started"
  <2>1. "step_started" \in FlowEventTypes /\ "" \in FlowInfos
    BY DEF FlowEventTypes, FlowInfos
  <2>2. ctx[p].next \in 0 .. Len(Flow)
    BY <1>1, StepsFact DEF Steps
  <2>3. Event("step_started", ctx[p].next, "") \in FlowEvents
    BY <1>1, <2>1, <2>2, EventTyped
  <2>4. e.type = "step_started"
    BY DEF Event
  <2>5. Appends(p, Event("step_started", ctx[p].next, ""))
    BY DEF BeginStep
  <2> QED
    BY <1>1, <2>3, <2>4, <2>5, OwnEvent
<1> HIDE DEF e
<1>3. PICK phase \in {"record", "call"} :
         ctx' = [ctx EXCEPT ![p] = [ctx[p] EXCEPT !.phase = phase, !.attempt = 1, !.item = 1]]
  BY DEF BeginStep, Moves
<1> DEFINE c == [ctx[p] EXCEPT !.phase = phase, !.attempt = 1, !.item = 1]
<1>4. ctx[p] \in FlowContexts
  BY <1>1, ActiveFact
<1>5. c \in FlowContexts
  BY <1>3, NextContext
<1>6. /\ c.run = ctx[p].run /\ c.tokens = ctx[p].tokens /\ c.attempt = 1 /\ c.item = 1
      /\ c.next = ctx[p].next /\ c.phase = phase /\ c.outputs = ctx[p].outputs
  BY <1>4 DEF FlowContexts
<1> HIDE DEF c
<1>7. ctx' = [ctx EXCEPT ![p] = c]
  BY <1>3 DEF c
<1> QED
  BY <1>1, <1>2, <1>5, <1>6, <1>7, StayAlone

LEMMA SkipAlone ==
    ASSUME GateInv, GateInv', SerialInv, NEW p \in FlowProcesses, Skip(p)
    PROVE  SerialInv'
<1>1. Active(p) /\ ctx[p].phase = "step" /\ ctx[p].next \in Steps /\ invoked' = invoked
  BY DEF Skip, InSteps, At, Active
<1> DEFINE e == Event("step_skipped", ctx[p].next, "when")  c == [ctx[p] EXCEPT !.next = ctx[p].next + 1]
<1>2. Appended(p, e) /\ e.tokens = 0 /\ e.type = "step_skipped"
  <2>1. "step_skipped" \in FlowEventTypes /\ "when" \in FlowInfos
    BY DEF FlowEventTypes, FlowInfos
  <2>2. ctx[p].next \in 0 .. Len(Flow)
    BY <1>1, StepsFact DEF Steps
  <2>3. Event("step_skipped", ctx[p].next, "when") \in FlowEvents
    BY <2>1, <2>2, EventTyped
  <2> QED
    BY <1>1, <2>3, OwnEvent, EventParts DEF Skip
<1>3. ctx' = [ctx EXCEPT ![p] = c]
  BY DEF Skip, Moves
<1>4. ctx[p] \in FlowContexts /\ ctx[p].tokens \in Nat
  BY <1>1, ActiveFact
<1>5. c \in FlowContexts
  BY <1>3, NextContext
<1>6. /\ c.run = ctx[p].run /\ c.tokens = ctx[p].tokens /\ c.next = ctx[p].next + 1
      /\ c.phase = "step" /\ c.outputs = ctx[p].outputs
  BY <1>1, <1>4 DEF FlowContexts
<1> HIDE DEF c, e
<1>7. c.tokens = ctx[p].tokens + e.tokens
  BY <1>2, <1>4, <1>6
<1> QED
  BY <1>1, <1>2, <1>3, <1>5, <1>6, <1>7, AdvanceAlone
--------------------------------------------------------------------------------
\* The attempts at one item are followed by those at the next.
LEMMA CallsCount ==
    ASSUME NEW item \in 1 .. Items, NEW attempt \in 1 .. Retry + 1
    PROVE  /\ (item - 1) * (Retry + 1) \in Nat /\ item * (Retry + 1) \in Nat
           /\ (item - 1) * (Retry + 1) + (attempt - 1) + 1 <= item * (Retry + 1)
           /\ item * (Retry + 1) <= Items * (Retry + 1)
<1> DEFINE T == Retry + 1
<1>1. T \in Nat /\ attempt \in Nat /\ attempt <= T /\ item \in Nat /\ Items \in Nat /\ item <= Items
      /\ item > 0 /\ attempt > 0
  BY FlowAssumption
<1> HIDE DEF T
<1>2. item * T = (item - 1) * T + T /\ Items * T = item * T + (Items - item) * T
  BY <1>1
<1>3. (item - 1) * T \in Nat /\ (Items - item) * T \in Nat /\ item * T \in Nat
  BY <1>1
<1>4. (item - 1) * T + (attempt - 1) + 1 <= item * T /\ item * T <= Items * T
  BY <1>1, <1>2, <1>3
<1> QED
  BY <1>3, <1>4 DEF T

LEMMA CallCounted ==
    ASSUME GateInv, SerialInv, NEW p \in FlowProcesses, ctx[p].phase = "call", Invokes(p), log' = log,
           NEW r, r = ctx[p].run, NEW s, s = ctx[p].next
    PROVE  /\ Active(p) /\ s \in Steps /\ r \in Runs /\ RunHolds(r)'
           /\ invoked'[r][s] <= CallsMade(ctx[p], s) + 1
           /\ Flow[s].kind = "agent" => ctx[p].attempt = 1
           /\ \A t \in Steps : t >= s + 1 => invoked'[r][t] = 0
           /\ Status(log[r]) # "awaiting_approval" /\ log[r] # <<>>
<1>1. Active(p)
  BY DEF Active
<1>2. /\ s \in Steps /\ r \in Runs /\ AloneOn(p) /\ RunHolds(r) /\ invoked = [x \in Runs |-> invoked[x]]
      /\ ctx[p] \in FlowContexts
  BY <1>1, ActiveFact DEF GateInv, PlaceHolds, SerialInv
<1>3. invoked' = [invoked EXCEPT ![r] = [invoked[r] EXCEPT ![s] = invoked[r][s] + 1]]
  BY <1>2 DEF Invokes
<1>4. /\ invoked[r] \in [Steps -> Nat] /\ invoked[r][s] <= CallsMade(ctx[p], s)
      /\ Flow[s].kind = "agent" => ctx[p].attempt = 1
      /\ \A t \in Steps : t >= s + 1 => invoked[r][t] = 0
      /\ Status(log[r]) # "awaiting_approval" /\ log[r] # <<>>
      /\ \A t \in Steps : invoked[r][t] <= CallLimit(t)
  BY <1>2 DEF AloneOn, RunHolds, Untouched
<1>5. /\ invoked'[r] = [invoked[r] EXCEPT ![s] = invoked[r][s] + 1]
  BY <1>2, <1>3
<1>6. /\ invoked'[r] \in [Steps -> Nat] /\ invoked'[r][s] = invoked[r][s] + 1
      /\ \A t \in Steps : t # s => invoked'[r][t] = invoked[r][t]
  BY <1>2, <1>4, <1>5
<1>7. ctx[p].item \in 1 .. Items /\ ctx[p].attempt \in 1 .. Retry + 1
  BY <1>2 DEF FlowContexts
<1>8. CallsMade(ctx[p], s) \in Int /\ CallsMade(ctx[p], s) + 1 <= CallLimit(s) /\ CallLimit(s) \in Int
  <2>1. CASE Flow[s].kind = "foreach"
    <3>1. /\ CallsMade(ctx[p], s) = (ctx[p].item - 1) * (Retry + 1) + (ctx[p].attempt - 1)
          /\ CallLimit(s) = Items * (Retry + 1)
      BY <2>1 DEF CallsMade, CallLimit
    <3>2. Items * (Retry + 1) \in Int /\ ctx[p].attempt \in Int
      BY <1>7, FlowAssumption
    <3> QED
      BY <1>7, <3>1, <3>2, CallsCount
  <2>2. CASE Flow[s].kind # "foreach"
    BY <1>4, <1>7, <2>2, FlowAssumption DEF CallsMade, CallLimit
  <2> QED
    BY <2>1, <2>2
<1>9. invoked[r][s] \in Nat
  BY <1>2, <1>4
<1> HIDE DEF CallsMade, CallLimit
<1>10. invoked'[r][s] <= CallsMade(ctx[p], s) + 1 /\ invoked'[r][s] <= CallLimit(s)
  BY <1>4, <1>6, <1>8, <1>9
<1>11. RunHolds(r)'
  <2>1. \A t \in Steps : invoked'[r][t] <= CallLimit(t)
    BY <1>4, <1>6, <1>10
  <2> QED
    BY <1>4, <1>6, <2>1 DEF RunHolds
<1>12. \A t \in Steps : t >= s + 1 => invoked'[r][t] = 0
  BY <1>2, <1>4, <1>6, StepsFact
<1> QED
  BY <1>1, <1>2, <1>3, <1>4, <1>10, <1>11, <1>12

\* A process whose call comes back.
LEMMA CalledAlone ==
    ASSUME GateInv, SerialInv, NEW p \in FlowProcesses, ctx[p].phase = "call", Invokes(p), log' = log,
           NEW c \in FlowContexts, ctx' = [ctx EXCEPT ![p] = c],
           c.run = ctx[p].run, c.next = ctx[p].next, c.outputs = ctx[p].outputs,
           c.tokens = ctx[p].tokens, c.phase \in {"call", "record", "fail", "returned"},
           c.phase = "call" => /\ CallsMade(c, c.next) >= CallsMade(ctx[p], c.next) + 1
                               /\ Flow[c.next].kind # "agent"
    PROVE  SerialInv'
<1>1. /\ Active(p) /\ c.next \in Steps /\ c.run \in Runs /\ RunHolds(c.run)'
      /\ invoked'[c.run][c.next] <= CallsMade(ctx[p], c.next) + 1
      /\ \A t \in Steps : t >= c.next + 1 => invoked'[c.run][t] = 0
      /\ Status(log[c.run]) # "awaiting_approval" /\ log[c.run] # <<>>
  BY CallCounted
<1>2. /\ ctx'[p] = c /\ AloneOn(p) /\ ctx[p] \in FlowContexts
      /\ (p \in Replayers => c.run = p) /\ (p \notin Replayers => c.run = "run")
  BY <1>1, ActiveFact DEF GateInv, SerialInv
<1>3. c.phase = "call" => invoked'[c.run][c.next] <= CallsMade(c, c.next)
  <2>1. invoked'[c.run] \in [Steps -> Nat]
    BY <1>1 DEF RunHolds
  <2>2. invoked'[c.run][c.next] \in Nat
    BY <1>1, <2>1
  <2>3. \A x \in FlowContexts : CallsMade(x, c.next) \in Int
    <3>1. \A x \in FlowContexts : x.item \in Int /\ x.attempt \in Int
      BY FlowAssumption DEF FlowContexts
    <3> QED
      BY <3>1, FlowAssumption DEF CallsMade
  <2> HIDE DEF CallsMade
  <2> QED
    BY <1>1, <1>2, <2>2, <2>3
<1>4. AloneOn(p)'
  <2> HIDE DEF CallsMade
  <2> QED
    BY <1>1, <1>2, <1>3 DEF AloneOn, Untouched
<1>5. \A q \in FlowProcesses : q # p /\ Active(q) => ctx[q].run # c.run
  BY <1>1 DEF SerialInv
<1>a. invoked' = [invoked EXCEPT ![c.run] =
                   [invoked[c.run] EXCEPT ![c.next] = invoked[c.run][c.next] + 1]]
  BY <1>1 DEF Invokes, SerialInv
<1>6. \E s \in Steps :
        invoked' = [invoked EXCEPT ![c.run] = [invoked[c.run] EXCEPT ![s] = invoked[c.run][s] + 1]]
  BY <1>1, <1>a
<1> QED
  BY <1>1, <1>2, <1>4, <1>5, <1>6, SerialStep

LEMMA CallAlone ==
    ASSUME GateInv, GateInv', SerialInv, NEW p \in FlowProcesses, CallSucceeds(p) \/ CallFails(p)
    PROVE  SerialInv'
<1>1. ctx[p].phase = "call" /\ Invokes(p) /\ log' = log /\ Active(p)
  BY DEF CallSucceeds, CallFails, At, Active
<1>2. PICK c : /\ ctx' = [ctx EXCEPT ![p] = c]
               /\ \/ /\ c = [ctx[p] EXCEPT !.item = @ + 1, !.attempt = 1]
                     /\ Flow[ctx[p].next].kind = "foreach"
                  \/ c = [ctx[p] EXCEPT !.phase = "record"]
                  \/ c = [ctx[p] EXCEPT !.phase = "fail"]
                  \/ /\ c = [ctx[p] EXCEPT !.attempt = @ + 1]
                     /\ Flow[ctx[p].next].kind # "agent"
  BY DEF CallSucceeds, CallFails, Moves, To, LastAttempt, StepOf
<1>3. ctx[p] \in FlowContexts
  BY <1>1, ActiveFact
<1>4. c \in FlowContexts
  BY <1>2, NextContext
<1>5. /\ c.run = ctx[p].run /\ c.next = ctx[p].next /\ c.outputs = ctx[p].outputs
      /\ c.tokens = ctx[p].tokens
  BY <1>2, <1>3 DEF FlowContexts
<1>6. ctx[p].item \in 1 .. Items /\ ctx[p].attempt \in 1 .. Retry + 1
  BY <1>3 DEF FlowContexts
<1>7. /\ c.phase \in {"call", "record", "fail"}
      /\ c.phase = "call" => /\ CallsMade(c, c.next) >= CallsMade(ctx[p], c.next) + 1
                             /\ Flow[c.next].kind # "agent"
  <2>1. CASE c = [ctx[p] EXCEPT !.item = @ + 1, !.attempt = 1] /\ Flow[ctx[p].next].kind = "foreach"
    <3>1. c.item = ctx[p].item + 1 /\ c.attempt = 1 /\ c.phase = "call"
      BY <1>1, <1>3, <2>1 DEF FlowContexts
    <3>2. /\ CallsMade(c, c.next) = ((ctx[p].item + 1) - 1) * (Retry + 1) + (1 - 1)
          /\ CallsMade(ctx[p], c.next) = (ctx[p].item - 1) * (Retry + 1) + (ctx[p].attempt - 1)
      BY <1>5, <2>1, <3>1 DEF CallsMade
    <3>3. (ctx[p].item + 1) - 1 = ctx[p].item
      BY <1>6
    <3>4. CallsMade(c, c.next) = ctx[p].item * (Retry + 1)
      BY <1>6, <3>2, <3>3, CallsCount
    <3> QED
      BY <1>5, <1>6, <2>1, <3>1, <3>2, <3>4, CallsCount
  <2>2. CASE c = [ctx[p] EXCEPT !.attempt = @ + 1] /\ Flow[ctx[p].next].kind # "agent"
    <3>1. c.item = ctx[p].item /\ c.attempt = ctx[p].attempt + 1 /\ c.phase = "call"
      BY <1>1, <1>3, <2>2 DEF FlowContexts
    <3>2. (ctx[p].item - 1) * (Retry + 1) \in Nat
      BY <1>6, CallsCount
    <3> QED
      BY <1>5, <1>6, <2>2, <3>1, <3>2 DEF CallsMade
  <2>3. CASE c = [ctx[p] EXCEPT !.phase = "record"] \/ c = [ctx[p] EXCEPT !.phase = "fail"]
    BY <1>3, <2>3 DEF FlowContexts
  <2> QED
    BY <1>2, <2>1, <2>2, <2>3
<1> HIDE DEF CallsMade
<1> QED
  BY <1>1, <1>2, <1>4, <1>5, <1>7, CalledAlone

LEMMA FlowCrashAlone ==
    ASSUME GateInv, GateInv', SerialInv, NEW p \in FlowProcesses, FlowCrash(p)
    PROVE  SerialInv'
<1>1. Active(p) /\ log' = log /\ ctx' = [ctx EXCEPT ![p] = [ctx[p] EXCEPT !.phase = "returned"]]
  BY DEF FlowCrash, Moves, To
<1>2. CASE invoked' = invoked
  BY <1>1, <1>2, ReturnAlone
<1>3. CASE ctx[p].phase = "call" /\ Invokes(p)
  <2> DEFINE c == [ctx[p] EXCEPT !.phase = "returned"]
  <2>1. ctx[p] \in FlowContexts
    BY <1>1, ActiveFact
  <2>2. /\ c.run = ctx[p].run /\ c.next = ctx[p].next /\ c.outputs = ctx[p].outputs
        /\ c.tokens = ctx[p].tokens /\ c.phase = "returned"
    BY <2>1 DEF FlowContexts
  <2>3. c \in FlowContexts
    BY <1>1, NextContext
  <2> HIDE DEF c
  <2>4. ctx' = [ctx EXCEPT ![p] = c]
    BY <1>1 DEF c
  <2> QED
    BY <1>1, <1>3, <2>2, <2>3, <2>4, CalledAlone
<1> QED
  BY <1>2, <1>3 DEF FlowCrash, At
--------------------------------------------------------------------------------
\* A gate that is decided: the run ends there, or goes on with the grant.
LEMMA DecidedAlone ==
    ASSUME GateInv, GateInv', SerialInv, NEW p \in FlowProcesses, Active(p), invoked' = invoked,
           ctx[p].phase \in {"step", "resolve"}, ctx[p].next \in Steps,
           NEW decided \in {"approve", "reject"},
           Appends(p, Event("gate_resolved", ctx[p].next, decided)),
           NEW x, ctx' = [ctx EXCEPT ![p] = x],
           \/ decided = "reject" /\ x = EndsAs(p, "rejected")
           \/ /\ decided = "approve"
              /\ x = [ctx[p] EXCEPT !.phase = "step", !.next = ctx[p].next + 1,
                        !.outputs = [ctx[p].outputs EXCEPT ![ctx[p].next] = "truthy"]]
    PROVE  SerialInv'
<1> DEFINE e == Event("gate_resolved", ctx[p].next, decided)
<1>1. ctx[p] \in FlowContexts /\ ctx[p].tokens \in Nat /\ x \in FlowContexts
  BY ActiveFact, NextContext
<1>2. Appended(p, e) /\ e.tokens = 0
  <2>1. "gate_resolved" \in FlowEventTypes /\ decided \in FlowInfos
    BY DEF FlowEventTypes, FlowInfos
  <2>2. ctx[p].next \in 0 .. Len(Flow)
    BY StepsFact DEF Steps
  <2>3. e \in FlowEvents
    BY <2>1, <2>2, EventTyped
  <2> QED
    BY <2>3, OwnEvent
<1>3. e.type = "gate_resolved" /\ e.info = decided /\ e.step = ctx[p].next
  BY DEF Event
<1>4. PICK c : c = x
  OBVIOUS
<1> HIDE DEF e
<1>5. CASE decided = "reject"
  <2>1. c = [ctx[p] EXCEPT !.phase = "finish", !.verdict = "rejected"]
    BY <1>4, <1>5 DEF EndsAs
  <2>2. /\ c.run = ctx[p].run /\ c.next = ctx[p].next /\ c.outputs = ctx[p].outputs
        /\ c.tokens = ctx[p].tokens /\ c.phase = "finish"
    BY <1>1, <2>1 DEF FlowContexts
  <2>3. ctx'[p] = c /\ AloneOn(p)
    BY <1>1, <1>4, NextContext DEF SerialInv
  <2>4. /\ log'[c.run] = Append(log[c.run], e) /\ log'[c.run] # <<>>
        /\ e \in FlowEvents /\ log[c.run] \in Seq(FlowEvents)
        /\ TokensUsed(log'[c.run]) = TokensUsed(log[c.run]) + e.tokens
    BY <1>2, <2>2, AppendedFact
  <2>5. /\ c.tokens = TokensUsed(log'[c.run])
    BY <1>1, <1>2, <2>2, <2>3, <2>4 DEF AloneOn
  <2>6. c.outputs = RecordedOutputs(log'[c.run])
    <3>1. ctx[p].outputs = RecordedOutputs(log[c.run])
      BY <2>2, <2>3 DEF AloneOn
    <3> QED
      BY <1>3, <1>5, <2>2, <2>4, <3>1, OutputsAppended
  <2>7. AloneOn(p)'
    BY <2>2, <2>3, <2>4, <2>5, <2>6 DEF AloneOn
  <2>8. log' = log \/ \E y : Appended(p, y) /\ (y.type = "gate_pending" => ctx[p].phase = "step")
    BY <1>2, <1>3
  <2> QED
    BY <1>1, <1>4, <2>2, <2>7, <2>8, QuietSerial
<1>6. CASE decided = "approve"
  <2>1. c = [ctx[p] EXCEPT !.phase = "step", !.next = ctx[p].next + 1,
               !.outputs = [ctx[p].outputs EXCEPT ![ctx[p].next] = "truthy"]]
    BY <1>4, <1>6
  <2>2. /\ c.run = ctx[p].run /\ c.next = ctx[p].next + 1 /\ c.phase = "step"
        /\ c.outputs = [ctx[p].outputs EXCEPT ![e.step] = "truthy"] /\ c.tokens = ctx[p].tokens
    BY <1>1, <1>3, <2>1 DEF FlowContexts
  <2>3. c.tokens = ctx[p].tokens + e.tokens
    BY <1>1, <1>2, <2>2
  <2>4. ctx' = [ctx EXCEPT ![p] = c] /\ c \in FlowContexts
    BY <1>1, <1>4
  <2>5. e.type = "gate_resolved" /\ e.info = "approve"
    BY <1>3, <1>6
  <2> QED
    BY <1>2, <2>2, <2>3, <2>4, <2>5, AdvanceAlone
<1> QED
  BY <1>5, <1>6

LEMMA ResolveAlone ==
    ASSUME GateInv, GateInv', SerialInv, NEW p \in FlowProcesses, Resolve(p)
    PROVE  SerialInv'
<1>1. /\ Active(p) /\ ctx[p].phase = "resolve" /\ ctx[p].next \in Steps /\ invoked' = invoked
      /\ Appends(p, Event("gate_resolved", ctx[p].next, ctx[p].decision))
  BY DEF Resolve, At, Active, GateInv, PlaceHolds
<1>2. ctx[p].decision \in {"approve", "reject"}
  BY <1>1, ActiveFact DEF FlowContexts
<1>3. CASE ctx[p].decision = "reject"
  <2>1. ctx' = [ctx EXCEPT ![p] = EndsAs(p, "rejected")]
    BY <1>3 DEF Resolve, Moves
  <2> QED
    BY <1>1, <1>3, <2>1, DecidedAlone
<1>4. CASE ctx[p].decision = "approve"
  <2>1. ctx' = [ctx EXCEPT ![p] =
                 [ctx[p] EXCEPT !.phase = "step", !.next = ctx[p].next + 1,
                    !.outputs = [ctx[p].outputs EXCEPT ![ctx[p].next] = "truthy"]]]
    BY <1>4 DEF Resolve, Moves, To
  <2> QED
    BY <1>1, <1>4, <2>1, DecidedAlone
<1> QED
  BY <1>2, <1>3, <1>4

LEMMA ReplayGateAlone ==
    ASSUME GateInv, GateInv', SerialInv, NEW p \in FlowProcesses, ReplayGate(p)
    PROVE  SerialInv'
<1> DEFINE decided == Decision(ctx[p].source, ctx[p].next)
<1>1. /\ Active(p) /\ ctx[p].phase = "step" /\ ctx[p].next \in Steps /\ invoked' = invoked
      /\ Resolutions(ctx[p].source, ctx[p].next) # {}
      /\ Appends(p, Event("gate_resolved", ctx[p].next, decided))
  BY DEF ReplayGate, Due, InSteps, At, Active
<1>2. decided \in {"approve", "reject"} /\ ctx[p] \in FlowContexts
  BY <1>1, ActiveFact, DecisionRead
<1>3. CASE decided = "reject"
  <2>1. ctx' = [ctx EXCEPT ![p] = EndsAs(p, "rejected")]
    BY <1>3 DEF ReplayGate, Moves
  <2> HIDE DEF decided
  <2> QED
    BY <1>1, <1>3, <2>1, DecidedAlone
<1>4. CASE decided = "approve"
  <2>1. ctx' = [ctx EXCEPT ![p] =
                 [ctx[p] EXCEPT !.next = ctx[p].next + 1,
                    !.outputs = [ctx[p].outputs EXCEPT ![ctx[p].next] = "truthy"]]]
    BY <1>4 DEF ReplayGate, Moves
  <2>2. [ctx[p] EXCEPT !.next = ctx[p].next + 1,
            !.outputs = [ctx[p].outputs EXCEPT ![ctx[p].next] = "truthy"]]
        = [ctx[p] EXCEPT !.phase = "step", !.next = ctx[p].next + 1,
            !.outputs = [ctx[p].outputs EXCEPT ![ctx[p].next] = "truthy"]]
    BY <1>1, <1>2 DEF FlowContexts
  <2> HIDE DEF decided
  <2>3. ctx' = [ctx EXCEPT ![p] =
                 [ctx[p] EXCEPT !.phase = "step", !.next = ctx[p].next + 1,
                    !.outputs = [ctx[p].outputs EXCEPT ![ctx[p].next] = "truthy"]]]
    BY <2>1, <2>2
  <2> QED
    BY <1>1, <1>4, <2>3, DecidedAlone
<1> QED
  BY <1>2, <1>3, <1>4

LEMMA RecordStepAlone ==
    ASSUME GateInv, GateInv', SerialInv, NEW p \in FlowProcesses, RecordStep(p)
    PROVE  SerialInv'
<1>1. /\ Active(p) /\ ctx[p].phase = "record" /\ ctx[p].next \in Steps /\ invoked' = invoked
      /\ Flow[ctx[p].next].kind # "gate"
  <2>1. ctx[p].phase = "record" /\ invoked' = invoked
    BY DEF RecordStep, At
  <2> QED
    BY <2>1 DEF Active, GateInv, PlaceHolds, StepOf
<1>2. ctx[p] \in FlowContexts /\ ctx[p].tokens \in Nat
  BY <1>1, ActiveFact
<1> DEFINE reuse == StepOf(p).kind = "agent" /\ ctx[p].replay = "recorded"
           done(output, cost) ==
             [ctx[p] EXCEPT !.phase = "step", !.next = ctx[p].next + 1,
                            !.outputs = [ctx[p].outputs EXCEPT ![ctx[p].next] = output],
                            !.tokens = ctx[p].tokens + cost]
<1>3. PICK output \in IF reuse THEN {RecordedOutputs(ctx[p].source)[ctx[p].next]}
                      ELSE IF StepOf(p).kind = "tool" THEN {"truthy", "falsy"} ELSE {"truthy"},
           cost \in IF StepOf(p).kind = "agent" /\ ~reuse THEN TokenCosts ELSE {0} :
         /\ Appends(p, StepCompleted(ctx[p].next, output, cost))
         /\ Moves(p, IF cost # 0 /\ done(output, cost).tokens > Budget
                     THEN [done(output, cost) EXCEPT !.phase = "finish", !.verdict = "budget_exceeded"]
                     ELSE done(output, cost))
  BY DEF RecordStep
<1>4. output \in {"none", "truthy", "falsy"} /\ cost \in Nat
  <2>1. RecordedOutputs(ctx[p].source)[ctx[p].next] \in {"none", "truthy", "falsy"}
    BY <1>1, ActiveFact, OutputsRead DEF Outputs
  <2> QED
    BY <1>3, <2>1, FlowAssumption
<1> DEFINE e == StepCompleted(ctx[p].next, output, cost)
           outputs == [ctx[p].outputs EXCEPT ![ctx[p].next] = output]
<1>5. /\ Appended(p, e) /\ e.type = "step_completed" /\ e.step = ctx[p].next /\ e.info = output
      /\ e.tokens = cost
  BY <1>1, <1>3, <1>4, CompletedFact DEF Appended, Appends
<1>6. outputs \in Outputs /\ ctx[p].next + 1 \in 1 .. Len(Flow) + 1 /\ ctx[p].tokens + cost \in Nat
      /\ "step" \in Phases /\ "budget_exceeded" \in Verdicts
  BY <1>1, <1>2, <1>4, ActiveFact, StepsFact DEF Outputs, Phases, Steps, Verdicts
<1> DEFINE base == done(output, cost)
<1>7. /\ base \in FlowContexts /\ base.phase = "step" /\ base.next = ctx[p].next + 1
      /\ base.outputs = outputs /\ base.run = ctx[p].run /\ base.tokens = ctx[p].tokens + cost
  <2> HIDE DEF outputs
  <2>1. base = [ctx[p] EXCEPT !.phase = "step", !.next = ctx[p].next + 1,
                              !.outputs = outputs, !.tokens = ctx[p].tokens + cost]
    BY DEF outputs
  <2> HIDE DEF base
  <2> QED
    BY <1>2, <1>6, <2>1 DEF FlowContexts
<1>8. PICK c : /\ ctx' = [ctx EXCEPT ![p] = c]
               /\ c = base \/ c = [base EXCEPT !.phase = "finish", !.verdict = "budget_exceeded"]
  BY <1>3 DEF Moves
<1>a. outputs = [ctx[p].outputs EXCEPT ![e.step] = e.info]
  BY <1>5
<1> HIDE DEF base, outputs, e, reuse, done
<1>9. /\ c \in FlowContexts /\ c.phase \in {"step", "finish"} /\ c.next = ctx[p].next + 1
      /\ c.outputs = outputs /\ c.run = ctx[p].run /\ c.tokens = ctx[p].tokens + e.tokens
  <2>1. CASE c = base
    BY <1>5, <1>7, <2>1
  <2>2. CASE c = [base EXCEPT !.phase = "finish", !.verdict = "budget_exceeded"]
    BY <1>5, <1>6, <1>7, <2>2, EndEdit
  <2> QED
    BY <1>8, <2>1, <2>2
<1>10. c.outputs = [ctx[p].outputs EXCEPT ![e.step] = e.info]
  BY <1>9, <1>a
<1> QED
  BY <1>1, <1>5, <1>8, <1>9, <1>10, AdvanceAlone
--------------------------------------------------------------------------------
\* What is read from an empty file.
LEMMA EmptyRun ==
    /\ Status(<<>>) = "running" /\ RecordedOutputs(<<>>) = Nothing /\ TokensUsed(<<>>) = 0
<1>1. DOMAIN <<>> = {}
  OBVIOUS
<1>2. Turns(<<>>) = {} /\ \A s \in Steps : Writes(<<>>, s) = {}
  BY <1>1 DEF Turns, Writes
<1>3. <<>> \in Seq(FlowEvents)
  OBVIOUS
<1> QED
  BY <1>2, <1>3, UsedFact DEF Status, RecordedOutputs, Nothing

\* A process that starts a run, and calls nothing yet.
LEMMA RunFlowAlone ==
    ASSUME GateInv, GateInv', SerialInv, NEW p \in FlowProcesses, RunFlow(p)
    PROVE  SerialInv'
<1> DEFINE e == Event("run_started", NoStep, "run")
           c == [NotStarted EXCEPT !.phase = "step"]
<1>1. /\ ctx[p] = NotStarted /\ log["run"] = <<>> /\ p \notin Replayers /\ invoked' = invoked
      /\ ctx' = [ctx EXCEPT ![p] = c] /\ "run" \in Runs
  BY BeginContext, FlowAssumption DEF RunFlow, Moves, To, Runs
<1>2. /\ c.run = "run" /\ c.phase = "step" /\ c.next = 1 /\ c.outputs = Nothing /\ c.tokens = 0
  BY StartContext DEF FlowContexts
<1>3. c \in FlowContexts
  BY <1>1, NextContext
<1> HIDE DEF c
<1>4. log' = [log EXCEPT !["run"] = Append(log["run"], e)]
  BY <1>1, StartContext DEF RunFlow, Appends
<1>5. e \in FlowEvents /\ e.tokens = 0 /\ e.type = "run_started"
  <2>1. "run_started" \in FlowEventTypes /\ "run" \in FlowInfos
    BY DEF FlowEventTypes, FlowInfos
  <2>2. NoStep \in 0 .. Len(Flow)
    BY StepsFact DEF NoStep
  <2>3. Event("run_started", NoStep, "run") \in FlowEvents
    BY <2>1, <2>2, EventTyped
  <2> QED
    BY <2>3, EventParts
<1> HIDE DEF e
<1>6. log'["run"] = Append(<<>>, e) /\ log'["run"] # <<>> /\ <<>> \in Seq(FlowEvents)
  BY <1>1, <1>4, <1>5, AppendedEvent DEF GateInv
<1>7. /\ Status(log'["run"]) = "running" /\ RecordedOutputs(log'["run"]) = Nothing
      /\ TokensUsed(log'["run"]) = 0
  <2>1. Status(Append(<<>>, e)) = Status(<<>>)
    BY <1>5, <1>6, StatusAppended
  <2>2. RecordedOutputs(Append(<<>>, e)) = RecordedOutputs(<<>>)
    BY <1>5, <1>6, OutputsAppended
  <2>3. TokensUsed(Append(<<>>, e)) = TokensUsed(<<>>) + e.tokens
    BY <1>5, <1>6, UsedFact
  <2> QED
    BY <1>5, <1>6, <2>1, <2>2, <2>3, EmptyRun
<1>8. RunHolds("run") /\ Untouched("run", 1)
  BY <1>1 DEF SerialInv, RunHolds
<1>9. RunHolds(c.run)'
  BY <1>1, <1>2, <1>6, <1>7, <1>8 DEF RunHolds, Untouched
<1>10. AloneOn(p)'
  <2>1. ctx'[p] = c
    BY <1>1 DEF GateInv
  <2> QED
    BY <1>1, <1>2, <1>6, <1>7, <1>8, <2>1 DEF AloneOn, Untouched
<1>11. \A q \in FlowProcesses : q # p /\ Active(q) => ctx[q].run # c.run
  <2> SUFFICES ASSUME NEW q \in FlowProcesses, Active(q), ctx[q].run = "run" PROVE FALSE
    BY <1>2
  <2>1. ctx[q].phase = "start"
    BY <1>1 DEF SerialInv, AloneOn
  <2>2. q \in Replayers
    BY <2>1, ActiveFact
  <2> QED
    BY <2>2, ActiveFact, FlowAssumption
<1>12. \E x : log' = [log EXCEPT ![c.run] = Append(@, x)]
  BY <1>2, <1>4
<1> QED
  BY <1>1, <1>2, <1>3, <1>9, <1>10, <1>11, <1>12, SerialStep

\* A replay starts a run of its own.
LEMMA ReplayFlowRunAlone ==
    ASSUME GateInv, GateInv', SerialInv, NEW p \in FlowProcesses, NEW live \in BOOLEAN,
           ReplayFlowRun(p, live)
    PROVE  SerialInv'
<1>0. PICK c : c = [NotStarted EXCEPT !.phase = "start", !.run = p, !.source = log["run"],
                                      !.replay = IF live THEN "live" ELSE "recorded"]
  OBVIOUS
<1>1. /\ ctx[p] = NotStarted /\ p \in Replayers /\ p \in Runs /\ invoked' = invoked /\ log' = log
      /\ ctx' = [ctx EXCEPT ![p] = c]
  BY <1>0, BeginContext DEF ReplayFlowRun, Moves, To, Runs
<1>2. /\ c.run = p /\ c.phase = "start" /\ c.next = 1 /\ c.outputs = Nothing /\ c.tokens = 0
  BY <1>0, StartContext DEF FlowContexts
<1>3. c \in FlowContexts
  BY <1>1, NextContext
<1>4. log[p] = <<>> /\ RunHolds(p)
  BY <1>1, StartContext DEF SerialInv
<1>5. RunHolds(p)'
  BY <1>1, <1>4 DEF RunHolds, Untouched
<1>6. AloneOn(p)'
  <2>1. ctx'[p] = c
    BY <1>1 DEF GateInv
  <2> QED
    BY <1>1, <1>2, <1>4, <2>1, EmptyRun DEF AloneOn, Untouched
<1>7. \A q \in FlowProcesses : q # p /\ Active(q) => ctx[q].run # c.run
  <2> SUFFICES ASSUME NEW q \in FlowProcesses, q # p, Active(q), ctx[q].run = p PROVE FALSE
    BY <1>2
  <2> QED
    BY <1>1, ActiveFact, FlowAssumption
<1> QED
  BY <1>1, <1>2, <1>3, <1>5, <1>6, <1>7, SerialStep

\* A run is resumed by a process that finds nobody at it.
LEMMA ResumeAlone ==
    ASSUME GateInv, GateInv', SerialInv, Serialized, NEW p \in FlowProcesses,
           NEW decision \in {"approve", "reject"}, Resume(p, decision)
    PROVE  SerialInv'
<1> DEFINE events == log["run"]
           read == [NotStarted EXCEPT !.outputs = RecordedOutputs(events),
                               !.tokens = TokensUsed(events),
                               !.next = PendingGate(events), !.decision = decision]
<1>1. /\ ctx[p] = NotStarted /\ p \in Resumers /\ p \notin Replayers /\ "run" \in Runs
      /\ invoked' = invoked /\ log' = log /\ Admitted("run")
      /\ events # <<>> /\ Status(events) = "awaiting_approval"
  BY BeginContext, FlowAssumption DEF Resume, Runs, Readable
<1>2. PICK c : /\ ctx' = [ctx EXCEPT ![p] = c]
               /\ \/ c = [read EXCEPT !.phase = "finish", !.verdict = "expired"]
                  \/ c = [read EXCEPT !.phase = "resolve"]
  BY <1>1 DEF Resume, Moves
<1>3. /\ c.run = "run" /\ c.phase \in {"finish", "resolve"} /\ c.next = PendingGate(events)
      /\ c.outputs = RecordedOutputs(events) /\ c.tokens = TokensUsed(events)
  <2>1. NotStarted \in FlowContexts
    BY StartContext
  <2> QED
    BY <1>2, <2>1, StartContext DEF FlowContexts
<1>4. c \in FlowContexts
  BY <1>2, NextContext
<1>5. RunHolds("run")
  BY <1>1 DEF SerialInv
<1>6. RunHolds(c.run)'
  BY <1>1, <1>3, <1>5 DEF RunHolds, Untouched
<1>7. AloneOn(p)'
  <2>1. ctx'[p] = c
    BY <1>2 DEF GateInv
  <2>2. Untouched("run", PendingGate(events))
    BY <1>1, <1>5 DEF RunHolds
  <2> HIDE DEF read
  <2> QED
    BY <1>1, <1>3, <2>1, <2>2 DEF AloneOn, Untouched
<1>8. \A q \in FlowProcesses : q # p /\ Active(q) => ctx[q].run # c.run
  BY <1>1, <1>3 DEF Admitted
<1> HIDE DEF read
<1> QED
  BY <1>1, <1>2, <1>3, <1>4, <1>6, <1>7, <1>8, SerialStep
--------------------------------------------------------------------------------
LEMMA SerialInit == FlowInit => SerialInv
<1> SUFFICES ASSUME FlowInit PROVE SerialInv
  OBVIOUS
<1>1. /\ log = [r \in Runs |-> <<>>] /\ ctx = [p \in FlowProcesses |-> NotStarted]
      /\ invoked = [r \in Runs |-> [s \in Steps |-> 0]]
  BY DEF FlowInit
<1>2. \A p \in FlowProcesses : ctx[p] = NotStarted /\ ~Active(p)
  BY <1>1, StartContext DEF Active
<1>3. \A p \in Replayers : log[p] = <<>>
  BY <1>1 DEF Runs
<1>4. \A r \in Runs : RunHolds(r)
  <2> SUFFICES ASSUME NEW r \in Runs PROVE RunHolds(r)
    OBVIOUS
  <2>1. log[r] = <<>> /\ invoked[r] = [s \in Steps |-> 0]
    BY <1>1
  <2>2. \A s \in Steps : 0 <= CallLimit(s)
    BY CallsCount, FlowAssumption DEF CallLimit
  <2> QED
    BY <2>1, <2>2, EmptyRun DEF RunHolds, Untouched
<1> QED
  BY <1>1, <1>2, <1>3, <1>4 DEF SerialInv

LEMMA SerialStepInv ==
    ASSUME Serialized, GateInv, GateInv', SerialInv, [FlowNext]_flowVars
    PROVE  SerialInv'
<1>1. CASE UNCHANGED <<log, ctx, invoked>>
  <2> USE <1>1
  <2>1. \A r \in Runs : RunHolds(r)'
    BY DEF SerialInv, RunHolds, Untouched
  <2>2. \A p \in FlowProcesses : Active(p)' => AloneOn(p)'
    <3> SUFFICES ASSUME NEW p \in FlowProcesses, Active(p)' PROVE AloneOn(p)'
      OBVIOUS
    <3>1. AloneOn(p)
      BY DEF SerialInv, Active
    <3> QED
      BY <3>1 DEF AloneOn, Untouched
  <2> QED
    BY <2>1, <2>2 DEF SerialInv, Active
<1>2. CASE GateExpires \/ UNCHANGED flowVars
  BY <1>1, <1>2 DEF GateExpires, flowVars
<1>3. ASSUME NEW p \in FlowProcesses,
             RunFlow(p) \/ FlowCrash(p) \/ CrashTorn(p)
             \/ (\E live \in BOOLEAN : ReplayFlowRun(p, live))
             \/ \E decision \in {"approve", "reject"} : Resume(p, decision)
      PROVE  SerialInv'
  BY <1>3, RunFlowAlone, FlowCrashAlone, CrashTornAlone, ReplayFlowRunAlone, ResumeAlone
<1>4. ASSUME NEW p \in FlowProcesses, Proceed(p)
      PROVE  SerialInv'
  BY <1>4, StartReplayAlone, ResolveAlone, SkipAlone, FailsAlone, PendGateAlone, ReplayGateAlone,
     EndsAlone, BeginStepAlone, CallAlone, RecordStepAlone, FailStepAlone, FinishFlowAlone
  DEF Proceed
<1> QED
  BY <1>2, <1>3, <1>4 DEF FlowNext

\* Where one process at a time acts on a run, what it carries in memory is what
\* the file says.
THEOREM ContextIsKept == Serialized => (FlowSpec => []ContextIsRecorded)
<1> SUFFICES ASSUME Serialized PROVE FlowSpec => []ContextIsRecorded
  OBVIOUS
<1>1. SerialInv => ContextIsRecorded
  BY DEF SerialInv, AloneOn, ContextIsRecorded
<1>2. GateInv /\ SerialInv /\ [FlowNext]_flowVars => GateInv' /\ SerialInv'
  BY GateStepInv, SerialStepInv
<1> QED
  BY <1>1, <1>2, GateInitInv, SerialInit, PTL DEF FlowSpec

\* There, crashes and resumes never repeat a step.
THEOREM StepsAreNotRepeated == Serialized => (FlowSpec => []StepsRunOnce)
<1> SUFFICES ASSUME Serialized PROVE FlowSpec => []StepsRunOnce
  OBVIOUS
<1>1. SerialInv => StepsRunOnce
  BY DEF SerialInv, RunHolds, CallLimit, StepsRunOnce
<1>2. GateInv /\ SerialInv /\ [FlowNext]_flowVars => GateInv' /\ SerialInv'
  BY GateStepInv, SerialStepInv
<1> QED
  BY <1>1, <1>2, GateInitInv, SerialInit, PTL DEF FlowSpec
--------------------------------------------------------------------------------
(* The subagents of a parent.                                                  *)

\* Only a child that has finished has a result on file; nothing is on file of one
\* that was not spawned.
ChildOnFile ==
    \A c \in Children :
        /\ subrun[c].status \in SubrunEnded => child[c] = "done"
        /\ child[c] \in {"new", "checked"} => subrun[c] = NoSubrun
        /\ subrun[c].status = "none" => ~subrun[c].claimed

\* What a call works on is a result on file, and holds what the file says.
ClaimsTrue ==
    \A k \in Claimers :
        /\ claim[k].phase = "idle" => claim[k] = NoClaim
        /\ \A c \in claim[k].todo : subrun[c].status \in SubrunEnded
        /\ \A f \in claim[k].at \cup claim[k].got : subrun[f[1]].status = f[2]

\* What was given is what the file says.
GivenTrue ==
    \A c \in Children : \A i \in DOMAIN given[c] : given[c][i] = subrun[c].status

\* A result that is claimed on file was given, is held, or was lost in a crash.
ClaimedGoesSomewhere ==
    \A c \in Children : subrun[c].claimed => given[c] # <<>> \/ Held(c) \/ faulted.crashes > 0

\* Unless a claim was swallowed, what was given or is held is claimed on file.
HandedIsClaimed ==
    ~faulted.swallowed =>
        \A c \in Children : given[c] # <<>> \/ Held(c) => subrun[c].claimed

\* Calls that never met take turns.
OneCall ==
    ~faulted.met =>
        \A j, k \in Claimers : claim[j] # NoClaim /\ claim[k] # NoClaim => j = k

\* Then what a call is about to claim or holds has not been given, and nothing
\* was given twice.
FreshInHand ==
    ~faulted.met /\ ~faulted.swallowed =>
        /\ \A k \in Claimers : \A f \in claim[k].at \cup claim[k].got : given[f[1]] = <<>>
        /\ \A c \in Children : Len(given[c]) <= 1

SubagentInv ==
    /\ SubagentTypeOK /\ ChildOnFile /\ ClaimsTrue /\ GivenTrue
    /\ ClaimedGoesSomewhere /\ HandedIsClaimed /\ OneCall /\ FreshInHand
--------------------------------------------------------------------------------
LEMMA SubagentInitInv == SubagentInit => SubagentInv
<1> SUFFICES ASSUME SubagentInit PROVE SubagentInv
  OBVIOUS
<1> USE DEF SubagentInit, NoSubrun, NoClaim
<1>1. SubagentTypeOK
  <2>1. subrun \in [Children -> [status : {"none", "running", "orphaned"} \cup SubrunEnded,
                                 claimed : BOOLEAN]]
    OBVIOUS
  <2>2. given \in [Children -> Seq(SubrunEnded)]
    OBVIOUS
  <2>3. claim \in [Claimers -> [phase : {"idle", "next", "append"}, todo : SUBSET Children,
                                at : SUBSET (Children \X SubrunEnded),
                                got : SUBSET (Children \X SubrunEnded)]]
    OBVIOUS
  <2>4. faulted \in [crashes : Nat, met : BOOLEAN, swallowed : BOOLEAN]
    OBVIOUS
  <2> QED
    BY <2>1, <2>2, <2>3, <2>4 DEF SubagentTypeOK
<1>2. ChildOnFile /\ ClaimsTrue
  BY DEF ChildOnFile, ClaimsTrue, SubrunEnded
<1>3. GivenTrue /\ ClaimedGoesSomewhere /\ OneCall
  BY DEF GivenTrue, ClaimedGoesSomewhere, OneCall
<1>4. \A c \in Children : ~Held(c)
  BY DEF Held, Got
<1>5. HandedIsClaimed /\ FreshInHand
  BY <1>4 DEF HandedIsClaimed, FreshInHand
<1> QED
  BY <1>1, <1>2, <1>3, <1>5 DEF SubagentInv

\* An append behind a torn line is remembered, and nothing else of the history moves.
LEMMA SwallowsFact ==
    ASSUME SubagentTypeOK, faulted' = Swallows
    PROVE  /\ faulted' \in [crashes : Nat, met : BOOLEAN, swallowed : BOOLEAN]
           /\ faulted'.met = faulted.met /\ faulted'.crashes = faulted.crashes
           /\ faulted'.swallowed <=> faulted.swallowed \/ cut
<1> DEFINE lost == faulted.swallowed \/ cut
<1>1. lost \in BOOLEAN /\ faulted' = [faulted EXCEPT !.swallowed = lost]
  BY DEF Swallows
<1>2. faulted \in [crashes : Nat, met : BOOLEAN, swallowed : BOOLEAN]
  BY DEF SubagentTypeOK
<1> HIDE DEF lost
<1>3. /\ faulted' \in [crashes : Nat, met : BOOLEAN, swallowed : BOOLEAN]
      /\ faulted'.met = faulted.met /\ faulted'.crashes = faulted.crashes
      /\ faulted'.swallowed = lost
  BY <1>1, <1>2
<1> QED
  BY <1>3 DEF lost

SubrunRecord == [status : {"none", "running", "orphaned"} \cup SubrunEnded, claimed : BOOLEAN]

\* One more event makes a record of a record.
LEMMA FoldedType ==
    ASSUME NEW r \in SubrunRecord,
           NEW event \in {"spawned", "claimed", "orphaned"} \cup SubrunEnded
    PROVE  Folded(r, event) \in SubrunRecord
BY DEF Folded, SubrunRecord, SubrunEnded

\* An append changes the record of its own run at most, and then as the fold says.
LEMMA AppendFact ==
    ASSUME SubagentTypeOK, NEW c \in Children,
           NEW event \in {"spawned", "claimed", "orphaned"} \cup SubrunEnded,
           AppendEvent(c, event)
    PROVE  /\ cut' = FALSE
           /\ subrun' \in [Children -> SubrunRecord]
           /\ \A d \in Children : d # c => subrun'[d] = subrun[d]
           /\ cut => subrun'[c] = subrun[c]
           /\ ~cut => subrun'[c] = Folded(subrun[c], event)
<1>1. subrun \in [Children -> SubrunRecord]
  BY DEF SubagentTypeOK, SubrunRecord
<1>2. Folded(subrun[c], event) \in SubrunRecord
  BY <1>1, FoldedType
<1> DEFINE new == Folded(subrun[c], event)
<1>3. cut' = FALSE /\ (cut => subrun' = subrun) /\ (~cut => subrun' = [subrun EXCEPT ![c] = new])
  BY DEF AppendEvent
<1>4. new \in SubrunRecord
  BY <1>2
<1> HIDE DEF new
<1>5. CASE cut
  BY <1>1, <1>3, <1>5
<1>6. CASE ~cut
  <2>1. subrun' = [subrun EXCEPT ![c] = new]
    BY <1>3, <1>6
  <2>2. subrun'[c] = new /\ subrun' \in [Children -> SubrunRecord]
    BY <1>1, <1>4, <2>1
  <2>3. \A d \in Children : d # c => subrun'[d] = subrun[d]
    BY <1>1, <2>1
  <2> QED
    BY <1>3, <1>6, <2>2, <2>3 DEF new
<1> QED
  BY <1>5, <1>6

\* A step that leaves the file, the calls and what was given alone, moves a child
\* no further than to its check or its crash, and forgets no history.
LEMMA QuietStep ==
    ASSUME SubagentInv, UNCHANGED <<subrun, claim, given>>, SubagentTypeOK',
           \A c \in Children : child'[c] = child[c]
                               \/ (child[c] = "new" /\ child'[c] = "checked"),
           faulted'.met = faulted.met, faulted'.swallowed = faulted.swallowed,
           faulted.crashes > 0 => faulted'.crashes > 0
    PROVE  SubagentInv'
<1>1. ChildOnFile'
  BY DEF SubagentInv, ChildOnFile, SubagentTypeOK, NoSubrun, SubrunEnded
<1>2. ClaimsTrue' /\ GivenTrue' /\ OneCall' /\ FreshInHand'
  BY DEF SubagentInv, ClaimsTrue, GivenTrue, OneCall, FreshInHand
<1>3. \A c \in Children : Held(c)' <=> Held(c)
  BY DEF Held, Got
<1>4. ClaimedGoesSomewhere' /\ HandedIsClaimed'
  BY <1>3 DEF SubagentInv, ClaimedGoesSomewhere, HandedIsClaimed
<1> QED
  BY <1>1, <1>2, <1>4 DEF SubagentInv

\* An event that changes neither a result on file nor a claim.
LEMMA FileStep ==
    ASSUME SubagentInv, UNCHANGED <<claim, given>>, SubagentTypeOK', ChildOnFile',
           \A c \in Children :
               /\ subrun[c].status \in SubrunEnded => subrun'[c].status = subrun[c].status
               /\ subrun'[c].claimed = subrun[c].claimed,
           faulted'.met = faulted.met, faulted'.crashes = faulted.crashes,
           faulted.swallowed => faulted'.swallowed
    PROVE  SubagentInv'
<1>1. ClaimsTrue'
  <2>1. \A k \in Claimers : \A f \in claim[k].at \cup claim[k].got :
            f[1] \in Children /\ f[2] \in SubrunEnded
    BY DEF SubagentInv, SubagentTypeOK
  <2> QED
    BY <2>1 DEF SubagentInv, ClaimsTrue, SubagentTypeOK
<1>2. GivenTrue'
  <2>1. \A c \in Children : \A i \in DOMAIN given[c] : given[c][i] \in SubrunEnded
    BY DEF SubagentInv, SubagentTypeOK
  <2> QED
    BY <2>1 DEF SubagentInv, GivenTrue
<1>3. \A c \in Children : Held(c)' <=> Held(c)
  BY DEF Held, Got
<1>4. ClaimedGoesSomewhere' /\ HandedIsClaimed'
  BY <1>3 DEF SubagentInv, ClaimedGoesSomewhere, HandedIsClaimed
<1>5. OneCall' /\ FreshInHand'
  BY DEF SubagentInv, OneCall, FreshInHand
<1> QED
  BY <1>1, <1>2, <1>4, <1>5 DEF SubagentInv
--------------------------------------------------------------------------------
LEMMA SpawnStep ==
    ASSUME SubagentInv, NEW c \in Children, Spawn(c)
    PROVE  SubagentInv'
<1>1. subrun[c] = NoSubrun
  BY DEF Spawn, SubagentInv, ChildOnFile
<1>2. Folded(subrun[c], "spawned") = [status |-> "running", claimed |-> FALSE]
  BY DEF Folded
<1>3. /\ cut' = FALSE /\ subrun' \in [Children -> SubrunRecord]
      /\ \A d \in Children : d # c => subrun'[d] = subrun[d]
      /\ subrun'[c] = NoSubrun \/ subrun'[c] = [status |-> "running", claimed |-> FALSE]
  BY <1>1, <1>2, AppendFact DEF Spawn, SubagentInv
<1>4. /\ child' \in [Children -> {"new", "checked", "live", "done", "dead"}]
      /\ child'[c] = "live" /\ \A d \in Children : d # c => child'[d] = child[d]
  BY DEF Spawn, SubagentInv, SubagentTypeOK
<1>5. /\ faulted' \in [crashes : Nat, met : BOOLEAN, swallowed : BOOLEAN]
      /\ faulted'.met = faulted.met /\ faulted'.crashes = faulted.crashes
      /\ faulted.swallowed => faulted'.swallowed
  BY SwallowsFact DEF Spawn, SubagentInv
<1>6. UNCHANGED <<stale, reaper, claim, given>>
  BY DEF Spawn
<1>7. SubagentTypeOK'
  BY <1>3, <1>4, <1>5, <1>6 DEF SubagentInv, SubagentTypeOK, SubrunRecord
<1>8. ChildOnFile'
  BY <1>3, <1>4 DEF SubagentInv, ChildOnFile, NoSubrun, SubrunEnded
<1>9. \A d \in Children :
          /\ subrun[d].status \in SubrunEnded => subrun'[d].status = subrun[d].status
          /\ subrun'[d].claimed = subrun[d].claimed
  <2>1. subrun[c].status \notin SubrunEnded /\ subrun[c].claimed = FALSE
    BY <1>1 DEF NoSubrun, SubrunEnded
  <2>2. subrun'[c].claimed = FALSE
    BY <1>3 DEF NoSubrun
  <2> QED
    BY <1>3, <2>1, <2>2
<1> QED
  BY <1>5, <1>6, <1>7, <1>8, <1>9, FileStep

LEMMA FinishStep ==
    ASSUME SubagentInv, NEW c \in Children, NEW event \in SubrunEnded, Finish(c, event)
    PROVE  SubagentInv'
<1>1. child[c] = "live" /\ subrun[c].status \notin SubrunEnded
  BY DEF Finish, SubagentInv, ChildOnFile
<1>2. subrun[c] \in SubrunRecord
  BY DEF SubagentInv, SubagentTypeOK, SubrunRecord
<1>3. LET new == Folded(subrun[c], event)
      IN  new.claimed = subrun[c].claimed /\ (new.status = "none" => subrun[c].status = "none")
  BY <1>2 DEF Folded, SubrunEnded, SubrunRecord
<1>4. /\ cut' = FALSE /\ subrun' \in [Children -> SubrunRecord]
      /\ \A d \in Children : d # c => subrun'[d] = subrun[d]
      /\ subrun'[c].claimed = subrun[c].claimed
      /\ subrun'[c].status = "none" => subrun[c].status = "none"
  BY <1>3, AppendFact DEF Finish, SubagentInv
<1>5. /\ child' \in [Children -> {"new", "checked", "live", "done", "dead"}]
      /\ child'[c] = "done" /\ \A d \in Children : d # c => child'[d] = child[d]
  BY DEF Finish, SubagentInv, SubagentTypeOK
<1>6. /\ faulted' \in [crashes : Nat, met : BOOLEAN, swallowed : BOOLEAN]
      /\ faulted'.met = faulted.met /\ faulted'.crashes = faulted.crashes
      /\ faulted.swallowed => faulted'.swallowed
  BY SwallowsFact DEF Finish, SubagentInv
<1>7. UNCHANGED <<stale, reaper, claim, given>>
  BY DEF Finish
<1>8. SubagentTypeOK'
  BY <1>4, <1>5, <1>6, <1>7 DEF SubagentInv, SubagentTypeOK, SubrunRecord
<1>9. ChildOnFile'
  BY <1>4, <1>5 DEF SubagentInv, ChildOnFile
<1>10. \A d \in Children :
          /\ subrun[d].status \in SubrunEnded => subrun'[d].status = subrun[d].status
          /\ subrun'[d].claimed = subrun[d].claimed
  BY <1>1, <1>4
<1> QED
  BY <1>6, <1>7, <1>8, <1>9, <1>10, FileStep

LEMMA ReapStep ==
    ASSUME SubagentInv, NEW c \in Children, Reap(c)
    PROVE  SubagentInv'
<1>1. subrun[c] \in SubrunRecord
  BY DEF SubagentInv, SubagentTypeOK, SubrunRecord
<1>2. LET new == Folded(subrun[c], "orphaned")
      IN  \/ new = subrun[c]
          \/ /\ subrun[c].status = "running" /\ new.status = "orphaned"
             /\ new.claimed = subrun[c].claimed
  BY <1>1 DEF Folded, SubrunRecord
<1>3. /\ cut' = FALSE /\ subrun' \in [Children -> SubrunRecord]
      /\ \A d \in Children : d # c => subrun'[d] = subrun[d]
      /\ subrun'[c].claimed = subrun[c].claimed
      /\ \/ subrun'[c] = subrun[c]
         \/ subrun[c].status = "running" /\ subrun'[c].status = "orphaned"
  BY <1>2, AppendFact DEF Reap, SubagentInv
<1>4. UNCHANGED <<child, stale, claim, given>> /\ reaper' \subseteq reaper
  BY DEF Reap
<1>5. /\ faulted' \in [crashes : Nat, met : BOOLEAN, swallowed : BOOLEAN]
      /\ faulted'.met = faulted.met /\ faulted'.crashes = faulted.crashes
      /\ faulted.swallowed => faulted'.swallowed
  BY SwallowsFact DEF Reap, SubagentInv
<1>6. SubagentTypeOK'
  BY <1>3, <1>4, <1>5 DEF SubagentInv, SubagentTypeOK, SubrunRecord
<1>7. ChildOnFile'
  BY <1>3, <1>4 DEF SubagentInv, ChildOnFile, NoSubrun, SubrunEnded
<1>8. \A d \in Children :
          /\ subrun[d].status \in SubrunEnded => subrun'[d].status = subrun[d].status
          /\ subrun'[d].claimed = subrun[d].claimed
  BY <1>3 DEF SubrunEnded
<1> QED
  BY <1>4, <1>5, <1>6, <1>7, <1>8, FileStep

LEMMA CheckCapStep ==
    ASSUME SubagentInv, NEW c \in Children, CheckCap(c)
    PROVE  SubagentInv'
<1>1. child[c] = "new" /\ child' = [child EXCEPT ![c] = "checked"]
  BY DEF CheckCap
<1>2. UNCHANGED <<subrun, cut, stale, reaper, claim, given, faulted>>
  BY DEF CheckCap
<1>3. /\ child' \in [Children -> {"new", "checked", "live", "done", "dead"}]
      /\ child'[c] = "checked" /\ \A d \in Children : d # c => child'[d] = child[d]
  BY <1>1 DEF SubagentInv, SubagentTypeOK
<1>4. SubagentTypeOK'
  BY <1>2, <1>3 DEF SubagentInv, SubagentTypeOK
<1>5. \A d \in Children : child'[d] = child[d] \/ (child[d] = "new" /\ child'[d] = "checked")
  BY <1>1, <1>3
<1> QED
  BY <1>2, <1>4, <1>5, QuietStep

\* A crash is counted, and nothing else of the history moves.
LEMMA FailsFact ==
    ASSUME SubagentTypeOK, Fails
    PROVE  /\ faulted' \in [crashes : Nat, met : BOOLEAN, swallowed : BOOLEAN]
           /\ faulted'.met = faulted.met /\ faulted'.swallowed = faulted.swallowed
           /\ faulted'.crashes > 0
<1>1. faulted \in [crashes : Nat, met : BOOLEAN, swallowed : BOOLEAN]
  BY DEF SubagentTypeOK
<1>2. faulted' = [faulted EXCEPT !.crashes = faulted.crashes + 1]
  BY DEF Fails
<1>3. faulted.crashes + 1 \in Nat /\ faulted.crashes + 1 > 0
  BY <1>1
<1> QED
  BY <1>1, <1>2, <1>3

LEMMA ReaperStep ==
    ASSUME SubagentInv, FindStale \/ ReaperCrash \/ \E c \in Children : Ages(c)
    PROVE  SubagentInv'
<1>1. UNCHANGED <<subrun, child, claim, given>>
  BY DEF FindStale, ReaperCrash, Ages
<1>2. cut' \in BOOLEAN /\ stale' \subseteq Children /\ reaper' \subseteq Children
  BY DEF FindStale, ReaperCrash, Ages, RunningSubruns, SubagentInv, SubagentTypeOK
<1>3. /\ faulted' \in [crashes : Nat, met : BOOLEAN, swallowed : BOOLEAN]
      /\ faulted'.met = faulted.met /\ faulted'.swallowed = faulted.swallowed
      /\ faulted.crashes > 0 => faulted'.crashes > 0
  <2>1. CASE ReaperCrash
    BY <2>1, FailsFact DEF ReaperCrash, SubagentInv
  <2>2. CASE FindStale \/ \E c \in Children : Ages(c)
    <3>1. faulted' = faulted
      BY <2>2 DEF FindStale, Ages
    <3> QED
      BY <3>1 DEF SubagentInv, SubagentTypeOK
  <2> QED
    BY <2>1, <2>2
<1>4. SubagentTypeOK'
  BY <1>1, <1>2, <1>3 DEF SubagentInv, SubagentTypeOK
<1>5. /\ UNCHANGED <<subrun, claim, given>>
      /\ \A c \in Children : child'[c] = child[c] \/ (child[c] = "new" /\ child'[c] = "checked")
  BY <1>1
<1> QED
  BY <1>3, <1>4, <1>5, QuietStep

LEMMA ParentCrashStep ==
    ASSUME SubagentInv, ParentCrash
    PROVE  SubagentInv'
<1>1. /\ faulted' \in [crashes : Nat, met : BOOLEAN, swallowed : BOOLEAN]
      /\ faulted'.met = faulted.met /\ faulted'.swallowed = faulted.swallowed
      /\ faulted'.crashes > 0
  BY FailsFact DEF ParentCrash, SubagentInv
<1>2. UNCHANGED <<subrun, stale, reaper, given>> /\ cut' \in BOOLEAN
  BY DEF ParentCrash, SubagentInv, SubagentTypeOK
<1>3. /\ child' \in [Children -> {"new", "checked", "live", "done", "dead"}]
      /\ \A c \in Children : child'[c] = child[c] \/ (child[c] # "done" /\ child'[c] = "dead")
  <2>1. /\ child \in [Children -> {"new", "checked", "live", "done", "dead"}]
        /\ child' = [c \in Children |-> IF child[c] \in {"checked", "live"} THEN "dead" ELSE child[c]]
    BY DEF ParentCrash, Living, SubagentInv, SubagentTypeOK
  <2>2. SUFFICES ASSUME NEW c \in Children
                 PROVE  child'[c] = child[c] \/ (child[c] # "done" /\ child'[c] = "dead")
    BY <2>1
  <2>3. CASE child[c] \in {"checked", "live"}
    BY <2>1, <2>3
  <2>4. CASE child[c] \notin {"checked", "live"}
    BY <2>1, <2>4
  <2> QED
    BY <2>3, <2>4
<1>4. \A k \in Claimers : claim'[k] = NoClaim
  BY DEF ParentCrash
<1>5. claim' \in [Claimers -> [phase : {"idle", "next", "append"}, todo : SUBSET Children,
                              at : SUBSET (Children \X SubrunEnded),
                              got : SUBSET (Children \X SubrunEnded)]]
  BY DEF ParentCrash, NoClaim
<1>6. SubagentTypeOK'
  BY <1>1, <1>2, <1>3, <1>5 DEF SubagentInv, SubagentTypeOK
<1>7. ChildOnFile'
  BY <1>2, <1>3 DEF SubagentInv, ChildOnFile
<1>8. ClaimsTrue' /\ GivenTrue' /\ OneCall' /\ FreshInHand'
  BY <1>1, <1>2, <1>4 DEF SubagentInv, ClaimsTrue, GivenTrue, OneCall, FreshInHand, NoClaim
<1>9. \A c \in Children : ~Held(c)'
  <2>1. \A k \in Claimers : claim'[k].got = {}
    BY <1>4 DEF NoClaim
  <2> QED
    BY <2>1 DEF Held, Got
<1>10. ClaimedGoesSomewhere' /\ HandedIsClaimed'
  BY <1>1, <1>2, <1>9 DEF SubagentInv, ClaimedGoesSomewhere, HandedIsClaimed
<1> QED
  BY <1>6, <1>7, <1>8, <1>10 DEF SubagentInv
--------------------------------------------------------------------------------
\* A call that goes on to results on file, which were not given yet as far as its
\* reads are to be trusted.
LEMMA ClaimStep ==
    ASSUME SubagentInv, NEW k \in Claimers, UNCHANGED <<subrun, child, given>>, SubagentTypeOK',
           \A j \in Claimers : j # k => claim'[j] = claim[j],
           claim'[k].phase # "idle", claim'[k].got = claim[k].got,
           \A c \in claim'[k].todo : subrun[c].status \in SubrunEnded,
           \A f \in claim'[k].at : /\ subrun[f[1]].status = f[2]
                                   /\ ~faulted.swallowed => given[f[1]] = <<>>,
           OneCall', faulted'.crashes = faulted.crashes,
           faulted'.swallowed = faulted.swallowed, ~faulted'.met => ~faulted.met
    PROVE  SubagentInv'
<1>1. ChildOnFile' /\ GivenTrue'
  BY DEF SubagentInv, ChildOnFile, GivenTrue
<1>2. ClaimsTrue'
  BY DEF SubagentInv, ClaimsTrue
<1>3. \A j \in Claimers : claim'[j].got = claim[j].got
  OBVIOUS
<1>4. \A c \in Children : Held(c)' <=> Held(c)
  BY <1>3 DEF Held, Got
<1>5. ClaimedGoesSomewhere' /\ HandedIsClaimed'
  BY <1>4 DEF SubagentInv, ClaimedGoesSomewhere, HandedIsClaimed
<1>6. FreshInHand'
  BY <1>3 DEF SubagentInv, FreshInHand
<1> QED
  BY <1>1, <1>2, <1>5, <1>6 DEF SubagentInv

LEMMA ReadFinishedStep ==
    ASSUME SubagentInv, NEW k \in Claimers, ReadFinished(k)
    PROVE  SubagentInv'
<1> DEFINE finished == {c \in Children : subrun[c].status \in SubrunEnded /\ ~subrun[c].claimed}
<1>1. claim[k] = NoClaim
  BY DEF ReadFinished, SubagentInv, ClaimsTrue
<1>2. UNCHANGED <<subrun, cut, child, stale, reaper, given>>
  BY DEF ReadFinished
<1>3. claim' = [claim EXCEPT ![k] = [NoClaim EXCEPT !.phase = "next", !.todo = finished]]
  BY DEF ReadFinished
<1>4. /\ claim'[k] = [phase |-> "next", todo |-> finished, at |-> {}, got |-> {}]
      /\ \A j \in Claimers : j # k => claim'[j] = claim[j]
  BY <1>3 DEF NoClaim, SubagentInv, SubagentTypeOK
<1>5. claim' \in [Claimers -> [phase : {"idle", "next", "append"}, todo : SUBSET Children,
                              at : SUBSET (Children \X SubrunEnded),
                              got : SUBSET (Children \X SubrunEnded)]]
  BY <1>3 DEF NoClaim, SubagentInv, SubagentTypeOK
<1> DEFINE another == faulted.met \/ \E j \in Claimers : claim[j] # NoClaim
<1>6. another \in BOOLEAN /\ faulted' = [faulted EXCEPT !.met = another]
  BY DEF ReadFinished
<1>7. /\ faulted' \in [crashes : Nat, met : BOOLEAN, swallowed : BOOLEAN]
      /\ faulted'.crashes = faulted.crashes /\ faulted'.swallowed = faulted.swallowed
      /\ faulted'.met = another
  <2> HIDE DEF another
  <2> QED
    BY <1>6 DEF SubagentInv, SubagentTypeOK
<1>8. SubagentTypeOK'
  BY <1>2, <1>5, <1>7 DEF SubagentInv, SubagentTypeOK
<1>9. OneCall'
  BY <1>4, <1>7 DEF OneCall
<1>10. ~faulted'.met => ~faulted.met
  BY <1>7
<1>11. claim'[k].phase # "idle" /\ claim'[k].got = claim[k].got /\ claim'[k].at = {}
  BY <1>1, <1>4 DEF NoClaim
<1>12. \A c \in claim'[k].todo : subrun[c].status \in SubrunEnded
  BY <1>4
<1> QED
  BY <1>2, <1>4, <1>7, <1>8, <1>9, <1>10, <1>11, <1>12, ClaimStep

LEMMA RereadStep ==
    ASSUME SubagentInv, NEW k \in Claimers, NEW c \in Children, Reread(k, c)
    PROVE  SubagentInv'
<1> DEFINE next == IF subrun[c].claimed THEN "next" ELSE "append"
           at == IF subrun[c].claimed THEN {} ELSE {<<c, subrun[c].status>>}
<1>1. claim[k].phase = "next" /\ c \in claim[k].todo /\ subrun[c].status \in SubrunEnded
  BY DEF Reread, SubagentInv, ClaimsTrue
<1>2. UNCHANGED <<subrun, cut, child, stale, reaper, given, faulted>>
  BY DEF Reread
<1>3. claim' = [claim EXCEPT ![k].todo = @ \ {c}, ![k].phase = next, ![k].at = at]
  BY DEF Reread
<1>4. next \in {"next", "append"} /\ at \in SUBSET (Children \X SubrunEnded)
  BY <1>1
<1>5. \A f \in at : /\ subrun[f[1]].status = f[2]
                    /\ ~faulted.swallowed => given[f[1]] = <<>>
  BY DEF SubagentInv, HandedIsClaimed
<1> HIDE DEF next, at
<1>6. /\ claim'[k].phase = next /\ claim'[k].todo = claim[k].todo \ {c}
      /\ claim'[k].at = at /\ claim'[k].got = claim[k].got
      /\ \A j \in Claimers : j # k => claim'[j] = claim[j]
  BY <1>3 DEF SubagentInv, SubagentTypeOK
<1>7. claim' \in [Claimers -> [phase : {"idle", "next", "append"}, todo : SUBSET Children,
                              at : SUBSET (Children \X SubrunEnded),
                              got : SUBSET (Children \X SubrunEnded)]]
  <2> DEFINE new == [claim[k] EXCEPT !.todo = claim[k].todo \ {c}, !.phase = next, !.at = at]
  <2>1. claim' = [claim EXCEPT ![k] = new]
    BY <1>3
  <2>2. new \in [phase : {"idle", "next", "append"}, todo : SUBSET Children,
                 at : SUBSET (Children \X SubrunEnded), got : SUBSET (Children \X SubrunEnded)]
    <3>1. claim[k] \in [phase : {"idle", "next", "append"}, todo : SUBSET Children,
                         at : SUBSET (Children \X SubrunEnded),
                         got : SUBSET (Children \X SubrunEnded)]
      BY DEF SubagentInv, SubagentTypeOK
    <3>2. claim[k].todo \ {c} \in SUBSET Children
      BY <3>1
    <3> QED
      BY <1>4, <3>1, <3>2
  <2> HIDE DEF new
  <2> QED
    BY <2>1, <2>2 DEF SubagentInv, SubagentTypeOK
<1>8. SubagentTypeOK'
  BY <1>2, <1>7 DEF SubagentInv, SubagentTypeOK
<1>9. claim[k] # NoClaim
  BY <1>1 DEF NoClaim
<1>10. OneCall'
  BY <1>2, <1>6, <1>9 DEF SubagentInv, OneCall
<1>11. claim'[k].phase # "idle" /\ claim'[k].got = claim[k].got /\ claim'[k].at = at
       /\ claim'[k].todo \subseteq claim[k].todo
  BY <1>4, <1>6
<1>12. \A d \in claim'[k].todo : subrun[d].status \in SubrunEnded
  BY <1>11 DEF SubagentInv, ClaimsTrue
<1> QED
  BY <1>2, <1>5, <1>6, <1>8, <1>10, <1>11, <1>12, ClaimStep

\* A claim goes to the file, and what it was for to what the call will return.
LEMMA AppendClaimStep ==
    ASSUME SubagentInv, NEW k \in Claimers, AppendClaim(k)
    PROVE  SubagentInv'
<1> DEFINE Pairs == Children \X SubrunEnded
           ClaimRecord == [phase : {"idle", "next", "append"}, todo : SUBSET Children,
                           at : SUBSET Pairs, got : SUBSET Pairs]
<1>1. PICK found \in claim[k].at :
        /\ AppendEvent(found[1], "claimed")
        /\ claim' = [claim EXCEPT ![k].phase = "next", ![k].at = {}, ![k].got = @ \cup {found}]
  BY DEF AppendClaim
<1>2. claim \in [Claimers -> ClaimRecord] /\ claim[k].phase = "append"
  BY DEF AppendClaim, SubagentInv, SubagentTypeOK
<1>3. found \in Pairs
  BY <1>1, <1>2
<1> DEFINE c == found[1]
<1>4. c \in Children /\ found[2] \in SubrunEnded /\ found = <<c, found[2]>>
  BY <1>3
<1>5. subrun[c].status = found[2]
  BY <1>1 DEF SubagentInv, ClaimsTrue
<1>6. subrun[c] \in SubrunRecord
  BY <1>4 DEF SubagentInv, SubagentTypeOK, SubrunRecord
<1>7. LET new == Folded(subrun[c], "claimed")
      IN  new.status = subrun[c].status /\ new.claimed = TRUE
  BY <1>4, <1>5, <1>6 DEF Folded, NoSubrun, SubrunEnded, SubrunRecord
<1>8. /\ cut' = FALSE /\ subrun' \in [Children -> SubrunRecord]
      /\ \A d \in Children : d # c => subrun'[d] = subrun[d]
      /\ subrun'[c].status = subrun[c].status
      /\ subrun'[c].claimed = TRUE \/ (cut /\ subrun'[c] = subrun[c])
  BY <1>1, <1>4, <1>7, AppendFact DEF SubagentInv
<1>9. /\ faulted' \in [crashes : Nat, met : BOOLEAN, swallowed : BOOLEAN]
      /\ faulted'.met = faulted.met /\ faulted'.crashes = faulted.crashes
      /\ faulted'.swallowed <=> faulted.swallowed \/ cut
  BY SwallowsFact DEF AppendClaim, SubagentInv
<1>10. UNCHANGED <<child, stale, reaper, given>>
  BY DEF AppendClaim
<1>11. /\ claim'[k].phase = "next" /\ claim'[k].todo = claim[k].todo
       /\ claim'[k].at = {} /\ claim'[k].got = claim[k].got \cup {found}
       /\ \A j \in Claimers : j # k => claim'[j] = claim[j]
  BY <1>1, <1>2
<1>12. claim' \in [Claimers -> ClaimRecord]
  <2> DEFINE new == [claim[k] EXCEPT !.phase = "next", !.at = {}, !.got = claim[k].got \cup {found}]
  <2>1. claim' = [claim EXCEPT ![k] = new]
    BY <1>1
  <2>2. new \in ClaimRecord
    <3> HIDE DEF Pairs
    <3> QED
      BY <1>2, <1>3
  <2> HIDE DEF new, ClaimRecord
  <2> QED
    BY <1>2, <2>1, <2>2
<1> HIDE DEF c
<1>13. SubagentTypeOK'
  BY <1>8, <1>9, <1>10, <1>12 DEF SubagentInv, SubagentTypeOK, SubrunRecord
<1>14. /\ \A d \in Children : subrun'[d].status = subrun[d].status
       /\ \A d \in Children : d # c => subrun'[d].claimed = subrun[d].claimed
       /\ subrun[c].claimed => subrun'[c].claimed
  BY <1>8
<1>15. ChildOnFile'
  <2>1. \A d \in Children : child[d] \in {"new", "checked"} => subrun'[d] = subrun[d]
    BY <1>4, <1>5, <1>8 DEF SubagentInv, ChildOnFile, NoSubrun, SubrunEnded
  <2>2. subrun[c].status # "none"
    BY <1>4, <1>5 DEF SubrunEnded
  <2> QED
    BY <1>10, <1>14, <2>1, <2>2 DEF SubagentInv, ChildOnFile
<1>16. ClaimsTrue'
  <2>1. \A j \in Claimers : /\ claim'[j].phase = "idle" => claim'[j] = NoClaim
                           /\ claim'[j].todo = claim[j].todo
                           /\ claim'[j].at \cup claim'[j].got \subseteq claim[j].at \cup claim[j].got
    BY <1>1, <1>11 DEF SubagentInv, ClaimsTrue
  <2>2. \A j \in Claimers : /\ claim[j].todo \subseteq Children
                           /\ \A f \in claim[j].at \cup claim[j].got : f[1] \in Children
    BY <1>2
  <2> QED
    BY <1>14, <2>1, <2>2 DEF SubagentInv, ClaimsTrue
<1>17. GivenTrue'
  BY <1>10, <1>14 DEF SubagentInv, GivenTrue
<1>18. /\ Held(c)'
       /\ \A d \in Children : Held(d) => Held(d)'
       /\ \A d \in Children : d # c => (Held(d)' => Held(d))
  <2>1. \A j \in Claimers : claim[j].got \subseteq claim'[j].got
    BY <1>11
  <2>2. found[2] \in Got(k, c)'
    BY <1>4, <1>11 DEF Got
  <2>3. \A d \in Children, j \in Claimers, s \in SubrunEnded :
            d # c /\ <<d, s>> \in claim'[j].got => <<d, s>> \in claim[j].got
    BY <1>4, <1>11
  <2> QED
    BY <2>1, <2>2, <2>3 DEF Held, Got
<1>19. ClaimedGoesSomewhere'
  BY <1>9, <1>10, <1>14, <1>18 DEF SubagentInv, ClaimedGoesSomewhere
<1>20. HandedIsClaimed'
  BY <1>8, <1>9, <1>10, <1>14, <1>18 DEF SubagentInv, HandedIsClaimed
<1>21. OneCall'
  <2>1. claim[k] # NoClaim
    BY <1>2 DEF NoClaim
  <2> QED
    BY <1>9, <1>11, <2>1 DEF SubagentInv, OneCall
<1>22. FreshInHand'
  <2>1. \A j \in Claimers : claim'[j].at \cup claim'[j].got \subseteq claim[j].at \cup claim[j].got
    BY <1>1, <1>11
  <2> QED
    BY <1>9, <1>10, <2>1 DEF SubagentInv, FreshInHand
<1> QED
  BY <1>13, <1>15, <1>16, <1>17, <1>19, <1>20, <1>21, <1>22 DEF SubagentInv

\* The parent is given what the call claimed.
LEMMA ReturnClaimedStep ==
    ASSUME SubagentInv, NEW k \in Claimers, ReturnClaimed(k)
    PROVE  SubagentInv'
<1> DEFINE ClaimRecord == [phase : {"idle", "next", "append"}, todo : SUBSET Children,
                           at : SUBSET (Children \X SubrunEnded),
                           got : SUBSET (Children \X SubrunEnded)]
<1>1. UNCHANGED <<subrun, cut, child, stale, reaper, faulted>> /\ claim[k].phase = "next"
  BY DEF ReturnClaimed
<1>2. claim' = [claim EXCEPT ![k] = NoClaim] /\ claim \in [Claimers -> ClaimRecord]
  BY DEF ReturnClaimed, SubagentInv, SubagentTypeOK
<1>3. claim'[k] = NoClaim /\ \A j \in Claimers : j # k => claim'[j] = claim[j]
  BY <1>2
<1>4. claim' \in [Claimers -> ClaimRecord]
  BY <1>2 DEF NoClaim
<1>5. given \in [Children -> Seq(SubrunEnded)]
  BY DEF SubagentInv, SubagentTypeOK
<1>6. \A c \in Children :
         \/ Got(k, c) = {} /\ given'[c] = given[c]
         \/ \E s \in Got(k, c) : given'[c] = given[c] \o <<s>>
  <2> SUFFICES ASSUME NEW c \in Children
               PROVE  \/ Got(k, c) = {} /\ given'[c] = given[c]
                      \/ \E s \in Got(k, c) : given'[c] = given[c] \o <<s>>
    OBVIOUS
  <2>1. given'[c] = given[c] \o (IF Got(k, c) = {} THEN <<>> ELSE <<CHOOSE s \in Got(k, c) : TRUE>>)
    BY DEF ReturnClaimed
  <2>2. CASE Got(k, c) = {}
    BY <1>5, <2>1, <2>2
  <2>3. CASE Got(k, c) # {}
    <3>1. (CHOOSE s \in Got(k, c) : TRUE) \in Got(k, c)
      BY <2>3
    <3> QED
      BY <2>1, <2>3, <3>1
  <2> QED
    BY <2>2, <2>3
<1>7. given' = [c \in Children |-> given'[c]]
  <2> DEFINE grown(c) ==
        given[c] \o (IF Got(k, c) = {} THEN <<>> ELSE <<CHOOSE s \in Got(k, c) : TRUE>>)
  <2>1. given' = [c \in Children |-> grown(c)]
    BY DEF ReturnClaimed
  <2> HIDE DEF grown
  <2> QED
    BY <2>1
<1>8. given' \in [Children -> Seq(SubrunEnded)]
  <2>1. \A c \in Children : given'[c] \in Seq(SubrunEnded)
    <3>1. \A c \in Children : Got(k, c) \subseteq SubrunEnded
      BY DEF Got
    <3>2. \A c \in Children, s \in SubrunEnded : given[c] \o <<s>> \in Seq(SubrunEnded)
      BY <1>5
    <3> QED
      BY <1>5, <1>6, <3>1, <3>2
  <2> QED
    BY <1>7, <2>1
<1>9. SubagentTypeOK'
  BY <1>1, <1>4, <1>8 DEF SubagentInv, SubagentTypeOK
<1>10. ChildOnFile'
  BY <1>1 DEF SubagentInv, ChildOnFile
<1>11. ClaimsTrue' /\ OneCall'
  BY <1>1, <1>3 DEF SubagentInv, ClaimsTrue, OneCall, NoClaim
<1>12. \A c \in Children : \A s \in Got(k, c) : subrun[c].status = s
  BY DEF Got, SubagentInv, ClaimsTrue
<1>13. GivenTrue'
  <2> SUFFICES ASSUME NEW c \in Children, NEW i \in DOMAIN given'[c]
               PROVE  given'[c][i] = subrun[c].status
    BY <1>1 DEF GivenTrue
  <2>1. CASE given'[c] = given[c]
    BY <2>1 DEF SubagentInv, GivenTrue
  <2>2. ASSUME NEW s \in Got(k, c), given'[c] = given[c] \o <<s>>
        PROVE  given'[c][i] = subrun[c].status
    <3>1. s \in SubrunEnded /\ given[c] \in Seq(SubrunEnded)
      BY <1>5 DEF Got
    <3>2. CASE i \in DOMAIN given[c]
      BY <2>2, <3>1, <3>2 DEF SubagentInv, GivenTrue
    <3>3. CASE i \notin DOMAIN given[c]
      BY <1>12, <2>2, <3>1, <3>3
    <3> QED
      BY <3>2, <3>3
  <2> QED
    BY <1>6, <2>1, <2>2
<1>14. \A c \in Children :
          /\ given[c] # <<>> => given'[c] # <<>>
          /\ Got(k, c) # {} => given'[c] # <<>>
          /\ given'[c] # <<>> => given[c] # <<>> \/ Got(k, c) # {}
  <2>1. \A c \in Children, s \in SubrunEnded : given[c] \o <<s>> # <<>>
    BY <1>5
  <2>2. \A c \in Children : Got(k, c) \subseteq SubrunEnded
    BY DEF Got
  <2> QED
    BY <1>6, <2>1, <2>2
<1>15. \A c \in Children : /\ Held(c)' => Held(c)
                           /\ Held(c) => Held(c)' \/ Got(k, c) # {}
  BY <1>3 DEF Held, Got, NoClaim
<1>16. \A c \in Children : Got(k, c) # {} => Held(c)
  BY DEF Held
<1>17. ClaimedGoesSomewhere'
  BY <1>1, <1>14, <1>15 DEF SubagentInv, ClaimedGoesSomewhere
<1>18. HandedIsClaimed'
  BY <1>1, <1>14, <1>15, <1>16 DEF SubagentInv, HandedIsClaimed
<1>19. FreshInHand'
  <2> SUFFICES ASSUME ~faulted.met, ~faulted.swallowed
               PROVE  /\ \A j \in Claimers : \A f \in claim'[j].at \cup claim'[j].got :
                                              given'[f[1]] = <<>>
                      /\ \A c \in Children : Len(given'[c]) <= 1
    BY <1>1 DEF FreshInHand
  <2>1. claim[k] # NoClaim
    BY <1>1 DEF NoClaim
  <2>2. \A j \in Claimers : claim'[j] = NoClaim
    BY <1>3, <2>1 DEF SubagentInv, OneCall
  <2>3. \A c \in Children : Got(k, c) # {} => given[c] = <<>>
    <3>1. \A f \in claim[k].got : given[f[1]] = <<>>
      BY DEF SubagentInv, FreshInHand
    <3>2. \A c \in Children : \A s \in Got(k, c) : <<c, s>> \in claim[k].got /\ <<c, s>>[1] = c
      BY DEF Got
    <3> QED
      BY <3>1, <3>2
  <2>4. \A c \in Children : Len(given'[c]) <= 1
    <3> SUFFICES ASSUME NEW c \in Children
                 PROVE  Len(given'[c]) <= 1
      OBVIOUS
    <3>1. CASE given'[c] = given[c]
      BY <3>1 DEF SubagentInv, FreshInHand
    <3>2. ASSUME NEW s \in Got(k, c), given'[c] = given[c] \o <<s>>
          PROVE  Len(given'[c]) <= 1
      <4>1. given[c] = <<>>
        BY <2>3, <3>2
      <4> QED
        BY <3>2, <4>1
    <3> QED
      BY <1>6, <3>1, <3>2
  <2> QED
    BY <2>2, <2>4 DEF NoClaim
<1> QED
  BY <1>9, <1>10, <1>11, <1>13, <1>17, <1>18, <1>19 DEF SubagentInv
--------------------------------------------------------------------------------
LEMMA SubagentStepInv == SubagentInv /\ [SubagentNext]_subagentVars => SubagentInv'
<1> SUFFICES ASSUME SubagentInv, [SubagentNext]_subagentVars PROVE SubagentInv'
  OBVIOUS
<1>1. ASSUME NEW c \in Children, ChildProceeds(c) PROVE SubagentInv'
  BY <1>1, CheckCapStep, SpawnStep, FinishStep DEF ChildProceeds
<1>2. ASSUME NEW c \in Children, Ages(c) PROVE SubagentInv'
  BY <1>2, ReaperStep
<1>3. ASSUME NEW k \in Claimers, ClaimProceeds(k) PROVE SubagentInv'
  BY <1>3, ReadFinishedStep, RereadStep, AppendClaimStep, ReturnClaimedStep DEF ClaimProceeds
<1>4. CASE ReaperProceeds
  BY <1>4, ReaperStep, ReapStep DEF ReaperProceeds
<1>5. CASE ParentCrash
  BY <1>5, ParentCrashStep
<1>6. CASE ReaperCrash
  BY <1>6, ReaperStep
<1>7. CASE UNCHANGED subagentVars
  <2>1. /\ UNCHANGED <<subrun, cut, child, stale, reaper, claim, given, faulted>>
        /\ \A c \in Children : child'[c] = child[c]
    BY <1>7 DEF subagentVars
  <2>2. SubagentTypeOK'
    BY <2>1 DEF SubagentInv, SubagentTypeOK
  <2> QED
    BY <2>1, <2>2, QuietStep
<1> QED
  BY <1>1, <1>2, <1>3, <1>4, <1>5, <1>6, <1>7 DEF SubagentNext

\* The invariant holds in every state of the subagents.
THEOREM SubagentInvariance == SubagentSpec => []SubagentInv
BY SubagentInitInv, SubagentStepInv, PTL DEF SubagentSpec

\* Every variable stays within what the code can put there.
THEOREM SubagentsTypeCorrect == SubagentSpec => []SubagentTypeOK
<1>1. SubagentInv => SubagentTypeOK
  BY DEF SubagentInv
<1> QED
  BY <1>1, SubagentInvariance, PTL

\* claimCompleted: a result is given to the parent once, and is the one on file,
\* unless calls overlap or a torn line swallowed a claim; a claimed one is lost
\* in a crash only.
THEOREM ResultsGivenOnce == SubagentSpec => []ResultsReachParent
<1>1. SubagentInv => ResultsReachParent
  <2> SUFFICES ASSUME SubagentInv, NEW c \in Children
               PROVE  /\ Len(given[c]) > 1 => faulted.met \/ faulted.swallowed
                      /\ \A i \in DOMAIN given[c] : given[c][i] = subrun[c].status
                      /\ subrun[c].claimed => given[c] # <<>> \/ Held(c) \/ faulted.crashes > 0
    BY DEF ResultsReachParent
  <2>1. ~faulted.met /\ ~faulted.swallowed => ~(Len(given[c]) > 1)
    <3>1. Len(given[c]) \in Nat
      BY DEF SubagentInv, SubagentTypeOK
    <3> QED
      BY <3>1 DEF SubagentInv, FreshInHand
  <2> QED
    BY <2>1 DEF SubagentInv, GivenTrue, ClaimedGoesSomewhere
<1> QED
  BY <1>1, SubagentInvariance, PTL
--------------------------------------------------------------------------------
(* Pulses: what a pulse may use on a day.                                         *)

Greatest == Max(Costs)
Today == Day(clock)

RunnerStates ==
    [phase : {"idle", "gate", "charge", "save"},
     array : Seq([id : PulseIds, next : Nat, last : 0 .. MaxMinute, paused : BOOLEAN]),
     now : 0 .. MaxMinute, at : Nat, minute : Nat, tokens : 0 .. Greatest]

RunnerFits(s) ==
    /\ s \in RunnerStates /\ s.now <= clock /\ PulseArray(s.array)
    /\ s.phase \in {"gate", "charge"} => s.at \in DOMAIN s.array

\* A call for p is made and not recorded.
Owes(s, p) == s.phase = "charge" /\ s.array[s.at].id = p

\* The process may still come to p, at the gates or behind this pulse.
Reaches(s, p) ==
    /\ s.phase \in {"gate", "charge"}
    /\ \E i \in DOMAIN s.array :
         s.array[i].id = p /\ (i > s.at \/ (i = s.at /\ s.phase = "gate"))

\* The tokens of the calls that are not recorded yet, one pair for each of them.
Owed(r, p) ==
    {pair \in CliProcesses \X (1 .. Greatest) :
        Owes(r[pair[1]], p) /\ pair[2] <= r[pair[1]].tokens}
Owing(r, p) == {c \in CliProcesses : Owes(r[c], p)}

\* The processes that will compare another day's tokens with the budget of p.
Stale(r, p, day) == {c \in CliProcesses : Reaches(r[c], p) /\ Day(r[c].now) < day}

Hands == IF lapses.overlap THEN Cardinality(CliProcesses) ELSE 1
Lost(p) == lapses.unrecorded[p]

PulseShape ==
    /\ clock \in 1 .. MaxMinute
    /\ pulses # Corrupt => PulseArray(pulses)
    /\ runner \in [CliProcesses -> RunnerStates]
    /\ \A c \in CliProcesses : RunnerFits(runner[c])
    /\ lapses = [overlap |-> lapses.overlap, deaths |-> lapses.deaths, fired |-> lapses.fired,
                 repeated |-> lapses.repeated, unrecorded |-> lapses.unrecorded]
    /\ lapses.overlap \in BOOLEAN /\ lapses.unrecorded \in [PulseIds -> Nat]
    /\ tokensOnFile \in [PulseIds -> [Days -> Nat]]
    /\ burned \in [PulseIds -> [Days -> Nat]]
    /\ ~lapses.overlap => \A c, d \in Pulsing : c = d
    /\ lapses.overlap => CliProcesses # {}

\* What is burned today is on record, owed or lost; and as the processes that will
\* compare another day's tokens are not at a call for p, each of them leaves room
\* for the one call it may still make.
Spending(p) ==
    /\ \A d \in Days :
         /\ d > Today => burned[p][d] = 0
         /\ burned[p][d] = 0 \/ burned[p][d] < MaxTokens + Greatest * (Hands + Lost(p))
    /\ burned[p][Today] <=
         tokensOnFile[p][Today] + Cardinality(Owed(runner, p)) + Greatest * Lost(p)
    /\ \/ burned[p][Today] = 0
       \/ burned[p][Today] <
            MaxTokens + Greatest * (Hands + Lost(p) - Cardinality(Stale(runner, p, Today)))

PulseInv == PulseShape /\ \A p \in PulseIds : Spending(p)

LEMMA GreatestFact ==
    Greatest \in Nat \ {0} /\ \A cost \in Costs : cost \in Nat /\ cost <= Greatest
<1>1. PICK most \in Costs \ {0} : \A cost \in Costs : cost <= most
  BY PulseAssumption
<1>2. most \in Nat /\ \A cost \in Costs : cost \in Nat
  BY <1>1, PulseAssumption
<1>3. Greatest \in Costs /\ \A cost \in Costs : Greatest >= cost
  <2>1. most \in Costs /\ \A cost \in Costs : most >= cost
    BY <1>1, <1>2
  <2> QED
    BY <2>1 DEF Greatest, Max
<1>4. Greatest \in Nat /\ Greatest >= most /\ most # 0
  BY <1>1, <1>2, <1>3
<1> QED
  BY <1>2, <1>3, <1>4

\* Later minutes are on later days, or the same.
LEMMA DayFact ==
    ASSUME NEW m \in Nat, NEW n \in Nat, m <= n
    PROVE  Day(m) \in Nat /\ Day(m) <= Day(n)
<1> DEFINE k == DayLength  x == m \div k  y == n \div k
<1>0. k \in Nat /\ k > 0
  BY PulseAssumption
<1>1. x \in Int /\ y \in Int /\ x >= 0 /\ m >= k * x /\ n < k * y + k
  BY <1>0
<1>2. x <= y
  <2>1. SUFFICES ASSUME x >= y + 1 PROVE FALSE
    BY <1>1
  <2> HIDE DEF x, y, k
  <2>2. k * x >= k * (y + 1)
    BY <1>0, <1>1, <2>1
  <2>3. k * (y + 1) = k * y + k /\ k * y \in Int /\ k * x \in Int
    BY <1>0, <1>1
  <2> QED
    BY <1>0, <1>1, <2>2, <2>3
<1> QED
  BY <1>1, <1>2 DEF Day

LEMMA DaysFact ==
    ASSUME NEW n \in 0 .. MaxMinute
    PROVE  Day(n) \in Days /\ Days \subseteq Nat
<1>1. n \in Nat /\ MaxMinute \in Nat /\ n <= MaxMinute
  BY CronAssumption
<1> QED
  BY <1>1, DayFact DEF Days

\* A call takes as many pairs as it took tokens.
LEMMA OwedTokens ==
    ASSUME NEW S, IsFiniteSet(S), NEW c, NEW n \in Nat, (S \cap ({c} \X (1 .. n))) = {}
    PROVE  /\ IsFiniteSet(S \cup ({c} \X (1 .. n)))
           /\ Cardinality(S \cup ({c} \X (1 .. n))) = Cardinality(S) + n
<1>1. IsFiniteSet(1 .. n) /\ Cardinality(1 .. n) = n
  BY FS_Interval
<1>2. IsFiniteSet({c}) /\ Cardinality({c}) = 1
  BY FS_Singleton
<1> DEFINE T == {c} \X (1 .. n)
<1>3. IsFiniteSet(T) /\ Cardinality(T) = n
  <2>1. IsFiniteSet(T) /\ Cardinality(T) = Cardinality({c}) * Cardinality(1 .. n)
    BY <1>1, <1>2, FS_Product
  <2> QED
    BY <1>1, <1>2, <2>1
<1>4. Cardinality({}) = 0
  BY FS_EmptySet
<1>5. Cardinality(S) \in Nat
  BY FS_CardinalityType
<1>6. S \cap T = {}
  OBVIOUS
<1> HIDE DEF T
<1>7. /\ IsFiniteSet(S \cup T)
      /\ Cardinality(S \cup T) = Cardinality(S) + Cardinality(T) - Cardinality(S \cap T)
  BY <1>3, FS_Union
<1>8. Cardinality(S \cap T) = 0
  BY <1>4, <1>6
<1>9. IsFiniteSet(S \cup T) /\ Cardinality(S \cup T) = Cardinality(S) + n
  BY <1>3, <1>5, <1>7, <1>8
<1> QED
  BY <1>9 DEF T

\* The sets of a state are finite; and a call owes no more than the greatest cost.
LEMMA CountsFact ==
    ASSUME NEW r, NEW p, NEW day
    PROVE  /\ IsFiniteSet(Owed(r, p)) /\ Cardinality(Owed(r, p)) \in Nat
           /\ IsFiniteSet(Owing(r, p)) /\ Cardinality(Owing(r, p)) \in Nat
           /\ IsFiniteSet(Stale(r, p, day)) /\ Cardinality(Stale(r, p, day)) \in Nat
           /\ Cardinality(Owed(r, p)) <= Greatest * Cardinality(Owing(r, p))
<1>1. IsFiniteSet(CliProcesses)
  BY PulseAssumption
<1>2. IsFiniteSet(1 .. Greatest) /\ Cardinality(1 .. Greatest) = Greatest /\ Greatest \in Nat
  BY GreatestFact, FS_Interval
<1>3. Owing(r, p) \subseteq CliProcesses /\ Stale(r, p, day) \subseteq CliProcesses
  BY DEF Owing, Stale
<1>4. IsFiniteSet(Owing(r, p)) /\ IsFiniteSet(Stale(r, p, day))
  BY <1>1, <1>3, FS_Subset
<1>5. /\ IsFiniteSet(Owing(r, p) \X (1 .. Greatest))
      /\ Cardinality(Owing(r, p) \X (1 .. Greatest)) = Cardinality(Owing(r, p)) * Greatest
  BY <1>2, <1>4, FS_Product
<1>6. Owed(r, p) \subseteq Owing(r, p) \X (1 .. Greatest)
  BY DEF Owed, Owing
<1>7. /\ IsFiniteSet(Owed(r, p))
      /\ Cardinality(Owed(r, p)) <= Cardinality(Owing(r, p)) * Greatest
  BY <1>5, <1>6, FS_Subset
<1>8. /\ Cardinality(Owing(r, p)) \in Nat /\ Cardinality(Stale(r, p, day)) \in Nat
      /\ Cardinality(Owed(r, p)) \in Nat
  BY <1>4, <1>7, FS_CardinalityType
<1>9. Cardinality(Owing(r, p)) * Greatest = Greatest * Cardinality(Owing(r, p))
  BY <1>2, <1>8
<1> QED
  BY <1>4, <1>7, <1>8, <1>9

\* What a run of the due pulses does behind a pulse: the array keeps its pulses in
\* their order, and no pulse before this place is reached.
LEMMA TurnedFact ==
    ASSUME clock \in 1 .. MaxMinute, NEW s \in RunnerStates, s.now <= clock, PulseArray(s.array),
           NEW at \in Nat \ {0}
    PROVE  /\ RunnerFits(Turned(s, at))
           /\ Turned(s, at).phase \in {"gate", "save"}
           /\ Turned(s, at).now = s.now
           /\ \A p : Reaches(Turned(s, at), p) =>
                \E i \in DOMAIN s.array : i >= at /\ s.array[i].id = p
<1> DEFINE P == [id : PulseIds, next : Nat, last : 0 .. MaxMinute, paused : BOOLEAN]
           a == s.array  due == {i \in at .. Len(a) : ~a[i].paused /\ NextRun(a[i]) <= s.now}
           next == From(a, at, s.now)  t == Turned(s, at)
<1>1. /\ a \in Seq(P) /\ \A i, k \in DOMAIN a : a[i].id = a[k].id => i = k
      /\ DOMAIN a = 1 .. Len(a) /\ Len(a) \in Nat
      /\ s.phase \in {"idle", "gate", "charge", "save"} /\ s.now \in 0 .. MaxMinute
      /\ s.at \in Nat /\ s.minute \in Nat /\ s.tokens \in 0 .. Greatest
      /\ s = [phase |-> s.phase, array |-> s.array, now |-> s.now, at |-> s.at,
              minute |-> s.minute, tokens |-> s.tokens]
  BY DEF PulseArray, RunnerStates
<1>2. due \in SUBSET Nat /\ next = IF due = {} THEN 0 ELSE Min(due)
  BY <1>1 DEF From
<1>3. CASE due = {}
  <2>1. t = [s EXCEPT !.phase = "save", !.at = 0, !.minute = 0]
    BY <1>2, <1>3 DEF Turned
  <2>2. t = [phase |-> "save", array |-> s.array, now |-> s.now, at |-> 0,
             minute |-> 0, tokens |-> s.tokens]
    BY <1>1, <2>1
  <2> HIDE DEF t
  <2>3. /\ t.phase = "save" /\ t.array = a /\ t.now = s.now /\ t.at = 0 /\ t.minute = 0
        /\ t.tokens = s.tokens
    BY <2>2
  <2>4. t \in RunnerStates
    BY <1>1, <2>2 DEF RunnerStates
  <2>5. RunnerFits(t) /\ \A p : ~Reaches(t, p)
    BY <2>3, <2>4 DEF RunnerFits, Reaches
  <2> QED
    BY <2>3, <2>5 DEF t
<1>4. CASE due # {}
  <2>1a. next \in due
    <3> HIDE DEF due, next
    <3> QED
      BY <1>2, <1>4, LeastNumber
  <2>1. next \in due /\ next # 0
    BY <1>1, <2>1a
  <2>2. next \in DOMAIN a /\ next >= at /\ next \in Nat
    <3> HIDE DEF next
    <3> QED
      BY <1>1, <2>1
  <2> HIDE DEF due, next
  <2> DEFINE later == [a EXCEPT ![next].next = ComputeNextRun(a[next].id, s.now)]
  <2>3. a[next] \in P
    <3> HIDE DEF P, a
    <3> QED
      BY <1>1, <2>2
  <2>4. /\ a[next].id \in PulseIds /\ a[next].id \in Jobs /\ a[next].next \in Nat
        /\ a[next].last \in 0 .. MaxMinute /\ a[next].paused \in BOOLEAN
        /\ a[next] = [id |-> a[next].id, next |-> a[next].next, last |-> a[next].last,
                      paused |-> a[next].paused]
    BY <2>3, PulseAssumption
  <2>5. ComputeNextRun(a[next].id, s.now) \in Nat
    BY <1>1, <2>4, NextIsLater
  <2>6. NextRun(a[next]) \in Nat
    BY <2>4, NextIsLater DEF NextRun
  <2>7. t = [s EXCEPT !.phase = "gate", !.at = next, !.minute = NextRun(a[next]),
                      !.array = later]
    BY <1>1, <2>1 DEF Turned, next
  <2>8. /\ later \in Seq(P) /\ DOMAIN later = DOMAIN a
        /\ \A i \in DOMAIN a : later[i].id = a[i].id
    <3> DEFINE new == [id |-> a[next].id, next |-> ComputeNextRun(a[next].id, s.now),
                       last |-> a[next].last, paused |-> a[next].paused]
    <3>1. [a[next] EXCEPT !.next = ComputeNextRun(a[next].id, s.now)] = new
      BY <2>4
    <3>2. new \in P /\ new.id = a[next].id
      BY <2>4, <2>5
    <3>3. later = [a EXCEPT ![next] = new]
      BY <2>2, <3>1
    <3> HIDE DEF new, later, P
    <3>4. later \in Seq(P) /\ DOMAIN later = DOMAIN a
      BY <1>1, <2>2, <3>2, <3>3
    <3>5. \A i \in DOMAIN a : later[i] = IF i = next THEN new ELSE a[i]
      BY <1>1, <2>2, <3>3
    <3> QED
      BY <3>2, <3>4, <3>5
  <2> HIDE DEF later
  <2>9. t = [phase |-> "gate", array |-> later, now |-> s.now, at |-> next,
             minute |-> NextRun(a[next]), tokens |-> s.tokens]
    BY <1>1, <2>7
  <2> HIDE DEF t
  <2>10. /\ t.phase = "gate" /\ t.array = later /\ t.now = s.now /\ t.at = next
    BY <2>9
  <2>11. t \in RunnerStates
    BY <1>1, <2>2, <2>6, <2>8, <2>9 DEF RunnerStates
  <2>12. PulseArray(later)
    BY <1>1, <2>8 DEF PulseArray
  <2>13. RunnerFits(t)
    BY <1>1, <2>2, <2>8, <2>10, <2>11, <2>12 DEF RunnerFits
  <2>14. ASSUME NEW p, Reaches(t, p) PROVE \E i \in DOMAIN a : i >= at /\ a[i].id = p
    <3>1. PICK i \in DOMAIN t.array : t.array[i].id = p /\ (i > t.at \/ i = t.at)
      BY <2>14 DEF Reaches
    <3>2. i \in DOMAIN a /\ later[i].id = p /\ (i > next \/ i = next)
      BY <2>8, <2>10, <3>1
    <3>2a. i \in Nat
      BY <1>1, <3>2
    <3>3. i >= at
      BY <2>2, <3>2, <3>2a
    <3>4. a[i].id = p
      BY <2>8, <3>2
    <3> QED
      BY <3>2, <3>3, <3>4
  <2> QED
    BY <2>10, <2>13, <2>14 DEF t
<1> QED
  BY <1>3, <1>4
--------------------------------------------------------------------------------
\* Of the processes at work, no two things are true at once: that it is at a call
\* for p, that it may still come to p on another day, and that it is the one at hand.
LEMMA RoomFact ==
    ASSUME PulseShape, NEW p, NEW day
    PROVE  Owing(runner, p) \cap Stale(runner, p, day) = {}
<1>1. SUFFICES ASSUME NEW c \in CliProcesses, Owes(runner[c], p), Reaches(runner[c], p)
               PROVE  FALSE
  BY DEF Owing, Stale
<1>2. PICK i \in DOMAIN runner[c].array : runner[c].array[i].id = p /\ i > runner[c].at
  BY <1>1 DEF Owes, Reaches
<1>3. runner[c].at \in DOMAIN runner[c].array /\ runner[c].array[runner[c].at].id = p
  BY <1>1 DEF PulseShape, RunnerFits, Owes
<1>4. i = runner[c].at
  BY <1>2, <1>3 DEF PulseShape, RunnerFits, PulseArray
<1>5. runner[c].at \in Nat
  BY DEF PulseShape, RunnerStates
<1> QED
  BY <1>2, <1>4, <1>5

\* There are as many processes at work as Hands.
LEMMA HandsFact ==
    ASSUME PulseShape, NEW c \in CliProcesses
    PROVE  Hands \in Nat \ {0} /\ \A S \in SUBSET Pulsing : Cardinality(S) <= Hands
<1>1. IsFiniteSet(CliProcesses) /\ Pulsing \subseteq CliProcesses
  BY PulseAssumption DEF Pulsing
<1>2. Cardinality(CliProcesses) \in Nat /\ Cardinality(CliProcesses) # 0
  BY <1>1, FS_CardinalityType, FS_EmptySet
<1>3. ASSUME NEW S \in SUBSET Pulsing PROVE Cardinality(S) <= Hands
  <2>1. IsFiniteSet(S) /\ Cardinality(S) <= Cardinality(CliProcesses)
    BY <1>1, FS_Subset
  <2>2. CASE lapses.overlap
    BY <2>1, <2>2 DEF Hands
  <2>3. CASE ~lapses.overlap
    <3>1. \A x, y \in S : x = y
      BY <2>3 DEF PulseShape
    <3>2. CASE S = {}
      BY <2>3, <3>2, FS_EmptySet DEF Hands
    <3>3. CASE S # {}
      <4>1. PICK x \in S : TRUE
        BY <3>3
      <4>2. S = {x}
        BY <3>1, <4>1
      <4> QED
        BY <2>3, <4>2, FS_Singleton DEF Hands
    <3> QED
      BY <3>2, <3>3
  <2> QED
    BY <2>2, <2>3 DEF PulseShape
<1> QED
  BY <1>2, <1>3 DEF Hands

\* What process c does leaves the others as they are.
LEMMA OwedByOthers ==
    ASSUME PulseShape, NEW c \in CliProcesses, NEW t \in RunnerStates,
           runner' = [runner EXCEPT ![c] = t], NEW p
    PROVE  /\ ~Owes(runner[c], p) /\ ~Owes(t, p) => Owed(runner', p) = Owed(runner, p)
           /\ ~Owes(runner[c], p) /\ Owes(t, p) =>
                Cardinality(Owed(runner', p)) = Cardinality(Owed(runner, p)) + t.tokens
           /\ Owes(runner[c], p) /\ ~Owes(t, p) =>
                Cardinality(Owed(runner, p)) = Cardinality(Owed(runner', p)) + runner[c].tokens
<1> DEFINE s == runner[c]
<1>1. \A d \in CliProcesses : runner'[d] = IF d = c THEN t ELSE runner[d]
  BY DEF PulseShape
<1>2. s.tokens \in 0 .. Greatest /\ t.tokens \in 0 .. Greatest
  BY DEF PulseShape, RunnerStates
<1>2a. Greatest \in Nat
  BY GreatestFact
<1>2b. s.tokens \in Nat /\ t.tokens \in Nat
  BY <1>2, <1>2a
<1>3. IsFiniteSet(Owed(runner, p)) /\ IsFiniteSet(Owed(runner', p))
  BY CountsFact
<1> HIDE DEF s
<1>4. ASSUME ~Owes(s, p), ~Owes(t, p) PROVE Owed(runner', p) = Owed(runner, p)
  BY <1>1, <1>4 DEF Owed, s
<1>5. ASSUME ~Owes(s, p), Owes(t, p)
      PROVE  Cardinality(Owed(runner', p)) = Cardinality(Owed(runner, p)) + t.tokens
  <2>1. Owed(runner', p) = Owed(runner, p) \cup ({c} \X (1 .. t.tokens))
    BY <1>1, <1>2, <1>2a, <1>5 DEF Owed, s
  <2>2. Owed(runner, p) \cap ({c} \X (1 .. t.tokens)) = {}
    BY <1>5 DEF Owed, s
  <2> DEFINE S == Owed(runner, p)  n == t.tokens
  <2>3. IsFiniteSet(S) /\ n \in Nat /\ S \cap ({c} \X (1 .. n)) = {}
    BY <1>2b, <1>3, <2>2
  <2> HIDE DEF S, n
  <2>4. Cardinality(S \cup ({c} \X (1 .. n))) = Cardinality(S) + n
    BY <2>3, OwedTokens
  <2> QED
    BY <2>1, <2>4 DEF S, n
<1>6. ASSUME Owes(s, p), ~Owes(t, p)
      PROVE  Cardinality(Owed(runner, p)) = Cardinality(Owed(runner', p)) + s.tokens
  <2>1. Owed(runner, p) = Owed(runner', p) \cup ({c} \X (1 .. s.tokens))
    BY <1>1, <1>2, <1>2a, <1>6 DEF Owed, s
  <2>2. Owed(runner', p) \cap ({c} \X (1 .. s.tokens)) = {}
    BY <1>1, <1>6 DEF Owed
  <2> DEFINE S == Owed(runner', p)  n == s.tokens
  <2>3. IsFiniteSet(S) /\ n \in Nat /\ S \cap ({c} \X (1 .. n)) = {}
    BY <1>2b, <1>3, <2>2
  <2> HIDE DEF S, n
  <2>4. Cardinality(S \cup ({c} \X (1 .. n))) = Cardinality(S) + n
    BY <2>3, OwedTokens
  <2> QED
    BY <2>1, <2>4 DEF S, n
<1> QED
  BY <1>4, <1>5, <1>6 DEF s

\* A process that can no longer reach p than it could, or that began today.
LEMMA StaleShrinks ==
    ASSUME PulseShape, NEW c \in CliProcesses, NEW t \in RunnerStates,
           runner' = [runner EXCEPT ![c] = t], NEW p, NEW day,
           Reaches(t, p) => ~(Day(t.now) < day) \/ (Reaches(runner[c], p) /\ t.now = runner[c].now)
    PROVE  Stale(runner', p, day) \subseteq Stale(runner, p, day)
<1>1. \A d \in CliProcesses : runner'[d] = IF d = c THEN t ELSE runner[d]
  BY DEF PulseShape
<1> QED
  BY <1>1 DEF Stale
--------------------------------------------------------------------------------
LEMMA MoreCalls ==
    ASSUME NEW x \in Int, NEW y \in Int, x <= y
    PROVE  /\ Greatest * x \in Int /\ Greatest * y \in Int /\ Greatest * x <= Greatest * y
           /\ Greatest * (x + 1) = Greatest * x + Greatest
<1>1. Greatest \in Nat
  BY GreatestFact
<1> QED
  BY <1>1

LEMMA TodayFact ==
    ASSUME PulseShape
    PROVE  Today \in Days /\ Days \subseteq Nat /\ \A n \in 0 .. clock : Day(n) \in Nat /\ Day(n) <= Today
<1>1. clock \in 0 .. MaxMinute /\ clock \in Nat
  BY CronAssumption DEF PulseShape
<1>2. Today \in Days /\ Days \subseteq Nat
  BY <1>1, DaysFact DEF Today
<1>3. ASSUME NEW n \in 0 .. clock PROVE Day(n) \in Nat /\ Day(n) <= Today
  <2>1. n \in Nat /\ n <= clock
    BY <1>1
  <2> QED
    BY <1>1, <2>1, DayFact DEF Today
<1> QED
  BY <1>2, <1>3

\* The accounts of a pulse behind a step.
LEMMA SpendingNext ==
    ASSUME NEW p
    PROVE  Spending(p)' =
             /\ \A d \in Days :
                  /\ d > Today' => burned'[p][d] = 0
                  /\ burned'[p][d] = 0 \/ burned'[p][d] < MaxTokens + Greatest * (Hands' + Lost(p)')
             /\ burned'[p][Today'] <=
                  tokensOnFile'[p][Today'] + Cardinality(Owed(runner', p)) + Greatest * (Lost(p)')
             /\ \/ burned'[p][Today'] = 0
                \/ burned'[p][Today'] < MaxTokens
                     + Greatest * (Hands' + Lost(p)' - Cardinality(Stale(runner', p, Today')))
BY DEF Spending, Owed, Stale, Owes, Reaches

\* A step that makes no call for p, and gives up nothing that accounts for one.
LEMMA SpendingKept ==
    ASSUME PulseShape, PulseShape', NEW p \in PulseIds, Spending(p), clock' = clock,
           burned'[p] = burned[p], Lost(p)' >= Lost(p), Hands' >= Hands,
           Hands \in Nat, Hands' \in Nat,
           Stale(runner', p, Today) \subseteq Stale(runner, p, Today),
           tokensOnFile'[p][Today] + Cardinality(Owed(runner', p)) + Greatest * (Lost(p)')
             >= tokensOnFile[p][Today] + Cardinality(Owed(runner, p)) + Greatest * Lost(p)
    PROVE  Spending(p)'
<1> DEFINE H == Hands  L == Lost(p)  S == Cardinality(Stale(runner, p, Today))
           HN == Hands'  LN == Lost(p)'  SN == Cardinality(Stale(runner', p, Today))
           O == Cardinality(Owed(runner, p))  ON == Cardinality(Owed(runner', p))
<1>1. Today' = Today /\ Today \in Days /\ Days \subseteq Nat
  BY TodayFact DEF Today
<1>2. /\ L \in Nat /\ LN \in Nat /\ \A d \in Days : burned[p][d] \in Nat
      /\ tokensOnFile[p][Today] \in Nat /\ tokensOnFile'[p][Today] \in Nat /\ MaxTokens \in Nat
  BY <1>1, PulseAssumption DEF PulseShape, Lost
<1>3. S \in Nat /\ SN \in Nat /\ O \in Nat /\ ON \in Nat
  BY CountsFact
<1>4. SN <= S
  BY CountsFact, FS_Subset
<1>5. /\ \A d \in Days :
           /\ d > Today => burned[p][d] = 0
           /\ burned[p][d] = 0 \/ burned[p][d] < MaxTokens + Greatest * (H + L)
      /\ burned[p][Today] <= tokensOnFile[p][Today] + O + Greatest * L
      /\ burned[p][Today] = 0 \/ burned[p][Today] < MaxTokens + Greatest * (H + L - S)
  BY DEF Spending
<1>6. H \in Nat /\ HN \in Nat /\ HN >= H /\ LN >= L
      /\ tokensOnFile'[p][Today] + ON + Greatest * LN >= tokensOnFile[p][Today] + O + Greatest * L
  OBVIOUS
<1> HIDE DEF H, L, S, HN, LN, SN, O, ON
<1>8. /\ Greatest * (H + L) \in Int /\ Greatest * (HN + LN) \in Int
      /\ Greatest * (H + L) <= Greatest * (HN + LN)
  <2>1. H + L \in Int /\ HN + LN \in Int /\ H + L <= HN + LN
    BY <1>2, <1>6
  <2> QED
    BY <2>1, MoreCalls
<1>9. /\ Greatest * (H + L - S) \in Int /\ Greatest * (HN + LN - SN) \in Int
      /\ Greatest * (H + L - S) <= Greatest * (HN + LN - SN)
  <2>1. H + L - S \in Int /\ HN + LN - SN \in Int /\ H + L - S <= HN + LN - SN
    BY <1>2, <1>3, <1>4, <1>6
  <2> QED
    BY <2>1, MoreCalls
<1>10. Greatest * L \in Int /\ Greatest * LN \in Int
  BY <1>2, MoreCalls
<1>11. \A d \in Days :
         /\ d > Today' => burned'[p][d] = 0
         /\ burned'[p][d] = 0 \/ burned'[p][d] < MaxTokens + Greatest * (HN + LN)
  <2>1. SUFFICES ASSUME NEW d \in Days
                 PROVE  /\ d > Today' => burned[p][d] = 0
                        /\ burned[p][d] = 0 \/ burned[p][d] < MaxTokens + Greatest * (HN + LN)
    OBVIOUS
  <2> QED
    BY <1>1, <1>2, <1>5, <1>8
<1>12. burned'[p][Today'] <= tokensOnFile'[p][Today'] + ON + Greatest * LN
  BY <1>1, <1>2, <1>3, <1>5, <1>6, <1>10
<1>13. burned'[p][Today'] = 0 \/ burned'[p][Today'] < MaxTokens + Greatest * (HN + LN - SN)
  BY <1>1, <1>2, <1>5, <1>9
<1>14. Cardinality(Stale(runner', p, Today')) = SN /\ Cardinality(Owed(runner', p)) = ON
  BY <1>1 DEF SN, ON
<1> QED
  BY <1>11, <1>12, <1>13, <1>14, SpendingNext DEF HN, LN

\* A step of process c keeps the shape.
LEMMA ShapeStep ==
    ASSUME PulseShape, NEW c \in CliProcesses, NEW t, RunnerFits(t), RunnerTo(c, t),
           clock' = clock, pulses' # Corrupt => PulseArray(pulses'),
           lapses' = [overlap |-> lapses'.overlap, deaths |-> lapses'.deaths,
                      fired |-> lapses'.fired, repeated |-> lapses'.repeated,
                      unrecorded |-> lapses'.unrecorded],
           lapses'.overlap \in BOOLEAN, lapses'.unrecorded \in [PulseIds -> Nat],
           tokensOnFile' \in [PulseIds -> [Days -> Nat]], burned' \in [PulseIds -> [Days -> Nat]],
           ~lapses'.overlap => ~lapses.overlap /\ (Pulsing = {} \/ c \in Pulsing)
    PROVE  PulseShape'
<1>1. t \in RunnerStates /\ runner \in [CliProcesses -> RunnerStates]
  BY DEF RunnerFits, PulseShape
<1>2. /\ runner' \in [CliProcesses -> RunnerStates]
      /\ \A d \in CliProcesses : runner'[d] = IF d = c THEN t ELSE runner[d]
  BY <1>1 DEF RunnerTo
<1>3. \A d \in CliProcesses : RunnerFits(runner'[d])
  BY <1>2 DEF PulseShape
<1>4. \A d \in CliProcesses : RunnerFits(runner[d])'
  BY <1>3 DEF RunnerFits
<1>5. ASSUME ~lapses'.overlap PROVE \A d, e \in Pulsing' : d = e
  <2>1. Pulsing' \subseteq Pulsing \cup {c}
    BY <1>2 DEF Pulsing
  <2>2. \A d, e \in Pulsing : d = e
    BY <1>5 DEF PulseShape
  <2> QED
    BY <1>5, <2>1, <2>2
<1> QED
  BY <1>2, <1>4, <1>5 DEF PulseShape

\* A step that touches neither a count of tokens nor what a process owes.
LEMMA QuietPulseStep ==
    ASSUME PulseInv, NEW c \in CliProcesses, NEW t, RunnerFits(t), RunnerTo(c, t),
           clock' = clock, pulses' # Corrupt => PulseArray(pulses'),
           UNCHANGED <<tokensOnFile, burned>>,
           \/ lapses' = lapses /\ runner[c].phase # "idle"
           \/ lapses' = [lapses EXCEPT !.overlap = lapses.overlap \/ Pulsing # {}],
           runner[c].phase # "charge", t.phase # "charge",
           \A p : Reaches(t, p) => \/ Day(t.now) = Today
                                   \/ Reaches(runner[c], p) /\ t.now = runner[c].now
    PROVE  PulseInv'
<1>1. PulseShape
  BY DEF PulseInv
<1>2. /\ lapses' = [overlap |-> lapses'.overlap, deaths |-> lapses'.deaths,
                    fired |-> lapses'.fired, repeated |-> lapses'.repeated,
                    unrecorded |-> lapses'.unrecorded]
      /\ lapses'.unrecorded = lapses.unrecorded /\ lapses'.overlap \in BOOLEAN
      /\ lapses.overlap => lapses'.overlap
      /\ ~lapses'.overlap => ~lapses.overlap /\ (Pulsing = {} \/ c \in Pulsing)
  <2>1. /\ lapses = [overlap |-> lapses.overlap, deaths |-> lapses.deaths,
                     fired |-> lapses.fired, repeated |-> lapses.repeated,
                     unrecorded |-> lapses.unrecorded]
        /\ lapses.overlap \in BOOLEAN
    BY <1>1 DEF PulseShape
  <2>2. CASE lapses' = lapses /\ runner[c].phase # "idle"
    BY <2>1, <2>2 DEF Pulsing
  <2>3. CASE lapses' = [lapses EXCEPT !.overlap = lapses.overlap \/ Pulsing # {}]
    <3>1. lapses' = [overlap |-> lapses.overlap \/ Pulsing # {}, deaths |-> lapses.deaths,
                     fired |-> lapses.fired, repeated |-> lapses.repeated,
                     unrecorded |-> lapses.unrecorded]
      BY <2>1, <2>3
    <3>2. /\ lapses'.overlap = (lapses.overlap \/ Pulsing # {}) /\ lapses'.deaths = lapses.deaths
          /\ lapses'.fired = lapses.fired /\ lapses'.repeated = lapses.repeated
          /\ lapses'.unrecorded = lapses.unrecorded
      BY <3>1
    <3>3. lapses'.overlap \in BOOLEAN
      BY <2>1, <3>2, Zenon
    <3> QED
      BY <3>1, <3>2, <3>3
  <2> QED
    BY <2>2, <2>3
<1>3. PulseShape'
  <2>1. /\ lapses'.unrecorded \in [PulseIds -> Nat]
        /\ tokensOnFile' \in [PulseIds -> [Days -> Nat]] /\ burned' \in [PulseIds -> [Days -> Nat]]
    BY <1>1, <1>2 DEF PulseShape
  <2> QED
    BY <1>1, <1>2, <2>1, ShapeStep
<1>4. Hands \in Nat /\ Hands' \in Nat /\ Hands' >= Hands
  <2>1. Hands \in Nat \ {0} /\ Hands = IF lapses.overlap THEN Cardinality(CliProcesses) ELSE 1
    BY <1>1, HandsFact DEF Hands
  <2>2. Hands' = IF lapses'.overlap THEN Cardinality(CliProcesses) ELSE 1
    BY DEF Hands
  <2>3. IsFiniteSet(CliProcesses) /\ Cardinality(CliProcesses) \in Nat
    BY PulseAssumption, FS_CardinalityType
  <2>4. Cardinality(CliProcesses) # 0
    BY <2>3, FS_EmptySet
  <2> QED
    BY <1>2, <2>1, <2>2, <2>3, <2>4
<1>5. ASSUME NEW p \in PulseIds PROVE Spending(p)'
  <2>1. t \in RunnerStates /\ runner' = [runner EXCEPT ![c] = t]
    BY DEF RunnerFits, RunnerTo
  <2>1a. ~Owes(runner[c], p) /\ ~Owes(t, p)
    BY DEF Owes
  <2>2. Owed(runner', p) = Owed(runner, p)
    BY <1>1, <2>1, <2>1a, OwedByOthers
  <2>3. Today \in Nat
    BY <1>1, TodayFact
  <2>4. Reaches(t, p) => ~(Day(t.now) < Today) \/ (Reaches(runner[c], p) /\ t.now = runner[c].now)
    BY <2>3
  <2>5. Stale(runner', p, Today) \subseteq Stale(runner, p, Today)
    BY <1>1, <2>1, <2>4, StaleShrinks
  <2>6. Lost(p)' = Lost(p) /\ Lost(p) \in Nat
    BY <1>1, <1>2 DEF Lost, PulseShape
  <2>7. burned' = burned /\ tokensOnFile' = tokensOnFile /\ Spending(p)
    BY DEF PulseInv
  <2>8. tokensOnFile[p][Today] \in Nat /\ Cardinality(Owed(runner, p)) \in Nat /\ Greatest * Lost(p) \in Int
    <3>1. Today \in Days /\ tokensOnFile[p][Today] \in Nat
      BY <1>1, TodayFact DEF PulseShape
    <3>2. Cardinality(Owed(runner, p)) \in Nat
      BY CountsFact
    <3>3. Lost(p) \in Int /\ Greatest * Lost(p) \in Int
      BY <2>6, MoreCalls
    <3> QED
      BY <3>1, <3>2, <3>3
  <2> DEFINE O == Cardinality(Owed(runner, p))  GL == Greatest * Lost(p)
  <2>9. tokensOnFile'[p][Today] + Cardinality(Owed(runner', p)) + Greatest * (Lost(p)')
          >= tokensOnFile[p][Today] + Cardinality(Owed(runner, p)) + Greatest * Lost(p)
    BY <2>2, <2>6, <2>7, <2>8
  <2>10. Lost(p)' >= Lost(p) /\ burned'[p] = burned[p]
    BY <2>6, <2>7
  <2> QED
    BY <1>1, <1>3, <1>4, <2>5, <2>7, <2>9, <2>10, SpendingKept
<1> QED
  BY <1>3, <1>5 DEF PulseInv
--------------------------------------------------------------------------------
LEMMA RestFits ==
    ASSUME PulseShape
    PROVE  /\ RunnerFits(NotRunning) /\ NotRunning.phase = "idle" /\ NotRunning.now = 0
           /\ \A p : ~Reaches(NotRunning, p) /\ ~Owes(NotRunning, p)
<1>1. MaxMinute \in Nat /\ Greatest \in Nat /\ clock \in 1 .. MaxMinute
  BY CronAssumption, GreatestFact DEF PulseShape
<1>2. NotRunning \in RunnerStates
  BY <1>1 DEF NotRunning, RunnerStates
<1>3. PulseArray(NotRunning.array)
  BY DEF NotRunning, PulseArray
<1> QED
  BY <1>1, <1>2, <1>3 DEF NotRunning, RunnerFits, Reaches, Owes

\* What a process holds that has read the file.
LEMMA ReadFact ==
    ASSUME NEW a, NEW m \in Nat, NEW t
    PROVE  /\ t = [NotRunning EXCEPT !.array = a, !.now = m] =>
                t = [phase |-> "idle", array |-> a, now |-> m, at |-> 0, minute |-> 0, tokens |-> 0]
           /\ t = [NotRunning EXCEPT !.phase = "save", !.array = a] =>
                t = [phase |-> "save", array |-> a, now |-> 0, at |-> 0, minute |-> 0, tokens |-> 0]
BY DEF NotRunning

LEMMA SavingFits ==
    ASSUME PulseShape, NEW array, PulseArray(array), NEW t,
           t = [phase |-> "save", array |-> array, now |-> 0, at |-> 0, minute |-> 0, tokens |-> 0]
    PROVE  RunnerFits(t) /\ t.phase = "save" /\ \A p : ~Reaches(t, p)
<1>1. t = [phase |-> "save", array |-> array, now |-> 0, at |-> 0, minute |-> 0, tokens |-> 0]
  OBVIOUS
<1>2. t.phase = "save" /\ t.array = array /\ t.now = 0
  BY <1>1
<1>3. MaxMinute \in Nat /\ Greatest \in Nat /\ clock \in 1 .. MaxMinute
  BY CronAssumption, GreatestFact DEF PulseShape
<1>4. t \in RunnerStates
  BY <1>1, <1>3 DEF RunnerStates, PulseArray
<1> QED
  BY <1>2, <1>3, <1>4 DEF RunnerFits, Reaches

LEMMA RunDuePulsesStep ==
    ASSUME PulseInv, clock' = clock, NEW c \in CliProcesses, RunDuePulses(c)
    PROVE  PulseInv'
<1> DEFINE s == [NotRunning EXCEPT !.array = pulses, !.now = clock]  t == Turned(s, 1)
<1>1. PulseShape /\ pulses # Corrupt /\ PulseArray(pulses)
  BY DEF PulseInv, PulseShape, RunDuePulses
<1>2. MaxMinute \in Nat /\ Greatest \in Nat /\ clock \in 1 .. MaxMinute
  BY <1>1, CronAssumption, GreatestFact DEF PulseShape
<1>3. s = [phase |-> "idle", array |-> pulses, now |-> clock, at |-> 0, minute |-> 0, tokens |-> 0]
  <2>1. clock \in Nat
    BY <1>2
  <2>2. PICK u : u = s
    OBVIOUS
  <2>3. u = [NotRunning EXCEPT !.array = pulses, !.now = clock]
    BY <2>2
  <2>4. u = [phase |-> "idle", array |-> pulses, now |-> clock, at |-> 0, minute |-> 0, tokens |-> 0]
    BY <2>1, <2>3, ReadFact
  <2> QED
    BY <2>2, <2>4
<1>4. ReadPulses(c, t)
  BY DEF RunDuePulses
<1> HIDE DEF s
<1>5. s \in RunnerStates /\ s.now = clock /\ s.array = pulses
  BY <1>1, <1>2, <1>3 DEF RunnerStates, PulseArray
<1>6. RunnerFits(t) /\ t.phase \in {"gate", "save"} /\ t.now = s.now
  BY <1>1, <1>2, <1>5, TurnedFact
<1> HIDE DEF t
<1>7. /\ runner[c].phase = "idle" /\ RunnerTo(c, t)
      /\ lapses' = [lapses EXCEPT !.overlap = lapses.overlap \/ Pulsing # {}]
      /\ UNCHANGED <<pulses, checklist, tokensOnFile, burned>>
  BY <1>4 DEF ReadPulses
<1>8. Day(t.now) = Today
  BY <1>5, <1>6 DEF Today
<1>9. runner[c].phase # "charge" /\ t.phase # "charge" /\ PulseArray(pulses')
  BY <1>1, <1>6, <1>7
<1> QED
  BY <1>6, <1>7, <1>8, <1>9, QuietPulseStep

LEMMA SavingStep ==
    ASSUME PulseInv, clock' = clock, NEW c \in CliProcesses, NEW array, PulseArray(array),
           pulses # Corrupt,
           ReadPulses(c, [NotRunning EXCEPT !.phase = "save", !.array = array])
    PROVE  PulseInv'
<1> DEFINE t == [NotRunning EXCEPT !.phase = "save", !.array = array]
<1>1. PulseShape /\ PulseArray(pulses)
  BY DEF PulseInv, PulseShape
<1>2. RunnerFits(t) /\ t.phase = "save" /\ \A p : ~Reaches(t, p)
  <2>1. t = [phase |-> "save", array |-> array, now |-> 0, at |-> 0, minute |-> 0, tokens |-> 0]
    BY ReadFact
  <2> HIDE DEF t
  <2> QED
    BY <1>1, <2>1, SavingFits
<1> HIDE DEF t
<1>3. /\ runner[c].phase = "idle" /\ RunnerTo(c, t)
      /\ lapses' = [lapses EXCEPT !.overlap = lapses.overlap \/ Pulsing # {}]
      /\ UNCHANGED <<pulses, checklist, tokensOnFile, burned>>
  BY DEF ReadPulses, t
<1>4. runner[c].phase # "charge" /\ t.phase # "charge" /\ PulseArray(pulses')
  BY <1>1, <1>2, <1>3
<1> QED
  BY <1>2, <1>3, <1>4, QuietPulseStep

LEMMA ResumePulseStep ==
    ASSUME PulseInv, clock' = clock, NEW c \in CliProcesses, NEW p \in PulseIds, ResumePulse(c, p)
    PROVE  PulseInv'
<1> DEFINE P == [id : PulseIds, next : Nat, last : 0 .. MaxMinute, paused : BOOLEAN]
           array == [i \in DOMAIN pulses |->
                      IF pulses[i].id = p THEN [pulses[i] EXCEPT !.paused = FALSE] ELSE pulses[i]]
<1>1. pulses # Corrupt /\ PulseArray(pulses)
  BY DEF PulseInv, PulseShape, ResumePulse
<1>2. pulses \in Seq(P) /\ DOMAIN pulses = 1 .. Len(pulses) /\ Len(pulses) \in Nat
  BY <1>1 DEF PulseArray
<1>3. ASSUME NEW i \in DOMAIN pulses PROVE array[i] \in P /\ array[i].id = pulses[i].id
  <2>1. pulses[i] \in P
    <3> HIDE DEF P
    <3> QED
      BY <1>2, <1>3
  <2>2. array[i] = IF pulses[i].id = p THEN [pulses[i] EXCEPT !.paused = FALSE] ELSE pulses[i]
    BY <1>3
  <2> HIDE DEF array
  <2> QED
    BY <2>1, <2>2
<1>4. array \in Seq(P) /\ DOMAIN array = DOMAIN pulses
  <2> HIDE DEF P
  <2> QED
    BY <1>2, <1>3
<1>5. PulseArray(array)
  <2> HIDE DEF array
  <2> QED
    BY <1>1, <1>3, <1>4 DEF PulseArray
<1>6. ReadPulses(c, [NotRunning EXCEPT !.phase = "save", !.array = array])
  BY DEF ResumePulse
<1> HIDE DEF array
<1> QED
  BY <1>1, <1>5, <1>6, SavingStep

LEMMA AddPulseStep ==
    ASSUME PulseInv, clock' = clock, NEW c \in CliProcesses, NEW p \in PulseIds, AddPulse(c, p)
    PROVE  PulseInv'
<1> DEFINE P == [id : PulseIds, next : Nat, last : 0 .. MaxMinute, paused : BOOLEAN]
           new == Pulse(p, ComputeNextRun(p, clock))  array == Append(pulses, new)
<1>1. pulses # Corrupt /\ PulseArray(pulses) /\ p \notin Ids(pulses)
  BY DEF PulseInv, PulseShape, AddPulse
<1>2. pulses \in Seq(P) /\ DOMAIN pulses = 1 .. Len(pulses) /\ Len(pulses) \in Nat
  BY <1>1 DEF PulseArray
<1>3. new \in P /\ new.id = p
  <2>1. p \in Jobs /\ MaxMinute \in Nat /\ clock \in 0 .. MaxMinute
    BY PulseAssumption, CronAssumption DEF PulseInv, PulseShape
  <2>2. ComputeNextRun(p, clock) \in Nat
    BY <2>1, NextIsLater
  <2> QED
    BY <2>1, <2>2 DEF Pulse
<1> HIDE DEF new, P
<1>4. /\ array \in Seq(P) /\ DOMAIN array = 1 .. Len(pulses) + 1
      /\ array[Len(pulses) + 1] = new /\ \A i \in DOMAIN pulses : array[i] = pulses[i]
  BY <1>2, <1>3
<1>5. \A i \in DOMAIN pulses : pulses[i].id # p
  BY <1>1 DEF Ids
<1>5a. \A i \in DOMAIN array : i \in DOMAIN pulses \/ i = Len(pulses) + 1
  BY <1>2, <1>4
<1>5b. ReadPulses(c, [NotRunning EXCEPT !.phase = "save", !.array = array])
  BY DEF AddPulse, new
<1> HIDE DEF array
<1>6. ASSUME NEW i \in DOMAIN array, NEW k \in DOMAIN array, array[i].id = array[k].id PROVE i = k
  BY <1>1, <1>3, <1>4, <1>5, <1>5a, <1>6 DEF PulseArray
<1>7. PulseArray(array)
  BY <1>4, <1>6 DEF PulseArray, P
<1> QED
  BY <1>1, <1>5b, <1>7, SavingStep

LEMMA SavePulsesStep ==
    ASSUME PulseInv, clock' = clock, NEW c \in CliProcesses, SavePulses(c)
    PROVE  PulseInv'
<1>1. PulseShape
  BY DEF PulseInv
<1>2. /\ runner[c].phase = "save" /\ pulses' = runner[c].array /\ RunnerTo(c, NotRunning)
      /\ UNCHANGED <<tokensOnFile, burned>> /\ lapses' = lapses
  BY DEF SavePulses
<1>3. PulseArray(pulses')
  BY <1>1, <1>2 DEF PulseShape, RunnerFits
<1>4. runner[c].phase # "idle" /\ runner[c].phase # "charge" /\ NotRunning.phase # "charge"
  BY <1>1, <1>2, RestFits
<1> QED
  BY <1>1, <1>2, <1>3, <1>4, RestFits, QuietPulseStep

\* Behind the gates, to the next pulse.
LEMMA PassingStep ==
    ASSUME PulseInv, clock' = clock, NEW c \in CliProcesses, runner[c].phase = "gate",
           NEW s \in RunnerStates, PulseArray(s.array), DOMAIN s.array = DOMAIN runner[c].array,
           \A i \in DOMAIN s.array : s.array[i].id = runner[c].array[i].id,
           s.now = runner[c].now, RunnerTo(c, Turned(s, runner[c].at + 1)),
           UNCHANGED <<pulses, checklist, tokensOnFile, burned, lapses>>
    PROVE  PulseInv'
<1> DEFINE t == Turned(s, runner[c].at + 1)
<1>1. PulseShape
  BY DEF PulseInv
<1>2. /\ runner[c] \in RunnerStates /\ runner[c].now <= clock /\ clock \in 1 .. MaxMinute
      /\ runner[c].at \in DOMAIN runner[c].array /\ PulseArray(runner[c].array)
      /\ pulses # Corrupt => PulseArray(pulses)
  BY <1>1 DEF PulseShape, RunnerFits
<1>3. runner[c].at \in Nat /\ runner[c].at + 1 \in Nat \ {0}
  <2>1. runner[c].at \in Nat
    BY <1>2 DEF RunnerStates
  <2> QED
    BY <2>1
<1>3a. DOMAIN runner[c].array = 1 .. Len(runner[c].array) /\ Len(runner[c].array) \in Nat
  BY <1>2 DEF PulseArray
<1>4. /\ RunnerFits(t) /\ t.phase \in {"gate", "save"} /\ t.now = s.now
      /\ \A p : Reaches(t, p) => \E i \in DOMAIN s.array : i >= runner[c].at + 1 /\ s.array[i].id = p
  BY <1>2, <1>3, TurnedFact
<1> HIDE DEF t
<1>5. ASSUME NEW p, Reaches(t, p) PROVE Reaches(runner[c], p)
  <2>1. PICK i \in DOMAIN s.array : i >= runner[c].at + 1 /\ s.array[i].id = p
    BY <1>4, <1>5
  <2>2. i \in Nat /\ i > runner[c].at
    BY <1>3, <1>3a, <2>1
  <2> QED
    BY <2>1, <2>2 DEF Reaches
<1>6. RunnerTo(c, t)
  BY DEF t
<1>7. runner[c].phase # "idle" /\ runner[c].phase # "charge" /\ t.phase # "charge" /\ lapses' = lapses
  BY <1>4
<1>8. pulses' # Corrupt => PulseArray(pulses')
  BY <1>2
<1> QED
  BY <1>4, <1>5, <1>6, <1>7, <1>8, QuietPulseStep

LEMMA SkipPulseStep ==
    ASSUME PulseInv, clock' = clock, NEW c \in CliProcesses, SkipPulse(c) \/ CallThrows(c)
    PROVE  PulseInv'
<1>1. runner[c] \in RunnerStates /\ PulseArray(runner[c].array)
  BY DEF PulseInv, PulseShape, RunnerFits
<1>2. /\ runner[c].phase = "gate" /\ RunnerTo(c, Turned(runner[c], runner[c].at + 1))
      /\ UNCHANGED <<pulses, checklist, tokensOnFile, burned, lapses>>
  BY DEF SkipPulse, CallThrows
<1> QED
  BY <1>1, <1>2, PassingStep

LEMMA PausePulseStep ==
    ASSUME PulseInv, clock' = clock, NEW c \in CliProcesses, PausePulse(c)
    PROVE  PulseInv'
<1> DEFINE P == [id : PulseIds, next : Nat, last : 0 .. MaxMinute, paused : BOOLEAN]
           a == runner[c].array  at == runner[c].at
           s == [runner[c] EXCEPT !.array[runner[c].at].paused = TRUE]
           new == [a[at] EXCEPT !.paused = TRUE]  later == [a EXCEPT ![at] = new]
<1>1. /\ runner[c].phase = "gate" /\ RunnerTo(c, Turned(s, runner[c].at + 1))
      /\ UNCHANGED <<pulses, checklist, tokensOnFile, burned, lapses>>
  BY DEF PausePulse
<1>2. runner[c] \in RunnerStates /\ at \in DOMAIN a /\ PulseArray(a)
  BY <1>1 DEF PulseInv, PulseShape, RunnerFits
<1>3. a \in Seq(P) /\ DOMAIN a = 1 .. Len(a) /\ Len(a) \in Nat
  BY <1>2 DEF PulseArray
<1>4. a[at] \in P
  <2> HIDE DEF P, a, at
  <2> QED
    BY <1>2, <1>3
<1>5. new \in P /\ new.id = a[at].id
  <2> HIDE DEF a, at
  <2> QED
    BY <1>4
<1>6. /\ later \in Seq(P) /\ DOMAIN later = DOMAIN a
      /\ \A i \in DOMAIN a : later[i].id = a[i].id
  <2> HIDE DEF P, a, at, new
  <2>1. later \in Seq(P) /\ DOMAIN later = DOMAIN a
    BY <1>2, <1>3, <1>5
  <2>2. \A i \in DOMAIN a : later[i] = IF i = at THEN new ELSE a[i]
    BY <1>2
  <2> QED
    BY <1>5, <2>1, <2>2
<1>7. s = [runner[c] EXCEPT !.array = later]
  BY <1>2 DEF RunnerStates
<1>8. PulseArray(later)
  <2> HIDE DEF later, a
  <2> QED
    BY <1>2, <1>6 DEF PulseArray
<1> HIDE DEF later, s
<1>9. s = [phase |-> runner[c].phase, array |-> later, now |-> runner[c].now,
           at |-> runner[c].at, minute |-> runner[c].minute, tokens |-> runner[c].tokens]
  BY <1>2, <1>7 DEF RunnerStates
<1>10. s \in RunnerStates /\ s.array = later /\ s.now = runner[c].now
  BY <1>2, <1>6, <1>9 DEF RunnerStates
<1>11. /\ PulseArray(s.array) /\ DOMAIN s.array = DOMAIN runner[c].array
       /\ \A i \in DOMAIN s.array : s.array[i].id = runner[c].array[i].id
  BY <1>6, <1>8, <1>10
<1> QED
  BY <1>1, <1>10, <1>11, PassingStep
--------------------------------------------------------------------------------
LEMMA PulseCrashStep ==
    ASSUME PulseInv, clock' = clock, NEW c \in CliProcesses, PulseCrash(c)
    PROVE  PulseInv'
<1> DEFINE more == [p \in PulseIds |-> IF runner[c].phase = "charge" /\ Of(c).id = p
                                         THEN lapses.unrecorded[p] + 1 ELSE lapses.unrecorded[p]]
<1>1. PulseShape
  BY DEF PulseInv
<1>2. /\ c \in Pulsing /\ RunnerTo(c, NotRunning)
      /\ UNCHANGED <<tokensOnFile, burned>>
      /\ pulses' # Corrupt => pulses' = pulses
  BY DEF PulseCrash
<1>3. lapses' = [lapses EXCEPT !.deaths = lapses.deaths + 1, !.unrecorded = more]
  BY DEF PulseCrash
<1>4. more \in [PulseIds -> Nat] /\ lapses.unrecorded \in [PulseIds -> Nat]
  BY <1>1 DEF PulseShape
<1>5. \A p \in PulseIds : more[p] = IF Owes(runner[c], p) THEN lapses.unrecorded[p] + 1
                                                         ELSE lapses.unrecorded[p]
  BY DEF Owes, Of
<1> HIDE DEF more
<1>6. /\ lapses' = [overlap |-> lapses'.overlap, deaths |-> lapses'.deaths,
                    fired |-> lapses'.fired, repeated |-> lapses'.repeated,
                    unrecorded |-> lapses'.unrecorded]
      /\ lapses'.unrecorded = more /\ lapses'.overlap = lapses.overlap
  <2>1. lapses = [overlap |-> lapses.overlap, deaths |-> lapses.deaths,
                  fired |-> lapses.fired, repeated |-> lapses.repeated,
                  unrecorded |-> lapses.unrecorded]
    BY <1>1 DEF PulseShape
  <2>2. lapses' = [overlap |-> lapses.overlap, deaths |-> lapses.deaths + 1,
                   fired |-> lapses.fired, repeated |-> lapses.repeated, unrecorded |-> more]
    BY <1>3, <2>1
  <2> QED
    BY <2>2
<1>7. PulseShape'
  <2>1. /\ lapses'.overlap \in BOOLEAN /\ tokensOnFile' \in [PulseIds -> [Days -> Nat]]
        /\ burned' \in [PulseIds -> [Days -> Nat]]
        /\ pulses' # Corrupt => PulseArray(pulses')
    BY <1>1, <1>2, <1>6 DEF PulseShape
  <2> QED
    BY <1>1, <1>2, <1>4, <1>6, <2>1, RestFits, ShapeStep
<1>8. Hands \in Nat /\ Hands' = Hands
  BY <1>1, <1>6, HandsFact DEF Hands
<1>9. ASSUME NEW p \in PulseIds PROVE Spending(p)'
  <2>1. NotRunning \in RunnerStates /\ runner' = [runner EXCEPT ![c] = NotRunning]
    BY <1>1, <1>2, RestFits DEF RunnerFits, RunnerTo
  <2>2. ~Reaches(NotRunning, p) /\ ~Owes(NotRunning, p)
    BY <1>1, RestFits
  <2>3. Stale(runner', p, Today) \subseteq Stale(runner, p, Today)
    BY <1>1, <2>1, <2>2, StaleShrinks
  <2> DEFINE O == Cardinality(Owed(runner, p))  ON == Cardinality(Owed(runner', p))
             F == tokensOnFile[p][Today]  L == Lost(p)
  <2>4. O \in Nat /\ ON \in Nat /\ F \in Nat
    <3>1. Today \in Days
      BY <1>1, TodayFact
    <3> QED
      BY <1>1, <3>1, CountsFact DEF PulseShape
  <2>5. L \in Nat /\ Lost(p)' = IF Owes(runner[c], p) THEN L + 1 ELSE L
    BY <1>4, <1>5, <1>6 DEF Lost
  <2>6. /\ IF Owes(runner[c], p) THEN O = ON + runner[c].tokens ELSE O = ON
        /\ runner[c].tokens \in 0 .. Greatest /\ Greatest \in Nat
    BY <1>1, <2>1, <2>2, OwedByOthers, GreatestFact DEF PulseShape, RunnerStates
  <2>7. burned'[p] = burned[p] /\ tokensOnFile'[p][Today] = F /\ Spending(p)
    BY <1>2 DEF PulseInv
  <2> HIDE DEF O, ON, F, L
  <2>8. Greatest * L \in Int /\ Greatest * (L + 1) = Greatest * L + Greatest
    BY <2>5, MoreCalls
  <2>9. /\ Lost(p)' >= L
        /\ F + ON + Greatest * (Lost(p)') >= F + O + Greatest * L
    <3>1. CASE Owes(runner[c], p)
      BY <2>4, <2>5, <2>6, <2>8, <3>1
    <3>2. CASE ~Owes(runner[c], p)
      BY <2>4, <2>5, <2>6, <2>8, <3>2
    <3> QED
      BY <3>1, <3>2
  <2>10. Hands' >= Hands
    BY <1>8
  <2> QED
    BY <1>1, <1>7, <1>8, <2>3, <2>7, <2>9, <2>10, SpendingKept DEF O, ON, F, L
<1> QED
  BY <1>7, <1>9 DEF PulseInv

LEMMA ChargeStep ==
    ASSUME PulseInv, clock' = clock, NEW c \in CliProcesses, Charge(c)
    PROVE  PulseInv'
<1> DEFINE s == [runner[c] EXCEPT !.tokens = 0]  t == Turned(s, runner[c].at + 1)
           p == Of(c).id  n == runner[c].tokens
<1>1. PulseShape
  BY DEF PulseInv
<1>2. /\ runner[c].phase = "charge" /\ RunnerTo(c, t)
      /\ tokensOnFile' = [tokensOnFile EXCEPT ![p][Today] = tokensOnFile[p][Today] + n]
      /\ pulses' = pulses /\ burned' = burned /\ lapses' = lapses
  BY DEF Charge, Today
<1>3. /\ runner[c] \in RunnerStates /\ runner[c].now <= clock /\ clock \in 1 .. MaxMinute
      /\ runner[c].at \in DOMAIN runner[c].array /\ PulseArray(runner[c].array)
  BY <1>1, <1>2 DEF PulseShape, RunnerFits
<1>4. DOMAIN runner[c].array = 1 .. Len(runner[c].array) /\ Len(runner[c].array) \in Nat
  BY <1>3 DEF PulseArray
<1>5. runner[c].at \in Nat /\ n \in Nat /\ n \in 0 .. Greatest /\ Greatest \in Nat
  BY <1>3, GreatestFact DEF RunnerStates
<1>5a. runner[c].at + 1 \in Nat \ {0}
  BY <1>5
<1>6. s = [phase |-> runner[c].phase, array |-> runner[c].array, now |-> runner[c].now,
           at |-> runner[c].at, minute |-> runner[c].minute, tokens |-> 0]
  <2>1. runner[c] = [phase |-> runner[c].phase, array |-> runner[c].array, now |-> runner[c].now,
                     at |-> runner[c].at, minute |-> runner[c].minute, tokens |-> runner[c].tokens]
    BY <1>3 DEF RunnerStates
  <2>2. PICK r : r = runner[c]
    OBVIOUS
  <2>3. PICK u : u = [r EXCEPT !.tokens = 0]
    OBVIOUS
  <2>4. u = [phase |-> r.phase, array |-> r.array, now |-> r.now, at |-> r.at,
             minute |-> r.minute, tokens |-> 0]
    BY <2>1, <2>2, <2>3
  <2> QED
    BY <2>2, <2>3, <2>4
<1> HIDE DEF s
<1>7. s \in RunnerStates /\ s.array = runner[c].array /\ s.now = runner[c].now
  BY <1>3, <1>5, <1>6 DEF RunnerStates
<1>8. /\ RunnerFits(t) /\ t.phase \in {"gate", "save"} /\ t.now = s.now
      /\ \A q : Reaches(t, q) => \E i \in DOMAIN s.array : i >= runner[c].at + 1 /\ s.array[i].id = q
  BY <1>3, <1>5a, <1>7, TurnedFact
<1> HIDE DEF t
<1>9. ASSUME NEW q, Reaches(t, q) PROVE Reaches(runner[c], q)
  <2>1. PICK i \in DOMAIN runner[c].array : i >= runner[c].at + 1 /\ runner[c].array[i].id = q
    BY <1>7, <1>8, <1>9
  <2>2. i > runner[c].at
    BY <1>4, <1>5, <2>1
  <2> QED
    BY <1>2, <2>1, <2>2 DEF Reaches
<1>10. p \in PulseIds
  <2> DEFINE P == [id : PulseIds, next : Nat, last : 0 .. MaxMinute, paused : BOOLEAN]
  <2>1. runner[c].array \in Seq(P)
    BY <1>3 DEF PulseArray
  <2> HIDE DEF P
  <2>2. runner[c].array[runner[c].at] \in P
    BY <1>3, <1>4, <2>1
  <2> QED
    BY <2>2 DEF Of, P
<1>11. \A q : Owes(runner[c], q) <=> q = p
  BY <1>2 DEF Owes, Of
<1> HIDE DEF p
<1>12. Today \in Days
  BY <1>1, TodayFact
<1>13. /\ tokensOnFile' \in [PulseIds -> [Days -> Nat]]
       /\ \A q \in PulseIds : tokensOnFile'[q][Today] =
            IF q = p THEN tokensOnFile[q][Today] + n ELSE tokensOnFile[q][Today]
  BY <1>1, <1>2, <1>5, <1>10, <1>12 DEF PulseShape
<1>14. PulseShape'
  <2>1. /\ lapses' = [overlap |-> lapses'.overlap, deaths |-> lapses'.deaths,
                      fired |-> lapses'.fired, repeated |-> lapses'.repeated,
                      unrecorded |-> lapses'.unrecorded]
        /\ lapses'.overlap \in BOOLEAN /\ lapses'.unrecorded \in [PulseIds -> Nat]
        /\ burned' \in [PulseIds -> [Days -> Nat]]
        /\ pulses' # Corrupt => PulseArray(pulses')
    BY <1>1, <1>2 DEF PulseShape
  <2>2. c \in Pulsing /\ (~lapses'.overlap => ~lapses.overlap)
    BY <1>2 DEF Pulsing
  <2> QED
    BY <1>1, <1>2, <1>8, <1>13, <2>1, <2>2, ShapeStep
<1>15. Hands \in Nat /\ Hands' = Hands
  BY <1>1, <1>2, HandsFact DEF Hands
<1>16. ASSUME NEW q \in PulseIds PROVE Spending(q)'
  <2>1. t \in RunnerStates /\ runner' = [runner EXCEPT ![c] = t]
    BY <1>2, <1>8 DEF RunnerFits, RunnerTo
  <2>2. ~Owes(t, q) /\ (Reaches(t, q) => Reaches(runner[c], q) /\ t.now = runner[c].now)
    BY <1>7, <1>8, <1>9 DEF Owes
  <2>3. Stale(runner', q, Today) \subseteq Stale(runner, q, Today)
    BY <1>1, <2>1, <2>2, StaleShrinks
  <2> DEFINE O == Cardinality(Owed(runner, q))  ON == Cardinality(Owed(runner', q))
             F == tokensOnFile[q][Today]  FN == tokensOnFile'[q][Today]  L == Lost(q)
  <2>4. O \in Nat /\ ON \in Nat /\ F \in Nat
    BY <1>1, <1>12, CountsFact DEF PulseShape
  <2>5. L \in Nat /\ Lost(q)' = L
    BY <1>1, <1>2 DEF Lost, PulseShape
  <2>6. IF q = p THEN O = ON + n ELSE O = ON
    BY <1>1, <1>11, <2>1, <2>2, OwedByOthers
  <2>7. FN = IF q = p THEN F + n ELSE F
    BY <1>13
  <2>8. burned'[q] = burned[q] /\ Spending(q)
    BY <1>2 DEF PulseInv
  <2> HIDE DEF O, ON, F, L, FN, n
  <2>9. Greatest * L \in Int
    BY <2>5, MoreCalls
  <2>10. FN + ON + Greatest * (Lost(q)') >= F + O + Greatest * L
    BY <1>5, <2>4, <2>5, <2>6, <2>7, <2>9
  <2>11. Hands' >= Hands /\ Lost(q)' >= L
    BY <1>15, <2>5
  <2> QED
    BY <1>1, <1>14, <1>15, <2>3, <2>8, <2>10, <2>11, SpendingKept DEF O, ON, F, FN, L
<1> QED
  BY <1>14, <1>16 DEF PulseInv
--------------------------------------------------------------------------------
\* A call is made by a process that leaves its place at the gate: one that compared
\* another day's tokens is stale no longer, and of the others one fewer is free.
LEMMA CallModelStep ==
    ASSUME PulseInv, clock' = clock, NEW c \in CliProcesses, CallModel(c)
    PROVE  PulseInv'
<1>0. PICK p : p = Of(c).id
  OBVIOUS
<1>1. PulseShape
  BY DEF PulseInv
<1>2. PICK cost \in Costs :
        /\ burned' = [burned EXCEPT ![p][Today] = burned[p][Today] + cost]
        /\ RunnerTo(c, [runner[c] EXCEPT !.phase = "charge", !.tokens = cost])
  BY <1>0 DEF CallModel, Today
<1>2a. PICK t : t = [runner[c] EXCEPT !.phase = "charge", !.tokens = cost]
  OBVIOUS
<1>3. /\ runner[c].phase = "gate" /\ ~Spent(c)
      /\ pulses' = pulses /\ tokensOnFile' = tokensOnFile
      /\ lapses' = [lapses EXCEPT !.fired[p] = Max({lapses.fired[p], runner[c].now}),
                      !.repeated = lapses.repeated \/ runner[c].minute <= lapses.fired[p]]
  BY <1>0 DEF CallModel
<1>4. /\ runner[c] \in RunnerStates /\ runner[c].now <= clock /\ clock \in 1 .. MaxMinute
      /\ runner[c].at \in DOMAIN runner[c].array /\ PulseArray(runner[c].array)
      /\ pulses # Corrupt => PulseArray(pulses)
  BY <1>1, <1>3 DEF PulseShape, RunnerFits
<1>5. /\ DOMAIN runner[c].array = 1 .. Len(runner[c].array) /\ Len(runner[c].array) \in Nat
      /\ \A i, k \in DOMAIN runner[c].array : runner[c].array[i].id = runner[c].array[k].id => i = k
  BY <1>4 DEF PulseArray
<1>6. cost \in 0 .. Greatest /\ cost \in Nat /\ cost <= Greatest /\ Greatest \in Nat \ {0}
  BY GreatestFact
<1>7. t = [phase |-> "charge", array |-> runner[c].array, now |-> runner[c].now,
           at |-> runner[c].at, minute |-> runner[c].minute, tokens |-> cost]
  BY <1>2a, <1>4 DEF RunnerStates
<1>8. RunnerTo(c, t)
  BY <1>2, <1>2a
<1>9. /\ t \in RunnerStates /\ t.phase = "charge" /\ t.array = runner[c].array
      /\ t.now = runner[c].now /\ t.at = runner[c].at /\ t.tokens = cost
  BY <1>4, <1>6, <1>7 DEF RunnerStates
<1>10. RunnerFits(t)
  BY <1>4, <1>9 DEF RunnerFits
<1>11. p \in PulseIds
  <2> DEFINE P == [id : PulseIds, next : Nat, last : 0 .. MaxMinute, paused : BOOLEAN]
  <2>1. runner[c].array \in Seq(P)
    BY <1>4 DEF PulseArray
  <2> HIDE DEF P
  <2>2. runner[c].array[runner[c].at] \in P
    BY <1>4, <1>5, <2>1
  <2> QED
    BY <1>0, <2>2 DEF Of, P
<1>12. /\ \A q : ~Owes(runner[c], q) /\ (Owes(t, q) <=> q = p)
       /\ Reaches(runner[c], p)
  BY <1>0, <1>3, <1>4, <1>9 DEF Owes, Of, Reaches
<1>13. /\ ~Reaches(t, p)
       /\ \A q : Reaches(t, q) => Reaches(runner[c], q)
  <2>1. runner[c].array[runner[c].at].id = p
    BY <1>0 DEF Of
  <2>2. ~Reaches(t, p)
    <3>1. SUFFICES ASSUME NEW i \in DOMAIN runner[c].array, runner[c].array[i].id = p, i > runner[c].at
                   PROVE FALSE
      BY <1>9 DEF Reaches
    <3>2. i = runner[c].at
      BY <1>4, <1>5, <2>1, <3>1
    <3> QED
      BY <1>4, <1>5, <3>1, <3>2
  <2>3. \A q : Reaches(t, q) => Reaches(runner[c], q)
    BY <1>3, <1>9 DEF Reaches
  <2> QED
    BY <2>2, <2>3
<1>14. Today \in Days /\ Days \subseteq Nat /\ Day(runner[c].now) \in Nat /\ Day(runner[c].now) <= Today
  <2>1. runner[c].now \in 0 .. clock
    BY <1>4, CronAssumption DEF RunnerStates
  <2> QED
    BY <1>1, <2>1, TodayFact
<1>15. /\ burned' \in [PulseIds -> [Days -> Nat]]
       /\ \A q \in PulseIds : q # p => burned'[q] = burned[q]
       /\ \A d \in Days : burned'[p][d] = IF d = Today THEN burned[p][d] + cost ELSE burned[p][d]
  <2> QED
    BY <1>1, <1>2, <1>6, <1>11, <1>14 DEF PulseShape
<1>16. tokensOnFile[p][Day(runner[c].now)] < MaxTokens /\ MaxTokens \in Nat
  <2>1. ~(tokensOnFile[p][Day(runner[c].now)] >= MaxTokens)
    BY <1>0, <1>3 DEF Spent
  <2>2. Day(runner[c].now) \in Days
    <3>1. runner[c].now \in 0 .. MaxMinute
      BY <1>4 DEF RunnerStates
    <3> QED
      BY <3>1, DaysFact
  <2>3. tokensOnFile[p][Day(runner[c].now)] \in Nat
    BY <1>1, <1>11, <2>2 DEF PulseShape
  <2> QED
    BY <2>1, <2>3, PulseAssumption
<1>17. /\ lapses' = [overlap |-> lapses'.overlap, deaths |-> lapses'.deaths,
                     fired |-> lapses'.fired, repeated |-> lapses'.repeated,
                     unrecorded |-> lapses'.unrecorded]
       /\ lapses'.overlap = lapses.overlap /\ lapses'.unrecorded = lapses.unrecorded
  <2> DEFINE fired == [lapses.fired EXCEPT ![p] = Max({lapses.fired[p], runner[c].now})]
             again1 == lapses.repeated \/ runner[c].minute <= lapses.fired[p]
  <2>1. lapses' = [lapses EXCEPT !.fired = fired, !.repeated = again1]
    BY <1>3
  <2> HIDE DEF fired, again1
  <2>2. lapses = [overlap |-> lapses.overlap, deaths |-> lapses.deaths,
                  fired |-> lapses.fired, repeated |-> lapses.repeated,
                  unrecorded |-> lapses.unrecorded]
    BY <1>1 DEF PulseShape
  <2>3. lapses' = [overlap |-> lapses.overlap, deaths |-> lapses.deaths, fired |-> fired,
                   repeated |-> again1, unrecorded |-> lapses.unrecorded]
    BY <2>1, <2>2
  <2> QED
    BY <2>3
<1>18. PulseShape'
  <2>1. /\ lapses'.overlap \in BOOLEAN /\ lapses'.unrecorded \in [PulseIds -> Nat]
        /\ tokensOnFile' \in [PulseIds -> [Days -> Nat]]
        /\ pulses' # Corrupt => PulseArray(pulses')
    BY <1>1, <1>3, <1>17 DEF PulseShape
  <2>2. c \in Pulsing /\ (~lapses'.overlap => ~lapses.overlap)
    BY <1>3, <1>17 DEF Pulsing
  <2> QED
    BY <1>1, <1>8, <1>10, <1>15, <1>17, <2>1, <2>2, ShapeStep
<1>19. Hands \in Nat \ {0} /\ Hands' = Hands /\ \A S \in SUBSET Pulsing : Cardinality(S) <= Hands
  BY <1>1, <1>17, HandsFact DEF Hands
<1>20. runner' = [runner EXCEPT ![c] = t]
  BY <1>8 DEF RunnerTo
<1>21. ASSUME NEW q \in PulseIds, q # p PROVE Spending(q)'
  <2>1. Owed(runner', q) = Owed(runner, q)
    BY <1>1, <1>9, <1>12, <1>20, <1>21, OwedByOthers
  <2>2. Stale(runner', q, Today) \subseteq Stale(runner, q, Today)
    BY <1>1, <1>9, <1>13, <1>20, StaleShrinks
  <2>3. Lost(q)' = Lost(q) /\ Lost(q) \in Nat
    BY <1>1, <1>17 DEF Lost, PulseShape
  <2>4. burned'[q] = burned[q] /\ Spending(q)
    BY <1>15, <1>21 DEF PulseInv
  <2> DEFINE O == Cardinality(Owed(runner, q))  F == tokensOnFile[q][Today]  L == Lost(q)
  <2>5. O \in Nat /\ F \in Nat /\ Greatest * L \in Int
    <3>1. L \in Int /\ Greatest * L \in Int
      BY <2>3, MoreCalls
    <3>2. O \in Nat
      BY CountsFact
    <3>3. F \in Nat
      BY <1>1, <1>14 DEF PulseShape
    <3> QED
      BY <3>1, <3>2, <3>3
  <2>6. tokensOnFile'[q][Today] = F /\ Cardinality(Owed(runner', q)) = O /\ Lost(q)' = L
    BY <1>3, <2>1, <2>3
  <2> HIDE DEF O, F, L
  <2>7. F + O + Greatest * L >= F + O + Greatest * L
    BY <2>5
  <2>8. tokensOnFile'[q][Today] + Cardinality(Owed(runner', q)) + Greatest * (Lost(q)')
          >= tokensOnFile[q][Today] + Cardinality(Owed(runner, q)) + Greatest * Lost(q)
    BY <2>6, <2>7 DEF O, F, L
  <2>9. Lost(q)' >= Lost(q) /\ Hands' >= Hands /\ Hands \in Nat /\ Hands' \in Nat
    BY <1>19, <2>3
  <2> QED
    BY <1>1, <1>18, <2>2, <2>4, <2>8, <2>9, SpendingKept
<1>22. Spending(p)'
  <2> DEFINE B == burned[p][Today]  O == Cardinality(Owed(runner, p))  F == tokensOnFile[p][Today]
             L == Lost(p)  H == Hands  G == Greatest
             S == Cardinality(Stale(runner, p, Today))  SN == Cardinality(Stale(runner', p, Today))
             W == Cardinality(Owing(runner, p))
  <2>1. B \in Nat /\ F \in Nat /\ L \in Nat /\ H \in Nat \ {0} /\ G \in Nat \ {0} /\ G \in Nat
    BY <1>1, <1>6, <1>11, <1>14, <1>19 DEF PulseShape, Lost
  <2>2. O \in Nat /\ S \in Nat /\ SN \in Nat /\ W \in Nat /\ O <= G * W
    BY CountsFact
  <2>3. Cardinality(Owed(runner', p)) = O + cost
    BY <1>1, <1>9, <1>12, <1>20, OwedByOthers
  <2>4. /\ \A d \in Days :
             /\ d > Today => burned[p][d] = 0
             /\ burned[p][d] = 0 \/ burned[p][d] < MaxTokens + G * (H + L)
        /\ B <= F + O + G * L
        /\ B = 0 \/ B < MaxTokens + G * (H + L - S)
    BY <1>11 DEF PulseInv, Spending
  <2>5. Stale(runner, p, Today) \subseteq Pulsing /\ Owing(runner, p) \subseteq Pulsing /\ c \in Pulsing
    BY <1>3 DEF Stale, Owing, Pulsing, Reaches, Owes
  <2>6. S <= H
    BY <1>19, <2>5
  <2>7. c \notin Stale(runner', p, Today)
    BY <1>1, <1>13, <1>20 DEF Stale, PulseShape
  <2>8. Stale(runner', p, Today) \subseteq Stale(runner, p, Today)
    BY <1>1, <1>9, <1>13, <1>20, StaleShrinks
  <2>9. G * (H + L) \in Int /\ G * L \in Int /\ G * (H + L - SN) \in Int
    <3>1. H + L \in Int /\ L \in Int /\ H + L - SN \in Int
      BY <2>1, <2>2
    <3> QED
      BY <3>1, MoreCalls
  <2>10. B + cost < MaxTokens + G * (H + L - SN)
    <3>1. CASE Day(runner[c].now) < Today
      <4>1. c \in Stale(runner, p, Today)
        BY <1>12, <3>1 DEF Stale
      <4>2. Stale(runner', p, Today) \subseteq Stale(runner, p, Today) \ {c}
        BY <2>7, <2>8
      <4>3. SN <= S - 1
        <5>1. IsFiniteSet(Stale(runner, p, Today))
          BY CountsFact
        <5>2. /\ IsFiniteSet(Stale(runner, p, Today) \ {c})
              /\ Cardinality(Stale(runner, p, Today) \ {c}) = S - 1
          BY <4>1, <5>1, FS_RemoveElement
        <5> QED
          BY <4>2, <5>2, FS_Subset
      <4> DEFINE x == H + L - S
      <4>4. x \in Int /\ x >= 0 /\ x + 1 \in Int /\ x + 1 <= H + L - SN /\ H + L - SN \in Int
        BY <2>1, <2>2, <2>6, <4>3
      <4>5. B = 0 \/ B < MaxTokens + G * x
        BY <2>4
      <4> HIDE DEF x, B, G
      <4>6. G * (x + 1) = G * x + G /\ G * x \in Int /\ G * (x + 1) <= G * (H + L - SN)
        BY <2>1, <4>4, MoreCalls DEF G
      <4>7. G * x >= 0
        BY <2>1, <4>4
      <4>8. MaxTokens > 0
        <5>1. tokensOnFile[p][Day(runner[c].now)] \in Nat
          <6>1. runner[c].now \in 0 .. MaxMinute
            BY <1>4 DEF RunnerStates
          <6> QED
            BY <1>1, <1>11, <6>1, DaysFact DEF PulseShape
        <5> QED
          BY <1>16, <5>1
      <4>9. cost <= G /\ cost \in Nat
        BY <1>6 DEF G
      <4> QED
        BY <1>16, <2>1, <2>9, <4>5, <4>6, <4>7, <4>8, <4>9
    <3>2. CASE Day(runner[c].now) = Today
      <4>1. F < MaxTokens
        BY <1>16, <3>2
      <4>2. W + SN + 1 <= H
        <5> DEFINE X == Owing(runner, p)  Y == Stale(runner', p, Today)
        <5>1. IsFiniteSet(X) /\ IsFiniteSet(Y) /\ Cardinality(X) = W /\ Cardinality(Y) = SN
          BY CountsFact
        <5>2. X \cap Y = {}
          BY <1>1, <2>8, RoomFact
        <5>3. c \notin X \cup Y
          BY <1>12, <2>7 DEF Owing
        <5>4. X \cup Y \cup {c} \in SUBSET Pulsing
          BY <2>5, <2>8
        <5> HIDE DEF X, Y
        <5>5. IsFiniteSet(X \cup Y) /\ Cardinality(X \cup Y) = W + SN
          <6>1. Cardinality({}) = 0
            BY FS_EmptySet
          <6>2. /\ IsFiniteSet(X \cup Y)
                /\ Cardinality(X \cup Y) = Cardinality(X) + Cardinality(Y) - Cardinality(X \cap Y)
            BY <5>1, FS_Union
          <6>3. Cardinality(X \cap Y) = 0
            BY <5>2, <6>1
          <6> HIDE DEF W, SN
          <6>4. W \in Nat /\ SN \in Nat
            BY <2>2
          <6> QED
            BY <5>1, <6>2, <6>3, <6>4
        <5>6. Cardinality(X \cup Y \cup {c}) = W + SN + 1
          BY <5>3, <5>5, FS_AddElement
        <5> QED
          BY <1>19, <5>4, <5>6
      <4> HIDE DEF B, O, F, L, H, S, SN, W, G
      <4>3. W + 1 \in Int /\ W \in Int /\ L \in Int /\ W + 1 + L \in Int /\ W + 1 + L <= H + L - SN /\ H + L - SN \in Int
        BY <2>1, <2>2, <4>2
      <4>4. G * (W + 1 + L) <= G * (H + L - SN) /\ G * (W + 1 + L) \in Int
        BY <4>3, MoreCalls DEF G
      <4>5. G * (W + 1 + L) = G * W + G + G * L /\ G * W \in Int
        BY <2>1, <2>2
      <4>6. cost <= G /\ cost \in Nat
        BY <1>6 DEF G
      <4> QED
        BY <1>16, <2>1, <2>2, <2>4, <2>9, <4>1, <4>4, <4>5, <4>6
    <3> QED
      BY <1>14, <3>1, <3>2
  <2>11. G * (H + L - SN) <= G * (H + L)
    <3>1. H + L - SN \in Int /\ H + L \in Int /\ H + L - SN <= H + L
      BY <2>1, <2>2
    <3> QED
      BY <3>1, MoreCalls
  <2>12. Today' = Today
    BY DEF Today
  <2>14. Lost(p)' = L
    BY <1>17 DEF Lost
  <2>15. burned'[p][Today] = B + cost /\ tokensOnFile'[p][Today] = F /\ Hands' = H
    BY <1>3, <1>14, <1>15, <1>19
  <2>16. /\ Stale(runner', p, Today') = Stale(runner', p, Today)
         /\ Cardinality(Stale(runner', p, Today')) = SN
    BY <2>12
  <2> HIDE DEF B, O, F, L, H, S, SN, W, G
  <2>17. ASSUME NEW d \in Days
         PROVE  /\ d > Today => burned'[p][d] = 0
                /\ burned'[p][d] = 0 \/ burned'[p][d] < MaxTokens + G * (H + L)
    <3>1. CASE d = Today
      BY <1>6, <1>14, <1>16, <2>1, <2>9, <2>10, <2>11, <2>15, <3>1
    <3>2. CASE d # Today
      BY <1>15, <2>4, <3>2
    <3> QED
      BY <3>1, <3>2
  <2>18. B + cost <= F + (O + cost) + G * L
    BY <1>6, <2>1, <2>2, <2>4, <2>9
  <2> QED
    BY <2>3, <2>10, <2>12, <2>14, <2>15, <2>16, <2>17, <2>18, SpendingNext DEF G
<1> QED
  BY <1>18, <1>21, <1>22 DEF PulseInv
--------------------------------------------------------------------------------
\* A day that ends takes the accounts of its calls with it: of the next one nothing
\* is burned yet.
LEMMA MinutePulseStep ==
    ASSUME PulseInv, MinutePasses, UNCHANGED pulseVars
    PROVE  PulseInv'
<1>1. PulseShape
  BY DEF PulseInv
<1>2. /\ clock \in Nat /\ clock' = clock + 1 /\ clock' \in 1 .. MaxMinute
      /\ pulses' = pulses /\ runner' = runner /\ tokensOnFile' = tokensOnFile
      /\ burned' = burned /\ lapses' = lapses
  BY <1>1, CronAssumption DEF MinutePasses, pulseVars, PulseShape
<1>3. PulseShape'
  <2>1. \A c \in CliProcesses : RunnerFits(runner[c])'
    <3>1. SUFFICES ASSUME NEW c \in CliProcesses PROVE RunnerFits(runner[c])'
      OBVIOUS
    <3>2. runner[c] \in RunnerStates /\ RunnerFits(runner[c])
      BY <1>1 DEF PulseShape
    <3>3. runner[c].now \in 0 .. MaxMinute /\ runner[c].now <= clock
      BY <3>2 DEF RunnerFits, RunnerStates
    <3>4. runner[c].now <= clock'
      BY <1>2, <3>3, CronAssumption
    <3> QED
      BY <1>2, <3>2, <3>4 DEF RunnerFits
  <2> QED
    BY <1>1, <1>2, <2>1 DEF PulseShape, Pulsing
<1>4. Today \in Days /\ Today' \in Days /\ Days \subseteq Nat /\ Today <= Today'
  <2>1. clock' \in Nat /\ clock <= clock' /\ clock' \in 0 .. MaxMinute
    BY <1>2
  <2>2. Today' = Day(clock')
    BY DEF Today, Day
  <2> QED
    BY <1>1, <1>2, <2>1, <2>2, TodayFact, DayFact, DaysFact DEF Today
<1>5. ASSUME NEW p \in PulseIds PROVE Spending(p)'
  <2> DEFINE G == Greatest  H == Hands  L == Lost(p)  F == tokensOnFile[p]
             O == Cardinality(Owed(runner, p))  S == Cardinality(Stale(runner, p, Today))
             ON == Cardinality(Owed(runner', p))  SN == Cardinality(Stale(runner', p, Today'))
  <2>1. /\ \A d \in Days :
             /\ d > Today => burned[p][d] = 0
             /\ burned[p][d] = 0 \/ burned[p][d] < MaxTokens + G * (H + L)
        /\ burned[p][Today] <= F[Today] + O + G * L
        /\ burned[p][Today] = 0 \/ burned[p][Today] < MaxTokens + G * (H + L - S)
    BY DEF PulseInv, Spending
  <2>3. Hands' = H /\ Lost(p)' = L
    BY <1>2 DEF Hands, Lost
  <2>3a. burned'[p] = burned[p] /\ tokensOnFile'[p] = F
    BY <1>2
  <2>3b. ON = O /\ (Today' = Today => SN = S)
    BY <1>2
  <2>4. /\ L \in Nat /\ \A d \in Days : burned[p][d] \in Nat /\ F[d] \in Nat
    BY <1>1 DEF PulseShape, Lost
  <2>5. O \in Nat /\ G * L \in Nat
    <3>1. L \in Nat /\ G \in Nat
      BY <2>4, GreatestFact
    <3>2. G * L \in Nat
      BY <3>1
    <3> QED
      BY <3>2, CountsFact
  <2> HIDE DEF G, H, L, F, O, S, ON, SN
  <2>6. ASSUME NEW d \in Days
        PROVE  /\ d > Today' => burned[p][d] = 0
               /\ burned[p][d] = 0 \/ burned[p][d] < MaxTokens + G * (H + L)
    BY <1>4, <2>1
  <2>7. /\ burned[p][Today'] <= F[Today'] + O + G * L
        /\ burned[p][Today'] = 0 \/ burned[p][Today'] < MaxTokens + G * (H + L - SN)
    <3>1. CASE Today' = Today
      BY <2>1, <2>3b, <3>1
    <3>2. CASE Today' # Today
      <4>1. Today' > Today
        BY <1>4, <3>2
      <4>2. burned[p][Today'] = 0
        BY <1>4, <2>1, <4>1
      <4> QED
        <5>1. F[Today'] \in Nat
          BY <1>4, <2>4
        <5>2. 0 <= F[Today'] + O + G * L
          BY <2>5, <5>1
        <5> QED
          BY <4>2, <5>2
    <3> QED
      BY <3>1, <3>2
  <2> QED
    BY <2>3, <2>3a, <2>3b, <2>6, <2>7, SpendingNext DEF G, ON, SN
<1> QED
  BY <1>3, <1>5 DEF PulseInv

LEMMA PulseStutter ==
    ASSUME PulseInv, UNCHANGED <<clock, pulses, runner, tokensOnFile, burned, lapses>>
    PROVE  PulseInv'
<1>1. PulseShape'
  BY DEF PulseInv, PulseShape, RunnerFits, Pulsing
<1>2. ASSUME NEW p \in PulseIds PROVE Spending(p)'
  <2>1. Spending(p)
    BY DEF PulseInv
  <2>3. /\ runner' = runner /\ burned' = burned /\ tokensOnFile' = tokensOnFile
        /\ Hands' = Hands /\ Lost(p)' = Lost(p) /\ Today' = Today
    BY DEF Hands, Lost, Today
  <2> QED
    BY <2>1, <2>3, SpendingNext DEF Spending
<1> QED
  BY <1>1, <1>2 DEF PulseInv

LEMMA PulseInitInv == clock = 1 /\ PulseInit => PulseInv
<1> SUFFICES ASSUME clock = 1, PulseInit PROVE PulseInv
  OBVIOUS
<1>1. clock \in 1 .. MaxMinute
  BY CronAssumption
<1>2. PulseShape
  <2>1. pulses # Corrupt => PulseArray(pulses)
    BY PulseAssumption DEF PulseInit
  <2>2. MaxMinute \in Nat /\ Greatest \in Nat
    BY CronAssumption, GreatestFact
  <2>3. NotRunning \in RunnerStates /\ NotRunning.phase = "idle"
    BY <2>2 DEF NotRunning, RunnerStates
  <2>4. NotRunning.now <= clock /\ PulseArray(NotRunning.array)
    BY DEF NotRunning, PulseArray
  <2>5. RunnerFits(NotRunning)
    BY <2>3, <2>4 DEF RunnerFits
  <2>6. /\ runner = [c \in CliProcesses |-> NotRunning]
        /\ runner \in [CliProcesses -> RunnerStates]
        /\ \A c \in CliProcesses : RunnerFits(runner[c])
    BY <2>3, <2>5 DEF PulseInit
  <2>7. Pulsing = {}
    BY <2>3, <2>6 DEF Pulsing
  <2>8. /\ tokensOnFile \in [PulseIds -> [Days -> Nat]] /\ burned \in [PulseIds -> [Days -> Nat]]
        /\ lapses.overlap = FALSE /\ lapses.unrecorded \in [PulseIds -> Nat]
        /\ lapses = [overlap |-> lapses.overlap, deaths |-> lapses.deaths,
                     fired |-> lapses.fired, repeated |-> lapses.repeated,
                     unrecorded |-> lapses.unrecorded]
    BY DEF PulseInit
  <2> QED
    BY <1>1, <2>1, <2>6, <2>7, <2>8 DEF PulseShape
<1>3. ASSUME NEW p \in PulseIds PROVE Spending(p)
  <2>1. Today \in Days /\ Lost(p) = 0
    BY <1>2, TodayFact DEF Lost, PulseInit
  <2>2. \A d \in Days : burned[p][d] = 0 /\ tokensOnFile[p][d] = 0
    BY DEF PulseInit
  <2>3. Cardinality(Owed(runner, p)) \in Nat /\ Greatest \in Nat
    BY CountsFact, GreatestFact
  <2> DEFINE O == Cardinality(Owed(runner, p))
  <2>4. O \in Nat
    BY <2>3
  <2> HIDE DEF O
  <2>5. burned[p][Today] <= tokensOnFile[p][Today] + O + Greatest * Lost(p)
    BY <2>1, <2>2, <2>3, <2>4
  <2> QED
    BY <2>1, <2>2, <2>5 DEF Spending, O
<1> QED
  BY <1>2, <1>3 DEF PulseInv

LEMMA PulseStepInv == PulseInv /\ [PulseNext]_<<clock, pulseVars>> => PulseInv'
<1> SUFFICES ASSUME PulseInv, [PulseNext]_<<clock, pulseVars>> PROVE PulseInv'
  OBVIOUS
<1>1. CASE UNCHANGED <<clock, pulseVars>>
  BY <1>1, PulseStutter DEF pulseVars
<1>2. CASE MinutePasses /\ UNCHANGED pulseVars
  BY <1>2, MinutePulseStep
<1>3. CASE clock' = clock /\ EditChecklist
  BY <1>3, PulseStutter DEF EditChecklist
<1>4. ASSUME clock' = clock, NEW c \in CliProcesses,
             \/ RunDuePulses(c) \/ SavePulses(c)
             \/ \E p \in PulseIds : ResumePulse(c, p) \/ AddPulse(c, p)
             \/ SkipPulse(c) \/ PausePulse(c) \/ CallModel(c) \/ CallThrows(c) \/ Charge(c)
             \/ PulseCrash(c)
      PROVE  PulseInv'
  <2>1. CASE RunDuePulses(c)
    BY <1>4, <2>1, RunDuePulsesStep
  <2>2. CASE SavePulses(c)
    BY <1>4, <2>2, SavePulsesStep
  <2>3. CASE \E p \in PulseIds : ResumePulse(c, p) \/ AddPulse(c, p)
    BY <1>4, <2>3, ResumePulseStep, AddPulseStep
  <2>4. CASE SkipPulse(c) \/ CallThrows(c)
    BY <1>4, <2>4, SkipPulseStep
  <2>5. CASE PausePulse(c)
    BY <1>4, <2>5, PausePulseStep
  <2>6. CASE CallModel(c)
    BY <1>4, <2>6, CallModelStep
  <2>7. CASE Charge(c)
    BY <1>4, <2>7, ChargeStep
  <2>8. CASE PulseCrash(c)
    BY <1>4, <2>8, PulseCrashStep
  <2> QED
    BY <1>4, <2>1, <2>2, <2>3, <2>4, <2>5, <2>6, <2>7, <2>8
<1> QED
  BY <1>1, <1>2, <1>3, <1>4 DEF PulseNext

\* No pulse uses more on a day than its budget, one call of every process at work
\* and the calls that were lost with theirs: for any pulses, costs and processes,
\* whatever they read before the others wrote, and over the end of a day
\* (pulse.ts:112-162).
THEOREM BudgetIsKept == PulseSpec => []SpendIsBounded
<1>1. PulseInv => SpendIsBounded
  <2>1. SUFFICES ASSUME PulseInv, NEW p \in PulseIds, NEW d \in Days
                 PROVE  burned[p][d] < MaxTokens + Max(Costs) * Calls(p)
    BY DEF SpendIsBounded
  <2>2. burned[p][d] = 0 \/ burned[p][d] < MaxTokens + Greatest * (Hands + Lost(p))
    BY <2>1 DEF PulseInv, Spending
  <2>3. PulseShape
    BY <2>1 DEF PulseInv
  <2>4. Calls(p) = Lost(p) + (IF lapses.overlap THEN Cardinality(CliProcesses) ELSE 1)
    BY DEF Calls, Lost
  <2>5. Lost(p) \in Nat /\ Greatest \in Nat \ {0} /\ MaxTokens \in Nat
    BY <2>3, GreatestFact, PulseAssumption DEF PulseShape, Lost
  <2>6. Calls(p) = Hands + Lost(p) /\ Hands \in Nat
    <3>1. Cardinality(CliProcesses) \in Nat
      BY PulseAssumption, FS_CardinalityType
    <3> QED
      BY <2>4, <2>5, <3>1 DEF Hands
  <2>7. Hands + Lost(p) > 0
    <3>1. CASE CliProcesses = {}
      <4>1. ~lapses.overlap
        BY <2>3, <3>1 DEF PulseShape
      <4> QED
        BY <2>5, <4>1 DEF Hands
    <3>2. CASE CliProcesses # {}
      <4>1. PICK c \in CliProcesses : TRUE
        BY <3>2
      <4> QED
        BY <2>3, <2>5, <4>1, HandsFact
    <3> QED
      BY <3>1, <3>2
  <2>8. Greatest * (Hands + Lost(p)) > 0
    BY <2>5, <2>6, <2>7
  <2> QED
    BY <2>2, <2>5, <2>6, <2>8 DEF Greatest
<1> QED
  BY <1>1, PulseInitInv, PulseStepInv, PTL DEF PulseSpec
================================================================================
