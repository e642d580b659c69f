-------------------------------- MODULE Schedules --------------------------------
(* The schedules of packages/core/src/scheduler.ts.  There is no daemon: the    *)
(* external cron invokes "schedule run-due", and a user adds and removes        *)
(* schedules, each a process of its own.  All of them read the whole file, work *)
(* on the array in memory and write the whole file back, without a lock.        *)
EXTENDS Naturals, Sequences, FiniteSetsExt, SequencesExt

CONSTANTS
    CliProcesses, \* the processes that may be at work at once
    Jobs,         \* the ids of schedules
    Cron,         \* the minutes a job's expression matches
    Disabled,     \* the jobs a user has disabled in the file
    EarlierJobs,  \* the files that earlier sessions may have left
    Corrupt,      \* a file that was cut short
    MaxMinute,    \* bound on the clock, in minutes
    MaxDeaths     \* bound on the processes that die

VARIABLES
    clock,
    schedules,  \* schedules.json: the jobs in order, or Corrupt
    command,    \* what each process does, and the array it holds
    asked,      \* history: the jobs that were never added, are kept, or removed
    consumed,   \* history: through which minute each job has fired
    again,      \* history: the jobs that fired for a minute they had fired for
    met         \* history: [overlap, crashes] whether two commands met, who died

scheduleVars == <<schedules, command, asked, consumed, again, met>>
cronVars == <<clock, scheduleVars>>

Unset == 0        \* no nextRunAt: a job of an older version
Job(id, next, last) == [id |-> id, next |-> next, last |-> last]

\* An array of jobs: their ids are random, and a file was written in the past.
JobArray(jobs) ==
    /\ jobs \in Seq([id : Jobs, next : Nat, last : 0 .. MaxMinute])
    /\ \A i, k \in DOMAIN jobs : jobs[i].id = jobs[k].id => i = k

\* Every expression matches some minute within a year of any other.
ASSUME CronAssumption ==
    /\ MaxMinute \in Nat \ {0} /\ MaxDeaths \in Nat
    /\ Cron \in [Jobs -> SUBSET Nat]
    /\ \A j \in Jobs : \E m \in Cron[j] : m > MaxMinute
    /\ \A file \in EarlierJobs : JobArray(file)

\* The first minute after from that the expression matches.
ComputeNextRun(j, from) == Min({m \in Cron[j] : m > from})

\* nextRunAt, which an older job derives from its last run or its creation.
NextRun(job) == IF job.next = Unset THEN ComputeNextRun(job.id, job.last) ELSE job.next

Ids(jobs) == {jobs[i].id : i \in DOMAIN jobs}
Edit(j) == [at |-> 0, id |-> j, minute |-> 0]
Resting == [phase |-> "idle", jobs |-> <<>>, now |-> 0, due |-> {}]
AtWork == {c \in CliProcesses : command[c].phase # "idle"}

ScheduleInit ==
    /\ clock = 1
    /\ schedules \in EarlierJobs
    /\ command = [c \in CliProcesses |-> Resting]
    /\ asked = [j \in Jobs |-> IF j \in Ids(schedules) THEN "kept" ELSE "never"]
    /\ consumed = [j \in Jobs |-> 0]
    /\ again = {}
    /\ met = [overlap |-> FALSE, crashes |-> 0]
--------------------------------------------------------------------------------
\* A process reads the file; a corrupt one is an error and changes nothing.
ReadsFile(c, phase, jobs, due) ==
    /\ command[c].phase = "idle" /\ schedules # Corrupt
    /\ command' = [command EXCEPT ![c] = [phase |-> phase, jobs |-> jobs,
                                          now |-> clock, due |-> due]]
    /\ met' = [met EXCEPT !.overlap = @ \/ AtWork # {}]
    /\ UNCHANGED <<schedules, asked, consumed, again>>

\* A process writes its array over whatever the file holds by now.
WritesBack(c, next) ==
    /\ schedules' = command[c].jobs
    /\ command' = [command EXCEPT ![c] = next]

\* addSchedule: parse, read and push; ids are fresh.
AddSchedule(c, j) ==
    /\ schedules # Corrupt /\ asked[j] = "never"
    /\ \A d \in AtWork : j \notin Ids(command[d].jobs)
    /\ ReadsFile(c, "adding",
         Append(schedules, Job(j, ComputeNextRun(j, clock), clock)), {Edit(j)})

\* removeSchedule of a job that is there; of any other it writes nothing.
RemoveSchedule(c, j) ==
    /\ schedules # Corrupt
    /\ \E i \in DOMAIN schedules :
         schedules[i].id = j /\ ReadsFile(c, "removing", RemoveAt(schedules, i), {Edit(j)})

WriteEdit(c) ==
    /\ command[c].phase \in {"adding", "removing"}
    /\ WritesBack(c, Resting)
    /\ \E edit \in command[c].due :
         asked' = [asked EXCEPT ![edit.id] =
                     IF command[c].phase = "adding" THEN "kept" ELSE "removed"]
    /\ UNCHANGED <<consumed, again, met>>
--------------------------------------------------------------------------------
\* Mutant: due when the current minute matches.
IsDue_ThisMinute(job, now) == job.id \notin Disabled /\ NextRun(job) = now

\* Due is nextRunAt <= now, so that a missed minute is made up for.
IsDue(job, now) == job.id \notin Disabled /\ NextRun(job) <= now

DueIndexes(jobs, now) == {i \in DOMAIN jobs : IsDue(jobs[i], now)}

\* Phase 1 of runDueSchedules: every due job is advanced past now, in memory;
\* when none is due the command ends here.
RunDue(c) ==
    LET due == DueIndexes(schedules, clock)
    IN  /\ schedules # Corrupt /\ due # {}
        /\ ReadsFile(c, "due",
             [i \in DOMAIN schedules |->
                IF IsDue(schedules[i], clock)
                  THEN [schedules[i] EXCEPT !.next = ComputeNextRun(schedules[i].id, clock)]
                  ELSE schedules[i]],
             {[at |-> i, id |-> schedules[i].id, minute |-> NextRun(schedules[i])] : i \in due})

\* Mutant: the advance is written only when the runs are over.
WriteAdvance_Later(c) ==
    /\ command[c].phase = "due"
    /\ command' = [command EXCEPT ![c].phase = "running"]
    /\ UNCHANGED <<schedules, asked, consumed, again, met>>

\* The advance is on file before anything runs.
WriteAdvance(c) ==
    /\ command[c].phase = "due"
    /\ WritesBack(c, [command[c] EXCEPT !.phase = "running"])
    /\ UNCHANGED <<asked, consumed, again, met>>

\* Phase 2: the runner executes the next due job, which may take long; failed or
\* not, the job keeps the time of this command.
RunJob(c) ==
    /\ command[c].phase = "running"
    /\ \E d \in command[c].due :
         /\ \A e \in command[c].due : d.at <= e.at
         /\ command' = [command EXCEPT ![c].due = @ \ {d},
                                       ![c].jobs[d.at].last = command[c].now]
         /\ consumed' = [consumed EXCEPT ![d.id] = Max({@, command[c].now})]
         /\ again' = IF d.minute <= consumed[d.id] THEN again \cup {d.id} ELSE again
    /\ UNCHANGED <<schedules, asked, met>>

\* The results are written with the array of phase 1.
WriteResults(c) ==
    /\ command[c].phase = "running" /\ command[c].due = {}
    /\ WritesBack(c, Resting)
    /\ UNCHANGED <<asked, consumed, again, met>>
--------------------------------------------------------------------------------
\* A process dies, in the middle of writeFile also with the file cut short.
ScheduleCrash(c) ==
    /\ c \in AtWork /\ met.crashes < MaxDeaths
    /\ command' = [command EXCEPT ![c] = Resting]
    /\ met' = [met EXCEPT !.crashes = @ + 1]
    /\ \/ UNCHANGED schedules
       \/ /\ \/ command[c].phase \in {"adding", "removing", "due"}
             \/ command[c].phase = "running" /\ command[c].due = {}
          /\ schedules' = Corrupt
    /\ UNCHANGED <<asked, consumed, again>>

ScheduleProceeds(c) == WriteEdit(c) \/ WriteAdvance(c) \/ RunJob(c) \/ WriteResults(c)

MinutePasses == clock < MaxMinute /\ clock' = clock + 1

ScheduleNext ==
    \/ MinutePasses /\ UNCHANGED scheduleVars
    \/ /\ UNCHANGED clock
       /\ \E c \in CliProcesses :
            \/ \E j \in Jobs : AddSchedule(c, j) \/ RemoveSchedule(c, j)
            \/ RunDue(c)
            \/ ScheduleProceeds(c)
            \/ ScheduleCrash(c)

ScheduleSpec == ScheduleInit /\ [][ScheduleNext]_cronVars

\* The external cron goes on invoking run-due, and a process that lives works.
ScheduleFairness ==
    /\ WF_cronVars(UNCHANGED clock /\ \E c \in CliProcesses : RunDue(c))
    /\ \A c \in CliProcesses : WF_cronVars(UNCHANGED clock /\ ScheduleProceeds(c))
--------------------------------------------------------------------------------
\* At most once: a job fires twice for one minute only when two commands met,
\* never because of a crash or of missed minutes ("a backlog never bursts").  And
\* commands that never meet keep the file what the user asked for.
FiresForward ==
    ~met.overlap =>
      /\ again = {}
      /\ schedules # Corrupt => Ids(schedules) = {j \in Jobs : asked[j] = "kept"}

\* scheduler.ts:160, "a crash or an overlapping run-due invocation can't
\* double-fire": FiresForward without the exception.
NeverFiresTwice == again = {}

\* A job that is due is run for that minute, however many minutes the cron
\* missed, unless it is removed, the file is lost or a process died with it.
Awaits(j, m) ==
    schedules # Corrupt /\ \E i \in DOMAIN schedules :
        schedules[i].id = j /\ IsDue(schedules[i], clock) /\ NextRun(schedules[i]) = m
DueIsCaught ==
    \A j \in Jobs, m \in 1 .. MaxMinute :
        Awaits(j, m) ~> \/ consumed[j] >= m \/ met.crashes > 0
                        \/ schedules = Corrupt \/ j \notin Ids(schedules)
================================================================================
