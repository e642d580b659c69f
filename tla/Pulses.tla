--------------------------------- MODULE Pulses ---------------------------------
(* The pulses of packages/core/src/pulse.ts: heartbeats and proactive tasks that *)
(* call a model on a cron, each with a daily budget of tokens that is counted    *)
(* from the records of tokens.  As schedules.json, pulses.json is read           *)
(* and written whole; but a run of the due pulses writes it only at its end.     *)
EXTENDS Schedules

CONSTANTS
    PulseIds,       \* the pulses
    TaskPulses,     \* those of the kind "task"; the others are heartbeats
    MaxTokens,      \* maxTokensPerDay
    Costs,          \* what a call of the model may use
    DayLength,      \* minutes of a day
    EarlierPulses   \* the files that earlier sessions may have left

VARIABLES
    pulses,     \* pulses.json: the pulses in order, or Corrupt
    runner,     \* what each process does, and the array it holds
    checklist,  \* PULSE.md has items
    tokensOnFile, \* tokens on record, per pulse and day
    burned,     \* history: tokens of the calls made, per pulse and day
    lapses      \* history: [overlap, deaths, fired, repeated, unrecorded]

pulseVars == <<pulses, runner, checklist, tokensOnFile, burned, lapses>>

\* An array of pulses: their ids are random, and a file was written in the past.
PulseArray(array) ==
    /\ array \in Seq([id : PulseIds, next : Nat, last : 0 .. MaxMinute, paused : BOOLEAN])
    /\ \A i, k \in DOMAIN array : array[i].id = array[k].id => i = k

\* A call uses tokens, and no model uses more of them than it can.
ASSUME PulseAssumption ==
    /\ MaxTokens \in Nat /\ DayLength \in Nat \ {0} /\ IsFiniteSet(CliProcesses)
    /\ PulseIds \subseteq Jobs /\ TaskPulses \subseteq PulseIds
    /\ Costs \subseteq Nat /\ \E most \in Costs \ {0} : \A cost \in Costs : cost <= most
    /\ \A file \in EarlierPulses : file # Corrupt => PulseArray(file)

Pulse(id, next) == [id |-> id, next |-> next, last |-> 0, paused |-> FALSE]
Day(minute) == minute \div DayLength
Days == 0 .. Day(MaxMinute)
NotRunning ==
    [phase |-> "idle", array |-> <<>>, now |-> 0, at |-> 0, minute |-> 0, tokens |-> 0]
Pulsing == {c \in CliProcesses : runner[c].phase # "idle"}

PulseInit ==
    /\ pulses \in EarlierPulses
    /\ runner = [c \in CliProcesses |-> NotRunning]
    /\ checklist \in BOOLEAN
    /\ tokensOnFile = [p \in PulseIds |-> [d \in Days |-> 0]]
    /\ burned = tokensOnFile
    /\ lapses = [overlap |-> FALSE, deaths |-> 0, fired |-> [p \in PulseIds |-> 0],
                 repeated |-> FALSE, unrecorded |-> [p \in PulseIds |-> 0]]
--------------------------------------------------------------------------------
\* The next pulse of the array, from here on, that runDuePulses acts on: one that
\* is neither paused nor due later.  Behind the last one the array is written.
From(array, at, now) ==
    LET due == {i \in at .. Len(array) : ~array[i].paused /\ NextRun(array[i]) <= now}
    IN  IF due = {} THEN 0 ELSE Min(due)

\* A due pulse is advanced past now, in memory, before its gates.
Turned(state, at) ==
    LET next == From(state.array, at, state.now)
    IN  IF next = 0 THEN [state EXCEPT !.phase = "save", !.at = 0, !.minute = 0]
        ELSE [state EXCEPT !.phase = "gate", !.at = next, !.minute = NextRun(state.array[next]),
                !.array[next].next = ComputeNextRun(state.array[next].id, state.now)]

RunnerTo(c, state) == runner' = [runner EXCEPT ![c] = state]
Of(c) == runner[c].array[runner[c].at]

ReadPulses(c, state) ==
    /\ runner[c].phase = "idle" /\ pulses # Corrupt
    /\ RunnerTo(c, state)
    /\ lapses' = [lapses EXCEPT !.overlap = @ \/ Pulsing # {}]
    /\ UNCHANGED <<pulses, checklist, tokensOnFile, burned>>

RunDuePulses(c) ==
    /\ pulses # Corrupt
    /\ ReadPulses(c, Turned([NotRunning EXCEPT !.array = pulses, !.now = clock], 1))

\* resumePulse clears the reason of the pause, and nothing of what was spent.
ResumePulse(c, p) ==
    /\ pulses # Corrupt
    /\ ReadPulses(c, [NotRunning EXCEPT !.phase = "save", !.array =
         [i \in DOMAIN pulses |->
            IF pulses[i].id = p THEN [pulses[i] EXCEPT !.paused = FALSE] ELSE pulses[i]]])

AddPulse(c, p) ==
    /\ pulses # Corrupt /\ p \notin Ids(pulses) /\ lapses.fired[p] = 0
    /\ \A d \in Pulsing : p \notin Ids(runner[d].array)
    /\ ReadPulses(c, [NotRunning EXCEPT !.phase = "save",
         !.array = Append(pulses, Pulse(p, ComputeNextRun(p, clock)))])

\* Each of the three ends with its array written over the file.
SavePulses(c) ==
    /\ runner[c].phase = "save"
    /\ pulses' = runner[c].array
    /\ RunnerTo(c, NotRunning)
    /\ UNCHANGED <<checklist, tokensOnFile, burned, lapses>>
--------------------------------------------------------------------------------
\* pulsePreflight: a heartbeat without a checklist makes no call.
Preflight(c) == Of(c).id \in TaskPulses \/ checklist

\* Mutant: the budget is compared with the pulse's own reading of the pause only.
Spent_Never(c) == FALSE

\* spentToday, for the day on which the command started.
Spent(c) == tokensOnFile[Of(c).id][Day(runner[c].now)] >= MaxTokens

SkipPulse(c) ==
    /\ runner[c].phase = "gate" /\ ~Preflight(c)
    /\ RunnerTo(c, Turned(runner[c], runner[c].at + 1))
    /\ UNCHANGED <<pulses, checklist, tokensOnFile, burned, lapses>>

PausePulse(c) ==
    /\ runner[c].phase = "gate" /\ Preflight(c) /\ Spent(c)
    /\ RunnerTo(c, Turned([runner[c] EXCEPT !.array[runner[c].at].paused = TRUE],
                          runner[c].at + 1))
    /\ UNCHANGED <<pulses, checklist, tokensOnFile, burned, lapses>>

\* executeRun calls the model, or throws before it does.  A cost is what the record
\* will say of the attempt that answered; of attempts that a fallback to another
\* route replaced, nothing is recorded, and nothing counted here.
CallModel(c) ==
    LET p == Of(c).id
    IN  /\ runner[c].phase = "gate" /\ Preflight(c) /\ ~Spent(c)
        /\ \E cost \in Costs :
             /\ burned' = [burned EXCEPT ![p][Day(clock)] = @ + cost]
             /\ RunnerTo(c, [runner[c] EXCEPT !.phase = "charge", !.tokens = cost])
        /\ lapses' = [lapses EXCEPT !.fired[p] = Max({@, runner[c].now}),
                                    !.repeated = @ \/ runner[c].minute <= lapses.fired[p]]
        /\ UNCHANGED <<pulses, checklist, tokensOnFile>>

CallThrows(c) ==
    /\ runner[c].phase = "gate" /\ Preflight(c) /\ ~Spent(c)
    /\ RunnerTo(c, Turned(runner[c], runner[c].at + 1))
    /\ UNCHANGED <<pulses, checklist, tokensOnFile, burned, lapses>>

\* executeRun ends with its episode and appendTokenRecord (run.ts), and the pulse has run (its lastRunAt is
\* read for pulses of an older version only, and left out).
Charge(c) ==
    /\ runner[c].phase = "charge"
    /\ tokensOnFile' = [tokensOnFile EXCEPT ![Of(c).id][Day(clock)] = @ + runner[c].tokens]
    /\ RunnerTo(c, Turned([runner[c] EXCEPT !.tokens = 0], runner[c].at + 1))
    /\ UNCHANGED <<pulses, checklist, burned, lapses>>

\* A process dies; between the call and its record, the tokens are on no record.
PulseCrash(c) ==
    /\ c \in Pulsing /\ lapses.deaths < MaxDeaths
    /\ RunnerTo(c, NotRunning)
    /\ lapses' = [lapses EXCEPT !.deaths = @ + 1,
                    !.unrecorded = [p \in PulseIds |->
                      IF runner[c].phase = "charge" /\ Of(c).id = p
                        THEN lapses.unrecorded[p] + 1 ELSE lapses.unrecorded[p]]]
    /\ \/ UNCHANGED pulses
       \/ runner[c].phase = "save" /\ pulses' = Corrupt
    /\ UNCHANGED <<checklist, tokensOnFile, burned>>

EditChecklist ==
    /\ checklist' = ~checklist
    /\ UNCHANGED <<pulses, runner, tokensOnFile, burned, lapses>>

PulseNext ==
    \/ MinutePasses /\ UNCHANGED pulseVars
    \/ /\ UNCHANGED clock
       /\ \/ EditChecklist
          \/ \E c \in CliProcesses :
               \/ RunDuePulses(c) \/ SavePulses(c)
               \/ \E p \in PulseIds : ResumePulse(c, p) \/ AddPulse(c, p)
               \/ SkipPulse(c) \/ PausePulse(c) \/ CallModel(c) \/ CallThrows(c) \/ Charge(c)
               \/ PulseCrash(c)

PulseSpec == clock = 1 /\ PulseInit /\ [][PulseNext]_<<clock, pulseVars>>
--------------------------------------------------------------------------------
\* "Every pulse has a hard daily token budget" (pulse.ts:17): what a pulse uses
\* on a day exceeds it by less than one call, and by one more for every process
\* at work beside the first and for every call whose process died before it was
\* recorded; pauses that are lost, lifted or overwritten, and a day that ends
\* between the check and the record, add nothing.
Calls(p) == lapses.unrecorded[p] + IF lapses.overlap THEN Cardinality(CliProcesses) ELSE 1
SpendIsBounded ==
    \A p \in PulseIds, d \in Days :
        burned[p][d] < MaxTokens + Max(Costs) * Calls(p)

\* pulse.ts:33, "advanced past now before running (at-most-once, no burst)": no
\* pulse calls the model twice for one minute.  It fails: see the README.
PulseRunsOnce == ~lapses.repeated
================================================================================
