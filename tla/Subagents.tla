-------------------------------- MODULE Subagents --------------------------------
(* The subagents of packages/core/src/subagents.ts: a parent process spawns      *)
(* children, pulls their results, and a reaper gives up those that crashed.  All *)
(* of it is appended to one file of events, which every operation reads and      *)
(* folds anew; between a read and the append that rests on it others append.     *)
EXTENDS Naturals, Sequences, FiniteSets

CONSTANTS
    Children,       \* the runs that are spawned, each with a fresh id
    Claimers,       \* calls of claimCompleted of their parent that may be in progress
    MaxConcurrent,  \* DEFAULT_MAX_CONCURRENT
    MaxFailures     \* bound on crashes

VARIABLES
    subrun,   \* subruns.jsonl, as listSubRuns folds it: [status, claimed]
    cut,      \* the last line of the file was cut short
    child,    \* how far spawnSubagent is with each child
    stale,    \* the children older than the TTL of the reaper
    reaper,   \* the children the reaper found, when it is at work
    claim,    \* per call: the candidates of its snapshot, and what it claimed
    given,    \* history: the results each child's parent was given
    faulted   \* history: [crashes, met, swallowed]

subagentVars == <<subrun, cut, child, stale, reaper, claim, given, faulted>>

ASSUME SubagentAssumption == MaxConcurrent \in Nat \ {0} /\ MaxFailures \in Nat

SubrunEnded == {"completed", "failed"}
NoSubrun == [status |-> "none", claimed |-> FALSE]
NoClaim == [phase |-> "idle", todo |-> {}, at |-> {}, got |-> {}]
Living == {c \in Children : child[c] \in {"checked", "live"}}
RunningSubruns == {c \in Children : subrun[c].status = "running"}

SubagentInit ==
    /\ subrun = [c \in Children |-> NoSubrun]
    /\ cut = FALSE
    /\ child = [c \in Children |-> "new"]
    /\ stale = {} /\ reaper = {}
    /\ claim = [k \in Claimers |-> NoClaim]
    /\ given = [c \in Children |-> <<>>]
    /\ faulted = [crashes |-> 0, met |-> FALSE, swallowed |-> FALSE]
--------------------------------------------------------------------------------
\* Mutant: the fold lets a late orphaned event override a result.
Folded_LateOrphan(r, event) ==
    IF event = "spawned" THEN [status |-> "running", claimed |-> FALSE]
    ELSE IF r = NoSubrun THEN r
    ELSE IF event = "claimed" THEN [r EXCEPT !.claimed = TRUE]
    ELSE [r EXCEPT !.status = event]

\* What listSubRuns makes of one more event of a run: nothing, if the run is not
\* there, or if it is to be orphaned and has ended.
Folded(r, event) ==
    IF event = "spawned" THEN [status |-> "running", claimed |-> FALSE]
    ELSE IF r = NoSubrun \/ (event = "orphaned" /\ r.status # "running") THEN r
    ELSE IF event = "claimed" THEN [r EXCEPT !.claimed = TRUE]
    ELSE [r EXCEPT !.status = event]

\* appendEvent: behind a line that was cut short the event is part of an
\* unreadable line, which every reader skips.
AppendEvent(c, event) ==
    /\ subrun' = IF cut THEN subrun ELSE [subrun EXCEPT ![c] = Folded(@, event)]
    /\ cut' = FALSE

Swallows == [faulted EXCEPT !.swallowed = @ \/ cut]
--------------------------------------------------------------------------------
\* The cap is checked against the file, before the child is on it.
CheckCap(c) ==
    /\ child[c] = "new"
    /\ Cardinality(RunningSubruns) < MaxConcurrent
    /\ child' = [child EXCEPT ![c] = "checked"]
    /\ UNCHANGED <<subrun, cut, stale, reaper, claim, given, faulted>>

Spawn(c) ==
    /\ child[c] = "checked"
    /\ AppendEvent(c, "spawned")
    /\ child' = [child EXCEPT ![c] = "live"]
    /\ faulted' = Swallows
    /\ UNCHANGED <<stale, reaper, claim, given>>

\* executeRun returns, with an outcome of either kind, or throws.
Finish(c, event) ==
    /\ child[c] = "live"
    /\ AppendEvent(c, event)
    /\ child' = [child EXCEPT ![c] = "done"]
    /\ faulted' = Swallows
    /\ UNCHANGED <<stale, reaper, claim, given>>
--------------------------------------------------------------------------------
\* claimCompleted: the finished runs of a first read, one after the other (in the
\* order of the file, which nothing depends on), each read again before its claim.
ReadFinished(k) ==
    LET todo == {c \in Children : subrun[c].status \in SubrunEnded /\ ~subrun[c].claimed}
    IN  /\ claim[k].phase = "idle" /\ todo # {}
        /\ claim' = [claim EXCEPT ![k] = [NoClaim EXCEPT !.phase = "next", !.todo = todo]]
        /\ faulted' = [faulted EXCEPT !.met = @ \/ \E j \in Claimers : claim[j] # NoClaim]
        /\ UNCHANGED <<subrun, cut, child, stale, reaper, given>>

Reread(k, c) ==
    /\ claim[k].phase = "next" /\ c \in claim[k].todo
    /\ claim' = [claim EXCEPT ![k].todo = @ \ {c},
                ![k].phase = IF subrun[c].claimed THEN "next" ELSE "append",
                ![k].at = IF subrun[c].claimed THEN {} ELSE {<<c, subrun[c].status>>}]
    /\ UNCHANGED <<subrun, cut, child, stale, reaper, given, faulted>>

AppendClaim(k) ==
    /\ claim[k].phase = "append"
    /\ \E found \in claim[k].at :
         /\ AppendEvent(found[1], "claimed")
         /\ claim' = [claim EXCEPT ![k].phase = "next", ![k].at = {}, ![k].got = @ \cup {found}]
    /\ faulted' = Swallows
    /\ UNCHANGED <<child, stale, reaper, given>>

Got(k, c) == {s \in SubrunEnded : <<c, s>> \in claim[k].got}

\* The call returns what it claimed to the parent.
ReturnClaimed(k) ==
    /\ claim[k].phase = "next" /\ claim[k].todo = {}
    /\ claim' = [claim EXCEPT ![k] = NoClaim]
    /\ given' = [c \in Children |->
         given[c] \o (IF Got(k, c) = {} THEN <<>> ELSE <<CHOOSE s \in Got(k, c) : TRUE>>)]
    /\ UNCHANGED <<subrun, cut, child, stale, reaper, faulted>>
--------------------------------------------------------------------------------
\* A child comes of the age at which the reaper takes it for dead.
Ages(c) ==
    /\ subrun[c].status = "running" /\ c \notin stale
    /\ stale' = stale \cup {c}
    /\ UNCHANGED <<subrun, cut, child, reaper, claim, given, faulted>>

\* Mutant: the reaper goes by the children that the parent still counts as active.
FindStale_Counted ==
    /\ reaper = {}
    /\ reaper' = RunningSubruns \cap stale \cap Living
    /\ UNCHANGED <<subrun, cut, child, stale, claim, given, faulted>>

\* reapOrphans, in a process of its own: one read, then an append for each.
FindStale ==
    /\ reaper = {}
    /\ reaper' = RunningSubruns \cap stale
    /\ UNCHANGED <<subrun, cut, child, stale, claim, given, faulted>>

Reap(c) ==
    /\ c \in reaper
    /\ AppendEvent(c, "orphaned")
    /\ reaper' = reaper \ {c}
    /\ faulted' = Swallows
    /\ UNCHANGED <<child, stale, claim, given>>
--------------------------------------------------------------------------------
Fails == faulted.crashes < MaxFailures /\ faulted' = [faulted EXCEPT !.crashes = @ + 1]

\* The parent's process dies with its children and calls, maybe while one of
\* them appends.
ParentCrash ==
    /\ Fails
    /\ child' = [c \in Children |-> IF c \in Living THEN "dead" ELSE child[c]]
    /\ claim' = [k \in Claimers |-> NoClaim]
    /\ \/ UNCHANGED cut
       \/ cut' = TRUE /\ (Living # {} \/ \E k \in Claimers : claim[k].phase = "append")
    /\ UNCHANGED <<subrun, stale, reaper, given>>

ReaperCrash ==
    /\ reaper # {} /\ Fails
    /\ reaper' = {}
    /\ cut' \in {cut, TRUE}
    /\ UNCHANGED <<subrun, child, stale, claim, given>>

ChildProceeds(c) == CheckCap(c) \/ Spawn(c) \/ \E event \in SubrunEnded : Finish(c, event)
ClaimProceeds(k) ==
    ReadFinished(k) \/ (\E c \in Children : Reread(k, c)) \/ AppendClaim(k) \/ ReturnClaimed(k)
ReaperProceeds == FindStale \/ \E c \in Children : Reap(c)

SubagentNext ==
    \/ \E c \in Children : ChildProceeds(c) \/ Ages(c)
    \/ \E k \in Claimers : ClaimProceeds(k)
    \/ ReaperProceeds \/ ParentCrash \/ ReaperCrash

SubagentSpec == SubagentInit /\ [][SubagentNext]_subagentVars

\* Time passes, and "subagents reap" is run again and again.
SubagentFairness ==
    /\ \A c \in Children : WF_subagentVars(Ages(c))
    /\ WF_subagentVars(FindStale /\ reaper' # {})
    /\ \A c \in Children : WF_subagentVars(Reap(c))
--------------------------------------------------------------------------------
SubagentTypeOK ==
    /\ subrun \in [Children -> [status : {"none", "running", "orphaned"} \cup SubrunEnded,
                               claimed : BOOLEAN]]
    /\ cut \in BOOLEAN
    /\ child \in [Children -> {"new", "checked", "live", "done", "dead"}]
    /\ stale \subseteq Children /\ reaper \subseteq Children
    /\ claim \in [Claimers -> [phase : {"idle", "next", "append"}, todo : SUBSET Children,
                               at : SUBSET (Children \X SubrunEnded),
                               got : SUBSET (Children \X SubrunEnded)]]
    /\ given \in [Children -> Seq(SubrunEnded)]
    /\ faulted \in [crashes : Nat, met : BOOLEAN, swallowed : BOOLEAN]

\* A parent is given a result once, and the result it was given stands: only
\* calls that overlap, or a claim that a crash made unreadable, hand it out
\* again, and only a crash loses one that was claimed.
Held(c) == \E k \in Claimers : Got(k, c) # {}
ResultsReachParent ==
    \A c \in Children :
      /\ Len(given[c]) > 1 => faulted.met \/ faulted.swallowed
      /\ \A i \in DOMAIN given[c] : given[c][i] = subrun[c].status
      /\ subrun[c].claimed => given[c] # <<>> \/ Held(c) \/ faulted.crashes > 0

\* subagents.ts:181, "makes overlapping claimCompleted calls ... deliver each
\* result exactly once": ResultsReachParent without the exception.  It fails: see
\* the README.
OverlappingClaimsAgree == faulted.crashes = 0 => \A c \in Children : Len(given[c]) <= 1

\* No crashed child keeps its slot: every run on file ends or is given up, also
\* when the line that says so was lost.
SlotsReturn == \A c \in Children : c \in RunningSubruns ~> c \notin RunningSubruns
================================================================================
