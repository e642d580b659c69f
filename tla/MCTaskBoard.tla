------------------------------ MODULE MCTaskBoard ------------------------------
(* The reducer of the task board under any sequence of events, and the stores  *)
(* of the chat processes that write its log.  A behaviour moves one of them.   *)
EXTENDS BoardStores, TLC

CONSTANTS
    first, second, gpt, coder,  \* two tasks, a card, an agent
    BeyondRace                  \* whether behaviours go on when a takeover went wrong
VARIABLE part                           \* what moves: "reducer" or "stores"

AfterFirst == first :> {} @@ second :> {first}
AnyCard == [t \in Tasks |-> Cards]

\* A new log, or one of an earlier session that left a task assigned.
Fresh == Opened([c \in Cards |-> 1])
Handed ==
    [Fresh EXCEPT !.task[first] = [Absent EXCEPT !.status = "assigned", !.bound = TRUE,
                                                 !.on = [card |-> gpt, agent |-> coder]],
                  !.cards[gpt] = "active", !.cardLoad[gpt] = 1, !.agentLoad[coder] = 1]
Sessions == {Fresh, Handed}

vars == <<board, storeVars, part>>

Init ==
    /\ BoardInit /\ StoresInit
    /\ \/ part = "reducer" /\ file.board = Fresh
       \/ part = "stores"

\* The reducer's part knows one process, and retries the first task only.
Explored ==
    /\ \A t \in Tasks, n \in Attempts :
         board.task[t].process[n] \in {NoOne, CHOOSE p \in Processes : TRUE}
    /\ board.task[second].attempts <= 1
    /\ \A n \in Attempts : board.task[second].history[n] # "none" => n = 1

Next ==
    \/ part = "reducer" /\ BoardNext /\ Explored' /\ UNCHANGED <<storeVars, part>>
    \/ part = "stores" /\ (used.raced => BeyondRace) /\ StoresNext /\ UNCHANGED <<board, part>>

Spec == Init /\ [][Next]_vars
FairSpec == Spec /\ StoresFairness
================================================================================
