-------------------------------- MODULE MCMissions --------------------------------
(* Model-checking instance of FrappeMissions: the graphs, and a bound on how  *)
(* much happens to a mission from outside.                                    *)
EXTENDS FrappeMissions, FiniteSets

N(kind, children, key, iterations) ==
    [kind |-> kind, children |-> children, key |-> key, iterations |-> iterations]

\* A node that may select its branches, a governed effect and a bounded loop.
FanOut == << N("task", {2, 3}, NoKey, 1), N("effect", {}, "effect", 1), N("loop", {}, NoKey, 2) >>

\* The smallest mission that applies an effect.
OneEffect == << N("effect", {}, "effect", 1) >>

Disturbances == stops + controls + Cardinality(lapsed) + (IF late THEN 1 ELSE 0)

\* One gateway is disturbed three times.
AtMostOneWorks == Cardinality({p \in Gateways : run[p].pc # "none"}) <= 1
Alone == Disturbances <= 3 /\ AtMostOneWorks

\* Two race, disturbed once: the effect is always selected, and their loops are
\* verified at once.  When one stops, the other goes on alone.
Race ==
    /\ Disturbances <= 1 /\ (stops > 0 => AtMostOneWorks)
    /\ \A p \in Gateways : /\ run[p].answer \in {"none", "verified"}
                           /\ 2 \in run[p].chosen[1]
                           /\ exec[p].phase \notin {"reported", "spoiled"}
====================================================================================
