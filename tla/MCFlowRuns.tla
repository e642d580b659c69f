------------------------------- MODULE MCFlowRuns -------------------------------
(* Model-checking instance of FlowRuns: a flow with a tool, a gate that shows *)
(* its output, an agent that waits for the grant, a second gate and a foreach *)
(* (the shape of the weekly digest in docs/FLOW_ENGINE_SPEC.md), and a short  *)
(* one for the races between two resumes.                                     *)
EXTENDS FlowRuns, TLC

S(kind, when, needs, expires) ==
    [kind |-> kind, when |-> when, needs |-> needs, expires |-> expires]

LongFlow ==
    << S("tool", 0, {}, FALSE), S("gate", 0, {1}, TRUE), S("agent", 2, {1}, FALSE),
       S("gate", 1, {1}, FALSE), S("agent", 4, {3}, FALSE), S("foreach", 4, {1}, FALSE) >>

ReplayedFlow ==
    << S("tool", 0, {}, FALSE), S("gate", 0, {1}, TRUE), S("agent", 0, {1}, FALSE) >>

ShortFlow ==
    << S("tool", 0, {}, FALSE), S("gate", 0, {1}, TRUE), S("tool", 2, {1}, FALSE) >>

Symmetry == Permutations(Resumers)
================================================================================
