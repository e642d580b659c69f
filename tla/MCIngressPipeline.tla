---------------------------- MODULE MCIngressPipeline ----------------------------
(* Model-checking instances of IngressPipeline: workers are interchangeable.    *)
EXTENDS IngressPipeline, TLC

Symmetry == Permutations(Workers)

NoFault == {[crashes |-> 0, torn |-> 0, stalls |-> 0]}
OneCrash == {[crashes |-> 1, torn |-> 0, stalls |-> 0]}
================================================================================
