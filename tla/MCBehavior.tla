------------------------------ MODULE MCBehavior ------------------------------
(* Two declared behaviors, one of them single-execution as the deferred      *)
(* procedure queue is, two that can be nested, two verb tokens.              *)
EXTENDS Behavior
CONSTANTS v1, v2, r1, r2, q1, q2
MCVerb == {v1, v2}
MCQueue == {r1, r2, q1, q2}
MCRoots == {r1, r2}
MCSingleRoots == {r2}
===============================================================================
