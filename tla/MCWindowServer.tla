---------------------------- MODULE MCWindowServer ----------------------------
(* Three list nodes, two places a window server can be allocated.             *)
EXTENDS WindowServer
CONSTANTS n1, n2, n3, s1, s2
MCNode == {n1, n2, n3}
MCServer == {s1, s2}
===============================================================================
