------------------------------ MODULE MCReplay ------------------------------
(* SessionReplay with two faults of any kinds in a behaviour but the pairs    *)
(* that only repeat one another.                                              *)
EXTENDS SessionReplay

TwoFaults == {[restarts |-> 0, evictions |-> 1, drops |-> 1, conns |-> 1],
              [restarts |-> 1, evictions |-> 0, drops |-> 0, conns |-> 2]}
OneDrop     == {[restarts |-> 0, evictions |-> 0, drops |-> 1, conns |-> 1]}
OneEviction == {[restarts |-> 0, evictions |-> 1, drops |-> 0, conns |-> 1]}
=============================================================================
