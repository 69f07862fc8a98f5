------------------------------ MODULE MCRelay ------------------------------
(***************************************************************************)
(* The relay for TLC.  Its three parts share no variable: of a session or  *)
(* a machine that RelayAccess ends or revokes, the hub sees only that it   *)
(* has happened, which it allows at any time.  A behaviour therefore       *)
(* exercises one part and leaves the others in their initial state.        *)
(***************************************************************************)
EXTENDS RelayHub, RelayAccess, LoginLimiter, TLC

CONSTANTS p1, p2, w1, w2, a, b, s1, s2, s3, u1, u2, g1, c1, d1, d2, e1, i1, i2, i3

VARIABLE part

AccessBound(rs, ns, restarts) == [requests |-> rs, notices |-> ns, restarts |-> restarts]

AccessCases == {AccessBound(2, 0, 1), AccessBound(1, 1, 1), AccessBound(2, 1, 0)}

MCInit == /\ part \in {"hub", "access", "limiter"}
          /\ HubInit /\ AccessInit /\ LimiterInit
          /\ part # "access" => spare = CHOOSE x \in AccessCases : TRUE

MCNext == \/ part = "hub" /\ HubNext /\ UNCHANGED <<part, accessVars, limiterVars>>
          \/ part = "access" /\ AccessNext /\ UNCHANGED <<part, hubVars, limiterVars>>
          \/ part = "limiter" /\ LimiterNext /\ UNCHANGED <<part, hubVars, accessVars>>

MCSpec == MCInit /\ [][MCNext]_<<part, hubVars, accessVars, limiterVars>>

Symmetry == Permutations(Pages) \cup Permutations(Wrappers) \cup Permutations(Clients)
            \cup Permutations(Sessions) \cup Permutations(Subjects)
=============================================================================
