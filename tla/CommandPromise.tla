-------------------------- MODULE CommandPromise ---------------------------
(***************************************************************************)
(* What the reliable-command channel promises a page, with no page, relay  *)
(* or wrapper in sight: a command is completed at most once in one         *)
(* lifetime of the wrapper (a read may be repeated), it is completed only  *)
(* if it was issued, and it is acknowledged only once it was completed.    *)
(* A crash forgets what was completed: nothing is promised across          *)
(* lifetimes (README.md:422).                                              *)
(***************************************************************************)
CONSTANTS Cmds, Reads

VARIABLES
    issued,     \* commands the page has accepted
    done,       \* commands completed in this lifetime of the wrapper
    ever,       \* commands completed in some lifetime
    acked       \* commands the page knows to be completed

promiseVars == <<issued, done, ever, acked>>

Init == issued = {} /\ done = {} /\ ever = {} /\ acked = {}

Issue(c) ==
    /\ c \in Cmds \ issued
    /\ issued' = issued \cup {c}
    /\ UNCHANGED <<done, ever, acked>>

Complete(c) ==
    /\ c \in issued
    /\ c \in done => c \in Reads
    /\ done' = done \cup {c}
    /\ ever' = ever \cup {c}
    /\ UNCHANGED <<issued, acked>>

Acknowledge(c) ==
    /\ c \in ever \ acked
    /\ acked' = acked \cup {c}
    /\ UNCHANGED <<issued, done, ever>>

Crash ==
    /\ done' = {}
    /\ UNCHANGED <<issued, ever, acked>>

Next == Crash \/ \E c \in Cmds : Issue(c) \/ Complete(c) \/ Acknowledge(c)

Spec == Init /\ [][Next]_promiseVars
=============================================================================
