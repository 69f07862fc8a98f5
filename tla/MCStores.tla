------------------------------ MODULE MCStores ------------------------------
(* What the wrapper keeps for itself: the replay ring of a session, the      *)
(* rollback journal, the file checkpoints, the fork journals, the index of   *)
(* history pages, the pool of sessions and the translator of a Codex turn.   *)
(* They share no state here, so a behaviour of this run is one of a single   *)
(* store, the one named by store.                                            *)
EXTENDS MCSessionRing, RollbackJournal, CodexCheckpoints, ForkJournal, HistoryPages,
        SessionPool, CodexStream, TLC

CONSTANTS c1, c2, pa, pb, f, g, r1, r2, m1, m2, x1, z1

VARIABLE store

PoolBound(cs, ls, rs, fs, ks) ==
    [commands |-> cs, lists |-> ls, runs |-> rs, faults |-> fs, crashes |-> ks]

PoolCases == {PoolBound(3, 1, 0, 1, 0), PoolBound(1, 1, 1, 1, 0), PoolBound(2, 0, 1, 0, 0),
              PoolBound(2, 0, 0, 1, 1)}

HistoryBound(ts, rs, bs, fs) == [turns |-> ts, rollbacks |-> rs, builds |-> bs, faults |-> fs]

HistoryCases == {HistoryBound(2, 1, 1, 1), HistoryBound(2, 1, 3, 0), HistoryBound(1, 1, 3, 1),
                 HistoryBound(2, 0, 3, 1), HistoryBound(1, 0, 3, 3)}

\* The first rollback is of any kind.
SecondKinds == {[engine |-> "claude", restore |-> "both"],
                [engine |-> "codex", restore |-> "files"]}

StoresInit ==
    /\ store \in {"ring", "rollback", "checkpoints", "forks", "history", "pool", "stream"}
    /\ Init /\ RollbackInit /\ CheckpointInit /\ ForkInit /\ HistInit
    /\ PoolInit /\ StreamInit
    /\ kind[c2] \in IF store = "rollback" THEN SecondKinds ELSE {CHOOSE k \in Kinds : TRUE}
    /\ store # "rollback" => kind[c1] = kind[c2]
    /\ store # "forks" => forkEngine = "codex"
    /\ store # "history" => histBound = CHOOSE b \in HistoryCases : TRUE
    /\ store # "pool" => poolLeft = CHOOSE b \in PoolCases : TRUE

\* Of the stores but the one named nothing changes.
Others(name) ==
    /\ UNCHANGED store /\ store = name
    /\ name # "ring" => UNCHANGED vars
    /\ name # "rollback" => UNCHANGED rollbackVars
    /\ name # "checkpoints" => UNCHANGED checkpointVars
    /\ name # "forks" => UNCHANGED forkVars
    /\ name # "history" => UNCHANGED histVars
    /\ name # "pool" => UNCHANGED poolVars
    /\ name # "stream" => UNCHANGED streamVars

StoresNext ==
    \/ Others("ring") /\ BoundedNext
    \/ Others("rollback") /\ RollbackNext
    \/ Others("checkpoints") /\ CheckpointNext
    \/ Others("forks") /\ ForkNext
    \/ Others("history") /\ HistNext
    \/ Others("pool") /\ PoolNext
    \/ Others("stream") /\ StreamNext

StoresSpec ==
    StoresInit
    /\ [][StoresNext]_<<store, vars, rollbackVars, checkpointVars, forkVars, histVars,
                        poolVars, streamVars>>
=============================================================================
