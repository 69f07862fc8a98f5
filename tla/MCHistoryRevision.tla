-------------------------- MODULE MCHistoryRevision --------------------------
(* History pages alone, with one rollback and no fault. *)
EXTENDS HistoryPages

OneRollback == {[turns |-> 3, rollbacks |-> 1, builds |-> 3, faults |-> 0]}
=============================================================================
