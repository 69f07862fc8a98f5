--------------------------- MODULE RollbackJournal ---------------------------
(***************************************************************************)
(* The durable journal that keeps a destructive rollback from running      *)
(* twice (rollback_commands.py), and the handler that drives it            *)
(* (machine.py, _handle_rollback_session).                                 *)
(*                                                                         *)
(* The page retries a reliable command until it is acknowledged, also to a *)
(* wrapper that has restarted, or that another wrapper process replaced    *)
(* while it still ran.  The journal is a state file, replaced as a whole,  *)
(* and a lock file whose marker says that the state file once existed.     *)
(* A command is claimed (intent -> submitted) before either engine may     *)
(* mutate anything; whoever finds it claimed never mutates again.          *)
(*                                                                         *)
(* One transaction under the file lock is one step.  A save may fail       *)
(* before the file is replaced or, in fsync_directory, after.  What a      *)
(* native call did is one of three outcomes: it happened, it did not, or   *)
(* it happened and the answer was lost.                                    *)
(***************************************************************************)
EXTENDS Integers, FiniteSets

CONSTANTS
    Commands,       \* client_id/cmd_id
    Procs,          \* wrapper processes over one state directory
    Capacity,       \* _MAX_ENTRIES
    RollbackFaults  \* bound: crashes, failed saves and lost answers

ASSUME RollbackAssumption == Capacity \in Nat /\ RollbackFaults \in Nat /\ "free" \notin Procs

Kinds == [engine : {"claude", "codex"}, restore : {"conversation", "files", "both"}]

VARIABLES
    kind,           \* the identity of each command
    marker,         \* the lock file: absent, empty or with its marker
    stateFile,      \* the state file exists
    entries,        \* its content
    flock,          \* who holds the lock file while it initialises the journal
    procs,          \* each process: its handler's program counter and locals
    applied,        \* history: native mutations made for each command
    told,           \* history: results broadcast to the pages
    rollbackFaults, \* history: faults that may still happen
    damaged         \* history: one of the two files was deleted

rollbackVars == <<kind, marker, stateFile, entries, flock, procs, applied, told, rollbackFaults, damaged>>
diskVars == <<marker, stateFile, entries>>

Nothing  == [conv |-> "skipped", files |-> "skipped", partial |-> FALSE]
NoEntry  == [status |-> "none", result |-> Nothing]
Free     == "free"
NoCommand == "no command"
Stopped  == [pc |-> "off", cmd |-> NoCommand, created |-> FALSE, made |-> Nothing]
Listening == [Stopped EXCEPT !.pc = "idle"]

RollbackInit ==
    /\ kind \in [Commands -> Kinds]
    /\ marker = "absent" /\ stateFile = FALSE /\ entries = [c \in Commands |-> NoEntry]
    /\ flock = Free
    /\ procs = [p \in Procs |-> Stopped]
    /\ applied = [c \in Commands |-> [conv |-> 0, files |-> 0]]
    /\ told = {}
    /\ rollbackFaults = RollbackFaults
    /\ damaged = FALSE

Wants(c, what) == kind[c].restore \in {what, "both"}
Combined(c) == kind[c] = [engine |-> "claude", restore |-> "both"]

-----------------------------------------------------------------------------
(***************************************************************************)
(* Construction: RollbackCommandJournal.__init__.                          *)
(***************************************************************************)

\* The lock file is created exclusively, or opened, before it is locked.
Start(p) ==
    /\ procs[p].pc = "off"
    /\ marker' = IF marker = "absent" THEN "empty" ELSE marker
    /\ procs' = [procs EXCEPT ![p] = [Stopped EXCEPT !.pc = "opening", !.created = marker = "absent"]]
    /\ UNCHANGED <<kind, stateFile, entries, flock, applied, told, rollbackFaults, damaged>>

(* An empty marker is initialised by whoever created it, if there is no state *)
(* file, or over the empty state file of an initialisation that was cut off. *)
MayInitialise(created) ==
    IF created THEN ~stateFile ELSE stateFile /\ \A c \in Commands : entries[c] = NoEntry

(* Under the lock: a marked journal is loaded; a fresh one gets its empty   *)
(* state file first and its marker second; anything else means that         *)
(* evidence is missing, and the process goes on without a journal.          *)
Open(p) ==
    /\ procs[p].pc = "opening" /\ flock = Free
    /\ IF marker # "empty"
       THEN /\ procs' = [procs EXCEPT ![p].pc = IF marker = "ready" /\ stateFile THEN "idle" ELSE "blocked"]
            /\ UNCHANGED <<stateFile, entries, flock>>
       ELSE IF MayInitialise(procs[p].created)
       THEN /\ stateFile' = TRUE
            /\ entries' = IF stateFile THEN entries ELSE [c \in Commands |-> NoEntry]
            /\ flock' = p
            /\ procs' = [procs EXCEPT ![p].pc = "marking"]
       ELSE /\ procs' = [procs EXCEPT ![p].pc = "blocked"]
            /\ UNCHANGED <<stateFile, entries, flock>>
    /\ UNCHANGED <<kind, marker, applied, told, rollbackFaults, damaged>>

\* _initialize_lock
Mark(p) ==
    /\ procs[p].pc = "marking"
    /\ marker' = "ready"
    /\ flock' = Free
    /\ procs' = [procs EXCEPT ![p] = Listening]
    /\ UNCHANGED <<kind, stateFile, entries, applied, told, rollbackFaults, damaged>>

-----------------------------------------------------------------------------
(***************************************************************************)
(* Transactions.                                                           *)
(***************************************************************************)
Usable == marker = "ready" /\ stateFile

\* _file_lock recreates a lock file that is gone, then rejects its empty marker.
Rejected == /\ ~Usable
            /\ marker' = IF marker = "absent" THEN "empty" ELSE marker
            /\ UNCHANGED <<stateFile, entries, rollbackFaults>>

Fits(es) == Cardinality({c \in Commands : es[c].status # "none"}) <= Capacity

\* _persist_bounded
Saved(o, c, entry) ==
    LET new == [entries EXCEPT ![c] = entry]
    IN  /\ o.ok => Fits(new)
        /\ entries' = IF o.written /\ Fits(new) THEN new ELSE entries
        /\ rollbackFaults' = IF o.ok \/ ~Fits(new) THEN rollbackFaults ELSE rollbackFaults - 1
        /\ UNCHANGED <<marker, stateFile>>

Full(c) == ~Fits([entries EXCEPT ![c].status = "intent"])

\* The transaction raises RollbackJournalError.
SaveFails(c, entry) ==
    \/ Rejected
    \/ Usable /\ (Full(c) \/ rollbackFaults > 0)
       /\ \E o \in [ok : {FALSE}, written : BOOLEAN] : Saved(o, c, entry)

SaveWorks(c, entry) == Usable /\ Saved([ok |-> TRUE, written |-> TRUE], c, entry)

Read == Usable /\ UNCHANGED <<diskVars, rollbackFaults>>

-----------------------------------------------------------------------------
(***************************************************************************)
(* The handler.                                                            *)
(***************************************************************************)
In(p, pc) == procs[p].pc = pc
Cmd(p) == procs[p].cmd
Step(p, pc) == procs' = [procs EXCEPT ![p].pc = pc]
Rest == UNCHANGED <<kind, flock, damaged>>

\* _publish_rollback_outcome: the result goes to every page.
Publish(p, c, result) ==
    /\ told' = told \cup {[cmd |-> c, result |-> result]}
    /\ procs' = [procs EXCEPT ![p] = Listening]

\* An error before anything was mutated is not a result.
GiveUp(p) == procs' = [procs EXCEPT ![p] = Listening] /\ UNCHANGED told

FailedResult(c) ==
    [conv |-> IF Wants(c, "conversation") THEN "failed" ELSE "skipped",
     files |-> IF Wants(c, "files") THEN "failed" ELSE "skipped", partial |-> FALSE]

\* begin() and the branch on what it returned.
Begin(p, c) ==
    /\ In(p, "idle")
    /\ Rest /\ UNCHANGED applied
    /\ \/ /\ entries[c].status = "none"
          /\ \/ /\ SaveWorks(c, [NoEntry EXCEPT !.status = "intent"])
                /\ procs' = [procs EXCEPT ![p] = [Listening EXCEPT !.pc = "claiming", !.cmd = c]]
                /\ UNCHANGED told
             \/ SaveFails(c, [NoEntry EXCEPT !.status = "intent"]) /\ GiveUp(p)
       \/ /\ entries[c].status # "none" /\ Rejected /\ GiveUp(p)
       \/ /\ entries[c].status = "intent" /\ Read
          /\ procs' = [procs EXCEPT ![p] = [Listening EXCEPT !.pc = "claiming", !.cmd = c]]
          /\ UNCHANGED told
       \/ /\ entries[c].status \in {"submitted", "uncertain"} /\ Read
          /\ procs' = [procs EXCEPT ![p] = [Listening EXCEPT !.pc = "doubting", !.cmd = c]]
          /\ UNCHANGED told
       \/ /\ entries[c].status = "complete" /\ Read
          /\ Publish(p, c, entries[c].result)

\* Where the handler goes once the command is its own.
FirstMutation(c) ==
    IF Wants(c, "files") /\ ~Combined(c) THEN "files"
    ELSE IF kind[c].engine = "claude" THEN "preparing" ELSE "retiring"

Claimable(c) == entries[c].status = "intent"

\* mark_submitted; whoever does not win the claim reports a failure.
Claim(p) ==
    /\ In(p, "claiming")
    /\ Rest /\ UNCHANGED applied
    /\ LET c == Cmd(p) submitted == [entries[c] EXCEPT !.status = "submitted"] IN
       \/ /\ Claimable(c)
          /\ \/ SaveWorks(c, submitted) /\ Step(p, FirstMutation(c)) /\ UNCHANGED told
             \/ SaveFails(c, submitted) /\ GiveUp(p)
       \/ ~Claimable(c) /\ Rejected /\ GiveUp(p)
       \/ entries[c].status \notin {"none", "intent"} /\ Read /\ Publish(p, c, FailedResult(c))

(* A native call: done, refused, or done with its answer lost.  The journal  *)
(* is not touched.                                                           *)
Calls == {"succeeded", "failed"} \cup (IF rollbackFaults > 0 THEN {"lost"} ELSE {})
Outcome(call) == IF call = "lost" THEN "failed" ELSE call

Called(c, what, call) ==
    /\ applied' = IF call = "failed" THEN applied ELSE [applied EXCEPT ![c][what] = @ + 1]
    /\ rollbackFaults' = IF call = "lost" THEN rollbackFaults - 1 ELSE rollbackFaults
    /\ UNCHANGED <<diskVars, told>>

AfterFilesAlways(c, files) ==                                        \* mutant
    IF kind[c] = [engine |-> "codex", restore |-> "both"] THEN "retiring" ELSE "recording"

\* Codex's combined restore goes on to the conversation if the files were restored.
AfterFiles(c, files) ==
    IF kind[c] = [engine |-> "codex", restore |-> "both"] /\ files = "succeeded"
    THEN "retiring" ELSE "recording"

\* restore_files_now
RestoreFiles(p) ==
    /\ In(p, "files")
    /\ Rest
    /\ \E call \in Calls :
        /\ Called(Cmd(p), "files", call)
        /\ procs' = [procs EXCEPT ![p].pc = AfterFiles(Cmd(p), Outcome(call)),
                                  ![p].made.files = Outcome(call)]

\* Claude: prepare_conversation_rewind.  Codex: the checkpoints are retired first.
Prepare(p) ==
    /\ In(p, "preparing") \/ In(p, "retiring")
    /\ Rest /\ UNCHANGED <<diskVars, applied, told, rollbackFaults>>
    /\ \/ Step(p, "conversation")
       \/ procs' = [procs EXCEPT ![p].pc = "recording", ![p].made.conv = "failed"]

\* Claude restores the files of a combined restore after the conversation.
AfterConversation(c, conv) ==
    IF Combined(c) /\ conv = "succeeded" THEN "files" ELSE "recording"

(* rollback_thread, or rewind_conversation.  A Claude target that is stale    *)
(* is reached turn by turn: that may stop after some turns were rewound.      *)
Rewind(p) ==
    /\ In(p, "conversation")
    /\ Rest
    /\ \E call \in Calls :
        /\ Called(Cmd(p), "conv", call)
        /\ \E partial \in {FALSE} \cup {kind[Cmd(p)].engine = "claude" /\ call = "lost"} :
            procs' = [procs EXCEPT ![p].pc = AfterConversation(Cmd(p), Outcome(call)),
                                   ![p].made.conv = Outcome(call), ![p].made.partial = partial]

UnresolvedOrNot(c) == entries[c].status # "none"                     \* mutant

Unresolved(c) == entries[c].status \in {"submitted", "uncertain"}

\* _normalize_result: restored turns need a success.
Valid(result) == result.partial => "succeeded" \in {result.conv, result.files}

(* complete(); what cannot be recorded, because the save fails, because the   *)
(* result is not valid or because another process has recorded another one,  *)
(* is marked uncertain, if that can be saved, and told all the same.         *)
Record(p) ==
    /\ In(p, "recording")
    /\ Rest /\ UNCHANGED applied
    /\ LET c == Cmd(p) made == procs[p].made
           complete == [status |-> "complete", result |-> made]
       IN  \/ /\ Valid(made) /\ Unresolved(c)
              /\ SaveWorks(c, complete) /\ Publish(p, c, made)
           \/ Valid(made) /\ entries[c] = complete /\ Read /\ Publish(p, c, made)
           \/ /\ Valid(made) /\ Unresolved(c)
              /\ SaveFails(c, complete) /\ Step(p, "uncertain") /\ UNCHANGED told
           \/ /\ \/ Rejected
                 \/ Read /\ (~Valid(made) \/ (entries[c].status = "complete" /\ entries[c] # complete))
              /\ Step(p, "uncertain") /\ UNCHANGED told

\* mark_uncertain after the result could not be recorded, then the live result.
Uncertain(p) ==
    /\ In(p, "uncertain")
    /\ Rest /\ UNCHANGED applied
    /\ LET c == Cmd(p) uncertain == [entries[c] EXCEPT !.status = "uncertain"] IN
       \/ entries[c].status = "submitted" /\ (SaveWorks(c, uncertain) \/ SaveFails(c, uncertain))
       \/ entries[c].status # "submitted" /\ (Read \/ Rejected)
    /\ Publish(p, Cmd(p), procs[p].made)

(* A retry that finds the command claimed: mark_uncertain, complete() with a  *)
(* failure, which fails if another process completed it meanwhile, and tell.  *)
Doubt(p) ==
    /\ In(p, "doubting")
    /\ Rest /\ UNCHANGED applied
    /\ LET c == Cmd(p) uncertain == [entries[c] EXCEPT !.status = "uncertain"] IN
       \/ /\ entries[c].status = "submitted" /\ SaveWorks(c, uncertain)
          /\ Step(p, "settling") /\ UNCHANGED told
       \/ entries[c].status # "submitted" /\ Read /\ Step(p, "settling") /\ UNCHANGED told
       \/ /\ \/ entries[c].status = "submitted" /\ SaveFails(c, uncertain)
             \/ entries[c].status # "submitted" /\ Rejected
          /\ Publish(p, c, FailedResult(c))

Settle(p) ==
    /\ In(p, "settling")
    /\ Rest /\ UNCHANGED applied
    /\ LET c == Cmd(p) complete == [status |-> "complete", result |-> FailedResult(c)] IN
       \/ /\ entries[c].status = "uncertain"
          /\ SaveWorks(c, complete) \/ SaveFails(c, complete)
       \/ entries[c].status # "uncertain" /\ (Read \/ Rejected)
    /\ Publish(p, Cmd(p), FailedResult(Cmd(p)))

-----------------------------------------------------------------------------
\* The process dies; the operating system releases its lock.
Crash(p) ==
    /\ rollbackFaults > 0
    /\ procs[p].pc # "off"
    /\ procs' = [procs EXCEPT ![p] = Stopped]
    /\ flock' = IF flock = p THEN Free ELSE flock
    /\ rollbackFaults' = rollbackFaults - 1
    /\ UNCHANGED <<kind, diskVars, applied, told, damaged>>

(* Somebody deletes one of the two files, though not between the opening of   *)
(* the lock file and its initialisation.                                     *)
FileLost ==
    /\ ~damaged
    /\ \A p \in Procs : procs[p].pc \notin {"opening", "marking"}
    /\ damaged' = TRUE
    /\ \/ stateFile /\ stateFile' = FALSE /\ entries' = [c \in Commands |-> NoEntry] /\ UNCHANGED marker
       \/ marker # "absent" /\ marker' = "absent" /\ UNCHANGED <<stateFile, entries>>
    /\ UNCHANGED <<kind, flock, procs, applied, told, rollbackFaults>>

RollbackNext ==
    \/ \E p \in Procs :
        \/ Start(p) \/ Open(p) \/ Mark(p) \/ Crash(p)
        \/ \E c \in Commands : Begin(p, c)
        \/ Claim(p) \/ RestoreFiles(p) \/ Prepare(p) \/ Rewind(p)
        \/ Record(p) \/ Uncertain(p) \/ Doubt(p) \/ Settle(p)
    \/ FileLost

RollbackSpec == RollbackInit /\ [][RollbackNext]_rollbackVars

-----------------------------------------------------------------------------
(***************************************************************************)
(* Properties.                                                             *)
(***************************************************************************)
Results == [conv : {"skipped", "succeeded", "failed"}, files : {"skipped", "succeeded", "failed"},
            partial : BOOLEAN]

(* Types, and the bounded journal: evidence is never evicted to make room.   *)
RollbackTypeOK ==
    /\ kind \in [Commands -> Kinds]
    /\ marker \in {"absent", "empty", "ready"} /\ stateFile \in BOOLEAN
    /\ entries \in [Commands -> [status : {"none", "intent", "submitted", "uncertain", "complete"},
                                 result : Results]]
    /\ Cardinality({c \in Commands : entries[c].status # "none"}) <= Capacity
    /\ \A c \in Commands : entries[c].status # "complete" => entries[c].result = Nothing
    /\ flock \in Procs \cup {Free}
    /\ applied \in [Commands -> [conv : Nat, files : Nat]]
    /\ told \subseteq [cmd : Commands, result : Results]

(* A command mutates the conversation and the files at most once each, over   *)
(* retries, crashes, lost answers, failed saves, two wrapper processes and    *)
(* the deletion of either file (rollback_commands.py:3-7).                    *)
MutatedOnce == \A c \in Commands : applied[c].conv <= 1 /\ applied[c].files <= 1

(* Whatever is reported as restored, live or from the journal, was restored.  *)
SuccessIsTrue ==
    LET Honest(c, result) == /\ result.conv = "succeeded" => applied[c].conv > 0
                             /\ result.files = "succeeded" => applied[c].files > 0
    IN  /\ \A t \in told : Honest(t.cmd, t.result)
        /\ \A c \in Commands : Honest(c, entries[c].result)

(* A combined restore never leaves the half that must come second without    *)
(* the first: Codex never shortens a conversation whose files stayed, Claude  *)
(* never restores files under a conversation that stayed (machine.py:10185).  *)
RestoreOrder ==
    \A c \in Commands : kind[c].restore = "both" =>
        IF kind[c].engine = "codex" THEN applied[c].conv > 0 => applied[c].files > 0
        ELSE applied[c].files > 0 => applied[c].conv > 0

Rank == [none |-> 0, intent |-> 1, submitted |-> 2, uncertain |-> 3, complete |-> 4]

(* An entry only moves forward, and a recorded result is the result for good, *)
(* also when the process that lost the claim, or doubted it, records another. *)
ResultIsFinal ==
    [][\A c \in Commands : damaged' = damaged =>
        /\ Rank[entries[c].status] <= Rank[entries'[c].status]
        /\ entries[c].status = "complete" => entries'[c] = entries[c]]_rollbackVars

\* A rollback always: at most one mutation, success only of what happened, files
\* restored in order with the history.
RollbackSafe ==
    /\ RollbackTypeOK
    /\ MutatedOnce
    /\ SuccessIsTrue
    /\ RestoreOrder
=============================================================================
