---------------------------- MODULE JournalProofs ----------------------------
(***************************************************************************)
(* The command journals: the two on disk, and the one of a page with the   *)
(* wrapper's memory of its commands.  Proved for every number of requests, *)
(* wrapper processes, connections, faults and every capacity.              *)
(*                                                                         *)
(* Rollbacks: a command mutates at most once, what is told is true, and a  *)
(* recorded result is final.  What makes it inductive is the evidence: as  *)
(* long as anything was mutated for a command, or a process is about to,   *)
(* either the journal holds it as claimed, in a state file that nobody     *)
(* initialises over, or the state file is gone under a marker that no      *)
(* process gets past.                                                      *)
(*                                                                         *)
(* Forks: a marker forks once, open forks of a turn are shared, and what   *)
(* the page is told is recorded.  What makes it inductive: the memory and  *)
(* the file are both journals that _load accepts, the file at most one     *)
(* failed save ahead; the submission of a marker has one owner; and a      *)
(* handler works with a child only of the group that its request is in.    *)
(*                                                                         *)
(* Commands: what is no read is completed again only after the wrapper     *)
(* forgot it, and a page with no more commands than the wrapper remembers  *)
(* is kept every promise.  What makes it inductive: as long as all that    *)
(* was completed fits, the memory has all of it, and what is completed has *)
(* no task but a read's.                                                   *)
(***************************************************************************)
EXTENDS RollbackJournal, ForkJournal, CommandDelivery, FiniteSetTheorems,
        SequenceTheorems, TLAPS

(***************************************************************************)
(* The rollback journal.                                                   *)
(***************************************************************************)
Statuses == {"none", "intent", "submitted", "uncertain", "complete"}
Entry == [status : Statuses, result : Results]
Counters == [conv : Nat, files : Nat]

\* Where a process is while it handles a command, and while it owns its claim.
Owning   == {"files", "preparing", "retiring", "conversation", "recording", "uncertain"}
Handling == Owning \cup {"claiming", "doubting", "settling"}
Places   == Handling \cup {"off", "opening", "marking", "blocked", "idle"}

Owns(p) == procs[p].pc \in Owning

\* The records of the processes.
ProcState == [pc : Places, cmd : Commands \cup {NoCommand}, created : BOOLEAN, made : Results]

ProcsTyped ==
    /\ procs \in [Procs -> ProcState]
    /\ \A p \in Procs : procs[p].pc \in Handling => procs[p].cmd \in Commands

\* Who initialises the journal holds the lock, and nobody loads it meanwhile.
MarkingAlone == \A p \in Procs : procs[p].pc = "marking" => flock = p /\ marker = "empty" /\ stateFile

\* Without a state file there are no entries.
NoFileNoEntry == ~stateFile => \A c \in Commands : entries[c] = NoEntry

\* The state file was deleted under its marker: nobody ever loads or initialises.
EvidenceGone == damaged /\ marker = "ready" /\ ~stateFile

RollbackClaimed == {"submitted", "uncertain", "complete"}

EvidenceOf(c) ==
    \/ EvidenceGone
    \/ stateFile /\ entries[c].status \in RollbackClaimed /\ (marker = "ready" \/ damaged)

EvidenceKept ==
    /\ \A c \in Commands : applied[c].conv # 0 \/ applied[c].files # 0 => EvidenceOf(c)
    /\ \A p \in Procs : Owns(p) => EvidenceOf(procs[p].cmd)

OneOwner == \A p, q \in Procs : Owns(p) /\ Owns(q) /\ procs[p].cmd = procs[q].cmd => p = q

\* What has happened before each of the two native calls.
Stage(p) ==
    LET c == procs[p].cmd IN
    /\ procs[p].pc = "files" =>
          /\ applied[c].files = 0
          /\ IF Combined(c) THEN applied[c].conv = 1 ELSE applied[c].conv = 0
    /\ procs[p].pc \in {"preparing", "retiring", "conversation"} =>
          /\ applied[c].conv = 0
          /\ IF kind[c] = [engine |-> "codex", restore |-> "both"]
             THEN applied[c].files = 1 ELSE applied[c].files = 0

StagesKept == \A p \in Procs : Stage(p)

\* A result that claims no more than what was done.
TrueOf(c, result) ==
    /\ result.conv = "succeeded" => applied[c].conv # 0
    /\ result.files = "succeeded" => applied[c].files # 0

MadeIsTrue ==
    \A p \in Procs : /\ Owns(p) => TrueOf(procs[p].cmd, procs[p].made)
                     /\ procs[p].pc = "claiming" => procs[p].made = Nothing

TellsTrue ==
    /\ \A t \in told : TrueOf(t.cmd, t.result)
    /\ \A c \in Commands : TrueOf(c, entries[c].result)

RollbackInv ==
    /\ RollbackTypeOK /\ ProcsTyped /\ MarkingAlone /\ NoFileNoEntry
    /\ EvidenceKept /\ OneOwner /\ StagesKept /\ MadeIsTrue /\ TellsTrue
    /\ MutatedOnce /\ RestoreOrder
-----------------------------------------------------------------------------
(* The journal is empty and no process runs at first. *)
LEMMA RollbackStarts == RollbackInit => RollbackInv
<1> SUFFICES ASSUME RollbackInit PROVE RollbackInv
  OBVIOUS
<1>1. {c \in Commands : entries[c].status # "none"} = {}
  BY DEF RollbackInit, NoEntry
<1>2. RollbackTypeOK
  <2>1. Cardinality({c \in Commands : entries[c].status # "none"}) <= Capacity
    BY <1>1, FS_EmptySet, RollbackAssumption
  <2> QED
    BY <2>1 DEF RollbackInit, RollbackTypeOK, NoEntry, Nothing, Results
<1>3. ProcsTyped /\ MarkingAlone /\ OneOwner /\ StagesKept /\ MadeIsTrue
  BY DEF RollbackInit, Stopped, Nothing, ProcsTyped, ProcState, Results, Places, Handling, Owning,
     MarkingAlone, OneOwner, Owns, StagesKept, Stage, MadeIsTrue
<1>4. NoFileNoEntry /\ EvidenceKept
  BY DEF RollbackInit, NoFileNoEntry, EvidenceKept, Owns, Owning, Stopped
<1>5. TellsTrue /\ MutatedOnce /\ RestoreOrder
  BY DEF RollbackInit, TellsTrue, TrueOf, NoEntry, Nothing, MutatedOnce, RestoreOrder
<1> QED
  BY <1>2, <1>3, <1>4, <1>5 DEF RollbackInv
-----------------------------------------------------------------------------
\* What a transaction about c may do to the files: write e, or nothing.
Transacts(c, e) ==
    /\ UNCHANGED stateFile
    /\ marker' = marker \/ (marker = "absent" /\ marker' = "empty")
    /\ \/ entries' = entries
       \/ Usable /\ Fits(entries') /\ entries' = [entries EXCEPT ![c] = e]

\* The entry that a transaction may write.
Ahead(c, e) ==
    /\ e \in Entry
    /\ e.status # "complete" => e.result = Nothing
    /\ entries[c].status = "intent" => e.status # "none"
    /\ entries[c].status = "submitted" => e.status \in RollbackClaimed
    /\ entries[c].status = "uncertain" => e.status \in {"uncertain", "complete"}
    /\ entries[c].status = "complete" => e = entries[c]
    /\ TrueOf(c, e.result)

(* A save that works replaces one entry; one that fails may have done so, or    *)
(* have recreated the lock file (rollback_commands.py, _file_lock, _persist).   *)
LEMMA SavesTransact ==
    ASSUME NEW c \in Commands, NEW e
    PROVE  /\ SaveWorks(c, e) => Transacts(c, e) /\ entries' = [entries EXCEPT ![c] = e] /\ Usable
           /\ SaveFails(c, e) => Transacts(c, e)
           /\ Read \/ Rejected => Transacts(c, e)
<1>1. SaveWorks(c, e) => Transacts(c, e) /\ entries' = [entries EXCEPT ![c] = e] /\ Usable
  BY DEF SaveWorks, Saved, Transacts
<1>2. Read \/ Rejected => Transacts(c, e)
  BY DEF Read, Rejected, Transacts, diskVars
<1>3. ASSUME NEW o \in [ok : {FALSE}, written : BOOLEAN], Usable, Saved(o, c, e)
      PROVE  Transacts(c, e)
  BY <1>3 DEF Saved, Transacts
<1> QED
  BY <1>1, <1>2, <1>3 DEF SaveFails

\* What the journal alone promises.
DiskOK ==
    /\ marker \in {"absent", "empty", "ready"} /\ stateFile \in BOOLEAN
    /\ entries \in [Commands -> Entry]
    /\ Cardinality({c \in Commands : entries[c].status # "none"}) <= Capacity
    /\ \A c \in Commands : entries[c].status # "complete" => entries[c].result = Nothing
    /\ NoFileNoEntry

\* What ResultIsFinal says of a step.
MovesForward ==
    \A c \in Commands :
        /\ Rank[entries[c].status] <= Rank[entries'[c].status]
        /\ entries[c].status = "complete" => entries'[c] = entries[c]

(* The order of the statuses of an entry. *)
LEMMA RankGrows ==
    ASSUME NEW c \in Commands, NEW e, entries[c] \in Entry, Ahead(c, e)
    PROVE  Rank[entries[c].status] <= Rank[e.status] /\ Rank[entries[c].status] \in Nat
<1>1. entries[c].status \in Statuses /\ e.status \in Statuses
  BY DEF Ahead, Entry
<1>2. Rank["none"] = 0 /\ Rank["intent"] = 1 /\ Rank["submitted"] = 2 /\ Rank["uncertain"] = 3
      /\ Rank["complete"] = 4
  BY DEF Rank
<1>3. CASE entries[c].status = "complete"
  BY <1>2, <1>3 DEF Ahead
<1>4. CASE entries[c].status # "complete"
  BY <1>1, <1>2, <1>4 DEF Ahead, RollbackClaimed, Statuses
<1> QED
  BY <1>3, <1>4

(* A transaction leaves a journal within its bounds, moves entries forward only *)
(* and loses no evidence.                                                       *)
LEMMA TransactionKeepsDisk ==
    ASSUME DiskOK, NEW c \in Commands, NEW e, Transacts(c, e), Ahead(c, e), UNCHANGED damaged
    PROVE  /\ DiskOK' /\ MovesForward
           /\ \A d \in Commands : EvidenceOf(d) => EvidenceOf(d)'
           /\ \A d \in Commands : entries'[d] = entries[d] \/ (d = c /\ entries'[d] = e)
<1>1. \A d \in Commands : entries'[d] = entries[d] \/ (d = c /\ entries'[d] = e /\ Usable)
  BY DEF Transacts, DiskOK
<1>2. entries' \in [Commands -> Entry] /\ entries \in [Commands -> Entry]
  BY DEF Transacts, DiskOK, Ahead
<1>3. \A d \in Commands : entries'[d].status # "complete" => entries'[d].result = Nothing
  BY <1>1 DEF DiskOK, Ahead
<1>4. Cardinality({d \in Commands : entries'[d].status # "none"}) <= Capacity
  BY DEF Transacts, DiskOK, Fits
<1>5. NoFileNoEntry'
  BY DEF Transacts, DiskOK, NoFileNoEntry, Usable
<1>6. DiskOK'
  BY <1>2, <1>3, <1>4, <1>5 DEF DiskOK, Transacts
<1>7. MovesForward
  <2> SUFFICES ASSUME NEW d \in Commands
               PROVE  /\ Rank[entries[d].status] <= Rank[entries'[d].status]
                      /\ entries[d].status = "complete" => entries'[d] = entries[d]
    BY DEF MovesForward
  <2>1. CASE entries'[d] = entries[d]
    <3>1. Rank[entries[d].status] \in Nat
      <4>1. entries[d].status \in Statuses
        BY <1>2 DEF Entry
      <4> QED
        BY <4>1 DEF Rank, Statuses
    <3> QED
      BY <2>1, <3>1
  <2>2. CASE d = c /\ entries'[d] = e
    BY <2>2, <1>2, RankGrows DEF Ahead
  <2> QED
    BY <1>1, <2>1, <2>2
<1>8. \A d \in Commands : EvidenceOf(d) => EvidenceOf(d)'
  <2> SUFFICES ASSUME NEW d \in Commands, EvidenceOf(d) PROVE EvidenceOf(d)'
    OBVIOUS
  <2>1. CASE EvidenceGone
    BY <2>1 DEF EvidenceGone, EvidenceOf, Transacts
  <2>2. CASE ~EvidenceGone
    <3>1. stateFile /\ entries[d].status \in RollbackClaimed /\ (marker = "ready" \/ damaged)
      BY <2>2 DEF EvidenceOf
    <3>2. entries'[d].status \in RollbackClaimed
      BY <3>1, <1>1 DEF Ahead, RollbackClaimed
    <3> QED
      BY <3>1, <3>2 DEF EvidenceOf, Transacts
  <2> QED
    BY <2>1, <2>2
<1> QED
  BY <1>1, <1>6, <1>7, <1>8
-----------------------------------------------------------------------------
(* The invariant by parts: those that the files alone decide, and the rest. *)
LEMMA InvParts ==
    RollbackInv <=>
        /\ DiskOK
        /\ kind \in [Commands -> Kinds] /\ flock \in Procs \cup {Free}
        /\ applied \in [Commands -> Counters] /\ told \subseteq [cmd : Commands, result : Results]
        /\ ProcsTyped /\ MarkingAlone /\ EvidenceKept /\ OneOwner /\ StagesKept /\ MadeIsTrue
        /\ TellsTrue /\ MutatedOnce /\ RestoreOrder
  BY DEF RollbackInv, RollbackTypeOK, DiskOK, Entry, Statuses, Counters

\* A process that comes out of a transaction: it owns what it owned, or nothing.
ComesOut(p, s) ==
    /\ s \in ProcState
    /\ procs' = [procs EXCEPT ![p] = s]
    /\ s.pc # "marking"
    /\ s.pc \in Handling => s.cmd \in Commands
    /\ s.pc = "claiming" => s.made = Nothing
    /\ s.pc \in Owning => /\ Owns(p) /\ s.pc = "uncertain"
                          /\ s.cmd = procs[p].cmd /\ s.made = procs[p].made

\* What it tells of c, if anything, is true.
Tells(c) ==
    \/ told' = told
    \/ \E r \in Results : TrueOf(c, r) /\ told' = told \cup {[cmd |-> c, result |-> r]}

(* A transaction of a handler that does not claim keeps the invariant. *)
LEMMA TransactionKeeps ==
    ASSUME RollbackInv, NEW p \in Procs, NEW c \in Commands, NEW e, NEW s,
           Transacts(c, e), Ahead(c, e), ComesOut(p, s), Tells(c),
           UNCHANGED <<kind, flock, damaged, applied>>
    PROVE  RollbackInv' /\ MovesForward
<1>1. DiskOK' /\ MovesForward
      /\ (\A d \in Commands : EvidenceOf(d) => EvidenceOf(d)')
      /\ (\A d \in Commands : entries'[d] = entries[d] \/ (d = c /\ entries'[d] = e))
  BY InvParts, TransactionKeepsDisk
<1>2. /\ procs \in [Procs -> ProcState] /\ procs' \in [Procs -> ProcState]
      /\ \A q \in Procs : procs'[q] = IF q = p THEN s ELSE procs[q]
  BY DEF RollbackInv, ProcsTyped, ComesOut
<1>3. ProcsTyped'
  BY <1>2 DEF RollbackInv, ProcsTyped, ComesOut
<1>4. MarkingAlone'
  <2> SUFFICES ASSUME NEW q \in Procs, procs'[q].pc = "marking"
               PROVE  flock' = q /\ marker' = "empty" /\ stateFile'
    BY DEF MarkingAlone
  <2>1. procs[q].pc = "marking"
    BY <1>2 DEF ComesOut
  <2> QED
    BY <2>1 DEF RollbackInv, MarkingAlone, Transacts
<1>5. \A q \in Procs : Owns(q)' => Owns(q) /\ procs'[q].cmd = procs[q].cmd
                                   /\ procs'[q].made = procs[q].made /\ procs[q].cmd \in Commands
  BY <1>2 DEF Owns, ComesOut, RollbackInv, ProcsTyped, Handling
<1>6. EvidenceKept'
  BY <1>1, <1>5 DEF RollbackInv, EvidenceKept
<1>7. OneOwner'
  BY <1>5 DEF RollbackInv, OneOwner
<1>8. StagesKept'
  <2> SUFFICES ASSUME NEW q \in Procs PROVE Stage(q)'
    BY DEF StagesKept
  <2>1. Stage(q)
    BY DEF RollbackInv, StagesKept
  <2>2. CASE q # p
    BY <2>1, <2>2, <1>2 DEF Stage, Combined
  <2>3. CASE q = p
    <3>1. s.pc \notin {"files", "preparing", "retiring", "conversation"}
      BY DEF ComesOut, Owning
    <3> QED
      BY <2>3, <3>1, <1>2 DEF Stage
  <2> QED
    BY <2>2, <2>3
<1>9. MadeIsTrue'
  BY <1>2, <1>5 DEF RollbackInv, MadeIsTrue, TrueOf, ComesOut
<1>10. TellsTrue' /\ told' \subseteq [cmd : Commands, result : Results]
  <2>1. \A d \in Commands : TrueOf(d, entries'[d].result)
    BY <1>1 DEF RollbackInv, TellsTrue, Ahead
  <2>2. \A t \in told' : TrueOf(t.cmd, t.result) /\ t \in [cmd : Commands, result : Results]
    BY DEF RollbackInv, TellsTrue, RollbackTypeOK, Tells
  <2> QED
    BY <2>1, <2>2 DEF TellsTrue, TrueOf
<1>11. MutatedOnce' /\ RestoreOrder'
  BY DEF RollbackInv, MutatedOnce, RestoreOrder
<1>12. /\ kind' \in [Commands -> Kinds] /\ flock' \in Procs \cup {Free}
       /\ applied' \in [Commands -> Counters]
  BY InvParts
<1>13. RollbackInv'
  BY <1>1, <1>3, <1>4, <1>6, <1>7, <1>8, <1>9, <1>10, <1>11, <1>12
     DEF RollbackInv, RollbackTypeOK, DiskOK, Entry, Statuses, Counters
<1> QED
  BY <1>1, <1>13

(* The claim: what is still an intent was never claimed, so that its owner is  *)
(* alone with it and nothing of it was done (rollback_commands.py, mark_submitted). *)
LEMMA ClaimKeeps ==
    ASSUME RollbackInv, NEW p \in Procs, NEW c \in Commands, procs[p].pc = "claiming", procs[p].cmd = c,
           entries[c].status = "intent", SaveWorks(c, [entries[c] EXCEPT !.status = "submitted"]),
           procs' = [procs EXCEPT ![p].pc = FirstMutation(c)],
           UNCHANGED <<kind, flock, damaged, applied, told>>
    PROVE  RollbackInv' /\ MovesForward
<1> DEFINE e == [entries[c] EXCEPT !.status = "submitted"]
<1>1. entries[c] \in Entry /\ entries[c].result = Nothing
  BY InvParts DEF DiskOK
<1>2. e \in Entry /\ e.status = "submitted" /\ e.result = Nothing
  BY <1>1 DEF Entry, Statuses
<1>3. Ahead(c, e)
  <2> HIDE DEF e
  <2> QED
    BY <1>2, TRUE DEF Ahead, RollbackClaimed, TrueOf, Nothing
<1>4. Transacts(c, e) /\ entries' = [entries EXCEPT ![c] = e] /\ Usable
  BY SavesTransact
<1> HIDE DEF e
<1>5. DiskOK' /\ MovesForward
      /\ (\A d \in Commands : EvidenceOf(d) => EvidenceOf(d)')
      /\ (\A d \in Commands : entries'[d] = entries[d] \/ (d = c /\ entries'[d] = e))
  BY <1>3, <1>4, InvParts, TransactionKeepsDisk
<1>6. ~EvidenceOf(c)
  BY <1>4 DEF EvidenceOf, EvidenceGone, Usable, RollbackClaimed
<1>7. applied[c].conv = 0 /\ applied[c].files = 0 /\ \A q \in Procs : Owns(q) => procs[q].cmd # c
  BY <1>6 DEF RollbackInv, EvidenceKept
<1>8. EvidenceOf(c)'
  <2>1. entries'[c].status = "submitted"
    BY <1>2, <1>4, InvParts DEF DiskOK
  <2>2. stateFile' /\ marker' = "ready"
    BY <1>4 DEF Usable, Transacts
  <2> QED
    BY <2>1, <2>2 DEF EvidenceOf, RollbackClaimed
<1>9. /\ FirstMutation(c) \in {"files", "preparing", "retiring"}
      /\ FirstMutation(c) = "files" => ~Combined(c)
      /\ FirstMutation(c) # "files" => kind[c] # [engine |-> "codex", restore |-> "both"]
  <2>1. kind[c] = [engine |-> "codex", restore |-> "both"] => Wants(c, "files") /\ ~Combined(c)
    BY DEF Wants, Combined
  <2> QED
    BY <2>1 DEF FirstMutation
<1>10. /\ procs \in [Procs -> ProcState] /\ procs' \in [Procs -> ProcState]
       /\ \A q \in Procs \ {p} : procs'[q] = procs[q]
       /\ procs'[p].pc = FirstMutation(c) /\ procs'[p].cmd = c /\ procs'[p].made = procs[p].made
  BY <1>9 DEF RollbackInv, ProcsTyped, ProcState, Places, Handling, Owning
<1>11. ProcsTyped'
  BY <1>10 DEF RollbackInv, ProcsTyped
<1>12. MarkingAlone'
  BY <1>4, <1>9, <1>10 DEF RollbackInv, MarkingAlone, Transacts
<1>13. EvidenceKept'
  <2>1. \A q \in Procs : Owns(q)' => procs'[q].cmd = c \/ (procs'[q].cmd = procs[q].cmd /\ Owns(q))
    BY <1>10 DEF Owns
  <2>2. \A q \in Procs : Owns(q) => EvidenceOf(procs[q].cmd)'
    BY <1>5 DEF RollbackInv, EvidenceKept, Owns, ProcsTyped, Handling
  <2>3. \A q \in Procs : Owns(q)' => EvidenceOf(procs[q].cmd)'
    BY <1>8, <2>1, <2>2
  <2>4. \A d \in Commands : applied'[d].conv # 0 \/ applied'[d].files # 0 => EvidenceOf(d)'
    BY <1>5 DEF RollbackInv, EvidenceKept
  <2> QED
    BY <2>3, <2>4 DEF EvidenceKept
<1>14. OneOwner'
  BY <1>7, <1>10 DEF RollbackInv, OneOwner, Owns
<1>15. StagesKept'
  <2> SUFFICES ASSUME NEW q \in Procs PROVE Stage(q)'
    BY DEF StagesKept
  <2>1. CASE q # p
    BY <2>1, <1>10 DEF RollbackInv, StagesKept, Stage, Combined
  <2>2. CASE q = p
    BY <2>2, <1>7, <1>9, <1>10 DEF Stage, Combined
  <2> QED
    BY <2>1, <2>2
<1>16. MadeIsTrue'
  <2> SUFFICES ASSUME NEW q \in Procs
               PROVE  /\ Owns(q)' => TrueOf(procs[q].cmd, procs[q].made)'
                      /\ procs'[q].pc = "claiming" => procs'[q].made = Nothing
    BY DEF MadeIsTrue
  <2>1. CASE q # p
    BY <2>1, <1>10 DEF RollbackInv, MadeIsTrue, Owns, TrueOf
  <2>2. CASE q = p
    BY <2>2, <1>9, <1>10 DEF RollbackInv, MadeIsTrue, TrueOf, Nothing
  <2> QED
    BY <2>1, <2>2
<1>17. TellsTrue'
  BY <1>2, <1>5 DEF RollbackInv, TellsTrue, TrueOf, Nothing
<1>18. MutatedOnce' /\ RestoreOrder'
  BY DEF RollbackInv, MutatedOnce, RestoreOrder
<1>19. RollbackInv'
  BY <1>5, <1>11, <1>12, <1>13, <1>14, <1>15, <1>16, <1>17, <1>18, InvParts
     DEF RollbackInv, RollbackTypeOK, DiskOK, Entry, Statuses
<1> QED
  BY <1>5, <1>19
-----------------------------------------------------------------------------
(* A step of the owner p of c that leaves the journal alone: what it has done *)
(* for c only grows, and where it goes next agrees with that.                 *)
LEMMA OwnerKeeps ==
    ASSUME RollbackInv, NEW p \in Procs, NEW c \in Commands, Owns(p), procs[p].cmd = c, NEW s,
           s \in ProcState, s.pc \in Owning, s.cmd = c,
           procs' = [procs EXCEPT ![p] = s],
           applied' \in [Commands -> Counters],
           \A d \in Commands \ {c} : applied'[d] = applied[d],
           applied[c].conv # 0 => applied'[c].conv # 0,
           applied[c].files # 0 => applied'[c].files # 0,
           applied'[c].conv <= 1 /\ applied'[c].files <= 1,
           Stage(p)', TrueOf(c, s.made)',
           kind[c].restore = "both" =>
               IF kind[c].engine = "codex" THEN applied'[c].conv > 0 => applied'[c].files > 0
               ELSE applied'[c].files > 0 => applied'[c].conv > 0,
           UNCHANGED <<diskVars, kind, flock, damaged, told>>
    PROVE  RollbackInv' /\ MovesForward
<1>1. /\ procs \in [Procs -> ProcState] /\ procs' \in [Procs -> ProcState]
      /\ \A q \in Procs : procs'[q] = IF q = p THEN s ELSE procs[q]
      /\ \A q \in Procs \ {p} : Owns(q) => procs[q].cmd # c /\ procs[q].cmd \in Commands
  BY DEF RollbackInv, ProcsTyped, OneOwner, Owns, Handling
<1>2. applied \in [Commands -> Counters]
  BY InvParts
<1>3. \A d \in Commands : \A r : TrueOf(d, r) => TrueOf(d, r)'
  BY DEF TrueOf
<1>4. RollbackTypeOK' /\ NoFileNoEntry'
  BY DEF RollbackInv, RollbackTypeOK, NoFileNoEntry, diskVars, Counters
<1>5. ProcsTyped' /\ MarkingAlone'
  BY <1>1 DEF RollbackInv, ProcsTyped, MarkingAlone, diskVars, Owning
<1>6. \A d \in Commands : EvidenceOf(d)' <=> EvidenceOf(d)
  BY DEF EvidenceOf, EvidenceGone, diskVars
<1>7. EvidenceKept'
  <2>1. EvidenceOf(c)
    BY DEF RollbackInv, EvidenceKept
  <2>2. \A d \in Commands \ {c} : applied'[d].conv # 0 \/ applied'[d].files # 0 => EvidenceOf(d)
    BY DEF RollbackInv, EvidenceKept
  <2>3. \A q \in Procs : procs'[q].pc \in Owning => procs'[q].cmd \in Commands /\ EvidenceOf(procs'[q].cmd)
    BY <1>1, <2>1 DEF RollbackInv, EvidenceKept, Owns
  <2> QED
    BY <1>6, <2>1, <2>2, <2>3 DEF EvidenceKept, Owns
<1>8. OneOwner'
  BY <1>1 DEF OneOwner, RollbackInv, Owns
<1>9. StagesKept'
  <2> SUFFICES ASSUME NEW q \in Procs \ {p} PROVE Stage(q)'
    BY DEF StagesKept
  <2>1. procs'[q] = procs[q]
    BY <1>1
  <2>2. CASE Owns(q)
    <3>1. applied'[procs[q].cmd] = applied[procs[q].cmd]
      BY <2>2, <1>1
    <3> QED
      BY <2>1, <3>1 DEF RollbackInv, StagesKept, Stage, Combined
  <2>3. CASE ~Owns(q)
    BY <2>1, <2>3 DEF Stage, Owns, Owning
  <2> QED
    BY <2>2, <2>3
<1>10. MadeIsTrue'
  <2> SUFFICES ASSUME NEW q \in Procs
               PROVE  /\ Owns(q)' => TrueOf(procs[q].cmd, procs[q].made)'
                      /\ procs'[q].pc = "claiming" => procs'[q].made = Nothing
    BY DEF MadeIsTrue
  <2>1. CASE q # p
    BY <2>1, <1>1, <1>3 DEF RollbackInv, MadeIsTrue, Owns, TrueOf
  <2>2. CASE q = p
    BY <2>2, <1>1 DEF Owning, TrueOf
  <2> QED
    BY <2>1, <2>2
<1>11. TellsTrue'
  <2>1. \A t \in told : t.cmd \in Commands
    BY DEF RollbackInv, RollbackTypeOK
  <2> QED
    BY <1>3, <2>1 DEF RollbackInv, TellsTrue, TrueOf, diskVars
<1>12. MutatedOnce' /\ RestoreOrder'
  BY DEF RollbackInv, MutatedOnce, RestoreOrder
<1>13. MovesForward
  <2>1. \A d \in Commands : entries[d].status \in Statuses
    BY InvParts DEF DiskOK, Entry
  <2>2. \A d \in Commands : Rank[entries[d].status] \in Nat
    BY <2>1 DEF Rank, Statuses
  <2> QED
    BY <2>2 DEF MovesForward, diskVars
<1> QED
  BY <1>4, <1>5, <1>7, <1>8, <1>9, <1>10, <1>11, <1>12, <1>13 DEF RollbackInv
-----------------------------------------------------------------------------
(* The result of a handler that did nothing claims nothing. *)
LEMMA FailureIsTrue ==
    ASSUME NEW c \in Commands
    PROVE  FailedResult(c) \in Results /\ TrueOf(c, FailedResult(c))
           /\ Nothing \in Results /\ TrueOf(c, Nothing)
  BY DEF FailedResult, Results, TrueOf, Nothing

(* A process that is idle again. *)
LEMMA GoesIdle ==
    ASSUME NEW p \in Procs, procs' = [procs EXCEPT ![p] = Listening]
    PROVE  ComesOut(p, Listening)
<1>1. Listening.pc = "idle" /\ Listening \in ProcState
  BY DEF Listening, Stopped, ProcState, Places, Handling, Owning, Results, Nothing
<1> QED
  BY <1>1 DEF ComesOut, Handling, Owning

(* Nothing is written, or what is there again. *)
LEMMA SameAhead ==
    ASSUME RollbackInv, NEW c \in Commands
    PROVE  Ahead(c, entries[c])
  BY InvParts DEF RollbackInv, DiskOK, TellsTrue, Ahead, RollbackClaimed

(* begin(): an entry that is missing becomes an intent; what it returns decides *)
(* between the claim, the doubt and the recorded result.                        *)
LEMMA BeginKeeps ==
    ASSUME RollbackInv, NEW p \in Procs, NEW c \in Commands, Begin(p, c)
    PROVE  RollbackInv' /\ MovesForward
<1> DEFINE e == [NoEntry EXCEPT !.status = "intent"]
           Placed(pc) == [Listening EXCEPT !.pc = pc, !.cmd = c]
<1>1. UNCHANGED <<kind, flock, damaged, applied>>
  BY DEF Begin, Rest
<1>2. entries[c] \in Entry
  BY InvParts DEF DiskOK
<1>3. ASSUME NEW pc \in {"claiming", "doubting"}, procs' = [procs EXCEPT ![p] = Placed(pc)]
      PROVE  ComesOut(p, Placed(pc))
  BY <1>3 DEF ComesOut, Listening, Stopped, ProcState, Places, Handling, Owning, Results, Nothing
<1>4. entries[c].status = "none" => Ahead(c, e)
  <2>1. e = [status |-> "intent", result |-> Nothing]
    BY DEF NoEntry
  <2> QED
    BY <2>1, FailureIsTrue DEF Ahead, Entry, Statuses
<1>5. Tells(c) \/ ~(GiveUp(p) \/ UNCHANGED told)
  BY DEF GiveUp, Tells
<1>6. GiveUp(p) => ComesOut(p, Listening) /\ Tells(c)
  BY GoesIdle DEF GiveUp, Tells
<1> HIDE DEF e, Placed
<1>7. CASE entries[c].status = "none" /\ SaveWorks(c, e) /\ procs' = [procs EXCEPT ![p] = Placed("claiming")]
           /\ UNCHANGED told
  BY <1>1, <1>3, <1>4, <1>5, <1>7, SavesTransact, TransactionKeeps
<1>8. CASE entries[c].status = "none" /\ SaveFails(c, e) /\ GiveUp(p)
  BY <1>1, <1>4, <1>6, <1>8, SavesTransact, TransactionKeeps
<1>9. CASE Rejected /\ GiveUp(p)
  BY <1>1, <1>6, <1>9, SavesTransact, SameAhead, TransactionKeeps
<1>10. CASE Read /\ procs' = [procs EXCEPT ![p] = Placed("claiming")] /\ UNCHANGED told
  BY <1>1, <1>3, <1>5, <1>10, SavesTransact, SameAhead, TransactionKeeps
<1>11. CASE Read /\ procs' = [procs EXCEPT ![p] = Placed("doubting")] /\ UNCHANGED told
  BY <1>1, <1>3, <1>5, <1>11, SavesTransact, SameAhead, TransactionKeeps
<1>12. CASE Read /\ Publish(p, c, entries[c].result)
  <2>1. entries[c].result \in Results /\ TrueOf(c, entries[c].result)
    BY <1>2 DEF Entry, RollbackInv, TellsTrue
  <2>2. Tells(c) /\ ComesOut(p, Listening)
    BY <1>12, <2>1, GoesIdle DEF Publish, Tells
  <2> QED
    BY <1>1, <1>12, <2>2, SavesTransact, SameAhead, TransactionKeeps
<1> QED
  BY <1>7, <1>8, <1>9, <1>10, <1>11, <1>12 DEF Begin, e, Placed

(* A handler's command. *)
LEMMA CmdOf ==
    ASSUME RollbackInv, NEW p \in Procs, procs[p].pc \in Handling
    PROVE  Cmd(p) \in Commands /\ procs[p] \in ProcState /\ procs[p].cmd = Cmd(p)
  BY DEF RollbackInv, ProcsTyped, Cmd

(* mark_submitted: won, not saved, or lost to another process. *)
LEMMA ClaimingKeeps ==
    ASSUME RollbackInv, NEW p \in Procs, Claim(p)
    PROVE  RollbackInv' /\ MovesForward
<1> DEFINE c == Cmd(p)
           e == [entries[c] EXCEPT !.status = "submitted"]
<1>1. procs[p].pc = "claiming" /\ c \in Commands /\ procs[p].cmd = c
  BY CmdOf DEF Claim, In, Handling
<1>2. UNCHANGED <<kind, flock, damaged, applied>>
  BY DEF Claim, Rest
<1>3. entries[c] \in Entry /\ (entries[c].status # "complete" => entries[c].result = Nothing)
  BY <1>1, InvParts DEF DiskOK
<1>4. Claimable(c) => Ahead(c, e)
  <2> SUFFICES ASSUME entries[c].status = "intent" PROVE Ahead(c, e)
    BY DEF Claimable
  <2>1. e = [status |-> "submitted", result |-> Nothing]
    BY <1>3 DEF Entry
  <2> QED
    BY <1>1, <2>1, FailureIsTrue DEF Ahead, Entry, Statuses, RollbackClaimed
<1>5. GiveUp(p) => ComesOut(p, Listening) /\ Tells(c)
  BY GoesIdle DEF GiveUp, Tells
<1>6. Publish(p, c, FailedResult(c)) => ComesOut(p, Listening) /\ Tells(c)
  BY <1>1, GoesIdle, FailureIsTrue DEF Publish, Tells
<1>7. CASE Claimable(c) /\ SaveWorks(c, e) /\ Step(p, FirstMutation(c)) /\ UNCHANGED told
  BY <1>1, <1>2, <1>7, ClaimKeeps DEF Step, Claimable
<1> HIDE DEF e, c
<1>8. CASE Claimable(c) /\ SaveFails(c, e) /\ GiveUp(p)
  BY <1>1, <1>2, <1>4, <1>5, <1>8, SavesTransact, TransactionKeeps
<1>9. CASE Rejected /\ GiveUp(p)
  BY <1>1, <1>2, <1>5, <1>9, SavesTransact, SameAhead, TransactionKeeps
<1>10. CASE Read /\ Publish(p, c, FailedResult(c))
  BY <1>1, <1>2, <1>6, <1>10, SavesTransact, SameAhead, TransactionKeeps
<1> QED
  BY <1>7, <1>8, <1>9, <1>10 DEF Claim, e, c

(* complete() with the result of the owner. *)
LEMMA RecordKeeps ==
    ASSUME RollbackInv, NEW p \in Procs, Record(p)
    PROVE  RollbackInv' /\ MovesForward
<1> DEFINE c == Cmd(p)
           made == procs[p].made
           e == [status |-> "complete", result |-> made]
           s == [procs[p] EXCEPT !.pc = "uncertain"]
<1>1. procs[p].pc = "recording" /\ c \in Commands /\ procs[p].cmd = c /\ procs[p] \in ProcState
      /\ Owns(p)
  BY CmdOf DEF Record, In, Handling, Owning, Owns
<1>2. UNCHANGED <<kind, flock, damaged, applied>>
  BY DEF Record, Rest
<1>3. made \in Results /\ TrueOf(c, made)
  BY <1>1 DEF ProcState, RollbackInv, MadeIsTrue
<1>4. Unresolved(c) => Ahead(c, e)
  BY <1>3 DEF Ahead, Entry, Statuses, RollbackClaimed, Unresolved
<1>5. Publish(p, c, made) => ComesOut(p, Listening) /\ Tells(c)
  BY <1>3, GoesIdle DEF Publish, Tells
<1>6. Step(p, "uncertain") => ComesOut(p, s)
  BY <1>1 DEF Step, ComesOut, ProcState, Places, Handling, Owning
<1>7. UNCHANGED told => Tells(c)
  BY DEF Tells
<1> HIDE DEF e, s, made, c
<1>8. CASE Unresolved(c) /\ SaveWorks(c, e) /\ Publish(p, c, made)
  BY <1>1, <1>2, <1>4, <1>5, <1>8, SavesTransact, TransactionKeeps
<1>9. CASE Read /\ Publish(p, c, made)
  BY <1>1, <1>2, <1>5, <1>9, SavesTransact, SameAhead, TransactionKeeps
<1>10. CASE Unresolved(c) /\ SaveFails(c, e) /\ Step(p, "uncertain") /\ UNCHANGED told
  BY <1>1, <1>2, <1>4, <1>6, <1>7, <1>10, SavesTransact, TransactionKeeps
<1>11. CASE (Rejected \/ Read) /\ Step(p, "uncertain") /\ UNCHANGED told
  BY <1>1, <1>2, <1>6, <1>7, <1>11, SavesTransact, SameAhead, TransactionKeeps
<1> QED
  BY <1>8, <1>9, <1>10, <1>11 DEF Record, e, c, made

(* mark_uncertain: what is claimed may be marked so. *)
LEMMA UncertainAhead ==
    ASSUME RollbackInv, NEW c \in Commands, entries[c].status = "submitted"
    PROVE  Ahead(c, [entries[c] EXCEPT !.status = "uncertain"])
<1> DEFINE e == [entries[c] EXCEPT !.status = "uncertain"]
<1>1. entries[c] \in Entry /\ entries[c].result = Nothing
  BY InvParts DEF DiskOK
<1>2. e = [status |-> "uncertain", result |-> Nothing]
  BY <1>1 DEF Entry
<1> QED
  BY <1>2, FailureIsTrue DEF Ahead, Entry, Statuses, RollbackClaimed

(* An owner that could not record its result marks it uncertain and tells it. *)
LEMMA UncertainKeeps ==
    ASSUME RollbackInv, NEW p \in Procs, Uncertain(p)
    PROVE  RollbackInv' /\ MovesForward
<1> DEFINE c == Cmd(p)
           made == procs[p].made
           e == [entries[c] EXCEPT !.status = "uncertain"]
<1>1. procs[p].pc = "uncertain" /\ c \in Commands /\ procs[p].cmd = c /\ procs[p] \in ProcState
      /\ Owns(p)
  BY CmdOf DEF Uncertain, In, Handling, Owning, Owns
<1>2. UNCHANGED <<kind, flock, damaged, applied>>
  BY DEF Uncertain, Rest
<1>3. made \in Results /\ TrueOf(c, made)
  BY <1>1 DEF ProcState, RollbackInv, MadeIsTrue
<1>4. ComesOut(p, Listening) /\ Tells(c)
  BY <1>1, <1>3, GoesIdle DEF Uncertain, Publish, Tells
<1>5. entries[c].status = "submitted" => Ahead(c, e)
  BY <1>1, UncertainAhead
<1>6. \/ entries[c].status = "submitted" /\ (SaveWorks(c, e) \/ SaveFails(c, e))
      \/ Read \/ Rejected
  BY DEF Uncertain
<1> HIDE DEF e, made, c
<1>7. CASE entries[c].status = "submitted" /\ (SaveWorks(c, e) \/ SaveFails(c, e))
  BY <1>1, <1>2, <1>4, <1>5, <1>7, SavesTransact, TransactionKeeps
<1>8. CASE Read \/ Rejected
  BY <1>1, <1>2, <1>4, <1>8, SavesTransact, SameAhead, TransactionKeeps
<1> QED
  BY <1>6, <1>7, <1>8

(* A retry that finds the command claimed never mutates. *)
LEMMA DoubtKeeps ==
    ASSUME RollbackInv, NEW p \in Procs, Doubt(p)
    PROVE  RollbackInv' /\ MovesForward
<1> DEFINE c == Cmd(p)
           e == [entries[c] EXCEPT !.status = "uncertain"]
           s == [procs[p] EXCEPT !.pc = "settling"]
<1>1. procs[p].pc = "doubting" /\ c \in Commands /\ procs[p].cmd = c /\ procs[p] \in ProcState
  BY CmdOf DEF Doubt, In, Handling
<1>2. UNCHANGED <<kind, flock, damaged, applied>>
  BY DEF Doubt, Rest
<1>3. entries[c].status = "submitted" => Ahead(c, e)
  BY <1>1, UncertainAhead
<1>4. Publish(p, c, FailedResult(c)) => ComesOut(p, Listening) /\ Tells(c)
  BY <1>1, GoesIdle, FailureIsTrue DEF Publish, Tells
<1>5. Step(p, "settling") => ComesOut(p, s)
  BY <1>1 DEF Step, ComesOut, ProcState, Places, Handling, Owning
<1>6. UNCHANGED told => Tells(c)
  BY DEF Tells
<1>7. \/ /\ \/ entries[c].status = "submitted" /\ SaveWorks(c, e)
            \/ Read
         /\ Step(p, "settling") /\ UNCHANGED told
      \/ /\ \/ entries[c].status = "submitted" /\ SaveFails(c, e)
            \/ Rejected
         /\ Publish(p, c, FailedResult(c))
  BY DEF Doubt
<1> HIDE DEF e, s, c
<1>8. CASE entries[c].status = "submitted" /\ SaveWorks(c, e) /\ Step(p, "settling") /\ UNCHANGED told
  BY <1>1, <1>2, <1>3, <1>5, <1>6, <1>8, SavesTransact, TransactionKeeps
<1>9. CASE Read /\ Step(p, "settling") /\ UNCHANGED told
  BY <1>1, <1>2, <1>5, <1>6, <1>9, SavesTransact, SameAhead, TransactionKeeps
<1>10. CASE entries[c].status = "submitted" /\ SaveFails(c, e) /\ Publish(p, c, FailedResult(c))
  BY <1>1, <1>2, <1>3, <1>4, <1>10, SavesTransact, TransactionKeeps
<1>11. CASE Rejected /\ Publish(p, c, FailedResult(c))
  BY <1>1, <1>2, <1>4, <1>11, SavesTransact, SameAhead, TransactionKeeps
<1> QED
  BY <1>7, <1>8, <1>9, <1>10, <1>11

(* It records a failure, unless the owner was faster. *)
LEMMA SettleKeeps ==
    ASSUME RollbackInv, NEW p \in Procs, Settle(p)
    PROVE  RollbackInv' /\ MovesForward
<1> DEFINE c == Cmd(p)
           e == [status |-> "complete", result |-> FailedResult(c)]
<1>1. c \in Commands
  BY CmdOf DEF Settle, In, Handling
<1>2. UNCHANGED <<kind, flock, damaged, applied>>
  BY DEF Settle, Rest
<1>3. ComesOut(p, Listening) /\ Tells(c)
  BY <1>1, GoesIdle, FailureIsTrue DEF Settle, Publish, Tells
<1>4. entries[c].status = "uncertain" => Ahead(c, e)
  BY <1>1, FailureIsTrue DEF Ahead, Entry, Statuses
<1>5. \/ entries[c].status = "uncertain" /\ SaveWorks(c, e)
      \/ SaveFails(c, e) /\ entries[c].status = "uncertain"
      \/ Read \/ Rejected
  BY DEF Settle
<1> HIDE DEF e, c
<1>6. CASE entries[c].status = "uncertain" /\ (SaveWorks(c, e) \/ SaveFails(c, e))
  BY <1>1, <1>2, <1>3, <1>4, <1>6, SavesTransact, TransactionKeeps
<1>7. CASE Read \/ Rejected
  BY <1>1, <1>2, <1>3, <1>7, SavesTransact, SameAhead, TransactionKeeps
<1> QED
  BY <1>5, <1>6, <1>7
-----------------------------------------------------------------------------
(* An owner at one of its native calls, and what it counts there. *)
LEMMA OwnerParts ==
    ASSUME RollbackInv, NEW p \in Procs, Owns(p)
    PROVE  /\ Cmd(p) \in Commands /\ procs[p].cmd = Cmd(p) /\ procs[p] \in ProcState
           /\ applied \in [Commands -> Counters] /\ kind[Cmd(p)] \in Kinds
           /\ TrueOf(Cmd(p), procs[p].made) /\ Stage(p)
           /\ applied[Cmd(p)].conv <= 1 /\ applied[Cmd(p)].files <= 1
<1>1. Cmd(p) \in Commands /\ procs[p].cmd = Cmd(p) /\ procs[p] \in ProcState
  BY CmdOf DEF Owns, Handling
<1> QED
  BY <1>1, InvParts DEF RollbackInv, RollbackTypeOK, MadeIsTrue, StagesKept, MutatedOnce

(* A native call about c: its counter grows by one, or nothing happens. *)
LEMMA CallCounts ==
    ASSUME applied \in [Commands -> Counters], NEW c \in Commands, NEW call,
           NEW what \in {"conv", "files"}, applied[c][what] = 0, Called(c, what, call)
    PROVE  /\ applied' \in [Commands -> Counters]
           /\ \A d \in Commands \ {c} : applied'[d] = applied[d]
           /\ applied'[c] = IF call = "failed" THEN applied[c] ELSE [applied[c] EXCEPT ![what] = 1]
<1>1. CASE call = "failed"
  BY <1>1 DEF Called
<1>2. CASE call # "failed"
  <2>1. applied' = [applied EXCEPT ![c] = [applied[c] EXCEPT ![what] = @ + 1]]
    BY <1>2 DEF Called
  <2>2. [applied[c] EXCEPT ![what] = @ + 1] = [applied[c] EXCEPT ![what] = 1]
    BY DEF Counters
  <2>3. [applied[c] EXCEPT ![what] = 1] \in Counters
    BY DEF Counters
  <2> QED
    BY <1>2, <2>1, <2>2, <2>3
<1> QED
  BY <1>1, <1>2

(* restore_files_now: files are restored once, and Claude's behind the history. *)
LEMMA FilesKeep ==
    ASSUME RollbackInv, NEW p \in Procs, RestoreFiles(p)
    PROVE  RollbackInv' /\ MovesForward
<1>1. Owns(p) /\ procs[p].pc = "files"
  BY DEF RestoreFiles, In, Owns, Owning
<1>c. PICK c \in Commands : c = Cmd(p)
  BY <1>1, OwnerParts
<1>2. /\ c \in Commands /\ procs[p].cmd = c /\ procs[p] \in ProcState
      /\ applied \in [Commands -> Counters] /\ kind[c] \in Kinds
      /\ TrueOf(c, procs[p].made) /\ applied[c].conv <= 1
      /\ applied[c].files = 0
      /\ IF Combined(c) THEN applied[c].conv = 1 ELSE applied[c].conv = 0
  BY <1>1, <1>c, OwnerParts DEF Stage
<1>3. UNCHANGED <<kind, flock, damaged>>
  BY DEF RestoreFiles, Rest
<1>4. PICK call \in Calls :
        /\ Called(c, "files", call)
        /\ procs' = [procs EXCEPT ![p].pc = AfterFiles(c, Outcome(call)),
                                  ![p].made.files = Outcome(call)]
  BY <1>c DEF RestoreFiles
<1>s. PICK s : s = [procs[p] EXCEPT !.pc = AfterFiles(c, Outcome(call)), !.made.files = Outcome(call)]
  OBVIOUS
<1>5. /\ applied' \in [Commands -> Counters]
      /\ \A d \in Commands \ {c} : applied'[d] = applied[d]
      /\ applied'[c] = IF call = "failed" THEN applied[c] ELSE [applied[c] EXCEPT !["files"] = 1]
  BY <1>2, <1>4, CallCounts
<1>6. UNCHANGED <<diskVars, told>>
  BY <1>4 DEF Called
<1>7. /\ Outcome(call) \in {"succeeded", "failed"}
      /\ Outcome(call) = "succeeded" => call # "failed"
      /\ AfterFiles(c, Outcome(call)) \in {"retiring", "recording"}
      /\ AfterFiles(c, Outcome(call)) = "retiring" =>
            kind[c] = [engine |-> "codex", restore |-> "both"] /\ call # "failed"
  BY DEF Outcome, Calls, AfterFiles
<1>8. /\ s \in ProcState /\ s.pc = AfterFiles(c, Outcome(call)) /\ s.cmd = c
      /\ s.made.conv = procs[p].made.conv /\ s.made.files = Outcome(call)
      /\ procs' = [procs EXCEPT ![p] = s]
  BY <1>2, <1>4, <1>7, <1>s DEF ProcState, Places, Handling, Owning, Results
<1>9. /\ applied'[c].conv = applied[c].conv
      /\ applied'[c].files = IF call = "failed" THEN 0 ELSE 1
  BY <1>2, <1>5 DEF Counters
<1>10. TrueOf(c, s.made)'
  BY <1>2, <1>7, <1>8, <1>9 DEF TrueOf
<1>11. Stage(p)'
  <2>1. procs'[p] = s
    BY <1>8 DEF RollbackInv, ProcsTyped
  <2>2. CASE s.pc = "recording"
    BY <2>1, <2>2 DEF Stage
  <2>3. CASE s.pc = "retiring"
    <3>1. ~Combined(c) /\ applied'[c].files = 1
      BY <2>3, <1>7, <1>8, <1>9 DEF Combined
    <3> QED
      BY <2>1, <2>3, <3>1, <1>2, <1>3, <1>7, <1>8, <1>9 DEF Stage
  <2> QED
    BY <1>7, <1>8, <2>2, <2>3
<1>12. kind[c].restore = "both" =>
          IF kind[c].engine = "codex" THEN applied'[c].conv > 0 => applied'[c].files > 0
          ELSE applied'[c].files > 0 => applied'[c].conv > 0
  <2>1. kind[c].restore = "both" /\ kind[c].engine # "codex" => Combined(c)
    BY <1>2 DEF Combined, Kinds
  <2>2. kind[c].engine = "codex" => ~Combined(c)
    BY DEF Combined
  <2> QED
    BY <2>1, <2>2, <1>2, <1>9
<1>13. s.pc \in Owning
  BY <1>7, <1>8 DEF Owning
<1>14. /\ applied[c].conv # 0 => applied'[c].conv # 0
       /\ applied[c].files # 0 => applied'[c].files # 0
       /\ applied'[c].conv <= 1 /\ applied'[c].files <= 1
  BY <1>2, <1>9
<1>15. s \in ProcState /\ s.cmd = c /\ procs[p].cmd = c /\ procs' = [procs EXCEPT ![p] = s]
  BY <1>2, <1>8
<1> QED
  BY <1>1, <1>3, <1>5, <1>6, <1>10, <1>11, <1>12, <1>13, <1>14, <1>15, OwnerKeeps

(* rewind_conversation, rollback_thread: the conversation is rewound once, and *)
(* Codex's behind the files.                                                   *)
LEMMA RewindKeeps ==
    ASSUME RollbackInv, NEW p \in Procs, Rewind(p)
    PROVE  RollbackInv' /\ MovesForward
<1>1. Owns(p) /\ procs[p].pc = "conversation"
  BY DEF Rewind, In, Owns, Owning
<1>c. PICK c \in Commands : c = Cmd(p)
  BY <1>1, OwnerParts
<1>2. /\ c \in Commands /\ procs[p].cmd = c /\ procs[p] \in ProcState
      /\ applied \in [Commands -> Counters] /\ kind[c] \in Kinds
      /\ TrueOf(c, procs[p].made) /\ applied[c].files <= 1
      /\ applied[c].conv = 0
      /\ IF kind[c] = [engine |-> "codex", restore |-> "both"]
         THEN applied[c].files = 1 ELSE applied[c].files = 0
  BY <1>1, <1>c, OwnerParts DEF Stage
<1>3. UNCHANGED <<kind, flock, damaged>>
  BY DEF Rewind, Rest
<1>4. PICK call \in Calls, partial \in BOOLEAN :
        /\ Called(c, "conv", call)
        /\ procs' = [procs EXCEPT ![p].pc = AfterConversation(c, Outcome(call)),
                                  ![p].made.conv = Outcome(call), ![p].made.partial = partial]
  BY <1>c DEF Rewind
<1>s. PICK s : s = [procs[p] EXCEPT !.pc = AfterConversation(c, Outcome(call)),
                                   !.made.conv = Outcome(call), !.made.partial = partial]
  OBVIOUS
<1>5. /\ applied' \in [Commands -> Counters]
      /\ \A d \in Commands \ {c} : applied'[d] = applied[d]
      /\ applied'[c] = IF call = "failed" THEN applied[c] ELSE [applied[c] EXCEPT !["conv"] = 1]
  BY <1>2, <1>4, CallCounts
<1>6. UNCHANGED <<diskVars, told>>
  BY <1>4 DEF Called
<1>7. /\ Outcome(call) \in {"succeeded", "failed"}
      /\ Outcome(call) = "succeeded" => call # "failed"
      /\ AfterConversation(c, Outcome(call)) \in {"files", "recording"}
      /\ AfterConversation(c, Outcome(call)) = "files" => Combined(c) /\ call # "failed"
  BY DEF Outcome, Calls, AfterConversation
<1>8. /\ s \in ProcState /\ s.pc = AfterConversation(c, Outcome(call)) /\ s.cmd = c
      /\ s.made.files = procs[p].made.files /\ s.made.conv = Outcome(call)
      /\ procs' = [procs EXCEPT ![p] = s]
  BY <1>2, <1>4, <1>7, <1>s DEF ProcState, Places, Handling, Owning, Results
<1>9. /\ applied'[c].files = applied[c].files
      /\ applied'[c].conv = IF call = "failed" THEN 0 ELSE 1
  BY <1>2, <1>5 DEF Counters
<1>10. TrueOf(c, s.made)'
  BY <1>2, <1>7, <1>8, <1>9 DEF TrueOf
<1>11. Stage(p)'
  <2>1. procs'[p] = s
    BY <1>8 DEF RollbackInv, ProcsTyped
  <2>2. CASE s.pc = "recording"
    BY <2>1, <2>2 DEF Stage
  <2>3. CASE s.pc = "files"
    <3>1. Combined(c) /\ applied'[c].conv = 1 /\ applied[c].files = 0
      BY <2>3, <1>2, <1>7, <1>8, <1>9 DEF Combined
    <3> QED
      BY <2>1, <2>3, <3>1, <1>3, <1>8, <1>9 DEF Stage, Combined
  <2> QED
    BY <1>7, <1>8, <2>2, <2>3
<1>12. kind[c].restore = "both" =>
          IF kind[c].engine = "codex" THEN applied'[c].conv > 0 => applied'[c].files > 0
          ELSE applied'[c].files > 0 => applied'[c].conv > 0
  <2>1. kind[c].restore = "both" /\ kind[c].engine = "codex"
           => kind[c] = [engine |-> "codex", restore |-> "both"]
    BY <1>2 DEF Kinds
  <2>2. kind[c].engine # "codex" => applied[c].files = 0
    BY <1>2
  <2> QED
    BY <2>1, <2>2, <1>2, <1>9
<1>13. s.pc \in Owning
  BY <1>7, <1>8 DEF Owning
<1>14. /\ applied[c].conv # 0 => applied'[c].conv # 0
       /\ applied[c].files # 0 => applied'[c].files # 0
       /\ applied'[c].conv <= 1 /\ applied'[c].files <= 1
  BY <1>2, <1>9
<1>15. s \in ProcState /\ s.cmd = c /\ procs[p].cmd = c /\ procs' = [procs EXCEPT ![p] = s]
  BY <1>2, <1>8
<1> QED
  BY <1>1, <1>3, <1>5, <1>6, <1>10, <1>11, <1>12, <1>13, <1>14, <1>15, OwnerKeeps

(* What comes before a rewind touches nothing that is counted. *)
LEMMA PrepareKeeps ==
    ASSUME RollbackInv, NEW p \in Procs, Prepare(p)
    PROVE  RollbackInv' /\ MovesForward
<1>1. Owns(p) /\ procs[p].pc \in {"preparing", "retiring"}
  BY DEF Prepare, In, Owns, Owning
<1>c. PICK c \in Commands : c = Cmd(p)
  BY <1>1, OwnerParts
<1>2. /\ c \in Commands /\ procs[p].cmd = c /\ procs[p] \in ProcState
      /\ applied \in [Commands -> Counters]
      /\ TrueOf(c, procs[p].made) /\ Stage(p)
      /\ applied[c].conv <= 1 /\ applied[c].files <= 1
  BY <1>1, <1>c, OwnerParts
<1>3. UNCHANGED <<diskVars, kind, flock, damaged, applied, told>>
  BY DEF Prepare, Rest
<1>4. PICK s \in ProcState :
        /\ procs' = [procs EXCEPT ![p] = s] /\ s.pc \in {"conversation", "recording"} /\ s.cmd = c
        /\ s.made = procs[p].made \/ s.made = [procs[p].made EXCEPT !.conv = "failed"]
  <2>1. CASE Step(p, "conversation")
    <3> DEFINE s == [procs[p] EXCEPT !.pc = "conversation"]
    <3>1. s \in ProcState /\ s.pc = "conversation" /\ s.cmd = c /\ s.made = procs[p].made
          /\ procs' = [procs EXCEPT ![p] = s]
      BY <1>2, <2>1 DEF Step, ProcState, Places, Handling, Owning
    <3> QED
      BY <3>1
  <2>2. CASE procs' = [procs EXCEPT ![p].pc = "recording", ![p].made.conv = "failed"]
    <3> DEFINE s == [procs[p] EXCEPT !.pc = "recording", !.made.conv = "failed"]
    <3>1. s \in ProcState /\ s.pc = "recording" /\ s.cmd = c
          /\ s.made = [procs[p].made EXCEPT !.conv = "failed"]
          /\ procs' = [procs EXCEPT ![p] = s]
      BY <1>2, <2>2 DEF ProcState, Places, Handling, Owning, Results
    <3> QED
      BY <3>1
  <2> QED
    BY <2>1, <2>2 DEF Prepare
<1>5. TrueOf(c, s.made)'
  BY <1>2, <1>3, <1>4 DEF TrueOf, ProcState, Results
<1>6. Stage(p)'
  <2>1. procs'[p] = s
    BY <1>4 DEF RollbackInv, ProcsTyped
  <2> QED
    BY <2>1, <1>1, <1>2, <1>3, <1>4 DEF Stage, Combined
<1>7. kind[c].restore = "both" =>
          IF kind[c].engine = "codex" THEN applied'[c].conv > 0 => applied'[c].files > 0
          ELSE applied'[c].files > 0 => applied'[c].conv > 0
  BY <1>2, <1>3 DEF RollbackInv, RestoreOrder
<1>8. s.pc \in Owning
  BY <1>4 DEF Owning
<1>9. /\ applied' \in [Commands -> Counters]
      /\ \A d \in Commands \ {c} : applied'[d] = applied[d]
      /\ applied'[c] = applied[c]
  BY <1>2, <1>3
<1>10. applied'[c].conv <= 1 /\ applied'[c].files <= 1
  BY <1>2, <1>9
<1>11. procs' = [procs EXCEPT ![p] = s] /\ s.cmd = c
  BY <1>4
<1> QED
  BY <1>1, <1>2, <1>3, <1>5, <1>6, <1>7, <1>8, <1>9, <1>10, <1>11, OwnerKeeps
-----------------------------------------------------------------------------
(* A step of a process that handles no command: it writes no entry and loses *)
(* no evidence.                                                              *)
LEMMA LifeKeeps ==
    ASSUME RollbackInv, NEW p \in Procs, NEW s, s \in ProcState,
           s.pc \in {"off", "opening", "marking", "blocked", "idle"},
           s.pc = "marking" => flock' = p /\ marker' = "empty" /\ stateFile',
           procs' = [procs EXCEPT ![p] = s], entries' = entries, DiskOK',
           \A c \in Commands : EvidenceOf(c) => EvidenceOf(c)',
           \A q \in Procs \ {p} : procs[q].pc = "marking" => flock' = q /\ marker' = "empty" /\ stateFile',
           flock' \in Procs \cup {Free}, UNCHANGED <<kind, applied, told>>
    PROVE  RollbackInv' /\ MovesForward
<1>1. \A q \in Procs : procs'[q] = IF q = p THEN s ELSE procs[q]
  BY DEF RollbackInv, ProcsTyped
<1>2. s.pc \notin Handling /\ s.pc \notin Owning
  BY DEF Handling, Owning
<1>3. ProcsTyped'
  BY <1>1, <1>2 DEF RollbackInv, ProcsTyped
<1>4. MarkingAlone'
  BY <1>1 DEF MarkingAlone
<1>5. \A q \in Procs : Owns(q)' => q # p /\ Owns(q) /\ procs'[q] = procs[q] /\ procs[q].cmd \in Commands
  BY <1>1, <1>2 DEF Owns, RollbackInv, ProcsTyped, Handling
<1>6. EvidenceKept' /\ OneOwner'
  BY <1>5 DEF RollbackInv, EvidenceKept, OneOwner
<1>7. StagesKept'
  <2> SUFFICES ASSUME NEW q \in Procs PROVE Stage(q)'
    BY DEF StagesKept
  <2>1. CASE Owns(q)'
    BY <2>1, <1>5 DEF RollbackInv, StagesKept, Stage, Combined
  <2>2. CASE ~Owns(q)'
    BY <2>2 DEF Stage, Owns, Owning
  <2> QED
    BY <2>1, <2>2
<1>8. MadeIsTrue'
  <2>1. \A q \in Procs : procs'[q].pc = "claiming" => procs'[q] = procs[q]
    BY <1>1
  <2> QED
    BY <2>1, <1>5 DEF RollbackInv, MadeIsTrue, TrueOf
<1>9. TellsTrue' /\ MutatedOnce' /\ RestoreOrder'
  BY DEF RollbackInv, TellsTrue, TrueOf, MutatedOnce, RestoreOrder
<1>10. RollbackInv'
  BY <1>3, <1>4, <1>6, <1>7, <1>8, <1>9, InvParts DEF RollbackInv, RollbackTypeOK, DiskOK, Entry, Statuses
<1>11. MovesForward
  <2>1. \A d \in Commands : entries[d].status \in Statuses
    BY InvParts DEF DiskOK, Entry
  <2>2. \A d \in Commands : Rank[entries[d].status] \in Nat
    BY <2>1 DEF Rank, Statuses
  <2> QED
    BY <2>2 DEF MovesForward
<1> QED
  BY <1>10, <1>11

(* The lock file is created or opened. *)
LEMMA StartKeeps ==
    ASSUME RollbackInv, NEW p \in Procs, Start(p)
    PROVE  RollbackInv' /\ MovesForward
<1> DEFINE s == [Stopped EXCEPT !.pc = "opening", !.created = (marker = "absent")]
<1>1. s \in ProcState /\ s.pc = "opening"
  BY DEF Stopped, ProcState, Places, Results, Nothing
<1>2. DiskOK'
  BY InvParts DEF Start, DiskOK, NoFileNoEntry
<1>3. \A c \in Commands : EvidenceOf(c) => EvidenceOf(c)'
  BY DEF Start, EvidenceOf, EvidenceGone
<1>4. \A q \in Procs : procs[q].pc = "marking" => flock' = q /\ marker' = "empty" /\ stateFile'
  BY DEF Start, RollbackInv, MarkingAlone
<1>5. procs' = [procs EXCEPT ![p] = s]
  BY DEF Start
<1> HIDE DEF s
<1>6. entries' = entries /\ flock' \in Procs \cup {Free} /\ UNCHANGED <<kind, applied, told>>
  BY InvParts DEF Start
<1> QED
  BY <1>1, <1>2, <1>3, <1>4, <1>5, <1>6, LifeKeeps

(* The journal is loaded, initialised or refused; who initialises it finds no *)
(* evidence there.                                                          *)
LEMMA OpenKeeps ==
    ASSUME RollbackInv, NEW p \in Procs, Open(p)
    PROVE  RollbackInv' /\ MovesForward
<1>1. PICK x \in {"idle", "blocked", "marking"} :
         /\ procs' = [procs EXCEPT ![p].pc = x]
         /\ \/ x # "marking" /\ UNCHANGED <<stateFile, entries, flock>>
            \/ /\ x = "marking" /\ marker = "empty" /\ stateFile' = TRUE /\ flock' = p
               /\ entries' = IF stateFile THEN entries ELSE [c \in Commands |-> NoEntry]
  BY DEF Open
<1> DEFINE s == [procs[p] EXCEPT !.pc = x]
<1>2. s \in ProcState /\ s.pc = x /\ procs' = [procs EXCEPT ![p] = s]
  BY <1>1 DEF RollbackInv, ProcsTyped, ProcState, Places
<1>3. entries' = entries
  BY <1>1, InvParts DEF DiskOK, NoFileNoEntry
<1>4. DiskOK'
  BY <1>1, <1>3, InvParts DEF DiskOK, NoFileNoEntry, Open
<1>5. \A c \in Commands : EvidenceOf(c) => EvidenceOf(c)'
  BY <1>1, <1>3 DEF Open, EvidenceOf, EvidenceGone
<1>6. \A q \in Procs : procs[q].pc # "marking"
  BY RollbackAssumption DEF Open, RollbackInv, MarkingAlone, Free
<1> HIDE DEF s
<1>7. /\ flock' \in Procs \cup {Free} /\ UNCHANGED <<kind, applied, told>>
      /\ x = "marking" => flock' = p /\ marker' = "empty" /\ stateFile'
  BY <1>1, InvParts DEF Open
<1> QED
  BY <1>1, <1>2, <1>3, <1>4, <1>5, <1>6, <1>7, LifeKeeps

(* _initialize_lock: the state file is there before its marker. *)
LEMMA MarkKeeps ==
    ASSUME RollbackInv, NEW p \in Procs, Mark(p)
    PROVE  RollbackInv' /\ MovesForward
<1>1. Listening \in ProcState /\ Listening.pc = "idle"
  BY DEF Listening, Stopped, ProcState, Places, Results, Nothing
<1>2. flock = p /\ marker = "empty" /\ stateFile
  BY DEF Mark, RollbackInv, MarkingAlone
<1>3. DiskOK'
  BY InvParts DEF Mark, DiskOK, NoFileNoEntry
<1>4. \A c \in Commands : EvidenceOf(c) => EvidenceOf(c)'
  BY <1>2 DEF Mark, EvidenceOf, EvidenceGone
<1>5. \A q \in Procs \ {p} : procs[q].pc # "marking"
  BY <1>2 DEF RollbackInv, MarkingAlone
<1>6. /\ procs' = [procs EXCEPT ![p] = Listening] /\ entries' = entries
      /\ flock' \in Procs \cup {Free} /\ UNCHANGED <<kind, applied, told>>
  BY DEF Mark
<1> QED
  BY <1>1, <1>3, <1>4, <1>5, <1>6, LifeKeeps

(* A process that dies leaves its claims behind. *)
LEMMA CrashKeeps ==
    ASSUME RollbackInv, NEW p \in Procs, Crash(p)
    PROVE  RollbackInv' /\ MovesForward
<1>1. Stopped \in ProcState /\ Stopped.pc = "off"
  BY DEF Stopped, ProcState, Places, Results, Nothing
<1>2. DiskOK'
  BY InvParts DEF Crash, DiskOK, NoFileNoEntry, diskVars
<1>3. \A c \in Commands : EvidenceOf(c) => EvidenceOf(c)'
  BY DEF Crash, EvidenceOf, EvidenceGone, diskVars
<1>4. \A q \in Procs \ {p} : procs[q].pc = "marking" => flock' = q /\ marker' = "empty" /\ stateFile'
  BY DEF Crash, RollbackInv, MarkingAlone, diskVars
<1>5. /\ procs' = [procs EXCEPT ![p] = Stopped] /\ entries' = entries
      /\ flock' \in Procs \cup {Free} /\ UNCHANGED <<kind, applied, told>>
  BY InvParts DEF Crash, diskVars
<1> QED
  BY <1>1, <1>2, <1>3, <1>4, <1>5, LifeKeeps

(* The loss of either file: it is remembered by what is left of the two. *)
LEMMA LossKeeps ==
    ASSUME RollbackInv, FileLost
    PROVE  RollbackInv'
<1>1. DiskOK'
  <2>1. CASE UNCHANGED <<stateFile, entries>> /\ marker' = "absent"
    BY <2>1, InvParts DEF DiskOK, NoFileNoEntry
  <2>2. CASE stateFile' = FALSE /\ entries' = [c \in Commands |-> NoEntry] /\ UNCHANGED marker
    <3>1. {c \in Commands : entries'[c].status # "none"} = {}
      BY <2>2 DEF NoEntry
    <3>2. Cardinality({c \in Commands : entries'[c].status # "none"}) <= Capacity
      BY <3>1, FS_EmptySet, RollbackAssumption
    <3>3. entries' \in [Commands -> Entry]
      BY <2>2 DEF NoEntry, Entry, Statuses, Results, Nothing
    <3> QED
      BY <2>2, <3>2, <3>3, InvParts DEF DiskOK, NoFileNoEntry, NoEntry
  <2> QED
    BY <2>1, <2>2 DEF FileLost
<1>2. \A c \in Commands : EvidenceOf(c) => EvidenceOf(c)'
  BY DEF FileLost, EvidenceOf, EvidenceGone
<1>3. UNCHANGED <<kind, flock, procs, applied, told>>
  BY DEF FileLost
<1>4. ProcsTyped' /\ OneOwner' /\ StagesKept' /\ MadeIsTrue' /\ MutatedOnce' /\ RestoreOrder'
  BY <1>3 DEF RollbackInv, ProcsTyped, OneOwner, Owns, StagesKept, Stage, Combined, MadeIsTrue, TrueOf,
     MutatedOnce, RestoreOrder
<1>5. MarkingAlone'
  BY <1>3 DEF FileLost, MarkingAlone
<1>6. EvidenceKept'
  BY <1>2, <1>3 DEF RollbackInv, EvidenceKept, Owns, ProcsTyped, Handling
<1>7. TellsTrue'
  BY <1>3 DEF RollbackInv, TellsTrue, TrueOf, FileLost, NoEntry, Nothing
<1> QED
  BY <1>1, <1>3, <1>4, <1>5, <1>6, <1>7, InvParts DEF RollbackInv, RollbackTypeOK, DiskOK, Entry, Statuses
-----------------------------------------------------------------------------
(* Every step keeps the invariant and, unless a file is lost, moves forward. *)
LEMMA RollbackStep ==
    ASSUME RollbackInv, [RollbackNext]_rollbackVars
    PROVE  RollbackInv' /\ (damaged' = damaged => MovesForward)
<1>1. CASE UNCHANGED rollbackVars
  <2>1. RollbackInv'
    BY <1>1 DEF rollbackVars, RollbackInv, RollbackTypeOK, ProcsTyped, MarkingAlone, NoFileNoEntry,
       EvidenceKept, EvidenceOf, EvidenceGone, Owns, OneOwner, StagesKept, Stage, Combined, MadeIsTrue,
       TrueOf, TellsTrue, MutatedOnce, RestoreOrder
  <2>2. \A d \in Commands : entries[d].status \in Statuses
    BY InvParts DEF DiskOK, Entry
  <2>3. \A d \in Commands : Rank[entries[d].status] \in Nat
    BY <2>2 DEF Rank, Statuses
  <2> QED
    BY <1>1, <2>1, <2>3 DEF MovesForward, rollbackVars
<1>2. ASSUME NEW p \in Procs, Start(p) \/ Open(p) \/ Mark(p) \/ Crash(p)
      PROVE  RollbackInv' /\ MovesForward
  BY <1>2, StartKeeps, OpenKeeps, MarkKeeps, CrashKeeps
<1>3. ASSUME NEW p \in Procs, NEW c \in Commands, Begin(p, c)
      PROVE  RollbackInv' /\ MovesForward
  BY <1>3, BeginKeeps
<1>4. ASSUME NEW p \in Procs,
             Claim(p) \/ RestoreFiles(p) \/ Prepare(p) \/ Rewind(p)
             \/ Record(p) \/ Uncertain(p) \/ Doubt(p) \/ Settle(p)
      PROVE  RollbackInv' /\ MovesForward
  BY <1>4, ClaimingKeeps, FilesKeep, PrepareKeeps, RewindKeeps, RecordKeeps, UncertainKeeps, DoubtKeeps,
     SettleKeeps
<1>5. CASE FileLost
  <2>1. damaged' # damaged
    BY <1>5 DEF FileLost
  <2> QED
    BY <1>5, <2>1, LossKeeps
<1> QED
  BY <1>1, <1>2, <1>3, <1>4, <1>5 DEF RollbackNext

(* The evidence of every rollback is kept, over any number of processes,       *)
(* crashes, failed saves and lost answers, and the loss of one file: whatever  *)
(* was mutated is held as claimed, or the journal is closed for good           *)
(* (rollback_commands.py:3-7).                                                 *)
THEOREM RollbackEvidence == RollbackSpec => []RollbackInv
  BY RollbackStarts, RollbackStep, PTL DEF RollbackSpec

(* A rollback mutates conversation and files at most once each, whatever is     *)
(* reported as restored was restored, and the halves of a combined restore      *)
(* happen in their order, for every number of commands, processes and faults    *)
(* (rollback_commands.py:3-7, machine.py:10185).                                *)
THEOREM RollbacksAreSafe == RollbackSpec => []RollbackSafe
<1>1. RollbackInv => RollbackSafe
  BY DEF RollbackInv, RollbackSafe, SuccessIsTrue, TellsTrue, TrueOf, RollbackTypeOK, Counters
<1> QED
  BY <1>1, RollbackEvidence, PTL

(* An entry of the journal only moves forward and its result, once recorded, is *)
(* the result for good: no transaction of any process, working or failing,      *)
(* takes it back (rollback_commands.py, complete and mark_uncertain).           *)
THEOREM ResultsAreFinal == RollbackSpec => ResultIsFinal
<1>1. RollbackInv /\ [RollbackNext]_rollbackVars =>
        [\A c \in Commands : damaged' = damaged =>
            /\ Rank[entries[c].status] <= Rank[entries'[c].status]
            /\ entries[c].status = "complete" => entries'[c] = entries[c]]_rollbackVars
  BY RollbackStep DEF MovesForward
<1> QED
  BY <1>1, RollbackEvidence, PTL DEF RollbackSpec, ResultIsFinal

-----------------------------------------------------------------------------
(***************************************************************************)
(* The fork journals.                                                      *)
(***************************************************************************)

\* A journal that _load accepts, in which an open fork is shared and children are of their root.
Table(es) ==
    /\ es = [k \in DOMAIN es |-> es[k]]
    /\ DOMAIN es \subseteq ForkRequests
    /\ \A k \in DOMAIN es : es[k] \in ForkEntry

\* What holds of the entry of k, whose canonical request is u.
Sound(es, k, u) ==
    /\ u \in DOMAIN es /\ es[u].root = u
    /\ es[k].status = "complete" => es[k].child \in Children /\ es[k].child[1] = u
    /\ u = k => es[k].status # "alias"
    /\ u # k => \/ es[k].status = "alias" /\ es[u].status \in ForkOpen \ {"alias"}
                \/ es[k].status = "rejected" /\ es[u].status = "rejected"
                \/ es[k].status = "complete" /\ es[u].status = "complete"
                   /\ es[k].child = es[u].child

OneOpenFork(es) ==
    \A j, k \in DOMAIN es :
        es[j].status \in ForkOpen /\ es[k].status \in ForkOpen => es[j].root = es[k].root

Good(es) == Table(es) /\ OneOpenFork(es) /\ \A k \in DOMAIN es : Sound(es, k, es[k].root)

\* What a journal may become: no entry is lost, moved, or taken back.
Later(es, fs) ==
    /\ DOMAIN es \subseteq DOMAIN fs
    /\ \A k \in DOMAIN es :
        /\ fs[k].root = es[k].root
        /\ es[k].status = "complete" => fs[k].status = "complete" /\ fs[k].child = es[k].child
        /\ es[k].status = "rejected" => fs[k].status = "rejected"
        /\ es[k].status # "intent" => fs[k].status # "intent"

ForkPcs == {"idle", "begun", "claim", "refresh", "rpc", "sent", "lookup", "finish", "tell"}
Volatiles == {NotVolatile, UnknownChild} \cup Children

ForkTyped ==
    /\ forkEngine \in {"codex", "claude"}
    /\ forkPc \in [ForkRequests -> ForkPcs]
    /\ forkSeen \in [ForkRequests -> ForkEntry]
    /\ forkVolatile \in [ForkRequests -> Volatiles]
    /\ forkCall \in [ForkRequests -> {"none", "flight", "committed", "refused"}]
    /\ forkCount \in [ForkRequests -> 0 .. 1]
    /\ forkTitle \in [ForkRequests -> {"none", "marker", "human"}]
    /\ forkTold \in [ForkRequests -> SUBSET ({ErrorAnswer, GoneAnswer} \cup Children)]
    /\ forkRec \subseteq ForkRequests /\ forkKnown \subseteq ForkRequests
    /\ forkHurt \in 0 .. ForkFaults

\* The file may be one failed save ahead of the memory.
JournalsKept == Good(forkEntries) /\ Good(forkDisk) /\ Later(forkEntries, forkDisk)

Holds(r, s) == r \in DOMAIN forkEntries /\ forkEntries[r].root = s

Submitting(r) == forkPc[r] \in {"rpc", "sent"}

\* What is sent has been claimed, by one handler; what is rejected never took effect.
CallsKept ==
    /\ \A s \in ForkRequests : forkCount[s] = IF forkCall[s] = "committed" THEN 1 ELSE 0
    /\ \A s \in ForkRequests :
        forkCall[s] # "none" => Holds(s, s) /\ forkEntries[s].status # "intent"
    /\ \A r \in ForkRequests : Submitting(r) =>
        /\ forkEntries[forkSeen[r].root].status # "intent"
        /\ (forkPc[r] = "rpc") <=> (forkCall[forkSeen[r].root] = "none")
    /\ \A r, q \in ForkRequests :
        Submitting(r) /\ Submitting(q) /\ forkSeen[r].root = forkSeen[q].root => r = q
    /\ \A s \in DOMAIN forkDisk : forkDisk[s].status = "rejected" /\ forkDisk[s].root = s =>
        /\ forkCall[s] \in {"none", "refused"}
        /\ \A r \in ForkRequests : forkSeen[r].root = s => forkPc[r] # "rpc"

\* What handlers know of the journal, and the children they have found.
Knows(r, pc, e, v) ==
    /\ pc \in {"begun", "claim", "refresh", "rpc", "sent", "lookup"} => Holds(r, e.root)
    /\ pc = "begun" /\ e.status = "complete" => e.child \in Children /\ e.child[1] = e.root
    /\ pc = "begun" /\ e.status = "rejected" => forkEntries[r].status = "rejected"
    /\ pc \in {"finish", "tell"} => e.child \in Children /\ Holds(r, e.child[1])
    /\ pc = "tell" => forkEntries[r].status = "complete" /\ forkEntries[r].child = e.child
    /\ v \in Children => Holds(r, v[1])

HandlersKept == \A r \in ForkRequests : Knows(r, forkPc[r], forkSeen[r], forkVolatile[r])

\* A child that was told of is recorded, and so is one that gave its title away.
ToldKept ==
    /\ \A r \in ForkRequests : \A c \in forkTold[r] \cap Children :
        r \in DOMAIN forkEntries /\ forkEntries[r].status = "complete" /\ forkEntries[r].child = c
    /\ \A s \in ForkRequests :
        /\ forkCount[s] = 1 => forkTitle[s] # "none"
        /\ forkTitle[s] = "human" => Holds(s, s) /\ forkEntries[s].status = "complete"

\* A step loses nothing, and one that is no refusal rejects nothing.
Moved == JournalsKept' /\ Later(forkEntries, forkEntries') /\ forkHurt' \in 0 .. ForkFaults

NoNewRejects ==
    \A k \in DOMAIN forkDisk' : forkDisk'[k].status = "rejected" =>
        k \in DOMAIN forkDisk /\ forkDisk[k].status = "rejected" /\ forkDisk[k].root = forkDisk'[k].root

\* A step of the handler or reconciler of r changes what it knows, and nothing of the others.
StepOf(r) ==
    /\ \E pc \in ForkPcs : forkPc' = [forkPc EXCEPT ![r] = pc]
    /\ \E e \in ForkEntry : forkSeen' = [forkSeen EXCEPT ![r] = e]
    /\ \E v \in Volatiles : forkVolatile' = [forkVolatile EXCEPT ![r] = v]
    /\ Knows(r, forkPc[r], forkSeen[r], forkVolatile[r])'

ForkInv == ForkTyped /\ JournalsKept /\ CallsKept /\ HandlersKept /\ ToldKept

-----------------------------------------------------------------------------
\* A journal is later than itself.
LEMMA LaterSame == ASSUME NEW es PROVE Later(es, es)
BY DEF Later

\* One entry of a good journal.
LEMMA GoodAt ==
    ASSUME NEW es, Good(es), NEW k \in DOMAIN es, NEW u, u = es[k].root
    PROVE  /\ k \in ForkRequests /\ es[k] \in ForkEntry /\ Sound(es, k, u)
           /\ u \in DOMAIN es /\ es[u].root = u
BY DEF Good, Table, Sound

\* The aliases of a good journal are what _load accepts.
LEMMA GoodIsValid == ASSUME NEW es, Good(es) PROVE AliasesValid(es)
<1>1. SUFFICES ASSUME NEW k \in DOMAIN es, NEW u, u = es[k].root, u # k
      PROVE  /\ u \in DOMAIN es /\ es[u].root = u
             /\ \/ es[k].status = "alias" /\ es[u].status \in ForkOpen \ {"alias"}
                \/ es[k].status = "rejected" /\ es[u].status = "rejected"
                \/ es[k].status = "complete" /\ es[u].status = "complete"
                   /\ es[k].child = es[u].child
  BY DEF AliasesValid
<1> QED
  BY <1>1, GoodAt DEF Sound

\* What makes a journal good, entry by entry.
LEMMA GoodFrom ==
    ASSUME NEW fs, fs = [k \in DOMAIN fs |-> fs[k]], DOMAIN fs \subseteq ForkRequests,
           \A k \in DOMAIN fs : fs[k] \in ForkEntry, OneOpenFork(fs),
           \A k \in DOMAIN fs : \A u : u = fs[k].root => Sound(fs, k, u)
    PROVE  Good(fs)
BY DEF Good, Table

\* What marks entries changes nothing else of them.
LEMMA WithStatusIs ==
    ASSUME NEW es, Good(es), NEW keys, NEW st, NEW child, NEW fs,
           st \in ForkStatuses, child \in Children \/ child = NoChild,
           fs = WithStatus(es, keys, st, child)
    PROVE  /\ fs = [k \in DOMAIN fs |-> fs[k]]
           /\ DOMAIN fs = DOMAIN es /\ DOMAIN fs \subseteq ForkRequests
           /\ \A k \in DOMAIN es : fs[k] \in ForkEntry /\ fs[k].root = es[k].root
           /\ \A k \in DOMAIN es : k \in keys => fs[k].status = st /\ fs[k].child = child
           /\ \A k \in DOMAIN es : k \notin keys => fs[k] = es[k]
<1>1. DOMAIN fs = DOMAIN es /\ fs = [k \in DOMAIN fs |-> fs[k]]
  BY DEF WithStatus
<1>2. DOMAIN es \subseteq ForkRequests /\ \A k \in DOMAIN es : es[k] \in ForkEntry
  BY DEF Good, Table
<1>3. ASSUME NEW k \in DOMAIN es
      PROVE  fs[k] = IF k \in keys THEN [es[k] EXCEPT !.status = st, !.child = child] ELSE es[k]
  BY DEF WithStatus
<1>4. ASSUME NEW k \in DOMAIN es, k \in keys
      PROVE  /\ fs[k] \in ForkEntry /\ fs[k].root = es[k].root
             /\ fs[k].status = st /\ fs[k].child = child
  <2>1. fs[k] = [es[k] EXCEPT !.status = st, !.child = child] /\ es[k] \in ForkEntry
    BY <1>2, <1>3, <1>4
  <2> QED
    BY <2>1 DEF ForkEntry
<1>5. ASSUME NEW k \in DOMAIN es, k \notin keys PROVE fs[k] = es[k]
  BY <1>3, <1>5
<1> QED
  BY <1>1, <1>2, <1>4, <1>5

\* The canonical request of an open fork is open.
LEMMA RootIsOpen ==
    ASSUME NEW es, Good(es), NEW k \in DOMAIN es, es[k].status \in ForkOpen, NEW u, u = es[k].root
    PROVE  u \in DOMAIN es /\ es[u].root = u /\ es[u].status \in ForkOpen \ {"alias"}
BY GoodAt DEF Sound, ForkOpen

\* Claiming a fork, or doubting it, keeps a good journal good.
LEMMA MarkedIsGood ==
    ASSUME NEW es, Good(es), NEW s \in DOMAIN es, es[s].root = s, es[s].status \in ForkOpen,
           NEW st \in {"submitted", "uncertain"}, NEW keys, \A k : k \in keys <=> k = s,
           NEW fs, fs = WithStatus(es, keys, st, NoChild)
    PROVE  /\ Good(fs) /\ Later(es, fs) /\ DOMAIN fs = DOMAIN es /\ fs[s].status = st
           /\ \A k \in DOMAIN es : fs[k].status = "rejected" => es[k].status = "rejected"
<1> DEFINE none == NoChild
<1>0. st \in ForkStatuses /\ (none \in Children \/ none = NoChild)
  BY DEF ForkStatuses, ForkOpen
<1>0a. fs = WithStatus(es, keys, st, none) /\ \A k : k \in keys <=> k = s
  OBVIOUS
<1> HIDE DEF none
<1>0b. /\ fs = [k \in DOMAIN fs |-> fs[k]]
       /\ DOMAIN fs = DOMAIN es /\ DOMAIN fs \subseteq ForkRequests
       /\ \A k \in DOMAIN es : fs[k] \in ForkEntry /\ fs[k].root = es[k].root
       /\ \A k \in DOMAIN es : k \in keys => fs[k].status = st /\ fs[k].child = none
       /\ \A k \in DOMAIN es : k \notin keys => fs[k] = es[k]
  <2>1. fs = WithStatus(es, keys, st, none) /\ st \in ForkStatuses /\ (none \in Children \/ none = NoChild)
    BY <1>0, <1>0a
  <2> QED
    BY ONLY <2>1, Good(es), WithStatusIs
<1>1. /\ fs = [k \in DOMAIN fs |-> fs[k]]
      /\ DOMAIN fs = DOMAIN es /\ DOMAIN fs \subseteq ForkRequests
      /\ \A k \in DOMAIN es : fs[k] \in ForkEntry /\ fs[k].root = es[k].root
      /\ \A k \in DOMAIN es : k # s => fs[k] = es[k]
      /\ fs[s].status = st
  <2>1. fs = [k \in DOMAIN fs |-> fs[k]]
    BY <1>0b
  <2>2. \A k \in DOMAIN es : fs[k] \in ForkEntry /\ fs[k].root = es[k].root
    BY <1>0b
  <2>3. \A k \in DOMAIN es : k # s => fs[k] = es[k]
    BY <1>0a, <1>0b
  <2>4. fs[s].status = st
    BY <1>0a, <1>0b
  <2> QED
    BY <1>0b, <2>1, <2>2, <2>3, <2>4
<1>2. st \in ForkOpen \ {"alias"} /\ st \notin {"rejected", "complete", "intent"}
  BY DEF ForkOpen
<1>3. ASSUME NEW k \in DOMAIN fs, NEW u, u = fs[k].root PROVE Sound(fs, k, u)
  <2>1. k \in DOMAIN es /\ u = es[k].root /\ Sound(es, k, u)
    BY <1>1, <1>3, GoodAt
  <2>2. u \in DOMAIN fs /\ fs[u].root = u
    BY <1>1, <2>1 DEF Sound
  <2>3. CASE k = s
    BY <1>1, <1>2, <2>1, <2>2, <2>3 DEF Sound
  <2>4. CASE k # s /\ u # s
    <3>1. fs[k] = es[k] /\ fs[u] = es[u]
      BY <1>1, <2>1, <2>2, <2>4
    <3> QED
      BY <2>1, <2>2, <3>1 DEF Sound
  <2>5. CASE k # s /\ u = s
    <3>1. fs[k] = es[k] /\ es[u].status \notin {"rejected", "complete"} /\ fs[u].status = st
      BY <1>1, <2>1, <2>5 DEF ForkOpen
    <3> QED
      BY <1>2, <2>1, <2>2, <2>5, <3>1 DEF Sound
  <2> QED
    BY <2>3, <2>4, <2>5
<1>4. ASSUME NEW j \in DOMAIN fs, NEW k \in DOMAIN fs, fs[j].status \in ForkOpen, fs[k].status \in ForkOpen
      PROVE  fs[j].root = fs[k].root
  <2>1. /\ j \in DOMAIN es /\ k \in DOMAIN es
        /\ es[j].status \in ForkOpen /\ es[k].status \in ForkOpen
        /\ es[j].root = fs[j].root /\ es[k].root = fs[k].root
    BY <1>1, <1>4
  <2> QED
    BY <2>1 DEF Good, OneOpenFork
<1>5. OneOpenFork(fs)
  BY <1>4 DEF OneOpenFork
<1>6. Good(fs)
  BY <1>1, <1>3, <1>5, GoodFrom
<1>7. ASSUME NEW k \in DOMAIN es
      PROVE  /\ fs[k].root = es[k].root
             /\ es[k].status = "complete" => fs[k].status = "complete" /\ fs[k].child = es[k].child
             /\ es[k].status = "rejected" => fs[k].status = "rejected"
             /\ es[k].status # "intent" => fs[k].status # "intent"
             /\ fs[k].status = "rejected" => es[k].status = "rejected"
  <2>1. CASE k = s
    BY <1>1, <1>2, <2>1 DEF ForkOpen
  <2>2. CASE k # s
    BY <1>1, <2>2
  <2> QED
    BY <2>1, <2>2
<1> QED
  BY <1>1, <1>6, <1>7 DEF Later

\* Settling a fork for its whole group keeps a good journal good.
LEMMA SettledIsGood ==
    ASSUME NEW es, Good(es), NEW s \in DOMAIN es, es[s].root = s, NEW child, NEW st,
           \/ /\ st = "complete" /\ child \in Children /\ child[1] = s
              /\ es[s].status # "rejected" /\ (es[s].status = "complete" => es[s].child = child)
           \/ st = "rejected" /\ child = NoChild /\ es[s].status # "complete",
           NEW fs, fs = WithStatus(es, ForkGroup(es, s), st, child)
    PROVE  /\ Good(fs) /\ Later(es, fs) /\ DOMAIN fs = DOMAIN es
           /\ \A k \in DOMAIN es : es[k].root = s => fs[k].status = st /\ fs[k].child = child
           /\ \A k \in DOMAIN es : es[k].root # s => fs[k] = es[k]
<1>0. /\ st \in ForkStatuses /\ st \notin ForkOpen /\ st # "intent" /\ st # "alias"
      /\ child \in Children \/ child = NoChild
  BY DEF ForkStatuses, ForkOpen
<1> DEFINE keys == ForkGroup(es, s)
<1>0a. fs = WithStatus(es, keys, st, child) /\ \A k \in DOMAIN es : k \in keys <=> es[k].root = s
  BY DEF ForkGroup
<1> HIDE DEF keys
<1>0b. /\ fs = [k \in DOMAIN fs |-> fs[k]]
       /\ DOMAIN fs = DOMAIN es /\ DOMAIN fs \subseteq ForkRequests
       /\ \A k \in DOMAIN es : fs[k] \in ForkEntry /\ fs[k].root = es[k].root
       /\ \A k \in DOMAIN es : k \in keys => fs[k].status = st /\ fs[k].child = child
       /\ \A k \in DOMAIN es : k \notin keys => fs[k] = es[k]
  BY <1>0, <1>0a, WithStatusIs
<1>1. /\ fs = [k \in DOMAIN fs |-> fs[k]]
      /\ DOMAIN fs = DOMAIN es /\ DOMAIN fs \subseteq ForkRequests
      /\ \A k \in DOMAIN es : fs[k] \in ForkEntry /\ fs[k].root = es[k].root
      /\ \A k \in DOMAIN es : es[k].root = s => fs[k].status = st /\ fs[k].child = child
      /\ \A k \in DOMAIN es : es[k].root # s => fs[k] = es[k]
  <2>1. fs = [k \in DOMAIN fs |-> fs[k]]
    BY <1>0b
  <2>2. \A k \in DOMAIN es : fs[k] \in ForkEntry /\ fs[k].root = es[k].root
    BY <1>0b
  <2>3. \A k \in DOMAIN es : es[k].root = s => fs[k].status = st /\ fs[k].child = child
    BY <1>0a, <1>0b
  <2>4. \A k \in DOMAIN es : es[k].root # s => fs[k] = es[k]
    BY <1>0a, <1>0b
  <2> QED
    BY <1>0b, <2>1, <2>2, <2>3, <2>4
<1>2. ASSUME NEW k \in DOMAIN fs, NEW u, u = fs[k].root PROVE Sound(fs, k, u)
  <2>1. k \in DOMAIN es /\ u = es[k].root /\ Sound(es, k, u) /\ u \in DOMAIN es /\ es[u].root = u
    BY <1>1, <1>2, GoodAt
  <2>2. u \in DOMAIN fs /\ fs[u].root = u
    BY <1>1, <2>1
  <2>3. CASE u = s
    <3>1. /\ fs[k].status = st /\ fs[k].child = child
          /\ fs[u].status = st /\ fs[u].child = child
      BY <1>1, <2>1, <2>3
    <3> QED
      BY <1>0, <2>2, <2>3, <3>1 DEF Sound
  <2>4. CASE u # s
    <3>1. fs[k] = es[k] /\ fs[u] = es[u]
      BY <1>1, <2>1, <2>4
    <3> QED
      BY <2>1, <2>2, <3>1 DEF Sound
  <2> QED
    BY <2>3, <2>4
<1>3. ASSUME NEW j \in DOMAIN fs, NEW k \in DOMAIN fs, fs[j].status \in ForkOpen, fs[k].status \in ForkOpen
      PROVE  fs[j].root = fs[k].root
  <2>1. fs[j] = es[j] /\ fs[k] = es[k] /\ j \in DOMAIN es /\ k \in DOMAIN es
    BY <1>0, <1>1, <1>3
  <2> QED
    BY <1>3, <2>1 DEF Good, OneOpenFork
<1>4. OneOpenFork(fs)
  BY <1>3 DEF OneOpenFork
<1>5. Good(fs)
  BY <1>1, <1>2, <1>4, GoodFrom
<1>6. ASSUME NEW k \in DOMAIN es
      PROVE  /\ fs[k].root = es[k].root
             /\ es[k].status = "complete" => fs[k].status = "complete" /\ fs[k].child = es[k].child
             /\ es[k].status = "rejected" => fs[k].status = "rejected"
             /\ es[k].status # "intent" => fs[k].status # "intent"
  <2>1. CASE es[k].root # s
    BY <1>1, <2>1
  <2>2. CASE es[k].root = s
    <3>1. Sound(es, k, s)
      BY <2>2, GoodAt
    <3>2. /\ es[k].status = "complete" => es[s].status = "complete" /\ es[k].child = es[s].child
          /\ es[k].status = "rejected" => es[s].status = "rejected"
      BY <3>1 DEF Sound
    <3>3. fs[k].status = st /\ fs[k].child = child /\ fs[k].root = es[k].root
      BY <1>1, <2>2
    <3> QED
      BY <1>0, <3>2, <3>3
  <2> QED
    BY <2>1, <2>2
<1> QED
  BY <1>1, <1>5, <1>6 DEF Later

\* So does a new entry.
LEMMA BegunIsGood ==
    ASSUME NEW es, Good(es), NEW r \in ForkRequests, r \notin DOMAIN es, NEW e \in Beginnings(es, r),
           NEW fs, fs = [k \in DOMAIN es \cup {r} |-> IF k = r THEN e ELSE es[k]]
    PROVE  /\ Good(fs) /\ Later(es, fs) /\ DOMAIN fs = DOMAIN es \cup {r} /\ fs[r] = e
           /\ e \in ForkEntry /\ e.root \in DOMAIN fs /\ fs[e.root].status \in ForkOpen
           /\ e.status \in {"intent", "alias"} /\ (e.status = "intent" => e.root = r)
           /\ \A k \in DOMAIN es : fs[k] = es[k]
<1>1. DOMAIN fs = DOMAIN es \cup {r} /\ fs[r] = e /\ \A k \in DOMAIN es : fs[k] = es[k]
  OBVIOUS
<1>1a. fs = [k \in DOMAIN fs |-> fs[k]]
  OBVIOUS
<1>2. Later(es, fs)
  BY <1>1 DEF Later
<1>3. /\ e \in ForkEntry /\ e.status \in {"intent", "alias"}
      /\ e.status = "alias" => /\ e.root \in DOMAIN es /\ es[e.root].root = e.root
                               /\ es[e.root].status \in ForkOpen \ {"alias"}
      /\ e.status = "intent" => e.root = r
      /\ \A k \in DOMAIN es : es[k].status \in ForkOpen => es[k].root = e.root
  <2>1. CASE OpenRoots(es) = {} /\ e = [status |-> "intent", root |-> r, child |-> NoChild]
    <3>1. \A k \in DOMAIN es : es[k].status \notin ForkOpen
      BY <2>1 DEF OpenRoots
    <3>2. e \in ForkEntry /\ e.status = "intent" /\ e.root = r
      BY <2>1 DEF ForkEntry, ForkStatuses, ForkOpen
    <3> QED
      BY <3>1, <3>2
  <2>2. ASSUME NEW s \in OpenRoots(es), e = [status |-> "alias", root |-> s, child |-> NoChild]
        PROVE  /\ e \in ForkEntry /\ e.root \in DOMAIN es /\ e.status = "alias"
               /\ es[e.root].root = e.root /\ es[e.root].status \in ForkOpen \ {"alias"}
               /\ \A k \in DOMAIN es : es[k].status \in ForkOpen => es[k].root = e.root
    <3>1. PICK j \in DOMAIN es : es[j].status \in ForkOpen /\ s = es[j].root
      BY DEF OpenRoots
    <3>2. s \in DOMAIN es /\ es[s].root = s /\ es[s].status \in ForkOpen \ {"alias"}
      BY <3>1, RootIsOpen
    <3>3. s \in ForkRequests
      BY <3>2 DEF Good, Table
    <3>4. e \in ForkEntry /\ e.root = s /\ e.status = "alias"
      BY <2>2, <3>3 DEF ForkEntry, ForkStatuses, ForkOpen
    <3>5. \A k \in DOMAIN es : es[k].status \in ForkOpen => es[k].root = s
      BY <3>1 DEF Good, OneOpenFork
    <3> QED
      BY <3>2, <3>4, <3>5
  <2> QED
    BY <2>1, <2>2 DEF Beginnings
<1>4. ASSUME NEW k \in DOMAIN fs, NEW u, u = fs[k].root PROVE Sound(fs, k, u)
  <2>1. CASE k = r /\ e.status = "intent"
    BY <1>1, <1>3, <1>4, <2>1 DEF Sound
  <2>2. CASE k = r /\ e.status = "alias"
    <3>1. u \in DOMAIN es /\ fs[u] = es[u] /\ u # k /\ fs[k].status = "alias"
      BY <1>1, <1>3, <1>4, <2>2
    <3> QED
      BY <1>1, <1>3, <1>4, <2>2, <3>1 DEF Sound
  <2>3. CASE k # r
    <3>1. k \in DOMAIN es /\ fs[k] = es[k] /\ u = es[k].root
      BY <1>1, <1>4, <2>3
    <3>2. Sound(es, k, u) /\ u \in DOMAIN es /\ fs[u] = es[u]
      BY <1>1, <3>1, GoodAt
    <3> QED
      BY <1>1, <3>1, <3>2 DEF Sound
  <2> QED
    BY <1>1, <1>3, <2>1, <2>2, <2>3
<1>5. ASSUME NEW j \in DOMAIN fs, NEW k \in DOMAIN fs, fs[j].status \in ForkOpen, fs[k].status \in ForkOpen
      PROVE  fs[j].root = fs[k].root
  <2>1. ASSUME NEW i \in DOMAIN fs, fs[i].status \in ForkOpen PROVE fs[i].root = e.root
    <3>1. CASE i = r
      BY <1>1, <3>1
    <3>2. CASE i # r
      BY <1>1, <1>3, <2>1, <3>2
    <3> QED
      BY <3>1, <3>2
  <2> QED
    BY <1>5, <2>1
<1>6. OneOpenFork(fs)
  BY <1>5 DEF OneOpenFork
<1>7. DOMAIN fs \subseteq ForkRequests /\ \A k \in DOMAIN fs : fs[k] \in ForkEntry
  <2>1. DOMAIN es \subseteq ForkRequests /\ \A k \in DOMAIN es : es[k] \in ForkEntry
    BY DEF Good, Table
  <2> QED
    BY <1>1, <1>3, <2>1
<1>8. Good(fs)
  BY <1>1a, <1>4, <1>6, <1>7, GoodFrom
<1>9. e.root \in DOMAIN fs /\ fs[e.root].status \in ForkOpen
  BY <1>1, <1>3 DEF ForkOpen
<1> QED
  BY <1>1, <1>2, <1>3, <1>8, <1>9

\* Neither mark of a request without a child is a child.
LEMMA NoChildIs ==
    /\ NoChild \notin Children /\ NotVolatile \notin Children /\ UnknownChild \notin Children
    /\ ErrorAnswer \notin Children /\ GoneAnswer \notin Children
<1>1. \A c \in Children : DOMAIN c = 1 .. 2
  BY DEF Children
<1>2. DOMAIN NoChild = 1 .. 0 /\ DOMAIN NotVolatile = 1 .. 0
  BY DEF NoChild, NotVolatile
<1>3. DOMAIN UnknownChild = 1 .. 1 /\ DOMAIN ErrorAnswer = 1 .. 1 /\ DOMAIN GoneAnswer = 1 .. 1
  BY DEF UnknownChild, ErrorAnswer, GoneAnswer
<1>4. 2 \in 1 .. 2 /\ 2 \notin 1 .. 1 /\ 2 \notin 1 .. 0
  OBVIOUS
<1> QED
  BY <1>1, <1>2, <1>3, <1>4

\* What the journal's steps do, one by one.
LEMMA KeptMoves ==
    ASSUME ForkTyped, JournalsKept, JournalKept
    PROVE  Moved /\ NoNewRejects /\ forkEntries' = forkEntries /\ forkDisk' = forkDisk
<1>1. forkEntries' = forkEntries /\ forkDisk' = forkDisk /\ forkHurt' = forkHurt
  BY DEF JournalKept
<1>2. JournalsKept'
  BY <1>1 DEF JournalsKept
<1>3. NoNewRejects
  BY <1>1 DEF NoNewRejects
<1> QED
  BY <1>1, <1>2, <1>3, LaterSame DEF Moved, ForkTyped

\* The file holds a rejection wherever the memory does.
LEMMA DiskRejects ==
    ASSUME Later(forkEntries, forkDisk), NEW es, Later(forkEntries, es), NEW k \in DOMAIN forkEntries,
           es[k].status = "rejected" => forkEntries[k].status = "rejected", es[k].status = "rejected"
    PROVE  k \in DOMAIN forkDisk /\ forkDisk[k].status = "rejected" /\ forkDisk[k].root = es[k].root
BY DEF Later

\* A save keeps both journals, and rejects nothing that was not rejected.
LEMMA SaveMoves ==
    ASSUME ForkTyped, JournalsKept, NEW es, Good(es), Later(forkEntries, es),
           JournalSaved(es) \/ SaveFailed(es)
    PROVE  /\ Moved
           /\ forkDisk' \in {forkDisk, es}
           /\ (\A k \in DOMAIN es : es[k].status = "rejected" =>
                   k \in DOMAIN forkEntries /\ forkEntries[k].status = "rejected") => NoNewRejects
<1>1. /\ forkDisk' \in {forkDisk, es}
      /\ \/ forkEntries' = es /\ forkDisk' = es
         \/ forkEntries' = forkEntries
      /\ forkHurt' \in 0 .. ForkFaults
  BY ForkAssumption DEF JournalSaved, SaveFailed, ForkTyped
<1>2. JournalsKept' /\ Later(forkEntries, forkEntries')
  <2>1. CASE forkEntries' = es /\ forkDisk' = es
    BY <2>1, LaterSame DEF JournalsKept
  <2>2. CASE forkEntries' = forkEntries /\ forkDisk' = forkDisk
    BY <2>2, LaterSame DEF JournalsKept
  <2>3. CASE forkEntries' = forkEntries /\ forkDisk' = es
    BY <2>3, LaterSame DEF JournalsKept
  <2> QED
    BY <1>1, <2>1, <2>2, <2>3
<1>3. ASSUME \A k \in DOMAIN es : es[k].status = "rejected" =>
                 k \in DOMAIN forkEntries /\ forkEntries[k].status = "rejected"
      PROVE  NoNewRejects
  <2>1. CASE forkDisk' = forkDisk
    BY <2>1 DEF NoNewRejects
  <2>2. CASE forkDisk' = es
    <3>1. ASSUME NEW k \in DOMAIN es, es[k].status = "rejected"
          PROVE  k \in DOMAIN forkDisk /\ forkDisk[k].status = "rejected" /\ forkDisk[k].root = es[k].root
      BY <1>3, <3>1, DiskRejects DEF JournalsKept
    <3> QED
      BY <2>2, <3>1 DEF NoNewRejects
  <2> QED
    BY <1>1, <2>1, <2>2
<1> QED
  BY <1>1, <1>2, <1>3 DEF Moved

\* The journal after a doubt.
LEMMA DoubtOutcome ==
    ASSUME NEW es, Good(es), NEW s \in DOMAIN es, es[s].root = s, es[s].status \in ForkOpen,
           NEW fs, fs = WithStatus(es, {s}, "uncertain", NoChild)
    PROVE  /\ Good(fs) /\ Later(es, fs) /\ DOMAIN fs = DOMAIN es
           /\ \A k \in DOMAIN es : fs[k].status = "rejected" => es[k].status = "rejected"
<1> DEFINE keys == {s}
<1>1. fs = WithStatus(es, keys, "uncertain", NoChild) /\ \A k : k \in keys <=> k = s
  OBVIOUS
<1> HIDE DEF keys
<1> QED
  BY <1>1, MarkedIsGood

\* mark_uncertain, which may follow a failed save of es.
LEMMA DoubtMoves ==
    ASSUME ForkTyped, JournalsKept, NEW r \in ForkRequests, NEW disk, NEW hurt \in 0 .. ForkFaults,
           Good(disk), Later(forkEntries, disk),
           \A k \in DOMAIN disk : disk[k].status = "rejected" =>
               \/ disk = forkDisk
               \/ k \in DOMAIN forkEntries /\ forkEntries[k].status = "rejected",
           MarkUncertain(forkEntries, disk, r, hurt)
    PROVE  Moved /\ NoNewRejects
<1> DEFINE es == IF MayDoubt(forkEntries, r) THEN Doubted(forkEntries, r) ELSE forkEntries
<1>1. /\ Good(es) /\ Later(forkEntries, es) /\ DOMAIN es = DOMAIN forkEntries
      /\ \A k \in DOMAIN forkEntries :
             es[k].status = "rejected" => forkEntries[k].status = "rejected"
  <2>1. CASE MayDoubt(forkEntries, r)
    <3> DEFINE s == forkEntries[r].root
    <3>1. r \in DOMAIN forkEntries /\ Good(forkEntries) /\ forkEntries[s].status \in ForkOpen
      BY <2>1 DEF MayDoubt, JournalsKept, ForkOpen
    <3>2. s \in DOMAIN forkEntries /\ forkEntries[s].root = s
      BY <3>1, GoodAt
    <3>3. es = WithStatus(forkEntries, {s}, "uncertain", NoChild)
      BY <2>1 DEF Doubted
    <3>4. forkEntries[s].status \in ForkOpen 
      BY <3>1
    <3> HIDE DEF s, es
    <3> QED
      BY <3>1, <3>2, <3>3, <3>4, DoubtOutcome
  <2>2. CASE ~MayDoubt(forkEntries, r)
    BY <2>2, LaterSame DEF JournalsKept
  <2> QED
    BY <2>1, <2>2
<1>2. /\ \/ forkEntries' = es /\ forkDisk' = es
         \/ forkEntries' = forkEntries /\ forkDisk' = es
         \/ forkEntries' = forkEntries /\ forkDisk' = disk
      /\ forkHurt' \in 0 .. ForkFaults
  BY ForkAssumption DEF MarkUncertain
<1> HIDE DEF es
<1>3. JournalsKept' /\ Later(forkEntries, forkEntries')
  <2>1. CASE forkEntries' = es /\ forkDisk' = es
    BY <1>1, <2>1, LaterSame DEF JournalsKept
  <2>2. CASE forkEntries' = forkEntries /\ forkDisk' = es
    BY <1>1, <2>2, LaterSame DEF JournalsKept
  <2>3. CASE forkEntries' = forkEntries /\ forkDisk' = disk
    BY <2>3, LaterSame DEF JournalsKept
  <2> QED
    BY <1>2, <2>1, <2>2, <2>3
<1>4. NoNewRejects
  <2>1. CASE forkDisk' = forkDisk
    BY <2>1 DEF NoNewRejects
  <2>2. CASE forkDisk' = es
    <3>1. ASSUME NEW k \in DOMAIN es, es[k].status = "rejected"
          PROVE  k \in DOMAIN forkDisk /\ forkDisk[k].status = "rejected" /\ forkDisk[k].root = es[k].root
      BY <1>1, <3>1, DiskRejects DEF JournalsKept
    <3> QED
      BY <2>2, <3>1 DEF NoNewRejects
  <2>3. CASE forkDisk' = disk /\ disk # forkDisk
    <3>1. ASSUME NEW k \in DOMAIN disk, disk[k].status = "rejected"
          PROVE  k \in DOMAIN forkDisk /\ forkDisk[k].status = "rejected" /\ forkDisk[k].root = disk[k].root
      <4>1. k \in DOMAIN forkEntries /\ forkEntries[k].status = "rejected"
        BY <2>3, <3>1
      <4> QED
        BY <3>1, <4>1, DiskRejects DEF JournalsKept
    <3> QED
      BY <2>3, <3>1 DEF NoNewRejects
  <2> QED
    BY <1>2, <2>1, <2>2, <2>3
<1> QED
  BY <1>2, <1>3, <1>4 DEF Moved

\* What the state of a handler is.
LEMMA Handler ==
    ASSUME ForkInv, NEW r \in ForkRequests
    PROVE  /\ forkPc \in [ForkRequests -> ForkPcs] /\ forkPc[r] \in ForkPcs
           /\ forkSeen \in [ForkRequests -> ForkEntry]
           /\ forkSeen[r] \in ForkEntry /\ forkSeen[r].root \in ForkRequests
           /\ forkVolatile \in [ForkRequests -> Volatiles] /\ forkVolatile[r] \in Volatiles
           /\ Knows(r, forkPc[r], forkSeen[r], forkVolatile[r])
BY DEF ForkInv, ForkTyped, HandlersKept, ForkEntry

\* The handler that claims its fork.
LEMMA ClaimOutcome ==
    ASSUME ForkInv, NEW r \in ForkRequests, r \in DOMAIN forkEntries, MayClaim(forkEntries, r),
           NEW fs, fs = Claimed(forkEntries, r)
    PROVE  /\ Good(fs) /\ Later(forkEntries, fs)
           /\ \A k \in DOMAIN fs : fs[k].status = "rejected" =>
                  k \in DOMAIN forkEntries /\ forkEntries[k].status = "rejected"
           /\ forkEntries[r].root \in DOMAIN fs /\ fs[forkEntries[r].root].status = "submitted"
<1> DEFINE s == forkEntries[r].root
<1>1. /\ Good(forkEntries) /\ forkEntries[s].status = "intent"
      /\ fs = WithStatus(forkEntries, {s}, "submitted", NoChild)
  BY DEF ForkInv, JournalsKept, MayClaim, Claimed
<1>2. s \in DOMAIN forkEntries /\ forkEntries[s].root = s
  BY <1>1, GoodAt
<1> HIDE DEF s
<1>3. /\ Good(fs) /\ Later(forkEntries, fs) /\ DOMAIN fs = DOMAIN forkEntries
      /\ fs[s].status = "submitted"
      /\ \A k \in DOMAIN forkEntries : fs[k].status = "rejected" => forkEntries[k].status = "rejected"
  <2> DEFINE keys == {s}
  <2>1. forkEntries[s].status \in ForkOpen
    BY <1>1 DEF ForkOpen
  <2>2. fs = WithStatus(forkEntries, keys, "submitted", NoChild) /\ \A k : k \in keys <=> k = s
    BY <1>1
  <2> HIDE DEF keys
  <2> QED
    BY <1>1, <1>2, <2>1, <2>2, MarkedIsGood
<1> QED
  BY <1>2, <1>3 DEF s

\* A refusal rejects the group of its canonical request and nothing else.
LEMMA RejectOutcome ==
    ASSUME ForkInv, NEW r \in ForkRequests, Holds(r, forkSeen[r].root), RejectFork(r)
    PROVE  /\ Moved
           /\ \A k \in DOMAIN forkDisk' :
                  forkDisk'[k].status = "rejected" /\ forkDisk'[k].root # forkSeen[r].root =>
                      /\ k \in DOMAIN forkDisk /\ forkDisk[k].status = "rejected"
                      /\ forkDisk[k].root = forkDisk'[k].root
<1> DEFINE s == forkSeen[r].root
           fs == AllRejected(forkEntries, r)
<1>1. /\ ForkTyped /\ JournalsKept /\ Good(forkEntries) /\ Later(forkEntries, forkDisk)
      /\ r \in DOMAIN forkEntries /\ forkEntries[r].root = s
  BY DEF ForkInv, JournalsKept, Holds
<1>2. s \in DOMAIN forkEntries /\ forkEntries[s].root = s
  BY <1>1, GoodAt
<1>3. CASE ~MayReject(forkEntries, r) /\ JournalKept
  BY <1>1, <1>3, KeptMoves DEF NoNewRejects
<1>4. CASE MayReject(forkEntries, r) /\ (JournalSaved(fs) \/ SaveFailed(fs))
  <2>1. fs = WithStatus(forkEntries, ForkGroup(forkEntries, s), "rejected", NoChild)
        /\ forkEntries[s].status # "complete"
    BY <1>1, <1>4 DEF AllRejected, MayReject
  <2> HIDE DEF s, fs
  <2>2. /\ Good(fs) /\ Later(forkEntries, fs) /\ DOMAIN fs = DOMAIN forkEntries
        /\ \A k \in DOMAIN forkEntries : forkEntries[k].root # s => fs[k] = forkEntries[k]
    BY <1>1, <1>2, <2>1, SettledIsGood
  <2>3. Moved /\ forkDisk' \in {forkDisk, fs}
    BY <1>1, <1>4, <2>2, SaveMoves
  <2>4. ASSUME NEW k \in DOMAIN fs, fs[k].status = "rejected", fs[k].root # s
        PROVE  k \in DOMAIN forkDisk /\ forkDisk[k].status = "rejected" /\ forkDisk[k].root = fs[k].root
    <3>1. fs[k].root = forkEntries[k].root
      BY <2>2, <2>4 DEF Later
    <3>2. fs[k] = forkEntries[k]
      BY <2>2, <2>4, <3>1
    <3> QED
      BY <1>1, <2>2, <2>4, <3>2, DiskRejects
  <2>5. \A k \in DOMAIN forkDisk' :
            forkDisk'[k].status = "rejected" /\ forkDisk'[k].root # s =>
                /\ k \in DOMAIN forkDisk /\ forkDisk[k].status = "rejected"
                /\ forkDisk[k].root = forkDisk'[k].root
    <3>1. CASE forkDisk' = forkDisk
      BY <3>1
    <3>2. CASE forkDisk' = fs
      BY <2>4, <3>2
    <3> QED
      BY <2>3, <3>1, <3>2
  <2> QED
    BY <2>3, <2>5 DEF s
<1> QED
  BY <1>3, <1>4 DEF RejectFork

\* What a handler knows of the end of its fork.
LEMMA MayCompleteIs ==
    ASSUME ForkInv, NEW r \in ForkRequests, forkPc[r] = "finish",
           MayComplete(forkEntries, r, forkSeen[r].child),
           NEW fs, fs = Completed(forkEntries, r, forkSeen[r].child)
    PROVE  /\ Good(fs) /\ Later(forkEntries, fs)
           /\ \A k \in DOMAIN fs : fs[k].status = "rejected" =>
                  k \in DOMAIN forkEntries /\ forkEntries[k].status = "rejected"
           /\ r \in DOMAIN fs /\ fs[r].status = "complete" /\ fs[r].child = forkSeen[r].child
<1> DEFINE s == forkEntries[r].root
           c == forkSeen[r].child
<1>1. /\ Good(forkEntries) /\ c \in Children /\ c[1] = s /\ r \in DOMAIN forkEntries
      /\ forkEntries[r].status # "rejected"
      /\ forkEntries[r].status = "complete" => forkEntries[r].child = c
      /\ fs = WithStatus(forkEntries, ForkGroup(forkEntries, s), "complete", c)
  <2>1. c \in Children /\ Holds(r, c[1])
    BY Handler DEF Knows
  <2> QED
    BY <2>1 DEF ForkInv, JournalsKept, Holds, MayComplete, Completed
<1>2. Sound(forkEntries, r, s) /\ s \in DOMAIN forkEntries /\ forkEntries[s].root = s
  BY <1>1, GoodAt
<1>3. /\ forkEntries[s].status # "rejected"
      /\ forkEntries[s].status = "complete" => forkEntries[s].child = c
  <2>1. CASE r = s
    BY <1>1, <2>1
  <2>2. CASE r # s
    BY <1>1, <1>2, <2>2 DEF Sound, ForkOpen
  <2> QED
    BY <2>1, <2>2
<1> HIDE DEF s, c
<1>4. /\ Good(fs) /\ Later(forkEntries, fs) /\ DOMAIN fs = DOMAIN forkEntries
      /\ \A k \in DOMAIN forkEntries : forkEntries[k].root = s => fs[k].status = "complete" /\ fs[k].child = c
      /\ \A k \in DOMAIN forkEntries : forkEntries[k].root # s => fs[k] = forkEntries[k]
  BY <1>1, <1>2, <1>3, SettledIsGood
<1>5. forkEntries[r].root = s
  BY DEF s
<1> QED
  BY <1>1, <1>4, <1>5 DEF c

\* Every step keeps the journals; only a refusal rejects.
LEMMA JournalStep ==
    ASSUME ForkInv, ForkNext
    PROVE  /\ Moved
           /\ NoNewRejects \/ \E r \in ForkRequests : NeverSent(r) \/ ForkRejected(r)
<1>0. ForkTyped /\ JournalsKept
  BY DEF ForkInv
<1>1. CASE JournalKept
  BY <1>0, <1>1, KeptMoves
<1>2. ASSUME NEW r \in ForkRequests, HandleFork(r), ~JournalKept PROVE Moved /\ NoNewRejects
  <2>1. r \notin DOMAIN forkEntries
    BY <1>2 DEF HandleFork
  <2>2. PICK e \in Beginnings(forkEntries, r) :
           LET new == [k \in DOMAIN forkEntries \cup {r} |-> IF k = r THEN e ELSE forkEntries[k]] IN
           JournalSaved(new) \/ SaveFailed(new)
    BY <1>2 DEF HandleFork
  <2> DEFINE fs == [k \in DOMAIN forkEntries \cup {r} |-> IF k = r THEN e ELSE forkEntries[k]]
  <2>3. JournalSaved(fs) \/ SaveFailed(fs)
    BY <2>2
  <2>4. /\ Good(fs) /\ Later(forkEntries, fs) /\ DOMAIN fs = DOMAIN forkEntries \cup {r} /\ fs[r] = e
        /\ e.status \in {"intent", "alias"} /\ \A k \in DOMAIN forkEntries : fs[k] = forkEntries[k]
    BY <2>1, BegunIsGood DEF ForkInv, JournalsKept
  <2> HIDE DEF fs
  <2>5. \A k \in DOMAIN fs : fs[k].status = "rejected" =>
            k \in DOMAIN forkEntries /\ forkEntries[k].status = "rejected"
    BY <2>4
  <2> QED
    BY <1>0, <2>3, <2>4, <2>5, SaveMoves
<1>3. ASSUME NEW r \in ForkRequests, ClaimFork(r), ~JournalKept PROVE Moved /\ NoNewRejects
  <2> DEFINE fs == Claimed(forkEntries, r)
  <2>1. r \in DOMAIN forkEntries /\ MayClaim(forkEntries, r) /\ (JournalSaved(fs) \/ SaveFailed(fs))
    BY <1>3 DEF ClaimFork
  <2>2. /\ Good(fs) /\ Later(forkEntries, fs)
        /\ \A k \in DOMAIN fs : fs[k].status = "rejected" =>
               k \in DOMAIN forkEntries /\ forkEntries[k].status = "rejected"
    BY <2>1, ClaimOutcome
  <2> HIDE DEF fs
  <2> QED
    BY <1>0, <2>1, <2>2, SaveMoves
<1>4. ASSUME NEW r \in ForkRequests, NeverSent(r) \/ ForkRejected(r) PROVE Moved
  <2>1. RejectFork(r) /\ forkPc[r] \in {"rpc", "sent"}
    BY <1>4 DEF NeverSent, ForkRejected, At
  <2>2. Holds(r, forkSeen[r].root)
    BY <2>1, Handler DEF Knows
  <2> QED
    BY <2>1, <2>2, RejectOutcome
<1>5. ASSUME NEW r \in ForkRequests, OutcomeUnknown(r) PROVE Moved /\ NoNewRejects
  <2>1. /\ MarkUncertain(forkEntries, forkDisk, r, forkHurt) /\ forkHurt \in 0 .. ForkFaults
        /\ Good(forkDisk) /\ Later(forkEntries, forkDisk)
    BY <1>0, <1>5 DEF OutcomeUnknown, ForkTyped, JournalsKept
  <2> QED
    BY <1>0, <2>1, DoubtMoves
<1>6. ASSUME NEW r \in ForkRequests, FinishFork(r) PROVE Moved /\ NoNewRejects
  <2> DEFINE c  == forkSeen[r].child
             fs == Completed(forkEntries, r, c)
  <2>1. forkPc[r] = "finish" /\ forkHurt \in 0 .. ForkFaults /\ Good(forkDisk) /\ Later(forkEntries, forkDisk)
    BY <1>0, <1>6 DEF FinishFork, At, ForkTyped, JournalsKept
  <2>2. CASE MayComplete(forkEntries, r, c)
    <3>1. /\ Good(fs) /\ Later(forkEntries, fs)
          /\ \A k \in DOMAIN fs : fs[k].status = "rejected" =>
                 k \in DOMAIN forkEntries /\ forkEntries[k].status = "rejected"
      BY <2>1, <2>2, MayCompleteIs
    <3>2. CASE JournalSaved(fs)
      <4> HIDE DEF fs
      <4> QED
        BY <1>0, <3>1, <3>2, SaveMoves
    <3>3. ASSUME NEW disk \in {forkDisk, fs}, forkHurt < ForkFaults,
                 MarkUncertain(forkEntries, disk, r, forkHurt + 1)
          PROVE  Moved /\ NoNewRejects
      <4>1. forkHurt + 1 \in 0 .. ForkFaults
        BY <2>1, <3>3, ForkAssumption
      <4> HIDE DEF fs
      <4>2. Good(disk) /\ Later(forkEntries, disk)
            /\ \A k \in DOMAIN disk : disk[k].status = "rejected" =>
                   \/ disk = forkDisk
                   \/ k \in DOMAIN forkEntries /\ forkEntries[k].status = "rejected"
        BY <2>1, <3>1
      <4> QED
        BY <1>0, <3>3, <4>1, <4>2, DoubtMoves
    <3> QED
      BY <1>6, <2>2, <3>2, <3>3 DEF FinishFork
  <2>3. CASE ~MayComplete(forkEntries, r, c)
    <3>1. MarkUncertain(forkEntries, forkDisk, r, forkHurt)
      BY <1>6, <2>3 DEF FinishFork
    <3> QED
      BY <1>0, <2>1, <3>1, DoubtMoves
  <2> QED
    BY <2>2, <2>3
<1>7. CASE ForkCrash
  <2>1. forkEntries' = forkDisk /\ forkDisk' = forkDisk /\ forkHurt' \in 0 .. ForkFaults
    BY <1>0, <1>7, ForkAssumption DEF ForkCrash, ForkTyped
  <2>2. JournalsKept' /\ Later(forkEntries, forkEntries')
    BY <1>0, <2>1, LaterSame DEF JournalsKept
  <2>3. NoNewRejects
    BY <2>1 DEF NoNewRejects
  <2> QED
    BY <2>1, <2>2, <2>3 DEF Moved
<1>8. CASE \E r \in ForkRequests :
          \/ SourceGone(r) \/ Decide(r) \/ Refresh(r) \/ SendFork(r) \/ ForkAnswered(r)
          \/ LookAgain(r) \/ TellChild(r) \/ ReconcileFork(r) \/ ForkCommits(r) \/ ForkRefused(r)
  <2>1. JournalKept
    BY <1>8 DEF SourceGone, Decide, Refresh, SendFork, ForkAnswered, LookAgain, TellChild,
                ReconcileFork, ForkCommits, ForkRefused, JournalKept
  <2> QED
    BY <1>1, <2>1
<1> QED
  BY <1>1, <1>2, <1>3, <1>4, <1>5, <1>6, <1>7, <1>8 DEF ForkNext

\* What marks may find.
LEMMA FindableIs ==
    ASSUME ForkInv, NEW s \in ForkRequests, NEW c \in Findable(s)
    PROVE  c \in Children /\ c[1] = s /\ Holds(s, s)
<1>1. forkCount[s] \in 0 .. 1 /\ (forkCount[s] = 1 <=> forkCall[s] = "committed")
  BY DEF ForkInv, ForkTyped, CallsKept
<1>2. PICK n \in 1 .. forkCount[s] : c = <<s, n>>
  BY DEF Findable
<1>3. n = 1 /\ forkCount[s] = 1
  BY <1>1, <1>2
<1>4. Holds(s, s)
  BY <1>1, <1>3 DEF ForkInv, CallsKept
<1> QED
  BY <1>2, <1>3, <1>4 DEF Children

\* What is held stays held, and what is known stays true.
LEMMA HoldsLater ==
    ASSUME Moved, NEW r, NEW s, Holds(r, s)
    PROVE  Holds(r, s)'
BY DEF Moved, Later, Holds

\* What a handler knew is true of the state it goes to.
LEMMA KnowsNext ==
    ASSUME Moved, NEW r, NEW pc, NEW e, NEW v, Knows(r, pc, e, v),
           forkPc'[r] = pc, forkSeen'[r] = e, forkVolatile'[r] = v
    PROVE  Knows(r, forkPc[r], forkSeen[r], forkVolatile[r])'
<1>1. \A s : Holds(r, s) => Holds(r, s)'
  BY HoldsLater
<1>2. \A s : Holds(r, s) =>
        /\ forkEntries[r].status = "complete" =>
               forkEntries'[r].status = "complete" /\ forkEntries'[r].child = forkEntries[r].child
        /\ forkEntries[r].status = "rejected" => forkEntries'[r].status = "rejected"
  BY DEF Moved, Later, Holds
<1>3. /\ pc = "begun" => Holds(r, e.root)
      /\ pc = "tell" => Holds(r, e.child[1])
  BY DEF Knows
<1> QED
  BY <1>1, <1>2, <1>3 DEF Knows

\* A handler that takes a child.
LEMMA TakeSteps ==
    ASSUME ForkInv, Moved, NEW r \in ForkRequests, NEW c \in Children, Holds(r, c[1]), Take(r, c),
           UNCHANGED forkVolatile
    PROVE  StepOf(r)
<1>1. PICK e : e = [forkSeen[r] EXCEPT !.child = c]
  OBVIOUS
<1>2. e \in ForkEntry /\ e.child = c
  <2>1. forkSeen[r] \in ForkEntry
    BY Handler
  <2> QED
    BY <1>1, <2>1 DEF ForkEntry
<1>3. /\ forkPc' = [forkPc EXCEPT ![r] = "finish"] /\ "finish" \in ForkPcs
      /\ forkSeen' = [forkSeen EXCEPT ![r] = e]
      /\ forkVolatile' = [forkVolatile EXCEPT ![r] = forkVolatile[r]]
      /\ forkPc'[r] = "finish" /\ forkSeen'[r] = e /\ forkVolatile'[r] = forkVolatile[r]
  BY <1>1, Handler DEF Take, Go, ForkPcs
<1>4. Knows(r, "finish", e, forkVolatile[r])
  BY <1>2, Handler DEF Knows
<1>5. Knows(r, forkPc[r], forkSeen[r], forkVolatile[r])'
  BY <1>3, <1>4, KnowsNext
<1> QED
  BY <1>2, <1>3, <1>5, Handler DEF StepOf

\* A handler that goes on with what it holds, or stops.
LEMMA GoSteps ==
    ASSUME ForkInv, Moved, NEW r \in ForkRequests, NEW pc, Go(r, pc),
           \/ pc = "idle"
           \/ pc \in {"claim", "refresh", "rpc", "sent", "lookup"} /\ Holds(r, forkSeen[r].root),
           UNCHANGED forkSeen,
           NEW v \in Volatiles, v \in Children => Holds(r, v[1]),
           forkVolatile' = [forkVolatile EXCEPT ![r] = v]
    PROVE  StepOf(r)
<1>1. /\ forkPc' = [forkPc EXCEPT ![r] = pc] /\ pc \in ForkPcs
      /\ forkSeen' = [forkSeen EXCEPT ![r] = forkSeen[r]]
      /\ forkPc'[r] = pc /\ forkSeen'[r] = forkSeen[r] /\ forkVolatile'[r] = v
  BY Handler DEF Go, ForkPcs
<1>2. Knows(r, pc, forkSeen[r], v)
  BY DEF Knows
<1>3. Knows(r, forkPc[r], forkSeen[r], forkVolatile[r])'
  BY <1>1, <1>2, KnowsNext
<1> QED
  BY <1>1, <1>3, Handler DEF StepOf

\* A handler that keeps what it may have found.
LEMMA SameVolatile ==
    ASSUME ForkInv, NEW r \in ForkRequests, UNCHANGED forkVolatile
    PROVE  /\ forkVolatile[r] \in Volatiles
           /\ forkVolatile[r] \in Children => Holds(r, forkVolatile[r][1])
           /\ forkVolatile' = [forkVolatile EXCEPT ![r] = forkVolatile[r]]
<1>1. Knows(r, forkPc[r], forkSeen[r], forkVolatile[r]) /\ forkVolatile \in [ForkRequests -> Volatiles]
  BY Handler
<1> QED
  BY <1>1 DEF Knows

\* A handler that keeps all it knows.
LEMMA GoSame ==
    ASSUME ForkInv, Moved, NEW r \in ForkRequests, NEW pc, Go(r, pc),
           \/ pc = "idle"
           \/ pc \in {"claim", "refresh", "rpc", "sent", "lookup"} /\ Holds(r, forkSeen[r].root),
           UNCHANGED <<forkSeen, forkVolatile>>
    PROVE  StepOf(r)
BY GoSteps, SameVolatile

\* What a handler finds by its mark, it holds.
LEMMA RecoverSteps ==
    ASSUME ForkInv, Moved, NEW r \in ForkRequests, NEW s, Holds(r, s), NEW c \in Findable(s), Take(r, c),
           UNCHANGED forkVolatile
    PROVE  StepOf(r)
<1>1. s \in ForkRequests
  BY GoodAt DEF ForkInv, JournalsKept, Holds, ForkEntry
<1>2. c \in Children /\ Holds(r, c[1])
  BY <1>1, FindableIs
<1> QED
  BY <1>2, TakeSteps

\* What the journal says of a request decides how its handler goes on.
LEMMA DecideSteps ==
    ASSUME ForkInv, Moved, NEW r \in ForkRequests, Decide(r)
    PROVE  StepOf(r)
<1>1. forkPc[r] = "begun" /\ UNCHANGED forkVolatile /\ Holds(r, forkSeen[r].root)
  BY Handler DEF Decide, At, Knows
<1>2. \/ forkSeen[r].status = "complete" /\ Take(r, forkSeen[r].child)
      \/ forkVolatile[r] \in Children /\ Take(r, forkVolatile[r])
      \/ \E c \in Findable(forkSeen[r].root) : Take(r, c)
      \/ (Go(r, "idle") \/ Go(r, "claim")) /\ UNCHANGED forkSeen
  BY DEF Decide, RecoverOr, LeaveUncertain, TellError
<1>3. CASE forkSeen[r].status = "complete" /\ Take(r, forkSeen[r].child)
  <2>1. forkSeen[r].child \in Children /\ Holds(r, forkSeen[r].child[1])
    BY <1>1, <1>3, Handler DEF Knows
  <2> QED
    BY <1>1, <1>3, <2>1, TakeSteps
<1>4. CASE forkVolatile[r] \in Children /\ Take(r, forkVolatile[r])
  BY <1>1, <1>4, SameVolatile, TakeSteps
<1>5. CASE \E c \in Findable(forkSeen[r].root) : Take(r, c)
  BY <1>1, <1>5, RecoverSteps
<1>6. CASE (Go(r, "idle") \/ Go(r, "claim")) /\ UNCHANGED forkSeen
  BY <1>1, <1>6, GoSame
<1> QED
  BY <1>2, <1>3, <1>4, <1>5, <1>6

\* One more waiter for the child of its group.
LEMMA RefreshSteps ==
    ASSUME ForkInv, Moved, NEW r \in ForkRequests, Refresh(r)
    PROVE  StepOf(r)
<1>1. forkPc[r] = "refresh" /\ UNCHANGED forkVolatile /\ Holds(r, forkSeen[r].root)
  BY Handler DEF Refresh, At, Knows
<1>2. \/ /\ r \in DOMAIN forkEntries /\ forkEntries[r].status = "complete"
         /\ Take(r, forkEntries[r].child)
      \/ \E c \in Findable(forkSeen[r].root) : Take(r, c)
      \/ Go(r, "idle") /\ UNCHANGED forkSeen
  BY DEF Refresh, RecoverOr, LeaveUncertain, TellError
<1>3. CASE /\ r \in DOMAIN forkEntries /\ forkEntries[r].status = "complete"
           /\ Take(r, forkEntries[r].child)
  <2>1. Sound(forkEntries, r, forkEntries[r].root)
    BY <1>3, GoodAt DEF ForkInv, JournalsKept
  <2>2. forkEntries[r].child \in Children /\ Holds(r, forkEntries[r].child[1])
    BY <1>3, <2>1 DEF Sound, Holds
  <2> QED
    BY <1>1, <1>3, <2>2, TakeSteps
<1>4. CASE \E c \in Findable(forkSeen[r].root) : Take(r, c)
  BY <1>1, <1>4, RecoverSteps
<1>5. CASE Go(r, "idle") /\ UNCHANGED forkSeen
  BY <1>1, <1>5, GoSame
<1> QED
  BY <1>2, <1>3, <1>4, <1>5

\* An attempt of the reconciler.
LEMMA ReconcileSteps ==
    ASSUME ForkInv, Moved, NEW r \in ForkRequests, ReconcileFork(r)
    PROVE  StepOf(r)
<1>1. UNCHANGED forkVolatile /\ forkPc[r] = "idle"
  BY DEF ReconcileFork, At
<1>2. \/ forkVolatile[r] \in Children /\ Take(r, forkVolatile[r])
      \/ /\ r \in DOMAIN forkEntries /\ forkEntries[r].status = "complete"
         /\ Take(r, forkEntries[r].child)
      \/ \E c \in Findable(SourceOf(r)) : Take(r, c)
      \/ UNCHANGED <<forkPc, forkSeen>>
  BY DEF ReconcileFork
<1>3. CASE forkVolatile[r] \in Children /\ Take(r, forkVolatile[r])
  BY <1>1, <1>3, SameVolatile, TakeSteps
<1>4. CASE /\ r \in DOMAIN forkEntries /\ forkEntries[r].status = "complete"
           /\ Take(r, forkEntries[r].child)
  <2>1. Sound(forkEntries, r, forkEntries[r].root)
    BY <1>4, GoodAt DEF ForkInv, JournalsKept
  <2>2. forkEntries[r].child \in Children /\ Holds(r, forkEntries[r].child[1])
    BY <1>4, <2>1 DEF Sound, Holds
  <2> QED
    BY <1>1, <1>4, <2>2, TakeSteps
<1>5. ASSUME NEW c \in Findable(SourceOf(r)), Take(r, c) PROVE StepOf(r)
  <2>1. CASE r \in DOMAIN forkEntries
    <3>1. SourceOf(r) = forkEntries[r].root /\ Holds(r, forkEntries[r].root)
      BY <2>1 DEF SourceOf, Holds
    <3> QED
      BY <1>1, <1>5, <3>1, RecoverSteps
  <2>2. CASE r \notin DOMAIN forkEntries
    BY <1>5, <2>2, FindableIs DEF SourceOf, Holds
  <2> QED
    BY <2>1, <2>2
<1>6. CASE UNCHANGED <<forkPc, forkSeen>>
  <2>1. Go(r, "idle")
    BY <1>1, <1>6, Handler DEF Go
  <2> QED
    BY <1>1, <1>6, <2>1, GoSame
<1> QED
  BY <1>2, <1>3, <1>4, <1>5, <1>6

\* The beginning of a request, or what the journal holds of it.
LEMMA HandleSteps ==
    ASSUME ForkInv, Moved, NEW r \in ForkRequests, HandleFork(r)
    PROVE  StepOf(r)
<1>1. UNCHANGED forkVolatile
  BY DEF HandleFork
<1>2. ASSUME NEW e \in ForkEntry, Go(r, "begun"), forkSeen' = [forkSeen EXCEPT ![r] = e],
             r \in DOMAIN forkEntries', forkEntries'[r].root = e.root,
             e.status = "complete" => e.child \in Children /\ e.child[1] = e.root,
             e.status = "rejected" => forkEntries'[r].status = "rejected"
      PROVE  StepOf(r)
  <2>1. /\ forkPc' = [forkPc EXCEPT ![r] = "begun"] /\ "begun" \in ForkPcs
        /\ forkPc'[r] = "begun" /\ forkSeen'[r] = e /\ forkVolatile'[r] = forkVolatile[r]
        /\ forkVolatile' = [forkVolatile EXCEPT ![r] = forkVolatile[r]]
    BY <1>1, <1>2, Handler DEF Go, ForkPcs
  <2>2. forkVolatile'[r] \in Children => \E s : s = forkVolatile'[r][1] /\ Holds(r, s)'
    <3>1. \A s : Holds(r, s) => Holds(r, s)'
      BY HoldsLater
    <3>2. forkVolatile[r] \in Children => Holds(r, forkVolatile[r][1])
      BY Handler DEF Knows
    <3> QED
      BY <2>1, <3>1, <3>2 DEF Holds
  <2>3. Knows(r, forkPc[r], forkSeen[r], forkVolatile[r])'
    BY <1>2, <2>1, <2>2 DEF Knows, Holds
  <2> QED
    BY <1>2, <2>1, <2>3, Handler DEF StepOf
<1>3. CASE r \in DOMAIN forkEntries
  <2>1. PICK e : e = IF forkEngine = "claude"
                     THEN [forkEntries[r] EXCEPT !.status = forkEntries[forkEntries[r].root].status,
                                                 !.child = forkEntries[forkEntries[r].root].child]
                     ELSE forkEntries[r]
    OBVIOUS
  <2>2. /\ Go(r, "begun") /\ forkSeen' = [forkSeen EXCEPT ![r] = e]
        /\ forkEntries' = forkEntries
    BY <1>3, <2>1 DEF HandleFork, JournalKept
  <2>3. PICK u : u = forkEntries[r].root
    OBVIOUS
  <2>4. /\ forkEntries[r] \in ForkEntry /\ Sound(forkEntries, r, u)
        /\ u \in DOMAIN forkEntries /\ forkEntries[u].root = u
    BY <1>3, <2>3, GoodAt DEF ForkInv, JournalsKept
  <2>5. forkEntries[u] \in ForkEntry /\ Sound(forkEntries, u, u)
    BY <2>4, GoodAt DEF ForkInv, JournalsKept
  <2>6. CASE forkEngine # "claude"
    BY <1>2, <1>3, <2>1, <2>2, <2>3, <2>4, <2>6 DEF Sound
  <2>7. CASE forkEngine = "claude"
    <3>1. e = [forkEntries[r] EXCEPT !.status = forkEntries[u].status, !.child = forkEntries[u].child]
      BY <2>1, <2>3, <2>7
    <3>2. /\ e \in ForkEntry /\ e.root = u
          /\ e.status = forkEntries[u].status /\ e.child = forkEntries[u].child
      BY <2>3, <2>4, <2>5, <3>1 DEF ForkEntry
    <3>3. forkEntries[u].status = "rejected" => forkEntries[r].status = "rejected"
      <4>1. CASE r = u
        BY <4>1
      <4>2. CASE r # u
        BY <2>4, <4>2 DEF Sound, ForkOpen
      <4> QED
        BY <4>1, <4>2
    <3>4. forkEntries[u].status = "complete" =>
              forkEntries[u].child \in Children /\ forkEntries[u].child[1] = u
      BY <2>5 DEF Sound
    <3> QED
      BY <1>2, <1>3, <2>2, <2>3, <3>2, <3>3, <3>4
  <2> QED
    BY <2>6, <2>7
<1>4. ASSUME r \notin DOMAIN forkEntries, NEW d \in Beginnings(forkEntries, r), NEW new,
             new = [k \in DOMAIN forkEntries \cup {r} |-> IF k = r THEN d ELSE forkEntries[k]],
             JournalSaved(new), Go(r, "begun"),
             forkSeen' = [forkSeen EXCEPT ![r] =
                 [d EXCEPT !.status = IF forkEngine = "claude" THEN new[d.root].status ELSE d.status]]
      PROVE  StepOf(r)
  <2>1. /\ d \in ForkEntry /\ new[r] = d /\ r \in DOMAIN new /\ new[d.root].status \in ForkOpen
        /\ d.status \in ForkOpen
    BY <1>4, BegunIsGood DEF ForkInv, JournalsKept, ForkOpen
  <2>2. PICK e : e = [d EXCEPT !.status = IF forkEngine = "claude" THEN new[d.root].status ELSE d.status]
    OBVIOUS
  <2>3. e \in ForkEntry /\ e.root = d.root /\ e.status \in ForkOpen
    BY <2>1, <2>2 DEF ForkEntry, ForkStatuses
  <2>4. forkEntries' = new
    BY <1>4 DEF JournalSaved
  <2> QED
    BY <1>2, <1>4, <2>1, <2>2, <2>3, <2>4 DEF ForkOpen
<1>5. CASE Go(r, "idle") /\ UNCHANGED forkSeen
  BY <1>1, <1>5, GoSame
<1> QED
  BY <1>3, <1>4, <1>5 DEF HandleFork, TellError

\* The end of a successful fork.
LEMMA FinishSteps ==
    ASSUME ForkInv, Moved, NEW r \in ForkRequests, FinishFork(r)
    PROVE  StepOf(r)
<1> DEFINE c == forkSeen[r].child
<1>1. forkPc[r] = "finish" /\ UNCHANGED forkSeen /\ c \in Children /\ Holds(r, c[1])
  BY Handler DEF FinishFork, At, Knows
<1>2. CASE /\ MayComplete(forkEntries, r, c) /\ JournalSaved(Completed(forkEntries, r, c))
           /\ forkVolatile' = [forkVolatile EXCEPT ![r] = NotVolatile] /\ Go(r, "tell")
  <2>1. forkEntries'[r].status = "complete" /\ forkEntries'[r].child = c
    BY <1>1, <1>2, MayCompleteIs DEF JournalSaved
  <2>2. Holds(r, c[1])'
    <3>1. \A s : Holds(r, s) => Holds(r, s)'
      BY HoldsLater
    <3> QED
      BY <1>1, <3>1 DEF Holds
  <2>3. /\ forkPc'[r] = "tell" /\ forkSeen'[r] = forkSeen[r] /\ forkVolatile'[r] = NotVolatile
        /\ forkPc' = [forkPc EXCEPT ![r] = "tell"] /\ "tell" \in ForkPcs
        /\ forkSeen' = [forkSeen EXCEPT ![r] = forkSeen[r]] /\ NotVolatile \in Volatiles
    BY <1>1, <1>2, Handler DEF Go, ForkPcs, Volatiles
  <2>4. forkVolatile'[r] \notin Children
    BY <2>3, NoChildIs
  <2>5. Knows(r, forkPc[r], forkSeen[r], forkVolatile[r])'
    BY <1>1, <2>1, <2>2, <2>3, <2>4 DEF Knows
  <2> QED
    BY <1>2, <2>3, <2>5, Handler DEF StepOf
<1>3. CASE /\ forkVolatile' = [forkVolatile EXCEPT ![r] = IF @ \in Children THEN @ ELSE c]
           /\ Go(r, "idle")
  <2>1. PICK v : v = IF forkVolatile[r] \in Children THEN forkVolatile[r] ELSE c
    OBVIOUS
  <2>2. v \in Volatiles /\ (v \in Children => Holds(r, v[1]))
    BY <1>1, <2>1, Handler DEF Knows, Volatiles
  <2> QED
    BY <1>1, <1>3, <2>1, <2>2, GoSteps
<1> QED
  BY <1>2, <1>3 DEF FinishFork, LeaveUncertain

\* An answer that is lost.
LEMMA UnknownSteps ==
    ASSUME ForkInv, Moved, NEW r \in ForkRequests, OutcomeUnknown(r)
    PROVE  StepOf(r)
<1>1. forkPc[r] = "sent" /\ UNCHANGED forkSeen /\ Holds(r, forkSeen[r].root)
  BY Handler DEF OutcomeUnknown, At, Knows
<1>2. CASE /\ forkVolatile' = [forkVolatile EXCEPT ![r] = IF @ = NotVolatile THEN UnknownChild ELSE @]
           /\ Go(r, "lookup")
  <2>1. PICK v : v = IF forkVolatile[r] = NotVolatile THEN UnknownChild ELSE forkVolatile[r]
    OBVIOUS
  <2>2. v \in Volatiles /\ (v \in Children => Holds(r, v[1]))
    BY <2>1, Handler, NoChildIs DEF Knows, Volatiles
  <2> QED
    BY <1>1, <1>2, <2>1, <2>2, GoSteps
<1>3. CASE LeaveUncertain(r) /\ UNCHANGED forkVolatile
  BY <1>1, <1>3, GoSame DEF LeaveUncertain
<1> QED
  BY <1>2, <1>3 DEF OutcomeUnknown

\* An answer that names the child.
LEMMA AnsweredSteps ==
    ASSUME ForkInv, Moved, NEW r \in ForkRequests, ForkAnswered(r)
    PROVE  StepOf(r)
<1> DEFINE s == forkSeen[r].root
<1>1. /\ forkPc[r] = "sent" /\ UNCHANGED forkVolatile /\ Holds(r, s) /\ s \in ForkRequests
      /\ forkCall[s] = "committed" /\ Take(r, <<s, forkCount[s]>>)
  BY Handler DEF ForkAnswered, At, Knows
<1>2. forkCount[s] = 1
  BY <1>1 DEF ForkInv, CallsKept
<1>3. <<s, 1>> \in Children /\ <<s, 1>>[1] = s
  BY <1>1 DEF Children
<1> QED
  BY <1>1, <1>2, <1>3, TakeSteps

\* A second look for the mark.
LEMMA LookSteps ==
    ASSUME ForkInv, Moved, NEW r \in ForkRequests, LookAgain(r)
    PROVE  StepOf(r)
<1>1. forkPc[r] = "lookup" /\ UNCHANGED forkVolatile /\ Holds(r, forkSeen[r].root)
  BY Handler DEF LookAgain, At, Knows
<1>2. \/ \E c \in Findable(forkSeen[r].root) : Take(r, c)
      \/ Go(r, "idle") /\ UNCHANGED forkSeen
  BY DEF LookAgain, RecoverOr, LeaveUncertain
<1> QED
  BY <1>1, <1>2, RecoverSteps, GoSame

\* Every handler's step is a step of that handler.
LEMMA HandlerStep ==
    ASSUME ForkInv, Moved, NEW r \in ForkRequests,
           \/ SourceGone(r) \/ HandleFork(r) \/ Decide(r) \/ ClaimFork(r) \/ Refresh(r)
           \/ SendFork(r) \/ NeverSent(r) \/ ForkRejected(r) \/ ForkAnswered(r)
           \/ OutcomeUnknown(r) \/ LookAgain(r) \/ FinishFork(r) \/ TellChild(r)
           \/ ReconcileFork(r)
    PROVE  StepOf(r)
<1>1. CASE SourceGone(r) \/ NeverSent(r) \/ ForkRejected(r) \/ TellChild(r)
  <2>1. Go(r, "idle") /\ UNCHANGED <<forkSeen, forkVolatile>>
    BY <1>1 DEF SourceGone, NeverSent, ForkRejected, RejectFork, TellChild, TellError
  <2> QED
    BY <2>1, GoSame
<1>2. CASE ClaimFork(r)
  <2>1. /\ Go(r, "idle") \/ Go(r, "rpc") \/ Go(r, "refresh")
        /\ UNCHANGED <<forkSeen, forkVolatile>> /\ forkPc[r] = "claim"
    BY <1>2 DEF ClaimFork, TellError, At
  <2>2. Holds(r, forkSeen[r].root)
    BY <2>1, Handler DEF Knows
  <2> QED
    BY <2>1, <2>2, GoSame
<1>3. CASE SendFork(r)
  <2>1. Go(r, "sent") /\ UNCHANGED <<forkSeen, forkVolatile>> /\ forkPc[r] = "rpc"
    BY <1>3 DEF SendFork, At
  <2>2. Holds(r, forkSeen[r].root)
    BY <2>1, Handler DEF Knows
  <2> QED
    BY <2>1, <2>2, GoSame
<1> QED
  BY <1>1, <1>2, <1>3, HandleSteps, DecideSteps, RefreshSteps, AnsweredSteps, UnknownSteps,
     LookSteps, FinishSteps, ReconcileSteps

\* The calls, while no handler submits, sends or rejects.
LEMMA QuietCalls ==
    ASSUME ForkInv, Moved, NoNewRejects, UNCHANGED <<forkCall, forkCount>>,
           \A q \in ForkRequests : Submitting(q)' =>
               forkPc'[q] = forkPc[q] /\ forkSeen'[q].root = forkSeen[q].root
    PROVE  CallsKept'
<1>1. \A q \in ForkRequests : Submitting(q)' => Submitting(q) /\ forkSeen'[q].root = forkSeen[q].root
  BY DEF Submitting
<1>2. \A s \in ForkRequests : forkCount'[s] = IF forkCall'[s] = "committed" THEN 1 ELSE 0
  BY DEF ForkInv, CallsKept
<1>3. ASSUME NEW s \in ForkRequests, forkCall'[s] # "none"
      PROVE  Holds(s, s)' /\ forkEntries'[s].status # "intent"
  <2>1. Holds(s, s) /\ forkEntries[s].status # "intent"
    BY <1>3 DEF ForkInv, CallsKept
  <2> QED
    BY <2>1 DEF Holds, Moved, Later
<1>4. ASSUME NEW r \in ForkRequests, Submitting(r)'
      PROVE  /\ forkEntries'[forkSeen'[r].root].status # "intent"
             /\ (forkPc'[r] = "rpc") <=> (forkCall'[forkSeen'[r].root] = "none")
  <2>1. PICK s : s = forkSeen[r].root /\ forkSeen'[r].root = s /\ Submitting(r) /\ forkPc'[r] = forkPc[r]
    BY <1>1, <1>4
  <2>2. forkEntries[s].status # "intent" /\ ((forkPc[r] = "rpc") <=> (forkCall[s] = "none"))
    BY <2>1 DEF ForkInv, CallsKept
  <2>3. s \in DOMAIN forkEntries
    BY <2>1, Handler, GoodAt DEF Knows, Submitting, Holds, ForkInv, JournalsKept
  <2> QED
    BY <2>1, <2>2, <2>3 DEF Moved, Later
<1>5. ASSUME NEW r \in ForkRequests, NEW q \in ForkRequests, Submitting(r)', Submitting(q)',
             forkSeen'[r].root = forkSeen'[q].root
      PROVE  r = q
  BY <1>1, <1>5 DEF ForkInv, CallsKept
<1>6. ASSUME NEW s \in DOMAIN forkDisk', forkDisk'[s].status = "rejected", forkDisk'[s].root = s
      PROVE  /\ forkCall'[s] \in {"none", "refused"}
             /\ \A r \in ForkRequests : forkSeen'[r].root = s => forkPc'[r] # "rpc"
  <2>1. s \in DOMAIN forkDisk /\ forkDisk[s].status = "rejected" /\ forkDisk[s].root = s
    BY <1>6 DEF NoNewRejects
  <2>2. /\ forkCall[s] \in {"none", "refused"}
        /\ \A r \in ForkRequests : forkSeen[r].root = s => forkPc[r] # "rpc"
    BY <2>1 DEF ForkInv, CallsKept
  <2>3. ASSUME NEW r \in ForkRequests, forkSeen'[r].root = s, forkPc'[r] = "rpc" PROVE FALSE
    <3>1. Submitting(r)'
      BY <2>3 DEF Submitting
    <3> QED
      BY <1>1, <2>2, <2>3, <3>1
  <2> QED
    BY <2>2, <2>3
<1> QED
  BY <1>2, <1>3, <1>4, <1>5, <1>6 DEF CallsKept

\* A refused fork.
LEMMA RejectCalls ==
    ASSUME ForkInv, NEW r \in ForkRequests, NeverSent(r) \/ ForkRejected(r)
    PROVE  CallsKept'
<1> DEFINE t == forkSeen[r].root
<1>1. /\ RejectFork(r) /\ UNCHANGED <<forkCall, forkCount, forkSeen>>
      /\ forkPc' = [forkPc EXCEPT ![r] = "idle"] /\ Submitting(r)
      /\ forkCall[t] \in {"none", "refused"} /\ Holds(r, t) /\ t \in ForkRequests
  <2>1. /\ RejectFork(r) /\ UNCHANGED <<forkCall, forkCount, forkSeen>> /\ Go(r, "idle") /\ Submitting(r)
        /\ forkPc[r] = "rpc" \/ forkCall[t] = "refused"
    BY DEF NeverSent, ForkRejected, RejectFork, TellError, At, Submitting
  <2>2. forkPc[r] = "rpc" => forkCall[t] = "none"
    BY <2>1 DEF ForkInv, CallsKept
  <2> QED
    BY <2>1, <2>2, Handler DEF Go, Submitting, Knows
<1>2. /\ Moved
      /\ \A k \in DOMAIN forkDisk' :
             forkDisk'[k].status = "rejected" /\ forkDisk'[k].root # t =>
                 /\ k \in DOMAIN forkDisk /\ forkDisk[k].status = "rejected"
                 /\ forkDisk[k].root = forkDisk'[k].root
  BY <1>1, RejectOutcome
<1>3. PICK u : u = t
  OBVIOUS
<1>4. \A q \in ForkRequests : Submitting(q)' =>
         q # r /\ Submitting(q) /\ forkSeen'[q].root = forkSeen[q].root /\ forkPc'[q] = forkPc[q]
  BY <1>1, Handler DEF Submitting
<1>5. \A s \in ForkRequests : forkCount'[s] = IF forkCall'[s] = "committed" THEN 1 ELSE 0
  BY <1>1 DEF ForkInv, CallsKept
<1>6. ASSUME NEW s \in ForkRequests, forkCall'[s] # "none"
      PROVE  Holds(s, s)' /\ forkEntries'[s].status # "intent"
  <2>1. Holds(s, s) /\ forkEntries[s].status # "intent"
    BY <1>1, <1>6 DEF ForkInv, CallsKept
  <2> QED
    BY <1>2, <2>1 DEF Holds, Moved, Later
<1>7. ASSUME NEW p \in ForkRequests, Submitting(p)'
      PROVE  /\ forkEntries'[forkSeen'[p].root].status # "intent"
             /\ (forkPc'[p] = "rpc") <=> (forkCall'[forkSeen'[p].root] = "none")
  <2>1. PICK s : s = forkSeen[p].root /\ forkSeen'[p].root = s /\ Submitting(p) /\ forkPc'[p] = forkPc[p]
    BY <1>4, <1>7
  <2>2. forkEntries[s].status # "intent" /\ ((forkPc[p] = "rpc") <=> (forkCall[s] = "none"))
    BY <2>1 DEF ForkInv, CallsKept
  <2>3. s \in DOMAIN forkEntries
    BY <2>1, Handler, GoodAt DEF Knows, Submitting, Holds, ForkInv, JournalsKept
  <2> QED
    BY <1>1, <1>2, <2>1, <2>2, <2>3 DEF Moved, Later
<1>8. ASSUME NEW p \in ForkRequests, NEW q \in ForkRequests, Submitting(p)', Submitting(q)',
             forkSeen'[p].root = forkSeen'[q].root
      PROVE  p = q
  BY <1>4, <1>8 DEF ForkInv, CallsKept
<1>9. ASSUME NEW s \in DOMAIN forkDisk', forkDisk'[s].status = "rejected", forkDisk'[s].root = s
      PROVE  /\ forkCall'[s] \in {"none", "refused"}
             /\ \A q \in ForkRequests : forkSeen'[q].root = s => forkPc'[q] # "rpc"
  <2>1. CASE s = u
    <3>1. ASSUME NEW q \in ForkRequests, forkSeen'[q].root = s, forkPc'[q] = "rpc" PROVE FALSE
      <4>1. Submitting(q)'
        BY <3>1 DEF Submitting
      <4>2. q # r /\ Submitting(q) /\ forkSeen[q].root = u
        BY <1>4, <2>1, <3>1, <4>1
      <4> QED
        BY <1>1, <1>3, <4>2 DEF ForkInv, CallsKept
    <3> QED
      BY <1>1, <1>3, <2>1, <3>1
  <2>2. CASE s # u
    <3>1. s \in DOMAIN forkDisk /\ forkDisk[s].status = "rejected" /\ forkDisk[s].root = s
      BY <1>2, <1>3, <1>9, <2>2
    <3>2. /\ forkCall[s] \in {"none", "refused"}
          /\ \A q \in ForkRequests : forkSeen[q].root = s => forkPc[q] # "rpc"
      BY <3>1 DEF ForkInv, CallsKept
    <3>3. ASSUME NEW q \in ForkRequests, forkSeen'[q].root = s, forkPc'[q] = "rpc" PROVE FALSE
      <4>1. Submitting(q)'
        BY <3>3 DEF Submitting
      <4> QED
        BY <1>4, <3>2, <3>3, <4>1
    <3> QED
      BY <1>1, <3>2, <3>3
  <2> QED
    BY <2>1, <2>2
<1> QED
  BY <1>5, <1>6, <1>7, <1>8, <1>9 DEF CallsKept

\* The same file and memory: what changes is the handler's place or the call.
LEMMA SameJournal ==
    ASSUME ForkInv, UNCHANGED <<forkEntries, forkDisk, forkSeen>>, NEW t \in ForkRequests,
           \A s \in ForkRequests : s # t => forkCall'[s] = forkCall[s] /\ forkCount'[s] = forkCount[s],
           forkCount'[t] = IF forkCall'[t] = "committed" THEN 1 ELSE 0,
           Holds(t, t) /\ forkEntries[t].status # "intent",
           \A q \in ForkRequests : Submitting(q)' => Submitting(q),
           \A q \in ForkRequests : forkPc'[q] = "rpc" => forkPc[q] = "rpc" /\ forkSeen[q].root # t,
           \A q \in ForkRequests : Submitting(q)' /\ forkPc'[q] # forkPc[q] => forkSeen[q].root = t,
           forkCall'[t] # "none",
           t \in DOMAIN forkDisk => ~(forkDisk[t].status = "rejected" /\ forkDisk[t].root = t)
               \/ forkCall'[t] = "refused"
    PROVE  CallsKept'
<1>1. \A s \in ForkRequests : forkCount'[s] = IF forkCall'[s] = "committed" THEN 1 ELSE 0
  BY DEF ForkInv, CallsKept
<1>2. \A s \in ForkRequests :
        forkCall'[s] # "none" => Holds(s, s)' /\ forkEntries'[s].status # "intent"
  BY DEF ForkInv, CallsKept, Holds
<1>3. ASSUME NEW r \in ForkRequests, Submitting(r)'
      PROVE  /\ forkEntries'[forkSeen'[r].root].status # "intent"
             /\ (forkPc'[r] = "rpc") <=> (forkCall'[forkSeen'[r].root] = "none")
  <2>1. PICK s : s = forkSeen[r].root /\ forkSeen'[r].root = s /\ Submitting(r) /\ s \in ForkRequests
    BY <1>3, Handler
  <2>2. forkEntries[s].status # "intent" /\ ((forkPc[r] = "rpc") <=> (forkCall[s] = "none"))
    BY <2>1 DEF ForkInv, CallsKept
  <2>3. CASE s = t
    BY <2>1, <2>2, <2>3
  <2>4. CASE s # t
    <3>1. forkPc'[r] = forkPc[r]
      BY <1>3, <2>1, <2>4
    <3> QED
      BY <2>1, <2>2, <2>4, <3>1
  <2> QED
    BY <2>3, <2>4
<1>4. \A r, q \in ForkRequests :
        Submitting(r)' /\ Submitting(q)' /\ forkSeen'[r].root = forkSeen'[q].root => r = q
  BY DEF ForkInv, CallsKept
<1>5. ASSUME NEW s \in DOMAIN forkDisk', forkDisk'[s].status = "rejected", forkDisk'[s].root = s
      PROVE  /\ forkCall'[s] \in {"none", "refused"}
             /\ \A r \in ForkRequests : forkSeen'[r].root = s => forkPc'[r] # "rpc"
  <2>1. /\ s \in ForkRequests /\ forkCall[s] \in {"none", "refused"}
        /\ \A r \in ForkRequests : forkSeen[r].root = s => forkPc[r] # "rpc"
    BY <1>5, GoodAt DEF ForkInv, CallsKept, JournalsKept
  <2>2. forkCall'[s] \in {"none", "refused"}
    BY <1>5, <2>1
  <2> QED
    BY <2>1, <2>2
<1> QED
  BY <1>1, <1>2, <1>3, <1>4, <1>5 DEF CallsKept

\* The handler that submits its fork.
LEMMA ClaimCalls ==
    ASSUME ForkInv, Moved, NEW r \in ForkRequests, r \in DOMAIN forkEntries, MayClaim(forkEntries, r),
           JournalSaved(Claimed(forkEntries, r)), forkPc[r] = "claim", Go(r, "rpc"),
           UNCHANGED <<forkSeen, forkCall, forkCount>>
    PROVE  CallsKept'
<1>1. PICK t : t = forkEntries[r].root
  OBVIOUS
<1>2. /\ forkSeen[r].root = t /\ t \in ForkRequests /\ t \in DOMAIN forkEntries
      /\ forkEntries[t].status = "intent" /\ forkEntries[t].root = t
  <2>1. Holds(r, forkSeen[r].root)
    BY Handler DEF Knows
  <2> QED
    BY <1>1, <2>1, Handler, GoodAt DEF Holds, MayClaim, ForkInv, JournalsKept
<1>3. /\ forkEntries' = forkDisk' /\ forkEntries'[t].status = "submitted"
      /\ \A k \in DOMAIN forkDisk' : forkDisk'[k].status = "rejected" =>
             k \in DOMAIN forkEntries /\ forkEntries[k].status = "rejected"
  BY <1>1, ClaimOutcome DEF JournalSaved
<1>4. forkCall[t] = "none"
  BY <1>2 DEF ForkInv, CallsKept
<1>5. /\ forkPc'[r] = "rpc" /\ Submitting(r)'
      /\ \A q \in ForkRequests : q # r => forkPc'[q] = forkPc[q] /\ (Submitting(q)' <=> Submitting(q))
  BY Handler DEF Go, Submitting
<1>6. \A q \in ForkRequests : Submitting(q) => forkSeen[q].root # t
  BY <1>2 DEF ForkInv, CallsKept
<1>7. \A s \in ForkRequests : forkCount'[s] = IF forkCall'[s] = "committed" THEN 1 ELSE 0
  BY DEF ForkInv, CallsKept
<1>8. ASSUME NEW s \in ForkRequests, forkCall'[s] # "none"
      PROVE  Holds(s, s)' /\ forkEntries'[s].status # "intent"
  <2>1. Holds(s, s) /\ forkEntries[s].status # "intent"
    BY <1>8 DEF ForkInv, CallsKept
  <2> QED
    BY <2>1 DEF Holds, Moved, Later
<1>9. ASSUME NEW p \in ForkRequests, Submitting(p)'
      PROVE  /\ forkEntries'[forkSeen'[p].root].status # "intent"
             /\ (forkPc'[p] = "rpc") <=> (forkCall'[forkSeen'[p].root] = "none")
  <2>1. CASE p = r
    BY <1>2, <1>3, <1>4, <1>5, <2>1
  <2>2. CASE p # r
    <3>1. PICK s : s = forkSeen[p].root /\ forkSeen'[p].root = s /\ Submitting(p) /\ forkPc'[p] = forkPc[p]
      BY <1>5, <1>9, <2>2
    <3>2. forkEntries[s].status # "intent" /\ ((forkPc[p] = "rpc") <=> (forkCall[s] = "none"))
      BY <3>1 DEF ForkInv, CallsKept
    <3>3. s \in DOMAIN forkEntries
      BY <3>1, Handler, GoodAt DEF Knows, Submitting, Holds, ForkInv, JournalsKept
    <3> QED
      BY <3>1, <3>2, <3>3 DEF Moved, Later
  <2> QED
    BY <2>1, <2>2
<1>10. ASSUME NEW p \in ForkRequests, NEW q \in ForkRequests, Submitting(p)', Submitting(q)',
              forkSeen'[p].root = forkSeen'[q].root
       PROVE  p = q
  <2>1. CASE p = r \/ q = r
    BY <1>2, <1>5, <1>6, <1>10, <2>1
  <2>2. CASE p # r /\ q # r
    BY <1>5, <1>10, <2>2 DEF ForkInv, CallsKept
  <2> QED
    BY <2>1, <2>2
<1>11. ASSUME NEW s \in DOMAIN forkDisk', forkDisk'[s].status = "rejected", forkDisk'[s].root = s
       PROVE  /\ forkCall'[s] \in {"none", "refused"}
              /\ \A q \in ForkRequests : forkSeen'[q].root = s => forkPc'[q] # "rpc"
  <2>1. s \in DOMAIN forkEntries /\ forkEntries[s].status = "rejected" /\ s # t
    BY <1>3, <1>11
  <2>2. forkEntries[s].root = s
    BY <1>3, <1>11, <2>1 DEF Moved, Later
  <2>3. s \in DOMAIN forkDisk /\ forkDisk[s].status = "rejected" /\ forkDisk[s].root = s
    BY <2>1, <2>2 DEF ForkInv, JournalsKept, Later
  <2>4. /\ forkCall[s] \in {"none", "refused"}
        /\ \A q \in ForkRequests : forkSeen[q].root = s => forkPc[q] # "rpc"
    BY <2>3 DEF ForkInv, CallsKept
  <2> QED
    BY <1>2, <1>5, <2>1, <2>4
<1> QED
  BY <1>7, <1>8, <1>9, <1>10, <1>11 DEF CallsKept

\* The calls in every step.
LEMMA CallsStep ==
    ASSUME ForkInv, ForkNext
    PROVE  CallsKept'
<1>1. Moved
  BY JournalStep
<1>2. CASE \E r \in ForkRequests : NeverSent(r) \/ ForkRejected(r)
  BY <1>2, RejectCalls
<1> DEFINE Quiet == \A q \in ForkRequests : Submitting(q)' =>
                        forkPc'[q] = forkPc[q] /\ forkSeen'[q].root = forkSeen[q].root
<1>3. CASE NoNewRejects /\ UNCHANGED <<forkCall, forkCount>> /\ Quiet
  BY <1>1, <1>3, QuietCalls
<1> HIDE DEF Quiet
<1>4. ASSUME NEW r \in ForkRequests,
             \/ SourceGone(r) \/ HandleFork(r) \/ Decide(r) \/ Refresh(r) \/ ForkAnswered(r)
             \/ OutcomeUnknown(r) \/ LookAgain(r) \/ FinishFork(r) \/ TellChild(r)
             \/ ReconcileFork(r)
      PROVE  UNCHANGED <<forkCall, forkCount>> /\ Quiet
  <2>1. StepOf(r)
    BY <1>1, <1>4, HandlerStep
  <2>2. UNCHANGED <<forkCall, forkCount>>
    BY <1>4 DEF SourceGone, HandleFork, Decide, Refresh, ForkAnswered, OutcomeUnknown, LookAgain,
                FinishFork, TellChild, ReconcileFork, OutsideKept
  <2>3. \A q \in ForkRequests : q # r => forkPc'[q] = forkPc[q] /\ forkSeen'[q] = forkSeen[q]
    BY <2>1, Handler DEF StepOf
  <2>4. \/ forkPc'[r] \in {"idle", "begun", "claim", "lookup", "finish", "tell"}
        \/ UNCHANGED <<forkPc, forkSeen>>
    BY <1>4, Handler DEF SourceGone, HandleFork, Decide, Refresh, ForkAnswered, OutcomeUnknown,
            LookAgain, FinishFork, TellChild, ReconcileFork, RecoverOr, LeaveUncertain, TellError,
            Take, Go
  <2> QED
    BY <2>2, <2>3, <2>4 DEF Submitting, Quiet
<1>5. ASSUME NEW r \in ForkRequests, ClaimFork(r), ~Go(r, "rpc")
      PROVE  UNCHANGED <<forkCall, forkCount>> /\ Quiet
  <2>1. /\ UNCHANGED <<forkCall, forkCount, forkSeen>>
        /\ Go(r, "idle") \/ Go(r, "refresh")
    BY <1>5 DEF ClaimFork, OutsideKept, TellError
  <2> QED
    BY <2>1, Handler DEF Go, Submitting, Quiet
<1>6. ASSUME NEW r \in ForkRequests, ClaimFork(r), Go(r, "rpc") PROVE CallsKept'
  <2>1. /\ UNCHANGED <<forkCall, forkCount, forkSeen>> /\ forkPc[r] = "claim"
        /\ forkPc'[r] = "rpc"
    BY <1>6, Handler DEF ClaimFork, OutsideKept, At, Go
  <2>2. ~Go(r, "idle") /\ ~Go(r, "refresh")
    BY <2>1, Handler DEF Go
  <2>3. r \in DOMAIN forkEntries /\ MayClaim(forkEntries, r) /\ JournalSaved(Claimed(forkEntries, r))
    BY <1>6, <2>2 DEF ClaimFork, TellError
  <2> QED
    BY <1>1, <1>6, <2>1, <2>3, ClaimCalls
<1>7. ASSUME NEW r \in ForkRequests, SendFork(r) PROVE CallsKept'
  <2>1. PICK t : t = forkSeen[r].root
    OBVIOUS
  <2>2. t \in ForkRequests /\ forkPc[r] = "rpc" /\ Submitting(r) /\ Holds(r, t)
    BY <1>7, <2>1, Handler DEF SendFork, At, Submitting, Knows
  <2>3. /\ UNCHANGED <<forkEntries, forkDisk, forkSeen>> /\ forkCount' = forkCount
        /\ forkCall' = [forkCall EXCEPT ![t] = "flight"]
        /\ forkPc' = [forkPc EXCEPT ![r] = "sent"]
    BY <1>7, <2>1 DEF SendFork, Go, JournalKept
  <2>4. /\ Holds(t, t) /\ forkEntries[t].status # "intent" /\ forkCall[t] = "none"
        /\ \A q \in ForkRequests : Submitting(q) /\ forkSeen[q].root = t => q = r
        /\ t \in DOMAIN forkDisk => ~(forkDisk[t].status = "rejected" /\ forkDisk[t].root = t)
    <3>1. /\ forkEntries[t].status # "intent" /\ forkCall[t] = "none"
          /\ \A q \in ForkRequests : Submitting(q) /\ forkSeen[q].root = t => q = r
          /\ t \in DOMAIN forkDisk => ~(forkDisk[t].status = "rejected" /\ forkDisk[t].root = t)
      BY <2>1, <2>2 DEF ForkInv, CallsKept
    <3>2. Holds(t, t)
      BY <2>2, GoodAt DEF Holds, ForkInv, JournalsKept
    <3> QED
      BY <3>1, <3>2
  <2>5. forkCount[t] = 0 /\ forkCall \in [ForkRequests -> {"none", "flight", "committed", "refused"}]
    BY <2>2, <2>4 DEF ForkInv, CallsKept, ForkTyped
  <2>6. /\ forkCall'[t] = "flight" /\ forkCount'[t] = 0
        /\ \A s \in ForkRequests : s # t => forkCall'[s] = forkCall[s] /\ forkCount'[s] = forkCount[s]
    BY <2>2, <2>3, <2>5
  <2>7. /\ forkPc'[r] = "sent" /\ \A q \in ForkRequests : q # r => forkPc'[q] = forkPc[q]
    BY <2>3, Handler
  <2>8. /\ \A q \in ForkRequests : Submitting(q)' => Submitting(q)
        /\ \A q \in ForkRequests : forkPc'[q] = "rpc" => forkPc[q] = "rpc" /\ forkSeen[q].root # t
        /\ \A q \in ForkRequests : Submitting(q)' /\ forkPc'[q] # forkPc[q] => forkSeen[q].root = t
    BY <2>1, <2>2, <2>4, <2>7 DEF Submitting
  <2> QED
    BY <2>2, <2>3, <2>4, <2>6, <2>8, SameJournal
<1>8. ASSUME NEW t \in ForkRequests, ForkCommits(t) \/ ForkRefused(t) PROVE CallsKept'
  <2>1. /\ UNCHANGED <<forkEntries, forkDisk, forkSeen, forkPc>> /\ forkCall[t] = "flight"
        /\ \/ /\ forkCall' = [forkCall EXCEPT ![t] = "committed"]
              /\ forkCount' = [forkCount EXCEPT ![t] = @ + 1]
           \/ forkCall' = [forkCall EXCEPT ![t] = "refused"] /\ forkCount' = forkCount
    BY <1>8 DEF ForkCommits, ForkRefused
  <2>2. /\ forkCount[t] = 0 /\ forkCall \in [ForkRequests -> {"none", "flight", "committed", "refused"}]
        /\ forkCount \in [ForkRequests -> 0 .. 1]
        /\ Holds(t, t) /\ forkEntries[t].status # "intent"
        /\ t \in DOMAIN forkDisk => ~(forkDisk[t].status = "rejected" /\ forkDisk[t].root = t)
        /\ \A q \in ForkRequests : Submitting(q) /\ forkSeen[q].root = t => forkPc[q] # "rpc"
    BY <2>1 DEF ForkInv, CallsKept, ForkTyped
  <2>3. /\ forkCall'[t] # "none" /\ forkCount'[t] = IF forkCall'[t] = "committed" THEN 1 ELSE 0
        /\ \A s \in ForkRequests : s # t => forkCall'[s] = forkCall[s] /\ forkCount'[s] = forkCount[s]
    BY <2>1, <2>2
  <2>4. /\ \A q \in ForkRequests : Submitting(q)' => Submitting(q)
        /\ \A q \in ForkRequests : forkPc'[q] = "rpc" => forkPc[q] = "rpc" /\ forkSeen[q].root # t
        /\ \A q \in ForkRequests : Submitting(q)' /\ forkPc'[q] # forkPc[q] => forkSeen[q].root = t
    BY <2>1, <2>2 DEF Submitting
  <2> QED
    BY <2>1, <2>2, <2>3, <2>4, SameJournal
<1>9. CASE ForkCrash
  <2>1. /\ forkDisk' = forkDisk /\ forkEntries' = forkDisk /\ forkCount' = forkCount /\ forkSeen' = forkSeen
        /\ \A q \in ForkRequests : forkPc'[q] = "idle"
        /\ \A s \in ForkRequests : forkCall'[s] = IF forkEngine = "claude" /\ forkCall[s] = "flight"
                                                  THEN "refused" ELSE forkCall[s]
    BY <1>9 DEF ForkCrash
  <2>2. \A s \in ForkRequests : forkCount'[s] = IF forkCall'[s] = "committed" THEN 1 ELSE 0
    BY <2>1 DEF ForkInv, CallsKept
  <2>3. ASSUME NEW s \in ForkRequests, forkCall'[s] # "none"
        PROVE  Holds(s, s)' /\ forkEntries'[s].status # "intent"
    <3>1. Holds(s, s) /\ forkEntries[s].status # "intent"
      BY <2>1, <2>3 DEF ForkInv, CallsKept
    <3> QED
      BY <1>1, <3>1 DEF Holds, Moved, Later
  <2>4. \A q \in ForkRequests : ~Submitting(q)' /\ forkPc'[q] # "rpc"
    BY <2>1 DEF Submitting
  <2>5. ASSUME NEW s \in DOMAIN forkDisk', forkDisk'[s].status = "rejected", forkDisk'[s].root = s
        PROVE  forkCall'[s] \in {"none", "refused"}
    <3>1. s \in ForkRequests /\ forkCall[s] \in {"none", "refused"}
      BY <2>1, <2>5, GoodAt DEF ForkInv, CallsKept, JournalsKept
    <3> QED
      BY <2>1, <3>1
  <2> QED
    BY <2>2, <2>3, <2>4, <2>5 DEF CallsKept
<1>10. NoNewRejects \/ \E r \in ForkRequests : NeverSent(r) \/ ForkRejected(r)
  BY JournalStep
<1> QED
  BY <1>2, <1>3, <1>4, <1>5, <1>6, <1>7, <1>8, <1>9, <1>10 DEF ForkNext

\* What handlers know, in every step.
LEMMA HandlersStep ==
    ASSUME ForkInv, ForkNext
    PROVE  /\ HandlersKept'
           /\ forkPc' \in [ForkRequests -> ForkPcs] /\ forkSeen' \in [ForkRequests -> ForkEntry]
           /\ forkVolatile' \in [ForkRequests -> Volatiles]
<1>1. Moved
  BY JournalStep
<1>2. ASSUME NEW r \in ForkRequests, StepOf(r)
      PROVE  /\ HandlersKept'
             /\ forkPc' \in [ForkRequests -> ForkPcs] /\ forkSeen' \in [ForkRequests -> ForkEntry]
             /\ forkVolatile' \in [ForkRequests -> Volatiles]
  <2>1. /\ forkPc' \in [ForkRequests -> ForkPcs] /\ forkSeen' \in [ForkRequests -> ForkEntry]
        /\ forkVolatile' \in [ForkRequests -> Volatiles]
    BY <1>2, Handler DEF StepOf
  <2>2. ASSUME NEW q \in ForkRequests
        PROVE  Knows(q, forkPc[q], forkSeen[q], forkVolatile[q])'
    <3>1. CASE q = r
      BY <1>2, <3>1 DEF StepOf
    <3>2. CASE q # r
      <4>1. forkPc'[q] = forkPc[q] /\ forkSeen'[q] = forkSeen[q] /\ forkVolatile'[q] = forkVolatile[q]
        BY <1>2, <3>2, Handler DEF StepOf
      <4>2. Knows(q, forkPc[q], forkSeen[q], forkVolatile[q])
        BY Handler
      <4> QED
        BY <1>1, <4>1, <4>2, KnowsNext
    <3> QED
      BY <3>1, <3>2
  <2> QED
    BY <2>1, <2>2 DEF HandlersKept
<1>3. CASE UNCHANGED <<forkPc, forkSeen, forkVolatile>>
  <2>1. ASSUME NEW q \in ForkRequests
        PROVE  Knows(q, forkPc[q], forkSeen[q], forkVolatile[q])'
    <3>1. Knows(q, forkPc[q], forkSeen[q], forkVolatile[q])
      BY Handler
    <3> QED
      BY <1>1, <1>3, <3>1, KnowsNext
  <2> QED
    BY <1>3, <2>1 DEF HandlersKept, ForkInv, ForkTyped
<1>4. CASE ForkCrash
  <2>1. /\ forkPc' = [r \in ForkRequests |-> "idle"] /\ forkSeen' = forkSeen
        /\ forkVolatile' = [r \in ForkRequests |-> NotVolatile]
    BY <1>4 DEF ForkCrash
  <2>2. "idle" \in ForkPcs /\ NotVolatile \in Volatiles
    BY DEF ForkPcs, Volatiles
  <2>3. \A q \in ForkRequests : forkPc'[q] = "idle" /\ forkVolatile'[q] \notin Children
    BY <2>1, NoChildIs
  <2> QED
    BY <2>1, <2>2, <2>3 DEF HandlersKept, Knows, ForkInv, ForkTyped
<1>5. ASSUME NEW s \in ForkRequests, ForkCommits(s) \/ ForkRefused(s)
      PROVE  UNCHANGED <<forkPc, forkSeen, forkVolatile>>
  BY <1>5 DEF ForkCommits, ForkRefused
<1> QED
  BY <1>1, <1>2, <1>3, <1>4, <1>5, HandlerStep DEF ForkNext

\* What was told and which titles are left, in every step.
LEMMA ToldStep ==
    ASSUME ForkInv, ForkNext
    PROVE  ToldKept'
<1>1. Later(forkEntries, forkEntries')
  BY JournalStep DEF Moved
<1>2. CASE UNCHANGED <<forkCount, forkTitle>> /\
           \A r \in ForkRequests : forkTold'[r] \cap Children \subseteq forkTold[r]
  <2>1. ASSUME NEW r \in ForkRequests, NEW c \in forkTold'[r] \cap Children
        PROVE  r \in DOMAIN forkEntries' /\ forkEntries'[r].status = "complete" /\ forkEntries'[r].child = c
    <3>1. r \in DOMAIN forkEntries /\ forkEntries[r].status = "complete" /\ forkEntries[r].child = c
      BY <1>2, <2>1 DEF ForkInv, ToldKept
    <3> QED
      BY <1>1, <3>1 DEF Later
  <2>2. ASSUME NEW s \in ForkRequests
        PROVE  /\ forkCount'[s] = 1 => forkTitle'[s] # "none"
               /\ forkTitle'[s] = "human" => Holds(s, s)' /\ forkEntries'[s].status = "complete"
    <3>1. /\ forkCount[s] = 1 => forkTitle[s] # "none"
          /\ forkTitle[s] = "human" => Holds(s, s) /\ forkEntries[s].status = "complete"
      BY DEF ForkInv, ToldKept
    <3> QED
      BY <1>1, <1>2, <3>1 DEF Later, Holds
  <2> QED
    BY <2>1, <2>2 DEF ToldKept
<1>3. ASSUME NEW s \in ForkRequests, ForkCommits(s) PROVE ToldKept'
  <2>1. /\ UNCHANGED <<forkEntries, forkTold>> /\ forkTitle' = [forkTitle EXCEPT ![s] = "marker"]
        /\ forkTitle \in [ForkRequests -> {"none", "marker", "human"}]
        /\ forkCount' = [forkCount EXCEPT ![s] = @ + 1] /\ forkCount \in [ForkRequests -> 0 .. 1]
    BY <1>3 DEF ForkCommits, ForkInv, ForkTyped
  <2> QED
    BY <2>1 DEF ForkInv, ToldKept, Holds
<1>4. ASSUME NEW r \in ForkRequests, TellChild(r) PROVE ToldKept'
  <2>1. PICK c, t : c = forkSeen[r].child /\ t = c[1]
    OBVIOUS
  <2>2. /\ c \in Children /\ Holds(r, t)
        /\ forkEntries[r].status = "complete" /\ forkEntries[r].child = c
    BY <1>4, <2>1, Handler DEF TellChild, At, Knows
  <2>3. /\ UNCHANGED <<forkEntries, forkCount>>
        /\ forkTold' = [forkTold EXCEPT ![r] = @ \cup {c}]
        /\ \/ forkTitle' = forkTitle
           \/ forkTitle' = [forkTitle EXCEPT ![t] = "human"]
    BY <1>4, <2>1 DEF TellChild, JournalKept
  <2>4. /\ forkTold \in [ForkRequests -> SUBSET ({ErrorAnswer, GoneAnswer} \cup Children)]
        /\ forkTitle \in [ForkRequests -> {"none", "marker", "human"}]
    BY DEF ForkInv, ForkTyped
  <2>5. Holds(t, t) /\ forkEntries[t].status = "complete"
    <3>1. Sound(forkEntries, r, t) /\ t \in DOMAIN forkEntries /\ forkEntries[t].root = t
      BY <2>2, GoodAt DEF Holds, ForkInv, JournalsKept
    <3> QED
      BY <2>2, <3>1 DEF Holds, Sound
  <2>6. ASSUME NEW q \in ForkRequests, NEW d \in forkTold'[q] \cap Children
        PROVE  q \in DOMAIN forkEntries' /\ forkEntries'[q].status = "complete" /\ forkEntries'[q].child = d
    <3>1. CASE d \in forkTold[q]
      BY <2>3, <2>6, <3>1 DEF ForkInv, ToldKept
    <3>2. CASE d \notin forkTold[q]
      <4>1. q = r /\ d = c
        BY <2>3, <2>4, <2>6, <3>2
      <4> QED
        BY <2>2, <2>3, <4>1 DEF Holds
    <3> QED
      BY <3>1, <3>2
  <2>7. ASSUME NEW s \in ForkRequests
        PROVE  /\ forkCount'[s] = 1 => forkTitle'[s] # "none"
               /\ forkTitle'[s] = "human" => Holds(s, s)' /\ forkEntries'[s].status = "complete"
    <3>1. /\ forkCount[s] = 1 => forkTitle[s] # "none"
          /\ forkTitle[s] = "human" => Holds(s, s) /\ forkEntries[s].status = "complete"
      BY DEF ForkInv, ToldKept
    <3>2. forkTitle'[s] = forkTitle[s] \/ (s = t /\ forkTitle'[s] = "human")
      BY <2>3, <2>4
    <3> QED
      BY <2>3, <2>5, <3>1, <3>2 DEF Holds
  <2> QED
    BY <2>6, <2>7 DEF ToldKept
<1>5. ASSUME NEW r \in ForkRequests,
             \/ SourceGone(r) \/ HandleFork(r) \/ Decide(r) \/ ClaimFork(r) \/ Refresh(r)
             \/ SendFork(r) \/ NeverSent(r) \/ ForkRejected(r) \/ ForkAnswered(r)
             \/ OutcomeUnknown(r) \/ LookAgain(r) \/ FinishFork(r) \/ ReconcileFork(r)
             \/ ForkRefused(r)
      PROVE  UNCHANGED <<forkCount, forkTitle>> /\
             \A q \in ForkRequests : forkTold'[q] \cap Children \subseteq forkTold[q]
  <2>1. UNCHANGED <<forkCount, forkTitle>>
    BY <1>5 DEF SourceGone, HandleFork, Decide, ClaimFork, Refresh, SendFork, NeverSent, ForkRejected,
            RejectFork, ForkAnswered, OutcomeUnknown, LookAgain, FinishFork, ReconcileFork,
            ForkRefused, OutsideKept
  <2>2. \/ forkTold' = forkTold
        \/ forkTold' = [forkTold EXCEPT ![r] = @ \cup {ErrorAnswer}]
        \/ forkTold' = [forkTold EXCEPT ![r] = @ \cup {GoneAnswer}]
    BY <1>5 DEF SourceGone, HandleFork, Decide, ClaimFork, Refresh, SendFork, NeverSent, ForkRejected,
            RejectFork, ForkAnswered, OutcomeUnknown, LookAgain, FinishFork, ReconcileFork,
            ForkRefused, TellError, Untold
  <2>3. forkTold \in [ForkRequests -> SUBSET ({ErrorAnswer, GoneAnswer} \cup Children)]
    BY DEF ForkInv, ForkTyped
  <2> QED
    BY <2>1, <2>2, <2>3, NoChildIs
<1>6. CASE ForkCrash
  BY <1>2, <1>6 DEF ForkCrash
<1> QED
  BY <1>2, <1>3, <1>4, <1>5, <1>6 DEF ForkNext

\* Types of the variables no handler carries, in every step.
LEMMA OtherTypes ==
    ASSUME ForkInv, ForkNext
    PROVE  /\ forkEngine' \in {"codex", "claude"}
           /\ forkCall' \in [ForkRequests -> {"none", "flight", "committed", "refused"}]
           /\ forkTitle' \in [ForkRequests -> {"none", "marker", "human"}]
           /\ forkCount' \in [ForkRequests -> 0 .. 1]
           /\ forkTold' \in [ForkRequests -> SUBSET ({ErrorAnswer, GoneAnswer} \cup Children)]
           /\ forkRec' \subseteq ForkRequests /\ forkKnown' \subseteq ForkRequests
<1>0. ForkTyped /\ CallsKept
  BY DEF ForkInv
<1>1. ASSUME NEW r \in ForkRequests,
             \/ SourceGone(r) \/ HandleFork(r) \/ Decide(r) \/ ClaimFork(r) \/ Refresh(r)
             \/ SendFork(r) \/ NeverSent(r) \/ ForkRejected(r) \/ ForkAnswered(r)
             \/ OutcomeUnknown(r) \/ LookAgain(r) \/ FinishFork(r) \/ TellChild(r)
             \/ ReconcileFork(r)
      PROVE  /\ forkEngine' = forkEngine /\ forkCount' = forkCount
             /\ forkCall' = forkCall \/ forkCall' = [forkCall EXCEPT ![forkSeen[r].root] = "flight"]
             /\ forkTitle' = forkTitle \/ \E t : forkTitle' = [forkTitle EXCEPT ![t] = "human"]
             /\ \/ forkTold' = forkTold
                \/ forkTold' = [forkTold EXCEPT ![r] = @ \cup {ErrorAnswer}]
                \/ forkTold' = [forkTold EXCEPT ![r] = @ \cup {GoneAnswer}]
                \/ At(r, "tell") /\ forkTold' = [forkTold EXCEPT ![r] = @ \cup {forkSeen[r].child}]
             /\ forkRec' \subseteq forkRec \cup {r} /\ forkKnown' \subseteq forkKnown \cup {r}
  <2>1. forkEngine' = forkEngine /\ forkCount' = forkCount
    BY <1>1 DEF SourceGone, HandleFork, Decide, ClaimFork, Refresh, SendFork, NeverSent, ForkRejected,
            RejectFork, ForkAnswered, OutcomeUnknown, LookAgain, FinishFork, TellChild, ReconcileFork,
            OutsideKept
  <2>2. forkCall' = forkCall \/ forkCall' = [forkCall EXCEPT ![forkSeen[r].root] = "flight"]
    BY <1>1 DEF SourceGone, HandleFork, Decide, ClaimFork, Refresh, SendFork, NeverSent, ForkRejected,
            RejectFork, ForkAnswered, OutcomeUnknown, LookAgain, FinishFork, TellChild, ReconcileFork,
            OutsideKept
  <2>3. forkTitle' = forkTitle \/ \E t : forkTitle' = [forkTitle EXCEPT ![t] = "human"]
    BY <1>1 DEF SourceGone, HandleFork, Decide, ClaimFork, Refresh, SendFork, NeverSent, ForkRejected,
            RejectFork, ForkAnswered, OutcomeUnknown, LookAgain, FinishFork, TellChild, ReconcileFork,
            OutsideKept
  <2>4. \/ forkTold' = forkTold
        \/ forkTold' = [forkTold EXCEPT ![r] = @ \cup {ErrorAnswer}]
        \/ forkTold' = [forkTold EXCEPT ![r] = @ \cup {GoneAnswer}]
        \/ At(r, "tell") /\ forkTold' = [forkTold EXCEPT ![r] = @ \cup {forkSeen[r].child}]
    BY <1>1 DEF SourceGone, HandleFork, Decide, ClaimFork, Refresh, SendFork, NeverSent, ForkRejected,
            RejectFork, ForkAnswered, OutcomeUnknown, LookAgain, FinishFork, TellChild, ReconcileFork,
            TellError, Untold
  <2>5. forkKnown' = forkKnown \/ forkKnown' = forkKnown \cup {r}
    BY <1>1 DEF SourceGone, HandleFork, Decide, ClaimFork, Refresh, SendFork, NeverSent, ForkRejected,
            RejectFork, ForkAnswered, OutcomeUnknown, LookAgain, FinishFork, TellChild, ReconcileFork,
            TellError, Untold
  <2>6. forkRec' = forkRec \/ forkRec' = forkRec \cup {r} \/ forkRec' = forkRec \ {r}
    BY <1>1 DEF SourceGone, HandleFork, Decide, ClaimFork, Refresh, SendFork, NeverSent, ForkRejected,
            RejectFork, ForkAnswered, OutcomeUnknown, LookAgain, FinishFork, TellChild, ReconcileFork,
            RecoverOr, LeaveUncertain
  <2> QED
    BY <2>1, <2>2, <2>3, <2>4, <2>5, <2>6
<1>2. ASSUME NEW r \in ForkRequests,
             \/ SourceGone(r) \/ HandleFork(r) \/ Decide(r) \/ ClaimFork(r) \/ Refresh(r)
             \/ SendFork(r) \/ NeverSent(r) \/ ForkRejected(r) \/ ForkAnswered(r)
             \/ OutcomeUnknown(r) \/ LookAgain(r) \/ FinishFork(r) \/ TellChild(r)
             \/ ReconcileFork(r)
      PROVE  /\ forkCall' \in [ForkRequests -> {"none", "flight", "committed", "refused"}]
             /\ forkTitle' \in [ForkRequests -> {"none", "marker", "human"}]
             /\ forkTold' \in [ForkRequests -> SUBSET ({ErrorAnswer, GoneAnswer} \cup Children)]
             /\ forkRec' \subseteq ForkRequests /\ forkKnown' \subseteq ForkRequests
  <2>1. forkCall' \in [ForkRequests -> {"none", "flight", "committed", "refused"}]
    BY <1>0, <1>1, <1>2 DEF ForkTyped
  <2>2. forkTitle' \in [ForkRequests -> {"none", "marker", "human"}]
    BY <1>0, <1>1, <1>2 DEF ForkTyped
  <2>3. forkTold' \in [ForkRequests -> SUBSET ({ErrorAnswer, GoneAnswer} \cup Children)]
    <3>1. At(r, "tell") => forkSeen[r].child \in Children
      BY Handler DEF At, Knows
    <3>2. forkTold \in [ForkRequests -> SUBSET ({ErrorAnswer, GoneAnswer} \cup Children)]
      BY <1>0 DEF ForkTyped
    <3> QED
      BY <1>1, <1>2, <3>1, <3>2
  <2>4. forkRec' \subseteq ForkRequests /\ forkKnown' \subseteq ForkRequests
    BY <1>0, <1>1, <1>2 DEF ForkTyped
  <2> QED
    BY <2>1, <2>2, <2>3, <2>4
<1>3. ASSUME NEW s \in ForkRequests, ForkCommits(s) \/ ForkRefused(s)
      PROVE  /\ forkEngine' = forkEngine /\ forkTold' = forkTold
             /\ forkCall' \in [ForkRequests -> {"none", "flight", "committed", "refused"}]
             /\ forkTitle' \in [ForkRequests -> {"none", "marker", "human"}]
             /\ forkCount' \in [ForkRequests -> 0 .. 1]
             /\ forkRec' = forkRec /\ forkKnown' = forkKnown
  <2>1. forkCount[s] = 0
    BY <1>0, <1>3 DEF ForkCommits, ForkRefused, CallsKept, ForkTyped
  <2> QED
    BY <1>0, <1>3, <2>1 DEF ForkCommits, ForkRefused, ForkTyped
<1>4. CASE ForkCrash
  BY <1>0, <1>4 DEF ForkCrash, ForkTyped
<1>5. CASE \E r \in ForkRequests :
             \/ SourceGone(r) \/ HandleFork(r) \/ Decide(r) \/ ClaimFork(r) \/ Refresh(r)
             \/ SendFork(r) \/ NeverSent(r) \/ ForkRejected(r) \/ ForkAnswered(r)
             \/ OutcomeUnknown(r) \/ LookAgain(r) \/ FinishFork(r) \/ TellChild(r)
             \/ ReconcileFork(r)
  BY <1>0, <1>1, <1>2, <1>5 DEF ForkTyped
<1>6. CASE \E s \in ForkRequests : ForkCommits(s) \/ ForkRefused(s)
  BY <1>0, <1>3, <1>6 DEF ForkTyped
<1> QED
  BY <1>4, <1>5, <1>6 DEF ForkNext

-----------------------------------------------------------------------------
\* The invariant of the fork journals holds in every reachable state.
THEOREM ForkInvariant == ForkSpec => []ForkInv
<1>1. ForkInit => ForkInv
  <2> SUFFICES ASSUME ForkInit PROVE ForkInv
    OBVIOUS
  <2>1. \A r \in ForkRequests : [status |-> "intent", root |-> r, child |-> NoChild] \in ForkEntry
    BY DEF ForkEntry, ForkStatuses, ForkOpen
  <2>2. ForkTyped
    BY <2>1, ForkAssumption DEF ForkInit, ForkTyped, ForkPcs, Volatiles
  <2>3. /\ DOMAIN forkEntries = {} /\ forkDisk = forkEntries
        /\ forkEntries = [k \in DOMAIN forkEntries |-> forkEntries[k]]
    BY DEF ForkInit
  <2>4. JournalsKept
    BY <2>3 DEF JournalsKept, Good, Table, OneOpenFork, Later
  <2>5. CallsKept
    BY <2>3 DEF ForkInit, CallsKept, Submitting
  <2>6. HandlersKept
    BY NoChildIs DEF ForkInit, HandlersKept, Knows
  <2>7. ToldKept
    BY DEF ForkInit, ToldKept
  <2> QED
    BY <2>2, <2>4, <2>5, <2>6, <2>7 DEF ForkInv
<1>2. ForkInv /\ [ForkNext]_forkVars => ForkInv'
  <2>1. ASSUME ForkInv, ForkNext PROVE ForkInv'
    <3>1. JournalsKept' /\ forkHurt' \in 0 .. ForkFaults
      BY <2>1, JournalStep DEF Moved
    <3>2. ForkTyped'
      BY <2>1, <3>1, HandlersStep, OtherTypes DEF ForkTyped
    <3> QED
      BY <2>1, <3>1, <3>2, CallsStep, HandlersStep, ToldStep DEF ForkInv
  <2>2. ASSUME ForkInv, UNCHANGED forkVars PROVE ForkInv'
    <3>1. UNCHANGED forkVars
      BY <2>2
    <3>2. ForkTyped'
      BY <2>2 DEF forkVars, ForkInv, ForkTyped
    <3>3. JournalsKept'
      BY <2>2 DEF forkVars, ForkInv, JournalsKept
    <3>4. CallsKept'
      BY <2>2 DEF forkVars, ForkInv, CallsKept, Holds, Submitting
    <3>5. HandlersKept'
      BY <2>2 DEF forkVars, ForkInv, HandlersKept, Knows, Holds
    <3>6. ToldKept'
      BY <2>2 DEF forkVars, ForkInv, ToldKept, Holds
    <3> QED
      BY <3>2, <3>3, <3>4, <3>5, <3>6 DEF ForkInv
  <2> QED
    BY <2>1, <2>2
<1> QED
  BY <1>1, <1>2, PTL DEF ForkSpec

\* For any number of requests for a turn and any faults: one fork per marker, open forks shared,
\* a journal that _load accepts, children told of recorded, and unrecorded ones findable.
THEOREM ForksAreSafe == ForkSpec => []ForksSafe
<1>1. ForkInv => ForksSafe
  <2> SUFFICES ASSUME ForkInv PROVE ForksSafe
    OBVIOUS
  <2>0. ForkTyped /\ JournalsKept /\ CallsKept /\ ToldKept
    BY DEF ForkInv
  <2>1. ForkTypeOK
    <3>1. \A es \in {forkEntries, forkDisk} :
             DOMAIN es \subseteq ForkRequests /\ \A k \in DOMAIN es : es[k] \in ForkEntry
      BY <2>0 DEF JournalsKept, Good, Table
    <3>2. \A r \in ForkRequests :
             /\ forkPc[r] \in ForkPcs /\ forkSeen[r] \in ForkEntry /\ forkVolatile[r] \in Volatiles
             /\ forkCall[r] \in {"none", "flight", "committed", "refused"}
             /\ forkCount[r] \in 0 .. 2
             /\ forkTitle[r] \in {"none", "marker", "human"}
             /\ forkTold[r] \subseteq {ErrorAnswer, GoneAnswer} \cup Children
      <4> SUFFICES ASSUME NEW r \in ForkRequests
                   PROVE  /\ forkPc[r] \in ForkPcs /\ forkSeen[r] \in ForkEntry
                          /\ forkVolatile[r] \in Volatiles
                          /\ forkCall[r] \in {"none", "flight", "committed", "refused"}
                          /\ forkCount[r] \in 0 .. 2
                          /\ forkTitle[r] \in {"none", "marker", "human"}
                          /\ forkTold[r] \subseteq {ErrorAnswer, GoneAnswer} \cup Children
        OBVIOUS
      <4>1. forkTold[r] \in SUBSET ({ErrorAnswer, GoneAnswer} \cup Children)
        BY <2>0 DEF ForkTyped
      <4>2. forkCount[r] \in 0 .. 1
        BY <2>0 DEF ForkTyped
      <4> QED
        BY <2>0, <4>1, <4>2 DEF ForkTyped
    <3> QED
      BY <2>0, <3>1, <3>2 DEF ForkTypeOK, ForkTyped, ForkPcs, Volatiles
  <2>2. ForkedOnce
    BY <2>0 DEF ForkedOnce, CallsKept
  <2>3. OpenForkShared
    <3>1. CASE OpenRoots(forkEntries) = {}
      BY <3>1, FS_EmptySet DEF OpenForkShared
    <3>2. ASSUME NEW x \in OpenRoots(forkEntries) PROVE OpenForkShared
      <4>1. OpenRoots(forkEntries) = {x}
        BY <2>0, <3>2 DEF OpenRoots, JournalsKept, Good, OneOpenFork
      <4>2. Cardinality({x}) = 1
        BY FS_Singleton
      <4> QED
        BY <4>1, <4>2 DEF OpenForkShared
    <3> QED
      BY <3>1, <3>2
  <2>4. JournalReadable
    BY <2>0, GoodIsValid DEF JournalReadable, JournalsKept
  <2>5. ToldIsDurable
    BY <2>0 DEF ToldIsDurable, ToldKept, JournalsKept, Later
  <2>6. UnrecordedIsFindable
    BY <2>0 DEF UnrecordedIsFindable, ToldKept, JournalsKept, Later, Holds, ForkTyped
  <2> QED
    BY <2>1, <2>2, <2>3, <2>4, <2>5, <2>6 DEF ForksSafe
<1> QED
  BY <1>1, ForkInvariant, PTL

\* Whatever is lost or retried, an error is told only when the request's marker has no child and
\* no call that could still make one.
THEOREM ErrorsHideNoFork == ForkSpec => ErrorHidesNoFork
<1> DEFINE NewError(r) == /\ (forkTold'[r] \ forkTold[r]) \cap {ErrorAnswer, GoneAnswer} # {}
                          /\ ~(forkEngine = "codex" /\ GoneAnswer \in forkTold'[r] \ forkTold[r])
           NoFork(s)   == forkCount[s] = 0 /\ forkCall[s] # "flight"
<1>1. ASSUME ForkInv, ForkNext, NEW r \in ForkRequests, NewError(r) PROVE NoFork(SourceOf(r))
  <2>0. /\ CallsKept /\ JournalsKept
        /\ forkTold \in [ForkRequests -> SUBSET ({ErrorAnswer, GoneAnswer} \cup Children)]
    BY <1>1 DEF ForkInv, ForkTyped
  <2>1. CASE r \notin DOMAIN forkEntries
    <3>1. SourceOf(r) = r /\ forkCall[r] = "none"
      BY <2>0, <2>1 DEF SourceOf, CallsKept, Holds
    <3> QED
      BY <2>0, <3>1 DEF CallsKept
  <2>2. CASE r \in DOMAIN forkEntries
    <3>1. PICK u : u = forkEntries[r].root
      OBVIOUS
    <3>2. /\ SourceOf(r) = u /\ u \in ForkRequests /\ u \in DOMAIN forkEntries
          /\ forkEntries[u].root = u /\ Sound(forkEntries, r, u)
      BY <2>0, <2>2, <3>1, GoodAt DEF SourceOf, JournalsKept
    <3>3. forkEntries[u].status = "intent" => NoFork(u)
      BY <2>0, <3>2 DEF CallsKept
    <3>4. forkEntries[r].status = "rejected" => NoFork(u)
      <4>1. forkEntries[r].status = "rejected" => forkEntries[u].status = "rejected"
        BY <3>2 DEF Sound, ForkOpen
      <4>2. forkEntries[u].status = "rejected" =>
                u \in DOMAIN forkDisk /\ forkDisk[u].status = "rejected" /\ forkDisk[u].root = u
        BY <2>0, <3>2 DEF JournalsKept, Later
      <4> QED
        BY <2>0, <3>2, <4>1, <4>2 DEF CallsKept
    <3>5. ASSUME NEW q \in ForkRequests,
                 \/ SourceGone(q) \/ HandleFork(q) \/ Decide(q) \/ ClaimFork(q) \/ Refresh(q)
                 \/ SendFork(q) \/ NeverSent(q) \/ ForkRejected(q) \/ ForkAnswered(q)
                 \/ OutcomeUnknown(q) \/ LookAgain(q) \/ FinishFork(q) \/ TellChild(q)
                 \/ ReconcileFork(q) \/ ForkCommits(q) \/ ForkRefused(q)
          PROVE  \/ NoFork(u)
                 \/ forkTold' = forkTold
                 \/ q # r /\ \E S : forkTold' = [forkTold EXCEPT ![q] = S]
                 \/ TellChild(q)
                 \/ forkEngine = "codex" /\ forkTold' = [forkTold EXCEPT ![r] = @ \cup {GoneAnswer}]
      <4>1. CASE forkTold' = forkTold
        BY <4>1
      <4>2. CASE TellChild(q)
        BY <4>2
      <4>3. CASE \E a : TellError(q, a) /\ q # r
        BY <4>3 DEF TellError
      <4>4. CASE q = r /\ SourceGone(q)
        <5>1. forkEngine = "codex" \/ forkEntries[u].status = "intent"
          BY <1>1, <2>2, <3>1, <4>4 DEF SourceGone, ForkInv, ForkTyped
        <5> QED
          BY <3>3, <4>4, <5>1 DEF SourceGone, TellError
      <4>5. CASE q = r /\ Decide(q)
        <5>1. forkPc[r] = "begun" /\ (forkSeen[r].status = "rejected" \/ forkTold' = forkTold)
          BY <4>5 DEF Decide, At, Untold
        <5>2. forkSeen[r].status = "rejected" => forkEntries[r].status = "rejected"
          BY <1>1, <5>1, Handler DEF Knows
        <5> QED
          BY <3>4, <5>1, <5>2
      <4>6. CASE q = r /\ Refresh(q)
        <5>1. forkEntries[r].status = "rejected" \/ forkTold' = forkTold
          BY <4>6 DEF Refresh, Untold
        <5> QED
          BY <3>4, <5>1
      <4>7. CASE q = r /\ ClaimFork(q)
        <5>1. MayClaim(forkEntries, r) \/ forkTold' = forkTold
          BY <2>2, <4>7 DEF ClaimFork, Untold
        <5> QED
          BY <3>1, <3>3, <5>1 DEF MayClaim
      <4>8. CASE q = r /\ (NeverSent(q) \/ ForkRejected(q))
        <5>1. /\ forkPc[r] \in {"rpc", "sent"}
              /\ forkPc[r] = "rpc" \/ forkCall[forkSeen[r].root] = "refused"
          BY <4>8 DEF NeverSent, ForkRejected, At
        <5>2. forkSeen[r].root = u
          BY <1>1, <3>1, <5>1, Handler DEF Knows, Holds
        <5>3. forkCall[u] \in {"none", "refused"}
          BY <2>0, <5>1, <5>2 DEF CallsKept, Submitting
        <5> QED
          BY <2>0, <3>2, <5>3 DEF CallsKept
      <4>9. CASE q = r /\ HandleFork(q)
        BY <2>2, <4>9 DEF HandleFork, Untold
      <4>10. q # r => forkTold' = forkTold \/ TellChild(q) \/ \E a : TellError(q, a)
        BY <3>5 DEF SourceGone, HandleFork, Decide, ClaimFork, Refresh, SendFork, NeverSent,
                ForkRejected, RejectFork, ForkAnswered, OutcomeUnknown, LookAgain, FinishFork,
                ReconcileFork, ForkCommits, ForkRefused, Untold
      <4>11. CASE \/ SendFork(q) \/ ForkAnswered(q) \/ OutcomeUnknown(q) \/ LookAgain(q)
                  \/ FinishFork(q) \/ ReconcileFork(q) \/ ForkCommits(q) \/ ForkRefused(q)
        BY <4>1, <4>11 DEF SendFork, ForkAnswered, OutcomeUnknown, LookAgain, FinishFork, ReconcileFork,
                ForkCommits, ForkRefused, Untold
      <4> QED
        BY <3>5, <4>1, <4>2, <4>3, <4>4, <4>5, <4>6, <4>7, <4>8, <4>9, <4>10, <4>11
    <3>6. ASSUME NEW q \in ForkRequests, TellChild(q) PROVE FALSE
      <4>1. forkSeen[q].child \in Children /\ forkTold' = [forkTold EXCEPT ![q] = @ \cup {forkSeen[q].child}]
        BY <1>1, <3>6, Handler DEF TellChild, At, Knows
      <4> QED
        BY <1>1, <2>0, <4>1, NoChildIs
    <3>7. ASSUME forkTold' = forkTold PROVE FALSE
      BY <1>1, <3>7
    <3>8. ASSUME NEW q \in ForkRequests, q # r, NEW S, forkTold' = [forkTold EXCEPT ![q] = S] PROVE FALSE
      BY <1>1, <2>0, <3>8
    <3>9. ASSUME forkEngine = "codex", forkTold' = [forkTold EXCEPT ![r] = @ \cup {GoneAnswer}] PROVE FALSE
      <4>1. forkTold'[r] = forkTold[r] \cup {GoneAnswer}
        BY <2>0, <3>9
      <4> QED
        BY <1>1, <3>9, <4>1
    <3>10. CASE ForkCrash
      BY <3>7, <3>10 DEF ForkCrash
    <3> HIDE DEF NewError, NoFork
    <3> QED
      BY <1>1, <3>2, <3>5, <3>6, <3>7, <3>8, <3>9, <3>10 DEF ForkNext
  <2> QED
    BY <2>1, <2>2
<1>2. ASSUME ForkInv, UNCHANGED forkVars, NEW r \in ForkRequests, NewError(r) PROVE FALSE
  BY <1>2 DEF forkVars
<1>3. ForkInv /\ [ForkNext]_forkVars =>
        [\A r \in ForkRequests : NewError(r) => \A s \in {SourceOf(r)} : NoFork(s)]_forkVars
  <2> HIDE DEF NewError, NoFork
  <2> QED
    BY <1>1
<1> QED
  BY <1>3, ForkInvariant, PTL DEF ForkSpec, ErrorHidesNoFork
-----------------------------------------------------------------------------
(***************************************************************************)
(* The reliable commands of a page.                                        *)
(***************************************************************************)

(* What may be on its way from the wrapper to the page.                      *)
Frame == {Announce} \cup {Response(c) : c \in issued} \cup {Ack(c) : c \in ever}

Task == [sent : BOOLEAN, replay : BOOLEAN]

PageFits ==
    /\ issued \subseteq Cmds /\ IsFiniteSet(issued) /\ answered \subseteq issued
    /\ outbox \in Seq(issued) /\ Len(outbox) <= OutboxCap /\ IsInjective(outbox)
    /\ Acked \subseteq ever

WiresFit ==
    /\ up \in Seq(issued) /\ inbox \in Seq(issued)
    /\ sendQ \in Seq(Frame) /\ down \in Seq(Frame)
    /\ ~link => sendQ = <<>>
    /\ conn = 0 => down = <<>>

(* A task of an id that was completed in this lifetime is a read.            *)
TasksFit ==
    /\ DOMAIN running \subseteq issued
    /\ running \in [DOMAIN running -> Task]
    /\ \A c \in DOMAIN running : running[c].replay => c \in Reads /\ c \in done

MemoryFits ==
    /\ done \subseteq ever /\ ever \subseteq issued
    /\ seen \in Seq(done) /\ Len(seen) <= SeenCap /\ IsInjective(seen)

(* As long as the LRU has room for all that was completed, it has all of it. *)
NothingForgotten ==
    Cardinality(done) <= SeenCap =>
       /\ done \subseteq ToSet(seen)
       /\ \A c \in DOMAIN running : c \in done => c \in Reads

FewAreOnce == Cardinality(issued) <= SeenCap => repeated = {}

DeliveryInv ==
    PageFits /\ WiresFit /\ TasksFit /\ MemoryFits /\ NothingForgotten /\ FewAreOnce
-----------------------------------------------------------------------------
(* Sequences of ids.                                                         *)
LEMMA SeqGrows ==
    ASSUME NEW S, NEW T, S \subseteq T, NEW s \in Seq(S)
    PROVE  s \in Seq(T)
OBVIOUS

LEMMA SetOfAppend ==
    ASSUME NEW S, NEW s \in Seq(S), NEW c
    PROVE  /\ ToSet(Append(s, c)) = ToSet(s) \cup {c}
           /\ Len(Append(s, c)) = Len(s) + 1
           /\ ToSet(s) \subseteq S
           /\ c \in S => Append(s, c) \in Seq(S)
           /\ IsInjective(s) /\ c \notin ToSet(s) => IsInjective(Append(s, c))
<1> DEFINE a == Append(s, c)
           n == Len(s)
<1>1. n \in Nat /\ DOMAIN s = 1 .. n
  OBVIOUS
<1>2. /\ Len(a) = n + 1 /\ DOMAIN a = 1 .. n + 1 /\ a[n + 1] = c
      /\ \A k \in 1 .. n : a[k] = s[k]
  OBVIOUS
<1>3. c \in S => a \in Seq(S)
  OBVIOUS
<1>4. \A k \in DOMAIN s : s[k] \in S
  OBVIOUS
<1> HIDE DEF a, n
<1>5. \A k \in DOMAIN a : k = n + 1 \/ k \in DOMAIN s
  BY <1>1, <1>2
<1>6. ToSet(a) = ToSet(s) \cup {c}
  <2>1. ToSet(a) \subseteq ToSet(s) \cup {c}
    BY <1>1, <1>2, <1>5 DEF ToSet
  <2>2. n + 1 \in DOMAIN a /\ \A k \in DOMAIN s : k \in DOMAIN a
    BY <1>1, <1>2
  <2>3. ToSet(s) \cup {c} \subseteq ToSet(a)
    BY <1>1, <1>2, <2>2 DEF ToSet
  <2> QED BY <2>1, <2>3
<1>7. IsInjective(s) /\ c \notin ToSet(s) => IsInjective(a)
  BY <1>1, <1>2, <1>5 DEF IsInjective, ToSet
<1> QED BY <1>2, <1>3, <1>4, <1>6, <1>7 DEF a, n, ToSet

LEMMA SetOfTail ==
    ASSUME NEW S, NEW s \in Seq(S), s # <<>>
    PROVE  /\ Tail(s) \in Seq(S) /\ Len(Tail(s)) = Len(s) - 1 /\ Head(s) \in S
           /\ ToSet(Tail(s)) \subseteq ToSet(s)
           /\ IsInjective(s) => IsInjective(Tail(s))
<1> DEFINE a == Tail(s)
           n == Len(s)
<1>1. n \in Nat /\ n >= 1 /\ DOMAIN s = 1 .. n /\ Head(s) \in S
  OBVIOUS
<1>2. /\ a \in Seq(S) /\ Len(a) = n - 1 /\ DOMAIN a = 1 .. n - 1
      /\ \A k \in DOMAIN a : a[k] = s[k + 1]
  OBVIOUS
<1> HIDE DEF a, n
<1>3. \A k \in DOMAIN a : k + 1 \in DOMAIN s
  BY <1>1, <1>2
<1>4. ToSet(a) \subseteq ToSet(s)
  BY <1>2, <1>3 DEF ToSet
<1>5. IsInjective(s) => IsInjective(a)
  <2> SUFFICES ASSUME IsInjective(s), NEW j \in DOMAIN a, NEW k \in DOMAIN a, a[j] = a[k] PROVE j = k
    BY DEF IsInjective
  <2>1. s[j + 1] = s[k + 1] /\ j + 1 \in DOMAIN s /\ k + 1 \in DOMAIN s
    BY <1>2, <1>3
  <2>2. j + 1 = k + 1
    BY <2>1 DEF IsInjective
  <2>3. j \in Nat /\ k \in Nat
    BY <1>1, <1>2
  <2> QED BY <2>2, <2>3
<1> QED BY <1>1, <1>2, <1>4, <1>5 DEF a, n

LEMMA WithoutOne ==
    ASSUME NEW S, NEW s \in Seq(S), IsInjective(s), NEW c
    PROVE  /\ Without(s, c) \in Seq(S) /\ IsInjective(Without(s, c))
           /\ ToSet(Without(s, c)) = ToSet(s) \ {c}
           /\ Len(Without(s, c)) = Len(s) - (IF c \in ToSet(s) THEN 1 ELSE 0)
<1>1. CASE c \notin ToSet(s)
  BY <1>1 DEF Without
<1>2. CASE c \in ToSet(s)
  <2> DEFINE i == CHOOSE k \in DOMAIN s : s[k] = c
             n == Len(s)
             a == SubSeq(s, 1, i - 1)
             b == SubSeq(s, i + 1, n)
             w == a \o b
  <2>1. i \in DOMAIN s /\ s[i] = c
    BY <1>2 DEF ToSet
  <2>2. Without(s, c) = w
    BY <1>2 DEF Without, RemoveAt
  <2>3. n \in Nat /\ DOMAIN s = 1 .. n /\ i \in 1 .. n /\ i - 1 \in Nat /\ n - i \in Nat
    BY <2>1
  <2> HIDE DEF i, n
  <2>4. a \in Seq(S) /\ Len(a) = i - 1 /\ \A k \in 1 .. i - 1 : a[k] = s[k]
    <3>1. \A k \in 1 .. i - 1 : s[k] \in S
      BY <2>3
    <3>2. /\ a \in Seq(S) /\ Len(a) = IF 1 <= i - 1 THEN i - 1 - 1 + 1 ELSE 0
          /\ \A k \in 1 .. (i - 1) - 1 + 1 : a[k] = s[1 + k - 1]
      BY <2>3, <3>1, SubSeqProperties
    <3> QED BY <2>3, <3>2
  <2>5. b \in Seq(S) /\ Len(b) = n - i /\ \A k \in 1 .. n - i : b[k] = s[i + k]
    <3>1. \A k \in i + 1 .. n : s[k] \in S
      BY <2>3
    <3>2. /\ b \in Seq(S) /\ Len(b) = IF i + 1 <= n THEN n - (i + 1) + 1 ELSE 0
          /\ \A k \in 1 .. n - (i + 1) + 1 : b[k] = s[(i + 1) + k - 1]
      BY <2>3, <3>1, SubSeqProperties
    <3> QED BY <2>3, <3>2
  <2> HIDE DEF a, b
  <2>6. /\ w \in Seq(S) /\ Len(w) = n - 1
        /\ \A k \in 1 .. n - 1 : w[k] = IF k < i THEN s[k] ELSE s[k + 1]
    <3>1. /\ w \in Seq(S) /\ Len(w) = Len(a) + Len(b)
          /\ \A k \in 1 .. Len(a) + Len(b) : w[k] = IF k <= Len(a) THEN a[k] ELSE b[k - Len(a)]
      BY <2>4, <2>5, ConcatProperties
    <3>2. Len(a) + Len(b) = n - 1
      BY <2>3, <2>4, <2>5
    <3>3. ASSUME NEW k \in 1 .. n - 1 PROVE w[k] = IF k < i THEN s[k] ELSE s[k + 1]
      <4>1. CASE k < i
        <5>1. k <= Len(a) /\ k \in 1 .. i - 1
          BY <2>3, <2>4, <4>1
        <5> QED BY <2>4, <3>1, <3>2, <4>1, <5>1
      <4>2. CASE ~(k < i)
        <5>1. ~(k <= Len(a)) /\ k - Len(a) \in 1 .. n - i /\ i + (k - Len(a)) = k + 1
          BY <2>3, <2>4, <4>2
        <5>2. w[k] = b[k - Len(a)]
          BY <3>1, <3>2, <5>1
        <5>3. b[k - Len(a)] = s[i + (k - Len(a))]
          BY <2>5, <5>1
        <5>4. w[k] = s[k + 1]
          BY <5>1, <5>2, <5>3
        <5> QED BY <4>2, <5>4
      <4> QED BY <4>1, <4>2
    <3> HIDE DEF w
    <3> QED BY <3>1, <3>2, <3>3
  <2> HIDE DEF w
  <2>7. DOMAIN w = 1 .. n - 1
    BY <2>3, <2>6
  <2>8. \A k \in DOMAIN w : w[k] \in ToSet(s) \ {c}
    <3> TAKE k \in DOMAIN w
    <3>1. k \in DOMAIN s /\ k + 1 \in DOMAIN s /\ k \in Nat
      BY <2>3, <2>7
    <3>2. CASE k < i
      BY <2>1, <2>3, <2>6, <2>7, <3>1, <3>2 DEF IsInjective, ToSet
    <3>3. CASE ~(k < i)
      <4>1. w[k] = s[k + 1] /\ k + 1 # i
        BY <2>3, <2>6, <2>7, <3>1, <3>3
      <4> QED BY <2>1, <3>1, <4>1 DEF IsInjective, ToSet
    <3> QED BY <3>2, <3>3
  <2>9. \A k \in DOMAIN s : s[k] # c => s[k] \in ToSet(w)
    <3> SUFFICES ASSUME NEW k \in DOMAIN s, s[k] # c PROVE \E j \in DOMAIN w : w[j] = s[k]
      BY DEF ToSet
    <3>1. k \in 1 .. n /\ k # i
      BY <2>1, <2>3
    <3>2. CASE k < i
      <4>1. k \in 1 .. n - 1
        BY <2>3, <3>1, <3>2
      <4> QED BY <2>6, <2>7, <3>2, <4>1
    <3>3. CASE k > i
      <4>1. k - 1 \in 1 .. n - 1 /\ ~(k - 1 < i) /\ (k - 1) + 1 = k
        BY <2>3, <3>1, <3>3
      <4>2. w[k - 1] = s[k]
        BY <2>6, <4>1
      <4> QED BY <2>7, <4>1, <4>2
    <3> QED BY <2>3, <3>1, <3>2, <3>3
  <2>10. ToSet(w) = ToSet(s) \ {c}
    BY <2>8, <2>9 DEF ToSet
  <2>11. IsInjective(w)
    <3> SUFFICES ASSUME NEW j \in DOMAIN w, NEW k \in DOMAIN w, w[j] = w[k] PROVE j = k
      BY DEF IsInjective
    <3> DEFINE place(x) == IF x < i THEN x ELSE x + 1
    <3>1. place(j) \in DOMAIN s /\ place(k) \in DOMAIN s /\ s[place(j)] = s[place(k)]
      BY <2>3, <2>6, <2>7
    <3>2. place(j) = place(k)
      BY <3>1 DEF IsInjective
    <3>3. j \in Nat /\ k \in Nat
      BY <2>3, <2>7
    <3> QED BY <2>3, <3>2, <3>3
  <2> QED BY <1>2, <2>2, <2>6, <2>10, <2>11 DEF n
<1> QED BY <1>1, <1>2

(* A sequence without repetition is as long as its set is large.             *)
LEMMA SizeOfSet ==
    ASSUME NEW S, NEW s \in Seq(S), IsInjective(s)
    PROVE  IsFiniteSet(ToSet(s)) /\ Cardinality(ToSet(s)) = Len(s)
<1> DEFINE n == Len(s)
<1>1. n \in Nat /\ DOMAIN s = 1 .. n
  OBVIOUS
<1>2. s \in Bijection(1 .. n, ToSet(s))
  <2>1. s \in [1 .. n -> ToSet(s)]
    <3>1. \A k \in 1 .. n : s[k] \in ToSet(s)
      BY <1>1 DEF ToSet
    <3>2. s = [k \in 1 .. n |-> s[k]]
      BY <1>1
    <3> QED BY <3>1, <3>2
  <2>2. \A j, k \in 1 .. n : s[j] = s[k] => j = k
    BY <1>1 DEF IsInjective
  <2>3. \A e \in ToSet(s) : \E k \in 1 .. n : s[k] = e
    BY <1>1 DEF ToSet
  <2> QED BY <2>1, <2>2, <2>3 DEF Bijection, Injection, Surjection, IsInjective
<1>3. ExistsBijection(1 .. n, ToSet(s))
  BY <1>2 DEF ExistsBijection
<1>4. IsFiniteSet(1 .. n) /\ Cardinality(1 .. n) = n
  BY <1>1, FS_Interval
<1> HIDE DEF n
<1>5. IsFiniteSet(ToSet(s)) /\ Cardinality(ToSet(s)) = Cardinality(1 .. n)
  BY <1>3, <1>4, FS_Bijection
<1> QED BY <1>4, <1>5 DEF n
-----------------------------------------------------------------------------
LEMMA FramesGrow ==
    ASSUME issued \subseteq issued', ever \subseteq ever'
    PROVE  Frame \subseteq Frame'
BY DEF Frame

LEMMA FramesTold ==
    ASSUME NEW f \in Frame
    PROVE  /\ f.type = "command_ack" => f.cmd \in ever
           /\ f.type = "response" => f.cmd \in issued
BY DEF Frame, Announce, Response, Ack

LEMMA SentFits ==
    ASSUME NEW F, sendQ \in Seq(F), NEW frames \in Seq(F), ~link => sendQ = <<>>
    PROVE  Sent(frames) \in Seq(F) /\ (~link => Sent(frames) = <<>>)
BY ConcatProperties DEF Sent

(* The LRU after an id was remembered: it loses another one only if it was   *)
(* full of others.                                                           *)
LEMMA RememberedFits ==
    ASSUME NEW S, seen \in Seq(S), Len(seen) <= SeenCap, IsInjective(seen), NEW c \in S
    PROVE  /\ Remembered(c) \in Seq(S) /\ Len(Remembered(c)) <= SeenCap
           /\ IsInjective(Remembered(c))
           /\ c \in ToSet(seen) \/ Cardinality(ToSet(seen) \cup {c}) <= SeenCap
                 => ToSet(Remembered(c)) = ToSet(seen) \cup {c}
<1> DEFINE o == Without(seen, c)
           r == IF Len(o) < SeenCap THEN o ELSE Tail(o)
<1>1. SeenCap \in Nat /\ SeenCap >= 1
  BY DeliveryAssumption
<1>2. /\ o \in Seq(S) /\ IsInjective(o) /\ ToSet(o) = ToSet(seen) \ {c}
      /\ Len(o) = Len(seen) - (IF c \in ToSet(seen) THEN 1 ELSE 0)
  BY WithoutOne
<1>3. Remembered(c) = Append(r, c)
  BY DEF Remembered
<1> HIDE DEF o
<1>4. Len(o) \in Nat /\ Len(seen) \in Nat
  BY <1>2, LenProperties
<1>5. CASE Len(o) < SeenCap
  <2>1. r = o
    BY <1>5
  <2>2. /\ ToSet(Append(o, c)) = ToSet(o) \cup {c} /\ Len(Append(o, c)) = Len(o) + 1
        /\ Append(o, c) \in Seq(S) /\ IsInjective(Append(o, c))
    BY <1>2, SetOfAppend
  <2>3. Len(o) + 1 <= SeenCap
    BY <1>1, <1>4, <1>5
  <2> QED BY <1>2, <1>3, <2>1, <2>2, <2>3
<1>6. CASE ~(Len(o) < SeenCap)
  <2>1. c \notin ToSet(seen) /\ Len(o) = SeenCap /\ Len(o) >= 1
    BY <1>1, <1>2, <1>4, <1>6
  <2>2. o # <<>> /\ r = Tail(o)
    BY <1>6, <2>1
  <2>3. r \in Seq(S) /\ Len(r) = Len(o) - 1 /\ IsInjective(r) /\ ToSet(r) \subseteq ToSet(o)
    BY <1>2, <2>2, SetOfTail
  <2>4. /\ Len(Append(r, c)) = Len(r) + 1 /\ Append(r, c) \in Seq(S) /\ IsInjective(Append(r, c))
    BY <1>2, <2>3, SetOfAppend
  <2>5. ~(Cardinality(ToSet(seen) \cup {c}) <= SeenCap)
    <3>1. IsFiniteSet(ToSet(seen)) /\ Cardinality(ToSet(seen)) = Len(seen) /\ Len(seen) = SeenCap
      BY <1>2, <1>4, <2>1, SizeOfSet
    <3>2. Cardinality(ToSet(seen) \cup {c}) = Cardinality(ToSet(seen)) + 1
      BY <2>1, <3>1, FS_AddElement
    <3> QED BY <1>1, <3>1, <3>2
  <2>6. Len(r) + 1 <= SeenCap
    BY <1>1, <2>1, <2>3
  <2> QED BY <1>3, <2>1, <2>4, <2>5, <2>6
<1> QED BY <1>5, <1>6
-----------------------------------------------------------------------------
(* The actions.                                                              *)
LEMMA DeliveryInitFits == Init => DeliveryInv
<1> SUFFICES ASSUME Init PROVE DeliveryInv
  OBVIOUS
<1>1. /\ issued = {} /\ outbox = <<>> /\ answered = {} /\ up = <<>> /\ down = <<>> /\ sendQ = <<>>
      /\ inbox = <<>> /\ running = <<>> /\ seen = <<>> /\ done = {} /\ ever = {} /\ repeated = {}
  BY DEF Init
<1>2. DOMAIN running = {} /\ running \in [DOMAIN running -> Task]
  BY <1>1
<1>3. IsFiniteSet(issued)
  BY <1>1, FS_EmptySet
<1>4. IsInjective(outbox) /\ IsInjective(seen) /\ Len(outbox) <= OutboxCap /\ Len(seen) <= SeenCap
  BY <1>1, DeliveryAssumption DEF IsInjective
<1> QED BY <1>1, <1>2, <1>3, <1>4
        DEF DeliveryInv, PageFits, WiresFit, TasksFit, MemoryFits, NothingForgotten, FewAreOnce, Acked

(* A step of the page or of the wires.                                       *)
LEMMA WrapperRests ==
    ASSUME DeliveryInv, UNCHANGED wrapperVars, issued \subseteq issued', IsFiniteSet(issued')
    PROVE  TasksFit' /\ MemoryFits' /\ NothingForgotten' /\ FewAreOnce'
<1>1. UNCHANGED <<running, seen, done, ever, repeated>>
  BY DEF wrapperVars
<1>2. TasksFit' /\ MemoryFits' /\ NothingForgotten'
  BY <1>1 DEF DeliveryInv, TasksFit, MemoryFits, NothingForgotten
<1>3. Cardinality(issued) \in Nat /\ Cardinality(issued') \in Nat
      /\ Cardinality(issued) <= Cardinality(issued')
  BY FS_Subset, FS_CardinalityType DEF DeliveryInv, PageFits
<1>4. SeenCap \in Nat
  BY DeliveryAssumption
<1> QED BY <1>1, <1>2, <1>3, <1>4 DEF DeliveryInv, FewAreOnce

LEMMA IssueKeeps ==
    ASSUME DeliveryInv, NEW c \in Cmds, Issue(c)
    PROVE  DeliveryInv' /\ Acked' = Acked
<1>1. /\ c \notin issued /\ Len(outbox) < OutboxCap /\ issued' = issued \cup {c}
      /\ outbox' = Append(outbox, c) /\ up' = IF conn # 0 THEN Append(up, c) ELSE up
      /\ UNCHANGED <<answered, conn, down, link, sendQ, inbox, running, seen, done, ever, repeated>>
  BY DEF Issue, wireVars, wrapperVars
<1>2. IsFiniteSet(issued')
  BY <1>1, FS_AddElement DEF DeliveryInv, PageFits
<1>3. outbox \in Seq(issued') /\ up \in Seq(issued') /\ inbox \in Seq(issued')
  BY <1>1, SeqGrows DEF DeliveryInv, PageFits, WiresFit
<1>4. ToSet(outbox) \subseteq issued /\ c \notin ToSet(outbox)
  BY <1>1, SetOfAppend DEF DeliveryInv, PageFits
<1>5. /\ outbox' \in Seq(issued') /\ IsInjective(outbox') /\ Len(outbox') = Len(outbox) + 1
      /\ ToSet(outbox') = ToSet(outbox) \cup {c}
  BY <1>1, <1>3, <1>4, SetOfAppend DEF DeliveryInv, PageFits
<1>6. Len(outbox') <= OutboxCap
  <2>1. Len(outbox) \in Nat /\ OutboxCap \in Nat
    BY DeliveryAssumption DEF DeliveryInv, PageFits
  <2> QED BY <1>1, <1>5, <2>1
<1>7. Acked' = Acked
  BY <1>1, <1>4, <1>5 DEF Acked
<1>8. PageFits'
  BY <1>1, <1>2, <1>5, <1>6, <1>7 DEF DeliveryInv, PageFits
<1>9. up' \in Seq(issued')
  BY <1>1, <1>3
<1>10. sendQ \in Seq(Frame') /\ down \in Seq(Frame')
  BY <1>1, FramesGrow, SeqGrows DEF DeliveryInv, WiresFit
<1>11. WiresFit'
  BY <1>1, <1>3, <1>9, <1>10 DEF DeliveryInv, WiresFit
<1>12. TasksFit' /\ MemoryFits' /\ NothingForgotten' /\ FewAreOnce'
  BY <1>1, <1>2, WrapperRests DEF wrapperVars
<1> QED BY <1>7, <1>8, <1>11, <1>12 DEF DeliveryInv

(* Sockets and links: commands are only lost.                                *)
LEMMA WiresKeep ==
    ASSUME DeliveryInv, UNCHANGED <<issued, outbox, answered, running, seen, done, ever, repeated>>,
           up' \in Seq(issued), inbox' \in Seq(issued), sendQ' \in Seq(Frame), down' \in Seq(Frame),
           ~link' => sendQ' = <<>>, conn' = 0 => down' = <<>>
    PROVE  DeliveryInv'
<1>1. PageFits' /\ Frame' = Frame
  BY DEF DeliveryInv, PageFits, Acked, Frame
<1>2. WiresFit'
  BY <1>1 DEF WiresFit
<1>3. TasksFit' /\ MemoryFits' /\ NothingForgotten' /\ FewAreOnce'
  BY WrapperRests DEF wrapperVars, DeliveryInv, PageFits
<1> QED BY <1>1, <1>2, <1>3 DEF DeliveryInv

LEMMA SocketsKeep ==
    ASSUME DeliveryInv, Connect \/ Disconnect \/ Forward \/ Relay \/ LinkDown \/ LinkUp
    PROVE  DeliveryInv' /\ UNCHANGED <<issued, outbox, done, ever>>
<1>1. /\ outbox \in Seq(issued) /\ up \in Seq(issued) /\ inbox \in Seq(issued)
      /\ sendQ \in Seq(Frame) /\ down \in Seq(Frame)
      /\ ~link => sendQ = <<>>
      /\ conn = 0 => down = <<>>
  BY DEF DeliveryInv, PageFits, WiresFit
<1>2. UNCHANGED <<issued, outbox, answered, running, seen, done, ever, repeated>>
  BY DEF Connect, Disconnect, Forward, Relay, LinkDown, LinkUp, pageVars, wrapperVars
<1>3. CASE Connect \/ Disconnect
  <2>1. UNCHANGED <<link, sendQ, inbox>>
    BY <1>3 DEF Connect, Disconnect, wireVars
  <2>2. up' \in Seq(issued)
    BY <1>1, <1>3 DEF Connect, Disconnect
  <2>3. down' \in Seq(Frame) /\ (conn' = 0 => down' = <<>>)
    <3>1. CASE Connect
      BY <1>1, <3>1 DEF Connect
    <3>2. CASE Disconnect
      <4>1. <<>> \in Seq(Frame)
        OBVIOUS
      <4> QED BY <3>2, <4>1 DEF Disconnect
    <3> QED BY <1>3, <3>1, <3>2
  <2> QED BY <1>1, <1>2, <2>1, <2>2, <2>3, WiresKeep
<1>4. CASE Forward
  <2>1. Tail(up) \in Seq(issued) /\ Head(up) \in issued
    BY <1>1, <1>4, SetOfTail DEF Forward
  <2>2. Append(inbox, Head(up)) \in Seq(issued)
    BY <1>1, <2>1, SetOfAppend
  <2> QED BY <1>1, <1>2, <1>4, <2>1, <2>2, WiresKeep DEF Forward
<1>5. CASE Relay
  <2>1. Tail(sendQ) \in Seq(Frame) /\ Head(sendQ) \in Frame /\ link
    BY <1>1, <1>5, SetOfTail DEF Relay
  <2>2. Append(down, Head(sendQ)) \in Seq(Frame)
    BY <1>1, <2>1, SetOfAppend
  <2> QED BY <1>1, <1>2, <1>5, <2>1, <2>2, WiresKeep DEF Relay
<1>6. CASE LinkDown
  <2>1. PICK n \in 0 .. Len(inbox) : inbox' = SubSeq(inbox, 1, n)
    BY <1>6 DEF LinkDown
  <2>2. inbox' \in Seq(issued)
    <3>1. \A k \in 1 .. n : inbox[k] \in issued
      BY <1>1
    <3> QED BY <2>1, <3>1, SubSeqProperties
  <2>3. <<>> \in Seq(Frame)
    OBVIOUS
  <2> QED BY <1>1, <1>2, <1>6, <2>2, <2>3, WiresKeep DEF LinkDown, sockVars
<1>7. CASE LinkUp
  <2>1. <<Announce>> \in Seq(Frame)
    BY DEF Frame
  <2> QED BY <1>1, <1>2, <1>7, <2>1, WiresKeep DEF LinkUp, sockVars
<1> QED BY <1>2, <1>3, <1>4, <1>5, <1>6, <1>7

(* The page hears: only an ACK changes what it keeps, and it stands for a    *)
(* handler that returned.                                                    *)
LEMMA ReceiveKeeps ==
    ASSUME DeliveryInv, Receive
    PROVE  /\ DeliveryInv' /\ UNCHANGED <<issued, done, ever>>
           /\ Acked' = Acked \/ \E c \in ever \ Acked : Acked' = Acked \cup {c}
<1> DEFINE f == Head(down)
<1>1. /\ outbox \in Seq(issued) /\ up \in Seq(issued) /\ inbox \in Seq(issued) /\ IsInjective(outbox)
      /\ sendQ \in Seq(Frame) /\ down \in Seq(Frame) /\ Len(outbox) <= OutboxCap
      /\ ~link => sendQ = <<>>
      /\ conn = 0 => down = <<>>
      /\ ever \subseteq issued /\ Acked \subseteq ever
  BY DEF DeliveryInv, PageFits, WiresFit, MemoryFits
<1>2. /\ down # <<>> /\ down' = Tail(down)
      /\ UNCHANGED <<conn, link, sendQ, inbox, running, seen, done, ever, repeated>>
      /\ OnAck(f) \/ OnResponse(f) \/ OnWrapperReconnected(f)
  BY DEF Receive, wireVars, wrapperVars
<1>3. f \in Frame /\ down' \in Seq(Frame)
  BY <1>1, <1>2, SetOfTail
<1>4. conn # 0
  BY <1>1, <1>2
<1> HIDE DEF f
<1>5. CASE OnAck(f)
  <2>1. /\ f.cmd \in ever /\ outbox' = Without(outbox, f.cmd) /\ UNCHANGED <<issued, answered, up>>
    BY <1>3, <1>5, FramesTold DEF OnAck
  <2>2. /\ outbox' \in Seq(issued) /\ IsInjective(outbox') /\ ToSet(outbox') = ToSet(outbox) \ {f.cmd}
        /\ Len(outbox') = Len(outbox) - (IF f.cmd \in ToSet(outbox) THEN 1 ELSE 0)
    BY <1>1, <2>1, WithoutOne
  <2>3. Len(outbox') <= OutboxCap
    <3>1. Len(outbox) \in Nat /\ OutboxCap \in Nat
      BY <1>1, DeliveryAssumption
    <3> QED BY <1>1, <2>2, <3>1
  <2>4. Acked' = Acked \cup {f.cmd}
    BY <1>1, <2>1, <2>2 DEF Acked
  <2>5. PageFits' /\ Frame' = Frame
    BY <1>1, <1>2, <2>1, <2>2, <2>3, <2>4 DEF DeliveryInv, PageFits, Frame
  <2>6. WiresFit'
    BY <1>1, <1>2, <1>3, <1>4, <2>1, <2>5 DEF WiresFit
  <2>7. TasksFit' /\ MemoryFits' /\ NothingForgotten' /\ FewAreOnce'
    BY <1>2, <2>1, WrapperRests DEF wrapperVars, DeliveryInv, PageFits
  <2> QED BY <1>2, <2>1, <2>4, <2>5, <2>6, <2>7 DEF DeliveryInv
<1>6. CASE OnResponse(f)
  <2>1. /\ f.cmd \in issued /\ answered' = answered \cup {f.cmd} /\ UNCHANGED <<issued, outbox, up>>
    BY <1>3, <1>6, FramesTold DEF OnResponse
  <2>2. PageFits' /\ Frame' = Frame /\ Acked' = Acked
    BY <1>2, <2>1 DEF DeliveryInv, PageFits, Frame, Acked
  <2>3. WiresFit'
    BY <1>1, <1>2, <1>3, <1>4, <2>1, <2>2 DEF WiresFit
  <2>4. TasksFit' /\ MemoryFits' /\ NothingForgotten' /\ FewAreOnce'
    BY <1>2, <2>1, WrapperRests DEF wrapperVars, DeliveryInv, PageFits
  <2> QED BY <1>2, <2>1, <2>2, <2>3, <2>4 DEF DeliveryInv
<1>7. CASE OnWrapperReconnected(f)
  <2>1. up' = up \o outbox /\ UNCHANGED <<issued, outbox, answered>>
    BY <1>7 DEF OnWrapperReconnected, pageVars
  <2>2. up' \in Seq(issued)
    BY <1>1, <2>1, ConcatProperties
  <2>3. DeliveryInv'
    BY <1>1, <1>2, <1>3, <1>4, <2>1, <2>2, WiresKeep
  <2>4. Acked' = Acked
    BY <2>1 DEF Acked
  <2> QED BY <1>2, <2>1, <2>3, <2>4
<1> QED BY <1>2, <1>5, <1>6, <1>7

(* A task of the wrapper begins, or ends without an effect.                  *)
LEMMA TakeKeeps ==
    ASSUME DeliveryInv, TakeCommand
    PROVE  DeliveryInv' /\ UNCHANGED <<issued, outbox, done, ever>>
<1> DEFINE c == Head(inbox)
<1>1. /\ up \in Seq(issued) /\ inbox \in Seq(issued) /\ sendQ \in Seq(Frame) /\ down \in Seq(Frame)
      /\ ~link => sendQ = <<>>
      /\ conn = 0 => down = <<>>
      /\ done \subseteq ever /\ ever \subseteq issued
      /\ seen \in Seq(done) /\ Len(seen) <= SeenCap /\ IsInjective(seen)
      /\ DOMAIN running \subseteq issued /\ running \in [DOMAIN running -> Task]
      /\ \A d \in DOMAIN running : running[d].replay => d \in Reads /\ d \in done
  BY DEF DeliveryInv, WiresFit, MemoryFits, TasksFit
<1>2. /\ inbox # <<>> /\ inbox' = Tail(inbox)
      /\ UNCHANGED <<issued, outbox, answered, conn, up, down, link, done, ever, repeated>>
      /\ IF c \in DOMAIN running THEN UNCHANGED <<running, seen, sendQ>> ELSE Process(c)
  BY DEF TakeCommand, pageVars, sockVars
<1>3. c \in issued /\ inbox' \in Seq(issued)
  BY <1>1, <1>2, SetOfTail
<1> HIDE DEF c
<1>4. PageFits' /\ Frame' = Frame /\ FewAreOnce'
  BY <1>2 DEF DeliveryInv, PageFits, Acked, Frame, FewAreOnce
<1>5. CASE c \in DOMAIN running
  <2>1. UNCHANGED <<running, seen, sendQ>>
    BY <1>2, <1>5
  <2>2. WiresFit' /\ TasksFit' /\ MemoryFits' /\ NothingForgotten'
    BY <1>1, <1>2, <1>3, <1>4, <2>1 DEF DeliveryInv, WiresFit, TasksFit, MemoryFits, NothingForgotten
  <2> QED BY <1>2, <1>4, <2>2 DEF DeliveryInv
<1>6. CASE c \notin DOMAIN running
  <2>1. /\ seen' = IF Seen(c) THEN Remembered(c) ELSE seen
        /\ IF Seen(c) /\ c \notin Reads
           THEN sendQ' = Sent(<<Response(c), Ack(c)>>) /\ UNCHANGED running
           ELSE BeginTask(c) /\ UNCHANGED sendQ
    BY <1>2, <1>6 DEF Process
  <2>2. Seen(c) => c \in done
    BY <1>1, SetOfAppend DEF Seen
  <2>3. seen' \in Seq(done) /\ Len(seen') <= SeenCap /\ IsInjective(seen') /\ ToSet(seen') = ToSet(seen)
    <3>1. CASE Seen(c)
      <4>1. c \in done /\ c \in ToSet(seen)
        BY <2>2, <3>1 DEF Seen
      <4>2. /\ Remembered(c) \in Seq(done) /\ Len(Remembered(c)) <= SeenCap
            /\ IsInjective(Remembered(c)) /\ ToSet(Remembered(c)) = ToSet(seen) \cup {c}
        BY <1>1, <4>1, RememberedFits
      <4> QED BY <2>1, <3>1, <4>1, <4>2
    <3>2. CASE ~Seen(c)
      BY <1>1, <2>1, <3>2
    <3> QED BY <3>1, <3>2
  <2>4. MemoryFits'
    BY <1>1, <1>2, <2>3 DEF MemoryFits
  <2>5. CASE Seen(c) /\ c \notin Reads
    <3>1. <<Response(c), Ack(c)>> \in Seq(Frame)
      <4>1. Response(c) \in Frame /\ Ack(c) \in Frame
        BY <1>1, <1>3, <2>2, <2>5 DEF Frame
      <4> QED BY <4>1
    <3>2. sendQ' \in Seq(Frame) /\ (~link => sendQ' = <<>>)
      BY <1>1, <2>1, <2>5, <3>1, SentFits
    <3>3. WiresFit'
      BY <1>1, <1>2, <1>3, <1>4, <3>2 DEF WiresFit
    <3>4. TasksFit' /\ NothingForgotten'
      BY <1>2, <2>1, <2>3, <2>5 DEF DeliveryInv, TasksFit, NothingForgotten
    <3> QED BY <1>2, <1>4, <2>4, <3>3, <3>4 DEF DeliveryInv
  <2>6. CASE ~(Seen(c) /\ c \notin Reads)
    <3>1. /\ sendQ' = sendQ
          /\ running' = [d \in DOMAIN running \cup {c} |->
                            IF d = c THEN [sent |-> FALSE, replay |-> Seen(c)] ELSE running[d]]
      BY <2>1, <2>6 DEF BeginTask
    <3>2. /\ DOMAIN running' = DOMAIN running \cup {c}
          /\ running'[c] = [sent |-> FALSE, replay |-> Seen(c)]
          /\ \A d \in DOMAIN running : running'[d] = running[d]
      BY <1>6, <3>1
    <3>3. [sent |-> FALSE, replay |-> Seen(c)] \in Task
      BY DEF Task, Seen
    <3>4. running' \in [DOMAIN running' -> Task]
      <4>1. \A d \in DOMAIN running : running[d] \in Task
        BY <1>1
      <4> QED BY <3>1, <3>3, <4>1
    <3>5. running'[c].replay => c \in Reads /\ c \in done
      BY <2>2, <2>6, <3>2
    <3>6. TasksFit'
      BY <1>1, <1>2, <1>3, <3>2, <3>4, <3>5 DEF TasksFit
    <3>7. NothingForgotten'
      <4> SUFFICES ASSUME Cardinality(done) <= SeenCap
                   PROVE  /\ done \subseteq ToSet(seen')
                          /\ \A d \in DOMAIN running' : d \in done => d \in Reads
        BY <1>2 DEF NothingForgotten
      <4>1. done \subseteq ToSet(seen) /\ \A d \in DOMAIN running : d \in done => d \in Reads
        BY DEF DeliveryInv, NothingForgotten
      <4>2. c \in done => c \in Reads
        BY <2>6, <4>1 DEF Seen
      <4> QED BY <2>3, <3>2, <4>1, <4>2
    <3>8. WiresFit'
      BY <1>1, <1>2, <1>3, <1>4, <3>1 DEF WiresFit
    <3> QED BY <1>2, <1>4, <2>4, <3>6, <3>7, <3>8 DEF DeliveryInv
  <2> QED BY <2>5, <2>6
<1> QED BY <1>5, <1>6

LEMMA RespondKeeps ==
    ASSUME DeliveryInv, NEW c \in Cmds, Respond(c)
    PROVE  DeliveryInv' /\ UNCHANGED <<issued, outbox, done, ever>>
<1>1. /\ c \in DOMAIN running /\ running' = [running EXCEPT ![c].sent = TRUE]
      /\ sendQ' = Sent(<<Response(c)>>)
      /\ UNCHANGED <<issued, outbox, answered, conn, up, down, link, inbox, seen, done, ever, repeated>>
  BY DEF Respond, pageVars, sockVars
<1>2. /\ DOMAIN running \subseteq issued /\ running \in [DOMAIN running -> Task]
      /\ sendQ \in Seq(Frame) /\ (~link => sendQ = <<>>)
  BY DEF DeliveryInv, TasksFit, WiresFit
<1>3. PageFits' /\ Frame' = Frame /\ FewAreOnce' /\ MemoryFits'
  BY <1>1 DEF DeliveryInv, PageFits, Acked, Frame, FewAreOnce, MemoryFits
<1>4. <<Response(c)>> \in Seq(Frame)
  <2>1. Response(c) \in Frame
    BY <1>1, <1>2 DEF Frame
  <2> QED BY <2>1
<1>5. sendQ' \in Seq(Frame) /\ (~link => sendQ' = <<>>)
  BY <1>1, <1>2, <1>4, SentFits
<1>6. WiresFit'
  BY <1>1, <1>3, <1>5 DEF DeliveryInv, WiresFit
<1>7. /\ DOMAIN running' = DOMAIN running /\ running' \in [DOMAIN running -> Task]
      /\ \A d \in DOMAIN running : running'[d].replay = running[d].replay
  BY <1>1, <1>2 DEF Task
<1>8. TasksFit' /\ NothingForgotten'
  BY <1>1, <1>7 DEF DeliveryInv, TasksFit, NothingForgotten
<1> QED BY <1>1, <1>3, <1>6, <1>8 DEF DeliveryInv

(* A handler that ends, whether it returned or raised.                       *)
LEMMA EndFits ==
    ASSUME DeliveryInv, NEW c, End(c), issued' = issued, done \subseteq done'
    PROVE  /\ TasksFit' /\ DOMAIN running' = DOMAIN running \ {c}
<1>1. running' = [d \in DOMAIN running \ {c} |-> running[d]]
  BY DEF End
<1>2. /\ DOMAIN running' = DOMAIN running \ {c} /\ \A d \in DOMAIN running' : running'[d] = running[d]
  BY <1>1
<1>3. running \in [DOMAIN running -> Task]
  BY DEF DeliveryInv, TasksFit
<1>4. running' \in [DOMAIN running' -> Task]
  BY <1>1, <1>3
<1> QED BY <1>2, <1>4 DEF DeliveryInv, TasksFit

LEMMA FailKeeps ==
    ASSUME DeliveryInv, NEW c \in Cmds, Fail(c)
    PROVE  DeliveryInv' /\ UNCHANGED <<issued, outbox, done, ever>>
<1>1. /\ End(c)
      /\ UNCHANGED <<issued, outbox, answered, conn, up, down, link, sendQ, inbox, seen, done, ever,
                     repeated>>
  BY DEF Fail, pageVars, sockVars, wireVars
<1>2. TasksFit' /\ DOMAIN running' = DOMAIN running \ {c}
  BY <1>1, EndFits
<1>3. PageFits' /\ FewAreOnce' /\ MemoryFits' /\ WiresFit' /\ NothingForgotten'
  BY <1>1, <1>2 DEF DeliveryInv, PageFits, Acked, Frame, FewAreOnce, MemoryFits, WiresFit,
                    NothingForgotten
<1> QED BY <1>1, <1>2, <1>3 DEF DeliveryInv

(* Only what the full LRU has forgotten is completed again.                  *)
LEMMA FinishIsOnce ==
    ASSUME DeliveryInv, NEW c \in Cmds, Finish(c), Cardinality(done) <= SeenCap
    PROVE  /\ c \in issued /\ (c \in done => c \in Reads)
           /\ repeated' = repeated
BY DEF DeliveryInv, NothingForgotten, TasksFit, Finish

LEMMA FinishKeeps ==
    ASSUME DeliveryInv, NEW c \in Cmds, Finish(c)
    PROVE  DeliveryInv' /\ UNCHANGED <<issued, outbox>>
<1>1. /\ c \in DOMAIN running /\ End(c) /\ sendQ' = Sent(<<Ack(c)>>)
      /\ seen' = IF running[c].replay THEN seen ELSE Remembered(c)
      /\ done' = done \cup {c} /\ ever' = ever \cup {c}
      /\ UNCHANGED <<issued, outbox, answered, conn, up, down, link, inbox>>
  BY DEF Finish, pageVars, sockVars
<1>2. /\ c \in issued /\ sendQ \in Seq(Frame) /\ down \in Seq(Frame) /\ (~link => sendQ = <<>>)
      /\ seen \in Seq(done) /\ Len(seen) <= SeenCap /\ IsInjective(seen)
      /\ done \subseteq ever /\ ever \subseteq issued /\ IsFiniteSet(issued)
      /\ running[c].replay => c \in Reads /\ c \in done
  BY <1>1 DEF DeliveryInv, TasksFit, WiresFit, MemoryFits, PageFits
<1>3. TasksFit' /\ DOMAIN running' = DOMAIN running \ {c}
  BY <1>1, EndFits
<1>4. PageFits'
  BY <1>1 DEF DeliveryInv, PageFits, Acked
<1>5. WiresFit'
  <2>1. sendQ \in Seq(Frame') /\ down \in Seq(Frame')
    BY <1>1, <1>2, FramesGrow, SeqGrows
  <2>2. <<Ack(c)>> \in Seq(Frame')
    <3>1. Ack(c) \in Frame'
      BY <1>1 DEF Frame
    <3> QED BY <3>1
  <2>3. sendQ' \in Seq(Frame') /\ (~link => sendQ' = <<>>)
    BY <1>1, <1>2, <2>1, <2>2, SentFits
  <2> QED BY <1>1, <2>1, <2>3 DEF DeliveryInv, WiresFit
<1>6. seen \in Seq(done') /\ c \in done'
  BY <1>1, <1>2, SeqGrows
<1>7. /\ Remembered(c) \in Seq(done') /\ Len(Remembered(c)) <= SeenCap /\ IsInjective(Remembered(c))
      /\ Cardinality(ToSet(seen) \cup {c}) <= SeenCap => ToSet(Remembered(c)) = ToSet(seen) \cup {c}
  BY <1>2, <1>6, RememberedFits
<1>8. MemoryFits'
  BY <1>1, <1>2, <1>6, <1>7 DEF MemoryFits
<1>9. /\ IsFiniteSet(done) /\ IsFiniteSet(done')
      /\ Cardinality(done) \in Nat /\ Cardinality(done') \in Nat
      /\ Cardinality(done) <= Cardinality(done')
  <2>1. IsFiniteSet(done) /\ done' \subseteq issued
    BY <1>1, <1>2, FS_Subset
  <2>2. IsFiniteSet(done')
    BY <1>2, <2>1, FS_Subset
  <2> QED BY <1>1, <2>1, <2>2, FS_Subset, FS_CardinalityType
<1>10. SeenCap \in Nat
  BY DeliveryAssumption
<1>11. NothingForgotten'
  <2> SUFFICES ASSUME Cardinality(done') <= SeenCap
               PROVE  /\ done' \subseteq ToSet(seen')
                      /\ \A d \in DOMAIN running' : d \in done' => d \in Reads
    BY DEF NothingForgotten
  <2>1. Cardinality(done) <= SeenCap
    BY <1>9, <1>10
  <2>2. done \subseteq ToSet(seen) /\ \A d \in DOMAIN running : d \in done => d \in Reads
    BY <2>1 DEF DeliveryInv, NothingForgotten
  <2>3. ToSet(seen) \subseteq done
    BY <1>2, SetOfAppend
  <2>4. ToSet(seen) \cup {c} = done'
    BY <1>1, <2>2, <2>3
  <2>5. done' \subseteq ToSet(seen')
    <3>1. CASE running[c].replay
      BY <1>1, <1>2, <2>2, <3>1
    <3>2. CASE ~running[c].replay
      BY <1>1, <1>7, <2>4, <3>2
    <3> QED BY <3>1, <3>2
  <2> QED BY <1>1, <1>3, <2>2, <2>5
<1>12. FewAreOnce'
  <2> SUFFICES ASSUME Cardinality(issued) <= SeenCap PROVE repeated' = {}
    BY <1>1 DEF FewAreOnce
  <2>1. Cardinality(done) <= SeenCap
    <3>1. Cardinality(done) <= Cardinality(issued) /\ Cardinality(issued) \in Nat
      BY <1>2, FS_Subset, FS_CardinalityType
    <3> QED BY <1>9, <1>10, <3>1
  <2>2. repeated' = repeated
    BY <2>1, FinishIsOnce
  <2> QED BY <2>2 DEF DeliveryInv, FewAreOnce
<1> QED BY <1>1, <1>3, <1>4, <1>5, <1>8, <1>11, <1>12 DEF DeliveryInv

LEMMA DeathKeeps ==
    ASSUME DeliveryInv, WrapperDies
    PROVE  DeliveryInv' /\ UNCHANGED <<issued, outbox, ever>> /\ done' = {}
<1>1. /\ running' = <<>> /\ seen' = <<>> /\ done' = {} /\ link' = FALSE /\ sendQ' = <<>> /\ inbox' = <<>>
      /\ UNCHANGED <<issued, outbox, answered, conn, up, down, ever, repeated>>
  BY DEF WrapperDies, pageVars, sockVars
<1>2. PageFits' /\ Frame' = Frame /\ FewAreOnce'
  BY <1>1 DEF DeliveryInv, PageFits, Acked, Frame, FewAreOnce
<1>3. WiresFit'
  BY <1>1, <1>2 DEF DeliveryInv, WiresFit
<1>4. DOMAIN running' = {} /\ running' \in [DOMAIN running' -> Task] /\ TasksFit'
  BY <1>1 DEF TasksFit
<1>5. MemoryFits' /\ NothingForgotten'
  <2>1. IsInjective(seen') /\ Len(seen') <= SeenCap
    BY <1>1, DeliveryAssumption DEF IsInjective
  <2> QED BY <1>1, <1>4, <2>1 DEF DeliveryInv, MemoryFits, NothingForgotten
<1> QED BY <1>1, <1>2, <1>3, <1>4, <1>5 DEF DeliveryInv

LEMMA DeliveryStutters ==
    ASSUME DeliveryInv, UNCHANGED vars
    PROVE  DeliveryInv' /\ UNCHANGED <<issued, outbox, done, ever, repeated>>
<1>1. UNCHANGED <<issued, outbox, answered, conn, up, down, link, sendQ, inbox, running, seen, done,
                  ever, repeated>>
  BY DEF vars, pageVars, sockVars, wireVars, wrapperVars
<1> QED BY <1>1 DEF DeliveryInv, PageFits, WiresFit, TasksFit, MemoryFits, NothingForgotten, FewAreOnce,
                    Acked, Frame

LEMMA DeliveryNextKeeps == DeliveryInv /\ [Next]_vars => DeliveryInv'
BY DeliveryStutters, IssueKeeps, SocketsKeep, ReceiveKeeps, TakeKeeps, RespondKeeps, FinishKeeps,
   FailKeeps, DeathKeeps DEF Next
-----------------------------------------------------------------------------
(* What the page, the wires and the wrapper hold of each other, whatever is  *)
(* lost, repeated or restarted (machine.py's command loop, outbox.ts).       *)
THEOREM DeliveryInvariant == Spec => []DeliveryInv
<1> QED BY DeliveryInitFits, DeliveryNextKeeps, PTL DEF Spec

(* A mutation runs twice in one lifetime of the wrapper only after more      *)
(* commands than the LRU holds were completed in that lifetime               *)
(* (_remember_command, COMMAND_IDS_PER_CLIENT).                              *)
THEOREM OnlyTheForgottenRepeats ==
    Spec => [][repeated' # repeated => Cardinality(done) > SeenCap]_vars
<1>1. DeliveryInv /\ [Next]_vars => [repeated' # repeated => Cardinality(done) > SeenCap]_vars
  <2> SUFFICES ASSUME DeliveryInv, Next, repeated' # repeated PROVE Cardinality(done) > SeenCap
    BY DEF vars
  <2>1. PICK c \in Cmds : Finish(c)
    BY DEF Next, Connect, Disconnect, Receive, Forward, Relay, LinkDown, LinkUp, TakeCommand,
           WrapperDies, Issue, Respond, Fail, wrapperVars
  <2>2. ~(Cardinality(done) <= SeenCap)
    BY <2>1, FinishIsOnce
  <2>3. Cardinality(done) \in Nat /\ SeenCap \in Nat
    BY FS_Subset, FS_CardinalityType, DeliveryAssumption DEF DeliveryInv, PageFits, MemoryFits
  <2> QED BY <2>2, <2>3
<1> QED BY <1>1, DeliveryInvariant, PTL DEF Spec

(* As long as a page has not issued more commands than the LRU holds, every  *)
(* mutation is completed at most once in a lifetime, and what is pending and *)
(* was completed is remembered, for any number of losses and restarts.       *)
THEOREM FewCommandsAreSafe == Spec => [](Cardinality(issued) <= SeenCap => DeliverySafe)
<1>1. DeliveryInv => (Cardinality(issued) <= SeenCap => DeliverySafe)
  <2> SUFFICES ASSUME DeliveryInv, Cardinality(issued) <= SeenCap PROVE DeliverySafe
    OBVIOUS
  <2>1. ToSet(seen) \subseteq done
    BY SetOfAppend DEF DeliveryInv, MemoryFits
  <2>2. DeliveryTypeOK
    BY <2>1 DEF DeliveryTypeOK, DeliveryInv, PageFits, WiresFit, TasksFit, MemoryFits
  <2>3. Cardinality(done) <= SeenCap
    <3>1. /\ Cardinality(done) <= Cardinality(issued) /\ Cardinality(issued) \in Nat
          /\ Cardinality(done) \in Nat
      BY FS_Subset, FS_CardinalityType DEF DeliveryInv, PageFits, MemoryFits
    <3>2. SeenCap \in Nat
      BY DeliveryAssumption
    <3> QED BY <3>1, <3>2
  <2>4. AtMostOnce /\ PendingRemembered
    BY <2>3 DEF AtMostOnce, PendingRemembered, DeliveryInv, FewAreOnce, NothingForgotten
  <2> QED BY <2>2, <2>4 DEF DeliverySafe
<1> QED BY <1>1, DeliveryInvariant, PTL

(* The channel keeps its promise (CommandPromise) to a page with no more     *)
(* commands than the LRU holds: an ACK stands for a handler that returned,   *)
(* and nothing but a read is completed again before the wrapper restarts.    *)
THEOREM PromiseIsKept ==
    ASSUME IsFiniteSet(Cmds), Cardinality(Cmds) <= SeenCap
    PROVE  Spec => KeepsPromise
<1>1. Init => Promise!Init
  BY DEF Init, Promise!Init, Acked
<1>2. DeliveryInv /\ [Next]_vars => [Promise!Next]_Promise!promiseVars
  <2> SUFFICES ASSUME DeliveryInv, [Next]_vars
               PROVE  Promise!Next \/ UNCHANGED Promise!promiseVars
    OBVIOUS
  <2>1. Acked' = Acked /\ UNCHANGED <<issued, done, ever>> => UNCHANGED Promise!promiseVars
    BY DEF Promise!promiseVars
  <2>2. UNCHANGED <<issued, outbox>> => Acked' = Acked
    BY DEF Acked
  <2>3. CASE UNCHANGED vars
    BY <2>1, <2>2, <2>3, DeliveryStutters
  <2>4. ASSUME NEW c \in Cmds, Issue(c) PROVE Promise!Next
    <3>1. Acked' = Acked /\ c \in Cmds \ issued /\ issued' = issued \cup {c} /\ UNCHANGED <<done, ever>>
      BY <2>4, IssueKeeps DEF Issue, wrapperVars
    <3> QED BY <3>1 DEF Promise!Next, Promise!Issue
  <2>5. CASE Connect \/ Disconnect \/ Forward \/ Relay \/ LinkDown \/ LinkUp
    BY <2>1, <2>2, <2>5, SocketsKeep
  <2>6. CASE Receive
    <3>1. UNCHANGED <<issued, done, ever>> /\ (Acked' = Acked \/ \E c \in ever \ Acked : Acked' = Acked \cup {c})
      BY <2>6, ReceiveKeeps
    <3>2. ASSUME NEW c \in ever \ Acked, Acked' = Acked \cup {c} PROVE Promise!Next
      <4>1. c \in Cmds
        BY DEF DeliveryInv, MemoryFits, PageFits
      <4> QED BY <3>1, <3>2, <4>1 DEF Promise!Next, Promise!Acknowledge
    <3> QED BY <2>1, <3>1, <3>2
  <2>7. CASE TakeCommand
    BY <2>1, <2>2, <2>7, TakeKeeps
  <2>8. ASSUME NEW c \in Cmds, Respond(c) \/ Fail(c) PROVE UNCHANGED Promise!promiseVars
    BY <2>1, <2>2, <2>8, RespondKeeps, FailKeeps
  <2>9. ASSUME NEW c \in Cmds, Finish(c) PROVE Promise!Next
    <3>1. Cardinality(done) <= SeenCap
      <4>1. done \subseteq Cmds
        BY DEF DeliveryInv, MemoryFits, PageFits
      <4>2. Cardinality(done) <= Cardinality(Cmds) /\ Cardinality(done) \in Nat /\ Cardinality(Cmds) \in Nat
        BY <4>1, FS_Subset, FS_CardinalityType
      <4> QED BY <4>2, DeliveryAssumption
    <3>2. c \in issued /\ (c \in done => c \in Reads)
      BY <2>9, <3>1, FinishIsOnce
    <3>3. done' = done \cup {c} /\ ever' = ever \cup {c} /\ issued' = issued /\ Acked' = Acked
      BY <2>9, <2>2 DEF Finish, pageVars
    <3> QED BY <3>2, <3>3 DEF Promise!Next, Promise!Complete
  <2>10. CASE WrapperDies
    <3>1. UNCHANGED <<issued, ever>> /\ done' = {} /\ Acked' = Acked
      BY <2>2, <2>10, DeathKeeps
    <3> QED BY <3>1 DEF Promise!Next, Promise!Crash
  <2> QED BY <2>3, <2>4, <2>5, <2>6, <2>7, <2>8, <2>9, <2>10 DEF Next
<1> QED BY <1>1, <1>2, DeliveryInvariant, PTL DEF Spec, KeepsPromise, Promise!Spec
=============================================================================
