-------------------------- MODULE CodexCheckpoints --------------------------
(***************************************************************************)
(* File checkpoints for one Codex session (codex_checkpoints.py) and the   *)
(* code of machine.py that keeps them in step with the app-server's turns. *)
(*                                                                         *)
(* Codex rolls a conversation back by a number of turns and leaves the     *)
(* files alone.  The wrapper records, for every turn, the worktree before  *)
(* and after it; a file rollback of n turns uses the last n records.  The  *)
(* records are aligned with the thread only if every turn that joins the   *)
(* thread gets one: a tombstone where the capture failed, and no journal   *)
(* at all where even that failed.                                          *)
(*                                                                         *)
(* The worktree is a function from paths to contents.  The context, the    *)
(* journal's manifest and the worktree are one record, ck; an operation    *)
(* of the journal maps it to the set of its possible outcomes.  Staging,   *)
(* the object store and unstable captures show as captures that fail.  A   *)
(* restore writes one path at a time, behind its marker.                   *)
(***************************************************************************)
EXTENDS Integers, SequencesExt

CONSTANTS
    Paths,          \* files of the repository
    Retained,       \* _MAX_RETAINED_TURNS
    MaxTurns,       \* bound: turns of the thread
    MaxWrites,      \* bound: changes to files
    CheckpointFaults  \* bound: crashes and journal operations that fail

ASSUME CheckpointAssumption ==
    /\ Retained \in Nat \ {0}
    /\ MaxTurns \in Nat /\ MaxWrites \in Nat /\ CheckpointFaults \in Nat

VARIABLES
    thread,         \* the app-server's turns, oldest first
    ck,             \* ctx.codex_checkpoint*, manifest.json and the worktree
    stage,          \* what the session is doing
    unseen,         \* a terminal's turn that the watch has not noticed
    unwritten,      \* paths a restore has yet to write
    mine,           \* history: paths last written by somebody outside every turn
    turnsLeft, writesLeft   \* history: for the bounds

checkpointVars == <<thread, ck, stage, unseen, unwritten, mine, turnsLeft, writesLeft>>

NoTurn    == 0
NoActive  == [turn |-> NoTurn, pre |-> <<>>, accepted |-> FALSE]
NoMarker  == [ids |-> <<>>, paths |-> {}, orig |-> <<>>, target |-> <<>>]
NoJournal == [exists |-> FALSE, active |-> NoActive, marker |-> NoMarker, turns |-> <<>>]

CheckpointInit ==
    /\ thread = <<>>
    /\ ck = [held |-> "none", turn |-> NoTurn, ready |-> FALSE, accepted |-> FALSE, reason |-> FALSE,
             disk |-> NoJournal, tree |-> [f \in Paths |-> 0],
             gaps |-> {}, faults |-> CheckpointFaults]
    /\ stage = "idle" /\ unseen = FALSE /\ unwritten = {} /\ mine = {}
    /\ turnsLeft = MaxTurns /\ writesLeft = MaxWrites

-----------------------------------------------------------------------------
(***************************************************************************)
(* Operations: s is a value of ck; each yields a set of them.              *)
(***************************************************************************)
Fail(s) == IF s.faults > 0 THEN {[s EXCEPT !.faults = @ - 1]} ELSE {}

\* Either it works, or it raises and the handler of the exception goes on.
Or(s, works, Handler(_)) == works \cup UNION {Handler(f) : f \in Fail(s)}

\* _clear_codex_checkpoint_tracking
Cleared(s) == [s EXCEPT !.turn = NoTurn, !.ready = FALSE, !.accepted = FALSE, !.reason = FALSE]

Off(s) == {[Cleared(s) EXCEPT !.held = "off"]}

(* _retire_codex_checkpoint: the context gives the journal up before its      *)
(* removal, which may fail; it may take a new one only if that worked.        *)
Retire(s, after) ==
    Or(s, {[Cleared(s) EXCEPT !.held = after, !.disk = NoJournal, !.gaps = {}]}, Off)

Retired(s) == Retire(s, "off")

Trimmed(turns) ==
    SubSeq(turns, IF Len(turns) > Retained THEN Len(turns) - Retained + 1 ELSE 1, Len(turns))

Named(s, t) == \E i \in DOMAIN s.disk.turns : s.disk.turns[i].turn = t

\* record_unavailable
Tombstone(s, t) ==
    IF Named(s, t) THEN s
    ELSE [s EXCEPT !.disk.turns = Trimmed(Append(@, [turn |-> t, available |-> FALSE, restored |-> FALSE,
                                                     pre |-> s.tree, post |-> s.tree]))]

ActiveDropped(s) == [s EXCEPT !.disk.active = NoActive]               \* mutant

\* recover_active_as_unavailable: a turn that was accepted keeps its slot.
ActiveRecovered(s) ==
    LET t == s.disk.active.turn
        u == [s EXCEPT !.disk.active = NoActive]
    IN  IF s.disk.active.accepted THEN Tombstone(u, t) ELSE u

\* begin_turn
Captured(s, t) ==
    [ActiveRecovered(s) EXCEPT !.disk.active = [turn |-> t, pre |-> s.tree, accepted |-> FALSE],
                               !.turn = t, !.ready = TRUE]

\* finish_turn
Recorded(s) ==
    [Cleared(s) EXCEPT
        !.disk.active = NoActive,
        !.disk.turns = Trimmed(Append(@, [turn |-> s.disk.active.turn, available |-> TRUE,
                                          restored |-> FALSE, pre |-> s.disk.active.pre,
                                          post |-> s.tree]))]

\* _invalidate_file_history_for_retention
Compacted(s) ==
    [s EXCEPT !.disk.turns = [i \in DOMAIN @ |-> [@[i] EXCEPT !.available = FALSE, !.restored = FALSE]]]

Ids(turns) == [i \in DOMAIN turns |-> turns[i].turn]
NewestOf(turns, n) == SubSeq(turns, Len(turns) - n + 1, Len(turns))

\* _finalize_restore with consume=False
Finalized(s) ==
    LET n == Len(s.disk.marker.ids) IN
    [s EXCEPT !.disk.marker = NoMarker,
              !.disk.turns = [i \in DOMAIN @ |-> IF i > Len(@) - n THEN [@[i] EXCEPT !.restored = TRUE]
                                                 ELSE @[i]]]

\* A path still shows one of the two images of the restore.
KnownImage(s, f) == s.tree[f] \in {s.disk.marker.orig[f], s.disk.marker.target[f]}

ShowsSome(s, image) == \E f \in s.disk.marker.paths : s.tree[f] = image[f]   \* mutant
Shows(s, image) == \A f \in s.disk.marker.paths : s.tree[f] = image[f]

(* _recover_restore: finish a restore that wrote everything, forget one that *)
(* wrote nothing, take back one that was cut off in between; raise if some   *)
(* path shows neither image, the records have changed, or no path was named.  *)
Recovered(s) ==
    LET m == s.disk.marker IN
    IF m = NoMarker THEN {s}
    ELSE IF m.paths = {} THEN {}
    ELSE IF Shows(s, m.target)
         THEN IF Ids(NewestOf(s.disk.turns, Len(m.ids))) = m.ids THEN {Finalized(s)} ELSE {}
    ELSE IF \A f \in m.paths : KnownImage(s, f)
         THEN {[s EXCEPT !.disk.marker = NoMarker,
                         !.tree = [f \in Paths |-> IF f \in m.paths THEN m.orig[f] ELSE @[f]]]}
    ELSE {}

\* CodexCheckpointJournal(...), unless the context holds one; no outcome if it raises.
Opened(s) ==
    IF s.held = "open" THEN {s}
    ELSE IF s.disk.exists THEN {[t EXCEPT !.held = "open"] : t \in Recovered(s)}
    ELSE {[s EXCEPT !.held = "open", !.disk.exists = TRUE, !.gaps = {}]}

\* Opening raises.
OpenFails(s) == IF s.held = "open" THEN {} ELSE IF Opened(s) = {} THEN {s} ELSE Fail(s)

-----------------------------------------------------------------------------
(***************************************************************************)
(* machine.py: the four steps of a managed turn.                           *)
(***************************************************************************)

(* _begin_codex_checkpoint: a capture that fails is remembered as a reason.   *)
Missed(s, t) == [s EXCEPT !.turn = t, !.reason = TRUE]

CaptureTried(s, t) ==
    {Captured(s, t)} \cup {Missed(x, t) : x \in Fail(s) \cup Fail(ActiveRecovered(s))}

BeginCheckpoint(s, t) ==
    IF s.held = "off" THEN {Cleared(s)}
    ELSE (UNION {Off(x) : x \in OpenFails(Cleared(s))})
         \cup (UNION {CaptureTried(x, t) : x \in Opened(Cleared(s))})

\* _accept_codex_checkpoint
AcceptCheckpoint(s) ==
    IF s.turn = NoTurn \/ s.held # "open" THEN {s}
    ELSE IF s.ready
         THEN Or(s, {[s EXCEPT !.disk.active.accepted = TRUE, !.accepted = TRUE]}, Retired)
    ELSE LET t == [s EXCEPT !.accepted = TRUE] same(x) == {x} IN
         IF t.disk.active # NoActive THEN {t}
         ELSE Or(t, {[Tombstone(t, t.turn) EXCEPT !.reason = FALSE]}, same)

\* _abort_codex_checkpoint
AbortCheckpoint(s) ==
    IF s.ready /\ s.held = "open"
    THEN Or(Cleared(s), {[Cleared(s) EXCEPT !.disk.active = NoActive]}, Retired)
    ELSE {Cleared(s)}

Unslotted(s, why) == IF s.disk.exists THEN [s EXCEPT !.gaps = @ \cup {why}] ELSE s

\* A turn has a slot: a record, or an accepted capture that will become one.
Slotted(s, t) == Named(s, t) \/ (s.disk.active.turn = t /\ s.disk.active.accepted)

(* _finish_codex_checkpoint, once the turn was accepted.  The tombstone of a  *)
(* capture that could not be finished may fail, too.                          *)
FinishAccepted(s) ==
    IF s.ready
    THEN LET uncaptured == [Cleared(s) EXCEPT !.disk.active = NoActive] IN
         Or(s, {Recorded(s), Compacted(Recorded(s)), Tombstone(uncaptured, s.turn)}, Retired)
         \cup Or(uncaptured, {}, Retired)
    ELSE IF ~s.reason THEN {Cleared(s)}
    ELSE IF s.disk.active # NoActive THEN Retired(s)
    ELSE Or(s, {Cleared(Tombstone(s, s.turn))}, Retired)

FinishCheckpoint(s) ==
    IF s.turn = NoTurn \/ s.held # "open" THEN {Unslotted(Cleared(s), "disabled")}
    ELSE IF s.accepted
    THEN {IF Slotted(t, s.turn) THEN t ELSE Unslotted(t, "disabled") : t \in FinishAccepted(s)}
    ELSE AbortCheckpoint(s)

\* _record_codex_unavailable_turn
RecordUnavailable(s, t) ==
    IF s.held = "off" THEN {Unslotted(s, "disabled")}
    ELSE (UNION {IF x.disk.active # NoActive THEN Retired(x) ELSE Or(x, {Tombstone(x, t)}, Retired)
                 : x \in Opened(s)})
         \cup (UNION {{Unslotted(y, "disabled") : y \in Off(x)} : x \in OpenFails(s)})

RetiredUnlessUnopened(s) == IF s.held = "open" THEN Retire(s, "none") ELSE {s}

(* _prepare_codex_conversation_rollback: the outcomes that let the native    *)
(* rollback go on, and those that do not.                                    *)
Prepared(s) ==
    IF s.held = "off" THEN {Cleared(s)}
    ELSE {[Cleared(x) EXCEPT !.held = "none", !.disk = NoJournal, !.gaps = {}] : x \in Opened(s)}

Unprepared(s) ==
    (UNION {Off(x) : x \in OpenFails(s)})
    \cup (UNION {UNION {Off(f) : f \in Fail(x)} : x \in Opened(s)})

-----------------------------------------------------------------------------
(***************************************************************************)
(* Actions.                                                                *)
(***************************************************************************)
ThisTurn == MaxTurns - turnsLeft
Quiet == stage = "idle" /\ ~unseen

\* _run_turn: the capture comes before turn/start.
BeginTurn ==
    /\ Quiet /\ turnsLeft > 0
    /\ stage' = "begun" /\ turnsLeft' = turnsLeft - 1
    /\ ck' \in BeginCheckpoint(ck, ThisTurn + 1)
    /\ UNCHANGED <<thread, unseen, unwritten, mine, writesLeft>>

(* Stopped before it was submitted, or turn/start raised.  The app-server may *)
(* run the turn all the same: then it comes back as an automatic one.         *)
NotAccepted ==
    /\ stage = "begun"
    /\ ck' \in AbortCheckpoint(ck)
    /\ \/ stage' = "idle" /\ UNCHANGED thread
       \/ stage' = "adopting" /\ thread' = Append(thread, ThisTurn)
    /\ UNCHANGED <<unseen, unwritten, mine, turnsLeft, writesLeft>>

Submit ==
    /\ stage = "begun"
    /\ stage' = "submitted" /\ thread' = Append(thread, ThisTurn)
    /\ UNCHANGED <<ck, unseen, unwritten, mine, turnsLeft, writesLeft>>

AcceptTurn ==
    /\ stage = "submitted"
    /\ stage' = "running" /\ ck' \in AcceptCheckpoint(ck)
    /\ UNCHANGED <<thread, unseen, unwritten, mine, turnsLeft, writesLeft>>

FinishTurn ==
    /\ stage = "running"
    /\ stage' = "idle" /\ ck' \in FinishCheckpoint(ck)
    /\ UNCHANGED <<thread, unseen, unwritten, mine, turnsLeft, writesLeft>>

\* An automatic turn or a review starts, is adopted with a tombstone, and ends with one.
AutomaticTurn ==
    /\ Quiet /\ turnsLeft > 0
    /\ stage' = "adopting" /\ turnsLeft' = turnsLeft - 1
    /\ thread' = Append(thread, ThisTurn + 1)
    /\ UNCHANGED <<ck, unseen, unwritten, mine, writesLeft>>

Adopt ==
    /\ stage \in {"adopting", "adopted"}
    /\ stage' = IF stage = "adopting" THEN "adopted" ELSE "idle"
    /\ ck' \in RecordUnavailable(ck, ThisTurn)
    /\ UNCHANGED <<thread, unseen, unwritten, mine, turnsLeft, writesLeft>>

Written(f) == /\ writesLeft > 0 /\ writesLeft' = writesLeft - 1
              /\ ck' = [ck EXCEPT !.tree[f] = MaxWrites - writesLeft + 1]

TurnWrites ==
    /\ stage \in {"submitted", "running", "adopting", "adopted"}
    /\ \E f \in Paths : Written(f) /\ mine' = mine \ {f}
    /\ UNCHANGED <<thread, stage, unseen, unwritten, turnsLeft>>

\* Somebody edits a file between turns.
Edit ==
    /\ stage = "idle"
    /\ \E f \in Paths : Written(f) /\ mine' = mine \cup {f}
    /\ UNCHANGED <<thread, stage, unseen, unwritten, turnsLeft>>

\* Codex runs a turn in a terminal, and _poll of the watch notices it.
TerminalTurn ==
    /\ stage = "idle" /\ ~unseen /\ turnsLeft > 0
    /\ turnsLeft' = turnsLeft - 1 /\ thread' = Append(thread, ThisTurn + 1)
    /\ unseen' = TRUE
    /\ ck' = Unslotted(ck, "terminal")
    /\ UNCHANGED <<stage, unwritten, mine, writesLeft>>

Notice ==
    /\ unseen /\ unseen' = FALSE
    /\ \E s \in RetiredUnlessUnopened(ck) :
        ck' = IF "terminal" \in s.gaps THEN [s EXCEPT !.gaps = (@ \ {"terminal"}) \cup {"noticed"}] ELSE s
    /\ UNCHANGED <<thread, stage, unwritten, mine, turnsLeft, writesLeft>>

-----------------------------------------------------------------------------
(***************************************************************************)
(* Rollback.                                                               *)
(***************************************************************************)

\* The images rollback() walks through, newest record first.
Expected(r) == IF r.restored THEN r.pre ELSE r.post
Changed(r) == {f \in Paths : r.pre[f] # r.post[f]}

Oldest(s, n) == Len(s.disk.turns) - n + 1      \* of the last n records

\* What file f is by the time the walk has undone the records after i.
Image(s, i, f) ==
    LET turns  == s.disk.turns
        undone == {j \in i + 1..Len(turns) : ~turns[j].restored /\ f \in Changed(turns[j])}
    IN  IF undone = {} THEN s.tree[f]
        ELSE turns[CHOOSE j \in undone : \A k \in undone : j <= k].pre[f]

Target(s, n) == [f \in Paths |-> Image(s, Oldest(s, n) - 1, f)]

Touched(s, n) == UNION {Changed(s.disk.turns[i]) : i \in Oldest(s, n)..Len(s.disk.turns)}

Restorable(s, n) ==
    /\ s.disk.active = NoActive /\ n <= Len(s.disk.turns)
    /\ \A i \in Oldest(s, n)..Len(s.disk.turns) :
        LET r == s.disk.turns[i] IN
        r.available /\ \A f \in Changed(r) : Image(s, i, f) = Expected(r)[f]

\* rollback(n, consume=False), up to its durable marker.
BeginRestore ==
    /\ Quiet /\ ck.held # "off"
    /\ \E n \in 1..MaxTurns, s \in Opened(ck) :
        LET selected == NewestOf(s.disk.turns, n) IN
        IF ~Restorable(s, n) THEN ck' = s /\ UNCHANGED <<stage, unwritten>>
        ELSE IF \A i \in 1..n : selected[i].restored
        THEN ck' = s /\ UNCHANGED <<stage, unwritten>>
        ELSE /\ ck' = [s EXCEPT !.disk.marker = [ids |-> Ids(selected), paths |-> Touched(s, n),
                                                 orig |-> s.tree, target |-> Target(s, n)]]
             /\ stage' = "restoring" /\ unwritten' = Touched(s, n)
    /\ UNCHANGED <<thread, unseen, mine, turnsLeft, writesLeft>>

\* _apply_entries, one path.
Apply ==
    /\ stage = "restoring"
    /\ \E f \in unwritten :
        /\ ck' = [ck EXCEPT !.tree[f] = ck.disk.marker.target[f]]
        /\ unwritten' = unwritten \ {f}
    /\ UNCHANGED <<thread, stage, unseen, mine, turnsLeft, writesLeft>>

\* _finalize_restore
FinishRestore ==
    /\ stage = "restoring" /\ unwritten = {}
    /\ ck' = Finalized(ck) /\ stage' = "idle"
    /\ UNCHANGED <<thread, unseen, unwritten, mine, turnsLeft, writesLeft>>

\* Writing fails: the originals come back, and the marker goes, unless that fails too.
RestoreFails ==
    /\ stage = "restoring" /\ stage' = "idle" /\ unwritten' = {}
    /\ \E s \in Fail(ck) :
        LET m == ck.disk.marker
            back == [s EXCEPT !.tree = [f \in Paths |-> IF f \in m.paths THEN m.orig[f] ELSE @[f]]]
        IN  ck' \in {[back EXCEPT !.disk.marker = NoMarker]} \cup Fail(back) \cup Fail(s)
    /\ UNCHANGED <<thread, unseen, mine, turnsLeft, writesLeft>>

\* A conversation rollback retires the journal before it asks the app-server.
PrepareRewind ==
    /\ Quiet /\ thread # <<>>
    /\ \/ ck' \in Prepared(ck) /\ stage' = "rewinding"
       \/ ck' \in Unprepared(ck) /\ stage' = "idle"
    /\ UNCHANGED <<thread, unseen, unwritten, mine, turnsLeft, writesLeft>>

\* thread/rollback: done or refused.
RewindThread ==
    /\ stage = "rewinding" /\ stage' = "idle"
    /\ \E n \in 0..Len(thread) : thread' = SubSeq(thread, 1, Len(thread) - n)
    /\ ck' = IF thread' # thread /\ ck.held = "off" THEN Unslotted(ck, "disabled") ELSE ck
    /\ UNCHANGED <<unseen, unwritten, mine, turnsLeft, writesLeft>>

-----------------------------------------------------------------------------
(* The wrapper stops, or the session leaves the pool.  A turn the app-server  *)
(* runs then has a slot only if its acceptance was recorded.                  *)
ContextLost ==
    /\ \E s \in Fail(ck) :
        LET t == [Cleared(s) EXCEPT !.held = "none"]
            slotted == s.held = "open" /\ Slotted(s, ThisTurn)
        IN  ck' = IF stage \in {"submitted", "running", "adopting", "adopted"} /\ ~slotted
                  THEN Unslotted(t, "crash") ELSE t
    /\ stage' = "idle" /\ unwritten' = {} /\ unseen' = FALSE
    /\ UNCHANGED <<thread, mine, turnsLeft, writesLeft>>

CheckpointNext ==
    \/ BeginTurn \/ NotAccepted \/ Submit \/ AcceptTurn \/ FinishTurn
    \/ AutomaticTurn \/ Adopt \/ TurnWrites \/ Edit \/ TerminalTurn \/ Notice
    \/ BeginRestore \/ Apply \/ FinishRestore \/ RestoreFails
    \/ PrepareRewind \/ RewindThread \/ ContextLost

CheckpointSpec == CheckpointInit /\ [][CheckpointNext]_checkpointVars
-----------------------------------------------------------------------------
(***************************************************************************)
(* Properties.                                                             *)
(***************************************************************************)
Trees == [Paths -> 0..MaxWrites]

(* Types and limits.  Only a restore that was cut off or failed leaves its   *)
(* marker behind.                                                            *)
CheckpointTypeOK ==
    /\ thread \in Seq(1..MaxTurns) /\ mine \subseteq Paths /\ unwritten \subseteq Paths
    /\ ck.held \in {"none", "open", "off"} /\ ck.tree \in Trees
    /\ ck.disk.turns \in Seq([turn : 1..MaxTurns, available : BOOLEAN, restored : BOOLEAN,
                              pre : Trees, post : Trees])
    /\ Len(ck.disk.turns) <= Retained
    /\ ck.held = "open" => ck.disk.exists
    /\ stage = "restoring" => ck.disk.marker # NoMarker
    /\ ck.gaps \subseteq {"terminal", "noticed", "crash", "disabled"}

\* The records, and the slot that an accepted capture will get.
Slots == Ids(ck.disk.turns)
         \o (IF ck.disk.active.accepted THEN <<ck.disk.active.turn>> ELSE <<>>)

Aligned == IsSuffix(Slots, thread)

(* The records stand for the last turns of the thread, one each, whatever     *)
(* captures, markers and removals failed; so a file rollback by a number of   *)
(* turns and the native one mean the same turns.  The known gaps: a turn run  *)
(* in a terminal, a stop of the wrapper inside turn/start, and a context that *)
(* gave up a journal it could not remove.                                     *)
RecordsAligned == Quiet => Aligned \/ ck.gaps # {}

(* No file rollback and no recovery of one overwrites what somebody wrote     *)
(* outside every turn, whatever was restored, cut off or edited before.       *)
EditsSurvive ==
    [][writesLeft' = writesLeft =>
        \A f \in Paths : ck'.tree[f] # ck.tree[f] => f \notin mine]_checkpointVars

(* A restore that was cut off, or failed, ends whole: every path it named     *)
(* shows what it held before, or every one shows the target and the records   *)
(* say so.  Never some of each, whichever writes the crash let through.       *)
MarkedRestored(c) == {c.disk.turns[i].turn : i \in {k \in DOMAIN c.disk.turns : c.disk.turns[k].restored}}

RestoreIsWhole ==
    [][LET m == ck.disk.marker
           Everywhere(image) == \A f \in m.paths : ck'.tree[f] = image[f]
       IN  m # NoMarker /\ ck'.disk.exists /\ ck'.disk.marker = NoMarker =>
             \/ Everywhere(m.orig) /\ MarkedRestored(ck') \subseteq MarkedRestored(ck)
             \/ Everywhere(m.target) /\ \A i \in DOMAIN m.ids :
                    m.ids[i] \in MarkedRestored(ck') \/ ~Named(ck', m.ids[i])]_checkpointVars

\* The checkpoint store always: typed and aligned with the turns.
CheckpointSafe ==
    /\ CheckpointTypeOK
    /\ RecordsAligned

\* What a restore or its recovery never does to the tree.
RestoreSteps ==
    /\ EditsSurvive
    /\ RestoreIsWhole
=============================================================================
