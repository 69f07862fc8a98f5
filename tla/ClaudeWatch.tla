---------------------------- MODULE ClaudeWatch ----------------------------
(* A Claude session that the wrapper drives through the SDK while native     *)
(* CLIs may open the same transcript: the watcher's probe (process scan,     *)
(* stat, growth), the writer published to the pages, the explicit takeover,  *)
(* and the preflight of a prompt, which must find no CLI and reload the SDK  *)
(* when the transcript has rows it does not know.                            *)
(*                                                                           *)
(* Source: wrapper/machine.py (_watch_loop, _poll_claude_watch,              *)
(* _prime_claude_ownership, _handle_takeover, _handle_query, _run_turn),     *)
(* claude_external.py, sdk.py.  One session with a native id; the loop, the  *)
(* lane of its commands and the task of its turn share one lock.             *)
EXTENDS Integers, Sequences, FiniteSets

CONSTANTS
    Clis,           \* foreign `claude` processes
    WatchBudgets    \* bounds: rows, CLIs started, commands, faults

ASSUME WatchBounds ==
    WatchBudgets \subseteq [rows : Nat, clis : Nat, commands : Nat, faults : Nat]

NoActor == "nobody"
Actors == {"loop", "lane", "task"}

(* A row is the SDK's, with (sdk) or without (own) its provenance, or that   *)
(* of a CLI, with (cli) or without (bare).                                   *)
OurRows == {"sdk", "own"}
CliRows == {"cli", "bare"}

VARIABLES
    clis,       \* process -> off, on, unseen (not attributable), gone
    rows,       \* the transcript
    fileUp,     \* the transcript can be stat'ed
    sdk,        \* the SDK child: connected, and the rows in its context
    owner,      \* self._watch[sid]
    reload,     \* ctx.needs_reload
    write,      \* the published write state; failed is read-only with its reason
    probe,      \* the holder of _codex_watch_lock and where it is
    connect,    \* force_reconnect under way: whose, and the rows it has read
    laneAt, taskAt,
    sent,       \* history: what the last prompt was sent over
    missed,     \* history: foreign rows excused (see SentUpToDate)
    watchLeft   \* what the bounds leave

watchVars == <<clis, rows, fileUp, sdk, owner, reload, write, probe, connect, laneAt,
               taskAt, sent, missed, watchLeft>>

FreeLock == [by |-> NoActor, at |-> "free", seen |-> {}, holders |-> {},
             complete |-> TRUE, old |-> 0, size |-> 0]
NoConnect == [by |-> NoActor, read |-> {}, at |-> "none"]

ForeignIn(s) == {k \in s \cap DOMAIN rows : rows[k] \in CliRows}

(* _spawn: a row written after the SDK has read the transcript and before    *)
(* the watch is registered is in neither.                                    *)
WatchInit ==
    /\ watchLeft \in WatchBudgets
    /\ clis = [p \in Clis |-> "off"]
    /\ \E early \in {<<>>, <<"cli">>} :
          /\ rows = early /\ missed = DOMAIN early
          /\ owner = [size |-> Len(early), holders |-> {}, external |-> FALSE,
                      scanned |-> FALSE, file |-> TRUE, pending |-> FALSE]
    /\ fileUp = TRUE
    /\ sdk = [up |-> TRUE, known |-> {}]
    /\ reload = FALSE /\ write = "writable"
    /\ probe = FreeLock /\ connect = NoConnect
    /\ laneAt = "idle" /\ taskAt = "none"
    /\ sent = [seen |-> {}, stale |-> {}]

Spent(what) == /\ watchLeft[what] > 0
               /\ watchLeft' = [watchLeft EXCEPT ![what] = @ - 1]

world == <<clis, rows, fileUp>>
ghosts == <<sent, missed>>
----------------------------------------------------------------------------
(* The world: CLIs, and the file.                                            *)

CliStarts(p) ==
    /\ clis[p] = "off"
    /\ Spent("clis")
    /\ \E how \in {"on", "unseen"} : clis' = [clis EXCEPT ![p] = how]
    /\ UNCHANGED <<rows, fileUp, sdk, owner, reload, write, probe, connect, laneAt, taskAt, ghosts>>

CliExits(p) ==
    /\ clis[p] \in {"on", "unseen"}
    /\ clis' = [clis EXCEPT ![p] = "gone"]
    /\ UNCHANGED <<rows, fileUp, sdk, owner, reload, write, probe, connect, laneAt, taskAt, ghosts,
                   watchLeft>>

CliWrites(p) ==
    /\ clis[p] \in {"on", "unseen"} /\ fileUp
    /\ Spent("rows")
    /\ \E r \in CliRows : rows' = Append(rows, r)
    /\ UNCHANGED <<clis, fileUp, sdk, owner, reload, write, probe, connect, laneAt, taskAt, ghosts>>

FileBlinks ==
    /\ Spent("faults")
    /\ fileUp' = ~fileUp
    /\ UNCHANGED <<clis, rows, sdk, owner, reload, write, probe, connect, laneAt, taskAt, ghosts>>

(* Rows of the SDK's own turn, some of them after its result.                *)
SdkWrites ==
    /\ sdk.up /\ taskAt \in {"turn", "unwinding"} /\ fileUp
    /\ Spent("rows")
    /\ \E r \in OurRows : rows' = Append(rows, r)
    /\ sdk' = [sdk EXCEPT !.known = @ \cup {Len(rows) + 1}]
    /\ UNCHANGED <<clis, fileUp, owner, reload, write, probe, connect, laneAt, taskAt, ghosts>>
----------------------------------------------------------------------------
(* Ownership and its publication                                             *)

(* _is_external, for a session without broker.                               *)
ExternalNow(o) == o.external \/ ~o.scanned \/ ~o.file

(* _sync_external_control: a failed takeover is not made writable.           *)
ControlOf(o, stale) ==
    IF stale /\ write = "failed" THEN "failed"
    ELSE IF o.pending THEN "pending"
    ELSE IF ExternalNow(o) THEN "read_only" ELSE "writable"

(* classify_claude_growth *)
Origin(data) ==
    IF data \cap {"cli"} # {} THEN "external"
    ELSE IF data \subseteq {"sdk"} THEN "sdk" ELSE "unknown"

(* _own_write: claude_write_active, until the task has unwound.              *)
OwnWrite == taskAt \in {"turn", "unwinding", "recovering"}

(* Mutant: a transcript that grew during a turn grew by that turn. *)
OwnWritesWin(data, holders, own) == holders # {} \/ (Origin(data) # "sdk" /\ ~own)

ForeignGrowth(data, holders, own) ==
    \/ holders # {}
    \/ Origin(data) = "external"
    \/ Origin(data) = "unknown" /\ ~own
----------------------------------------------------------------------------
(* A probe under the lock: scan, stat, growth.                               *)

Acquire(a) ==
    /\ probe = FreeLock
    /\ probe' = [probe EXCEPT !.by = a, !.at = "scan"]

Polls ==
    /\ Acquire("loop")
    /\ UNCHANGED <<world, sdk, owner, reload, write, connect, laneAt, taskAt, ghosts, watchLeft>>

(* claude_session_holders; an incomplete scan keeps the holders known.       *)
Scan ==
    LET alive == {p \in Clis : clis[p] = "on"} IN
    /\ probe.at = "scan"
    /\ \/ /\ probe' = [probe EXCEPT !.at = "stat", !.seen = alive, !.holders = alive,
                          !.complete = TRUE]
          /\ UNCHANGED watchLeft
       \/ /\ Spent("faults")
          /\ \E some \in SUBSET alive :
                probe' = [probe EXCEPT !.at = "stat", !.seen = alive, !.complete = FALSE,
                             !.holders = some \cup owner.holders]
    /\ UNCHANGED <<world, sdk, owner, reload, write, connect, laneAt, taskAt, ghosts>>

Scanned(file) ==
    IF probe.complete
    THEN LET pending == owner.pending /\ (probe.holders # {} \/ ~file)
         IN  [owner EXCEPT !.file = file, !.scanned = TRUE, !.holders = probe.holders,
                           !.pending = pending, !.external = probe.holders # {} \/ pending]
    ELSE [owner EXCEPT !.file = file, !.scanned = FALSE, !.holders = @ \cup probe.holders]

Stat ==
    /\ probe.at = "stat"
    /\ owner' = Scanned(fileUp)
    /\ LET grown == fileUp /\ Len(rows) > owner.size IN
       /\ probe' = [probe EXCEPT !.at = IF grown THEN "read" ELSE "judged",
                                 !.old = owner.size, !.size = Len(rows)]
       /\ write' = IF grown THEN write ELSE ControlOf(owner', reload)
    /\ UNCHANGED <<world, sdk, reload, connect, laneAt, taskAt, ghosts, watchLeft>>

(* The growth has been read: from the size known to the size stat'ed.        *)
Judge ==
    LET new == (probe.old + 1)..probe.size
        data == {rows[k] : k \in new}
        foreign == ForeignGrowth(data, probe.holders, OwnWrite)
    IN
    /\ probe.at = "read"
    /\ owner' = [owner EXCEPT !.size = probe.size]
    /\ reload' = (reload \/ foreign)
    /\ missed' = IF Origin(data) = "unknown" /\ ~foreign THEN missed \cup ForeignIn(new) ELSE missed
    /\ write' = ControlOf(owner', reload')
    /\ probe' = [probe EXCEPT !.at = "judged"]
    /\ UNCHANGED <<world, sdk, connect, laneAt, taskAt, sent, watchLeft>>

PollDone ==
    /\ probe.by = "loop" /\ probe.at = "judged"
    /\ probe' = FreeLock
    /\ UNCHANGED <<world, sdk, owner, reload, write, connect, laneAt, taskAt, ghosts, watchLeft>>
----------------------------------------------------------------------------
(* force_reconnect: the old child goes; the new one reads the transcript     *)
(* some time before connect returns.                                         *)

SdkReconnect(a) ==
    /\ connect' = [NoConnect EXCEPT !.by = a, !.at = "reading"]
    /\ sdk' = [up |-> FALSE, known |-> {}]

ConnectReads ==
    /\ connect.at = "reading"
    /\ connect' = [connect EXCEPT !.at = "read", !.read = DOMAIN rows]
    /\ UNCHANGED <<world, sdk, owner, reload, write, probe, laneAt, taskAt, ghosts, watchLeft>>

SdkConnected(a) ==
    /\ connect.by = a /\ connect.at = "read"
    /\ connect' = NoConnect
    /\ sdk' = [up |-> TRUE, known |-> connect.read]

ConnectFails(a) ==
    /\ connect.by = a
    /\ Spent("faults")
    /\ connect' = [NoConnect EXCEPT !.at = IF a = "lane" THEN "unresumed" ELSE "none"]
    /\ UNCHANGED sdk
----------------------------------------------------------------------------
(* The lane: query, takeover, and the wrapper's own edit of the transcript   *)
(* (rename, archive, rewind).                                                *)

Command ==
    /\ laneAt = "idle"
    /\ Spent("commands")
    /\ \/ laneAt' \in {"query", "takeover"} /\ taskAt \in {"none", "unwinding"}
       \/ laneAt' = "edit"
    /\ UNCHANGED <<world, sdk, owner, reload, write, probe, connect, taskAt, ghosts>>

LaneProbes ==
    /\ laneAt \in {"query", "takeover"}
    /\ Acquire("lane")
    /\ UNCHANGED <<world, sdk, owner, reload, write, connect, laneAt, taskAt, ghosts, watchLeft>>

(* _handle_query: refused while a CLI has the session; else its task.  A     *)
(* turn that has told its end is taken to have unwound by now.               *)
QueryJudged ==
    /\ laneAt = "query" /\ probe.by = "lane" /\ probe.at = "judged"
    /\ probe' = FreeLock /\ laneAt' = "idle"
    /\ IF ExternalNow(owner) THEN UNCHANGED taskAt
       ELSE taskAt = "none" /\ taskAt' = "start"
    /\ UNCHANGED <<world, sdk, owner, reload, write, connect, ghosts, watchLeft>>

EditWrites ==
    /\ laneAt = "edit" /\ fileUp
    /\ Spent("rows")
    /\ rows' = Append(rows, "own")
    /\ laneAt' = "resync"
    /\ UNCHANGED <<clis, fileUp, sdk, owner, reload, write, probe, connect, taskAt, ghosts>>

(* _resync_watch: the size is now; what others wrote is passed over.         *)
Resynced == IF fileUp THEN [owner EXCEPT !.size = Len(rows), !.file = TRUE]
            ELSE [owner EXCEPT !.file = FALSE]
PassedOver == IF fileUp THEN missed \cup ForeignIn((owner.size + 1)..Len(rows)) ELSE missed

EditDone ==
    /\ \/ laneAt = "resync" /\ owner' = Resynced /\ missed' = PassedOver
       \/ laneAt = "edit" /\ UNCHANGED <<owner, missed>>
    /\ laneAt' = "idle"
    /\ UNCHANGED <<world, sdk, reload, write, probe, connect, taskAt, sent, watchLeft>>

TakeoverAt(where) == laneAt = "takeover" /\ probe.by = "lane" /\ probe.at = where

(* Refused when unsure; else the exact processes found are told to stop, or  *)
(* the SDK is reloaded at once.                                              *)
TakeoverJudged ==
    /\ TakeoverAt("judged")
    /\ \/ /\ ~probe.complete \/ ~owner.file
          /\ probe' = FreeLock /\ laneAt' = "idle"
          /\ UNCHANGED <<sdk, owner, reload, write, connect>>
       \/ /\ probe.complete /\ owner.file /\ probe.holders # {}
          /\ owner' = [owner EXCEPT !.pending = TRUE, !.external = TRUE]
          /\ write' = ControlOf(owner', reload)
          /\ probe' = [probe EXCEPT !.at = "stopping"]
          /\ UNCHANGED <<sdk, reload, connect, laneAt>>
       \/ /\ probe.complete /\ owner.file /\ probe.holders = {}
          /\ reload' = TRUE
          /\ SdkReconnect("lane")
          /\ probe' = [probe EXCEPT !.at = "resuming"]
          /\ UNCHANGED <<owner, write, laneAt>>
    /\ UNCHANGED <<world, taskAt, ghosts, watchLeft>>

(* _terminate_external_claude_holders, then the final stat.                  *)
TakeoverStopped ==
    /\ TakeoverAt("stopping")
    /\ IF \E p \in probe.holders : clis[p] = "on"
       THEN /\ owner' = [owner EXCEPT !.pending = FALSE, !.external = TRUE]
            /\ write' = ControlOf(owner', reload)
            /\ probe' = FreeLock /\ laneAt' = "idle"
            /\ UNCHANGED <<sdk, reload, connect>>
       ELSE /\ owner' = IF fileUp THEN [owner EXCEPT !.size = Len(rows), !.file = TRUE] ELSE owner
            /\ reload' = TRUE
            /\ SdkReconnect("lane")
            /\ probe' = [probe EXCEPT !.at = "resuming"]
            /\ UNCHANGED <<write, laneAt>>
    /\ UNCHANGED <<world, taskAt, ghosts, watchLeft>>

TakenOver == [owner EXCEPT !.holders = {}, !.pending = FALSE, !.external = FALSE,
                           !.scanned = TRUE]

(* _reload_claude_after_takeover *)
TakeoverResumed ==
    /\ TakeoverAt("resuming")
    /\ owner' = TakenOver
    /\ \/ /\ SdkConnected("lane")
          /\ reload' = FALSE
          /\ write' = ControlOf(owner', FALSE)
          /\ UNCHANGED watchLeft
       \/ /\ ConnectFails("lane")
          /\ write' = "failed"
          /\ UNCHANGED reload
    /\ probe' = FreeLock /\ laneAt' = "idle"
    /\ UNCHANGED <<world, taskAt, ghosts>>
----------------------------------------------------------------------------
(* The task of a turn: _run_turn                                             *)

(* The reload owed is cleared before the reconnect, so that a row seen       *)
(* meanwhile owes another; a changed effort reconnects too.                  *)
TaskStarts ==
    /\ taskAt = "start"
    /\ \/ /\ reload
          /\ reload' = FALSE /\ SdkReconnect("task") /\ taskAt' = "reloading"
          /\ UNCHANGED watchLeft
       \/ /\ ~reload
          /\ taskAt' = "preflight"
          /\ UNCHANGED <<sdk, reload, connect, watchLeft>>
       \/ /\ ~reload /\ Spent("faults")
          /\ SdkReconnect("task") /\ taskAt' = "reloading"
          /\ UNCHANGED reload
    /\ UNCHANGED <<world, owner, write, probe, laneAt, ghosts>>

TaskReloaded ==
    /\ taskAt \in {"reloading", "reloading_again", "recovering"}
    /\ \/ /\ SdkConnected("task")
          /\ taskAt' = CASE taskAt = "reloading" -> "preflight"
                         [] taskAt = "reloading_again" -> "preflight_again"
                         [] OTHER -> "none"
          /\ UNCHANGED watchLeft
       \/ ConnectFails("task") /\ taskAt' = "none"
    /\ UNCHANGED <<world, owner, reload, write, probe, laneAt, ghosts>>

TaskProbes ==
    /\ taskAt \in {"preflight", "preflight_again"}
    /\ Acquire("task")
    /\ UNCHANGED <<world, sdk, owner, reload, write, connect, laneAt, taskAt, ghosts, watchLeft>>

(* The end of the preflight and the launch: no await lies between.           *)
(* Mutant: rows that appear during the reload do not stop the prompt. *)
OnlyOneReload(stale) == FALSE
ReloadStillOwed(stale) == stale

Launch ==
    IF sdk.up
    THEN /\ taskAt' = "turn"
         /\ sent' = [seen |-> probe.seen, stale |-> ForeignIn(1..owner.size) \ sdk.known]
    ELSE taskAt' = "none" /\ UNCHANGED sent

TaskJudged ==
    /\ probe.by = "task" /\ probe.at = "judged"
    /\ probe' = FreeLock
    /\ \/ /\ ExternalNow(owner)
          /\ taskAt' = "none"
          /\ UNCHANGED <<sdk, reload, connect, sent>>
       \/ /\ ~ExternalNow(owner) /\ reload /\ taskAt = "preflight"
          /\ reload' = FALSE /\ SdkReconnect("task") /\ taskAt' = "reloading_again"
          /\ UNCHANGED sent
       \/ /\ ~ExternalNow(owner) /\ taskAt = "preflight_again" /\ ReloadStillOwed(reload)
          /\ taskAt' = "none"
          /\ UNCHANGED <<sdk, reload, connect, sent>>
       \/ /\ ~ExternalNow(owner)
          /\ taskAt = "preflight" => ~reload
          /\ taskAt = "preflight_again" => ~ReloadStillOwed(reload)
          /\ Launch
          /\ UNCHANGED <<sdk, reload, connect>>
    /\ UNCHANGED <<world, owner, write, laneAt, missed, watchLeft>>

(* An interrupt stops the prompt before it is sent.                          *)
TaskInterrupted ==
    /\ taskAt \in {"preflight", "preflight_again"} /\ probe.by # "task"
    /\ taskAt' = "none"
    /\ UNCHANGED <<world, sdk, owner, reload, write, probe, connect, laneAt, ghosts, watchLeft>>

(* A result; or an error, or a drain that timed out and reconnects.          *)
TurnStops ==
    /\ taskAt = "turn"
    /\ \/ taskAt' = "unwinding" /\ UNCHANGED <<sdk, connect, watchLeft>>
       \/ Spent("faults") /\ taskAt' = "none" /\ UNCHANGED <<sdk, connect>>
       \/ Spent("faults") /\ taskAt' = "recovering" /\ SdkReconnect("task")
    /\ UNCHANGED <<world, owner, reload, write, probe, laneAt, ghosts>>

(* The finally of a turn with a result.                                      *)
TurnUnwinds ==
    /\ taskAt = "unwinding"
    /\ taskAt' = "none"
    /\ owner' = Resynced /\ missed' = PassedOver
    /\ UNCHANGED <<world, sdk, reload, write, probe, connect, laneAt, sent, watchLeft>>

WatchNext ==
    \/ \E p \in Clis : CliStarts(p) \/ CliExits(p) \/ CliWrites(p)
    \/ FileBlinks \/ SdkWrites
    \/ Polls \/ Scan \/ Stat \/ Judge \/ PollDone \/ ConnectReads
    \/ Command \/ LaneProbes \/ QueryJudged \/ EditWrites \/ EditDone
    \/ TakeoverJudged \/ TakeoverStopped \/ TakeoverResumed
    \/ TaskStarts \/ TaskReloaded \/ TaskProbes \/ TaskJudged \/ TaskInterrupted
    \/ TurnStops \/ TurnUnwinds

WatchSpec == WatchInit /\ [][WatchNext]_watchVars
----------------------------------------------------------------------------
(* Types; a takeover is pending only while its lane holds the lock.          *)
WatchTypeOK ==
    /\ probe.by \in Actors \cup {NoActor} /\ (probe = FreeLock <=> probe.by = NoActor)
    /\ owner.size \in 0..Len(rows) /\ owner.holders \subseteq Clis
    /\ sdk.known \subseteq DOMAIN rows
    /\ write \in {"writable", "read_only", "pending", "failed"}
    /\ owner.pending => TakeoverAt("stopping") \/ TakeoverAt("resuming")

(* No prompt is sent while a CLI that can be attributed has the session: the *)
(* last scan before it was complete and found none alive.                    *)
SentAlone == sent.seen = {}

(* No prompt is sent over rows the SDK has not read.  Excused are rows that  *)
(* the code cannot tell: written while the session was being started; of no  *)
(* provenance, during a turn of ours; or passed over when the size is taken  *)
(* as it is after a turn, a rename, an archiving or a rewind of ours.        *)
SentUpToDate == sent.stale \subseteq missed

(* With no probe under way the pages are not told that the session is        *)
(* writable while the wrapper would refuse a prompt for a CLI or a scan that *)
(* was incomplete; and not after a takeover that failed to resume the SDK,   *)
(* until the reload it owes is tried again.                                  *)
ControlIsHonest ==
    probe = FreeLock /\ write = "writable" =>
       /\ owner.scanned => ~owner.external
       /\ connect.at # "unresumed"

WatchSafe == WatchTypeOK /\ SentAlone /\ SentUpToDate /\ ControlIsHonest
=============================================================================
