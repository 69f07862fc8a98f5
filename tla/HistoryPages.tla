----------------------------- MODULE HistoryPages -----------------------------
(* History pages of one session: the wrapper reads the engine's transcript   *)
(* for a page, keeps what it built in a derived index, and tags every answer *)
(* with the session's history revision so that a browser can tell an answer  *)
(* older than a rollback from a newer one.                                   *)
(*                                                                           *)
(* Sources: machine.py (_build_history and its callers), history_store.py,   *)
(* reducer.ts (history, history_invalidated, replay_start), history-merge.ts,*)
(* history-requests.ts and recoverable-read.ts.                              *)
(*                                                                           *)
(* The transcript is an append-only log: a turn is its number, and a         *)
(* rollback appends the mark 0, which takes the last turn away.  A           *)
(* fingerprint is the length of the log it was taken at.  A turn enters the  *)
(* log complete; the engine writes it before it reports it (external).       *)
EXTENDS Integers, Sequences, SequencesExt, FiniteSets

CONSTANTS
    HistoryEngines,     \* engines whose session is read: "claude", "codex"
    HistoryBudgets      \* bounds of a behaviour: turns written to the transcript, rollbacks
                        \* attempted, builds of the newest page, and faults: failed reads,
                        \* attempts timed out, lost connections and requests of the user

ASSUME HistoryBounds ==
    /\ HistoryEngines \subseteq {"claude", "codex"}
    /\ HistoryBudgets \subseteq [turns : Nat, rollbacks : Nat, builds : Nat, faults : Nat]

HeadSize == 1       \* turns of a newest page (MIRROR_LIMIT, HISTORY_INITIAL_PAGE)
OlderSize == 2      \* turns of an older page (HISTORY_MORE_PAGE)

None == -1
Builders == {"page", "older", "refresh", "mirror", "publish"}

VARIABLES
    histEngine,     \* "claude" or "codex"
    hlog,           \* the transcript
    owed,           \* the turn written and not yet reported live, or 0
    watched,        \* length of the transcript the watch loop has mirrored
    index,          \* rows of history_pages
    epoch,          \* _history_revision_epochs[sid]
    buildSeq,       \* _history_build_sequences[sid]
    liveSeq,        \* ctx.seq
    liveRing,       \* replayable frames, in order
    builds,         \* one read task per builder
    refreshDirty,   \* _history_refresh_dirty
    rollPc,         \* step of the rollback handler
    up, down,       \* frames from and to the page, in order
    pg,             \* the page's runtime of the session
    waiting,        \* HistoryRequestCoordinator.pending for the newest page
    repairs,        \* RecoverableReadCoordinator.state: the reads <<before, revision>>
                    \* whose one repair is scheduled, or has been attempted
    failedAt,       \* history: the newest-page build whose failure the page learned last
    gaveUp,         \* history: the one whose repair failed too, or was cancelled
    crossed,        \* history: a read of the old transcript carries the new revision,
                    \* or a gap made the page forget which revision it waits for
    blind,          \* history: a request joined a running read, a refresh failed, or
                    \* a rollback's marker fell out of the ring
    histBound,      \* the bounds of this behaviour
    histFaults      \* history: faults so far

histCase  == <<histEngine, histBound>>
repairing == <<repairs, failedAt, gaveUp>>
asking    == <<waiting, repairing>>

histVars == <<histCase, hlog, owed, watched, index, epoch, buildSeq, liveSeq, liveRing,
              builds, refreshDirty, rollPc, up, down, pg, asking, crossed, blind,
              histFaults>>
----------------------------------------------------------------------------
(* The conversation the first v records of the transcript hold.              *)
TurnsAt(v) ==
    LET turnsOf[n \in 0..v] ==
            IF n = 0 THEN <<>>
            ELSE IF hlog[n] = 0 THEN Front(turnsOf[n - 1])
            ELSE Append(turnsOf[n - 1], hlog[n])
    IN  turnsOf[v]

Conversation == TurnsAt(Len(hlog))

(* The page of turns that ends before a cursor; a cursor that is no longer   *)
(* in the conversation selects the newest page.                              *)
PageOf(turns, before) ==
    LET at == IF before \in Range(turns)
              THEN CHOOSE i \in DOMAIN turns : turns[i] = before
              ELSE Len(turns) + 1
        size == IF before = 0 THEN HeadSize ELSE OlderSize
        first == IF at - size < 1 THEN 1 ELSE at - size
    IN  [rows |-> SubSeq(turns, first, at - 1), more |-> first > 1]

NoBuild == [pc |-> "idle", rev |-> 0, number |-> 0, live |-> 0, before |-> 0,
            source |-> 0, rows |-> <<>>, more |-> FALSE, stale |-> FALSE, joined |-> 0]

NewBuild(before) ==
    [NoBuild EXCEPT !.pc = "look", !.rev = epoch, !.live = liveSeq, !.before = before,
                    !.number = IF before = 0 THEN buildSeq + 1 ELSE buildSeq]

(* What a build does to the shared state when it starts: the revision, the   *)
(* build number and the live watermark are taken before any read.            *)
BeginBuild(who, before, others) ==
    /\ before = 0 => buildSeq < histBound.builds
    /\ builds' = [others EXCEPT ![who] = NewBuild(before)]
    /\ buildSeq' = IF before = 0 THEN buildSeq + 1 ELSE buildSeq
    /\ crossed' = (crossed \/ rollPc = "mutate")

HistoryAnswer(b, ok) ==
    [kind |-> "history", rev |-> b.rev, number |-> b.number, live |-> b.live,
     before |-> b.before, rows |-> b.rows, more |-> b.more, ok |-> ok,
     stale |-> b.stale]
LiveFrame(t) == [kind |-> "live", seq |-> liveSeq + 1, turn |-> t]
MarkerFrame == [kind |-> "invalidated", seq |-> liveSeq + 1, rev |-> epoch]
GapFrame == [kind |-> "gap"]

EmitEvent(e) ==
    liveSeq' = e.seq /\ down' = Append(down, e) /\ liveRing' = Append(liveRing, e)

NotWaiting == [on |-> FALSE, rev |-> None]
NoRepairs  == [scheduled |-> {}, attempted |-> {}]

HistInit ==
    /\ histEngine \in HistoryEngines /\ histBound \in HistoryBudgets
    /\ hlog = <<>> /\ owed = 0 /\ watched = 0
    /\ index = {} /\ epoch = 0 /\ buildSeq = 0
    /\ liveSeq = 0 /\ liveRing = <<>>
    /\ builds = [who \in Builders |-> NoBuild]
    /\ refreshDirty = FALSE /\ rollPc = "idle"
    /\ up = <<>> /\ down = <<>>
    /\ pg = [rows |-> <<>>, rev |-> None, pending |-> None, invalid |-> FALSE,
             number |-> 0, live |-> 0, older |-> FALSE, more |-> FALSE, oldest |-> 0]
    /\ waiting = NotWaiting /\ repairs = NoRepairs /\ failedAt = 0 /\ gaveUp = 0
    /\ crossed = FALSE /\ blind = FALSE /\ histFaults = 0
----------------------------------------------------------------------------
(* The engine (external) and the wrapper's report of its turns.              *)

NextTurn == 1 + Cardinality({i \in DOMAIN hlog : hlog[i] # 0})

WriteTurn ==
    /\ NextTurn <= histBound.turns
    /\ owed = 0 /\ rollPc = "idle"
    /\ hlog' = Append(hlog, NextTurn)
    /\ UNCHANGED <<histCase, index, epoch, buildSeq, liveSeq, liveRing, builds,
                   refreshDirty, rollPc, up, down, pg, asking, crossed, blind,
                   histFaults>>

(* A turn the wrapper runs is written and then reported live.                *)
ManagedTurn ==
    /\ WriteTurn
    /\ watched = Len(hlog)
    /\ owed' = NextTurn
    /\ watched' = Len(hlog')

(* A turn of a terminal process is only written; the watch loop sees it.     *)
MirroredTurn ==
    /\ WriteTurn
    /\ UNCHANGED <<owed, watched>>

ReportTurn ==
    /\ owed # 0
    /\ owed' = 0
    /\ EmitEvent(LiveFrame(owed))
    /\ UNCHANGED <<histCase, hlog, watched, index, epoch, buildSeq, builds,
                   refreshDirty, rollPc, up, pg, asking, crossed, blind,
                   histFaults>>

MirrorGrowth ==
    /\ watched < Len(hlog) /\ rollPc = "idle"
    /\ builds["mirror"].pc = "idle"
    /\ watched' = Len(hlog)
    /\ BeginBuild("mirror", 0, builds)
    /\ UNCHANGED <<histCase, hlog, owed, index, epoch, liveSeq, liveRing, refreshDirty,
                   rollPc, up, down, pg, asking, blind,
                   histFaults>>
----------------------------------------------------------------------------
(* The read tasks.                                                           *)

(* One request for a page: it joins the running read of the same key, and is *)
(* answered with a copy of that read's page.                                 *)
HandleGetHistory ==
    /\ up # <<>>
    /\ LET who == IF Head(up) = 0 THEN "page" ELSE "older"
       IN  IF builds[who].pc # "idle"
           THEN /\ blind' = TRUE
                /\ builds' = [builds EXCEPT ![who].joined = @ + 1]
                /\ UNCHANGED <<buildSeq, crossed>>
           ELSE BeginBuild(who, Head(up), builds) /\ UNCHANGED blind
    /\ up' = Tail(up)
    /\ UNCHANGED <<histCase, hlog, owed, watched, index, epoch, liveSeq, liveRing,
                   refreshDirty, rollPc, down, pg, asking, histFaults>>

MayBeStale(who) == who \in {"page", "mirror"} /\ histEngine = "claude"

(* A Claude page of a prefix of the transcript is painted while an exact one *)
(* is rebuilt, by a refresh that runs once at a time.                        *)
ScheduleRefresh(others) ==
    IF builds["refresh"].pc = "idle"
    THEN /\ BeginBuild("refresh", 0, others)
         /\ UNCHANGED refreshDirty
    ELSE /\ refreshDirty' = TRUE
         /\ builds' = others
         /\ UNCHANGED <<buildSeq, crossed>>

LookInIndex(who) ==
    LET b == builds[who]
        exact == {r \in index : r.source = Len(hlog) /\ r.before = b.before}
        prefix == {r \in index : r.source < Len(hlog) /\ r.before = 0}
        Found(r) == [builds EXCEPT ![who] =
                        [b EXCEPT !.pc = "send", !.rows = r.rows, !.more = r.more,
                                  !.stale = r \in prefix]]
    IN
    /\ b.pc = "look"
    /\ \/ \E r \in exact : /\ builds' = Found(r)
                           /\ UNCHANGED <<buildSeq, refreshDirty, crossed>>
       \/ /\ exact = {} /\ MayBeStale(who)
          /\ \E r \in prefix : ScheduleRefresh(Found(r))
       \/ /\ exact = {} /\ ~(MayBeStale(who) /\ prefix # {})
          /\ builds' = [builds EXCEPT ![who] =
                            [b EXCEPT !.pc = "read", !.source = Len(hlog)]]
          /\ UNCHANGED <<buildSeq, refreshDirty, crossed>>
    /\ UNCHANGED <<histCase, hlog, owed, watched, index, epoch, liveSeq, liveRing,
                   rollPc, up, down, pg, asking, blind,
                   histFaults>>

Unmoved(b) == b.source = Len(hlog)

(* A page of a transcript that moved meanwhile is answered and not kept.     *)
ReadTranscript(who) ==
    LET b == builds[who]
        page == PageOf(Conversation, b.before)
    IN
    /\ b.pc = "read"
    /\ \/ /\ builds' = [builds EXCEPT ![who] =
                            [b EXCEPT !.pc = IF Unmoved(b) THEN "put" ELSE "send",
                                      !.rows = page.rows, !.more = page.more]]
          /\ UNCHANGED histFaults
       \/ /\ histFaults < histBound.faults
          /\ histFaults' = histFaults + 1
          /\ builds' = [builds EXCEPT ![who].pc = "failed"]
    /\ UNCHANGED <<histCase, hlog, owed, watched, index, epoch, buildSeq, liveSeq,
                   liveRing, refreshDirty, rollPc, up, down, pg, asking, crossed,
                   blind>>

(* A page kept takes the place of every row of another fingerprint.          *)
Kept(b) ==
    {[source |-> b.source, before |-> b.before, rows |-> b.rows, more |-> b.more]}
    \cup {r \in index : r.source = b.source /\ r.before # b.before}

(* The page of an unmoved transcript is kept and the answer is sent.  A      *)
(* refresh asked for again meanwhile runs once more; the rollback handler    *)
(* ends with its page.                                                       *)
SendHistory(who) ==
    LET b == builds[who]
        ended == [builds EXCEPT ![who] = NoBuild]
        again == who = "refresh" /\ refreshDirty
    IN
    /\ b.pc \in {"put", "send", "failed"}
    /\ index' = IF b.pc = "put" THEN Kept(b) ELSE index
    /\ down' = IF b.pc = "failed" /\ who = "refresh" THEN down
               ELSE down \o [i \in 1..(1 + b.joined) |-> HistoryAnswer(b, b.pc # "failed")]
    /\ again => buildSeq < histBound.builds
    /\ builds' = IF again THEN [ended EXCEPT ![who] = NewBuild(0)] ELSE ended
    /\ buildSeq' = IF again THEN buildSeq + 1 ELSE buildSeq
    /\ refreshDirty' = (refreshDirty /\ ~again)
    /\ rollPc' = IF who = "publish" THEN "idle" ELSE rollPc
    /\ crossed' = (\/ crossed
                   \/ again /\ rollPc = "mutate"
                   \/ b.pc = "put" /\ b.rev # epoch)
    /\ blind' = (blind \/ (who = "refresh" /\ b.pc = "failed"))
    /\ UNCHANGED <<histCase, hlog, owed, watched, epoch, liveSeq, liveRing, up, pg,
                   asking, histFaults>>
----------------------------------------------------------------------------
(* Rollback of the last turn of the conversation.                            *)

BumpRevision ==
    /\ rollPc = "idle" /\ epoch < histBound.rollbacks
    /\ owed = 0 /\ watched = Len(hlog)
    /\ Conversation # <<>>
    /\ epoch' = epoch + 1
    /\ index' = {}
    /\ rollPc' = "mutate"
    /\ UNCHANGED <<histCase, hlog, owed, watched, buildSeq, liveSeq, liveRing, builds,
                   refreshDirty, up, down, pg, asking, crossed, blind,
                   histFaults>>

(* The engine removes the turn, or rejects the rollback.                     *)
MutateTranscript ==
    /\ rollPc = "mutate"
    /\ \/ hlog' = Append(hlog, 0) /\ watched' = Len(hlog') /\ rollPc' = "tell"
       \/ UNCHANGED <<hlog, watched>> /\ rollPc' = "idle"
    /\ UNCHANGED <<histCase, owed, index, epoch, buildSeq, liveSeq, liveRing, builds,
                   refreshDirty, up, down, pg, asking, crossed, blind,
                   histFaults>>

TellInvalidated ==
    /\ rollPc = "tell"
    /\ EmitEvent(MarkerFrame)
    /\ rollPc' = "replace"
    /\ UNCHANGED <<histCase, hlog, owed, watched, index, epoch, buildSeq, builds,
                   refreshDirty, up, pg, asking, crossed, blind, histFaults>>

ReplaceHistory ==
    /\ rollPc = "replace"
    /\ BeginBuild("publish", 0, builds)
    /\ rollPc' = "publish"
    /\ UNCHANGED <<histCase, hlog, owed, watched, index, epoch, liveSeq, liveRing,
                   refreshDirty, up, down, pg, asking, blind, histFaults>>
----------------------------------------------------------------------------
(* The page.                                                                 *)

(* The coordinator sends a request unless an equivalent one is pending and   *)
(* younger than its time-out.  A request for a given revision is not served  *)
(* by one that names none.                                                   *)
AskNewest(pending, rev) ==
    LET shared == pending.on /\ (IF pending.rev # None THEN rev \in {None, pending.rev}
                                                       ELSE rev = None)
    IN  IF shared THEN waiting' = pending /\ UNCHANGED up
        ELSE /\ up' = Append(up, 0)
             /\ waiting' = [on |-> TRUE, rev |-> rev]

(* The pending attempt is older than its time-out: it is not shared any more *)
(* and the next trigger asks again, while its answer may still come.         *)
AttemptTimesOut ==
    /\ waiting.on /\ waiting' = NotWaiting
    /\ histFaults < histBound.faults
    /\ histFaults' = histFaults + 1
    /\ UNCHANGED <<histCase, hlog, owed, watched, index, epoch, buildSeq, liveSeq,
                   liveRing, builds, refreshDirty, rollPc, up, down, pg, repairing, crossed, blind>>

(* Any answer that fits what is pending settles it, accepted or not.         *)
PendingAfter(h) ==
    IF h.before = 0 /\ waiting.on /\ waiting.rev \in {None, h.rev} THEN NotWaiting
    ELSE waiting

Ascending(rows) == SetToSortSeq(rows, LAMBDA s, t : s < t)

(* The page was begun before a live event that is already painted.           *)
(* Mutant: the live watermark of an answer is ignored. *)
NeverRaced(h) == FALSE

Raced(h) == pg.live > h.live

(* A first page replaces the local rows, except that rows the page already   *)
(* shows survive a page that began before a live event, and a head window of *)
(* the same revision with older turns behind it.                             *)
AcceptFirst(h) ==
    LET window == /\ pg.rows # <<>> /\ ~pg.invalid /\ pg.rev = h.rev
                  /\ pg.older \/ h.more
        kept == IF Raced(h) \/ window THEN Range(pg.rows) ELSE {}
    IN  [pg EXCEPT !.rows = Ascending(Range(h.rows) \cup kept),
                   !.rev = h.rev, !.pending = None, !.invalid = FALSE,
                   !.number = h.number,
                   !.older = window /\ pg.older,
                   !.more = IF window THEN pg.more ELSE h.more,
                   !.oldest = IF window THEN pg.oldest
                              ELSE IF h.rows = <<>> THEN pg.oldest ELSE h.rows[1]]

AcceptOlder(h) ==
    [pg EXCEPT !.rows = SelectSeq(h.rows, LAMBDA t : t \notin Range(pg.rows)) \o pg.rows,
               !.older = TRUE, !.more = h.more,
               !.oldest = IF h.rows = <<>> THEN pg.oldest ELSE h.rows[1]]

(* Only the revision of the last marker may replace what it removed, and an  *)
(* older page extends only the revision it was asked of.                     *)
(* Mutant: the marker's revision is not compared. *)
AnyRevision(h) == IF h.before = 0 THEN h.number >= pg.number ELSE pg.rev = h.rev

Accepted(h) ==
    IF h.before = 0
    THEN /\ h.number >= pg.number
         /\ pg.pending \in {None, h.rev}
    ELSE ~pg.invalid /\ pg.rev = h.rev

(* The first failed answer for a page schedules its one silent repair; one   *)
(* that comes when the repair was already attempted ends the cycle.          *)
RepairsAfter(read) ==
    IF read \in repairs.scheduled THEN repairs
    ELSE IF read \in repairs.attempted THEN [repairs EXCEPT !.attempted = @ \ {read}]
    ELSE [repairs EXCEPT !.scheduled = @ \cup {read}]

(* Any answer to the same read cancels its repair, an older one too.         *)
Settled(read) == [scheduled |-> repairs.scheduled \ {read},
                  attempted |-> repairs.attempted \ {read}]

Abandoned(h, read) ==
    IF h.ok THEN read \in repairs.scheduled /\ h.number < failedAt
    ELSE read \in repairs.attempted

TakeHistory(h) ==
    LET read == <<h.before, h.rev>> IN
    /\ waiting' = PendingAfter(h)
    /\ repairs' = IF h.ok THEN Settled(read) ELSE RepairsAfter(read)
    /\ failedAt' = IF h.ok \/ h.before # 0 THEN failedAt ELSE h.number
    /\ gaveUp' = IF h.before = 0 /\ Abandoned(h, read) THEN failedAt' ELSE gaveUp
    /\ pg' = IF ~h.ok \/ ~Accepted(h) THEN pg
             ELSE IF h.before = 0 THEN AcceptFirst(h) ELSE AcceptOlder(h)
    /\ UNCHANGED up

(* The timer of a scheduled repair asks for the page again.                  *)
RepairRead ==
    \E read \in repairs.scheduled :
        /\ repairs' = [scheduled |-> repairs.scheduled \ {read},
                       attempted |-> repairs.attempted \cup {read}]
        /\ IF read[1] = 0 THEN AskNewest(waiting, read[2])
           ELSE up' = Append(up, read[1]) /\ UNCHANGED waiting
        /\ UNCHANGED <<histCase, hlog, owed, watched, index, epoch, buildSeq, liveSeq,
                       liveRing, builds, refreshDirty, rollPc, down, pg, failedAt, gaveUp, crossed,
                       blind, histFaults>>

TakeFrame ==
    /\ down # <<>>
    /\ down' = Tail(down)
    /\ LET e == Head(down) IN
       CASE e.kind = "history" -> TakeHistory(e)
         [] e.kind = "live" ->
              /\ pg' = [pg EXCEPT !.live = e.seq,
                                  !.rows = IF e.turn \in Range(@) THEN @
                                           ELSE Append(@, e.turn)]
              /\ UNCHANGED <<up, asking>>
         [] e.kind = "invalidated" ->
              /\ pg' = [pg EXCEPT !.rows = <<>>, !.more = FALSE, !.oldest = 0,
                                  !.invalid = TRUE, !.pending = e.rev, !.number = 0,
                                  !.older = FALSE, !.live = e.seq]
              /\ AskNewest(waiting, e.rev) /\ UNCHANGED repairing
         [] e.kind = "gap" ->
              /\ pg' = [pg EXCEPT !.rows = <<>>, !.more = FALSE, !.oldest = 0,
                                  !.invalid = TRUE, !.pending = None, !.older = FALSE]
              /\ AskNewest(waiting, None) /\ UNCHANGED repairing
    /\ UNCHANGED <<histCase, hlog, owed, watched, index, epoch, buildSeq, liveSeq,
                   liveRing, builds, refreshDirty, rollPc, crossed, blind,
                   histFaults>>

(* The user opens the session, or comes back to it, or scrolls to its first  *)
(* row.                                                                      *)
OpenSession ==
    /\ \/ pg.rev = None /\ pg.pending = None /\ UNCHANGED histFaults
       \/ histFaults < histBound.faults /\ histFaults' = histFaults + 1
    /\ AskNewest(waiting, None)
    /\ up' # up
    /\ UNCHANGED <<histCase, hlog, owed, watched, index, epoch, buildSeq, liveSeq,
                   liveRing, builds, refreshDirty, rollPc, down, pg, repairing,
                   crossed, blind>>

LoadOlder ==
    /\ histFaults < histBound.faults
    /\ histFaults' = histFaults + 1
    /\ pg.more /\ pg.oldest # 0
    /\ up' = Append(up, pg.oldest)
    /\ UNCHANGED <<histCase, hlog, owed, watched, index, epoch, buildSeq, liveSeq,
                   liveRing, builds, refreshDirty, rollPc, down, pg, asking, crossed,
                   blind>>

(* The connection is lost with everything in flight to the page.  What the   *)
(* ring keeps is replayed; when it no longer reaches back to the page's      *)
(* cursor a gap is announced first.  The page asks again on connecting.      *)
Reconnect ==
    LET missed == SelectSeq(liveRing, LAMBDA e : e.seq > pg.live) IN
    /\ pg.rev # None                            \* bound: once a page is shown
    /\ histFaults < histBound.faults
    /\ histFaults' = histFaults + 1
    /\ \E lost \in 0..Len(missed) :
          /\ down' = (IF lost > 0 THEN <<GapFrame>> ELSE <<>>)
                     \o SubSeq(missed, lost + 1, Len(missed))
          /\ blind' = (blind \/ \E i \in 1..lost : missed[i].kind = "invalidated")
          /\ crossed' = (crossed \/ (lost > 0 /\ pg.pending # None))
    /\ up' = Append(up, 0)
    /\ waiting' = [on |-> TRUE, rev |-> None]
    /\ repairs' = NoRepairs
    /\ UNCHANGED <<histCase, hlog, owed, watched, index, epoch, buildSeq, liveSeq,
                   liveRing, builds, refreshDirty, rollPc, pg, failedAt, gaveUp>>

HistNext ==
    \/ ManagedTurn \/ MirroredTurn \/ ReportTurn \/ MirrorGrowth
    \/ HandleGetHistory
    \/ \E who \in Builders : \/ LookInIndex(who) \/ ReadTranscript(who)
                             \/ SendHistory(who)
    \/ BumpRevision \/ MutateTranscript \/ TellInvalidated \/ ReplaceHistory
    \/ TakeFrame \/ RepairRead \/ AttemptTimesOut \/ OpenSession \/ LoadOlder \/ Reconnect

HistSpec == HistInit /\ [][HistNext]_histVars
----------------------------------------------------------------------------
(* Types, and every numbered event of the session is in the ring.            *)
HistTypeOK ==
    /\ histEngine \in HistoryEngines /\ histBound \in HistoryBudgets
    /\ hlog \in Seq(0..histBound.turns) /\ owed \in 0..histBound.turns
    /\ watched \in 0..Len(hlog)
    /\ epoch \in 0..histBound.rollbacks /\ buildSeq \in 0..histBound.builds
    /\ liveSeq = Len(liveRing)
    /\ \A who \in Builders :
          builds[who].pc \in {"idle", "look", "read", "put", "send", "failed"}
    /\ rollPc \in {"idle", "mutate", "tell", "replace", "publish"}
    /\ pg.rows \in Seq(1..histBound.turns) /\ pg.rev \in None..epoch
    /\ pg.pending \in None..epoch /\ pg.live \in 0..liveSeq
    /\ \A r \in index : r.source \in 0..Len(hlog)

(* A row of the index is the page of the transcript its fingerprint names,   *)
(* however the transcript moved while the row was being built (_build_history*)
(* captures the fingerprint on both sides of the read).                      *)
IndexTrue ==
    \A r \in index : LET page == PageOf(TurnsAt(r.source), r.before)
                     IN  r.rows = page.rows /\ r.more = page.more

(* All that happened has been delivered and answered.                        *)
HistQuiet ==
    /\ up = <<>> /\ down = <<>> /\ repairs.scheduled = {} /\ rollPc = "idle" /\ owed = 0 /\ watched = Len(hlog)
    /\ \A who \in Builders : builds[who].pc = "idle"

Shown == Range(pg.rows)

(* The cycle of reads ended with a failure that is newer than the page: the  *)
(* page may stay as it is, invalid too, until somebody asks again.           *)
GaveUp == pg.number < gaveUp

(* Whatever order reads, live events, rollbacks, attempts that time out, a   *)
(* failed read and its repair and lost connections came in, a page that has  *)
(* been answered ends up with the newest turns, unless the repair failed too *)
(* and nothing newer was answered since, or the read that answered it began  *)
(* before what it missed, or the exact read behind a stale page failed.      *)
QuietPageIsCurrent ==
    HistQuiet /\ pg.rev # None /\ ~GaveUp /\ ~blind =>
        /\ ~pg.invalid
        /\ Range(PageOf(Conversation, 0).rows) \subseteq Shown

(* The marker of the last rollback has reached the page.                     *)
MarkerSeen ==
    \E e \in Range(liveRing) :
        e.kind = "invalidated" /\ e.rev = epoch /\ e.seq <= pg.live

(* A turn a rollback removed is gone from the page with its marker and does  *)
(* not come back, however late an older answer arrives, unless a read took   *)
(* the new revision before the transcript was mutated or kept the old page   *)
(* after it, or a gap made the page forget the revision it waits for.        *)
RemovedTurnsLeave ==
    MarkerSeen /\ ~crossed /\ ~blind => Shown \subseteq Range(Conversation)

PaintedLive ==
    {e.turn : e \in {d \in Range(liveRing) : d.kind = "live" /\ d.seq <= pg.live}}

(* A turn painted live stays on the page until a marker or a gap clears it,  *)
(* a rollback removes it, or it can be loaded again as an older one; a page  *)
(* painted from a stale index row is the exception.                          *)
PaintedTurnsStay ==
    [][\A t \in (Shown \cap PaintedLive) \ Shown' :
          \/ t \notin Range(Conversation)
          \/ Head(down).kind \in {"gap", "invalidated"}
          \/ Head(down).stale
          \/ pg'.more /\ t < pg'.oldest]_histVars

(* What machine.py:4062 says of a read in flight at a rollback: its answer   *)
(* is told apart by its revision.  A read begun after the revision is bumped *)
(* and before the engine removes the turn carries the new one.               *)
NewRevisionIsNewContent ==
    HistQuiet /\ pg.rev > 0 /\ ~blind => Shown \subseteq Range(Conversation)

\* Pages of history always: a true index, a quiet page current, removed turns gone.
HistorySafe ==
    /\ HistTypeOK
    /\ IndexTrue
    /\ QuietPageIsCurrent
    /\ RemovedTurnsLeave
=============================================================================
