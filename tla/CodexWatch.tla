----------------------------- MODULE CodexWatch -----------------------------
(* A Codex session of a private app-server while native TUIs, the Codex App  *)
(* or other writers may run turns of the same thread: the watcher's probe,   *)
(* which gives every turn marker of the rollout to us or to somebody else,   *)
(* the takeover, granted at once or after the turn in progress, and the      *)
(* preflights of a prompt.                                                   *)
(*                                                                           *)
(* Source: wrapper/machine.py (_codex_holder_sets, _poll_codex_watch,        *)
(* _grant_codex_takeover, _revoke_codex_takeover, _prime_codex_ownership,    *)
(* _handle_takeover, _handle_query, _run_turn), codex_external.py.  The      *)
(* watch loop, the lane of the session's commands and the task of its turn   *)
(* share _codex_watch_lock.  The id of a turn of ours is negative, that of   *)
(* a foreign one positive; the wrapper only compares ids.                    *)
EXTENDS Integers, Sequences, FiniteSets

CONSTANTS
    Writers,        \* foreign processes
    CodexBudgets    \* bounds: processes that start, and how many foreign turns, automatic
                    \* turns of ours, commands and faults

ASSUME CodexWatchBounds ==
    CodexBudgets \subseteq
        [procs : SUBSET Writers, turns : Nat, alone : Nat, commands : Nat, faults : Nat]

(* An interactive TUI; the App, a headless server that keeps the rollout     *)
(* open; a process no scan can attribute.                                    *)
ProcKinds == {"tui", "app", "unseen"}

VARIABLES
    procs,      \* process -> off, on or gone, its kind, the turn it is in
    rollout,    \* the turn markers of the rollout
    appServer,     \* our app-server: up, what it has read, ids announced, query pending, in a turn
    mine,       \* our turn in the app-server, and the markers it has yet to write
    cw,         \* self._watch[sid]
    stale,      \* ctx.needs_reload
    gate,       \* the holder of the lock and where it is
    resume,     \* force_reconnect under way, and the markers it has read
    cmdAt, runAt,
    launched,   \* history: what the last prompt was sent over
    clicked,    \* history: processes alive at a takeover
    lost,       \* history: foreign turns excused (see LaunchedUpToDate)
    quiet,      \* history: turns of ours that may look foreign (see OursIsOurs)
    codexLeft

codexVars == <<procs, rollout, appServer, mine, cw, stale, gate, resume, cmdAt, runAt,
               launched, clicked, lost, quiet, codexLeft>>

NoMine == [id |-> 0, at |-> "none", due |-> <<>>]
NoGate == [by |-> "free", at |-> "free", holders |-> {}, writers |-> {}, private |-> {},
           full |-> TRUE, size |-> 0]
NoResume == [at |-> "none", read |-> {}]
NoWish == [on |-> FALSE, writers |-> {}, tuis |-> {}, turns |-> {}]

ForeignMarks(s) == {k \in s \cap DOMAIN rollout : rollout[k].id > 0}
TurnsOf(marks) == {rollout[k].id : k \in marks}

(* _watch_session at the end of _spawn: the tail's last marker seeds a turn  *)
(* that nobody may run any more.                                             *)
CodexWatchInit ==
    /\ codexLeft \in CodexBudgets
    /\ procs = [p \in Writers |-> [st |-> "off", kind |-> "tui", turn |-> 0]]
    /\ \E tail \in {<<>>, <<[what |-> "start", id |-> 1]>>} :
          /\ rollout = tail /\ lost = {tail[k].id : k \in DOMAIN tail}
          /\ LET seed == {tail[k].id : k \in DOMAIN tail} IN
             cw = [size |-> Len(tail), holders |-> {}, writers |-> {}, active |-> seed,
                   seeded |-> seed, pending |-> {}, external |-> seed # {},
                   kept |-> {}, keptTuis |-> {}, wish |-> NoWish]
    /\ appServer = [up |-> TRUE, known |-> {}, ids |-> {}, pending |-> FALSE, active |-> FALSE]
    /\ mine = NoMine
    /\ stale = FALSE
    /\ gate = NoGate /\ resume = NoResume
    /\ cmdAt = "idle" /\ runAt = "none"
    /\ launched = [over |-> {}, beside |-> {}, busy |-> {}]
    /\ clicked = {} /\ quiet = {}

Spends(what) == /\ codexLeft[what] > 0
                /\ codexLeft' = [codexLeft EXCEPT ![what] = @ - 1]

Alive(p) == procs[p].st = "on"
Seen(p) == Alive(p) /\ procs[p].kind # "unseen"

StartOf(id) == [what |-> "start", id |-> id]
EndOf(id) == [what |-> "end", id |-> id]
Logs(mark) == rollout' = Append(rollout, mark)
----------------------------------------------------------------------------
(* Foreign processes and their turns.                                        *)

ProcStarts(p) ==
    /\ p \in codexLeft.procs
    /\ codexLeft' = [codexLeft EXCEPT !.procs = @ \ {p}]
    /\ \E k \in ProcKinds : procs' = [procs EXCEPT ![p] = [@ EXCEPT !.st = "on", !.kind = k]]
    /\ UNCHANGED <<rollout, appServer, mine, cw, stale, gate, resume, cmdAt, runAt, launched,
                   clicked, lost, quiet>>

ProcExits(p) ==
    /\ Alive(p)
    /\ procs' = [procs EXCEPT ![p].st = "gone", ![p].turn = 0]
    /\ UNCHANGED <<rollout, appServer, mine, cw, stale, gate, resume, cmdAt, runAt, launched,
                   clicked, lost, quiet, codexLeft>>

ForeignStarts(p) ==
    LET id == 1 + Cardinality(TurnsOf(ForeignMarks(DOMAIN rollout))) IN
    /\ Alive(p) /\ procs[p].turn = 0
    /\ Spends("turns")
    /\ Logs(StartOf(id))
    /\ procs' = [procs EXCEPT ![p].turn = id]
    /\ UNCHANGED <<appServer, mine, cw, stale, gate, resume, cmdAt, runAt, launched, clicked,
                   lost, quiet>>

ForeignEnds(p) ==
    /\ Alive(p) /\ procs[p].turn # 0
    /\ Logs(EndOf(procs[p].turn))
    /\ procs' = [procs EXCEPT ![p].turn = 0]
    /\ UNCHANGED <<appServer, mine, cw, stale, gate, resume, cmdAt, runAt, launched, clicked,
                   lost, quiet, codexLeft>>
----------------------------------------------------------------------------
(* Our app-server.  Its markers and its messages are independent channels.   *)

OurIds ==
    {i \in TurnsOf(DOMAIN rollout) : i < 0} \cup {mine.due[k].id : k \in DOMAIN mine.due}
    \cup appServer.ids \cup quiet
NextMine == 0 - 1 - Cardinality(OurIds)

Begun == [id |-> NextMine, at |-> "running", due |-> Append(mine.due, StartOf(NextMine))]

ServerBegins ==
    /\ appServer.up /\ mine.at = "sent"
    /\ mine' = Begun
    /\ UNCHANGED <<procs, rollout, appServer, cw, stale, gate, resume, cmdAt, runAt, launched,
                   clicked, lost, quiet, codexLeft>>

(* An automatic continuation.                                                *)
ServerBeginsAlone ==
    /\ appServer.up /\ mine.at = "none"
    /\ Spends("alone")
    /\ mine' = Begun
    /\ quiet' = quiet \cup {NextMine}
    /\ UNCHANGED <<procs, rollout, appServer, cw, stale, gate, resume, cmdAt, runAt, launched,
                   clicked, lost>>

ServerLogs ==
    /\ mine.due # <<>>
    /\ Logs(Head(mine.due))
    /\ mine' = [mine EXCEPT !.due = Tail(@)]
    /\ appServer' = [appServer EXCEPT !.known = @ \cup {Len(rollout) + 1}]
    /\ UNCHANGED <<procs, cw, stale, gate, resume, cmdAt, runAt, launched, clicked, lost, quiet,
                   codexLeft>>

(* turn/started, or the response of turn/start.                              *)
Announced ==
    /\ appServer.up /\ mine.at = "running" /\ mine.id \notin appServer.ids
    /\ appServer' = [appServer EXCEPT !.ids = @ \cup {mine.id}, !.active = TRUE, !.pending = FALSE]
    /\ UNCHANGED <<procs, rollout, mine, cw, stale, gate, resume, cmdAt, runAt, launched, clicked,
                   lost, quiet, codexLeft>>

(* turn/start fails for the wrapper; the turn may run all the same.          *)
StartFails ==
    /\ runAt = "turn" /\ appServer.pending
    /\ Spends("faults")
    /\ appServer' = [appServer EXCEPT !.pending = FALSE, !.active = FALSE]
    /\ runAt' = "none"
    /\ IF mine.at = "sent" THEN mine' = [mine EXCEPT !.at = "none"] /\ UNCHANGED quiet
       ELSE UNCHANGED mine /\ quiet' = quiet \cup {mine.id}
    /\ UNCHANGED <<procs, rollout, cw, stale, gate, resume, cmdAt, launched, clicked, lost>>

ServerEnds ==
    /\ appServer.up /\ mine.at = "running" /\ mine.id \in appServer.ids
    /\ mine' = [mine EXCEPT !.at = "none", !.due = Append(@, EndOf(mine.id))]
    /\ appServer' = [appServer EXCEPT !.active = FALSE]
    /\ runAt' = IF runAt = "turn" THEN "none" ELSE runAt
    /\ UNCHANGED <<procs, rollout, cw, stale, gate, resume, cmdAt, launched, clicked, lost, quiet,
                   codexLeft>>
----------------------------------------------------------------------------
(* A probe under the lock: scan, stat, classification.                       *)

Enters(m) ==
    /\ gate = NoGate
    /\ gate' = [gate EXCEPT !.by = m, !.at = "scan"]

LoopPolls ==
    /\ Enters("loop")
    /\ UNCHANGED <<procs, rollout, appServer, mine, cw, stale, resume, cmdAt, runAt, launched,
                   clicked, lost, quiet, codexLeft>>

(* _codex_holder_sets; an incomplete scan keeps the owners known.  The first *)
(* complete one that finds no writer drops the seed.                         *)
HolderSets(raw, full) ==
    LET kept == IF full THEN cw.kept \cap raw ELSE cw.kept
        writers == (raw \ kept) \cup (IF full THEN {} ELSE cw.writers)
        tuis == {p \in raw \ kept : procs[p].kind = "tui"} \cup (IF full THEN {} ELSE cw.holders)
    IN
    /\ cw' = [cw EXCEPT !.kept = kept,
                 !.keptTuis = IF full THEN @ \cap raw ELSE @,
                 !.active = IF full /\ raw = {} THEN @ \ cw.seeded ELSE @,
                 !.seeded = IF full THEN {} ELSE @,
                 !.holders = tuis, !.writers = writers]
    /\ gate' = [gate EXCEPT !.at = "stat", !.full = full, !.holders = tuis, !.writers = writers,
                   !.private = {p \in writers : procs[p].kind = "app"}]

ScanRollout ==
    LET seen == {p \in Writers : Seen(p)} IN
    /\ gate.at = "scan"
    /\ \/ HolderSets(seen, TRUE) /\ UNCHANGED codexLeft
       \/ Spends("faults") /\ \E some \in SUBSET seen : HolderSets(some, FALSE)
    /\ UNCHANGED <<procs, rollout, appServer, mine, stale, resume, cmdAt, runAt, launched, clicked,
                   lost, quiet>>

StatRollout ==
    /\ gate.at = "stat"
    /\ gate' = [gate EXCEPT !.at = "read", !.size = Len(rollout)]
    /\ UNCHANGED <<procs, rollout, appServer, mine, cw, stale, resume, cmdAt, runAt, launched,
                   clicked, lost, quiet, codexLeft>>

NewIds(what) == {rollout[k].id : k \in {i \in (cw.size + 1)..gate.size : rollout[i].what = what}}

MayBeOurs == appServer.pending \/ appServer.active

(* Mutant: a marker that comes before its announcement is taken as foreign.  *)
NeverWaits(tuis) == FALSE
Waits(tuis) == tuis = {} /\ MayBeOurs

Unresolved == {r \in cw.pending : r.id \notin appServer.ids}

(* Which pending markers cannot be ours any more; those of no query wait for *)
(* a grace that may be over (late), and they are older: one that gives a     *)
(* captured TUI its ownership back ends the wait of those behind it.         *)
Recalls == cw.keptTuis # {} /\ \E r \in Unresolved : ~r.rpc

Overdue(r, late) ==
    \/ gate.holders # {} \/ ~MayBeOurs
    \/ r.rpc /\ ~appServer.pending
    \/ late /\ (~r.rpc \/ Recalls)

Overdues(late) == {r \in Unresolved : Overdue(r, late)}

(* Captured owners that show up in a new turn are owners again.              *)
Revived(turns, captured) == IF turns # {} THEN captured ELSE {}

(* The markers that have been waiting are judged first, then the new ones.   *)
NewStarts == NewIds("start") \ appServer.ids
TuisBefore(late) == gate.holders \cup Revived(Overdues(late), cw.keptTuis)
Strangers(late) == IF Waits(TuisBefore(late)) THEN {} ELSE NewStarts
News(late) == {r.id : r \in Overdues(late)} \cup Strangers(late)
TuisNow(late) == gate.holders \cup Revived(News(late), cw.keptTuis)
WritersNow(late) == gate.writers \cup Revived(News(late), cw.kept)

(* A wish dies with a new writer or a new turn.                              *)
WishNow(late) ==
    IF gate.writers \subseteq cw.wish.writers /\ News(late) \subseteq cw.wish.turns
    THEN cw.wish ELSE NoWish

Waiting(late) ==
    LET still == Unresolved \ Overdues(late) IN
    still \cup {[id |-> i, done |-> FALSE, rpc |-> appServer.pending] :
                  i \in (NewStarts \ Strangers(late)) \ {r.id : r \in still}}
PendingNow(late) == {[r EXCEPT !.done = @ \/ r.id \in NewIds("end")] : r \in Waiting(late)}

Attributed(late) ==
    (cw.active \ appServer.ids) \cup {r.id : r \in {o \in Overdues(late) : ~o.done}}
    \cup Strangers(late)
Unended(late) == Attributed(late) \ (NewIds("end") \ {r.id : r \in Waiting(late)})

Growth(late) ==
    \/ News(late) # {} \/ Attributed(late) # Unended(late)
    \/ gate.size > cw.size /\ (TuisNow(late) # {} \/ Unended(late) # {})

(* Turns that nobody runs any more are given up for their silence (expired). *)
ActiveNow(late, expired) ==
    IF /\ expired /\ ~Growth(late)
       /\ TuisNow(late) = {} /\ (Unended(late) = {} \/ WritersNow(late) = {})
    THEN {} ELSE Unended(late)

(* The processes that were there when the takeover was asked for.            *)
Granted(wish, writers) == writers \cap wish.writers

GrantNow(late, expired) ==
    WishNow(late).on /\ gate.full /\ ActiveNow(late, expired) = {} /\ PendingNow(late) = {}

Outcome(late, expired) ==
    LET grant == GrantNow(late, expired)
        keep == IF grant THEN Granted(WishNow(late), WritersNow(late)) ELSE {}
        keepTuis == IF grant THEN TuisNow(late) \cap WishNow(late).tuis ELSE {}
        wish == IF grant THEN NoWish ELSE WishNow(late)
        spoke == News(late) # {}
    IN [cw EXCEPT !.size = gate.size, !.active = ActiveNow(late, expired),
           !.pending = PendingNow(late), !.wish = wish,
           !.holders = TuisNow(late) \ keepTuis, !.writers = WritersNow(late) \ keep,
           !.kept = (IF spoke THEN {} ELSE @) \cup keep,
           !.keptTuis = (IF spoke THEN {} ELSE @) \cup keepTuis,
           !.external = \/ TuisNow(late) \ keepTuis # {}
                        \/ ActiveNow(late, expired) # {} \/ wish.on]

(* Turns given up for their silence, and not ended.                          *)
Forgotten == cw.active \ (cw'.active \cup NewIds("end"))

(* While a TUI is open nothing waits, and a marker of ours may look foreign. *)
ClassifyWith(late, expired) ==
    /\ cw' = Outcome(late, expired)
    /\ stale' = \/ stale \/ Growth(late) \/ GrantNow(late, expired)
                \/ cw'.external /\ ~cw.external
    /\ quiet' = IF TuisBefore(late) = {} THEN quiet
                ELSE quiet \cup {i \in cw'.active : i < 0}

Classify ==
    /\ gate.at = "read"
    /\ \E late, expired \in BOOLEAN : ClassifyWith(late, expired)
    /\ gate' = [gate EXCEPT !.at = "judged"]
    /\ lost' = lost \cup Forgotten
    /\ UNCHANGED <<procs, rollout, appServer, mine, resume, cmdAt, runAt, launched, clicked,
                   codexLeft>>

LoopDone ==
    /\ gate.by = "loop" /\ gate.at = "judged"
    /\ gate' = NoGate
    /\ UNCHANGED <<procs, rollout, appServer, mine, cw, stale, resume, cmdAt, runAt, launched,
                   clicked, lost, quiet, codexLeft>>
----------------------------------------------------------------------------
(* The lane: prompts and takeovers.                                          *)

WatchedCommands == {"query", "takeover"}

CommandArrives ==
    /\ cmdAt = "idle" /\ runAt = "none"
    /\ Spends("commands")
    /\ cmdAt' \in WatchedCommands
    /\ UNCHANGED <<procs, rollout, appServer, mine, cw, stale, gate, resume, runAt, launched,
                   clicked, lost, quiet>>

LaneEnters ==
    /\ cmdAt # "idle" /\ runAt = "none"
    /\ Enters("lane")
    /\ UNCHANGED <<procs, rollout, appServer, mine, cw, stale, resume, cmdAt, runAt, launched,
                   clicked, lost, quiet, codexLeft>>

(* _handle_query: the session is idle, no automatic turn works.              *)
PromptJudged ==
    /\ cmdAt = "query" /\ gate.by = "lane" /\ gate.at = "judged"
    /\ gate' = NoGate /\ cmdAt' = "idle"
    /\ runAt' = IF cw.external \/ appServer.active THEN "none" ELSE "start"
    /\ UNCHANGED <<procs, rollout, appServer, mine, cw, stale, resume, launched, clicked, lost, quiet,
                   codexLeft>>

(* An incomplete scan refuses the takeover before anything is classified.    *)
TakeoverUnsure ==
    /\ cmdAt = "takeover" /\ gate.by = "lane" /\ gate.at = "stat" /\ ~gate.full
    /\ gate' = NoGate /\ cmdAt' = "idle"
    /\ UNCHANGED <<procs, rollout, appServer, mine, cw, stale, resume, runAt, launched, clicked, lost,
                   quiet, codexLeft>>

(* Refused while the App works; queued behind a foreign turn; else granted.  *)
TakeoverDecided ==
    /\ cmdAt = "takeover" /\ gate.by = "lane" /\ gate.at = "judged"
    /\ gate' = NoGate /\ cmdAt' = "idle"
    /\ \/ /\ cw.active # {} /\ cw.holders = {} /\ gate.private # {}
          /\ UNCHANGED <<cw, stale, clicked, lost>>
       \/ /\ cw.active # {} /\ (cw.holders # {} \/ gate.private = {})
          /\ cw' = [cw EXCEPT !.wish = [on |-> TRUE, writers |-> cw.writers,
                                        tuis |-> cw.holders, turns |-> cw.active]]
          /\ clicked' = clicked \cup {p \in Writers : procs[p].st # "off"}
          /\ UNCHANGED <<stale, lost>>
       \/ /\ cw.active = {}
          /\ cw' = [cw EXCEPT !.kept = @ \cup cw.writers, !.keptTuis = @ \cup cw.holders,
                       !.holders = {}, !.writers = {}, !.pending = {}, !.external = FALSE,
                       !.wish = NoWish]
          /\ stale' = TRUE
          /\ clicked' = clicked \cup {p \in Writers : procs[p].st # "off"}
          /\ lost' = lost \cup {r.id : r \in cw.pending}
    /\ UNCHANGED <<procs, rollout, appServer, mine, resume, runAt, launched, quiet, codexLeft>>
----------------------------------------------------------------------------
(* The task of a turn: _run_turn                                             *)

Reloads ==
    /\ resume' = [NoResume EXCEPT !.at = "reading"]
    /\ appServer' = [appServer EXCEPT !.up = FALSE, !.pending = FALSE, !.active = FALSE]
    /\ mine' = NoMine

ReloadReads ==
    /\ resume.at = "reading"
    /\ resume' = [at |-> "read", read |-> DOMAIN rollout]
    /\ UNCHANGED <<procs, rollout, appServer, mine, cw, stale, gate, cmdAt, runAt, launched, clicked,
                   lost, quiet, codexLeft>>

RunStarts ==
    /\ runAt = "start"
    /\ IF stale THEN Reloads /\ runAt' = "reloading"
       ELSE runAt' = "preflight" /\ UNCHANGED <<appServer, mine, resume>>
    /\ UNCHANGED <<procs, rollout, cw, stale, gate, cmdAt, launched, clicked, lost, quiet,
                   codexLeft>>

(* The reload owed is cleared after the reconnect, whatever the watch loop   *)
(* has found since the new server read the thread.                           *)
Reloaded ==
    /\ runAt \in {"reloading", "reloading_again"}
    /\ \/ /\ resume.at = "read"
          /\ appServer' = [appServer EXCEPT !.up = TRUE, !.known = resume.read]
          /\ stale' = FALSE
          /\ lost' = lost \cup TurnsOf(ForeignMarks(1..cw.size) \ resume.read)
          /\ runAt' = IF runAt = "reloading" THEN "preflight" ELSE "preflight_again"
          /\ UNCHANGED codexLeft
       \/ Spends("faults") /\ runAt' = "none" /\ UNCHANGED <<appServer, stale, lost>>
    /\ resume' = NoResume
    /\ UNCHANGED <<procs, rollout, mine, cw, gate, cmdAt, launched, clicked, quiet>>

RunEnters ==
    /\ runAt \in {"preflight", "preflight_again"}
    /\ Enters("task")
    /\ UNCHANGED <<procs, rollout, appServer, mine, cw, stale, resume, cmdAt, runAt, launched,
                   clicked, lost, quiet, codexLeft>>

(* A prompt that meets an automatic turn is left to TurnLifecycle.           *)
StartsTurn ==
    IF appServer.up /\ mine.at = "none"
    THEN /\ runAt' = "turn"
         /\ appServer' = [appServer EXCEPT !.pending = TRUE, !.active = TRUE]
         /\ mine' = [mine EXCEPT !.at = "sent"]
         /\ LET unsure == {r.id : r \in cw.pending}
                read == ForeignMarks(1..cw.size) IN
            launched' = [over |-> TurnsOf(read \ appServer.known) \ unsure,
                         beside |-> gate.holders,
                         busy |-> {p \in gate.writers :
                                      procs[p].turn \in TurnsOf(read) \ (unsure \cup lost)}]
    ELSE runAt' = "none" /\ UNCHANGED <<appServer, mine, launched>>

RunJudged ==
    /\ gate.by = "task" /\ gate.at = "judged"
    /\ gate' = NoGate
    /\ IF cw.external \/ (runAt = "preflight_again" /\ stale)
       THEN runAt' = "none" /\ UNCHANGED <<appServer, mine, resume, launched>>
       ELSE IF stale /\ runAt = "preflight"
            THEN Reloads /\ runAt' = "reloading_again" /\ UNCHANGED launched
            ELSE StartsTurn /\ UNCHANGED resume
    /\ UNCHANGED <<procs, rollout, cw, stale, cmdAt, clicked, lost, quiet, codexLeft>>

CodexWatchNext ==
    \/ \E p \in Writers : ProcStarts(p) \/ ProcExits(p) \/ ForeignStarts(p) \/ ForeignEnds(p)
    \/ ServerBegins \/ ServerBeginsAlone \/ ServerLogs \/ Announced \/ StartFails \/ ServerEnds
    \/ LoopPolls \/ ScanRollout \/ StatRollout \/ Classify \/ LoopDone
    \/ CommandArrives \/ LaneEnters \/ PromptJudged \/ TakeoverUnsure \/ TakeoverDecided
    \/ ReloadReads \/ RunStarts \/ Reloaded \/ RunEnters \/ RunJudged

CodexWatchSpec == CodexWatchInit /\ [][CodexWatchNext]_codexVars
----------------------------------------------------------------------------
(* Types; an id is never both given away and waited for.                     *)
CodexWatchTypeOK ==
    /\ cw.size \in 0..Len(rollout)
    /\ cw.keptTuis \subseteq cw.kept /\ cw.kept \subseteq Writers
    /\ cw.active \cap {r.id : r \in cw.pending} = {}
    /\ gate = NoGate <=> gate.by = "free"

(* No turn of ours is started beside a TUI that has not been taken over, nor *)
(* while a writer that is known is in a turn whose start has been read and   *)
(* attributed (beside an automatic turn it may wait), nor given up.          *)
LaunchedAlone == launched.beside = {} /\ launched.busy = {}

(* No prompt is sent over attributed turns that the app-server has not read, *)
(* except: seeded at the start of the watch; found while it was reloading    *)
(* (see PromptIsCurrent); given up by a takeover, or for their silence.      *)
LaunchedUpToDate == launched.over \subseteq lost

(* A takeover keeps out only processes that were there when it was asked.    *)
TakeoverIsExact == cw.kept \subseteq clicked

(* A turn of ours is never held to be foreign, except: it was automatic and  *)
(* not announced in time; its start had failed for the wrapper; its markers  *)
(* were read while a TUI was open, or by the very probe that gave a captured *)
(* one its ownership back, and then nothing waits.                           *)
OursIsOurs == \A i \in cw.active : i > 0 \/ i \in quiet

CodexWatchSafe ==
    CodexWatchTypeOK /\ LaunchedAlone /\ LaunchedUpToDate /\ TakeoverIsExact /\ OursIsOurs

(* The comment at machine.py:12848 says that a context made stale by another *)
(* process is reloaded "by resuming afresh before issuing the turn".         *)
PromptIsCurrent == launched.over = {}
=============================================================================
