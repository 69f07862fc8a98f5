--------------------------- MODULE ClaudeHandover ---------------------------
(* A Claude session that moves between the wrapper's own SDK child and a     *)
(* terminal (TUI) of the local broker: an idle SDK child gives way to a live *)
(* TUI, a TUI that has exited gives way to a new SDK child, and prompts are  *)
(* sent through whichever is installed.                                      *)
(*                                                                           *)
(* Source: wrapper/machine.py (_adopt_claude_broker_handle,                  *)
(* _refresh_claude_broker_handle, _restore_sdk_after_claude_broker_exit,     *)
(* the broker branch of _poll_claude_watch, _run_claude_broker_turn),        *)
(* claude_broker_handle.py, claude_broker_history.py.  The watch loop, the   *)
(* lane of the session's commands and the task of its turn run these side by *)
(* side; a handle's generation is that of the broker process.                *)
EXTENDS Integers, Sequences, SequencesExt, FiniteSets

CONSTANT HandoverBudgets  \* bounds: TUIs started, broker restarts, typed, queries, faults

ASSUME HandoverBounds ==
    HandoverBudgets \subseteq [tuis : Nat, restarts : Nat, typed : Nat, queries : Nat, faults : Nat]

Movers == {"loop", "lane", "task"}

VARIABLES
    broker,     \* up, generation, whether the session's TUI runs, TUIs started
    prompts,    \* accepted by the TUI and not begun: whose
    doing,      \* whose turn the TUI works on, or no one's
    bounds,     \* turn boundaries in the transcript, each with whose turn
    ctx,        \* the installed handle and the turn state of the session
    children,   \* SDK children alive: published, or spare (not yet, or discarded)
    locks,      \* holders of ctx.launch_lock and of _codex_watch_lock
    mirror,     \* the watch: boundaries seen, and broker_active
    act,        \* where each mover is
    turnRead,   \* the managed turn: boundaries read, own start seen, outcome
    proof,      \* history: TUIs started when the broker last proved an exit
    hist,       \* history: races excused below
    handoverLeft

handoverVars == <<broker, prompts, doing, bounds, ctx, children, locks, mirror, act,
                  turnRead, proof, hist, handoverLeft>>

terminal == <<broker, prompts, doing, bounds>>

Resting == [at |-> "rest", h |-> 0, g |-> 0, kind |-> "none", orphan |-> FALSE, to |-> "rest"]
NoRead == [from |-> 0, start |-> FALSE, how |-> "none"]

HandoverInit ==
    /\ handoverLeft \in HandoverBudgets
    /\ broker = [up |-> TRUE, gen |-> 1, tui |-> FALSE, life |-> 0]
    /\ prompts = <<>> /\ doing = "none" /\ bounds = <<>>
    /\ ctx = [kind |-> "sdk", gen |-> 0, swaps |-> 0, state |-> "idle", task |-> "none",
              msg |-> FALSE, writing |-> FALSE, away |-> FALSE]
    /\ children = {"published"}
    /\ locks = [launch |-> "none", watch |-> "none"]
    /\ mirror = [seen |-> 0, active |-> FALSE]
    /\ act = [m \in Movers |-> Resting]
    /\ turnRead = NoRead
    /\ proof = 0
    /\ hist = {}

Use(what) == /\ handoverLeft[what] > 0
             /\ handoverLeft' = [handoverLeft EXCEPT ![what] = @ - 1]

(* claude_broker_tail_state *)
TailActive == bounds # <<>> /\ Last(bounds).what = "start"
----------------------------------------------------------------------------
(* The terminal's side.                                                      *)

TuiOpens ==
    /\ broker.up /\ ~broker.tui
    /\ Use("tuis")
    /\ broker' = [broker EXCEPT !.tui = TRUE, !.life = @ + 1]
    /\ UNCHANGED <<prompts, doing, bounds, ctx, children, locks, mirror, act, turnRead, proof, hist>>

TuiCloses ==
    /\ broker.tui
    /\ broker' = [broker EXCEPT !.tui = FALSE]
    /\ prompts' = <<>> /\ doing' = "none"
    /\ UNCHANGED <<bounds, ctx, children, locks, mirror, act, turnRead, proof, hist, handoverLeft>>

(* The broker process dies with its TUI; the next one is a new generation.   *)
BrokerDies ==
    /\ broker.up
    /\ Use("restarts")
    /\ broker' = [broker EXCEPT !.up = FALSE, !.tui = FALSE]
    /\ prompts' = <<>> /\ doing' = "none"
    /\ UNCHANGED <<bounds, ctx, children, locks, mirror, act, turnRead, proof, hist>>

BrokerStarts ==
    /\ ~broker.up
    /\ broker' = [broker EXCEPT !.up = TRUE, !.gen = @ + 1]
    /\ UNCHANGED <<prompts, doing, bounds, ctx, children, locks, mirror, act, turnRead,
                   proof, hist, handoverLeft>>

UserTypes ==
    /\ broker.tui
    /\ Use("typed")
    /\ prompts' = Append(prompts, "terminal")
    /\ UNCHANGED <<broker, doing, bounds, ctx, children, locks, mirror, act, turnRead, proof, hist>>

TuiBegins ==
    /\ broker.tui /\ doing = "none" /\ prompts # <<>>
    /\ doing' = Head(prompts) /\ prompts' = Tail(prompts)
    /\ bounds' = Append(bounds, [what |-> "start", by |-> Head(prompts)])
    /\ UNCHANGED <<broker, ctx, children, locks, mirror, act, turnRead, proof, hist, handoverLeft>>

TuiFinishes ==
    /\ doing # "none"
    /\ bounds' = Append(bounds, [what |-> "end", by |-> doing])
    /\ doing' = "none"
    /\ UNCHANGED <<broker, prompts, ctx, children, locks, mirror, act, turnRead, proof, hist,
                   handoverLeft>>
----------------------------------------------------------------------------
(* Movers.  A status request answers with the state of one moment.           *)

MoverAt(m, where) == act[m].at = where
Go(m, where) ==
    act' = [act EXCEPT ![m] = IF where = "rest" THEN Resting ELSE [@ EXCEPT !.at = where]]

(* What a refresh leaves: a live broker, the SDK, or no.  A query that is    *)
(* about to be claimed goes on by it; others only look at the session.       *)
Left == IF ctx.kind = "sdk" THEN "sdk" ELSE IF ctx.away THEN "no" ELSE "broker"
NotRefreshed == IF ctx.kind = "sdk" THEN "sdk" ELSE "no"

Return(m, left) ==
    IF act[m].to # "ready" THEN Go(m, act[m].to)
    ELSE CASE left = "broker" -> Go(m, "ready")
           [] left = "sdk" -> act' = [act EXCEPT ![m].at = "poll", ![m].kind = "sdk"]
           [] OTHER -> Go(m, "rest")

RunningAt(g) == broker.up /\ broker.tui /\ broker.gen = g

(* _is_orphaned_claude_broker_turn *)
Orphaned == ctx.state # "idle" /\ ctx.task = "none" /\ ~ctx.msg /\ ~ctx.writing

IdleForAdoption == ctx.state = "idle" /\ ctx.task = "none" /\ ~ctx.writing

(* Mutant: the turn that began during the status check is not looked at. *)
MayRestoreOnce(m) == ctx.state = "idle" \/ Orphaned \/ MoverAt(m, "restore_locked")

MayRestore(m) ==
    /\ ctx.state = "idle" \/ Orphaned
    /\ ctx.task = "none" \/ m = "task"
    /\ ~ctx.writing

Install(kind, g) ==
    ctx' = [ctx EXCEPT !.kind = kind, !.gen = g, !.swaps = @ + 1, !.away = FALSE]

Unavailable(m) ==
    /\ ctx' = IF ctx.kind = "broker" THEN [ctx EXCEPT !.away = TRUE] ELSE ctx
    /\ Return(m, NotRefreshed)

TakesLock(m, from, where) ==
    /\ MoverAt(m, from) /\ locks.launch = "none"
    /\ locks' = [locks EXCEPT !.launch = m]
    /\ Go(m, where)
    /\ UNCHANGED <<terminal, ctx, children, mirror, turnRead, proof, hist, handoverLeft>>
----------------------------------------------------------------------------
(* _adopt_claude_broker_handle, from the SDK                                 *)

Discover(m) ==
    /\ MoverAt(m, "discover")
    /\ IF broker.up /\ broker.tui /\ ctx.kind = "sdk"
       THEN act' = [act EXCEPT ![m].at = "adopt", ![m].h = ctx.swaps, ![m].g = broker.gen]
       ELSE Return(m, Left)
    /\ UNCHANGED <<terminal, ctx, children, locks, mirror, turnRead, proof, hist, handoverLeft>>

AdoptLocked(m) == TakesLock(m, "adopt", "adopt_locked")

(* A query, an interrupt or another pass may have changed the session.       *)
AdoptRevalidates(m) ==
    /\ MoverAt(m, "adopt_locked")
    /\ IF ctx.swaps = act[m].h /\ IdleForAdoption /\ RunningAt(act[m].g)
       THEN Go(m, "disconnecting") /\ UNCHANGED locks
       ELSE Return(m, Left) /\ locks' = [locks EXCEPT !.launch = "none"]
    /\ UNCHANGED <<terminal, ctx, children, mirror, turnRead, proof, hist, handoverLeft>>

(* The SDK child is stopped, then the broker's handle installed; the tail of *)
(* the transcript says whether the TUI is in a turn.                         *)
Adopts(m) ==
    /\ MoverAt(m, "disconnecting")
    /\ children' = children \ {"published"}
    /\ ctx' = [ctx EXCEPT !.kind = "broker", !.gen = act[m].g, !.swaps = @ + 1, !.away = FALSE,
                 !.state = IF TailActive /\ ctx.task = "none" /\ @ = "idle" THEN "running" ELSE @]
    /\ mirror' = [mirror EXCEPT !.active = TailActive]
    /\ locks' = [locks EXCEPT !.launch = "none"]
    /\ Return(m, Left)
    /\ UNCHANGED <<terminal, turnRead, proof, hist, handoverLeft>>
----------------------------------------------------------------------------
(* _refresh_claude_broker_handle and _restore_sdk_after_claude_broker_exit   *)

Refresh(m) ==
    /\ MoverAt(m, "refresh")
    /\ \/ /\ ctx.kind = "sdk" \/ RunningAt(ctx.gen)
          /\ ctx' = [ctx EXCEPT !.away = FALSE]
          /\ Return(m, ctx.kind)
       \/ /\ ctx.kind = "broker" /\ broker.up /\ ~RunningAt(ctx.gen)
          /\ IF MayRestore(m)
             THEN act' = [act EXCEPT ![m].at = "restore", ![m].h = ctx.swaps]
             ELSE Return(m, NotRefreshed)
          /\ UNCHANGED ctx
       \/ /\ ctx.kind = "broker" /\ ~broker.up
          /\ Unavailable(m)
    /\ UNCHANGED <<terminal, children, locks, mirror, turnRead, proof, hist, handoverLeft>>

(* The exit is confirmed, or a TUI of the present broker found.              *)
RestoreChecks(m) ==
    /\ MoverAt(m, "restore")
    /\ IF broker.up
       THEN /\ act' = [act EXCEPT ![m].at = "restore_wait", ![m].g = IF broker.tui THEN broker.gen ELSE 0]
            /\ proof' = IF broker.tui THEN proof ELSE broker.life
            /\ UNCHANGED ctx
       ELSE Unavailable(m) /\ UNCHANGED proof
    /\ UNCHANGED <<terminal, children, locks, mirror, turnRead, hist, handoverLeft>>

RestoreLocked(m) == TakesLock(m, "restore_wait", "restore_locked")

RestoreDecides(m) ==
    /\ MoverAt(m, "restore_locked")
    /\ IF ctx.swaps # act[m].h \/ ~MayRestore(m)
       THEN /\ Return(m, IF ctx.swaps # act[m].h THEN Left ELSE NotRefreshed)
            /\ locks' = [locks EXCEPT !.launch = "none"] /\ UNCHANGED ctx
       ELSE IF act[m].g # 0
            THEN Install("broker", act[m].g) /\ Return(m, "broker")
                 /\ locks' = [locks EXCEPT !.launch = "none"]
            ELSE /\ act' = [act EXCEPT ![m].at = "connecting", ![m].orphan = Orphaned]
                 /\ UNCHANGED <<ctx, locks>>
    /\ UNCHANGED <<terminal, children, mirror, turnRead, proof, hist, handoverLeft>>

SdkConnects(m) ==
    /\ MoverAt(m, "connecting")
    /\ \/ /\ children' = children \cup {"spare"} /\ Go(m, "final_check")
          /\ UNCHANGED <<ctx, locks, handoverLeft>>
       \/ /\ Use("faults")
          /\ Unavailable(m) /\ locks' = [locks EXCEPT !.launch = "none"]
          /\ UNCHANGED children
    /\ UNCHANGED <<terminal, mirror, turnRead, proof, hist>>

(* A claim is overridden by a mover that makes the session idle.             *)
Overridden(c) == IF c.state = "idle" /\ ctx.state # "idle" /\ ctx.msg
                 THEN hist \cup {"unclaimed"} ELSE hist

(* Mutant: the broker is not asked again once the SDK has connected. *)
AskedBefore == "gone"
AskedAgain == IF ~broker.up THEN "unavailable" ELSE IF broker.tui THEN "running" ELSE "gone"

(* A TUI that has appeared meanwhile keeps the session.                      *)
FinalCheck(m) ==
    LET discard == children' = children \ {"spare"} IN
    /\ MoverAt(m, "final_check")
    /\ CASE AskedAgain = "gone" ->
              /\ proof' = broker.life
              /\ Go(m, "publishing")
              /\ ctx' = IF act[m].orphan THEN [ctx EXCEPT !.state = "idle"] ELSE ctx
              /\ hist' = Overridden(ctx')
              /\ mirror' = IF act[m].orphan THEN [mirror EXCEPT !.active = FALSE] ELSE mirror
              /\ UNCHANGED <<children, locks>>
         [] AskedAgain = "running" ->
              /\ discard
              /\ Install("broker", broker.gen) /\ Return(m, "broker")
              /\ locks' = [locks EXCEPT !.launch = "none"]
              /\ UNCHANGED <<proof, mirror, hist>>
         [] OTHER ->
              /\ discard
              /\ Unavailable(m) /\ locks' = [locks EXCEPT !.launch = "none"]
              /\ UNCHANGED <<proof, mirror, hist>>
    /\ UNCHANGED <<terminal, turnRead, handoverLeft>>

PublishesSdk(m) ==
    /\ MoverAt(m, "publishing")
    /\ children' = {"published"}
    /\ ctx' = [ctx EXCEPT !.kind = "sdk", !.gen = 0, !.swaps = @ + 1, !.away = FALSE, !.writing = FALSE]
    /\ mirror' = [mirror EXCEPT !.active = FALSE]
    /\ locks' = [locks EXCEPT !.launch = "none"]
    /\ Return(m, "sdk")
    /\ UNCHANGED <<terminal, turnRead, proof, hist, handoverLeft>>
----------------------------------------------------------------------------
(* The watch loop: adoption of live TUIs, then the poll of the transcript,   *)
(* under the watch lock; the preflight of a query polls as well.             *)

LoopAdopts ==
    /\ MoverAt("loop", "rest")
    /\ ctx.kind = "sdk" /\ ctx.state = "idle"
    /\ act' = [act EXCEPT !["loop"].at = "discover", !["loop"].to = "poll"]
    /\ UNCHANGED <<terminal, ctx, children, locks, mirror, turnRead, proof, hist,
                   handoverLeft>>

PollStarts(m) ==
    /\ m \in {"loop", "lane"}
    /\ MoverAt(m, "poll") \/ (m = "loop" /\ MoverAt(m, "rest"))
    /\ locks.watch = "none"
    /\ locks' = [locks EXCEPT !.watch = m]
    /\ Go(m, "scanned")
    /\ UNCHANGED <<terminal, ctx, children, mirror, turnRead, proof, hist, handoverLeft>>

(* The claim of a query; the task is created after the state has been told.  *)
QueryClaimed(c) == [c EXCEPT !.state = "running", !.msg = TRUE]
PollEnds(m, c) ==
    /\ locks' = [locks EXCEPT !.watch = "none"]
    /\ Go(m, IF m = "loop" THEN "rest" ELSE "claimed")
    /\ ctx' = IF m = "loop" THEN c ELSE QueryClaimed(c)

(* Rows of an SDK session are ClaudeWatch's.                                 *)
PollSees(m) ==
    /\ MoverAt(m, "scanned")
    /\ IF ctx.kind = "broker"
       THEN /\ mirror' = [seen |-> Len(bounds),
                          active |-> IF Len(bounds) > mirror.seen THEN TailActive ELSE mirror.active]
            /\ act' = [act EXCEPT ![m].at = "refresh", ![m].to = "settle"]
            /\ UNCHANGED <<ctx, locks>>
       ELSE PollEnds(m, ctx) /\ UNCHANGED mirror
    /\ UNCHANGED <<terminal, children, turnRead, proof, hist, handoverLeft>>

(* With no managed turn the state follows the transcript.                    *)
Settled ==
    IF ctx.task # "none" THEN ctx
    ELSE IF ~mirror.active THEN [ctx EXCEPT !.state = "idle"]
    ELSE [ctx EXCEPT !.state = IF @ = "idle" THEN "running" ELSE @]

Settles(m) ==
    /\ MoverAt(m, "settle")
    /\ PollEnds(m, Settled)
    /\ hist' = Overridden(Settled)
    /\ UNCHANGED <<terminal, children, mirror, turnRead, proof, handoverLeft>>
----------------------------------------------------------------------------
(* The lane: _handle_query                                                   *)

Query ==
    /\ MoverAt("lane", "rest") /\ ctx.state = "idle" /\ MoverAt("task", "rest")
    /\ Use("queries")
    /\ act' = [act EXCEPT !["lane"].to = "capture",
                 !["lane"].at = IF ctx.kind = "broker" THEN "refresh"
                                ELSE IF IdleForAdoption THEN "discover" ELSE "capture"]
    /\ UNCHANGED <<terminal, ctx, children, locks, mirror, turnRead, proof, hist>>

(* The kind of the handle chooses the task; the broker is asked once more.   *)
Captures ==
    /\ MoverAt("lane", "capture")
    /\ IF ctx.state # "idle" THEN act' = [act EXCEPT !["lane"] = Resting]
       ELSE act' = [act EXCEPT !["lane"].kind = ctx.kind, !["lane"].to = "ready",
                      !["lane"].at = IF ctx.kind = "broker" THEN "refresh" ELSE "poll"]
    /\ UNCHANGED <<terminal, ctx, children, locks, mirror, turnRead, proof, hist, handoverLeft>>

(* The state is not looked at again before the claim.                        *)
Claims ==
    /\ MoverAt("lane", "ready")
    /\ ctx' = QueryClaimed(ctx) /\ Go("lane", "claimed")
    /\ UNCHANGED <<terminal, children, locks, mirror, turnRead, proof, hist, handoverLeft>>

CreatesTask ==
    /\ MoverAt("lane", "claimed")
    /\ ctx' = [ctx EXCEPT !.task = act["lane"].kind]
    /\ act' = [act EXCEPT !["lane"] = Resting,
                 !["task"].at = "launch", !["task"].kind = act["lane"].kind]
    /\ turnRead' = [NoRead EXCEPT !.from = Len(bounds)]
    /\ UNCHANGED <<terminal, children, locks, mirror, proof, hist, handoverLeft>>
----------------------------------------------------------------------------
(* The task: _run_claude_broker_turn; _run_turn of the SDK is ClaudeWatch's  *)
(* and here only its launch and its end.                                     *)

TaskLocked == TakesLock("task", "launch", "launching")

(* A prompt for the other kind of handle fails before it is written.         *)
Submits ==
    /\ MoverAt("task", "launching")
    /\ locks' = [locks EXCEPT !.launch = "none"]
    /\ \/ /\ act["task"].kind = "broker" /\ ctx.kind = "broker" /\ broker.up /\ broker.tui
          /\ prompts' = Append(prompts, "remote")
          /\ IF RunningAt(ctx.gen)
             THEN Go("task", "draining") /\ UNCHANGED turnRead
             ELSE Go("task", "failed") /\ turnRead' = [turnRead EXCEPT !.how = "told_failed"]
          /\ UNCHANGED ctx
       \/ /\ act["task"].kind = "sdk" /\ ctx.kind = "sdk"
          /\ ctx' = [ctx EXCEPT !.writing = TRUE]
          /\ Go("task", "draining")
          /\ UNCHANGED <<prompts, turnRead>>
       \/ /\ act["task"].kind # ctx.kind \/ (ctx.kind = "broker" /\ ~(broker.up /\ broker.tui))
          /\ Go("task", "failed")
          /\ turnRead' = [turnRead EXCEPT !.how = "unsent"]
          /\ UNCHANGED <<prompts, ctx>>
    /\ UNCHANGED <<broker, doing, bounds, children, mirror, proof, hist, handoverLeft>>

(* Drain of a broker turn: its status, and the boundaries after its offset.  *)
DrainFails ==
    /\ MoverAt("task", "draining") /\ act["task"].kind = "broker"
    /\ ~RunningAt(ctx.gen)
    /\ turnRead' = [turnRead EXCEPT !.how = "lost"]
    /\ Go("task", "failed")
    /\ UNCHANGED <<terminal, ctx, children, locks, mirror, proof, hist, handoverLeft>>

(* Mutant: the end of any turn ends this one. *)
AnyEnd(b, started) == b.what = "end"
EndsIt(b, started) == b.what = "end" /\ started

DrainReads ==
    LET b == bounds[turnRead.from + 1] IN
    /\ MoverAt("task", "draining") /\ act["task"].kind = "broker"
    /\ turnRead.from < Len(bounds)
    /\ turnRead' = [from |-> turnRead.from + 1, start |-> turnRead.start \/ b.what = "start",
                    how |-> IF EndsIt(b, turnRead.start) THEN b.by ELSE "none"]
    /\ hist' = IF b.what = "start" /\ b.by = "terminal" THEN hist \cup {"overtaken"} ELSE hist
    /\ IF turnRead'.how # "none" THEN Go("task", "closing") ELSE UNCHANGED act
    /\ UNCHANGED <<terminal, ctx, children, locks, mirror, proof, handoverLeft>>

SdkTurnEnds ==
    /\ MoverAt("task", "draining") /\ act["task"].kind = "sdk"
    /\ Go("task", "closing")
    /\ UNCHANGED <<terminal, ctx, children, locks, mirror, turnRead, proof, hist, handoverLeft>>

(* close_turn; a failed broker turn then looks at the broker.                *)
Closes ==
    /\ MoverAt("task", "failed") \/ MoverAt("task", "closing")
    /\ ctx' = [ctx EXCEPT !.state = "idle"]
    /\ act' = [act EXCEPT !["task"].to = "unwind",
                 !["task"].at = IF MoverAt("task", "failed") /\ act["task"].kind = "broker"
                                   /\ ctx.kind = "broker" THEN "refresh" ELSE "unwind"]
    /\ UNCHANGED <<terminal, children, locks, mirror, turnRead, proof, hist, handoverLeft>>

Unwinds ==
    /\ MoverAt("task", "unwind")
    /\ ctx' = [ctx EXCEPT !.task = "none", !.msg = FALSE, !.writing = FALSE]
    /\ act' = [act EXCEPT !["task"] = Resting]
    /\ turnRead' = NoRead
    /\ UNCHANGED <<terminal, children, locks, mirror, proof, hist, handoverLeft>>

HandoverNext ==
    \/ TuiOpens \/ TuiCloses \/ BrokerDies \/ BrokerStarts \/ UserTypes \/ TuiBegins \/ TuiFinishes
    \/ \E m \in Movers : \/ Discover(m) \/ AdoptLocked(m) \/ AdoptRevalidates(m) \/ Adopts(m)
                         \/ Refresh(m) \/ RestoreChecks(m) \/ RestoreLocked(m) \/ RestoreDecides(m)
                         \/ SdkConnects(m) \/ FinalCheck(m) \/ PublishesSdk(m)
    \/ LoopAdopts \/ \E m \in Movers : PollStarts(m) \/ PollSees(m) \/ Settles(m)
    \/ Query \/ Captures \/ Claims \/ CreatesTask
    \/ TaskLocked \/ Submits \/ DrainFails \/ DrainReads \/ SdkTurnEnds \/ Closes \/ Unwinds

HandoverSpec == HandoverInit /\ [][HandoverNext]_handoverVars
----------------------------------------------------------------------------
(* Types; the launch lock is held by the mover that is inside it.            *)
HandoverTypeOK ==
    /\ children \subseteq {"published", "spare"}
    /\ ctx.state \in {"idle", "running"} /\ ctx.kind \in {"sdk", "broker"}
    /\ mirror.seen <= Len(bounds) /\ turnRead.from <= Len(bounds)
    /\ locks.launch # "none" =>
         act[locks.launch].at \in {"adopt_locked", "disconnecting", "restore_locked", "connecting",
                                 "final_check", "publishing", "launching"}

(* The session has one writer: an SDK child is published exactly if it is    *)
(* what is installed, and a TUI that runs beside it was started after the    *)
(* broker had proved that the one before it was gone.                        *)
OneWriter ==
    /\ ctx.kind = "sdk" <=> "published" \in children
    /\ "spare" \in children => \E m \in Movers : MoverAt(m, "final_check") \/ MoverAt(m, "publishing")
    /\ ctx.kind = "sdk" /\ ctx.swaps > 0 /\ broker.tui => broker.life > proof

(* A prompt is drained through the handle it was sent through: no other      *)
(* mover replaces it meanwhile.                                              *)
TurnKeepsHandle == MoverAt("task", "draining") => act["task"].kind = ctx.kind

(* A managed turn that is told to have succeeded was the remote prompt's,    *)
(* unless the terminal began a turn after the task had looked at the size of *)
(* the transcript.                                                           *)
OwnTurnEnds == turnRead.how = "terminal" => "overtaken" \in hist

(* The session is not idle while a managed turn is being drained, unless the *)
(* watch loop took a claim in progress for a turn of the terminal.           *)
DrainedIsBusy == MoverAt("task", "draining") => ctx.state = "running" \/ "unclaimed" \in hist

HandoverSafe == HandoverTypeOK /\ OneWriter /\ TurnKeepsHandle /\ OwnTurnEnds /\ DrainedIsBusy
=============================================================================
