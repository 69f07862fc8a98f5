------------------------------ MODULE BrokerTui ------------------------------
(* One Claude TUI behind the broker's pseudo-terminal: bytes typed at an     *)
(* attached terminal, prompts and interrupts of remote clients, and remote   *)
(* changes of the model and of the permission mode, all through one ordered  *)
(* input queue; and what the broker learns back from the TUI's output and    *)
(* from the transcript it writes.                                            *)
(*                                                                           *)
(* Source: claude_broker/session.py.  The TUI itself is external: it reads   *)
(* keys in order, cycles its mode on Shift-Tab, may ask for a confirmation   *)
(* before it changes the model, and writes a row of the transcript some time *)
(* after it has painted a change.                                            *)
EXTENDS Integers, Sequences, SequencesExt, FiniteSets

CONSTANT TuiBudgets \* bounds: how many chunks are typed, prompts or interrupts sent,
                    \* controls requested and idle timeouts run out in a behaviour

ASSUME TuiBounds ==
    TuiBudgets \subseteq [keys : Nat, prompts : Nat, controls : Nat, expiries : Nat]

InputFrames == 2                                \* INPUT_QUEUE_FRAMES
ConfirmAttempts == 1                            \* MODEL_CONFIRM_MAX_ATTEMPTS
Cycle == <<"default", "plan", "bypass">>        \* _permission_cycle()
TuiModes == Range(Cycle)
TuiModels == {"opus", "sonnet"}
NoKey == "nothing"

VARIABLES
    tui,        \* external: authors of the unfinished line, its command, the mode,
                \* the model, the model a confirmation is open for, rows to write
    pty,        \* keys written to the pseudo-terminal and not yet read by the TUI
    painted,    \* output of the TUI not yet read by the broker
    jsonl,      \* rows of the transcript
    inq,        \* _input_queue; its head is being written
    lockq,      \* holder and waiters of _control_lock
    chunk,      \* the terminal's chunk in write_terminal_input
    composing,  \* _terminal_composing
    busy,       \* _control_in_progress
    tail,       \* the modes painted in _control_output
    knownMode,  \* permission_mode and model of the broker's metadata
    knownModel,
    ctl,        \* the control request being served
    answered,   \* what the last control request was answered
    watchAt,    \* offset of _watch_transcript_controls
    fetched,    \* rows its thread has read and it has not yet adopted
    native,     \* _native_pending_control
    guardLost,  \* history: the composing guard was given up on an unfinished line
    overheard,  \* history: a mode was painted into a control's output after its
                \* row had already been adopted
    mistaken,   \* history: the kinds of control that took the result of an earlier
                \* change for their own and were wrong about the TUI
    tuiLeft     \* what the bounds leave

tuiGhosts == <<guardLost, overheard, mistaken>>

tuiVars == <<tui, pty, painted, jsonl, inq, lockq, chunk, composing, busy, tail,
             knownMode, knownModel, ctl, answered, watchAt, fetched, native, tuiGhosts,
             tuiLeft>>

NoControl == [pc |-> "idle", kind |-> "mode", target |-> "plan", rowsAt |-> 0,
              outAt |-> 0, tries |-> 0, seen |-> {}, raced |-> FALSE]

TuiInit ==
    /\ tui = [line |-> {}, cmd |-> NoKey, mode |-> "default", model |-> "opus",
              dialog |-> NoKey, due |-> <<>>]
    /\ pty = <<>> /\ painted = <<>> /\ jsonl = <<>> /\ inq = <<>> /\ lockq = <<>>
    /\ chunk = NoKey /\ composing = FALSE /\ busy = FALSE /\ tail = <<>>
    /\ knownMode = "default" /\ knownModel = "opus"
    /\ ctl = NoControl /\ answered = NoKey
    /\ watchAt = 0 /\ fetched = <<>> /\ native = NoKey
    /\ guardLost = FALSE /\ overheard = FALSE /\ mistaken = {}
    /\ tuiLeft \in TuiBudgets

Key(by, key) == [by |-> by, key |-> key]
Room == Len(inq) < InputFrames
PutInput(by, keys) ==
    inq' = Append(inq, [by |-> by, keys |-> [i \in DOMAIN keys |-> Key(by, keys[i])]])
InputBusy == busy \/ composing \/ inq # <<>>
----------------------------------------------------------------------------
(* The TUI (external).                                                       *)

SetModel(m) == [tui EXCEPT !.model = m, !.line = {}, !.cmd = NoKey, !.dialog = NoKey,
                           !.due = @ \o <<[is |-> "command", of |-> m],
                                          [is |-> "done", of |-> m]>>]

ReadKey ==
    LET k == Head(pty)
        paint(label) == painted' = Append(painted, label)
    IN
    /\ pty # <<>>
    /\ pty' = Tail(pty)
    /\ CASE k.key = "tab" /\ tui.dialog = NoKey ->
              LET i == CHOOSE j \in DOMAIN Cycle : Cycle[j] = tui.mode
                  next == Cycle[(i % Len(Cycle)) + 1]
              IN  /\ tui' = [tui EXCEPT !.mode = next,
                                        !.due = Append(@, [is |-> "mode", of |-> next])]
                  /\ paint(next)
         [] k.key = "enter" /\ tui.dialog # NoKey ->
              tui' = SetModel(tui.dialog) /\ paint("screen")
         [] k.key = "enter" /\ tui.dialog = NoKey /\ tui.cmd # NoKey ->
              /\ \/ tui' = SetModel(tui.cmd)
                 \/ tui' = [tui EXCEPT !.dialog = tui.cmd, !.line = {}, !.cmd = NoKey]
                 \/ tui' = [tui EXCEPT !.line = {}, !.cmd = NoKey,
                                       !.due = @ \o <<[is |-> "command", of |-> tui.cmd],
                                                      [is |-> "refused", of |-> tui.cmd]>>]
              /\ paint("screen")
         [] k.key = "enter" /\ tui.dialog = NoKey /\ tui.cmd = NoKey ->
              tui' = [tui EXCEPT !.line = {}] /\ UNCHANGED painted
         [] k.key = "ctrlc" ->
              /\ tui' = [tui EXCEPT !.line = {}, !.cmd = NoKey, !.dialog = NoKey]
              /\ UNCHANGED painted
         [] k.key \in TuiModels \cup {"text"} /\ tui.dialog = NoKey ->
              /\ tui' = [tui EXCEPT !.line = @ \cup {k.by},
                          !.cmd = IF @ = NoKey /\ tui.line = {} /\ k.key # "text"
                                  THEN k.key ELSE NoKey]
              /\ UNCHANGED painted
         [] OTHER -> UNCHANGED <<tui, painted>>     \* an arrow, or ignored by a dialog
    /\ UNCHANGED <<jsonl, inq, lockq, chunk, composing, busy, tail, knownMode,
                   knownModel, ctl, answered, watchAt, fetched, native, tuiGhosts, tuiLeft>>

WriteRow ==
    /\ tui.due # <<>>
    /\ jsonl' = Append(jsonl, Head(tui.due))
    /\ tui' = [tui EXCEPT !.due = Tail(@)]
    /\ UNCHANGED <<pty, painted, inq, lockq, chunk, composing, busy, tail, knownMode,
                   knownModel, ctl, answered, watchAt, fetched, native, tuiGhosts, tuiLeft>>
----------------------------------------------------------------------------
(* Input: the queue, the terminal and the remote prompts.                    *)

(* One item is written; whoever waits for its completion goes on.            *)
WriteItem ==
    /\ inq # <<>>
    /\ pty' = pty \o Head(inq).keys
    /\ inq' = Tail(inq)
    /\ CASE Head(inq).by = "terminal" ->
              chunk' = NoKey /\ lockq' = Tail(lockq) /\ UNCHANGED ctl
         [] Head(inq).by = "control" ->
              ctl' = [ctl EXCEPT !.pc = "await"] /\ UNCHANGED <<chunk, lockq>>
         [] OTHER -> UNCHANGED <<chunk, lockq, ctl>>
    /\ UNCHANGED <<tui, painted, jsonl, composing, busy, tail, knownMode, knownModel,
                   answered, watchAt, fetched, native, tuiGhosts, tuiLeft>>

(* A terminal owning the keyboard sends a chunk; it waits behind a control.  *)
TypeChunk ==
    /\ chunk = NoKey /\ tuiLeft.keys > 0
    /\ chunk' \in {"text", "enter", "arrow", "tab", "sonnet"}
    /\ tuiLeft' = [tuiLeft EXCEPT !.keys = @ - 1]
    /\ lockq' = Append(lockq, "terminal")
    /\ UNCHANGED <<tui, pty, painted, jsonl, inq, composing, busy, tail, knownMode,
                   knownModel, ctl, answered, watchAt, fetched, native, tuiGhosts>>

(* _track_terminal_composition: any escape sequence ends the line it tracks. *)
ComposingAfter(k) ==
    IF k \in {"enter", "arrow", "tab"} THEN FALSE ELSE TRUE

GuardDropped(k) == composing /\ k \in {"arrow", "tab"}

(* A chunk finds the queue full only if remote prompts filled it.            *)
EnqueueChunk ==
    /\ lockq # <<>> /\ Head(lockq) = "terminal"
    /\ \A i \in DOMAIN inq : inq[i].by # "terminal"
    /\ composing' = ComposingAfter(chunk)
    /\ guardLost' = (guardLost \/ GuardDropped(chunk) \/ (~Room /\ ~ComposingAfter(chunk)))
    /\ IF Room THEN PutInput("terminal", <<chunk>>) /\ UNCHANGED <<chunk, lockq>>
       ELSE chunk' = NoKey /\ lockq' = Tail(lockq) /\ UNCHANGED inq
    /\ UNCHANGED <<tui, pty, painted, jsonl, busy, tail, knownMode, knownModel, ctl,
                   answered, watchAt, fetched, native, overheard, mistaken,
                   tuiLeft>>

ComposeExpires ==
    /\ composing /\ tuiLeft.expiries > 0
    /\ composing' = FALSE
    /\ guardLost' = TRUE
    /\ tuiLeft' = [tuiLeft EXCEPT !.expiries = @ - 1]
    /\ UNCHANGED <<tui, pty, painted, jsonl, inq, lockq, chunk, busy, tail, knownMode,
                   knownModel, ctl, answered, watchAt, fetched, native, overheard,
                   mistaken>>

(* A prompt is refused while a line is unfinished or a control is open.      *)
(* Mutant: an unfinished line is not looked at. *)
PromptOverLine == ~busy

MaySubmit == ~composing /\ ~busy

SubmitText ==
    /\ tuiLeft.prompts > 0
    /\ tuiLeft' = [tuiLeft EXCEPT !.prompts = @ - 1]
    /\ MaySubmit /\ Room
    /\ PutInput("remote", <<"text", "enter">>)
    /\ UNCHANGED <<tui, pty, painted, jsonl, lockq, chunk, composing, busy, tail,
                   knownMode, knownModel, ctl, answered, watchAt, fetched, native, tuiGhosts>>

(* The composing flag is cleared even when the queue then refuses the byte.  *)
InterruptTui ==
    /\ tuiLeft.prompts > 0
    /\ tuiLeft' = [tuiLeft EXCEPT !.prompts = @ - 1]
    /\ ~busy
    /\ composing' = FALSE
    /\ guardLost' = (guardLost \/ ~Room)
    /\ IF Room THEN PutInput("remote", <<"ctrlc">>) ELSE UNCHANGED inq
    /\ UNCHANGED <<tui, pty, painted, jsonl, lockq, chunk, busy, tail, knownMode,
                   knownModel, ctl, answered, watchAt, fetched, native, overheard,
                   mistaken>>
----------------------------------------------------------------------------
(* Output and transcript, as observed outside a control.                     *)

RowsAfter(offset) == Range(SubSeq(jsonl, offset + 1, Len(jsonl)))

(* Mode labels are looked at in all of the kept output, when no control is   *)
(* reading it.                                                               *)
ReadPainted ==
    /\ painted # <<>>
    /\ painted' = Tail(painted)
    /\ tail' = IF Head(painted) = "screen" THEN tail ELSE Append(tail, Head(painted))
    /\ knownMode' = IF busy \/ tail' = <<>> THEN knownMode ELSE Last(tail')
    /\ ctl' = IF ctl.pc = "await" /\ ctl.kind = "model"
              THEN [ctl EXCEPT !.outAt = 1] ELSE ctl
    /\ overheard' = (\/ overheard
                     \/ /\ busy /\ Head(painted) # "screen"
                        /\ \A r \in Range(tui.due) \cup RowsAfter(watchAt) : r.is # "mode")
    /\ UNCHANGED <<tui, pty, jsonl, inq, lockq, chunk, composing, busy, knownModel,
                   answered, watchAt, fetched, native, guardLost, mistaken, tuiLeft>>

WatchRows ==
    /\ ~busy /\ fetched = <<>> /\ watchAt < Len(jsonl)
    /\ fetched' = SubSeq(jsonl, watchAt + 1, Len(jsonl))
    /\ UNCHANGED <<tui, pty, painted, jsonl, inq, lockq, chunk, composing, busy, tail,
                   knownMode, knownModel, ctl, answered, watchAt, native, tuiGhosts, tuiLeft>>

(* _adopt_transcript_records, one row: a command is paired with the row that *)
(* follows it.                                                               *)
AdoptRow(s, row) ==
    CASE row.is = "mode" -> [s EXCEPT !.mode = row.of, !.native = NoKey]
      [] row.is = "command" -> [s EXCEPT !.native = row.of]
      [] row.is = "done" /\ s.native # NoKey ->
           [s EXCEPT !.model = s.native, !.native = NoKey]
      [] OTHER -> [s EXCEPT !.native = NoKey]

(* The rows are adopted when the thread returns, whatever began meanwhile.   *)
AdoptRows ==
    LET after == FoldLeft(AdoptRow, [mode |-> knownMode, model |-> knownModel,
                                     native |-> native], fetched)
    IN
    /\ fetched # <<>>
    /\ watchAt' = watchAt + Len(fetched)
    /\ fetched' = <<>>
    /\ knownMode' = after.mode /\ knownModel' = after.model /\ native' = after.native
    /\ UNCHANGED <<tui, pty, painted, jsonl, inq, lockq, chunk, composing, busy, tail,
                   ctl, answered, tuiGhosts, tuiLeft>>
----------------------------------------------------------------------------
(* Control requests: set_model (set_effort is alike) and set_permission_mode. *)

RequestControl ==
    /\ ctl.pc = "idle" /\ tuiLeft.controls > 0
    /\ \E kind \in {"mode", "model"} :
       \E target \in IF kind = "mode" THEN TuiModes ELSE TuiModels :
          ctl' = [NoControl EXCEPT !.pc = "lock", !.kind = kind, !.target = target,
                                   !.seen = {knownMode}]
    /\ answered' = NoKey
    /\ tuiLeft' = [tuiLeft EXCEPT !.controls = @ - 1]
    /\ lockq' = Append(lockq, "control")
    /\ UNCHANGED <<tui, pty, painted, jsonl, inq, chunk, composing, busy, tail,
                   knownMode, knownModel, watchAt, fetched, native, tuiGhosts>>

(* The request ends, the lock passes on.                                     *)
Answer(what) ==
    /\ answered' = what
    /\ ctl' = [ctl EXCEPT !.pc = "idle"]
    /\ lockq' = Tail(lockq)
    /\ busy' = FALSE

TakeControlLock ==
    /\ ctl.pc = "lock" /\ Head(lockq) = "control"
    /\ CASE ctl.kind = "mode" /\ knownMode = ctl.target -> Answer("ok")
         [] ctl.kind = "model" /\ InputBusy -> Answer("refused")
         [] OTHER -> /\ ctl' = [ctl EXCEPT !.pc = "cursor", !.seen = {knownMode}]
                     /\ UNCHANGED <<answered, lockq, busy>>
    /\ UNCHANGED <<tui, pty, painted, jsonl, inq, chunk, composing, tail, knownMode,
                   knownModel, watchAt, fetched, native, tuiGhosts, tuiLeft>>

(* The end of the transcript is looked up in a thread.                       *)
FetchCursor ==
    /\ ctl.pc = "cursor"
    /\ ctl' = [ctl EXCEPT !.pc = "begin", !.rowsAt = Len(jsonl)]
    /\ UNCHANGED <<tui, pty, painted, jsonl, inq, lockq, chunk, composing, busy, tail,
                   knownMode, knownModel, answered, watchAt, fetched, native, tuiGhosts,
                   tuiLeft>>

(* An earlier Shift-Tab, of the terminal or of a request that timed out, has *)
(* not been seen, or its row falls behind the cursor of this request; or so  *)
(* has an earlier change to the model that is asked for now.                 *)
TabDue ==
    \/ \E i \in DOMAIN pty : pty[i].key = "tab"
    \/ Range(painted) \cap TuiModes # {}
    \/ \E r \in Range(tui.due) \cup RowsAfter(watchAt) \cup RowsAfter(ctl.rowsAt) :
          r.is = "mode"

SameModelDue ==
    \/ \E i \in DOMAIN pty : pty[i].key = ctl.target
    \/ ctl.target \in {tui.cmd, tui.dialog}
    \/ [is |-> "command", of |-> ctl.target] \in Range(tui.due) \cup RowsAfter(ctl.rowsAt)

(* A model change is refused if input came in during the lookup; a mode      *)
(* change is not, it follows whatever was queued.                            *)
BeginControl ==
    /\ ctl.pc = "begin"
    /\ IF ~Room \/ (ctl.kind = "model" /\ InputBusy)
       THEN Answer("refused") /\ UNCHANGED inq
       ELSE /\ busy' = TRUE
            /\ ctl' = [ctl EXCEPT !.pc = "queued",
                            !.outAt = IF ctl.kind = "mode" THEN Len(tail) ELSE 0,
                            !.raced = IF ctl.kind = "mode" THEN @ \/ TabDue
                                      ELSE SameModelDue]
            /\ PutInput("control", IF ctl.kind = "mode" THEN <<"tab">>
                                   ELSE <<ctl.target, "enter">>)
            /\ UNCHANGED <<answered, lockq>>
    /\ UNCHANGED <<tui, pty, painted, jsonl, chunk, composing, tail, knownMode,
                   knownModel, watchAt, fetched, native, tuiGhosts, tuiLeft>>

NewRows == SubSeq(jsonl, ctl.rowsAt + 1, Len(jsonl))

(* _control_records_outcome: the command with this target, and the row right *)
(* after it.                                                                 *)
ModelOutcome(rows) ==
    LET at == {i \in DOMAIN rows : rows[i] = [is |-> "command", of |-> ctl.target]}
        first == CHOOSE i \in at : \A j \in at : i <= j
    IN  IF at = {} \/ first = Len(rows) THEN NoKey
        ELSE IF rows[first + 1].is = "done" THEN "ok"
        ELSE "refused"

ModelConfirmed ==
    /\ ctl.pc = "await" /\ ctl.kind = "model"
    /\ ModelOutcome(NewRows) # NoKey
    /\ Answer(ModelOutcome(NewRows))
    /\ knownModel' = IF ModelOutcome(NewRows) = "ok" THEN ctl.target ELSE knownModel
    /\ mistaken' = IF ctl.raced /\ ModelOutcome(NewRows) = "ok" /\ tui.model # ctl.target
                   THEN mistaken \cup {"model"} ELSE mistaken
    /\ UNCHANGED <<tui, pty, painted, jsonl, inq, chunk, composing, tail, knownMode,
                   watchAt, fetched, native, guardLost, overheard, tuiLeft>>

(* Output that has gone quiet without a result is taken for the native       *)
(* confirmation, and its default is submitted.                               *)
ConfirmDialog ==
    /\ ctl.pc = "await" /\ ctl.kind = "model"
    /\ ModelOutcome(NewRows) = NoKey
    /\ ctl.outAt = 1 /\ painted = <<>> /\ ctl.tries < ConfirmAttempts
    /\ ctl' = [ctl EXCEPT !.pc = "queued", !.tries = @ + 1]
    /\ PutInput("control", <<"enter">>)
    /\ UNCHANGED <<tui, pty, painted, jsonl, lockq, chunk, composing, busy, tail,
                   knownMode, knownModel, answered, watchAt, fetched, native, tuiGhosts,
                   tuiLeft>>

(* The mode a Shift-Tab led to: the last label painted since, if it changed, *)
(* else the first row written since.                                         *)
StepLabels == SubSeq(tail, ctl.outAt + 1, Len(tail))
StepRows == SelectSeq(NewRows, LAMBDA r : r.is = "mode")

(* Mutant: rows written before the step count as well. *)
AnyModeRow ==
    LET rows == SelectSeq(jsonl, LAMBDA r : r.is = "mode")
    IN  IF StepLabels # <<>> /\ Last(StepLabels) # knownMode THEN Last(StepLabels)
        ELSE IF rows # <<>> THEN Head(rows).of
        ELSE NoKey

StepApplied ==
    IF StepLabels # <<>> /\ Last(StepLabels) # knownMode THEN Last(StepLabels)
    ELSE IF StepRows # <<>> THEN Head(StepRows).of
    ELSE NoKey

(* The step ends; the next one begins with another lookup of the transcript, *)
(* and until then no control is in progress.                                 *)
ModeStepped ==
    /\ ctl.pc = "await" /\ ctl.kind = "mode"
    /\ StepApplied # NoKey
    /\ knownMode' = StepApplied
    /\ mistaken' = IF ctl.raced /\ StepApplied # tui.mode
                   THEN mistaken \cup {"mode"} ELSE mistaken
    /\ CASE StepApplied = ctl.target -> Answer("ok")
         [] StepApplied # ctl.target /\ StepApplied \in ctl.seen -> Answer("refused")
         [] OTHER -> /\ ctl' = [ctl EXCEPT !.pc = "cursor", !.seen = @ \cup {StepApplied}]
                     /\ busy' = FALSE
                     /\ UNCHANGED <<answered, lockq>>
    /\ UNCHANGED <<tui, pty, painted, jsonl, inq, chunk, composing, tail, knownModel,
                   watchAt, fetched, native, guardLost, overheard, tuiLeft>>

ControlTimesOut ==
    /\ ctl.pc = "await"
    /\ Answer("refused")
    /\ UNCHANGED <<tui, pty, painted, jsonl, inq, chunk, composing, tail, knownMode,
                   knownModel, watchAt, fetched, native, tuiGhosts, tuiLeft>>

TuiNext ==
    \/ ReadKey \/ WriteRow \/ WriteItem
    \/ TypeChunk \/ EnqueueChunk \/ ComposeExpires \/ SubmitText \/ InterruptTui
    \/ ReadPainted \/ WatchRows \/ AdoptRows
    \/ RequestControl \/ TakeControlLock \/ FetchCursor \/ BeginControl
    \/ ModelConfirmed \/ ConfirmDialog \/ ModeStepped \/ ControlTimesOut

TuiSpec == TuiInit /\ [][TuiNext]_tuiVars
----------------------------------------------------------------------------
(* Types; a control holds the lock while it is served.                       *)
TuiTypeOK ==
    /\ tui.line \subseteq {"terminal", "remote", "control"}
    /\ tui.mode \in TuiModes /\ tui.model \in TuiModels
    /\ knownMode \in TuiModes /\ knownModel \in TuiModels
    /\ Len(inq) <= InputFrames
    /\ ctl.pc \in {"cursor", "begin", "queued", "await"} => Head(lockq) = "control"
    /\ busy <=> ctl.pc \in {"queued", "await"}

(* Nobody's text is appended to a line someone else has not finished, as     *)
(* long as the guard of unfinished lines was not given up (by the timeout,   *)
(* or by a cursor key or a focus report, which end the line for the guard).  *)
LinesAreWhole == ~guardLost => Cardinality(tui.line) <= 1

(* When nothing is on its way any more, what the broker reports of the TUI   *)
(* and offers the next control is what the TUI is set to, whoever changed    *)
(* it and whatever controls failed meanwhile, unless a mode was overheard or *)
(* a change of this kind took the result of an earlier one for its own.      *)
TuiQuiet ==
    /\ pty = <<>> /\ painted = <<>> /\ tui.due = <<>> /\ inq = <<>>
    /\ watchAt = Len(jsonl) /\ fetched = <<>> /\ ctl.pc = "idle"

QuietMetadataIsTrue ==
    TuiQuiet => /\ overheard \/ "mode" \in mistaken \/ knownMode = tui.mode
                /\ "model" \in mistaken \/ knownModel = tui.model

TuiSafe == TuiTypeOK /\ LinesAreWhole /\ QuietMetadataIsTrue

(* Of a mode the TUI went to the broker has not read the label or not        *)
(* adopted the row.                                                          *)
ModeUnseen ==
    \/ Range(painted) \cap TuiModes # {}
    \/ \E r \in Range(tui.due) \cup RowsAfter(watchAt) : r.is = "mode"

(* A control is answered with success only when the TUI is set as asked.     *)
(* Success without a step, because the mode known to the broker is the one   *)
(* asked for, is told of a mode the TUI is not in only while a change is     *)
(* unseen, or once a mode was overheard or a mode change was mistaken.  A    *)
(* step that began before an earlier Shift-Tab was seen may take that one    *)
(* for its own, and a change of the model the result of an earlier one to    *)
(* the same model (raced).                                                   *)
ConfirmedIsTrue ==
    [][answered # "ok" /\ answered' = "ok" =>
          CASE ctl.kind = "model" -> tui.model = ctl.target \/ ctl.raced
            [] ctl.kind = "mode" /\ ctl.pc = "lock" ->
                 tui.mode = ctl.target \/ ModeUnseen \/ overheard \/ "mode" \in mistaken
            [] OTHER -> tui.mode = ctl.target \/ ctl.raced]_tuiVars
=============================================================================
