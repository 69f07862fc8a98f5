# A TLA+ model of cc-remote

cc-remote lets a browser (or a terminal client, or an Android app) drive Claude
Code and Codex sessions that run on another machine. A *wrapper* process next to
the engines owns the sessions, a *relay* on a public host forwards frames, and
the *page* keeps a view of every session. Both hops are WebSockets that come and
go; the wrapper can be restarted at any time; nothing is retransmitted by the
transport. What makes the product usable is that the page nevertheless shows the
whole conversation and that a command typed on a train is executed once.

This directory models that machinery in TLA+, model-checks it with TLC and
proves parts of it with TLAPS. Sections: [inventory](#inventory),
[modules](#modules), [runs](#runs), [fairness](#fairness), [proofs](#proofs),
[disagreements](#where-code-and-documentation-disagree),
[limits](#what-is-not-modelled), [plan](#plan).

## Inventory

`wrapper/` stands for `src/cc_remote/wrapper/`, `relay/` for
`src/cc_remote/relay/`, `web/` for `src/web/src/`. The wrapper and the relay are
single-threaded asyncio programs: state changes between two `await`s are atomic,
anything may happen across an `await`. The page is a single-threaded event loop.

| component | state | operations | hard behaviour | correct when |
|---|---|---|---|---|
| Session event stream and replay ring (`wrapper/ringbuffer.py`, `session_ctx.py`, `machine.py` `_emit`) | ring of events, byte count, logical tail, highest dropped number; `ctx.seq`, `emit_lock` | emit, append with eviction, `replay_from`, `current_turn_replay` | two limits that evict together; an event larger than the budget; gaps not at the head | bookkeeping exact, limits kept, every cursor answered truthfully |
| Reconnect catch-up (`web/ws.ts`, `relay/pairing.py`, `wrapper/transport.py`, `_handle_client_hello`) | cursor, generation and rebuild flag per session; send queue and inbox; registered clients | hello, snapshot, replay envelope, live events, wrapper_reconnected | lost links and sockets in every order, restart with the old cursor, session evicted and re-spawned, routed answers for an older socket | view ordered, no unannounced gap, page catches up |
| Reliable command channel (`web/outbox.ts`, `ws.ts`, `_process_command*`) | outbox; dedupe LRU with cached responses; tables of running off-lane tasks | issue, resend, dedupe, handle, ACK | lost ACK, retry overtaking its first delivery, LRU bound, handler that raises, restart | at most once per wrapper lifetime, ACK only for what returned, every command acknowledged |
| Work schedules (`src/cc_remote/workspaces.py`, `_work_schedule_loop`) | SQLite schedule and run rows; tasks and heartbeats | create, delete, claim, start, renew, complete | lease expiry, suspended machine, restart, deletion during a run | no overlap, bounded attempts, every occurrence covered by one run, nothing left behind |
| Turn lifecycle (`machine.py` `_handle_query`, `_run_turn`, `_handle_interrupt`, `wrapper/codex_handle.py`, `sdk.py`) | `ctx.state`, `turn_task`, `interrupt_event`, `interrupt_deadline`, spontaneous turn; notification queues of the Codex handle | query, interrupt, automatic turns, drain timeout, queued prompts | claim after awaits, turn that starts by itself, turn that ends before its reader exists, stop that never ends | one managed turn at a time, stop reaches it, session always unlocks |
| Wrapper transport (`wrapper/transport.py`) | byte-bounded queue, link generation, inbox | send with backpressure, receive, drain | drain while a put waits, frame of an older link taken by the next sender | limits kept, no frame crosses links, nobody waits for ever |
| Relay hub (`relay/pairing.py`, `forward.py`) | wrapper slot per machine, clients per machine, outbound queues | wrapper and client hello, forward, revoke, drop slow client | half-open predecessor, revocation during a hello, full queue | newest uplink speaks, answers reach who asked, a revoked or ended socket leaves, a gap closes the socket |
| Login, registry, pairing (`relay/server.py`, `auth.py`, `devices.py`, `client_pairing.py`) | sessions, login limiter, codes, grants, devices | log in, pair, redeem, revoke | expiry, single use, limits | single use, revocation is final |
| Web push (`relay/push.py`) | subscriptions | subscribe, notify, remove | a logout or a new subscription between the read of the rows and the delivery | only a live session's subscription is notified, and none is lost |
| Session pool (`machine.py` `_spawn`, `_spawn_btw`, `_capture_session_id`, delete, list; `session.py`) | `sessions`, `focused_sid`, aliases, tombstones of private forks | spawn, switch, create, side sessions, delete, evict, rekey, list | an eviction or a claim across an await, a fork's transcript written before its id is told, provisional keys, crash | limit kept, one engine process per session, no running session evicted, a key reaches its own session, forks stay private |
| Session control and ownership (`codex_external.py`, `claude_external.py`, `process_scan.py`, `claude_controls.py`) | watch per session: holders, markers, offset; `needs_reload`, takeover sets | poll, prime, take over, reload, hand over to a broker terminal | a scan, a stat and a prompt in any order; a turn that cannot be attributed yet | no prompt beside a native writer or over rows not read; a takeover covers what it was granted over |
| History pages (`history_store.py`, `codex_sessions.py`, `web/history-merge.ts`, `history-requests.ts`, `recoverable-read.ts`) | materialised index, revisions, requests in flight | read page, merge, retry | late answer, revision changed under a read, index row of an older source | once quiet, the page shows the conversation; painted turns stay |
| Work registry and files (`workspaces.py`, `work_context.py`, `source_fetch.py`) | project, source and session rows, files | create, delete, materialise | partial file writes | files match rows |
| Rollback journal (`rollback_commands.py`, `claude_rewind.py`) | durable intents and outcomes | intent, submit, complete, recover | crash with unknown outcome | each half mutated at most once, a recorded result is final |
| Fork journals and worktrees (`codex_forks.py`, `claude_forks.py`, `codex_worktrees.py`) | durable fork correlations | fork, correlate, clean up | fork whose answer was lost | one child per request, an error only if no child is on record |
| Codex checkpoints (`codex_checkpoints.py`) | file snapshots per turn | record, restore | restore interrupted half-way, capture lost, foreign turns | records aligned with the thread; somebody's edit is never overwritten |
| Ask-user and approvals (`ask.py`, `_on_ask`) | pending futures | ask, answer, time out | answer against timeout and end of turn | consent only from an answer to that request, one reply, to who asked |
| Stream translation (`codex_stream.py`, `stream.py`, `sanitize.py`) | per-turn translator: open message, cards, budgets per appended field, items | started, delta, completed, error, end | notifications that are lost, late or alone; three limits that forget | every message ends, no text twice, an honest end, bounded output |
| Codex daemon and RPC (`codex_daemon.py`, `codex_rpc.py`, `engine_capabilities.py`) | processes, one-shot requests | discover, request | timeouts | bounded |
| Terminal broker (`src/cc_remote/claude_broker/`) | PTY input queue, composing guard, mode and model; table of sessions, subscriptions, control store | attach, type, submit, change mode or model, resume, prune | a line being typed, a change that times out after it was applied, overlapping resumes, a slow terminal | lines stay whole, success is true, an attached terminal misses nothing silently |
| Reducer and queue drain (`web/reducer.ts`, `runtime-drain.ts`, `App.tsx`) | runtimes, queued prompts | apply event, drain | acceptance lost, idle events around a reconnect | each prompt sent once |
| Terminal client (`src/cc_remote/tui.py`), Android pager (`src/android-native/`) | as the page | as the page | as the page | as the page |
| Deployment, packaging, configuration, protocol schemas, presentation | files | install, parse, render | — | — |

Who talks to whom: the page sends commands and hellos to the relay, which
forwards them to the wrapper of the chosen machine; the wrapper takes them from
its inbox one at a time (a few reads and slow mutations run as coalesced
background tasks); handlers emit events through `_emit`, which stamps, buffers
and sends them under the session's `emit_lock`; the relay fans events out to all
pages of the machine, or routes a frame addressed with `to` and `route_id` to
one socket. Schedules run entirely inside the wrapper, next to that protocol.

## Modules

| module | models |
|---|---|
| `RingBuffer` | the ring as a record and its methods as operators: `RingAppend`, `ReplayFrom`, `CurrentTurnReplay` |
| `SessionRing` | a session that emits into its ring: one action, `Emit`, for `_emit_locked` |
| `SessionReplay` | page, relay, wrapper and one session: catch-up |
| `CommandPromise` | what the command channel promises, without page, relay and wrapper |
| `CommandDelivery` | page, relay and wrapper: the command channel, which implements `CommandPromise` |
| `LossyLink` | what the transport promises: a FIFO that is lost with its link and starts with the hello |
| `LinkQueue` | the wrapper's transport, which implements `LossyLink` |
| `RelayHub` | the hub of one machine: client sockets and queues, wrapper slot, revocation |
| `RelayAccess` | sessions, grants, pairing codes, devices, push subscriptions |
| `LoginLimiter` | the sliding login limit |
| `WorkSchedules` | schedule tables, the claim loop, the tasks it starts |
| `CodexHandle` | what a Codex handle knows of the turns of its app-server, its calls and notifications as operators |
| `TurnLifecycle` | one Codex session: command loop, managed turns, automatic turns, stdout reader, app-server |
| `ClaudeWatch` | a Claude session beside native CLIs: scan, growth, takeover, the preflight of a prompt |
| `CodexWatch` | a Codex session beside native TUIs and the App: turn markers, takeover, the preflight |
| `ClaudeHandover` | a Claude session that moves between the SDK and a terminal of the broker |
| `UserQuestions` | what an engine asks the user, and the answers |
| `RollbackJournal` | the durable journal of rollbacks and the handler that drives it |
| `CodexCheckpoints` | file checkpoints of a Codex session, restore and recovery |
| `ForkJournal` | fork journals, handlers and reconcilers of both engines |
| `HistoryPages` | transcript reads, index, revision, and what the page does with an answer |
| `BrokerTui` | one terminal of the broker: typed bytes, prompts, mode and model changes |
| `BrokerSessions` | the broker's sessions, attachments, launches and stored modes |
| `SessionPool` | the wrapper's pool: switch, create, side sessions, delete, evict, rekey, list |
| `CodexStream` | the translator of one live Codex turn |
| `SessionRingProofs`, `BackgroundProofs`, `JournalProofs`, `RelayProofs`, `TurnProofs`, `WatchProofs`, `StreamProofs`, `InductionLemmas` | theorems, see [proofs](#proofs) |
| `MCReplay`, `MCCommandDelivery`, `MCSessionRing`, `MCBackground`, `MCTurns`, `MCRelay`, `MCStores`, `MCHistoryRevision` | instances for TLC |

`SessionReplay` extends `RingBuffer`, so the same ring operators that
`SessionRing` is proved about answer the hellos there. `MCBackground`,
`MCTurns`, `MCRelay` and `MCStores` put components that share no state into one
run: a variable chosen initially names the component a behaviour exercises, the
others keep their initial state, so the state space is the sum and not the
product of theirs. Where components do share state, one module models both.
Definitions whose comment is "mutant" are deliberately wrong versions of the
definition that follows them; no specification uses them, they document which
bug each property would notice.

### RingBuffer and SessionRing

A ring is `[buf, bytes, tail, dropped]`, the four fields of the class; an event
is its number, its serialized size and whether it is a `user_msg`. The eviction
loop of `append` is `EvictCount`: the least number of events to drop at which
the loop condition is false. `ReplayFrom` and `CurrentTurnReplay` return the
envelope (range, truncation flag, events) or, for `CurrentTurnReplay`, the set
of at most one envelope, since the code may return no frames.

### SessionReplay

State by owner: the wrapper's `gen` (its `instance_id`), `booting`, `resident`,
`ring`, `turn`; the transport's `link`, `sendQ`, `inbox`; the relay's `conn` and
`down` (the page's registered socket and the queue to it); the page's `cur`,
`cgen`, `rebuilding`, `view`. The remaining variables are history: `ep` numbers
the incarnations of the ring, `base` and `vep` say which events the page's
transcript page stands for, `overtaken` and `respawned` record the two known
causes of a loss.

| action | code |
|---|---|
| `EmitUser`, `EmitDelta`, `EmitIdle` | `_emit` from `_run_turn` and `_set_state` |
| `HandleClientHello` | the whole handler: one snapshot and, by generation and cursor, a rebuild envelope, a replay, or a current-turn replay, routed to the asking socket |
| `Evict`, `Respawn` | eviction for the pool limit in `_spawn`, `_handle_switch_session` with `_load_history` |
| `Restart`, `Boot` | a new wrapper process; `run()` connects the transport before the command loop starts |
| `LinkDown`, `LinkUp` | `WrapperTransport._run`: queues are drained when the link goes; the wrapper's hello goes first on a new link |
| `Relay` | `_on_wrapper_msg`: announcement, routed frame, broadcast |
| `Connect`, `Disconnect` | the page's socket, registered with its hello |
| `Receive` | `ws.onmessage`: generation, rebuild, stale-frame test, cursor |

### CommandPromise and CommandDelivery

`CommandPromise` has four variables (issued, done in this lifetime, done in some
lifetime, acknowledged) and says: completed only if issued, at most once in a
lifetime unless it is a read, acknowledged only if completed. `CommandDelivery`
has the outbox, the two hops with their queues, the wrapper's inbox, its running
handlers and its dedupe LRU. A command is a model value; the constants say which
are reads (`SAFE_RETRY_COMMANDS`) and which run off-lane. `TakeCommand` is the body of
the command loop up to the first await of the handler: the dedupe test, the
serial-lane test, the coalescing of off-lane tasks. `Respond`, `Finish` and
`Fail` are the handler's send, its return (remember, then ACK) and its
exception. The refinement is `acked <- Acked`, the issued commands that have
left the outbox.

### WorkSchedules

Each store method is one SQLite transaction and one action: `Create`, `Delete`,
`ClaimDue` (sweep of expired leases, queueing of due occurrences, claims, all in
one), `Start` (`mark_schedule_running`), `Renew`, `Complete`. A run is an
occurrence of a schedule (`UNIQUE(schedule_id, scheduled_for)`), a task is an
attempt at a run. Wall-clock values are abstracted to the comparisons the
queries make: `passed` (how many occurrences of a schedule have come due), `leased`,
`available`. Time passes whether or not anybody claims, so occurrences pile up while
the wrapper is down or a run is long. Such repeats are missed on purpose: the claim
inserts one run, for the occurrence `next_run_at` stands for, and moves `next_run_at`
past everything that has come due (`Skipped`, `workspaces.py:687-690`); the others
get no row. `NoOccurrenceLost` therefore does not promise a run for each occurrence.
With the history variable `through`, the last occurrence that had come due when a
run was queued, it says that every occurrence behind `next_run_at` is covered by
exactly one run, queued after it came due: its own, or the one late run that stands
for it. `Start` merges `mark_schedule_running` with the begin of the turn, although
awaits lie between them (`machine.py:2140-2159`): a schedule deleted there has its
run marked already, so `DeletedNeverStarts` speaks of the mark, not of the prompt. `Lapse` lets a lease pass only when
no task minds the run, since a heartbeat renews a 90 s lease every 30 s;
`Suspend` (the machine sleeps while the wall clock goes on) and `HeartbeatFails`
(a renewal raises, which ends the heartbeat but not the turn) are the two ways a
lease passes under a living task, and are bounded by `MaxStalls`. `Crash` is a
wrapper process that stops, which also covers an orderly shutdown, as the tasks
are cancelled without completing their runs.

### CodexHandle and TurnLifecycle

A Codex app-server may start a turn by itself, while the wrapper is about to
start one, is finishing one, or is stopping one. `CodexHandle` is the handle as
a record: `turn_active`, `turn_start_pending`, `turn_id`, the managed stream and
the spontaneous one. A stream is abstracted to whether its terminal frame, or
the sentinel of a closed connection, is in it; which of several frames a full
queue drops is not.

`TurnLifecycle` has the fields of `SessionContext` (`state`, `event`, `active`,
`turnTask`, `spont`, `spTask`) and the program counters of the tasks that share
them. An action is what runs between two awaits.

| actions | code |
|---|---|
| `CheckQuery`, `AbandonQuery`, `ClaimQuery`, `CreateTask` | `_handle_query`: test, preflight with awaits, claim and announcement, task |
| `Stop`, `StopIsOver`, `RequestStop`, `FinishStop` | `_handle_interrupt` with `launch_lock`, `interrupt()` |
| `EnterLaunch` to `LeaveLaunch` | `_run_turn` inside `launch_lock`: marker, aborts, `query()`, acceptance; `Revive` is the reconnect inside `query()` |
| `Attach`, `Consume`, `TimeOut`, `Reconnect`, `Unlock`, `Unwind` | `_run_turn` after it: reader, drain deadline, `_set_idle_after_managed_turn`, `finally` |
| `Follow`, `Anchor`, `AttachAuto`, `ConsumeAuto`, `Finish`, `UnlockAuto` | `_run_codex_spontaneous_turn`, `_finish_codex_spontaneous_turn` |
| `DispatchResponse`, `DispatchStarted`, `DispatchCompleted`, `DispatchEof` | `_dispatch` and the end of `_read_loop`, with `_on_codex_turn_lifecycle` |
| `ServeStart`, `ServeStop`, `ServeEnd`, `ServeAuto`, `Exit`, `RequestTimesOut` | the app-server (external) and its failures |

`ctx.emit_lock` appears as `CanEmit`: while the claim announces the running
state, no other task of the session can send. A send queued before the claim
commutes with it, so it is modelled before it. The queue between the reader task
and the consumer of `_run_turn` is merged into the stream.

A session has windows that the code leaves open. `causes` records, as a history
variable, which of them an execution went through, and each property names the
ones it does not survive: `early` (a query claims the session after the unlock
and before the `finally` of the former turn, which a history repair delays),
`crossed` (an automatic turn starts during the preflight, or ends between claim
and task), `ignored` (a second automatic turn starts while the first is being
recorded, and the session does not follow it), `absorbed` and `renamed` (an
automatic turn starts while `turn/start` is answered, and its id is taken for,
or replaced by, the managed one). Every one of them is needed, except that a
property that holds without it does not name it: `StopEnds` survives all but
`crossed`.

### LinkQueue and LossyLink

`_ByteQueue` with both limits, the producers that wait in `put`, the generation
of the socket, the sender that discards what carries another generation, the
receiver with its bounded inbox, the loss of the socket and the drain. The
hello that `on_connected` sends is a producer of its own (`HelloTask`).
`LossyLink` has two variables, the queue and what was delivered, and is
implemented with `lq <- what the sender would still deliver`. `crammed` records
the one way a sender may wait for ever: a hello that meets a queue still full of
stale frames while nobody takes frames (`transport.py:157-163`).

### RelayHub, RelayAccess, LoginLimiter

`RelayHub` is single-threaded and no body of its lock awaits, so an action is
what runs between two awaits: `Accept`, `Register` (capacity, half-open
predecessor), `StopPredecessor`, `BeginForward` and `EndForward` of a client
frame, `SenderStep` of a socket's queue, `Broadcast` and `DropNext` for slow
clients, `WrapperHello`, `Authorize`, `Vacates`, `LiveFrame` and `RoutedFrame`,
`RevokeRow` with `DisconnectWrapper`, and the guard that ends a socket with its
session. A route id is one socket, a client id is what its hello says.
`swallowed` records a stop whose cancellation the sender's `stop()` swallowed.
`RelayAccess` has requests that check their session first and act after an
await, one-time grants in memory, one-time codes and devices in SQLite, and the
delivery of a push notice in its steps (rows read, session checked, sent,
endpoint reported gone, row removed). `LoginLimiter` is the deque per address as a sequence of
times, with both sizes and the clean-up.

### ClaudeWatch, CodexWatch, ClaudeHandover

Three views of who writes a transcript. In each the watch loop, the lane of the
session's commands and the task of its turn have program counters of their own
and meet at the locks the code has (`_codex_watch_lock`, `launch_lock`).
`ClaudeWatch` has the transcript as rows with a provenance, the offset of the
watch, what the SDK read when it last connected, and the writer published to
pages. `CodexWatch` has the rollout as turn markers; the id of one of our turns
is negative, that of a foreign one positive, and the code only compares ids;
our app-server has the turn it runs and a queue of markers it has yet to write
(`mine.due`), so that a marker may be read before its turn is announced or long
after it has ended; markers that may still be ours wait (`Waits`) until the
app-server announces them. `Outcome` is one classification, with the code's order
inside it: markers that waited come first, a captured TUI that they give its
ownership back counts for those behind, then come the new ones. `ClaudeHandover` has the handle installed in the context, the terminal of
the broker with its generation, and the managed turn that reads the terminal's
transcript. Where the code leaves a window open the module has a history
variable (`raced`, `unclaimed`, `guardLost`, ...) set exactly in that window, and
the property names it.

### UserQuestions

Tasks by the order of their creation; each belongs to a request of the
app-server (or to a tool or model confirmation) and asks up to `FormLength`
questions. Registration, the send of the question, its answer, deadline,
cancellation and the reply are separate steps, because each awaits. Request ids
may be used again by the next app-server, which is what `RepliesMatch` is about.

### RollbackJournal, CodexCheckpoints, ForkJournal

`RollbackJournal`: an entry per command moves none, intent, submitted,
uncertain, complete; one transaction under the file lock is one step, a save may
fail before or after the file was replaced, a native call may lose its answer,
the process may die anywhere and two processes may share the directory.
`damaged` is set when somebody removes the files. `CodexCheckpoints`: the
manifest, what the context holds of it and the worktree are one record, an
operation of the journal maps it to the set of its outcomes; `gaps` records the
cases in which nothing was noted of a turn. `ForkJournal`: entries with aliases,
the handler's steps, the reconciler that looks for the marker, and the answers
told to the page; it covers both engines by `forkEngine`.

### HistoryPages

The transcript is an append-only log in which 0 takes the last turn away; a
source fingerprint is a length. A build captures revision, build number and live
sequence before it reads, may answer from the index, reads, writes the index and
sends, with a step for each await. The page has its turns, cursor, revision,
generation and request in flight, and applies `history`, `history_invalidated`
and `replay_start` with the reducer's early returns. A request joins the pending one
for the same page unless that was asked for another revision or has timed out
(`AskNewest`, `AttemptTimesOut`: 15 s without an answer, which may still come later),
and all requests that joined one read get its answer. A failed answer is repaired
once (`RepairsAfter`, `RepairRead`, `recoverable-read.ts`): the first schedules one
read, a second one after that read ends the cycle. `gaveUp` records that this
happened, so that `QuietPageIsCurrent` can say what it does not promise: the page then
stays as it is, invalid too, until the user comes back to it, the connection is made
again, or something newer is answered. TLC found a second way: the repair is keyed
by session, page and revision but not by the build, so a success of an older build
cancels the repair of a newer failure.

### BrokerTui, BrokerSessions

`BrokerTui`: the composing guard that follows typed bytes, the ordered input
queue with its completion futures, `set_model` and `set_permission_mode` with
their confirmation by rows or painted labels and their time-outs, and the watch
that adopts rows. The TUI itself is external: it reads keys in order, cycles its
mode on Shift-Tab, and writes rows some time after it painted a change.
`BrokerSessions`: `create` of a resumed transcript, with the pruning of exited
sessions (as many as make room, oldest exit first) that stays when the start is refused
or fails, and the await in which an exited session of the same id is closed; exit;
subscriptions with a bounded queue behind a snapshot of recent output, keyboard
ownership, and the control store. A pump that already waits for an event gets it even
if the very broadcast it comes from overflows the queue; the model tells the overflow
at once, because one broadcast of as many chunks as a queue holds does not fit the
kernel's PTY buffer.

### SessionPool

A context is a number and keeps its key, its first key, its native session, its
turns and whether its engine process lives; `wrote` is the native session its engine
writes, which Claude tells only later (`sid`). `pool`, `focus`, `aliases` and `tombs`
are the fields of the machine, `disk` what is kept in files. Commands of pages run
one after the other (`act["lane"]`), one scheduled run (`act["runner"]`), the turns
and the listing beside them.

| actions | code |
|---|---|
| `CommandBegins`, `RunBegins` | the command loop, `_run_work_schedule` |
| `SwitchFinds`, `ComesIntoView`, `SideOpens` | `_handle_switch_session`, `_handle_new_session`, `_handle_open_btw` |
| `SpawnChecks`, `EvictedCloses`, `SpawnConnects`, `SpawnFails`, `SpawnReturns` | `_spawn` and `_spawn_btw`: limit, eviction, connect, history |
| `QueryFinds`, `QueryClaims`, `RunQueries`, `RunOver` | `_handle_query` across its preflight, and the run that waits for its turn |
| `ClaudeWrites`, `LearnsId`, `Rekeys`, `ForkHidden`, `ForkNotHidden`, `TurnOver` | `_capture_session_id` during a turn, the alias and tombstone files |
| `DeleteFinds`, `DeleteStops`, `DeleteRemoves`, `CloseBegins`, `CloseForgets` | `_handle_delete_session`, `_handle_close_btw`, `_delete_private_btw` |
| `ListBegins`, `ListReads`, `ListFilters`, `ListSends` | `_handle_list_sessions` |
| `Restart` | a new process: files, leftovers of forks, the saved session |

`odd` is history and marks what the code lets go astray: `orphans` (a context whose
turn was claimed after it had left the pool, or that was deleted with a turn),
`doubled` (a session resumed from a listing before the context that writes it has
learned its id), `strayed` (what is in view is not resident), `exposed` (forks whose
side session ended before their id was known, and what a listing that overlaps their
opening or closing has found), `unsure` (an alias that could not be written).

### CodexStream

`tr` has the fields of `CodexStreamTranslator`; `page`, which is history, is what the
events it returned leave a page with: messages begun and ended, whose text was shown
whole or in pieces, cards used and done, what was appended, the end of the turn. An
action is one notification with whatever the translator makes of it, and it may be any
notification at any time: the queue in front drops some when it is full. A text is
its length.


## Runs

One run per question; a module that only refines a detail of another, or shares
no state with others, shares a run where its state space allows. "violation"
runs show a disagreement between a documented promise and the code.

| run | bounds | properties | shows |
|---|---|---|---|
| `replay` | ring of 1 event, 2 events per incarnation; an eviction with a lost link, or a restart with two sockets | `ReplaySafe`, `QuietMeansCaughtUp`, `CatchesUp` | catch-up across every pair of failures; the page ends on the running generation, not behind |
| `replay_overlap` | ring and sequence of 3, 1 lost link | `NoSilentLoss` (violation) | live frame between hello and answer |
| `replay_respawn` | 1 eviction | `CursorWithinTail` (violation) | re-spawn announced without a rebuild |
| `commands` | 3 commands of each kind, outbox 1, LRU 2, two mishaps among a lost link, a lost socket, a restart and a raising handler | `DeliverySafe`, `KeepsPromise`, `DeliveryEnds` | refinement of `CommandPromise`, at most once, nothing waits for ever |
| `background` | schedules: a repeating and a one-shot one, 2 occurrences, 2 attempts, 1 stall, 1 restart; link: 3 producers, frames of 1, 2 and 3 bytes against a budget of 2, 2 lost sockets, inbox 1 | `WorkSafe`, `SuccessIsFinal`, `DeletedNeverStarts`, `SchedulesSettle`, `LinkTypeOK`, `LinkIsLossyFifo`, `EverySendReturns` | leases, attempts, deletion; the transport is the lossy FIFO |
| `schedules_overlap` | 1 suspension | `NoOverlap` (violation) | two turns of one schedule at once |
| `turns` | Codex: 3 inputs (`MaxInputs`) among 2 queries, 1 automatic turn, 1 stop, 1 exit or time-out; the budgets of the other six parts are the cases of `MCTurns` | `TurnsSafe`, `LaunchSteps`, `WatchSafe`, `HandoverSafe`, `CodexWatchSafe`, `TuiSafe`, `ConfirmedIsTrue`, `SessionsSafe`, `QuestionsSafe` | one turn at a time, one writer at a time, a terminal whose input never mixes, true consent, outside the named windows (1.6 million states) |
| `turns_liveness` | 1 query, 2 automatic turns, 1 stop, 1 exit | `TurnsEnd` | nothing keeps the session locked |
| `turns_alone` | 2 queries, 1 automatic turn | `TurnsAreAlone` (violation) | two managed turns at once |
| `relay` | 2 pages, 2 wrapper sockets, queue of 1, 1 fault; 3 sessions of 2 users, one token of each kind, 1 restart; 3 addresses over 4 ticks | `HubSafe`, `HubSteps`, `AccessSafe`, `SubscriptionKept`, `LimiterSafe` | slots, routing and ends of sockets; single use; the limit |
| `stores` | ring: 3 events, 5 bytes, sizes 1, 2, 4, 6; rollback: 2 commands, 2 processes, room for 1, 1 fault; checkpoints: 2 files, 3 turns, 2 foreign writes, 2 records, 1 fault; forks: 2 requests, 1 fault; the budgets of history and pool are the cases of `MCStores`; pool: 2 resident sessions, 1 secret fork, 4 contexts, up to 3 commands with a listing, a scheduled run, a fault or a crash; stream: 2 messages, 1 tool, 1 other item, 5 notifications, room for 3 items | `RingSafe`, `TurnReplayHonest`, `RollbackSafe`, `ResultIsFinal`, `CheckpointSafe`, `RestoreSteps`, `ForksSafe`, `ErrorHidesNoFork`, `HistorySafe`, `PaintedTurnsStay`, `PoolSafe`, `StreamSafe` | what the wrapper keeps survives crashes, retries and lost answers (1.5 million states) |
| `history_revision` | 3 turns, 1 rollback, 3 builds, no fault | `NewRevisionIsNewContent` (violation) | a read between bump and mutation |

What each listed invariant is made of:

- `RingSafe`: `RingTypeOK`, `NothingLostAboveDropped`, `WithinBudget`, `ReplayExact`.
- `ReplaySafe`: `ReplayTypeOK`, `AppliedOrdered` (excused when a live frame of a
  later lifetime has overtaken an answer, `overtaken /\ gen > 1`), `LossHasKnownCause`.
- `DeliverySafe`: `DeliveryTypeOK`, `AtMostOnce`, `PendingRemembered`;
  `DeliveryEnds`: `EveryCommandAcked`, `EveryResponseArrives`.
- `WorkSafe`: `SchedulesSafe` (`SchedulesTypeOK`, `AttemptsBounded`,
  `NoOccurrenceLost`) and `RunnersSafe` (`LeasesExclude`, `RunnerKeepsRow`);
  `SchedulesSettle`:
  `EveryRunSettles`, `TombstonesGo`.
- `TurnsSafe`: `TurnTypeOK`, `OneManagedTurn`, `UnlockedMeansFree`,
  `TurnsDoNotNest`; `LaunchSteps`: `LaunchYields`, `LaunchOverwritesNothing`,
  `LaunchOwnsMarker`; `TurnsEnd`: `SessionUnlocks`, `StopEnds`.
- `WatchSafe`: `SentAlone`, `SentUpToDate`, `ControlIsHonest`; `CodexWatchSafe`:
  `LaunchedAlone`, `LaunchedUpToDate`, `TakeoverIsExact`, `OursIsOurs`;
  `HandoverSafe`: `OneWriter`, `TurnKeepsHandle`, `OwnTurnEnds`, `DrainedIsBusy`;
  `QuestionsSafe`: `ConsentIsGiven`, `RepliesMatch`, `OthersMayAnswer`,
  `TasksAreKnown`, `AskersWait`; each with its type invariant.
- `HubSafe`: `ServedIsRegistered`, `AnswersStayHome`, `StatusIsTrue`,
  `RevokedDeviceLeaves`; `HubSteps`: `UplinkIsNewest`, `NoGapOnSocket`,
  `EndedSessionSilent`; `AccessSafe`: `TokensWorkOnce`, `NoticesForTheLive`;
  `LimiterSafe`: `WindowIsSliding`, `RefusalsAreEarned`.
- `RollbackSafe`: `MutatedOnce`, `SuccessIsTrue`, `RestoreOrder`;
  `CheckpointSafe`: `RecordsAligned`; `RestoreSteps`: `EditsSurvive`,
  `RestoreIsWhole`; `ForksSafe`: `ForkedOnce`, `OpenForkShared`,
  `JournalReadable`, `ToldIsDurable`, `UnrecordedIsFindable`; `HistorySafe`:
  `IndexTrue`, `QuietPageIsCurrent`, `RemovedTurnsLeave`; `TuiSafe`:
  `LinesAreWhole`, `QuietMetadataIsTrue`; `SessionsSafe`: `TerminalSeesAll`,
  `KeyboardIsOnes`, `OneTuiPerTranscript`, `StoredIsTrue`.
- `PoolSafe`: `PoolTypeOK` with the limit, `OneEngine`, `BusyStaysResident`,
  `KeysReachTheirOwn`, `ForksStayPrivate`; `StreamSafe`: `CardsHang`, `MessagesEnd`,
  `TextOnce`, `HonestEnd`, `AppendsBounded`.

Why the bounds are enough. The ring needs a size for each case of `append`
(several evictions for one append, an event equal to the budget's remainder, one
larger than the budget), which 1, 2, 4 and 6 against 5 give, and more emits than
it holds, twice over. Catch-up is about one page and one session, which share no
state with others except the pool; a ring of one event has a gap after two, and
each failure matters once before and once after an answer, so pairs of failures
meet all orders. The command LRU is 512 against an outbox of 256; what matters
is the factor two, which 2 against 1 keeps. For the schedules two occurrences
show one run behind another, or a repeat that is missed, and two schedules show the
`LIMIT` (safety was also checked with three occurrences, 507,260 states); for turns, two
queries meet as former and next turn of a session, and with one stop and one
failure every pair of the four actors meets in every order (`MaxInputs` leaves
out only behaviours with all four inputs). In the hub two sockets of one client
id show a half-open predecessor and two wrapper sockets a replaced slot. Two
processes and a room of one make the rollback journal full and contended. The
checkpoints were checked apart with four faults over one file, and with three foreign
writes and three faults over two (0.4 and 11.9 million states). Two
forks of one turn are the alias case; fewer requests than the journal holds, so
nothing is compacted. A pool of two is full with the session in view and one
other, so the third evicts; a fourth context leaves room for a re-spawn of the
evicted one or for a restart; the pool's mutants are found with two commands and one
other event. In a turn with room for three items, two messages, a tool and another
one meet all limits. For the history, one case meets a rollback with three builds
(one read before it, its own and one behind a stale index row), one with one build
and a fault, one of a single turn adds the fault to three builds, and one has three
faults, which a failed repair after a lost attempt needs; `QuietPageIsCurrent`
fails there without `gaveUp`. Larger cases were checked apart (a rollback with three
builds and a fault over two turns, or two faults over one: 2.8 and 1.3 million states;
two turns, three builds, two faults; one turn, a rollback, four builds, one fault).
For the questions, a second answer, a restart, and a deadline or an answer of another
client meet two by two (all three were checked apart, and the invariant is proved).
For the Codex watch, two commands meet alone and one beside another event. For the
terminal, three controls, and two controls beside a typed chunk, were checked
apart (13.4 million states). Budgets (`AccessBudgets`, `WatchBudgets`,
`HandoverBudgets`, `CodexBudgets`, `AskBudgets`, `HistoryBudgets`, `TuiBudgets`,
`BrokerBudgets`, `PoolBudgets`)
are records of how often each outside event may happen, and an instance takes
several: each case combines the events that interact. Where a theorem exists it
covers every size.

All runs turn the deadlock check off: the counters that bound failures, events
and occurrences run out, and a wrapper whose queues are empty, with no command
and no turn, does stand still. What must not stand still is a temporal property.

## Fairness

Losses, restarts, evictions, inputs of users and starts of foreign processes are
never fair. Weak fairness is assumed of loops that only await their next input:

- `SessionReplay`, `CommandDelivery`: the page's reconnect loop
  (`scheduleReconnect` retries for ever) and the wrapper's
  (`WrapperTransport._run` is a `while True`), the forwarding loops of relay and
  transports, the command loop, the page's message handler. `CommandDelivery`
  also assumes that a handler that does not raise returns; the code bounds the
  slow ones with timeouts.
- `LinkQueue`: the steps of `_run`, `_sender`, `_receiver` and of a producer
  that was notified.
- `WorkSchedules`: the claim loop scans (every 15 s, its body catches
  exceptions), a claimed task runs to its end and time passes. That a turn ends
  is what the turn's own watchdogs bound; they are not modelled. Nobody need
  create or delete anything.
- `TurnLifecycle`: tasks of the event loop run on, the reader reads, the
  app-server answers requests; not that a turn ever ends, so `SessionUnlocks`
  excuses a session whose turn the app-server still runs.

The other modules have safety properties only.

## Proofs

| module | theorem | says |
|---|---|---|
| `SessionRingProofs` | `RingInvariant`, `RingBookkeeping` | `NothingLostAboveDropped`, for all limits and event sizes |
| | `ReplayIsExact` | truncation is flagged exactly when an event the client misses is not in the envelope |
| | `TurnReplayIsHonest` | `TurnReplayHonest` |
| | `RingTypeCorrect`, `RingWithinBudget`, `RingIsSafe` | `RingSafe` |
| `BackgroundProofs` | `ScheduleInvariant`, `SchedulesTyped`, `StartsAreBounded`, `OccurrencesAreKept`, `SchedulesAreSafe` | `SchedulesSafe` |
| | `DeletedSchedulesStartNothing` | `DeletedNeverStarts` |
| | `RunnersAreSafe`, `WorkIsSafe`, `SuccessesAreFinal` | `RunnersSafe`, `WorkSafe`, `SuccessIsFinal` |
| | `LinkTyped` | `LinkTypeOK` |
| | `LinkRefines` | `LinkIsLossyFifo`: the transport implements `LossyLink` |
| `JournalProofs` | `RollbackEvidence`, `RollbacksAreSafe` | `RollbackSafe` |
| | `ResultsAreFinal` | `ResultIsFinal` |
| | `ForkInvariant`, `ForksAreSafe` | `ForksSafe` |
| | `ErrorsHideNoFork` | `ErrorHidesNoFork` |
| | `DeliveryInvariant`, `FewCommandsAreSafe` | `DeliverySafe`, as long as no more commands were issued than the LRU holds |
| | `PromiseIsKept` | `KeepsPromise`, for a set of commands that fits the LRU |
| | `OnlyTheForgottenRepeats` | a repeat needs more completions than the LRU holds, whatever its size |
| `RelayProofs` | `HubInvariant`, `HubIsSafe`, `HubStepsHold` | `HubSafe`, `HubSteps` |
| | `AccessInvariant`, `AccessIsSafe`, `SubscriptionsAreKept` | `AccessSafe`, `SubscriptionKept` |
| `TurnProofs` | `QuestionsInvariant`, `QuestionsAreSafe` | `QuestionsSafe` |
| | `TurnInvariant`, `TurnsAreSafe` | `TurnsSafe` |
| | `LaunchesHold` | `LaunchSteps` |
| `WatchProofs` | `WatchInvariant`, `WatchIsSafe` | `WatchSafe` |
| | `HandoverInvariant`, `HandoverIsSafe` | `HandoverSafe` |
| | `CodexWatchInvariant`, `CodexWatchIsSafe` | `CodexWatchSafe` |
| `StreamProofs` | `StreamInvariant`, `StreamIsSafe` | `StreamSafe` |
| | `BrokerInvariant`, `SessionsAreSafe` | `SessionsSafe` |
Each proof has the same shape: an invariant, checked by TLC on the run's
instance before it was proved; a lemma or a step per action, and under it one
per conjunct the action can disturb; the temporal step last.

*Ring.* From `RingAssumption` (both limits positive). `RingInv` adds typing to
`NothingLostAboveDropped`; it leaves the byte count out, because the sequence
bookkeeping does not depend on when the eviction loop stops, only on its
dropping a prefix. `EvictCountRange` bounds what the loop drops, `AppendNewest`
shows that the newest event keeps the order. `ReplayIsExact` then follows from
the invariant alone. `TurnReplayHonest` needs `TurnInv`: the turn's start is the
number of the last `user_msg`, and no later event is one. The budget needs
`BudgetInv`, that the incremental byte count is the sum of the retained sizes.
That the sum of a suffix is the difference of two sums is proved by relating
`SizeOf` of a sequence, its prefix and its extension. `EvictionFits` shows that
the loop stops inside both limits; the branch for an oversized event is what
makes its last case, a single event left, fit.

*Schedules.* From `ScheduleAssumption`. `AttemptsBounded` is not inductive: a
claim adds one, so what is claimed must have an attempt left. `QueuedHasAttempt`
says so for rows that were queued before, the sweep and `complete_schedule` test
it, and a new occurrence has attempt 0 because a run without a row was never
claimed (`NoRowNoAttempt`). `NoOccurrenceLost` is proved from `RowsInv`: `next_run_at`
is at most one past what has come due (`NextIsNear`), a run stands for a stretch that
begins with its own occurrence and ends behind `next_run_at` (`RowsStand`), the
stretches of two runs of a schedule are disjoint (`RowsApart`), and together they
reach up to `next_run_at` (`BehindHasRow`). The step that matters is the claim, whose
new run stands for exactly what `Skipped` moves over. `DeletedNeverStarts` needs
that what is claimed belongs to a live schedule (`ClaimedIsLive`), which
`delete_schedule` keeps by deleting claimed rows and the claim by joining the
schedule. For `RunnersSafe`, `RunnerInv` says what a living task holds as long as
no lease passed under one: the task of an executing run has its lease and its
row says running or the schedule was deleted meanwhile, that of a claimed run
its lease unless the schedule was deleted, and a schedule has at most one open run. No bound on crashes or
suspensions is used.

*Transport.* From `LinkAssumption`. `LinkTypeOK` is inductive with its exact byte
count (`InductionLemmas` proves what is needed of sums over sequences without the
library's induction theorems: the set of the numbers up to which a property
holds is all of `Nat`). The refinement needs `LinkInv`:
a hello waits only in front of a queue that nobody empties (`HelloStuck`), a queued
or waiting frame belongs to a link that was open no later than the present one, and
what is being sent to the present one. `LinkRefines` then maps each action to a step
of `LossyLink` or to a stutter.

*Rollback.* From `RollbackAssumption`. `EvidenceOf` says that whatever was
mutated for a command is held by an entry that says at least "submitted", or the
journal is closed for good; `OneOwner` that at most one living process is past
the claim of a command; `Stage` how far its owner has come. A journal whose files
were removed stays closed because a missing marker is recreated empty and an
empty marker is rejected. `ResultsAreFinal` is about each step and needs only the
typing.

*Forks.* From `ForkAssumption`. A failed save may leave the file one journal ahead
of the memory, so `JournalsKept` asks that both be journals that `_load` accepts
(`Good`) and that the file be `Later`: no entry lost, moved to another group or
taken back. Then a crash moves the journal forward too, and each of the three
changes to a journal (begin, mark one entry, settle a group) has a lemma that it
keeps it good. `CallsKept` says that a marker's call was submitted by one handler
and that a rejection in the file means the call was refused or never sent;
`HandlersKept` that a handler works with a child of its own request's group only.
`ForksSafe` follows without looking at a step; `ErrorHidesNoFork` needs one case
for each answer that is an error.

*Relay.* From `HubAssumption` and `AccessAssumption`. Of the hub, `StatusIsTrue`
and `NoGapOnSocket` are far from inductive: what a page gets next depends on what
it was told last, and that on drops that are pending. `PagesTold` says that a page
that waits for no drop was told every broadcast, and one that waits for no drop of
the live wrapper every broadcast since it came; `PagesLinked` that in every queue
each broadcast comes after the one before it. Both speak only of pages that still
hear: who is closed, or has lost its client id, gets nothing more. Whatever closes a
connection does so in one way (`OnlyCloses`), and a broadcast reaches, closes or
leaves for a drop every registered page (`Reached`), so that most steps need only
these two facts. The attempt corrected the model: `NoGapOnSocket` first excused a gap
of exactly two frames, which is what the run's two wrappers can show, but with
three of them a slow page may miss more; what holds is that the frame after the gap
is a status, never a live frame. For `AccessSafe`, a grant that is open has let in
nobody, whoever it let in has a subject (`TokensKept`), and whoever is still on the
way in has left no trace (`NewcomersClean`).

*Questions.* From `AskBounds`, for every set of request ids and every length of a
form. `AskInv` follows one request from the app-server's stdout to its reply: a frame
with a request is the first with its id, nobody has answered it (`Unanswered`), and
it is on its way or with one live task, never both (`OnceAsked`). So whoever replies,
a task or the reader at its limit, is the first, and its process still runs:
`disconnect` waits for the tasks it cancelled before the next process starts
(`LinkFine`). Consent holds because a task only reads answers that pages gave
(`AsksFine`) and a form keeps an answer to every question before the one it asks
(`TaskFine`). `AskersWait` names the one exception in the code, a question whose task
was given up while it was sent, and the proof needs no other.

*Turns.* From `TurnAssumption` and `LifecycleAssumption` (what names turns names
nothing else). `TurnInv` has three layers, each weaker in the races it survives.
`OneTask` says that `turn_task` names the one task of a managed turn; only the query
that claims the session while the last task still ends breaks it (`early`).
`AutoWaits` says that an automatic turn that has claimed the session waits for the
managed turn that runs and keeps the interrupt event set while that one starts, so
that `_run_turn` sees it before it writes `turn/start`; an automatic turn that starts or
ends while a query claims the session breaks it (`crossed`). `HandleFollows`
and `MarkersFine` say that the handle counts a turn only if the session follows it or
a managed turn reads it, and that a marker on the page belongs to a turn that streams;
an automatic turn that starts while the former one is recorded breaks them (`ignored`). The last layer is
what the launch needs: with no other task the handle can only count the turn of a
follower, and there is none.

*Watch.* For all limits on rows, polls and connections. `WatchSafe` is not inductive:
a prompt rests on what a preflight found several awaits earlier, and the pages on a scan
of another actor. `WatchInv` says who holds the probe lock and at which of its awaits,
and who reconnects the SDK (`ProbeHeld`). What the owner knows after the stat is what
that scan found (`ScanTold`), and the pages know it, except while growth is being read
(`PagesKnow`). The core is `UpToDate`: every foreign row below the owner's size is one
the CLI has read, one of the excused (`missed`), or a reload is owed, and the same of a
connection that has read the file and is not published yet. Others only append, above
the size; only the holder of the lock moves the size, and whoever takes it over rows he
has not read leaves the reload or the excuse in the same step.

*Handover.* `HandoverInv` starts with places: a mover is inside the launch lock exactly
where its code is between acquiring and releasing it (`LaunchLocked`). Only the holder
replaces the handle, so a mover that finds the swap count it captured finds the kind it
captured (`HandlesFresh`). A terminal that runs beside the SDK was started after the exit
that let the SDK in (`ProofStands`), and while a turn drains nobody replaces the
handle (`TaskAlone`). A turn that read a start behind its own submission read its own or
was overtaken (`ReadFits`), which rests on boundaries of the terminal coming in pairs
(`BoundsPaired`). The proof does not repeat this for every handler: `StepWithin` says
what any step of one mover may change of the locks, the session, its children and its
turn; each action is shown to lie within it, and `StepKeeps` keeps the invariant once
for all of them.

*Codex watch.* For every set of writers and all budgets. Between two steps of the
lock `CodexInv` says what the owner, the gate and the rollout hold of each other
(`GateFits`, `HoldersFit`, `RolloutFits`); that every start which was read is either
attributed, ended, waiting, excused or a turn of ours (`Followed`); that a foreign
turn which was read and judged is one the app-server knows, one of the excused, or a
reload is owed (`ServerKnows`); that ids of ours are numbered without a gap and the
markers still due are of such ids, each start once (`DueFits`); and that a marker of
ours in the rollout is announced, excused, or of the query the server has not answered,
which then waits (`OursAwaited`). A launch sees the outcome of the preflight's
classification in the same step of the lock, so `LaunchedAlone` and
`LaunchedUpToDate` follow from `Followed` and `ServerKnows`. The attempt corrected
the model in three places that the bounds of the run had not reached. The
app-server's markers had been at most one pair; they are a queue. `OursIsOurs` had been
excused only while a TUI was open: the probe that gives a captured TUI its ownership
back because of a marker that waited also takes an unannounced start of ours, read in
that very probe, as foreign. And such a probe ends the wait of the younger markers too
(`Recalls`), which the model had left waiting.

*Commands.* From `DeliveryAssumption`, with no bound on connections, wrapper lives, lost
links or exceptions. `DeliverySafe` is false when an id can be pushed out of the LRU, so
what is proved is where exactly that begins. `DeliveryInv` types the wires by what may be
on them (an ACK only of what was completed in some lifetime) and says of the memory that
as long as everything this lifetime completed fits, the LRU has all of it, and what is
completed has no task but a read's (`NothingForgotten`). Then only `Finish` can repeat a
command, and a step that repeats one finds more completed than the LRU holds
(`OnlyTheForgottenRepeats`). A page that has issued no more commands than the LRU holds
(512 per client id) never gets there, which gives `FewCommandsAreSafe` and, action by
action, the refinement (`PromiseIsKept`): its hypothesis is on the set of commands,
because the promise has no LRU. To be reasoned about, the module removes an id from the
outbox and the LRU at its place (`Without`; an id is in there once) instead of filtering
with an operator.

*Stream.* From `StreamConstants`. The books of the translator describe the page
(`StreamInv`): a message is on the page if it is started, and all but the open one
have ended (`MessagesBooked`), a card if its tool is (`CardsBooked`); what counts as
visible was shown, and an error is remembered (`ShowingBooked`); whatever was shown
belongs to an admitted item (`ItemsBooked`). The budget is the delicate part: a
finished item's counters are forgotten, so what was appended equals what was spent
only of items that are not finished (`BudgetBooked`), and it stays bounded because a
finished item takes nothing more. That holds because the set of the finished never
overflows, which needs `MaxLiveItems <= MaxFinishedItems`, as the code's two constants
have it (`codex_stream.py:63-64`); with a smaller set the assumption fails and so
does the property. After the end of the turn no step changes the page.

*Broker.* For every set of terminals and transcripts, every limit and every number of
chunks (`BrokerBounds`: `max_sessions`, the queue and the store hold at least one).
`BrokerInv` says what the properties leave out: a TUI whose exit was noticed is dead and
read to its end (`PtyFits`); what waits for a terminal continues what it was shown,
only the last of it can be the exit, and if the terminal still follows, it all adds up
to what was read from the PTY (`TermFits`); who types into the same TUI is the same
terminal (`KeyboardsFit`); the store holds a session once (`EntriesDiffer`). The step
that matters is a broadcast: events that continue what was read (`Brings`) are offered
to a queue that ends where the reading ended, and either all fit or the queue keeps a
prefix without the exit and the subscription is over (`OfferedFits`). Starts, refused
starts and pruning remove only sessions that do not run (`Forgets`, `TableKeeps`,
`SpawnKeeps`), and a store update leaves the modes of the others alone
(`UpdatedStore`). To be reasoned about, the module names what it had folded:
`Offered` is a closed form instead of a fold over the events, and pruning a set
`gone` instead of a loop; on the way the model gained the starts that fail and the
pruning that outlives them.

Only model-checked:

- every liveness property (`CatchesUp`, `DeliveryEnds`, `SchedulesSettle`,
  `EverySendReturns`, `TurnsEnd`): the prover has no rules for liveness under
  fairness;
- `DeliverySafe` and `KeepsPromise` once more commands were issued than the LRU
  holds: they are not true for every value of the constants. With an outbox of
  2 and an LRU of 4, four lost links push a pending id out of the LRU (see
  [below](#where-code-and-documentation-disagree)); the run has one command more
  than its LRU holds, and checks them there;
- what recursive definitions compute for every input, beyond the facts proved by
  the lemmas above;
- `ReplaySafe`, `QuietMeansCaughtUp`, `LimiterSafe`, `CheckpointSafe`,
  `RestoreSteps`, `HistorySafe`, `PaintedTurnsStay`, `TuiSafe`, `ConfirmedIsTrue`,
  `PoolSafe`: their inductive invariants are not written yet.

## Where code and documentation disagree

Five disagreements have a run of their own:

1. `replay_overlap`: a live frame accepted between a hello and its answer moves
   the cursor past the events the answer replays; they are dropped as stale and
   lost, against "nothing is lost" (`transport.py:5-7`).
2. `replay_respawn`: a session re-spawned in one wrapper lifetime is announced by
   a snapshot with the same generation, not by a rebuild, against
   `ws.ts:1270-1271` and `ringbuffer.py:68-71`.
3. `schedules_overlap`: after a suspension of the machine, or one failed
   renewal, a run is claimed again while its task executes, against
   "overlap prevention" (`CHANGELOG.md:102-103`). Its consequences are visible
   in the same model: a late failure requeues a run that succeeded.
4. `turns_alone`: an automatic turn that began during a query's preflight and
   ends between its claim and its task sets the session idle, which admits a
   second query (`machine.py:6504-6507` says this must not happen).
5. `history_revision`: the revision is bumped before the engine removes the turn
   (`machine.py:10092`), so a read that begins in between carries the old
   conversation under the new revision, and the page keeps the removed turn,
   against `machine.py:4062-4064`.

Others show as conditions of properties that hold under them, or as history
variables that excuse a named window:

*Events and commands.* `TurnReplayHonest`: `current_turn_replay` with a message
id answers nothing when the turn's `user_msg` has been evicted
(`ringbuffer.py:138`). A page without a cursor may apply an event twice across a
restart. `PendingRemembered` depends on the number of losses: an id is renewed in
the LRU of 512 only when it is seen again, so after a second full outbox of
acknowledged commands and a third loss a still-pending id may be the oldest; the
factor of two covers about two losses, and `AtMostOnce` beyond the run's bounds
rests on the same condition. Two losses can cost the response of an
acknowledged command, which `EveryResponseArrives` says openly.

*Transport and relay.* A hello on a queue full of stale frames waits for ever
(`crammed`). `stop()` swallows a cancellation (`forward.py:60`), so a socket may
outlive its guard (`swallowed`). A push delivery that found the session of a row ended removes the
row by account and endpoint, so a row that a newer session of that account has put
there meanwhile goes with it (`RemovedByDelivery`). A grant is consumed even when the session
registry is full.

*Turns.* A turn announces idle before it has released the session, and its
`finally` then clears the marks of the turn admitted in between
(`machine.py:13313`). A stop of an automatic turn has no deadline, although
`machine.py:5319-5323` relies on one. `TombstonesGo`: a schedule deleted while
its run executes is never removed when the wrapper stops before completing it
(`workspaces.py:599`, `704`).

*Journals.* A sequential Claude rewind that stops half-way has a result
`_normalize_result` rejects, so it is recorded as uncertain. Two wrapper
processes can tell two results of one rollback. A worktree fork keeps no
journal; a Codex fork whose source directory is unknown gets a final error even
if it was submitted; a crash between claim and request leaves a fork
"submitted". A checkpoint journal that cannot be opened when a foreign turn is
noticed is not retired (`machine.py:3742` says it is).

*History.* A stale append page drops a turn that has just completed until the
refresh; merging a head window can leave a hole; overlapping reads may briefly
drop mirrored turns; a gap while a rollback's revision is awaited lets one older
page be accepted. `blind` marks these. A page whose read and whose one repair
failed stays invalid although nothing is in flight (`recoverable-read.ts:29-32`), and
an older success cancels the repair of a newer failure
(`recoverable-read.ts:44-49`): `gaveUp`.

*Ownership.* Rows a CLI writes between the SDK's resume in `_spawn` and the
registration of the watch are known to neither. A resync after a turn, a rename
or a rewind passes over foreign rows, and untagged ones during an own turn count
as own. A Codex `needs_reload` is cleared after `force_reconnect`
(`machine.py:12870-12873`, `13064-13068`), so a foreign turn seen during the
reconnect is forgotten, although the comments at 12848-12851 and 12874-12876 say
why the order matters; `PromptIsCurrent` in `CodexWatch` states what would hold
otherwise and is not checked by a run. A foreign Codex turn given up for silence
may end later without a reload. A reconnect of a Claude task that fails leaves
no client and nothing to reload. Broker and wrapper: the generation identifies
the broker process, not the TUI; a terminal turn that begins between the task's
`stat` and its prompt ends the managed turn early; the lane does not test again
that the session is idle when it claims a broker prompt (`unclaimed`).

*Broker.* An arrow key or a focus report clears the composing guard of an
unfinished line (`guardLost`). `resume` tests and then awaits, so two of them may
start two TUIs of one transcript (`doubled`) and exceed the limit by one. A
permission step takes an earlier Shift-Tab for its own, and a model change the result
of an earlier one to the same model that timed out (`raced`; `mistaken` when the
terminal is not set as that says). A request for the mode the broker knows already
succeeds without a step (`session.py:1276-1277`), also when the terminal has left
that mode and the broker has not yet read it (`ModeUnseen`). A label read
during a control is not looked at again (`overheard`), and mode and metadata may then
differ for good. The control store evicts
the session inserted first, although its comment speaks of the least recently
changed (`control_store.py:102`). A preference set while an exited session is
closed for a resume is overwritten.

*Questions.* A second concurrent question hides the first card. An answer on the
deadline is accepted and lost; a second answer before the task has run is told
success.

*Pool.* `odd` marks these in `SessionPool`. A scheduled run may evict a session that
a lane handler has just looked up, and a turn is then claimed on a closed context;
concurrent spawns exceed the pool's limit by one; a session resumed from a listing
before its context has learned its id gets two contexts; a `/btw` session closed
before its id is known leaves its transcript in the listing, and so may a listing
that overlaps its opening or closing; a failed delete leaves the focus on a closed
session.

*Read, not modelled.* Two launchers over a stale broker socket may remove the
winner's.

## What is not modelled

*In the modelled parts.* `SessionReplay`: several pages, a reload with cached
cursors, the limit on touched sessions, session aliases and renames, the legacy
single cursor, and the merging of history pages (abstracted to `base`, the mark
up to which the transcript stands for events; `HistoryPages` models the
merging). `CommandDelivery`: byte limits of the outbox, the least-recently-used
table of clients, reads that are not coalesced (`list_sessions`), the resend of
recovery frames, and the first step of an off-lane task as a step of its own.
`WorkSchedules`: the session a run creates (`SessionPool` has it), broadcasts to pages, and the order
in which claims are taken within the `LIMIT` (any choice is allowed).
`TurnLifecycle`: Claude and broker turns, reviews, compaction, the overflow of a
stream, checkpoints (except that they take time), reconnects for changed effort,
more than one session, and the `completed` fallback of
`_on_codex_turn_lifecycle`, which only acts after a failed cleanup.
`ClaudeWatch`, `ClaudeHandover`: the task of a turn has unwound before the next
one is claimed, which `TurnLifecycle` shows is not always so. `CodexWatch`: the
shared-daemon mode, sidebar watches, file rotation, rows without markers, drain
timeouts. `ForkJournal`: worktree forks and compaction of a full journal.
`RelayHub`: rate limits per frame and the HTTP side. `RelayAccess`: passwords,
cookies, digests. `HistoryPages`: projection of rows to events and the size
limit of a page. `CodexCheckpoints`: the object store and Git commands behind a
snapshot. `BrokerSessions`: socket framing and PTY I/O. `SessionPool`: rename,
archive, pins, the listing of Codex threads, the discovery of broker terminals, and
the order of eviction among idle sessions (any is allowed). `CodexStream`: wording,
redaction, formatting of cards, and the translation of a rollout into history.

*Components.* The page's queue drain and query acceptance, and the move of its
cursors when a session is renamed (`ws.ts:1198`); the translator of Claude's messages
(`stream.py`) and those of both histories; and what is I/O, formatting or
presentation, where there is no protocol to check: daemon discovery, Work files, configuration, installers, React
components, the terminal client and the Android pager (further pages).

## Plan

1. `QueueDrain`: the page's queued prompts against acceptance, idle events and
   reconnects, and its cursors against renames.
2. The translators of Claude's messages and of the two histories, beside
   `CodexStream`.
3. Proofs: see the list of what is only model-checked, `PoolSafe` first.
