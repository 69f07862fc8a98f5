--------------------------- MODULE TurnLifecycle ---------------------------
(***************************************************************************)
(* One Codex session of the wrapper, whose app-server may start turns by   *)
(* itself (cc_remote/wrapper/machine.py).                                  *)
(*                                                                         *)
(*   lane     the command loop: queries and stops, one at a time           *)
(*   turnAt   _run_turn, one per accepted query                            *)
(*   follower _run_codex_spontaneous_turn, one per automatic turn          *)
(*   reader   the stdout reader: dispatches what the app-server wrote      *)
(*   server   the app-server, external                                     *)
(*                                                                         *)
(* All but the server are tasks of one event loop: an action is what runs  *)
(* between two awaits. A launch holds launch_lock.                         *)
(***************************************************************************)
EXTENDS CodexHandle, Sequences, FiniteSets, Naturals

CONSTANTS
    MaxStops,   \* bound: stops accepted
    MaxFaults,  \* bound: exits of the app-server and requests that time out
    MaxInputs,  \* bound: queries, automatic turns, stops and faults together
    Timeouts    \* bound: whether requests may time out

\* What holds the lock, and a server that is down, are not turns.
ASSUME LifecycleAssumption == {"stop", "down"} \cap (Turns \cup {None}) = {}

VARIABLES
    state,      \* ctx.state
    event,      \* ctx.interrupt_event
    active,     \* ctx.active_msg_id
    turnTask,   \* ctx.turn_task, by its query
    spont,      \* ctx.codex_spontaneous_turn_id
    spTask,     \* ctx.codex_spontaneous_task, by its turn
    lane,       \* where the command loop is
    lock,       \* holder of ctx.launch_lock: a query, "stop" or None
    turnAt,     \* where _run_turn of a query is
    timed,      \* the automatic turn that a drain timeout found
    follower,   \* where the follower of an automatic turn is
    awaited,    \* the turn_task a follower waits for
    h,          \* the handle
    inp, out,   \* requests to and messages from the app-server
    server,     \* running turn, None, or "down"
    shown,      \* history: turns whose marker was sent and not yet ended
    causes,     \* history: races that happened
    issued,     \* history: queries and automatic turns so far
    tally       \* history: counters for the bounds

ctxVars    == <<state, event, active, turnTask, spont, spTask>>
laneVars   == <<lane, lock>>
queryVars  == <<turnAt, timed>>
autoVars   == <<follower, awaited>>
serverVars == <<inp, out, server>>
histVars   == <<shown, causes, issued, tally>>
turnVars   == <<ctxVars, laneVars, queryVars, autoVars, h, serverVars, histVars>>

Free == [at |-> "free", query |-> None]
At(pc, q) == [at |-> pc, query |-> q]

\* One more query, automatic turn, stop or fault may come
Allowed == Cardinality(issued) + tally.stops + tally.faults < MaxInputs

TurnInit ==
    /\ state = "idle" /\ event = FALSE /\ active = None
    /\ turnTask = None /\ spont = None /\ spTask = None
    /\ lane = Free /\ lock = None
    /\ turnAt = [q \in Queries |-> "none"] /\ timed = [q \in Queries |-> None]
    /\ follower = [t \in Turns |-> "none"] /\ awaited = [t \in Turns |-> None]
    /\ h = Connected /\ inp = <<>> /\ out = <<>> /\ server = None
    /\ shown = {} /\ causes = {} /\ issued = {}
    /\ tally = [stops |-> 0, faults |-> 0]

Stopping == event \/ state = "interrupting"

----------------------------------------------------------------------------
(* _handle_query *)

\* The session must be idle; the awaits of the preflight follow
CheckQuery(q) ==
    /\ lane = Free /\ q \notin issued /\ Allowed /\ state = "idle"
    /\ lane' = At("preflight", q)
    /\ issued' = issued \cup {q}
    /\ UNCHANGED <<ctxVars, lock, queryVars, autoVars, h, serverVars, shown, causes, tally>>

\* The preflight finds another owner, or a broken attachment
AbandonQuery ==
    /\ lane.at = "preflight"
    /\ lane' = Free
    /\ UNCHANGED <<ctxVars, lock, queryVars, autoVars, h, serverVars, histVars>>

\* The claim; it awaits the announcement of the running state
ClaimQuery ==
    /\ lane.at = "preflight"
    /\ lane' = [lane EXCEPT !.at = "claimed"]
    /\ event' = FALSE /\ active' = lane.query /\ state' = "running"
    /\ causes' = causes \cup (IF turnTask # None THEN {"early"} ELSE {})
                        \cup (IF spont # None THEN {"crossed"} ELSE {})
    /\ UNCHANGED <<turnTask, spont, spTask, lock, queryVars, autoVars, h, serverVars,
                   shown, issued, tally>>

CreateTask ==
    /\ lane.at = "claimed"
    /\ lane' = Free
    /\ turnTask' = lane.query
    /\ turnAt' = [turnAt EXCEPT ![lane.query] = "starting"]
    /\ UNCHANGED <<state, event, active, spont, spTask, lock, timed, autoVars, h,
                   serverVars, histVars>>

----------------------------------------------------------------------------
(* _handle_interrupt *)

\* A second stop is a no-op. The state is announced before the lock is taken.
Stop ==
    /\ lane = Free /\ state = "running"
    /\ tally.stops < MaxStops /\ Allowed
    /\ tally' = [tally EXCEPT !.stops = @ + 1]
    /\ lane' = At("stopping", None)
    /\ state' = "interrupting" /\ event' = TRUE
    /\ UNCHANGED <<active, turnTask, spont, spTask, lock, queryVars, autoVars, h,
                   serverVars, shown, causes, issued>>

\* The launch has yielded: nothing is left to stop
StopIsOver ==
    /\ lane.at = "stopping" /\ lock = None /\ state # "interrupting"
    /\ lane' = Free
    /\ UNCHANGED <<ctxVars, lock, queryVars, autoVars, h, serverVars, histVars>>

\* interrupt(): the request is sent, or there is no turn to stop
RequestStop ==
    /\ lane.at = "stopping" /\ lock = None /\ state = "interrupting"
    /\ lock' = "stop"
    /\ IF h.alive /\ h.turn # None
       THEN /\ lane' = At("asked", None)
            /\ inp' = Append(inp, [type |-> "stop", turn |-> h.turn])
       ELSE lane' = At("failed", None) /\ UNCHANGED inp
    /\ UNCHANGED <<ctxVars, queryVars, autoVars, h, out, server, histVars>>

\* A stop that failed unlocks the session only when no consumer can
FinishStop ==
    /\ lane.at \in {"done", "failed"}
    /\ lane' = Free /\ lock' = None
    /\ state' = IF lane.at = "failed" /\ turnTask = None /\ spTask = None
                THEN "idle" ELSE state
    /\ UNCHANGED <<event, active, turnTask, spont, spTask, queryVars, autoVars, h,
                   serverVars, histVars>>

----------------------------------------------------------------------------
(* _run_turn *)

\* The claim's announcement holds emit_lock: whatever is sent meanwhile waits.
\* What was queued before it commutes with the claim.
CanEmit == lane.at # "claimed"

Step(q, from, to) == turnAt[q] = from /\ turnAt' = [turnAt EXCEPT ![q] = to]

\* The launch window: the turn's marker is sent in either case
EnterLaunch(q) ==
    /\ Step(q, "starting", "launching")
    /\ lock = None /\ lock' = q
    /\ shown' = shown \cup {q}
    /\ UNCHANGED <<ctxVars, lane, timed, autoVars, h, serverVars, causes, issued, tally>>

\* The launch is given up, for a stop or an automatic turn, or because the
\* final preflight finds another owner
GiveUp(q) ==
    /\ Step(q, "launching", "ending") /\ CanEmit
    /\ shown' = shown \ {q}
    /\ UNCHANGED <<ctxVars, laneVars, timed, autoVars, h, serverVars, causes, issued, tally>>

\* mutant: the window is entered without looking at the event
StartTurnUnchecked(q) ==
    /\ turnAt[q] = "launching" /\ h.alive /\ CanEmit
    /\ turnAt' = [turnAt EXCEPT ![q] = "requested"]
    /\ h' = Queried(h, q)
    /\ inp' = Append(inp, [type |-> "start", turn |-> q])
    /\ UNCHANGED <<ctxVars, laneVars, timed, autoVars, out, server, histVars>>
\* query(): turn/start is written, to a new app-server when the old one died
StartTurn(q) ==
    /\ turnAt[q] = "launching" /\ ~Stopping /\ CanEmit
    /\ IF h.alive
       THEN /\ turnAt' = [turnAt EXCEPT ![q] = "requested"]
            /\ h' = Queried(h, q)
            /\ inp' = Append(inp, [type |-> "start", turn |-> q])
       ELSE turnAt' = [turnAt EXCEPT ![q] = "reviving"] /\ UNCHANGED <<h, inp>>
    /\ UNCHANGED <<ctxVars, laneVars, timed, autoVars, out, server, histVars>>

\* force_reconnect inside query() has returned
Revive(q) ==
    /\ Step(q, "reviving", "requested")
    /\ h' = Queried([Disconnected(h) EXCEPT !.alive = TRUE], q)
    /\ inp' = <<[type |-> "start", turn |-> q]>> /\ out' = <<>> /\ server' = None
    /\ UNCHANGED <<ctxVars, laneVars, timed, autoVars, histVars>>

\* turn/start ends while another turn, or its own as an automatic one, runs
Renamed(q) ==
    IF h.active /\ (h.turn \notin {None, q} \/ h.sp = q) THEN {"renamed"} ELSE {}

\* The response has arrived; the binding is sent and the checkpoint accepted
Accept(q) ==
    /\ Step(q, "accepted", "bound")
    /\ h' = Accepted(h, q)
    /\ causes' = causes \cup Renamed(q)
    /\ UNCHANGED <<ctxVars, laneVars, timed, autoVars, serverVars, shown, issued, tally>>

\* query() raised: the launch is over
Refuse(q) ==
    /\ Step(q, "refused", "ending")
    /\ h' = Refused(h, q)
    /\ lock' = None
    /\ shown' = shown \ {q}
    /\ causes' = causes \cup Renamed(q)
    /\ UNCHANGED <<ctxVars, lane, timed, autoVars, serverVars, issued, tally>>

LeaveLaunch(q) ==
    /\ Step(q, "bound", "announcing") /\ CanEmit
    /\ lock' = None
    /\ UNCHANGED <<ctxVars, lane, timed, autoVars, h, serverVars, histVars>>

\* The reader of the turn attaches to its stream; when that was detached in
\* the meantime it returns at once and the turn is reported failed
Attach(q) ==
    /\ turnAt[q] = "announcing"
    /\ IF h.mq = q
       THEN turnAt' = [turnAt EXCEPT ![q] = "consuming"] /\ UNCHANGED shown
       ELSE turnAt' = [turnAt EXCEPT ![q] = "ending"] /\ shown' = shown \ {q}
    /\ UNCHANGED <<ctxVars, laneVars, timed, autoVars, h, serverVars, causes, issued, tally>>

Consume(q) ==
    /\ Step(q, "consuming", "ending") /\ h.managed[q] # "open" /\ CanEmit
    /\ h' = Received(h, q)
    /\ shown' = shown \ {q}
    /\ UNCHANGED <<ctxVars, laneVars, timed, autoVars, serverVars, causes, issued, tally>>

\* The drain deadline passes: the app-server is stopped and replaced
TimeOut(q) ==
    /\ Step(q, "consuming", "reconnecting") /\ h.managed[q] = "open" /\ Stopping
    /\ timed' = [timed EXCEPT ![q] = spont]
    /\ h' = Disconnected(h) /\ server' = "down" /\ inp' = <<>> /\ out' = <<>>
    /\ lane' = IF lane.at = "asked" THEN At("failed", None) ELSE lane
    /\ shown' = shown \ {q}
    /\ UNCHANGED <<ctxVars, lock, autoVars, causes, issued, tally>>

\* connect() returns or raises; a new automatic turn is left alone
Reconnect(q) ==
    /\ Step(q, "reconnecting", "ending")
    /\ \/ h' = [h EXCEPT !.alive = TRUE] /\ server' = None
       \/ UNCHANGED <<h, server>>
    /\ spont' = IF spont = timed[q] THEN None ELSE spont
    /\ UNCHANGED <<state, event, active, turnTask, spTask, laneVars, timed, autoVars,
                   inp, out, histVars>>

\* _set_idle_after_managed_turn, after the checkpoint is finished; a launch
\* that gave up leaves its lock
Unlock(q) ==
    /\ Step(q, "ending", "unwinding")
    /\ state' = IF spont # None THEN state ELSE "idle"
    /\ lock' = IF lock = q THEN None ELSE lock
    /\ UNCHANGED <<event, active, turnTask, spont, spTask, lane, timed, autoVars, h,
                   serverVars, histVars>>

\* finally, after a history repair or a slow announcement
Unwind(q) ==
    /\ Step(q, "unwinding", "done")
    /\ turnTask' = None
    /\ active' = IF spont = None THEN None ELSE active
    /\ event' = (event /\ spont # None)
    /\ UNCHANGED <<state, spont, spTask, laneVars, timed, autoVars, h, serverVars, histVars>>

----------------------------------------------------------------------------
(* _run_codex_spontaneous_turn *)

Move(t, from, to) == follower[t] = from /\ follower' = [follower EXCEPT ![t] = to]

\* The running state is announced when the session was idle; then the managed
\* task, if there is one, is awaited
Follow(t) ==
    /\ Move(t, "created", "waiting") \/ (Move(t, "announcing", "waiting") /\ CanEmit)
    /\ awaited' = [awaited EXCEPT ![t] = turnTask]
    /\ UNCHANGED <<ctxVars, laneVars, queryVars, h, serverVars, histVars>>

AwaitedIsDone(t) == awaited[t] # None => turnAt[awaited[t]] = "done"

\* mutant: the managed turn is not awaited
AnchorAtOnce(t) ==
    /\ follower[t] = "waiting"
    /\ IF spont = t
       THEN active' = t /\ follower' = [follower EXCEPT ![t] = "anchoring"]
       ELSE follower' = [follower EXCEPT ![t] = "done"] /\ UNCHANGED active
    /\ UNCHANGED <<state, event, turnTask, spont, spTask, laneVars, queryVars, awaited, h,
                   serverVars, histVars>>
\* A turn that is no longer the session's automatic turn is not followed
Anchor(t) ==
    /\ follower[t] = "waiting" /\ AwaitedIsDone(t)
    /\ IF spont = t
       THEN active' = t /\ follower' = [follower EXCEPT ![t] = "anchoring"]
       ELSE follower' = [follower EXCEPT ![t] = "done"] /\ UNCHANGED active
    /\ UNCHANGED <<state, event, turnTask, spont, spTask, laneVars, queryVars, awaited, h,
                   serverVars, histVars>>

\* The empty marker is sent, and the stream attached unless it was replaced
AttachAuto(t) ==
    /\ follower[t] = "anchoring" /\ CanEmit
    /\ follower' = [follower EXCEPT ![t] = IF h.sq = t THEN "consuming" ELSE "finishing"]
    /\ shown' = shown \cup {t}
    /\ UNCHANGED <<ctxVars, laneVars, queryVars, awaited, h, serverVars, causes, issued, tally>>

ConsumeAuto(t) ==
    /\ Move(t, "consuming", "finishing") /\ h.auto[t] # "open" /\ CanEmit
    /\ h' = ReceivedAuto(h, t)
    /\ shown' = shown \ {t}
    /\ UNCHANGED <<ctxVars, laneVars, queryVars, awaited, serverVars, causes, issued, tally>>

\* _finish_codex_spontaneous_turn records the turn, then unlocks
Finish(t) ==
    /\ follower[t] = "finishing"
    /\ follower' = [follower EXCEPT ![t] = IF spont = t THEN "recording" ELSE "done"]
    /\ UNCHANGED <<ctxVars, laneVars, queryVars, awaited, h, serverVars, histVars>>

UnlockAuto(t) ==
    /\ Move(t, "recording", "done")
    /\ spont' = None
    /\ spTask' = IF spTask = t \/ (spTask # None /\ follower[spTask] = "done")
                 THEN None ELSE spTask
    /\ active' = None /\ event' = FALSE
    /\ state' = IF turnTask = None THEN "idle" ELSE state
    /\ causes' = causes \cup (IF lane.at = "claimed" THEN {"crossed"} ELSE {})
    /\ UNCHANGED <<turnTask, laneVars, queryVars, awaited, h, serverVars, shown, issued, tally>>

----------------------------------------------------------------------------
(* The reader: _dispatch, and _on_codex_turn_lifecycle *)

Reading(type) == h.alive /\ out # <<>> /\ Head(out).type = type /\ out' = Tail(out)

\* The response to a request wakes the coroutine that waits for it
Respond ==
    \/ /\ Reading("started_ok")
       /\ turnAt' = [q \in Queries |-> IF q = Head(out).turn /\ turnAt[q] = "requested"
                                     THEN "accepted" ELSE turnAt[q]]
       /\ UNCHANGED lane
    \/ /\ Reading("start_error")
       /\ turnAt' = [q \in Queries |-> IF q = Head(out).turn /\ turnAt[q] = "requested"
                                     THEN "refused" ELSE turnAt[q]]
       /\ UNCHANGED lane
    \/ /\ Reading("stopped")
       /\ lane' = IF lane.at = "asked" THEN At("done", None) ELSE lane
       /\ UNCHANGED turnAt
    \/ /\ Reading("stop_error")
       /\ lane' = IF lane.at = "asked" THEN At("failed", None) ELSE lane
       /\ UNCHANGED turnAt

DispatchResponse ==
    /\ Respond
    /\ UNCHANGED <<ctxVars, lock, timed, autoVars, h, inp, server, histVars>>

\* An automatic turn claims the session and aborts a launch, unless the
\* session still has another automatic turn
Claimed(t) ==
    /\ spont = None
    /\ spont' = t /\ spTask' = t
    /\ follower' = [follower EXCEPT ![t] = IF state = "idle" THEN "announcing" ELSE "created"]
    /\ state' = IF state = "idle" THEN "running" ELSE state
    /\ event' = IF state = "idle" THEN FALSE ELSE event \/ turnTask # None
    /\ causes' = causes \cup (IF lane.at = "claimed" THEN {"crossed"} ELSE {})
Ignored(t) ==
    /\ spont # None
    /\ causes' = causes \cup {"ignored"}
    /\ UNCHANGED <<spont, spTask, follower, state, event>>

DispatchStarted ==
    /\ Reading("started")
    /\ LET t == Head(out).turn
       IN  /\ h' = IF StartedIsCurrent(h, t) THEN Started(h, t) ELSE h
           /\ IF StartedIsCurrent(h, t) /\ StartsAlone(h)
              THEN Claimed(t) \/ Ignored(t)
              ELSE /\ causes' = causes \cup (IF t \in Autos THEN {"absorbed"} ELSE {})
                   /\ UNCHANGED <<spont, spTask, follower, state, event>>
    /\ UNCHANGED <<active, turnTask, laneVars, queryVars, awaited, inp, server,
                   shown, issued, tally>>

DispatchCompleted ==
    /\ Reading("completed")
    /\ LET t == Head(out).turn
       IN  h' = IF CompletedIsCurrent(h, t) THEN Completed(h, t) ELSE h
    /\ UNCHANGED <<ctxVars, laneVars, queryVars, autoVars, inp, server, histVars>>

\* The end of stdout fails every pending request
DispatchEof ==
    /\ Reading("eof")
    /\ h' = AtEof(h)
    /\ turnAt' = [q \in Queries |-> IF turnAt[q] = "requested" THEN "refused" ELSE turnAt[q]]
    /\ lane' = IF lane.at = "asked" THEN At("failed", None) ELSE lane
    /\ UNCHANGED <<ctxVars, lock, timed, autoVars, inp, server, histVars>>

----------------------------------------------------------------------------
(* The app-server (external), and faults *)

Msg(type, t) == [type |-> type, turn |-> t]

\* turn/start is refused while a turn runs; the notification may overtake
\* the response
ServeStart ==
    /\ server # "down" /\ inp # <<>> /\ Head(inp).type = "start"
    /\ inp' = Tail(inp)
    /\ LET q == Head(inp).turn
       IN  IF server = None
           THEN /\ server' = q
                /\ \/ out' = out \o <<Msg("started_ok", q), Msg("started", q)>>
                   \/ out' = out \o <<Msg("started", q), Msg("started_ok", q)>>
           ELSE out' = Append(out, Msg("start_error", q)) /\ UNCHANGED server
    /\ UNCHANGED <<ctxVars, laneVars, queryVars, autoVars, h, histVars>>

\* turn/interrupt of the running turn ends it at once, later or never
ServeStop ==
    /\ server # "down" /\ inp # <<>> /\ Head(inp).type = "stop"
    /\ inp' = Tail(inp)
    /\ LET t == Head(inp).turn
       IN  IF server = t
           THEN \/ out' = out \o <<Msg("stopped", t), Msg("completed", t)>> /\ server' = None
                \/ out' = Append(out, Msg("stopped", t)) /\ UNCHANGED server
           ELSE out' = Append(out, Msg("stop_error", t)) /\ UNCHANGED server
    /\ UNCHANGED <<ctxVars, laneVars, queryVars, autoVars, h, histVars>>

ServeEnd ==
    /\ server \in Turns
    /\ server' = None
    /\ out' = Append(out, Msg("completed", server))
    /\ UNCHANGED <<ctxVars, laneVars, queryVars, autoVars, h, inp, histVars>>

ServeAuto(t) ==
    /\ server = None /\ t \in Autos \ issued /\ Allowed
    /\ issued' = issued \cup {t}
    /\ server' = t
    /\ out' = Append(out, Msg("started", t))
    /\ UNCHANGED <<ctxVars, laneVars, queryVars, autoVars, h, inp, shown, causes, tally>>

Exit ==
    /\ server # "down" /\ tally.faults < MaxFaults /\ Allowed
    /\ tally' = [tally EXCEPT !.faults = @ + 1]
    /\ server' = "down" /\ inp' = <<>>
    /\ out' = Append(out, Msg("eof", None))
    /\ UNCHANGED <<ctxVars, laneVars, queryVars, autoVars, h, shown, causes, issued>>

\* _request gives up waiting; the app-server may still answer, or run the turn
RequestTimesOut ==
    /\ Timeouts /\ tally.faults < MaxFaults /\ Allowed
    /\ tally' = [tally EXCEPT !.faults = @ + 1]
    /\ \/ (\E q \in Queries : Step(q, "requested", "refused")) /\ UNCHANGED lane
       \/ lane.at = "asked" /\ lane' = At("failed", None) /\ UNCHANGED turnAt
    /\ UNCHANGED <<ctxVars, lock, timed, autoVars, h, serverVars, shown, causes, issued>>

----------------------------------------------------------------------------
Run(q) ==
    \/ EnterLaunch(q) \/ GiveUp(q) \/ StartTurn(q) \/ Revive(q)
    \/ Accept(q) \/ Refuse(q) \/ LeaveLaunch(q) \/ Attach(q)
    \/ Consume(q) \/ TimeOut(q) \/ Reconnect(q) \/ Unlock(q) \/ Unwind(q)
FollowAuto(t) ==
    \/ Follow(t) \/ Anchor(t) \/ AttachAuto(t)
    \/ ConsumeAuto(t) \/ Finish(t) \/ UnlockAuto(t)
Lane     == AbandonQuery \/ ClaimQuery \/ CreateTask \/ StopIsOver \/ RequestStop \/ FinishStop
Dispatch == DispatchResponse \/ DispatchStarted \/ DispatchCompleted \/ DispatchEof
Serve    == ServeStart \/ ServeStop

TurnNext ==
    \/ \E q \in Queries : CheckQuery(q) \/ Run(q)
    \/ \E t \in Turns : FollowAuto(t) \/ ServeAuto(t)
    \/ Lane \/ Stop \/ Dispatch \/ Serve \/ ServeEnd \/ Exit \/ RequestTimesOut

TurnSpec == TurnInit /\ [][TurnNext]_turnVars

\* Tasks of the event loop run on, and the app-server answers requests; that
\* it ends a turn, or starts one, is not assumed
TurnFairness ==
    /\ WF_turnVars(Lane) /\ WF_turnVars(Dispatch) /\ WF_turnVars(Serve)
    /\ \A q \in Queries : WF_turnVars(Run(q))
    /\ \A t \in Turns : WF_turnVars(FollowAuto(t))

TurnFairSpec == TurnSpec /\ TurnFairness

----------------------------------------------------------------------------
Working == {"starting", "launching", "reviving", "requested", "accepted", "refused",
            "bound", "announcing", "consuming", "reconnecting", "ending"}
InWindow == {"launching", "reviving", "requested", "accepted", "refused", "bound"}

TurnTypeOK ==
    /\ state \in {"idle", "running", "interrupting"} /\ event \in BOOLEAN
    /\ active \in Turns \cup {None} /\ turnTask \in Queries \cup {None}
    /\ spont \in Turns \cup {None} /\ spTask \in Turns \cup {None}
    /\ lane.at \in {"free", "preflight", "claimed", "stopping", "asked", "done", "failed"}
    /\ turnAt \in [Queries -> Working \cup {"none", "unwinding", "done"}]
    /\ h \in Handles
    /\ server \in Turns \cup {None, "down"}
    /\ \A q \in Queries : /\ turnAt[q] \in InWindow => lock = q
                          /\ lock = q => turnAt[q] \in InWindow \cup {"ending"}
    /\ lock = "stop" <=> lane.at \in {"asked", "done", "failed"}

----------------------------------------------------------------------------
(* The code has windows in which an automatic turn, or a former turn that  *)
(* has unlocked the session and not yet released it, meets a launch:       *)
(*   early     a query claims the session before the former turn's task    *)
(*             has run its finally                                         *)
(*   crossed   an automatic turn started during the preflight, or ended    *)
(*             between the claim and the creation of the task              *)
(*   ignored   an automatic turn starts while the former one is recorded   *)
(*   absorbed  an automatic turn starts while turn/start is answered       *)
(*   renamed   the end of turn/start, good or bad, replaces or clears the  *)
(*             id of an automatic turn that runs                           *)
(* Each property says which of them it does not survive; all others,       *)
(* stops, deadlines and the end of the app-server leave it true.           *)
Raced(races) == causes \cap races # {}

\* "Unlocking here would admit a second _run_turn against the same
\* SessionContext" (_finish_codex_spontaneous_turn): at no time do two
\* managed turns work in one session.
TurnsAreAlone == Cardinality({q \in Queries : turnAt[q] \in Working}) <= 1

\* ... and they do not, unless one claims the session too early.
OneManagedTurn == Raced({"early"}) \/ TurnsAreAlone

\* A session that says it is idle has neither an automatic turn nor a managed
\* one that works: whoever unlocked it was the last (_set_idle_after_managed_turn,
\* _finish_codex_spontaneous_turn).
UnlockedMeansFree ==
    \/ Raced({"early", "crossed"})
    \/ state = "idle" => spont = None /\ \A q \in Queries : turnAt[q] \notin Working

\* The page is shown one turn at a time: no marker is sent before the turn of
\* the last one has ended (the wait of _run_codex_spontaneous_turn).
TurnsDoNotNest ==
    Raced({"early", "crossed", "ignored"}) \/ Cardinality(shown) <= 1

\* turn/start is never written while the session follows an automatic turn,
\* also when that turn began after the query had claimed the session.
LaunchYields ==
    [][\A q \in Queries : turnAt[q] # "requested" /\ turnAt'[q] = "requested"
        => Raced({"early", "crossed"}) \/ spont = None]_turnVars

\* ... nor while the handle still counts another turn as active, of which a
\* consumer of a former turn could otherwise have cleared the mark.
LaunchOverwritesNothing ==
    [][\A q \in Queries : turnAt[q] = "launching" /\ turnAt'[q] = "requested"
        => Raced({"early", "crossed", "ignored"}) \/ ~h.active]_turnVars

\* A turn enters its launch window under its own id, under which its marker
\* and all its events are sent.
LaunchOwnsMarker ==
    [][\A q \in Queries : turnAt[q] = "starting" /\ turnAt'[q] = "launching"
        => Raced({"early", "crossed"}) \/ active = q]_turnVars

\* A session that is not idle becomes idle, unless the app-server has a turn
\* that never ends: no consumer waits for a frame that was sent to another.
SessionUnlocks ==
    state # "idle" ~> \/ state = "idle" \/ server \in Turns
                      \/ Raced({"early", "crossed", "absorbed", "renamed"})

\* An accepted stop ends, whatever the app-server does, by the deadline of the
\* managed turn; an automatic turn has none.
StopEnds ==
    state = "interrupting" ~> \/ state # "interrupting" \/ spont # None
                              \/ Raced({"crossed"})

\* A session's turns always: one managed turn, unlocked only when free, never nested.
TurnsSafe ==
    /\ TurnTypeOK
    /\ OneManagedTurn
    /\ UnlockedMeansFree
    /\ TurnsDoNotNest

\* A launch never displaces a turn that is running or shown.
LaunchSteps ==
    /\ LaunchYields
    /\ LaunchOverwritesNothing
    /\ LaunchOwnsMarker

\* A session that is busy becomes idle, and an accepted stop ends.
TurnsEnd ==
    /\ SessionUnlocks
    /\ StopEnds
=============================================================================
