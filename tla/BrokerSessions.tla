--------------------------- MODULE BrokerSessions ---------------------------
(* The broker's table of Claude terminals: TUIs started, resumed, exited and *)
(* pruned; terminals attached to them, each with a snapshot of the recent    *)
(* output and a bounded queue of what follows; and the mode stored for the   *)
(* next start of a session.                                                  *)
(*                                                                           *)
(* Source: claude_broker/session.py (SessionManager, subscriptions, exit),   *)
(* server.py (_dispatch, _attach), control_store.py.  A chunk of output is   *)
(* its number.  The bytes typed and the controls of one TUI are BrokerTui.   *)
EXTENDS Integers, Sequences, FiniteSets

CONSTANTS
    Terminals,      \* terminals that attach
    Transcripts,    \* session ids, as resumed
    Launchers,      \* requests to create that may overlap
    MaxSessions,    \* max_sessions
    HistoryChunks,  \* history_limit
    QueueEvents,    \* SUBSCRIBER_QUEUE_FRAMES
    StoreLimit,     \* MAX_STORED_SESSIONS
    BrokerBudgets   \* bounds: chunks of output, attachments, creations, modes set

ASSUME BrokerBounds ==
    /\ MaxSessions \in Nat \ {0} /\ HistoryChunks \in Nat /\ QueueEvents \in Nat \ {0}
    /\ StoreLimit \in Nat \ {0}
    /\ BrokerBudgets \subseteq [outputs : Nat, attaches : Nat, creates : Nat, modes : Nat]

StoredModes == {"bypass", "plan"}
Nobody == "nobody"

VARIABLES
    ptys,       \* PTYSession objects, in the order of their creation
    sessions,   \* SessionManager.sessions: id -> index into ptys, or 0
    launch,     \* creations waiting for an exited session to be closed
    term,       \* attachments
    stored,     \* ControlStore._sessions: ids and modes in the order of insertion
    doubled,    \* history: ids resumed twice while their old session was closed
    brokerLeft  \* what the bounds leave

brokerVars == <<ptys, sessions, launch, term, stored, doubled, brokerLeft>>

Detached == [at |-> "off", of |-> 0, snapshot |-> <<>>, queue |-> <<>>, over |-> FALSE,
             keyboard |-> FALSE, last |-> 0, told |-> Nobody]

NoLaunch == [id |-> Nobody, mode |-> Nobody]

BrokerInit ==
    /\ ptys = <<>>
    /\ sessions = [s \in Transcripts |-> 0]
    /\ launch = [l \in Launchers |-> NoLaunch]
    /\ term = [t \in Terminals |-> Detached]
    /\ stored = <<>>
    /\ doubled = {}
    /\ brokerLeft \in BrokerBudgets

Running(i) == ptys[i].exited = 0
Registered == {s \in Transcripts : sessions[s] # 0}
Exits == Cardinality({i \in DOMAIN ptys : ~Running(i)})

Spend(what) == /\ brokerLeft[what] > 0
               /\ brokerLeft' = [brokerLeft EXCEPT ![what] = @ - 1]
----------------------------------------------------------------------------
(* The control store: an update keeps the place of an entry, and the one     *)
(* inserted first goes when there are too many.                              *)

StoredFor(s) == {k \in DOMAIN stored : stored[k].id = s}
Updated(s, mode) ==
    LET entry == [id |-> s, mode |-> mode]
        next == IF StoredFor(s) # {}
                THEN [stored EXCEPT ![CHOOSE k \in StoredFor(s) : TRUE] = entry]
                ELSE Append(stored, entry)
    IN  IF Len(next) > StoreLimit THEN Tail(next) ELSE next
----------------------------------------------------------------------------
(* SessionManager.create                                                     *)

Spawned(s, mode) ==
    [id |-> s, alive |-> TRUE, exited |-> 0, made |-> 0, unread |-> 0, mode |-> mode]

Spawn(kept, s, mode) ==
    /\ ptys' = Append(ptys, Spawned(s, mode))
    /\ sessions' = [kept EXCEPT ![s] = Len(ptys) + 1]
    /\ stored' = Updated(s, mode)

(* _prune_exited: sessions that have exited make room, the first ones first. *)
Prunable == {s \in Registered : ~Running(sessions[s])}

Prunes(gone) ==
    /\ gone \subseteq Prunable
    /\ \A s \in gone, r \in Prunable \ gone : ptys[sessions[s]].exited < ptys[sessions[r]].exited
    /\ gone = Prunable \/ Cardinality(Registered \ gone) < MaxSessions
    /\ gone = {} \/ Cardinality(Registered \ gone) >= MaxSessions - 1

Pruned(gone) == [s \in Transcripts |-> IF s \in gone THEN 0 ELSE sessions[s]]

LaunchMode(s) ==
    IF StoredFor(s) = {} THEN "bypass"
    ELSE stored[CHOOSE k \in StoredFor(s) : TRUE].mode

(* The running check and the close of the exited session are not one step;   *)
(* one that runs is not started again, and a start may fail.                 *)
Resume(l, s) ==
    \E gone \in SUBSET Prunable :
       LET kept == Pruned(gone) IN
       /\ Prunes(gone) /\ Cardinality(Registered \ gone) < MaxSessions
       /\ launch[l] = NoLaunch
       /\ Spend("creates")
       /\ \/ /\ kept[s] # 0 => Running(kept[s])
             /\ sessions' = kept
             /\ UNCHANGED <<ptys, stored, doubled, launch>>
          \/ /\ kept[s] = 0
             /\ Spawn(kept, s, LaunchMode(s))
             /\ doubled' = IF \E i \in DOMAIN ptys : ptys[i].id = s /\ Running(i)
                           THEN doubled \cup {s} ELSE doubled
             /\ UNCHANGED launch
          \/ /\ kept[s] # 0 /\ ~Running(kept[s])
             /\ sessions' = [kept EXCEPT ![s] = 0]
             /\ launch' = [launch EXCEPT ![l] = [id |-> s, mode |-> LaunchMode(s)]]
             /\ UNCHANGED <<ptys, stored, doubled>>
       /\ UNCHANGED term

FinishResume(l) ==
    /\ launch[l] # NoLaunch
    /\ LET s == launch[l].id IN
       \/ UNCHANGED <<ptys, sessions, stored, doubled>>
       \/ /\ Spawn(sessions, s, launch[l].mode)
          /\ doubled' = IF sessions[s] # 0 /\ Running(sessions[s])
                        THEN doubled \cup {s} ELSE doubled
    /\ launch' = [launch EXCEPT ![l] = NoLaunch]
    /\ UNCHANGED <<term, brokerLeft>>
----------------------------------------------------------------------------
(* Modes                                                                     *)

(* The TUI's mode changes and is stored, whether or not it is registered.    *)
ModeChanges(i) ==
    /\ Running(i)
    /\ Spend("modes")
    /\ \E mode \in StoredModes \ {ptys[i].mode} :
          /\ ptys' = [ptys EXCEPT ![i].mode = mode]
          /\ stored' = Updated(ptys[i].id, mode)
    /\ UNCHANGED <<sessions, launch, term, doubled>>

(* set_preferences: not behind a running TUI.                                *)
PreferMode(s, mode) ==
    /\ Spend("modes")
    /\ sessions[s] # 0 /\ Running(sessions[s]) => ptys[sessions[s]].mode = mode
    /\ stored' = Updated(s, mode)
    /\ UNCHANGED <<ptys, sessions, launch, term, doubled>>
----------------------------------------------------------------------------
(* Output and exit                                                           *)

Subscribed(t, i) == term[t].at = "on" /\ term[t].of = i /\ ~term[t].over

(* Events to one subscriber, in their order: a full queue ends the           *)
(* subscription.                                                             *)
Fitting(x, events) ==
    LET room == QueueEvents - Len(x.queue) IN
    IF Len(events) <= room THEN events ELSE SubSeq(events, 1, room)

Queued(x, events) == [x EXCEPT !.queue = @ \o Fitting(x, events)]

(* Mutant: an event that does not fit is dropped.                            *)
OfferedOrDropped(x, events) == Queued(x, events)

Offered(x, events) ==
    IF Fitting(x, events) = events THEN Queued(x, events)
    ELSE [Queued(x, events) EXCEPT !.over = TRUE, !.keyboard = FALSE]

Broadcast(i, events) ==
    term' = [t \in Terminals |-> IF Subscribed(t, i) THEN Offered(term[t], events) ELSE term[t]]

Produce(i) ==
    /\ ptys[i].alive
    /\ Spend("outputs")
    /\ ptys' = [ptys EXCEPT ![i].made = @ + 1, ![i].unread = @ + 1]
    /\ UNCHANGED <<sessions, launch, term, stored, doubled>>

ReadSoFar(i) == ptys[i].made - ptys[i].unread

OnReadable(i) ==
    /\ Running(i) /\ ptys[i].unread > 0
    /\ ptys' = [ptys EXCEPT ![i].unread = @ - 1]
    /\ Broadcast(i, <<ReadSoFar(i) + 1>>)
    /\ UNCHANGED <<sessions, launch, stored, doubled, brokerLeft>>

(* The TUI ends by itself, or by stop().                                     *)
TuiExits(i) ==
    /\ ptys[i].alive
    /\ ptys' = [ptys EXCEPT ![i].alive = FALSE]
    /\ UNCHANGED <<sessions, launch, term, stored, doubled, brokerLeft>>

(* _wait_for_exit: the rest of the output, then the exit.                    *)
NoticeExit(i) ==
    /\ ~ptys[i].alive /\ Running(i)
    /\ ptys' = [ptys EXCEPT ![i].exited = Exits + 1, ![i].unread = 0]
    /\ Broadcast(i, [k \in 1..ptys[i].unread |-> ReadSoFar(i) + k] \o <<0>>)
    /\ UNCHANGED <<sessions, launch, stored, doubled, brokerLeft>>
----------------------------------------------------------------------------
(* Attachments: _attach; an exit is event 0.                                 *)

HistoryOf(i) ==
    LET n == ReadSoFar(i)
        first == IF n > HistoryChunks THEN n - HistoryChunks + 1 ELSE 1
    IN  [k \in 1..(n - first + 1) |-> first + k - 1]

KeyboardOwner(i) == {t \in Terminals : Subscribed(t, i) /\ term[t].keyboard}

AttachTerminal(t, s) ==
    LET i == sessions[s] IN
    /\ term[t].at = "off" /\ i # 0
    /\ Spend("attaches")
    /\ term' = [term EXCEPT ![t] =
          [Detached EXCEPT !.at = "on", !.of = i, !.snapshot = HistoryOf(i),
             !.queue = IF Running(i) THEN <<>> ELSE <<0>>,
             !.keyboard = Running(i) /\ KeyboardOwner(i) = {},
             !.last = ReadSoFar(i) - Len(HistoryOf(i))]]
    /\ UNCHANGED <<ptys, sessions, launch, stored, doubled>>

(* pump_output: the snapshot first; then an overflow is told before what is  *)
(* still queued.                                                             *)
Pump(t) ==
    LET x == term[t]
        show(chunk) == [x EXCEPT !.last = IF chunk = @ + 1 THEN chunk ELSE -1]
        tell(what) == [x EXCEPT !.told = what, !.at = "told", !.keyboard = FALSE]
    IN
    /\ x.at = "on"
    /\ \/ /\ x.snapshot # <<>>
          /\ term' = [term EXCEPT ![t] =
                        [show(Head(x.snapshot)) EXCEPT !.snapshot = Tail(@)]]
       \/ /\ x.snapshot = <<>> /\ x.over
          /\ term' = [term EXCEPT ![t] = tell("slow")]
       \/ /\ x.snapshot = <<>> /\ ~x.over /\ x.queue # <<>>
          /\ term' = [term EXCEPT ![t] =
                        IF Head(x.queue) = 0 THEN tell("exit")
                        ELSE [show(Head(x.queue)) EXCEPT !.queue = Tail(@)]]
    /\ UNCHANGED <<ptys, sessions, launch, stored, doubled, brokerLeft>>

DetachTerminal(t) ==
    /\ term[t].at # "off"
    /\ term' = [term EXCEPT ![t] = Detached]
    /\ UNCHANGED <<ptys, sessions, launch, stored, doubled, brokerLeft>>

BrokerNext ==
    \/ \E l \in Launchers : FinishResume(l) \/ \E s \in Transcripts : Resume(l, s)
    \/ \E s \in Transcripts, mode \in StoredModes : PreferMode(s, mode)
    \/ \E i \in DOMAIN ptys : \/ ModeChanges(i) \/ Produce(i) \/ OnReadable(i)
                              \/ TuiExits(i) \/ NoticeExit(i)
    \/ \E t \in Terminals : Pump(t) \/ DetachTerminal(t) \/ \E s \in Transcripts : AttachTerminal(t, s)

BrokerSpec == BrokerInit /\ [][BrokerNext]_brokerVars
----------------------------------------------------------------------------
(* Types; the table names sessions of its ids.                               *)
BrokerTypeOK ==
    /\ \A s \in Registered : sessions[s] \in DOMAIN ptys /\ ptys[sessions[s]].id = s
    /\ \A i \in DOMAIN ptys : ptys[i].unread \in 0..ptys[i].made /\ ptys[i].mode \in StoredModes
    /\ \A t \in Terminals : Len(term[t].queue) <= QueueEvents \/ term[t].told = "exit"
    /\ Len(stored) <= StoreLimit

(* A queue ends with the exit, or is output only.                            *)
ExitQueued(q) == q # <<>> /\ q[Len(q)] = 0
Output(q) == IF ExitQueued(q) THEN SubSeq(q, 1, Len(q) - 1) ELSE q

(* What an attached terminal has been shown and what waits for it is the     *)
(* output of its TUI without a hole, from the recent history on; it misses   *)
(* the end only if it has been or will be told that it was too slow, and is  *)
(* told of the exit after all of the output.                                 *)
TerminalSeesAll ==
    \A t \in Terminals :
       LET x == term[t]
           waiting == x.snapshot \o Output(x.queue)
       IN  x.at # "off" =>
             /\ x.last >= 0
             /\ \A k \in DOMAIN waiting : waiting[k] = x.last + k
             /\ x.told = "exit" => x.last = ptys[x.of].made
             /\ x.at = "on" /\ ~x.over =>
                  /\ x.last + Len(waiting) = ReadSoFar(x.of)
                  /\ ~Running(x.of) => ExitQueued(x.queue)

(* One attached terminal at most has the keyboard of a TUI.                  *)
KeyboardIsOnes == \A i \in DOMAIN ptys : Cardinality(KeyboardOwner(i)) <= 1

(* A transcript has one TUI, the one the table names; unless it was resumed  *)
(* twice while the broker closed its exited session (create checks, awaits   *)
(* the close, and starts without looking again).                             *)
OneTuiPerTranscript ==
    \A i \in DOMAIN ptys :
       Running(i) => sessions[ptys[i].id] = i \/ ptys[i].id \in doubled

(* The mode stored for the next start is the one the running TUI has.        *)
StoredIsTrue ==
    \A s \in Registered \ doubled :
       Running(sessions[s]) =>
          \A k \in StoredFor(s) : stored[k].mode = ptys[sessions[s]].mode

SessionsSafe ==
    BrokerTypeOK /\ TerminalSeesAll /\ KeyboardIsOnes /\ OneTuiPerTranscript /\ StoredIsTrue
=============================================================================
