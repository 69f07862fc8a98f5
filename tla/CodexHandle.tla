---------------------------- MODULE CodexHandle ----------------------------
(***************************************************************************)
(* What one CodexHandle knows of the turns of its app-server, and how each *)
(* call and each notification changes it (cc_remote/wrapper/codex_handle). *)
(* A managed turn was asked for by query(); an automatic turn was started  *)
(* by the app-server. A stream is the bounded queue between the stdout     *)
(* reader and the consumer of one turn, abstracted to whether its terminal *)
(* frame, or the sentinel of a closed connection, is in it.                *)
(***************************************************************************)
CONSTANTS
    Queries,    \* turns asked for by query(), named by their msg_id
    Autos,      \* turns the app-server starts by itself
    None        \* no turn

ASSUME TurnAssumption == Queries \cap Autos = {} /\ None \notin Queries \cup Autos

Turns == Queries \cup Autos

(* alive   the app-server answers        pend  turn_start_pending             *)
(* active  turn_active                   turn  turn_id                        *)
(* mq      the query whose queue _turn_q is                                   *)
(* sp      _spontaneous_turn_id          sq    _spontaneous_queue_turn_id     *)
(* stream  what the queue of a turn, managed or not, holds                    *)
StreamStates == {"open", "terminal", "closed"}
Handles ==
    [alive : BOOLEAN, active : BOOLEAN, pend : BOOLEAN,
     turn : Turns \cup {None}, mq : Queries \cup {None},
     sp : Turns \cup {None}, sq : Turns \cup {None},
     managed : [Queries -> StreamStates], auto : [Turns -> StreamStates]]

Connected ==
    [alive |-> TRUE, active |-> FALSE, pend |-> FALSE, turn |-> None,
     mq |-> None, sp |-> None, sq |-> None,
     managed |-> [q \in Queries |-> "open"], auto |-> [t \in Turns |-> "open"]]

\* The sentinel never replaces a terminal frame
Closed(stream) == IF stream = "open" THEN "closed" ELSE stream
Ended(stream)  == IF stream = "open" THEN "terminal" ELSE stream

\* _close_spontaneous_stream
SpontaneousClosed(h, t) ==
    IF h.sq = None \/ (t # None /\ t # h.sq) THEN h
    ELSE [h EXCEPT !.auto[h.sq] = Closed(@)]

\* query(), before its request: the managed stream is opened and the turn
\* counts as active before it has an id
Queried(h, q) ==
    [h EXCEPT !.mq = q, !.turn = None, !.active = TRUE, !.pend = TRUE]

\* query(), after its request: a turn that is over already gets no id
Accepted(h, q) ==
    [h EXCEPT !.pend = FALSE, !.turn = IF h.active THEN q ELSE @]
Refused(h, q) ==
    [h EXCEPT !.pend = FALSE, !.active = FALSE, !.turn = None,
              !.mq = IF @ = q THEN None ELSE @]

\* The end of receive_response and of receive_spontaneous_response
Received(h, q) ==
    [h EXCEPT !.mq = IF @ = q THEN None ELSE @,
              !.active = IF h.sp = None THEN FALSE ELSE @]
ReceivedAuto(h, t) ==
    [h EXCEPT !.sq = IF @ = t THEN None ELSE @]

\* mutant: the consumer of the managed turn is not told
AtEofSilent(h) ==
    [SpontaneousClosed([h EXCEPT !.sp = None], h.sp) EXCEPT !.alive = FALSE, !.active = FALSE]
\* The reader meets the end of stdout
AtEof(h) ==
    LET closed == SpontaneousClosed([h EXCEPT !.sp = None], h.sp)
        ended  == [closed EXCEPT !.alive = FALSE, !.active = FALSE]
    IN  IF h.mq = None THEN ended ELSE [ended EXCEPT !.managed[h.mq] = Closed(@)]

\* disconnect
Disconnected(h) ==
    [AtEof(h) EXCEPT !.mq = None, !.turn = None, !.pend = FALSE]

----------------------------------------------------------------------------
(* _notification_is_current and _dispatch *)

StartedIsCurrent(h, t)   == ~h.active \/ h.turn \in {None, t}
CompletedIsCurrent(h, t) == IF h.turn = None THEN h.active \/ h.pend ELSE h.turn = t

\* A turn that starts while none is active is automatic
StartsAlone(h) == ~h.active

\* turn/started: an automatic turn detaches the managed stream and gets its own
Started(h, t) ==
    IF ~StartsAlone(h) THEN [h EXCEPT !.turn = t]
    ELSE [SpontaneousClosed(h, h.sq) EXCEPT
             !.turn = t, !.active = TRUE, !.mq = None,
             !.sp = t, !.sq = t, !.auto[t] = "open"]

\* turn/completed: the frame goes to the managed stream when there is one
Completed(h, t) ==
    LET over == [h EXCEPT !.active = FALSE, !.turn = None,
                          !.sp = IF @ = t THEN None ELSE @]
    IN  IF h.mq # None THEN [over EXCEPT !.managed[h.mq] = Ended(@)]
        ELSE IF h.sp # None /\ h.sq # None THEN [over EXCEPT !.auto[h.sq] = Ended(@)]
        ELSE over
=============================================================================
