--------------------------- MODULE SessionReplay ---------------------------
(***************************************************************************)
(* How one browser page keeps a gap-free view of one session's event       *)
(* stream across lost wrapper links, lost browser sockets, wrapper         *)
(* restarts and sessions evicted from the pool and re-spawned.             *)
(*                                                                         *)
(*   wrapper   the session's ring (RingBuffer), the serial command lane    *)
(*             that answers hellos (WrapperMachine._handle_client_hello)   *)
(*             and the outbound queue of WrapperTransport                  *)
(*   relay     forwards in order to the registered connection of the       *)
(*             client (RelayHub); announces a new wrapper link             *)
(*   page      the cursor, generation and rebuild state of web/src/ws.ts   *)
(*                                                                         *)
(* The wrapper and the relay never retransmit: what a link loses is made   *)
(* up by the next hello, which names the page's cursor.                    *)
(***************************************************************************)
EXTENDS RingBuffer

CONSTANTS
    MaxSeq,         \* bound: events per incarnation of the ring
    MaxPreload,     \* bound: transcript events preloaded by a re-spawn
    Faults          \* bound: a behaviour has one of these budgets of faults

\* Restarts, evictions from the pool, lost wrapper links, and the page's sockets.
Budgets == [restarts : Nat, evictions : Nat, drops : Nat, conns : Nat]

ASSUME ReplayAssumption == {MaxSeq, MaxPreload} \subseteq Nat /\ Faults \subseteq Budgets

VARIABLES
    gen,            \* instance_id of the running wrapper
    booting,        \* run() has not reached its command loop yet
    resident,       \* the session is in WrapperMachine.sessions
    ep,             \* history: which incarnation of the ring this is
    ring,           \* ctx.buffer; ring.tail is also ctx.seq
    turn,           \* 0 when idle, else the seq of the running turn's user_msg
    link,           \* the wrapper's relay link is up
    sendQ,          \* frames sent by the wrapper and not yet relayed
    inbox,          \* client hellos the wrapper has not yet handled
    conn,           \* the page's registered socket, 0 when it has none
    down,           \* frames relayed to that socket and not yet received
    cur,            \* lastSeqBySession[sid], NoCursor when undefined
    cgen,           \* generationBySession[sid], 0 when undefined
    rebuilding,     \* sid \in rebuildingSessions
    view,           \* events applied since the view was last cleared
    base,           \* history: up to here the transcript page stands for events
    vep,            \* history: the incarnation the page was last told of
    waiting,        \* history: no hello of this socket has been answered yet
    overtaken,      \* history: a frame was accepted while waiting
    respawned,      \* history: an incarnation ended without a new generation
    left            \* history: the faults that may still happen

wrapperVars == <<gen, booting, resident, ep, ring, turn>>
wireVars    == <<link, sendQ, inbox>>
sockVars    == <<conn, down>>
pageVars    == <<cur, cgen, rebuilding, view, base, vep, waiting, overtaken>>
vars == <<wrapperVars, wireVars, sockVars, pageVars, respawned, left>>

NoCursor == -1

-----------------------------------------------------------------------------
(* Frames.  route = 0 reaches whatever socket the page has; the answer to the *)
(* first hello of a socket carries that socket's route_id.  Four fields are   *)
(* not on the wire and serve the properties: e, the incarnation; base, what   *)
(* the transcript covers; before, the number before an envelope's first       *)
(* event; sock, the socket that asked.                                        *)
WrapperHello     == [type |-> "hello", gen |-> gen, route |-> 0]
EventFrame(s, r) == [type |-> "event", seq |-> s, e |-> ep, route |-> r]
SnapshotFrame(b, h) ==
    [type |-> "snapshot", gen |-> gen, e |-> ep, base |-> b, route |-> h.route, sock |-> h.sock]

\* The frames of a replay envelope, in the order they are sent.
EnvelopeFrames(env, h) ==
    <<[type |-> "replay_start", gen |-> gen, e |-> ep, to |-> env.to,
       before |-> IF env.events = <<>> THEN env.to ELSE env.events[1].seq - 1,
       rebuild |-> env.rebuild, truncated |-> env.truncated, route |-> h.route, sock |-> h.sock]>>
    \o [i \in 1..Len(env.events) |-> EventFrame(env.events[i].seq, h.route)]
    \o <<[type |-> "replay_end", to |-> env.to, route |-> h.route]>>

\* WrapperTransport.send: a frame sent while the link is down is dropped.
Sent(frames) == IF link THEN sendQ \o frames ELSE sendQ

-----------------------------------------------------------------------------
Init ==
    /\ gen = 1 /\ booting = FALSE /\ resident = TRUE /\ ep = 1 /\ ring = EmptyRing /\ turn = 0
    /\ link = TRUE /\ sendQ = <<WrapperHello>> /\ inbox = <<>>
    /\ conn = 0 /\ down = <<>>
    /\ cur = NoCursor /\ cgen = 0 /\ rebuilding = FALSE
    /\ view = <<>> /\ base = 0 /\ vep = 0
    /\ waiting = FALSE /\ overtaken = FALSE /\ respawned = FALSE
    /\ left \in Faults

(* The session's producer: stamp, buffer and send under emit_lock. *)
Emit(user) ==
    /\ resident
    /\ ring.tail < MaxSeq
    /\ ring' = RingAppend(ring, [seq |-> ring.tail + 1, size |-> 1, user |-> user])
    /\ sendQ' = Sent(<<EventFrame(ring.tail + 1, 0)>>)
    /\ UNCHANGED <<gen, booting, resident, ep, link, inbox, sockVars, pageVars, respawned, left>>

EmitUser  == turn = 0 /\ Emit(TRUE) /\ turn' = ring.tail + 1
EmitDelta == Emit(FALSE) /\ UNCHANGED turn
EmitIdle  == turn # 0 /\ Emit(FALSE) /\ turn' = 0

HelloFramesAnyGeneration(h) ==      \* mutant: the cursor is taken at face value
    EnvelopeFrames(ReplayFrom(ring, Larger(0, h.cursor)), h)

(* Answer one client hello.  Everything for this session goes out under      *)
(* emit_lock, so no live event of it lands inside the envelope.              *)
HelloFrames(h) ==
    IF h.cursor # NoCursor
    THEN EnvelopeFrames(IF h.gen = gen THEN ReplayFrom(ring, h.cursor)
                        ELSE RebuildReplay(ring), h)
    ELSE LET replay == IF turn = 0 THEN {} ELSE CurrentTurnReplay(ring, turn)
             whole  == \E env \in replay : ~env.truncated
         IN  IF replay = {}
             THEN <<SnapshotFrame(ring.tail, h)>>
             ELSE <<SnapshotFrame(IF whole THEN turn - 1 ELSE ring.tail, h)>>
                  \o EnvelopeFrames(CHOOSE env \in replay : TRUE, h)

HandleClientHello ==
    /\ ~booting
    /\ inbox # <<>>
    /\ inbox' = Tail(inbox)
    /\ sendQ' = IF resident THEN Sent(HelloFrames(Head(inbox))) ELSE sendQ
    /\ UNCHANGED <<wrapperVars, link, sockVars, pageVars, respawned, left>>

(* An idle session that is not focused makes room for another one. *)
Evict ==
    /\ resident /\ turn = 0
    /\ left.evictions > 0
    /\ resident' = FALSE
    /\ respawned' = TRUE
    /\ left' = [left EXCEPT !.evictions = @ - 1]
    /\ UNCHANGED <<gen, booting, ep, ring, turn, wireVars, sockVars, pageVars>>

Nobody == [route |-> 0, sock |-> 0]

\* A run of n events appended to an empty ring.
Preloaded(n) ==
    LET upTo[i \in 0..n] ==
            IF i = 0 THEN EmptyRing
            ELSE RingAppend(upTo[i - 1], [seq |-> i, size |-> 1, user |-> FALSE])
    IN  upTo[n]

\* A fresh SessionContext: new ring, optionally filled from the transcript.
Spawned(n) ==
    /\ resident' = TRUE
    /\ ep' = ep + 1
    /\ ring' = Preloaded(n)
    /\ turn' = 0

(* switch_session to a session that is not resident: _spawn makes a fresh    *)
(* ring, _load_history may fill it, and a Snapshot announces the session.    *)
Respawn ==
    /\ ~booting /\ ~resident
    /\ \E n \in 0..MaxPreload :
        /\ Spawned(n)
        /\ sendQ' = Sent(<<[SnapshotFrame(n, Nobody) EXCEPT !.e = ep + 1]>>)
    /\ UNCHANGED <<gen, booting, link, inbox, sockVars, pageVars, respawned, left>>

(* The wrapper process dies and is restarted: a new instance_id and nothing  *)
(* resident.  Its transport may connect before the bootstrap session exists. *)
Restart ==
    /\ left.restarts > 0
    /\ left' = [left EXCEPT !.restarts = @ - 1]
    /\ gen' = gen + 1
    /\ booting' = TRUE
    /\ resident' = FALSE
    /\ turn' = 0
    /\ link' = FALSE /\ sendQ' = <<>> /\ inbox' = <<>>
    /\ UNCHANGED <<ep, ring, sockVars, pageVars, respawned>>

(* run() bootstraps a session, this one or another, announces it again and   *)
(* enters the command loop; without one it continues with an empty pool.     *)
Boot ==
    /\ booting
    /\ booting' = FALSE
    /\ \/ \E n \in 0..MaxPreload : Spawned(n) /\ sendQ' = Sent(<<WrapperHello>>)
       \/ sendQ' = Sent(<<WrapperHello>>) /\ UNCHANGED <<resident, ep, ring, turn>>
       \/ UNCHANGED <<sendQ, resident, ep, ring, turn>>
    /\ UNCHANGED <<gen, link, inbox, sockVars, pageVars, respawned, left>>

(* WrapperTransport._run: losing the link drains what was not sent and bumps *)
(* the socket generation; hellos already in the inbox stay there.            *)
LinkDown ==
    /\ link
    /\ left.drops > 0
    /\ link' = FALSE
    /\ sendQ' = <<>>
    /\ \E n \in 0..Len(inbox) : inbox' = SubSeq(inbox, 1, n)
    /\ left' = [left EXCEPT !.drops = @ - 1]
    /\ UNCHANGED <<wrapperVars, sockVars, pageVars, respawned>>

\* on_connected puts the wrapper's hello before anything else on a new link.
LinkUp ==
    /\ ~link
    /\ link' = TRUE
    /\ sendQ' = <<WrapperHello>>
    /\ UNCHANGED <<wrapperVars, inbox, sockVars, pageVars, respawned, left>>

(* RelayHub._on_wrapper_msg: a hello becomes wrapper_reconnected for every   *)
(* page; a frame routed to an older socket of the page is dropped.           *)
Relay ==
    /\ sendQ # <<>>
    /\ sendQ' = Tail(sendQ)
    /\ LET f == Head(sendQ)
           g == IF f.type = "hello" THEN [f EXCEPT !.type = "wrapper_reconnected"] ELSE f
       IN  down' = IF conn # 0 /\ f.route \in {0, conn} THEN Append(down, g) ELSE down
    /\ UNCHANGED <<wrapperVars, link, inbox, conn, pageVars, respawned, left>>

-----------------------------------------------------------------------------
(* The page.  A hello that finds no wrapper is answered with an error: the   *)
(* page waits for wrapper_reconnected.                                       *)
HelloSent(route, sock) ==
    IF link
    THEN Append(inbox, [cursor |-> cur, gen |-> cgen, route |-> route, sock |-> sock])
    ELSE inbox

\* A new socket: the relay registers it before it forwards the hello.
Connect ==
    /\ conn = 0
    /\ left.conns > 0
    /\ conn' = left.conns
    /\ left' = [left EXCEPT !.conns = @ - 1]
    /\ inbox' = HelloSent(conn', conn')
    /\ waiting' = TRUE
    /\ UNCHANGED <<wrapperVars, link, sendQ, down, cur, cgen, rebuilding, view, base, vep,
                   overtaken, respawned>>

\* The socket is gone: closed by either side, too slow, or half-open.
Disconnect ==
    /\ conn # 0
    /\ left.conns > 0
    /\ conn' = 0
    /\ down' = <<>>
    /\ UNCHANGED <<wrapperVars, wireVars, pageVars, respawned, left>>

\* noteSeq: the cursor only moves forward.
NoteSeq(c, s) == Larger(IF c = NoCursor THEN 0 ELSE c, s)

\* noteGeneration: a sequence number means nothing in another generation.
NoteGeneration(c, g) == IF cgen \notin {0, g} THEN 0 ELSE c

OnWrapperReconnectedIdle(f) ==      \* mutant: the page does not ask again
    /\ f.type = "wrapper_reconnected"
    /\ UNCHANGED <<inbox, cur, cgen, rebuilding, view, base, vep, waiting, overtaken>>

OnWrapperReconnected(f) ==
    /\ f.type = "wrapper_reconnected"
    /\ inbox' = HelloSent(0, conn)
    /\ waiting' = TRUE
    /\ UNCHANGED <<cur, cgen, rebuilding, view, base, vep, overtaken>>

OnSnapshot(f) ==
    /\ f.type = "snapshot"
    /\ cur' = NoteGeneration(cur, f.gen)
    /\ cgen' = f.gen
    /\ rebuilding' = FALSE
    /\ base' = f.base
    /\ vep' = f.e
    /\ waiting' = (waiting /\ f.sock # conn)
    /\ UNCHANGED <<inbox, view, overtaken>>

\* A rebuild starts a new numbering; a rebuild or a gap clears the page's turns
\* and has it fetch the transcript.
OnReplayStart(f) ==
    /\ f.type = "replay_start"
    /\ cur' = IF f.rebuild THEN 0 ELSE NoteGeneration(cur, f.gen)
    /\ cgen' = f.gen
    /\ rebuilding' = f.rebuild
    /\ vep' = f.e
    /\ waiting' = (waiting /\ f.sock # conn)
    /\ IF f.rebuild \/ f.truncated
       THEN /\ view' = <<>>
            /\ base' = IF f.truncated THEN f.to ELSE 0
            /\ overtaken' = FALSE
       ELSE /\ base' = IF cur = NoCursor THEN f.before ELSE base
            /\ UNCHANGED <<view, overtaken>>
    /\ UNCHANGED inbox

StaleOffByOne(s) == ~rebuilding /\ s < cur      \* mutant

Stale(s) == ~rebuilding /\ s <= (IF cur = NoCursor THEN 0 ELSE cur)

OnEvent(f) ==
    /\ f.type = "event"
    /\ IF Stale(f.seq)
       THEN UNCHANGED <<cur, view, overtaken>>
       ELSE /\ cur' = NoteSeq(cur, f.seq)
            /\ view' = Append(view, [e |-> f.e, seq |-> f.seq])
            /\ overtaken' = (overtaken \/ waiting)
    /\ UNCHANGED <<inbox, cgen, rebuilding, base, vep, waiting>>

OnReplayEnd(f) ==
    /\ f.type = "replay_end"
    /\ cur' = NoteSeq(cur, f.to)
    /\ rebuilding' = FALSE
    /\ overtaken' = (overtaken \/ waiting)
    /\ UNCHANGED <<inbox, cgen, view, base, vep, waiting>>

Receive ==
    /\ down # <<>>
    /\ down' = Tail(down)
    /\ \/ OnWrapperReconnected(Head(down))
       \/ OnSnapshot(Head(down))
       \/ OnReplayStart(Head(down))
       \/ OnEvent(Head(down))
       \/ OnReplayEnd(Head(down))
    /\ UNCHANGED <<wrapperVars, link, sendQ, conn, respawned, left>>

-----------------------------------------------------------------------------
Next ==
    \/ EmitUser \/ EmitDelta \/ EmitIdle
    \/ HandleClientHello
    \/ Evict \/ Respawn \/ Restart \/ Boot
    \/ LinkDown \/ LinkUp \/ Relay
    \/ Connect \/ Disconnect \/ Receive

Spec == Init /\ [][Next]_vars

(* The event loops run: the wrapper boots and drains its inbox, its transport *)
(* reconnects, the relay and the page handle what they received, and the     *)
(* page opens a new socket after a loss.  A session that was evicted comes   *)
(* back only when somebody switches to it.                                   *)
Fairness ==
    /\ WF_vars(HandleClientHello)
    /\ WF_vars(Boot)
    /\ WF_vars(LinkUp)
    /\ WF_vars(Relay)
    /\ WF_vars(Connect)
    /\ WF_vars(Receive)

FairSpec == Spec /\ Fairness

-----------------------------------------------------------------------------
Frames == {sendQ[i] : i \in 1..Len(sendQ)} \cup {down[i] : i \in 1..Len(down)}

ReplayTypeOK ==
    /\ gen \in Nat \ {0} /\ ep \in Nat /\ turn \in 0..ring.tail
    /\ {booting, resident, link, rebuilding, waiting, overtaken, respawned} \subseteq BOOLEAN
    /\ ring.tail \in 0..MaxSeq /\ ring.dropped \in 0..ring.tail
    /\ conn \in Nat /\ left \in Budgets
    /\ cur \in {NoCursor} \cup 0..MaxSeq
    /\ cgen \in 0..gen /\ base \in 0..MaxSeq /\ vep \in 0..ep
    /\ ~link => sendQ = <<>>
    /\ conn = 0 => down = <<>>
    /\ {f.type : f \in Frames} \subseteq
         {"hello", "wrapper_reconnected", "snapshot", "replay_start", "event", "replay_end"}

SeenIn(e) == {view[i].seq : i \in {j \in 1..Len(view) : view[j].e = e}}

\* The meaning of the cursor: every event up to it was applied, or lies at or
\* below the point the transcript page covers.
CursorHonest == cur # NoCursor => (base + 1)..cur \subseteq SeenIn(vep)

(* Every event reaches the reducer at most once and in emission order: what  *)
(* replay, live delivery and a re-sent hello deliver twice is applied once.  *)
(* The exception is an event of a restarted wrapper accepted before the      *)
(* answer to the hello: the answer's new generation resets the cursor        *)
(* (ws.ts:276), and a page that had none before gets no rebuild.             *)
AppliedOrdered ==
    \A i, j \in 1..Len(view) :
        (i < j /\ view[i].e = view[j].e)
            => (view[i].seq < view[j].seq \/ (overtaken /\ gen > 1))

(* The page never skips an event without having been told of a gap, except   *)
(* for two known causes: a frame accepted between a hello and its answer     *)
(* (NoSilentLoss below) or a ring replaced within one wrapper lifetime       *)
(* (CursorWithinTail below).  Lost links, lost sockets, restarts, cut        *)
(* envelopes and answers meant for an older socket are not causes.           *)
LossHasKnownCause == CursorHonest \/ overtaken \/ respawned

(* When nothing is in flight and both links are up, a page with a cursor of  *)
(* the running wrapper is not behind the ring: no lost frame leaves it       *)
(* waiting with nothing to make it ask again.                                *)
Quiet == link /\ conn # 0 /\ resident /\ sendQ = <<>> /\ inbox = <<>> /\ down = <<>>

QuietMeansCaughtUp ==
    (Quiet /\ cgen = gen /\ cur # NoCursor) => Larger(cur, base) >= ring.tail

(* Once the links stop failing and the session stays resident, the page ends *)
(* up on the running wrapper's generation and not behind the ring.           *)
CatchesUp ==
    <>[](resident /\ conn # 0)
        => <>[](cgen = gen /\ (cur # NoCursor => Larger(cur, base) >= ring.tail))

(* transport.py:5-7 and the comment at ws.ts:1282: a frame lost by the link  *)
(* or dropped as stale was never the only copy, so nothing is lost.          *)
NoSilentLoss == (Quiet /\ vep = ep) => CursorHonest

(* ws.ts:1270: a rebuild is a new sequence epoch even when the wrapper       *)
(* generation stayed constant.  So a page that was told of the session's     *)
(* current ring holds no cursor from an earlier one.                         *)
CursorWithinTail == (Quiet /\ vep = ep) => cur <= ring.tail

\* Pages, relay and wrapper always: nothing applied out of order, no loss without
\* a known cause.
ReplaySafe ==
    /\ ReplayTypeOK
    /\ AppliedOrdered
    /\ LossHasKnownCause
=============================================================================
