---------------------------- MODULE SessionRing -----------------------------
(***************************************************************************)
(* One resident session of the wrapper as a producer of events: each       *)
(* downstream event takes the session's next sequence number and enters    *)
(* the replay ring in the same step, because both happen under the         *)
(* session's emit_lock (WrapperMachine._emit_locked, and _load_history,    *)
(* which pre-fills the ring of a resumed session).                         *)
(***************************************************************************)
EXTENDS RingBuffer

CONSTANT Sizes      \* the serialized sizes an event may have

ASSUME SizesAssumption == Sizes \subseteq Nat \ {0}

VARIABLES
    seq,            \* ctx.seq: the last sequence number handed out
    ring,           \* ctx.buffer
    turnStart       \* history: the seq of the latest user_msg, 0 before any

vars == <<seq, ring, turnStart>>

Init ==
    /\ seq = 0
    /\ ring = EmptyRing
    /\ turnStart = 0

Emit(size, user) ==
    /\ seq' = seq + 1
    /\ ring' = RingAppend(ring, [seq |-> seq + 1, size |-> size, user |-> user])
    /\ turnStart' = IF user THEN seq + 1 ELSE turnStart

Next == \E size \in Sizes, user \in BOOLEAN : Emit(size, user)

Spec == Init /\ [][Next]_vars

-----------------------------------------------------------------------------
RingTypeOK ==
    /\ seq \in Nat
    /\ ring \in [buf : Seq(Event), bytes : Int, tail : Nat, dropped : Nat]
    /\ turnStart \in 0..seq

SeqsOf(b) == {b[i].seq : i \in 1..Len(b)}

Ordered(b) == \A i, j \in 1..Len(b) : i < j => b[i].seq < b[j].seq

\* The ring's own bookkeeping: retained events are in emission order, the
\* logical tail is the last number handed out even when that event was too
\* large to keep, the highest dropped number is really gone, and nothing above
\* it is.
NothingLostAboveDropped ==
    /\ Ordered(ring.buf)
    /\ ring.tail = seq
    /\ ring.dropped <= ring.tail
    /\ ring.dropped \notin SeqsOf(ring.buf)
    /\ SeqsOf(ring.buf) \subseteq 1..ring.tail
    /\ (ring.dropped + 1)..ring.tail \subseteq SeqsOf(ring.buf)

\* Both limits hold after every append, and the incrementally maintained byte
\* count never drifts from the retained events, whatever mix of evictions and
\* refused oversized events came before.
WithinBudget ==
    /\ Len(ring.buf) <= MaxEvents
    /\ ring.bytes = SizeOf(ring.buf)
    /\ ring.bytes <= MaxBytes

\* replay_from tells the truth for every cursor a client can present, one from
\* the future included: the envelope is flagged truncated exactly when it does
\* not carry every event between the client's base and the envelope's end.
ReplayExact ==
    \A last \in 0..(seq + 1) :
        LET env  == ReplayFrom(ring, last)
            base == IF env.rebuild THEN 0 ELSE last
        IN  env.truncated <=> SeqsOf(env.events) # (base + 1)..env.to

\* What current_turn_replay hands a client without a cursor is the whole of
\* the latest turn, from its user_msg to the tail, unless it is flagged: an
\* older turn is never passed off as the current one. A turn whose user_msg has
\* fallen off the ring is reported when the caller does not name it
\* (test_current_turn_replay_reports_evicted_user_message); a caller that names
\* it, as _handle_client_hello does, is answered nothing.
TurnReplayHonest ==
    /\ \A start \in {AnyUser, turnStart} :
        \A env \in CurrentTurnReplay(ring, start) :
            ~env.truncated => SeqsOf(env.events) = turnStart..env.to
    /\ turnStart # 0 /\ turnStart \notin SeqsOf(ring.buf)
        => \E env \in CurrentTurnReplay(ring, AnyUser) : env.truncated

\* The ring always: typed, within both limits, and honest about what is lost.
RingSafe ==
    /\ RingTypeOK
    /\ NothingLostAboveDropped
    /\ WithinBudget
    /\ ReplayExact
=============================================================================
