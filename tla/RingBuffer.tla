----------------------------- MODULE RingBuffer -----------------------------
(***************************************************************************)
(* The per-session replay ring of the wrapper                              *)
(* (cc_remote/wrapper/ringbuffer.py).                                      *)
(*                                                                         *)
(* Every downstream event a session emits is stamped with the session's    *)
(* next sequence number and appended here.  A client that (re)connects     *)
(* names the last sequence number it saw, and the ring answers with an     *)
(* envelope: the retained events above that cursor between a replay_start  *)
(* and a replay_end, and a flag that says whether any event the client     *)
(* missed is no longer retained.                                           *)
(*                                                                         *)
(* A ring is a record; the operators below are the methods of the class.   *)
(* An event is its sequence number, its serialized size and whether it is  *)
(* a user_msg (the only kind the ring looks for).                          *)
(***************************************************************************)
EXTENDS Integers, Sequences, FiniteSetsExt

CONSTANTS
    MaxEvents,      \* ring_max_events
    MaxBytes        \* ring_max_bytes

ASSUME RingAssumption == MaxEvents \in Nat \ {0} /\ MaxBytes \in Nat \ {0}

Event == [seq : Nat \ {0}, size : Nat \ {0}, user : BOOLEAN]

EmptyRing == [buf |-> <<>>, bytes |-> 0, tail |-> 0, dropped |-> 0]

\* The serialized size of a run of events.
SizeOf(b) == LET upTo[i \in 0..Len(b)] == IF i = 0 THEN 0 ELSE upTo[i-1] + b[i].size
             IN  upTo[Len(b)]

Larger(m, n) == IF m <= n THEN n ELSE m

-----------------------------------------------------------------------------
(* append *)

\* What is left of b once its first k events are gone.
Without(b, k) == SubSeq(b, k + 1, Len(b))

Overfull(b, bytes) == Len(b) > MaxEvents \/ bytes > MaxBytes

\* The eviction loop may stop after k steps when the ring fits, and must stop
\* when a single event is left; it stops at the first such k.
StopPoints(b, bytes) ==
    {k \in 0..(Len(b) - 1) :
        \/ k = Len(b) - 1
        \/ ~Overfull(Without(b, k), bytes - SizeOf(SubSeq(b, 1, k)))}

EvictCount(b, bytes) == Min(StopPoints(b, bytes))

Retain(r, e) ==
    LET b     == Append(r.buf, e)
        bytes == r.bytes + e.size
        k     == EvictCount(b, bytes)
    IN  [buf     |-> Without(b, k),
         bytes   |-> bytes - SizeOf(SubSeq(b, 1, k)),
         tail    |-> Larger(r.tail, e.seq),
         dropped |-> IF k = 0 THEN r.dropped ELSE Larger(r.dropped, b[k].seq)]

RingAppendUndeclared(r, e) ==       \* mutant: a refused event leaves no gap
    IF e.size > MaxBytes THEN [r EXCEPT !.tail = Larger(@, e.seq)] ELSE Retain(r, e)

\* An event larger than the whole budget is never retained: it only advances
\* the logical tail and leaves a declared gap.
RingAppend(r, e) ==
    IF e.size > MaxBytes
    THEN [buf     |-> r.buf,
          bytes   |-> r.bytes,
          tail    |-> Larger(r.tail, e.seq),
          dropped |-> Larger(r.dropped, e.seq)]
    ELSE Retain(r, e)

-----------------------------------------------------------------------------
(* replay *)

HeadSeq(r) == IF r.buf = <<>> THEN 0 ELSE r.buf[1].seq

HasGapAfter(r, last) == last < r.dropped /\ r.dropped <= r.tail

Envelope(rebuild, truncated, to, events) ==
    [rebuild |-> rebuild, truncated |-> truncated, to |-> to, events |-> events]

RebuildReplay(r) == Envelope(TRUE, r.dropped > 0, r.tail, r.buf)

\* The retained events above a cursor.  The ring is in sequence order, so the
\* code's filter keeps a suffix: everything from the first event above it.
Above(b, last) ==
    Without(b, Min({k \in 0..Len(b) : k = Len(b) \/ b[k + 1].seq > last}))

\* replay_from with a cursor: a cursor beyond the tail belongs to an earlier
\* lifetime of the session and gets the whole ring as a rebuild.
ReplayFrom(r, last) ==
    IF last > r.tail
    THEN RebuildReplay(r)
    ELSE Envelope(FALSE,
                  \/ r.buf # <<>> /\ last + 1 < HeadSeq(r)
                  \/ HasGapAfter(r, last),
                  r.tail, Above(r.buf, last))

\* current_turn_replay: what a client without a cursor gets of a turn in
\* flight.  "start" is the sequence number of the turn's user_msg if the caller
\* knows one, AnyUser when it does not; the result is a set of at most one
\* envelope because the code may send none.
AnyUser == -1

TurnStarts(r, start) ==
    {i \in 1..Len(r.buf) : r.buf[i].user /\ (start = AnyUser \/ r.buf[i].seq = start)}

CurrentTurnReplayFirst(r, start) == \* mutant: the oldest match, not the latest
    IF TurnStarts(r, start) # {}
    THEN LET have == Without(r.buf, Min(TurnStarts(r, start)) - 1)
         IN  {Envelope(FALSE, r.dropped >= have[1].seq, r.tail, have)}
    ELSE {}

CurrentTurnReplay(r, start) ==
    IF TurnStarts(r, start) # {}
    THEN LET have == Without(r.buf, Max(TurnStarts(r, start)) - 1)
         IN  {Envelope(FALSE, r.dropped >= have[1].seq, r.tail, have)}
    ELSE IF start # AnyUser \/ r.tail = 0
    THEN {}
    ELSE {Envelope(FALSE, TRUE, r.tail, <<>>)}
=============================================================================
