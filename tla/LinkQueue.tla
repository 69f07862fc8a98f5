----------------------------- MODULE LinkQueue -----------------------------
(***************************************************************************)
(* The wrapper's connection to the relay (wrapper/transport.py): the byte  *)
(* queue that producers wait on, the generations of its sockets, the       *)
(* sender that discards what belongs to an older one, and the receiver.    *)
(* An action is what runs between two awaits.                              *)
(***************************************************************************)
EXTENDS Naturals, Sequences

CONSTANTS
    Producers,   \* tasks that send: session emitters, handlers
    SizeOf,      \* the size of the frames of each producer, and of HelloTask's
    MaxBytes,    \* _ByteQueue.max_bytes of the send queue
    MaxItems,    \* its maxsize
    InboxCap,    \* room in the inbox, in commands
    HelloTask,   \* _run itself, in on_connected
    MaxFrames,   \* bound: frames of the producers
    MaxLosses,   \* bound: sockets that die
    MaxCommands  \* bound: commands from the relay

ASSUME LinkAssumption ==
    /\ HelloTask \notin Producers
    /\ MaxBytes \in Nat \ {0} /\ MaxItems \in Nat \ {0}
    /\ InboxCap \in Nat \ {0}
    /\ SizeOf \in [Producers \cup {HelloTask} -> Nat \ {0}]
    /\ SizeOf[HelloTask] <= MaxBytes
    /\ MaxFrames \in Nat /\ MaxLosses \in Nat /\ MaxCommands \in Nat

VARIABLES
    run,        \* where _run is
    socket,     \* the socket still works
    generation, \* _generation
    queue,      \* _send_q._items: frames with the generation they were sent under
    queued,     \* _send_q._bytes
    waiting,    \* the frame each task waits in put with, NoFrame if it does not
    woken,      \* tasks that a notify_all has woken and that have not run since
    sending,    \* what the sender has taken and is writing, NoFrame if nothing
    inbox,      \* commands in _inbox
    receiver,   \* idle, or waiting for room in the inbox
    closed      \* stop() has closed both queues

VARIABLES
    wire,       \* history: frames written on this socket
    frames,     \* history: frames sent so far
    commands,   \* history: commands received so far
    losses,     \* history: sockets that have died
    crammed     \* history: a hello met a queue too full for it

linkVars == <<run, socket, generation, queue, queued, waiting, woken, sending, inbox, receiver, closed,
              wire, frames, commands, losses, crammed>>

Senders == Producers \cup {HelloTask}
NoFrame == [by |-> HelloTask, gen |-> 0]
LinkOpen == run \in {"greeting", "up"}

\* mutant: the item itself is not counted
FitsAlready(t) == Len(queue) < MaxItems /\ queued < MaxBytes

Fits(t) == Len(queue) < MaxItems /\ queued + SizeOf[t] <= MaxBytes
Waiters == {t \in Senders : waiting[t] # NoFrame}

LinkInit ==
    /\ run = "down"
    /\ socket = FALSE
    /\ generation = 0
    /\ queue = <<>> /\ queued = 0
    /\ waiting = [t \in Senders |-> NoFrame]
    /\ woken = {}
    /\ sending = NoFrame
    /\ inbox = 0
    /\ receiver = "idle"
    /\ closed = FALSE
    /\ wire = <<>>
    /\ frames = 0
    /\ commands = 0
    /\ losses = 0
    /\ crammed = FALSE

Enqueues(f) == queue' = Append(queue, f) /\ queued' = queued + SizeOf[f.by]

\* put up to its first await: the frame goes in at once or its task waits.
Puts(t) ==
    LET f == [by |-> t, gen |-> generation'] IN
    IF Fits(t)
    THEN Enqueues(f) /\ woken' = Waiters /\ UNCHANGED waiting
    ELSE waiting' = [waiting EXCEPT ![t] = f] /\ UNCHANGED <<queue, queued, woken>>

\* send: nothing without a link, an oversized frame is refused.
Send(p) ==
    /\ frames < MaxFrames
    /\ waiting[p] = NoFrame
    /\ LinkOpen /\ ~closed
    /\ frames' = frames + 1
    /\ UNCHANGED generation
    /\ IF SizeOf[p] > MaxBytes THEN UNCHANGED <<queue, queued, waiting, woken>> ELSE Puts(p)
    /\ UNCHANGED <<run, socket, sending, inbox, receiver, closed, wire, commands, losses, crammed>>

\* A task woken in put looks again.
Recheck(t) ==
    /\ t \in woken
    /\ waiting[t] # NoFrame
    /\ IF closed
       THEN /\ waiting' = [waiting EXCEPT ![t] = NoFrame] /\ woken' = woken \ {t}
            /\ UNCHANGED <<queue, queued>>
       ELSE IF Fits(t)
       THEN /\ Enqueues(waiting[t])
            /\ waiting' = [waiting EXCEPT ![t] = NoFrame]
            /\ woken' = Waiters \ {t}
       ELSE woken' = woken \ {t} /\ UNCHANGED <<queue, queued, waiting>>
    /\ UNCHANGED <<run, socket, generation, sending, inbox, receiver, closed, wire, frames,
                   commands, losses, crammed>>

\* _run has a socket: the generation is new, and the hello is sent before the
\* sender of the socket exists.
Connect ==
    /\ run = "down"
    /\ ~closed
    /\ run' = "greeting"
    /\ socket' = TRUE
    /\ generation' = generation + 1
    /\ wire' = <<>>
    /\ Puts(HelloTask)
    /\ crammed' = (crammed \/ ~Fits(HelloTask))
    /\ UNCHANGED <<sending, inbox, receiver, closed, frames, commands, losses>>

\* on_connected has returned: sender and receiver start.
Greeted ==
    /\ run = "greeting"
    /\ waiting[HelloTask] = NoFrame
    /\ run' = "up"
    /\ UNCHANGED <<socket, generation, queue, queued, waiting, woken, sending, inbox, receiver, closed,
                   wire, frames, commands, losses, crammed>>

\* mutant: only the drain separates two sockets
StaleNever(f) == FALSE

Stale(f) == f.gen # generation

\* The count of bytes never goes below zero.
Dequeues ==
    LET size == SizeOf[Head(queue).by] IN
    queue' = Tail(queue) /\ queued' = IF size <= queued THEN queued - size ELSE 0

\* mutant: get does not notify the waiters
TakeSilently ==
    /\ run = "up"
    /\ sending = NoFrame
    /\ queue # <<>>
    /\ Dequeues
    /\ sending' = IF Stale(Head(queue)) THEN NoFrame ELSE Head(queue)
    /\ UNCHANGED <<run, socket, generation, waiting, woken, inbox, receiver, closed, wire, frames,
                   commands, losses, crammed>>

\* _sender takes a frame, and discards one of another generation.
Take ==
    /\ run = "up"
    /\ sending = NoFrame
    /\ queue # <<>>
    /\ Dequeues /\ woken' = Waiters
    /\ sending' = IF Stale(Head(queue)) THEN NoFrame ELSE Head(queue)
    /\ UNCHANGED <<run, socket, generation, waiting, inbox, receiver, closed, wire, frames,
                   commands, losses, crammed>>

Write ==
    /\ run = "up" /\ socket
    /\ sending # NoFrame
    /\ wire' = Append(wire, sending)
    /\ sending' = NoFrame
    /\ UNCHANGED <<run, socket, generation, queue, queued, waiting, woken, inbox, receiver, closed,
                   frames, commands, losses, crammed>>

\* _receiver: a command goes into the inbox, or waits for room in it.
Receive ==
    /\ run = "up" /\ socket
    /\ receiver = "idle"
    /\ commands < MaxCommands
    /\ commands' = commands + 1
    /\ IF inbox < InboxCap
       THEN inbox' = inbox + 1 /\ UNCHANGED receiver
       ELSE receiver' = "waiting" /\ UNCHANGED inbox
    /\ UNCHANGED <<run, socket, generation, queue, queued, waiting, woken, sending, closed, wire, frames,
                   losses, crammed>>

\* The command loop takes a command; a receiver that waited puts its own.
Incoming ==
    /\ inbox > 0
    /\ IF receiver = "waiting"
       THEN receiver' = "idle" /\ UNCHANGED inbox
       ELSE inbox' = inbox - 1 /\ UNCHANGED receiver
    /\ UNCHANGED <<run, socket, generation, queue, queued, waiting, woken, sending, closed, wire, frames,
                   commands, losses, crammed>>

SocketDies ==
    /\ socket
    /\ losses < MaxLosses
    /\ losses' = losses + 1
    /\ socket' = FALSE
    /\ UNCHANGED <<run, generation, queue, queued, waiting, woken, sending, inbox, receiver, closed, wire,
                   frames, commands, crammed>>

\* The receiver ends with the socket, unless it waits for room; the sender when
\* it writes.  Both are reaped, and a command the receiver waited with is lost.
LinkLost ==
    /\ run = "up"
    /\ ~socket
    /\ receiver = "idle" \/ sending # NoFrame
    /\ run' = "lost"
    /\ generation' = generation + 1
    /\ sending' = NoFrame
    /\ receiver' = "idle"
    /\ UNCHANGED <<socket, queue, queued, waiting, woken, inbox, closed, wire, frames, commands, losses, crammed>>

\* _drain_send_queue: the waiters are woken and put frames of the lost socket.
Drain ==
    /\ run = "lost"
    /\ run' = "down"
    /\ queue' = <<>> /\ queued' = 0
    /\ woken' = Waiters
    /\ wire' = <<>>
    /\ UNCHANGED <<socket, generation, waiting, sending, inbox, receiver, closed, frames,
                   commands, losses, crammed>>

\* stop: both queues are closed and _run is cancelled.
StopTransport ==
    /\ ~closed
    /\ closed' = TRUE
    /\ run' = "stopped"
    /\ socket' = FALSE
    /\ queue' = <<>> /\ queued' = 0
    /\ woken' = Waiters
    /\ sending' = NoFrame
    /\ inbox' = 0
    /\ receiver' = "idle"
    /\ UNCHANGED <<generation, waiting, wire, frames, commands, losses, crammed>>

LinkNext ==
    \/ \E p \in Producers : Send(p)
    \/ \E t \in Senders : Recheck(t)
    \/ Connect \/ Greeted \/ Take \/ Write \/ Receive \/ Incoming
    \/ SocketDies \/ LinkLost \/ Drain \/ StopTransport

LinkSpec == LinkInit /\ [][LinkNext]_linkVars

(***************************************************************************)
(* The transport reconnects for ever, its tasks run on, and the command    *)
(* loop takes what is in the inbox.                                        *)
(***************************************************************************)
LinkFairness ==
    /\ \A t \in Senders : WF_linkVars(Recheck(t))
    /\ WF_linkVars(Connect) /\ WF_linkVars(Greeted) /\ WF_linkVars(Take) /\ WF_linkVars(Write)
    /\ WF_linkVars(Incoming) /\ WF_linkVars(LinkLost) /\ WF_linkVars(Drain)
-----------------------------------------------------------------------------
(***************************************************************************)
(* Properties.                                                             *)
(***************************************************************************)

Framed == [by : Senders, gen : Nat]

\* The size of a queue, and whose frames of the present generation are in it.
Bytes(q) ==
    LET upTo[i \in 0..Len(q)] == IF i = 0 THEN 0 ELSE upTo[i - 1] + SizeOf[q[i].by]
    IN  upTo[Len(q)]

Names(q, g) ==
    LET upTo[i \in 0..Len(q)] ==
            IF i = 0 THEN <<>>
            ELSE IF q[i].gen = g THEN Append(upTo[i - 1], q[i].by) ELSE upTo[i - 1]
    IN  upTo[Len(q)]

(* Types, and the budget of the send queue: its count of bytes is their     *)
(* number, and neither limit is ever exceeded (transport.py:42-74).         *)
LinkTypeOK ==
    /\ run \in {"down", "greeting", "up", "lost", "stopped"}
    /\ socket \in BOOLEAN
    /\ generation \in Nat
    /\ queue \in Seq(Framed)
    /\ queued = Bytes(queue) /\ queued <= MaxBytes /\ Len(queue) <= MaxItems
    /\ waiting \in [Senders -> Framed]
    /\ woken \subseteq Senders
    /\ sending \in Framed
    /\ inbox \in 0 .. InboxCap
    /\ receiver \in {"idle", "waiting"}
    /\ closed \in BOOLEAN
    /\ wire \in Seq(Framed)
    /\ frames \in 0 .. MaxFrames
    /\ commands \in 0 .. MaxCommands
    /\ losses \in 0 .. MaxLosses
    /\ crammed \in BOOLEAN

LinkUp == run = "up" \/ (run = "greeting" /\ waiting[HelloTask] = NoFrame)

\* What the promised FIFO holds, and what it has written.
Accepted ==
    IF LinkUp THEN (IF sending = NoFrame THEN <<>> ELSE <<sending.by>>) \o Names(queue, generation)
    ELSE <<>>

Written == IF LinkUp THEN [i \in 1 .. Len(wire) |-> wire[i].by] ELSE <<>>

Lossy == INSTANCE LossyLink WITH
    Frames <- Producers, Hello <- HelloTask, up <- LinkUp, q <- Accepted, wire <- Written

(* The transport is the lossy FIFO the other models use: a frame that      *)
(* waited for room while its link went and the next one came is never      *)
(* written there, and the hello precedes everything on every link, also    *)
(* when stale frames fill the queue (transport.py:5-8, 212).               *)
LinkIsLossyFifo == Lossy!Spec

(* Nobody waits for room for ever, however the link fails: a drain, a stop *)
(* or the next link's sender wakes every waiter.  The exception is a hello *)
(* that finds the queue full of stale frames, since the sender that would  *)
(* discard them only starts when the hello is queued (transport.py:163-172).*)
EverySendReturns == \A t \in Senders : waiting[t] # NoFrame ~> (waiting[t] = NoFrame \/ crammed)

=============================================================================
