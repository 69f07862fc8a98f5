------------------------------ MODULE RelayHub ------------------------------
(***************************************************************************)
(* The relay's hub for one machine (relay/pairing.py, forward.py and the   *)
(* /ws endpoint of server.py): client sockets with their bounded queues,   *)
(* the slot of the machine's wrapper, the end of a browser session and the *)
(* revocation of the machine's credential.  A socket is used once, and its *)
(* value is its route id; its client id comes with its hello.              *)
(*                                                                         *)
(* The hub is a single-threaded asyncio program and no body of its _lock   *)
(* awaits, so an action is what runs between two awaits.                   *)
(***************************************************************************)
EXTENDS Naturals, Sequences, FiniteSets

CONSTANTS
    Pages,       \* client sockets
    Wrappers,    \* wrapper sockets of the machine
    Clients,     \* client ids
    MaxClients,  \* cfg.max_clients
    QueueCap,    \* cfg.client_queue_cap; the byte limit fails the same way
    MaxLive,     \* bound: live frames of the wrappers
    MaxUplink,   \* bound: frames of the pages that reach a wrapper
    MaxFaults,   \* bound: sockets lost, sessions ended and devices revoked
    NoSock       \* not a socket

Broadcasts == {"up", "down", "live"}

ASSUME HubAssumption ==
    /\ NoSock \notin Pages \cup Wrappers
    /\ Pages \cap Wrappers = {}
    /\ NoSock \notin Clients
    /\ MaxClients \in Nat \ {0}
    /\ QueueCap \in Nat \ {0}
    /\ MaxLive \in Nat
    /\ MaxUplink \in Nat
    /\ MaxFaults \in Nat

VARIABLES
    task,         \* where serve_client of a client socket is
    clientId,     \* the client id of a socket, NoSock before its hello
    clients,      \* _clients: the socket registered under a client id
    clientSlots,  \* _client_slots
    connQueue,    \* ClientConn.queue
    connClosed,   \* ClientConn._closed
    wsOpen,       \* the socket has not been closed, by either side
    here,         \* the page at the other end is still there
    sendLock,     \* _wrapper_send_lock: who sends, to which wrapper
    wrapperTask,  \* where serve_wrapper of a wrapper socket is
    wrapperSlot,  \* _wrapper_for(machine_id)
    toDrop,       \* the dead clients a broadcast still has to drop
    enrolled,     \* the credential of the machine is in the device table
    revoker,      \* where the handler of DELETE /api/devices/{id} is
    revoked,      \* the browser session has been revoked or has expired
    guard         \* the guard task of _serve_client_until_expiry

VARIABLES
    sent,         \* history: frames broadcast so far
    liveSent,     \* history: live frames among them
    got,          \* history: the last broadcast frame a page received
    newest,       \* history: the last socket registered for a client id
    hellos,       \* history: hellos that have reached a wrapper
    uplink,       \* history: <<n, s>>, s has sent the n-th client frame
    swallowed,    \* history: sockets whose cancellation was swallowed
    faults        \* history: counts towards MaxFaults

pageVars == <<task, clientId, clients, clientSlots, connQueue, connClosed, guard>>
wrapperVars == <<wrapperTask, wrapperSlot, toDrop, sent, liveSent>>
deviceVars == <<enrolled, revoker>>
upVars == <<hellos, uplink>>
hubVars == <<pageVars, wrapperVars, deviceVars, got, upVars, wsOpen, here,
             sendLock, revoked, newest, swallowed, faults>>

\* Frames to a page are <<kind, n>>: the n-th broadcast, which is a wrapper
\* status or live, an answer to the hello of n, or an error.
Offline == <<"offline", 0>>
Answer(s) == <<"answer", s>>

NoSend == [by |-> NoSock, to |-> NoSock]
Owns(s) == clientId[s] # NoSock /\ clients[clientId[s]] = s
Registered == {clients[c] : c \in Clients} \ {NoSock}
Fault == faults < MaxFaults /\ faults' = faults + 1

Full(s) == Len(connQueue[s]) >= QueueCap

HubInit ==
    /\ task = [s \in Pages |-> "out"]
    /\ clientId = [s \in Pages |-> NoSock]
    /\ clients = [c \in Clients |-> NoSock]
    /\ clientSlots = {}
    /\ connQueue = [s \in Pages |-> <<>>]
    /\ connClosed = [s \in Pages |-> FALSE]
    /\ wsOpen = [s \in Pages \cup Wrappers |-> TRUE]
    /\ here = [s \in Pages |-> TRUE]
    /\ sendLock = NoSend
    /\ wrapperTask = [w \in Wrappers |-> "out"]
    /\ wrapperSlot = NoSock
    /\ toDrop = [w \in Wrappers |-> {}]
    /\ enrolled = TRUE
    /\ revoker = "idle"
    /\ revoked = FALSE
    /\ guard = [s \in Pages |-> "none"]
    /\ liveSent = 0
    /\ sent = 0
    /\ got = [s \in Pages |-> Offline]
    /\ newest = [c \in Clients |-> NoSock]
    /\ hellos = {}
    /\ uplink = <<0, NoSock>>
    /\ swallowed = {}
    /\ faults = 0

(***************************************************************************)
(* A page.                                                                 *)
(***************************************************************************)

\* The clients of the other machines, which share the limits, come and go.
Elsewhere == 0 .. MaxClients

\* ws_endpoint up to serve_client: the session is active when it is
\* subscribed to, and the guard will see any later revocation.  One slot more
\* than max_clients lets a reconnect present its client id.
Accept(s) ==
    /\ task[s] = "out"
    /\ ~revoked
    /\ \E n \in Elsewhere :
       IF Cardinality(clientSlots) + n < MaxClients + 1
       THEN /\ clientSlots' = clientSlots \cup {s}
            /\ task' = [task EXCEPT ![s] = "probe"]
            /\ guard' = [guard EXCEPT ![s] = "armed"]
            /\ UNCHANGED wsOpen
       ELSE /\ wsOpen' = [wsOpen EXCEPT ![s] = FALSE]
            /\ task' = [task EXCEPT ![s] = "gone"]
            /\ UNCHANGED <<clientSlots, guard>>
    /\ UNCHANGED <<clientId, clients, connQueue, connClosed, wrapperVars, deviceVars, got,
                   upVars, here, sendLock, revoked, newest, swallowed, faults>>

OverCapacity(c, n) == clients[c] = NoSock /\ Cardinality(Registered) + n >= MaxClients

\* The hello is read and the socket takes its client id over, under
\* _wrapper_send_lock; the predecessor is stopped: its close is awaited, then
\* its sender task.
Register(s) ==
    /\ task[s] = "probe"
    /\ wsOpen[s] /\ here[s]
    /\ sendLock = NoSend
    /\ \E c \in Clients, n \in Elsewhere :
        LET old == clients[c] IN
        /\ clientId' = [clientId EXCEPT ![s] = c]
        /\ IF OverCapacity(c, n)
           THEN /\ task' = [task EXCEPT ![s] = "leaving"]
                /\ connClosed' = [connClosed EXCEPT ![s] = TRUE]
                /\ wsOpen' = [wsOpen EXCEPT ![s] = FALSE]
                /\ UNCHANGED <<clients, newest>>
           ELSE /\ clients' = [clients EXCEPT ![c] = s]
                /\ newest' = [newest EXCEPT ![c] = s]
                /\ IF old = NoSock
                   THEN /\ task' = [task EXCEPT ![s] = "greeting"]
                        /\ UNCHANGED <<connClosed, wsOpen>>
                   ELSE /\ task' = [task EXCEPT ![s] = IF connClosed[old] THEN "joining"
                                                       ELSE "replacing"]
                        /\ connClosed' = [connClosed EXCEPT ![old] = TRUE]
                        /\ wsOpen' = [wsOpen EXCEPT ![old] = FALSE]
    /\ UNCHANGED <<clientSlots, connQueue, guard, wrapperVars, deviceVars, got, upVars,
                   here, sendLock, revoked, swallowed, faults>>

\* The steps of old.stop(): its close is over, its sender is over.
StopPredecessor(s) ==
    /\ \/ task[s] = "replacing" /\ task' = [task EXCEPT ![s] = "joining"]
       \/ task[s] = "joining" /\ task' = [task EXCEPT ![s] = "greeting"]
    /\ UNCHANGED <<clients, clientSlots, connQueue, connClosed, guard, clientId, wrapperVars, deviceVars,
                   got, upVars, wsOpen, here, sendLock, revoked, newest, swallowed, faults>>

Unregistered(s) == IF Owns(s)
                   THEN [clients EXCEPT ![clientId[s]] = NoSock] ELSE clients

\* The finally of serve_client up to its conn.stop().
Unwinds(s) ==
    /\ clients' = Unregistered(s)
    /\ connClosed' = [connClosed EXCEPT ![s] = TRUE]
    /\ task' = [task EXCEPT ![s] = "leaving"]

\* mutant: a frame is forwarded whoever owns the client id
BeginForwardUnchecked(s) ==
    /\ task[s] \in {"greeting", "serving"}
    /\ task[s] = "serving" => wsOpen[s] /\ here[s] /\ uplink[1] < MaxUplink
    /\ sendLock = NoSend
    /\ wrapperSlot # NoSock
    /\ sendLock' = [by |-> s, to |-> wrapperSlot]
    /\ task' = [task EXCEPT ![s] = IF task[s] = "greeting" THEN "helloing" ELSE "forwarding"]
    /\ UNCHANGED <<clients, connQueue, connClosed, clientSlots, guard, clientId, wrapperVars, deviceVars,
                   got, upVars, wsOpen, here, revoked, newest, swallowed, faults>>

\* _forward_client_msg up to the send: under _wrapper_send_lock the socket must
\* still own its client id.  The first frame is the hello.
BeginForward(s) ==
    /\ task[s] \in {"greeting", "serving"}
    /\ task[s] = "serving" => wsOpen[s] /\ here[s] /\ uplink[1] < MaxUplink
    /\ sendLock = NoSend
    /\ IF ~Owns(s)
       THEN Unwinds(s) /\ UNCHANGED <<connQueue, sendLock>>
       ELSE IF wrapperSlot # NoSock
       THEN /\ sendLock' = [by |-> s, to |-> wrapperSlot]
            /\ task' = [task EXCEPT ![s] = IF task[s] = "greeting" THEN "helloing"
                                           ELSE "forwarding"]
            /\ UNCHANGED <<clients, connQueue, connClosed>>
       ELSE IF connClosed[s] \/ Full(s)
       THEN Unwinds(s) /\ UNCHANGED <<connQueue, sendLock>>
       ELSE /\ connQueue' = [connQueue EXCEPT ![s] = Append(@, Offline)]
            /\ task' = [task EXCEPT ![s] = "serving"]
            /\ UNCHANGED <<clients, connClosed, sendLock>>
    /\ UNCHANGED <<clientSlots, guard, clientId, wrapperVars, deviceVars, got, upVars, wsOpen, here,
                   revoked, newest, swallowed, faults>>

\* The send to the wrapper is over; a broken link is answered like a missing one.
EndForward(s) ==
    /\ task[s] \in {"helloing", "forwarding"}
    /\ sendLock' = NoSend
    /\ IF wsOpen[sendLock.to]
       THEN /\ hellos' = IF task[s] = "helloing" THEN hellos \cup {s} ELSE hellos
            /\ uplink' = <<uplink[1] + 1, s>>
            /\ task' = [task EXCEPT ![s] = "serving"]
            /\ UNCHANGED <<clients, connQueue, connClosed>>
       ELSE /\ IF connClosed[s] \/ Full(s)
               THEN Unwinds(s) /\ UNCHANGED connQueue
               ELSE /\ connQueue' = [connQueue EXCEPT ![s] = Append(@, Offline)]
                    /\ task' = [task EXCEPT ![s] = "serving"]
                    /\ UNCHANGED <<clients, connClosed>>
            /\ UNCHANGED upVars
    /\ UNCHANGED <<clientSlots, guard, clientId, wrapperVars, deviceVars, got, wsOpen, here,
                   revoked, newest, swallowed, faults>>

\* receive_text fails, on a closed socket or for want of a hello in time.
Leave(s) ==
    /\ task[s] = "probe" \/ (task[s] = "serving" /\ ~wsOpen[s])
    /\ Unwinds(s)
    /\ wsOpen' = [wsOpen EXCEPT ![s] = FALSE]
    /\ UNCHANGED <<clientSlots, connQueue, guard, clientId, wrapperVars, deviceVars, got, upVars, here,
                   sendLock, revoked, newest, swallowed, faults>>

\* The rest of the finally.
Left(s) ==
    /\ task[s] = "leaving"
    /\ task' = [task EXCEPT ![s] = "gone"]
    /\ clientSlots' = clientSlots \ {s}
    /\ connQueue' = [connQueue EXCEPT ![s] = <<>>]
    /\ wsOpen' = [wsOpen EXCEPT ![s] = FALSE]
    /\ UNCHANGED <<clients, connClosed, guard, clientId, wrapperVars, deviceVars, got,
                   upVars, here, sendLock, revoked, newest, swallowed, faults>>

\* ClientConn._run sends one frame, or fails on a socket that is closed or
\* whose page has vanished.
SenderStep(s) ==
    /\ ~connClosed[s]
    /\ connQueue[s] # <<>>
    /\ connQueue' = [connQueue EXCEPT ![s] = Tail(@)]
    /\ IF wsOpen[s] /\ here[s]
       THEN /\ got' = [got EXCEPT ![s] = IF Head(connQueue[s])[1] \in Broadcasts
                                         THEN Head(connQueue[s]) ELSE @]
            /\ UNCHANGED <<connClosed, wsOpen>>
       ELSE /\ \/ wsOpen[s] /\ UNCHANGED <<connClosed, wsOpen>>
               \/ /\ connClosed' = [connClosed EXCEPT ![s] = TRUE]
                  /\ wsOpen' = [wsOpen EXCEPT ![s] = FALSE]
            /\ UNCHANGED got
    /\ UNCHANGED <<task, clients, clientSlots, guard, clientId, wrapperVars, deviceVars, upVars, here,
                   sendLock, revoked, newest, swallowed, faults>>

\* The page closes its socket, or vanishes and leaves it half open.
PageGoes(s) ==
    /\ Fault
    /\ task[s] \notin {"out", "gone"}
    /\ here[s]
    /\ here' = [here EXCEPT ![s] = FALSE]
    /\ wsOpen' \in {wsOpen, [wsOpen EXCEPT ![s] = FALSE]}
    /\ UNCHANGED <<pageVars, wrapperVars, deviceVars, got, upVars, sendLock, revoked,
                   newest, swallowed>>

\* Logout, or the end of the session's lifetime.
EndSession ==
    /\ Fault
    /\ ~revoked
    /\ revoked' = TRUE
    /\ UNCHANGED <<pageVars, wrapperVars, deviceVars, got, upVars, wsOpen, here, sendLock,
                   newest, swallowed>>

\* The guard cancels serve_client, once.  stop() swallows a cancellation that
\* arrives while it awaits the sender of the predecessor.
GuardFires(s) ==
    /\ revoked
    /\ guard[s] = "armed"
    /\ task[s] # "gone"
    /\ guard' = [guard EXCEPT ![s] = "fired"]
    /\ IF task[s] = "joining"
       THEN /\ swallowed' = swallowed \cup {s}
            /\ UNCHANGED <<task, clients, connClosed, sendLock, wsOpen>>
       ELSE /\ Unwinds(s)
            /\ sendLock' = IF sendLock.by = s THEN NoSend ELSE sendLock
            /\ UNCHANGED <<swallowed, wsOpen>>
    /\ UNCHANGED <<clientSlots, connQueue, clientId, wrapperVars, deviceVars, got, upVars, here,
                   revoked, newest, faults>>

(***************************************************************************)
(* The wrapper.                                                            *)
(***************************************************************************)

Dead == {s \in Registered : connClosed[s] \/ Full(s)}

\* _drop_client up to its await: c is unregistered if it is registered, and closed.
Drop(c, cs, q) ==
    /\ clients' = IF cs[clientId[c]] = c THEN [cs EXCEPT ![clientId[c]] = NoSock] ELSE cs
    /\ connClosed' = [connClosed EXCEPT ![c] = TRUE]
    /\ wsOpen' = [q EXCEPT ![c] = IF connClosed[c] THEN @ ELSE FALSE]

\* _broadcast: the frame is queued for every client without an await; the
\* clients whose queue is full are dropped one after the other, and until then
\* the serving task of w takes no further frame.
Broadcast(w, f, open) ==
    /\ sent' = sent + 1
    /\ connQueue' = [s \in Pages |-> IF s \in Registered \ Dead
                                     THEN Append(connQueue[s], <<f, sent + 1>>) ELSE connQueue[s]]
    /\ IF Dead = {}
       THEN wsOpen' = open /\ UNCHANGED <<clients, connClosed, toDrop>>
       ELSE \E c \in Dead :
                /\ Drop(c, clients, open)
                /\ toDrop' = [toDrop EXCEPT ![w] = Dead \ {c}]

DropNext(w) ==
    /\ \E c \in toDrop[w] :
        /\ Drop(c, clients, wsOpen)
        /\ toDrop' = [toDrop EXCEPT ![w] = @ \ {c}]
    /\ UNCHANGED <<task, clientSlots, connQueue, guard, clientId, wrapperTask, wrapperSlot, sent, liveSent,
                   deviceVars, got, upVars, here, sendLock, revoked, newest, swallowed, faults>>

\* ws_endpoint accepts the credential; the hello is still to come.
WrapperConnects(w) ==
    /\ wrapperTask[w] = "out"
    /\ enrolled
    /\ wrapperTask' = [wrapperTask EXCEPT ![w] = "hello"]
    /\ UNCHANGED <<pageVars, wrapperSlot, toDrop, sent, liveSent, deviceVars, got, upVars, wsOpen,
                   here, sendLock, revoked, newest, swallowed, faults>>

\* The slot is reserved before the credential is checked again.
WrapperHello(w) ==
    /\ wrapperTask[w] = "hello"
    /\ wsOpen[w]
    /\ IF wrapperSlot = NoSock
       THEN /\ wrapperSlot' = w
            /\ wrapperTask' = [wrapperTask EXCEPT ![w] = "checking"]
            /\ UNCHANGED wsOpen
       ELSE /\ wrapperTask' = [wrapperTask EXCEPT ![w] = "gone"]
            /\ wsOpen' = [wsOpen EXCEPT ![w] = FALSE]
            /\ UNCHANGED wrapperSlot
    /\ UNCHANGED <<pageVars, toDrop, sent, liveSent, deviceVars, got, upVars, here, sendLock,
                   revoked, newest, swallowed, faults>>

\* mutant: a wrapper that leaves is not announced
VacatesSilently(w, open) ==
    /\ wrapperTask' = [wrapperTask EXCEPT ![w] = "gone"]
    /\ wrapperSlot' = NoSock
    /\ wsOpen' = open
    /\ UNCHANGED <<connQueue, clients, connClosed, toDrop, sent>>

\* _wrapper_gone, with the test that the slot is still the socket's own.
Vacates(w, open) ==
    /\ wrapperTask' = [wrapperTask EXCEPT ![w] = "gone"]
    /\ IF wrapperSlot = w
       THEN wrapperSlot' = NoSock /\ Broadcast(w, "down", open)
       ELSE /\ wsOpen' = open
            /\ UNCHANGED <<wrapperSlot, connQueue, clients, connClosed, toDrop, sent>>

\* authorize_machine has answered; the hello then goes through _on_wrapper_msg.
Authorize(w) ==
    /\ wrapperTask[w] = "checking"
    /\ IF enrolled
       THEN /\ wrapperTask' = [wrapperTask EXCEPT ![w] = "live"]
            /\ Broadcast(w, "up", wsOpen)
            /\ UNCHANGED wrapperSlot
       ELSE Vacates(w, [wsOpen EXCEPT ![w] = FALSE])
    /\ UNCHANGED <<task, clientSlots, guard, clientId, liveSent, deviceVars, got, upVars, here,
                   sendLock, revoked, newest, swallowed, faults>>

\* A live frame: broadcast.
LiveFrame(w) ==
    /\ wrapperTask[w] = "live"
    /\ wsOpen[w]
    /\ toDrop[w] = {}
    /\ liveSent < MaxLive
    /\ liveSent' = liveSent + 1
    /\ Broadcast(w, "live", wsOpen)
    /\ UNCHANGED <<task, clientSlots, guard, clientId, wrapperTask, wrapperSlot, deviceVars, got,
                   upVars, here, sendLock, revoked, newest, swallowed, faults>>

Routed(s) == Owns(s)

\* The answer to the hello of r: for the client id of r, and for its route.
RoutedFrame(w) ==
    /\ wrapperTask[w] = "live"
    /\ wsOpen[w]
    /\ toDrop[w] = {}
    /\ \E r \in hellos :
        LET conn == clients[clientId[r]] IN
        /\ hellos' = hellos \ {r}
        /\ IF ~Routed(r)
           THEN UNCHANGED <<connQueue, clients, connClosed, wsOpen>>
           ELSE IF connClosed[conn] \/ Full(conn)
           THEN Drop(conn, clients, wsOpen) /\ UNCHANGED connQueue
           ELSE /\ connQueue' = [connQueue EXCEPT ![conn] = Append(@, Answer(r))]
                /\ UNCHANGED <<clients, connClosed, wsOpen>>
    /\ UNCHANGED <<task, clientSlots, guard, clientId, wrapperVars, deviceVars, got, uplink, here,
                   sendLock, revoked, newest, swallowed, faults>>

WrapperLost(w) ==
    /\ Fault
    /\ wrapperTask[w] \in {"hello", "checking", "live"}
    /\ wsOpen[w]
    /\ wsOpen' = [wsOpen EXCEPT ![w] = FALSE]
    /\ UNCHANGED <<pageVars, wrapperVars, deviceVars, got, upVars, here, sendLock, revoked,
                   newest, swallowed>>

\* receive_text fails; only a socket that had the slot announces its end.
WrapperGone(w) ==
    /\ ~wsOpen[w]
    /\ toDrop[w] = {}
    /\ \/ /\ wrapperTask[w] = "hello"
          /\ wrapperTask' = [wrapperTask EXCEPT ![w] = "gone"]
          /\ UNCHANGED <<wrapperSlot, connQueue, clients, connClosed, toDrop, wsOpen, sent>>
       \/ wrapperTask[w] = "live" /\ Vacates(w, wsOpen)
    /\ UNCHANGED <<task, clientSlots, guard, clientId, liveSent, deviceVars, got, upVars, here,
                   sendLock, revoked, newest, swallowed, faults>>

\* DELETE /api/devices/{id}: the row goes first, then the socket in the slot.
RevokeRow ==
    /\ Fault
    /\ revoker = "idle"
    /\ enrolled' = FALSE
    /\ revoker' = "deleted"
    /\ UNCHANGED <<pageVars, wrapperVars, got, upVars, wsOpen, here, sendLock, revoked,
                   newest, swallowed>>

DisconnectWrapper ==
    /\ revoker = "deleted"
    /\ revoker' = "done"
    /\ wsOpen' = [s \in DOMAIN wsOpen |-> wsOpen[s] /\ s # wrapperSlot]
    /\ UNCHANGED <<pageVars, wrapperVars, enrolled, got, upVars, here, sendLock, revoked,
                   newest, swallowed, faults>>

HubNext ==
    \/ \E s \in Pages :
        \/ Accept(s) \/ Register(s) \/ StopPredecessor(s) \/ BeginForward(s) \/ EndForward(s)
        \/ Leave(s) \/ Left(s) \/ SenderStep(s) \/ PageGoes(s) \/ GuardFires(s)
    \/ \E w \in Wrappers :
        \/ WrapperConnects(w) \/ WrapperHello(w) \/ Authorize(w) \/ LiveFrame(w)
        \/ RoutedFrame(w) \/ WrapperLost(w) \/ WrapperGone(w) \/ DropNext(w)
    \/ EndSession
    \/ RevokeRow
    \/ DisconnectWrapper

HubSpec == HubInit /\ [][HubNext]_hubVars
-----------------------------------------------------------------------------
(***************************************************************************)
(* Properties.                                                             *)
(***************************************************************************)

Frames == Broadcasts \X (1 .. sent) \cup {Offline} \cup {Answer(s) : s \in Pages}

(* Types of the hub's state, and its limits: a queue never exceeds its cap, *)
(* max_clients are registered and one more socket may be probing.          *)
HubTypeOK ==
    /\ task \in [Pages -> {"out", "probe", "replacing", "joining", "greeting", "helloing",
                           "serving", "forwarding", "leaving", "gone"}]
    /\ clientId \in [Pages -> Clients \cup {NoSock}]
    /\ clients \in [Clients -> Pages \cup {NoSock}]
    /\ clientSlots \subseteq Pages
    /\ Cardinality(clientSlots) <= MaxClients + 1
    /\ Cardinality(Registered) <= MaxClients
    /\ connQueue \in [Pages -> Seq(Frames)]
    /\ \A s \in Pages : Len(connQueue[s]) <= QueueCap
    /\ connClosed \in [Pages -> BOOLEAN]
    /\ wsOpen \in [Pages \cup Wrappers -> BOOLEAN]
    /\ here \in [Pages -> BOOLEAN]
    /\ sendLock \in [by : Pages \cup {NoSock}, to : Wrappers \cup {NoSock}]
    /\ wrapperTask \in [Wrappers -> {"out", "hello", "checking", "live", "gone"}]
    /\ wrapperSlot \in Wrappers \cup {NoSock}
    /\ toDrop \in [Wrappers -> SUBSET Pages]
    /\ enrolled \in BOOLEAN
    /\ revoker \in {"idle", "deleted", "done"}
    /\ revoked \in BOOLEAN
    /\ guard \in [Pages -> {"none", "armed", "fired"}]
    /\ sent \in Nat
    /\ liveSent \in 0 .. MaxLive
    /\ got \in [Pages -> Frames]
    /\ newest \in [Clients -> Pages \cup {NoSock}]
    /\ hellos \subseteq Pages
    /\ uplink \in (Nat \X (Pages \cup {NoSock}))
    /\ swallowed \subseteq Pages
    /\ faults \in 0 .. MaxFaults

(* A page that still has its connection is registered: the late cleanup of *)
(* a half-open predecessor, or of a slow client, takes no other socket off *)
(* the hub (pairing.py:465, 530).                                          *)
ServedIsRegistered ==
    \A s \in Pages :
        task[s] \in {"greeting", "serving", "helloing", "forwarding"} /\ wsOpen[s] /\ ~connClosed[s]
            => s \in Registered

(* Whoever takes the client id over is the only one heard: a frame reaches *)
(* the wrapper only from the socket that registered last for its client id *)
(* (pairing.py:67-69).                                                     *)
UplinkIsNewest == [][uplink' # uplink => newest[clientId[uplink'[2]]] = uplink'[2]]_hubVars

\* s is slow, and the task that found it so awaits the close of another one
DropPending(s) == \E w \in Wrappers : wrapperTask[w] = "gone" /\ s \in toDrop[w]

(* A connection misses nothing between two frames that every page gets: a  *)
(* client that is too slow loses the connection, never a frame             *)
(* (forward.py:3-7).  The one exception is the end of a wrapper: while its *)
(* task awaits the close of another slow client, this one may have missed  *)
(* that frame and hear of later wrappers before its own drop               *)
(* (pairing.py:522-524).  What it gets first is then a status, never a     *)
(* live frame.                                                             *)
NoGapOnSocket ==
    [][\A s \in Pages : got'[s] # got[s] =>
            \/ got[s] = Offline
            \/ got'[s][2] = got[s][2] + 1
            \/ DropPending(s) /\ got'[s][1] # "live" /\ got'[s][2] > got[s][2]]_hubVars

(* A routed answer is only ever received on the connection that asked.     *)
AnswersStayHome ==
    \A s \in Pages : \A i \in 1 .. Len(connQueue[s]) : connQueue[s][i][1] = "answer" => connQueue[s][i] = Answer(s)

\* what s was told of the wrapper, or is about to be told; a live frame tells too
LastTold(s) ==
    LET told == {i \in 1 .. Len(connQueue[s]) : connQueue[s][i][1] \in Broadcasts} IN
    IF told = {} THEN got[s][1]
    ELSE connQueue[s][CHOOSE i \in told : \A j \in told : j <= i][1]

(* A connected page that has been told anything of the wrapper is told the *)
(* truth last, although a wrapper that leaves and one that comes announce  *)
(* themselves in different tasks.                                          *)
StatusIsTrue ==
    \A s \in Registered :
        (here[s] /\ wsOpen[s] /\ ~connClosed[s] /\ \A w \in Wrappers : s \notin toDrop[w])
            => /\ LastTold(s) \in {"up", "live"} => \E w \in Wrappers : wrapperTask[w] = "live"
               /\ LastTold(s) = "down" => \A w \in Wrappers : wrapperTask[w] # "live"

(* When a device has been revoked, no wrapper with its credential goes on: *)
(* a socket that was between the upgrade and its hello fails the second    *)
(* check, any other one has been closed (pairing.py:243-246).              *)
RevokedDeviceLeaves ==
    revoker = "done" => \A w \in Wrappers : wrapperTask[w] = "live" => ~wsOpen[w]

(* When a browser session ends, its sockets fall silent: the guard works   *)
(* once, and from then on the wrapper hears nothing of them and they get   *)
(* nothing, unless the cancellation was swallowed while the socket stopped *)
(* its predecessor (server.py:465, forward.py:60).                         *)
EndedSessionSilent ==
    [][\A s \in Pages : guard[s] = "fired" /\ s \notin swallowed
            => got'[s] = got[s] /\ (uplink' # uplink => uplink'[2] # s)]_hubVars

\* The hub always: one served wrapper, answers to the page that asked, true status,
\* no revoked device.
HubSafe ==
    /\ HubTypeOK
    /\ ServedIsRegistered
    /\ AnswersStayHome
    /\ StatusIsTrue
    /\ RevokedDeviceLeaves

\* What a step of the hub never does.
HubSteps ==
    /\ UplinkIsNewest
    /\ NoGapOnSocket
    /\ EndedSessionSilent
=============================================================================
