-------------------------- MODULE CommandDelivery --------------------------
(***************************************************************************)
(* Reliable commands from one page to the wrapper.                         *)
(*                                                                         *)
(*   page      CommandOutbox keeps every command until its ACK arrives     *)
(*             and replays what is pending, in order, on every new socket  *)
(*             and whenever the wrapper reconnects (web/src/outbox.ts,     *)
(*             ws.ts)                                                      *)
(*   relay     forwards while the wrapper is connected, else drops         *)
(*   wrapper   one serial command lane and some off-lane tasks; completed  *)
(*             command ids are kept in a bounded LRU with their responses  *)
(*             (machine.py: run, _process_command, _remember_command)      *)
(*                                                                         *)
(* A handler that returns is remembered and acknowledged; one that raises  *)
(* is neither.                                                             *)
(***************************************************************************)
EXTENDS Integers, FiniteSets, SequencesExt

CONSTANTS
    Cmds,           \* command ids
    Reads,          \* SAFE_RETRY_COMMANDS: run again on a retry
    OffLane,        \* handled by a coalesced background task
    OutboxCap,      \* OUTBOX_MAX_COMMANDS
    SeenCap,        \* COMMAND_IDS_PER_CLIENT
    MaxConns,       \* bound: sockets the page opens
    MaxLinkDrops,   \* bound: losses of the wrapper link
    MaxCrashes,     \* bound: wrapper restarts
    MaxFails,       \* bound: handlers that raise
    MaxMishaps      \* bound: losses of the link, restarts and raising handlers together

ASSUME DeliveryAssumption ==
    /\ Reads \subseteq Cmds /\ OffLane \subseteq Cmds
    /\ OutboxCap \in Nat \ {0}
    /\ SeenCap \in Nat /\ SeenCap >= 2 * OutboxCap

VARIABLES
    issued,         \* history: commands the page has enqueued
    outbox,         \* CommandOutbox.pending, in insertion order
    answered,       \* history: commands whose response reached the page
    conn,           \* number of the page's open socket, 0 when it has none
    up,             \* frames written to that socket and not yet forwarded
    down,           \* frames relayed to that socket and not yet received
    link,           \* the wrapper's relay link is up
    sendQ,          \* frames sent by the wrapper and not yet relayed
    inbox,          \* commands received by the wrapper and not yet taken
    running,        \* command being handled |-> [sent, replay]
    seen,           \* _processed_commands of this client, oldest first
    done,           \* history: commands completed in this lifetime
    ever,           \* history: commands completed in some lifetime
    repeated,       \* history: commands completed twice in one lifetime
    used            \* history: counters for the bounds

pageVars    == <<issued, outbox, answered>>
sockVars    == <<conn, up, down>>
wireVars    == <<link, sendQ, inbox>>
wrapperVars == <<running, seen, done, ever, repeated>>
vars == <<pageVars, sockVars, wireVars, wrapperVars, used>>

Init ==
    /\ issued = {} /\ outbox = <<>> /\ answered = {}
    /\ conn = 0 /\ up = <<>> /\ down = <<>>
    /\ link = TRUE /\ sendQ = <<>> /\ inbox = <<>>
    /\ running = <<>> /\ seen = <<>>
    /\ done = {} /\ ever = {} /\ repeated = {}
    /\ used = [conns |-> 0, drops |-> 0, crashes |-> 0, fails |-> 0]

Response(c) == [type |-> "response", cmd |-> c]
Ack(c)      == [type |-> "command_ack", cmd |-> c]
Announce    == [type |-> "wrapper_reconnected"]

\* Map.delete, OrderedDict.pop: an id is in there once.
Without(s, c) ==
    IF c \in ToSet(s) THEN RemoveAt(s, CHOOSE k \in DOMAIN s : s[k] = c) ELSE s

Sent(frames) == IF link THEN sendQ \o frames ELSE sendQ

Acked == issued \ ToSet(outbox)

Allowed == used.drops + used.crashes + used.fails < MaxMishaps

-----------------------------------------------------------------------------
(* The page. *)

(* sendTracked: a command enters the outbox, if there is room, before its    *)
(* first transmission; without an open socket it just stays there.           *)
Issue(c) ==
    /\ c \in Cmds \ issued
    /\ Len(outbox) < OutboxCap
    /\ issued' = issued \cup {c}
    /\ outbox' = Append(outbox, c)
    /\ up' = IF conn # 0 THEN Append(up, c) ELSE up
    /\ UNCHANGED <<answered, conn, down, wireVars, wrapperVars, used>>

(* A new socket replaces the old one at the relay, which stops forwarding    *)
(* what the old one had sent; the preamble replays everything pending.       *)
Connect ==
    /\ conn = 0
    /\ used.conns < MaxConns
    /\ conn' = used.conns + 1
    /\ used' = [used EXCEPT !.conns = @ + 1]
    /\ up' = outbox
    /\ UNCHANGED <<pageVars, down, wireVars, wrapperVars>>

\* What the relay has already read from the socket may still be forwarded.
Disconnect ==
    /\ conn # 0
    /\ used.conns < MaxConns
    /\ conn' = 0
    /\ down' = <<>>
    /\ UNCHANGED <<pageVars, up, wireVars, wrapperVars, used>>

OnAck(f) ==
    /\ f.type = "command_ack"
    /\ outbox' = Without(outbox, f.cmd)
    /\ UNCHANGED <<issued, answered, up>>

OnResponse(f) ==
    /\ f.type = "response"
    /\ answered' = answered \cup {f.cmd}
    /\ UNCHANGED <<issued, outbox, up>>

OnWrapperReconnected(f) ==
    /\ f.type = "wrapper_reconnected"
    /\ up' = up \o outbox
    /\ UNCHANGED pageVars

Receive ==
    /\ down # <<>>
    /\ down' = Tail(down)
    /\ \/ OnAck(Head(down))
       \/ OnResponse(Head(down))
       \/ OnWrapperReconnected(Head(down))
    /\ UNCHANGED <<conn, wireVars, wrapperVars, used>>

-----------------------------------------------------------------------------
(* The relay and the wrapper's link. *)

(* _forward_client_msg: with no wrapper connected the command is dropped and *)
(* the page is told; it stays in the outbox.                                 *)
Forward ==
    /\ up # <<>>
    /\ up' = Tail(up)
    /\ inbox' = IF link THEN Append(inbox, Head(up)) ELSE inbox
    /\ UNCHANGED <<pageVars, conn, down, link, sendQ, wrapperVars, used>>

Relay ==
    /\ sendQ # <<>>
    /\ sendQ' = Tail(sendQ)
    /\ down' = IF conn # 0 THEN Append(down, Head(sendQ)) ELSE down
    /\ UNCHANGED <<pageVars, conn, up, link, inbox, wrapperVars, used>>

LinkDown ==
    /\ link
    /\ used.drops < MaxLinkDrops /\ Allowed
    /\ link' = FALSE
    /\ sendQ' = <<>>
    /\ \E n \in 0..Len(inbox) : inbox' = SubSeq(inbox, 1, n)
    /\ used' = [used EXCEPT !.drops = @ + 1]
    /\ UNCHANGED <<pageVars, sockVars, wrapperVars>>

LinkUp ==
    /\ ~link
    /\ link' = TRUE
    /\ sendQ' = <<Announce>>
    /\ UNCHANGED <<pageVars, sockVars, inbox, wrapperVars, used>>

-----------------------------------------------------------------------------
(* The wrapper. *)

Seen(c) == c \in ToSet(seen)

RememberedNot(c) == Without(seen, c)      \* mutant

(* _remember_command: the newest at the end, the oldest forgotten. *)
Remembered(c) ==
    LET others == Without(seen, c)
    IN  Append(IF Len(others) < SeenCap THEN others ELSE Tail(others), c)

(* The command loop awaits a serial handler, so it takes nothing meanwhile. *)
LaneBusy == \E c \in DOMAIN running : c \notin OffLane

(* A task of the handler begins; an id seen before makes it a replay. *)
BeginTask(c) ==
    running' = [d \in DOMAIN running \cup {c} |->
                   IF d = c THEN [sent |-> FALSE, replay |-> Seen(c)] ELSE running[d]]
End(c) == running' = [d \in DOMAIN running \ {c} |-> running[d]]

ProcessUnanswered(c) ==                 \* mutant: the retry is only acknowledged
    /\ seen' = IF Seen(c) THEN Remembered(c) ELSE seen
    /\ IF Seen(c) /\ c \notin Reads
       THEN sendQ' = Sent(<<Ack(c)>>) /\ UNCHANGED running
       ELSE BeginTask(c) /\ UNCHANGED sendQ

(* _process_command, first half.  A completed mutation is answered from the  *)
(* cache and acknowledged again; anything else is handled, a completed read  *)
(* for a second time.  Either way a seen id becomes the newest.              *)
Process(c) ==
    /\ seen' = IF Seen(c) THEN Remembered(c) ELSE seen
    /\ IF Seen(c) /\ c \notin Reads
       THEN sendQ' = Sent(<<Response(c), Ack(c)>>) /\ UNCHANGED running
       ELSE BeginTask(c) /\ UNCHANGED sendQ

(* run(): the loop takes the next command.  An off-lane command whose task   *)
(* is still running absorbs its retry.                                       *)
TakeCommand ==
    /\ inbox # <<>> /\ ~LaneBusy
    /\ inbox' = Tail(inbox)
    /\ LET c == Head(inbox)
       IN  IF c \in DOMAIN running
           THEN UNCHANGED <<running, seen, sendQ>>
           ELSE Process(c)
    /\ UNCHANGED <<pageVars, sockVars, link, done, ever, repeated, used>>

\* The handler sends its response before it returns.
Respond(c) ==
    /\ c \in DOMAIN running /\ ~running[c].sent
    /\ running' = [running EXCEPT ![c].sent = TRUE]
    /\ sendQ' = Sent(<<Response(c)>>)
    /\ UNCHANGED <<pageVars, sockVars, link, inbox, seen, done, ever, repeated, used>>

(* _process_command, second half: the handler returned, so the command is    *)
(* remembered, unless it was a replayed read, and acknowledged.              *)
Finish(c) ==
    /\ c \in DOMAIN running /\ running[c].sent
    /\ End(c)
    /\ seen' = IF running[c].replay THEN seen ELSE Remembered(c)
    /\ sendQ' = Sent(<<Ack(c)>>)
    /\ done' = done \cup {c}
    /\ ever' = ever \cup {c}
    /\ repeated' = repeated \cup ((done \cap {c}) \ Reads)
    /\ UNCHANGED <<pageVars, sockVars, link, inbox, used>>

FailAcked(c) ==                         \* mutant: acknowledged all the same
    /\ c \in DOMAIN running
    /\ used.fails < MaxFails /\ Allowed
    /\ End(c)
    /\ sendQ' = Sent(<<Ack(c)>>)
    /\ used' = [used EXCEPT !.fails = @ + 1]
    /\ UNCHANGED <<pageVars, sockVars, link, inbox, seen, done, ever, repeated>>

(* _process_command_safely: the handler raises; the loop goes on, and the    *)
(* command is neither remembered nor acknowledged.                           *)
Fail(c) ==
    /\ c \in DOMAIN running
    /\ used.fails < MaxFails /\ Allowed
    /\ End(c)
    /\ used' = [used EXCEPT !.fails = @ + 1]
    /\ UNCHANGED <<pageVars, sockVars, wireVars, seen, done, ever, repeated>>

\* The wrapper process dies and restarts with nothing in memory.
WrapperDies ==
    /\ used.crashes < MaxCrashes /\ Allowed
    /\ running' = <<>> /\ seen' = <<>> /\ done' = {}
    /\ link' = FALSE /\ sendQ' = <<>> /\ inbox' = <<>>
    /\ used' = [used EXCEPT !.crashes = @ + 1]
    /\ UNCHANGED <<pageVars, sockVars, ever, repeated>>

-----------------------------------------------------------------------------
Next ==
    \/ Connect \/ Disconnect \/ Receive
    \/ Forward \/ Relay \/ LinkDown \/ LinkUp
    \/ TakeCommand \/ WrapperDies
    \/ \E c \in Cmds : Issue(c) \/ Respond(c) \/ Finish(c) \/ Fail(c)

Spec == Init /\ [][Next]_vars

(* The page reconnects, the relay and both transports keep moving, and every *)
(* handler that does not raise returns.                                      *)
Fairness ==
    /\ WF_vars(Connect) /\ WF_vars(Receive)
    /\ WF_vars(Forward) /\ WF_vars(Relay) /\ WF_vars(LinkUp)
    /\ WF_vars(TakeCommand)
    /\ \A c \in Cmds : WF_vars(Respond(c)) /\ WF_vars(Finish(c))

FairSpec == Spec /\ Fairness

-----------------------------------------------------------------------------
DeliveryTypeOK ==
    /\ issued \subseteq Cmds /\ answered \subseteq Cmds
    /\ outbox \in Seq(issued) /\ up \in Seq(issued) /\ inbox \in Seq(issued)
    /\ Len(outbox) <= OutboxCap /\ Len(seen) <= SeenCap
    /\ DOMAIN running \subseteq issued
    /\ ToSet(seen) \subseteq done /\ done \subseteq ever /\ ever \subseteq issued
    /\ ~link => sendQ = <<>>
    /\ conn = 0 => down = <<>>

(* A mutation is completed at most once in one lifetime of the wrapper, with *)
(* whatever resends, lost ACKs and off-lane tasks: the id of a command that  *)
(* may still be retried is not pushed out of the bounded LRU.  With one      *)
(* command pending at a time that holds whatever is lost; with more, every   *)
(* loss that hits the retry lets OutboxCap - 1 later commands pass it, so    *)
(* that the double window (machine.py:348-351) covers a few losses in a row  *)
(* and not any number of them.                                               *)
AtMostOnce == repeated = {}

(* A retry still on its way can be recognised: whatever is pending at the    *)
(* page and was completed in this lifetime is still remembered.              *)
PendingRemembered == done \cap ToSet(outbox) \subseteq ToSet(seen)

(* The channel implements its promise; an ACK in particular always stands    *)
(* for a handler that returned.                                              *)
Promise == INSTANCE CommandPromise WITH acked <- Acked
KeepsPromise == Promise!Spec

(* Every issued command is acknowledged in the end, whatever was lost on the *)
(* way, unless a handler raises: nothing but a loss makes the page retry it. *)
EveryCommandAcked == \A c \in Cmds : c \in issued ~> (c \in Acked \/ used.fails > 0)

Losses == used.drops + used.crashes + (IF used.conns = 0 THEN 0 ELSE used.conns - 1)

(* No single loss (of the wrapper's link, of the wrapper or of the page's    *)
(* socket) leaves a serial command acknowledged and its response missing:    *)
(* the replay that the same loss provokes fetches the response from the      *)
(* cache.  A second loss may hit that replay after the ACK has cleared the   *)
(* outbox; and an off-lane task absorbs the replay while it runs.            *)
EveryResponseArrives ==
    \A c \in Cmds \ OffLane :
        c \in issued ~> (c \in answered \/ Losses > 1 \/ used.fails > 0)

\* The command channel always: at most one execution of a command the wrapper still
\* remembers, and nothing the page still waits for is forgotten by it.
DeliverySafe ==
    /\ DeliveryTypeOK
    /\ AtMostOnce
    /\ PendingRemembered

\* Every command is acknowledged and, up to one loss, its response arrives.
DeliveryEnds ==
    /\ EveryCommandAcked
    /\ EveryResponseArrives
=============================================================================
