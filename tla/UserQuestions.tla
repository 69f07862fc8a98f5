---------------------------- MODULE UserQuestions ----------------------------
(* What an engine asks the user: requests of a Codex app-server (approvals   *)
(* and forms of several questions), and the confirmation that a change of    *)
(* model asks for.  Each has a task that waits for the answers of any page,  *)
(* until its deadline, the end of the process that asked, or the news that   *)
(* another client of a shared app-server has answered.  A Claude session     *)
(* asks for its tools (and for ask_user) in the same way.                    *)
(*                                                                           *)
(* Source: wrapper/codex_handle.py (_dispatch, _handle_server_request,       *)
(* _approval_decision, disconnect, _read_loop), wrapper/machine.py (_on_ask, *)
(* _on_codex_approval, _on_codex_interaction, _handle_answer_question,       *)
(* _on_claude_tool_permission, _confirm_claude_broker_model_switch).         *)
(* A task is named by the order in which it was created, the question k of   *)
(* task t is <<t, k>>.                                                       *)
EXTENDS Naturals, Sequences, FiniteSets

CONSTANTS
    RequestIds,     \* ids an app-server gives its requests; a new one begins again
    MaxAskTasks,    \* _MAX_SERVER_REQUEST_TASKS
    FormLength,     \* bound: the questions of a form (three at most in the code)
    AskBudgets      \* bounds: requests, answers, restarts, other answers and deadlines

ASSUME AskBounds ==
    /\ MaxAskTasks \in Nat \ {0} /\ FormLength \in Nat \ {0}
    /\ AskBudgets \subseteq [asked : Nat, answers : Nat, restarts : Nat, others : Nat]

CodexAsks == {"approval", "form"}
ClaudeAsks == {"tool", "model"}

VARIABLES
    link,       \* the engine: Claude's or an app-server (its generation, up, shared, its
                \* approval policy is "never", being replaced)
    asked,      \* requests not answered, by id, of the process that runs
    fromServer, \* frames not yet dispatched
    askers,     \* tasks that have not ended
    byId,       \* _server_request_tasks_by_id
    openIds,    \* _pending_server_request_ids
    asks,       \* ctx.pending_asks: question -> "open", or the answer it has got
    modelAsk,   \* ctx.pending_model_ask_id
    mail,       \* answers of pages under way
    created,    \* history: tasks so far
    seenBy,     \* history: questions that pages have been shown
    said,       \* history: answers given by pages
    replies,    \* history: what tasks have answered
    resolved,   \* history: requests that another client has answered, as we know
    leaked,     \* history: questions whose task was cancelled while it sent them
    askLeft

askVars == <<link, asked, fromServer, askers, byId, openIds, asks, modelAsk, mail, created,
             seenBy, said, replies, resolved, leaked, askLeft>>

NoQuestion == <<0, 0>>

QuestionsInit ==
    /\ askLeft \in AskBudgets
    /\ \E claude, shared, never \in BOOLEAN :
          /\ claude => ~shared /\ ~never
          /\ link = [claude |-> claude, gen |-> 1, up |-> TRUE, shared |-> shared,
                     never |-> never, closing |-> FALSE]
    /\ asked = {} /\ fromServer = <<>> /\ askers = {} /\ byId = <<>> /\ openIds = {}
    /\ asks = <<>> /\ modelAsk = NoQuestion /\ mail = {} /\ created = 0
    /\ seenBy = {} /\ said = {} /\ replies = {} /\ resolved = {} /\ leaked = {}

SpendsAsk(what) == askLeft[what] > 0 /\ askLeft' = [askLeft EXCEPT ![what] = @ - 1]

Drop(f, k) == [x \in DOMAIN f \ {k} |-> f[x]]
Put(f, k, v) == [x \in DOMAIN f \cup {k} |-> IF x = k THEN v ELSE f[x]]

ServerTasks == {t \in askers : t.kind \in CodexAsks}
Becomes(t, u) == askers' = (askers \ {t}) \cup {u}
----------------------------------------------------------------------------
(* The app-server and its other clients.                                     *)

ServerRequests(id, kind) ==
    /\ ~link.claude /\ link.up /\ id \notin asked
    /\ <<id, link.gen>> \notin resolved
    /\ \A r \in replies : <<r.id, r.gen>> # <<id, link.gen>>
    /\ \A k \in DOMAIN fromServer : fromServer[k].what = "resolved" => fromServer[k].id # id
    /\ SpendsAsk("asked")
    /\ asked' = asked \cup {id}
    /\ fromServer' = Append(fromServer, [what |-> "request", id |-> id, kind |-> kind])
    /\ UNCHANGED <<link, askers, byId, openIds, asks, modelAsk, mail, created, seenBy, said,
                   replies, resolved, leaked>>

(* Another client answers first, or the turn that asked is over.             *)
AnotherAnswers(id) ==
    /\ link.up /\ id \in asked
    /\ SpendsAsk("others")
    /\ asked' = asked \ {id}
    /\ fromServer' = Append(fromServer, [what |-> "resolved", id |-> id, kind |-> "form"])
    /\ UNCHANGED <<link, askers, byId, openIds, asks, modelAsk, mail, created, seenBy, said,
                   replies, resolved, leaked>>

ServerExits ==
    /\ ~link.claude /\ link.up
    /\ SpendsAsk("restarts")
    /\ link' = [link EXCEPT !.up = FALSE]
    /\ asked' = {}
    /\ fromServer' = Append(fromServer, [what |-> "eof", id |-> 0, kind |-> "form"])
    /\ UNCHANGED <<askers, byId, openIds, asks, modelAsk, mail, created, seenBy, said, replies,
                   resolved, leaked>>
----------------------------------------------------------------------------
(* The reader.                                                               *)

NewTask(id, gen, kind) ==
    [n |-> created + 1, id |-> id, gen |-> gen, kind |-> kind, at |-> "new", k |-> 0,
     cancelled |-> FALSE, chosen |-> FALSE, say |-> "none"]

(* What the handle sends for a request that nobody decided: a shared server  *)
(* keeps it open for its other clients.                                      *)
Undecided == IF link.shared THEN "nothing" ELSE "decline"

Answered(t) ==
    [id |-> t.id, gen |-> t.gen, to |-> link.gen, kind |-> t.kind, what |-> t.say,
     chosen |-> t.chosen, task |-> t.n, late |-> <<t.id, t.gen>> \in resolved]

DispatchRequest(m) ==
    IF Cardinality(ServerTasks) >= MaxAskTasks
    THEN /\ replies' = replies \cup
                (IF link.shared THEN {}
                 ELSE {Answered([NewTask(m.id, link.gen, m.kind)
                                   EXCEPT !.n = 0, !.say = "decline"])})
         /\ asked' = IF link.shared THEN asked ELSE asked \ {m.id}
         /\ UNCHANGED <<askers, byId, openIds, created>>
    ELSE /\ askers' = askers \cup {NewTask(m.id, link.gen, m.kind)}
         /\ byId' = Put(byId, m.id, created + 1)
         /\ openIds' = openIds \cup {m.id}
         /\ created' = created + 1
         /\ UNCHANGED <<replies, asked>>

(* A future that a cancelled task waits for is done at once.                 *)
Cancel(some) ==
    /\ askers' = {IF t \in some THEN [t EXCEPT !.cancelled = TRUE] ELSE t : t \in askers}
    /\ asks' = [q \in DOMAIN asks |->
                   IF asks[q] = "open" /\ \E t \in some : t.at = "wait" /\ q = <<t.n, t.k>>
                   THEN "cancelled" ELSE asks[q]]

DispatchResolved(m) ==
    /\ resolved' = resolved \cup {<<m.id, link.gen>>}
    /\ openIds' = openIds \ {m.id}
    /\ byId' = Drop(byId, m.id)
    /\ IF m.id \in DOMAIN byId THEN Cancel({t \in askers : t.n = byId[m.id]})
       ELSE UNCHANGED <<askers, asks>>

Dispatch1 ==
    /\ fromServer # <<>> /\ ~link.closing
    /\ fromServer' = Tail(fromServer)
    /\ LET m == Head(fromServer) IN
       \/ /\ m.what = "request" /\ DispatchRequest(m)
          /\ UNCHANGED <<asks, resolved>>
       \/ /\ m.what = "resolved" /\ DispatchResolved(m)
          /\ UNCHANGED <<created, replies, asked>>
       \/ /\ m.what = "eof" /\ Cancel(ServerTasks)
          /\ UNCHANGED <<byId, openIds, created, replies, asked, resolved>>
    /\ UNCHANGED <<link, modelAsk, mail, seenBy, said, leaked, askLeft>>

(* Mutant: the tasks of the old process go on.                               *)
CancelNone(some) == UNCHANGED <<askers, asks>>
CancelAll(some) == Cancel(some)

(* disconnect() cancels the tasks of the process and waits for them, then a  *)
(* new one is started.                                                       *)
Disconnect ==
    /\ ~link.claude /\ ~link.closing
    /\ \/ ~link.up /\ fromServer = <<>> /\ UNCHANGED askLeft
       \/ link.up /\ SpendsAsk("restarts")
    /\ link' = [link EXCEPT !.up = FALSE, !.closing = TRUE]
    /\ asked' = {} /\ fromServer' = <<>> /\ byId' = <<>> /\ openIds' = {}
    /\ CancelAll(ServerTasks)
    /\ UNCHANGED <<modelAsk, mail, created, seenBy, said, replies, resolved, leaked>>

Connects ==
    /\ link.closing /\ \A t \in ServerTasks : ~t.cancelled
    /\ link' = [link EXCEPT !.gen = @ + 1, !.up = TRUE, !.closing = FALSE]
    /\ UNCHANGED <<asked, fromServer, askers, byId, openIds, asks, modelAsk, mail, created,
                   seenBy, said, replies, resolved, leaked, askLeft>>
----------------------------------------------------------------------------
(* A task.  Its deadline runs from the first question on.                    *)

(* Claude asks before it uses a tool, or asks the user by a tool.            *)
ToolAsks ==
    /\ link.claude
    /\ SpendsAsk("asked")
    /\ askers' = askers \cup {NewTask(0, link.gen, "tool")}
    /\ created' = created + 1
    /\ UNCHANGED <<link, asked, fromServer, byId, openIds, asks, modelAsk, mail, seenBy, said,
                   replies, resolved, leaked>>

(* The SDK cancels what it waits for when its turn is interrupted.           *)
SdkCancels ==
    /\ link.claude
    /\ SpendsAsk("restarts")
    /\ Cancel({t \in askers : t.kind = "tool"})
    /\ UNCHANGED <<link, asked, fromServer, byId, openIds, modelAsk, mail, created, seenBy, said,
                   replies, resolved, leaked>>

(* A change of model replaces the confirmation that is still open.           *)
ModelChanges ==
    /\ link.claude
    /\ SpendsAsk("asked")
    /\ asks' = IF modelAsk \in DOMAIN asks /\ asks[modelAsk] = "open"
               THEN [asks EXCEPT ![modelAsk] = "replaced"] ELSE asks
    /\ askers' = askers \cup {NewTask(0, link.gen, "model")}
    /\ created' = created + 1
    /\ UNCHANGED <<link, asked, fromServer, byId, openIds, modelAsk, mail, seenBy, said, replies,
                   resolved, leaked>>

(* The question is registered before it is sent.                             *)
Registers(t, pending) ==
    /\ asks' = Put(pending, <<t.n, t.k + 1>>, "open")
    /\ Becomes(t, [t EXCEPT !.at = "sending", !.k = @ + 1])

TaskBegins(t) ==
    /\ t.at = "new" /\ ~t.cancelled
    /\ IF t.kind = "approval" /\ link.never
       THEN /\ Becomes(t, [t EXCEPT !.at = "reply", !.say = "decline", !.chosen = TRUE])
            /\ UNCHANGED <<asks, modelAsk>>
       ELSE /\ Registers(t, asks)
            /\ modelAsk' = IF t.kind = "model" THEN <<t.n, 1>> ELSE modelAsk
    /\ UNCHANGED <<link, asked, fromServer, byId, openIds, mail, created, seenBy, said, replies,
                   resolved, leaked, askLeft>>

(* The event is in the ring before the awaits of _emit are over.             *)
QuestionShown(t) ==
    /\ t.at = "sending"
    /\ Becomes(t, [t EXCEPT !.at = "sent"])
    /\ seenBy' = seenBy \cup {<<t.n, t.k>>}
    /\ UNCHANGED <<link, asked, fromServer, byId, openIds, asks, modelAsk, mail, created, said,
                   replies, resolved, leaked, askLeft>>

QuestionSent(t) ==
    /\ t.at = "sent" /\ ~t.cancelled
    /\ Becomes(t, [t EXCEPT !.at = "wait"])
    /\ UNCHANGED <<link, asked, fromServer, byId, openIds, asks, modelAsk, mail, created, seenBy,
                   said, replies, resolved, leaked, askLeft>>

LastQuestion(t) == t.kind # "form" \/ t.k >= FormLength

(* A label that is none of ours is a refusal; a form takes any text.         *)
Decision(t, answer) == IF t.kind = "form" \/ answer = "yes" THEN "accept" ELSE "decline"

ModelAskOver(t) ==
    modelAsk' = IF t.kind = "model" /\ modelAsk = <<t.n, t.k>> THEN NoQuestion ELSE modelAsk

Resumes(t) ==
    LET q == <<t.n, t.k>> IN
    /\ t.at = "wait" /\ ~t.cancelled /\ asks[q] \in {"yes", "no", "replaced"}
    /\ ModelAskOver(t)
    /\ IF LastQuestion(t)
       THEN /\ asks' = Drop(asks, q)
            /\ Becomes(t, [t EXCEPT !.at = "reply", !.chosen = TRUE,
                              !.say = Decision(t, asks[q])])
       ELSE Registers(t, Drop(asks, q))
    /\ UNCHANGED <<link, asked, fromServer, byId, openIds, mail, created, seenBy, said, replies,
                   resolved, leaked, askLeft>>

(* The deadline of the request (or of the question) is over.                 *)
TimesOutAsking(t) ==
    LET q == <<t.n, t.k>> IN
    /\ ~t.cancelled
    /\ \/ t.at = "wait" /\ asks[q] # "cancelled"
          /\ asks' = Drop(asks, q) /\ UNCHANGED leaked
       \/ t.at \in {"sending", "sent"} /\ t.kind \in CodexAsks
          /\ leaked' = leaked \cup {q} /\ UNCHANGED asks
    /\ SpendsAsk("others")
    /\ ModelAskOver(t)
    /\ Becomes(t, [t EXCEPT !.at = "reply",
                      !.say = IF t.kind \in ClaudeAsks THEN "decline" ELSE Undecided])
    /\ UNCHANGED <<link, asked, fromServer, byId, openIds, mail, created, seenBy, said, replies,
                   resolved>>

(* _server_request_done forgets a task where it is still known.              *)
Forgets(t) ==
    LET mine == {id \in DOMAIN byId : byId[id] = t.n} IN
    /\ askers' = askers \ {t}
    /\ byId' = [id \in DOMAIN byId \ mine |-> byId[id]]
    /\ openIds' = openIds \ mine

TaskUnwinds(t) ==
    LET q == <<t.n, t.k>> IN
    /\ t.cancelled
    /\ Forgets(t)
    /\ asks' = IF t.at = "wait" THEN Drop(asks, q) ELSE asks
    /\ leaked' = IF t.at \in {"sending", "sent"} THEN leaked \cup {q} ELSE leaked
    /\ UNCHANGED <<link, asked, fromServer, modelAsk, mail, created, seenBy, said, replies,
                   resolved, askLeft>>

(* What the process that runs now is told, or the model that is set.         *)
Replies(t) ==
    /\ t.at = "reply" /\ ~t.cancelled
    /\ Forgets(t)
    /\ replies' = IF t.say = "nothing" \/ (t.kind \in CodexAsks /\ ~link.up) THEN replies
                  ELSE replies \cup {Answered(t)}
    /\ asked' = IF t.kind \in ClaudeAsks \/ t.say = "nothing" THEN asked ELSE asked \ {t.id}
    /\ UNCHANGED <<link, fromServer, asks, modelAsk, mail, created, seenBy, said, resolved, leaked,
                   askLeft>>
----------------------------------------------------------------------------
(* Pages answer what they have been shown, late or twice.                    *)

PageAnswers(q, answer) ==
    /\ q \in seenBy
    /\ SpendsAsk("answers")
    /\ mail' = mail \cup {[ask |-> q, answer |-> answer]}
    /\ said' = said \cup {[ask |-> q, answer |-> answer]}
    /\ UNCHANGED <<link, asked, fromServer, askers, byId, openIds, asks, modelAsk, created, seenBy,
                   replies, resolved, leaked>>

(* _handle_answer_question: the first answer counts.                         *)
AnswerArrives(m) ==
    /\ m \in mail
    /\ mail' = mail \ {m}
    /\ asks' = IF m.ask \in DOMAIN asks /\ asks[m.ask] = "open"
               THEN [asks EXCEPT ![m.ask] = m.answer] ELSE asks
    /\ UNCHANGED <<link, asked, fromServer, askers, byId, openIds, modelAsk, created, seenBy, said,
                   replies, resolved, leaked, askLeft>>

QuestionsNext ==
    \/ \E id \in RequestIds :
          \/ \E kind \in CodexAsks : ServerRequests(id, kind)
          \/ AnotherAnswers(id)
    \/ ServerExits \/ Dispatch1 \/ Disconnect \/ Connects
    \/ ToolAsks \/ SdkCancels \/ ModelChanges
    \/ \E t \in askers :
          \/ TaskBegins(t) \/ QuestionShown(t) \/ QuestionSent(t) \/ Resumes(t)
          \/ TimesOutAsking(t) \/ TaskUnwinds(t) \/ Replies(t)
    \/ \E q \in seenBy, answer \in {"yes", "no"} : PageAnswers(q, answer)
    \/ \E m \in mail : AnswerArrives(m)

QuestionsSpec == QuestionsInit /\ [][QuestionsNext]_askVars
----------------------------------------------------------------------------
(* Properties.                                                               *)

(* The types of the tables, and a model confirmation that is remembered is    *)
(* the open question of a live change of model (5773-5793).                   *)
QuestionsTypeOK ==
    /\ \A q \in DOMAIN asks : asks[q] \in {"open", "yes", "no", "replaced", "cancelled"}
    /\ DOMAIN byId \subseteq RequestIds /\ openIds \subseteq RequestIds
    /\ \A t, u \in askers : t.n = u.n => t = u
    /\ modelAsk # NoQuestion =>
          \E t \in askers : t.kind = "model" /\ modelAsk = <<t.n, t.k>>

(* What is told to an engine as consent was said by a page, in answer to a    *)
(* question of that same request: neither a deadline, nor the end of a        *)
(* process, nor the answer to an earlier request under the same id, gives it. *)
ConsentIsGiven ==
    \A r \in replies : r.what = "accept" =>
       IF r.kind = "form"
       THEN \A k \in 1..FormLength : \E a \in said : a.ask = <<r.task, k>>
       ELSE [ask |-> <<r.task, 1>>, answer |-> "yes"] \in said

(* A request is answered once, and to the process that made it (2382-2401,    *)
(* 1678-1691, 2603-2604): ids of requests begin again with every process.     *)
RepliesMatch ==
    /\ \A r \in replies : r.kind \in CodexAsks => r.to = r.gen
    /\ \A r, s \in replies :
          r.kind \in CodexAsks /\ s.kind \in CodexAsks /\ r.id = s.id /\ r.gen = s.gen => r = s

(* An app-server shared with other clients is told only what somebody chose   *)
(* (or what the policy settles): silence leaves the request to them           *)
(* (2310-2332, 2752-2769).  What another client has answered gets no reply.   *)
OthersMayAnswer ==
    \A r \in replies :
       /\ link.shared => r.chosen
       /\ r.kind \in CodexAsks => ~r.late

(* The reader finds the task of a request that is resolved elsewhere: its     *)
(* tables hold the live tasks of this process and no others.                  *)
TasksAreKnown ==
    /\ \A id \in DOMAIN byId : \E t \in ServerTasks :
          t.n = byId[id] /\ t.id = id /\ t.gen = link.gen
    /\ \A t \in ServerTasks : ~t.cancelled =>
          t.id \in DOMAIN byId /\ byId[t.id] = t.n /\ t.id \in openIds

(* A question a page can still answer is one that a live task waits for, or   *)
(* whose task was given up while it was sending it (7537-7546 registers it    *)
(* before the try that removes it).                                           *)
AskersWait ==
    /\ \A q \in DOMAIN asks : q \in leaked \/ \E t \in askers : q = <<t.n, t.k>>
    /\ \A t \in askers : t.at \in {"sending", "sent", "wait"} => <<t.n, t.k>> \in DOMAIN asks

QuestionsSafe ==
    /\ QuestionsTypeOK /\ ConsentIsGiven /\ RepliesMatch /\ OthersMayAnswer
    /\ TasksAreKnown /\ AskersWait
=============================================================================
