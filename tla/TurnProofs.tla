----------------------------- MODULE TurnProofs -----------------------------
(***************************************************************************)
(* The turns of a session and the questions that engines ask in them,      *)
(* proved for every set of queries, automatic turns and request ids, every *)
(* length of a form, every limit of tasks and any number of requests,      *)
(* answers, restarts and deadlines.                                        *)
(*                                                                         *)
(* Questions (UserQuestions).  What makes the properties inductive: every  *)
(* question that is asked belongs to one task or was given up while it was *)
(* sent; an answer that a task reads was said by a page; the tasks of an   *)
(* app-server are those of the process that runs; and a request is on its  *)
(* way or with one live task, and nobody has answered it then as far as    *)
(* the wrapper knows.                                                      *)
(*                                                                         *)
(* Turns (TurnLifecycle).  What makes the properties inductive: a session  *)
(* has one task of a managed turn, and turn_task names it; an automatic    *)
(* turn that has claimed the session waits for the managed turn, and keeps *)
(* the interrupt event set while that one starts; and the handle counts a  *)
(* turn as active only when the session follows it or a managed turn reads *)
(* it.  Each of the three holds until a race happens that the model names  *)
(* and that breaks it.                                                     *)
(***************************************************************************)
EXTENDS UserQuestions, TurnLifecycle, FiniteSetTheorems, TLAPS

(***************************************************************************)
(* Questions.                                                              *)
(***************************************************************************)

Asking == {"sending", "sent", "wait"}
AskValues == {"open", "yes", "no", "replaced", "cancelled"}
AskTask ==
    [n : Nat \ {0}, id : RequestIds \cup {0}, gen : Nat, kind : CodexAsks \cup ClaudeAsks,
     at : Asking \cup {"new", "reply"}, k : Nat, cancelled : BOOLEAN, chosen : BOOLEAN,
     say : {"none", "accept", "decline", "nothing"}]
Frame == [what : {"request", "resolved", "eof"}, id : RequestIds \cup {0}, kind : CodexAsks]

\* What a page has said to the questions of task n.
Consented(kind, n) ==
    IF kind = "form" THEN \A k \in 1..FormLength : \E a \in said : a.ask = <<n, k>>
    ELSE [ask |-> <<n, 1>>, answer |-> "yes"] \in said

\* While the process is replaced nothing is asked.
LinkFine ==
    /\ link \in [claude : BOOLEAN, gen : Nat, up : BOOLEAN, shared : BOOLEAN, never : BOOLEAN,
                 closing : BOOLEAN]
    /\ link.claude => ~link.shared
    /\ link.closing => ~link.up /\ fromServer = <<>>

\* Tasks have numbers of their own.
TasksTyped ==
    /\ created \in Nat
    /\ askers \subseteq AskTask
    /\ \A t \in askers : t.n <= created
    /\ \A t, u \in askers : t.n = u.n => t = u

\* What a task knows and has been told.
TaskFine(t) ==
    /\ t.kind \in ClaudeAsks => link.claude
    /\ t.kind = "model" => ~t.cancelled
    /\ t.kind \in CodexAsks =>
          t.gen = link.gen /\ t.id \in RequestIds /\ (link.closing => t.cancelled)
    /\ t.at = "new" => t.k = 0
    /\ t.at \in Asking =>
          /\ t.k >= 1 /\ (t.kind # "form" => t.k = 1)
          /\ <<t.n, t.k>> \in DOMAIN asks
          /\ asks[<<t.n, t.k>>] = "replaced" => t.kind = "model"
    /\ t.at # "reply" => \A j \in 1 .. (t.k - 1) : \E a \in said : a.ask = <<t.n, j>>
    /\ t.at = "reply" =>
          /\ t.say = "accept" => Consented(t.kind, t.n)
          /\ link.shared => t.say = "nothing" \/ t.chosen

TasksFine == \A t \in askers : TaskFine(t)

\* Questions have the answers that pages gave, and tasks unless they leaked.
AsksFine ==
    /\ mail \subseteq said
    /\ \A a \in said : a = [ask |-> a.ask, answer |-> a.answer] /\ a.answer \in {"yes", "no"}
    /\ \A q \in DOMAIN asks :
          /\ asks[q] \in AskValues
          /\ asks[q] \in {"yes", "no"} => [ask |-> q, answer |-> asks[q]] \in said
          /\ q \in leaked \/ \E t \in askers : t.at \in Asking /\ q = <<t.n, t.k>>

ModelFine ==
    modelAsk # NoQuestion =>
        \E t \in askers : t.kind = "model" /\ t.at \in Asking /\ modelAsk = <<t.n, t.k>>

\* A request is the first frame with its id.
FramesFine ==
    /\ fromServer \in Seq(Frame)
    /\ \A k \in DOMAIN fromServer : fromServer[k].what # "eof" => fromServer[k].id \in RequestIds
    /\ \A i, j \in DOMAIN fromServer :
          i < j /\ fromServer[i].what # "eof" /\ fromServer[j].what = "request" =>
              fromServer[i].id # fromServer[j].id

TablesFine ==
    /\ TasksAreKnown
    /\ DOMAIN byId \subseteq RequestIds /\ openIds \subseteq RequestIds

Sent(what, id) == \E k \in DOMAIN fromServer : fromServer[k].what = what /\ fromServer[k].id = id

\* A request of this process that nobody has answered, as far as the wrapper knows.
Unanswered(id) ==
    /\ <<id, link.gen>> \notin resolved
    /\ \A r \in replies : r.kind \in CodexAsks => ~(r.id = id /\ r.gen = link.gen)
    /\ link.up => id \in asked \/ Sent("resolved", id)

\* A request is on its way or with one task, and was not answered then.
OnceAsked ==
    /\ \A id : Sent("request", id) => Unanswered(id)
    /\ \A t \in ServerTasks : ~t.cancelled => Unanswered(t.id) /\ ~Sent("request", t.id)

RepliesFine == ConsentIsGiven /\ RepliesMatch /\ OthersMayAnswer

AskInv ==
    /\ LinkFine /\ TasksTyped /\ TasksFine /\ AsksFine /\ ModelFine /\ FramesFine /\ TablesFine
    /\ OnceAsked /\ RepliesFine
----------------------------------------------------------------------------
(* Facts about tasks.                                                        *)

\* The question that a task asks is no other task's.
LEMMA OwnQuestion ==
    ASSUME TasksTyped, NEW t \in askers, NEW u \in askers, NEW k, NEW l, <<t.n, k>> = <<u.n, l>>
    PROVE  t = u
  <1>1. t.n = u.n
    OBVIOUS
  <1>2. QED
    BY <1>1 DEF TasksTyped

\* A task is as fine as before when its question keeps its answer.
LEMMA TaskKept ==
    ASSUME NEW x, TaskFine(x),
           link'.claude = link.claude, link'.gen = link.gen, link'.shared = link.shared,
           link'.closing => link.closing \/ x.cancelled \/ x.kind \notin CodexAsks,
           said \subseteq said',
           x.at \in Asking =>
               /\ <<x.n, x.k>> \in DOMAIN asks'
               /\ asks'[<<x.n, x.k>>] = "replaced" => x.kind = "model"
    PROVE  TaskFine(x)'
  BY DEF TaskFine, Consented

\* What was told stays true.
LEMMA RepliesKept ==
    ASSUME RepliesFine, replies' = replies, link'.shared = link.shared, said \subseteq said'
    PROVE  RepliesFine'
  <1>1. ConsentIsGiven'
    BY DEF RepliesFine, ConsentIsGiven
  <1>2. RepliesMatch' /\ OthersMayAnswer'
    BY DEF RepliesFine, RepliesMatch, OthersMayAnswer
  <1>3. QED
    BY <1>1, <1>2 DEF RepliesFine

\* A request stays unanswered as long as nobody answers it.
LEMMA OnceAskedKept ==
    ASSUME OnceAsked, fromServer' = fromServer, resolved' = resolved, replies' = replies,
           link' = link, asked' = asked,
           \A u \in ServerTasks' : ~u.cancelled => \E t \in ServerTasks : ~t.cancelled /\ t.id = u.id
    PROVE  OnceAsked'
  <1>1. \A id : Sent("request", id)' <=> Sent("request", id)
    BY DEF Sent
  <1>2. \A id : Unanswered(id)' <=> Unanswered(id)
    BY DEF Unanswered, Sent
  <1>3. QED
    BY <1>1, <1>2 DEF OnceAsked

----------------------------------------------------------------------------
(* A task goes on: it becomes u.                                             *)

\* Who the task is stays the same.
SameTask(t, u) ==
    /\ u.n = t.n /\ u.id = t.id /\ u.gen = t.gen /\ u.kind = t.kind /\ u.cancelled = t.cancelled

LEMMA TaskGoesOn ==
    ASSUME AskInv, NEW t \in askers, NEW u \in AskTask, SameTask(t, u), Becomes(t, u),
           UNCHANGED <<link, asked, fromServer, byId, openIds, mail, created, said, replies,
                       resolved>>
    PROVE  LinkFine' /\ TasksTyped' /\ FramesFine' /\ TablesFine' /\ OnceAsked' /\ RepliesFine'
  <1> USE DEF AskInv
  <1>1. LinkFine' /\ FramesFine'
    BY DEF LinkFine, FramesFine
  <1>2. askers' = (askers \ {t}) \cup {u}
    BY DEF Becomes
  <1>3. TasksTyped'
    <2>1. \A x \in askers' : x \in AskTask /\ x.n <= created
      BY <1>2 DEF TasksTyped, SameTask
    <2>2. \A x, y \in askers' : x.n = y.n => x = y
      BY <1>2 DEF TasksTyped, SameTask
    <2>3. QED
      BY <2>1, <2>2 DEF TasksTyped
  <1>4. t \in ServerTasks <=> u \in ServerTasks'
    BY <1>2 DEF ServerTasks, SameTask
  <1>5. TablesFine'
    <2>1. ASSUME NEW id \in DOMAIN byId'
          PROVE  \E x \in ServerTasks' : x.n = byId'[id] /\ x.id = id /\ x.gen = link'.gen
      <3>1. PICK x \in ServerTasks : x.n = byId[id] /\ x.id = id /\ x.gen = link.gen
        BY <2>1 DEF TablesFine, TasksAreKnown
      <3>2. CASE x = t
        BY <3>1, <3>2, <1>4 DEF SameTask
      <3>3. CASE x # t
        BY <3>1, <3>3, <1>2 DEF ServerTasks
      <3>4. QED
        BY <3>2, <3>3
    <2>2. ASSUME NEW x \in ServerTasks', ~x.cancelled
          PROVE  x.id \in DOMAIN byId' /\ byId'[x.id] = x.n /\ x.id \in openIds'
      <3>1. CASE x = u
        <4>1. t \in ServerTasks /\ ~t.cancelled
          BY <3>1, <2>2, <1>4 DEF SameTask
        <4>2. QED
          BY <4>1, <3>1 DEF TablesFine, TasksAreKnown, SameTask
      <3>2. CASE x # u
        <4>1. x \in ServerTasks
          BY <3>2, <1>2 DEF ServerTasks
        <4>2. QED
          BY <4>1, <2>2 DEF TablesFine, TasksAreKnown
      <3>3. QED
        BY <3>1, <3>2
    <2>3. QED
      BY <2>1, <2>2 DEF TablesFine, TasksAreKnown
  <1>6. OnceAsked'
    <2>1. \A x \in ServerTasks' : ~x.cancelled =>
              \E y \in ServerTasks : ~y.cancelled /\ y.id = x.id
      BY <1>2, <1>4 DEF ServerTasks, SameTask
    <2>2. QED
      BY <2>1, OnceAskedKept
  <1>7. RepliesFine'
    BY RepliesKept
  <1>8. QED
    BY <1>1, <1>3, <1>5, <1>6, <1>7

\* The questions of the other tasks keep their answers, that of u is new or kept.
LEMMA QuestionGoesOn ==
    ASSUME AskInv, NEW t \in askers, NEW u \in AskTask, SameTask(t, u), Becomes(t, u),
           UNCHANGED <<link, mail, said>>, TaskFine(u)', leaked \subseteq leaked',
           \A x \in askers : x # t /\ x.at \in Asking =>
               /\ <<x.n, x.k>> \in DOMAIN asks'
               /\ asks'[<<x.n, x.k>>] = asks[<<x.n, x.k>>],
           \A q \in DOMAIN asks' :
               \/ /\ q = <<u.n, u.k>> /\ u.at \in Asking
                  /\ asks'[q] = "open" \/ (q \in DOMAIN asks /\ asks'[q] = asks[q])
               \/ /\ q \in DOMAIN asks /\ asks'[q] = asks[q]
                  /\ q # <<t.n, t.k>> \/ t.at \notin Asking \/ q \in leaked'
    PROVE  TasksFine' /\ AsksFine'
  <1> USE DEF AskInv
  <1>1. askers' = (askers \ {t}) \cup {u}
    BY DEF Becomes
  <1>2. ASSUME NEW x \in askers'
        PROVE  TaskFine(x)'
    <2>1. CASE x = u
      BY <2>1
    <2>2. CASE x # u
      <3>1. x \in askers /\ x # t
        BY <2>2, <1>1
      <3>2. TaskFine(x)
        BY <3>1 DEF TasksFine
      <3>3. x.at \in Asking => (asks[<<x.n, x.k>>] = "replaced" => x.kind = "model")
        BY <3>2 DEF TaskFine
      <3>4. QED
        BY <3>1, <3>2, <3>3, TaskKept
    <2>3. QED
      BY <2>1, <2>2
  <1>3. TasksFine'
    BY <1>2 DEF TasksFine
  <1>4. ASSUME NEW q \in DOMAIN asks'
        PROVE  /\ asks'[q] \in AskValues
               /\ asks'[q] \in {"yes", "no"} => [ask |-> q, answer |-> asks'[q]] \in said'
               /\ q \in leaked' \/ \E x \in askers' : x.at \in Asking /\ q = <<x.n, x.k>>
    <2>1. CASE q = <<u.n, u.k>> /\ u.at \in Asking /\ asks'[q] = "open"
      BY <2>1, <1>1 DEF AskValues
    <2>2. CASE q = <<u.n, u.k>> /\ u.at \in Asking /\ q \in DOMAIN asks /\ asks'[q] = asks[q]
      BY <2>2, <1>1 DEF AsksFine
    <2>3. CASE /\ q \in DOMAIN asks /\ asks'[q] = asks[q]
               /\ q # <<t.n, t.k>> \/ t.at \notin Asking \/ q \in leaked'
      <3>1. q \in leaked \/ \E x \in askers : x.at \in Asking /\ q = <<x.n, x.k>>
        BY <2>3 DEF AsksFine
      <3>2. q \in leaked' \/ \E x \in askers' : x.at \in Asking /\ q = <<x.n, x.k>>
        BY <3>1, <2>3, <1>1
      <3>3. QED
        BY <2>3, <3>2 DEF AsksFine
    <2>4. QED
      BY <2>1, <2>2, <2>3
  <1>5. /\ mail' \subseteq said'
        /\ \A a \in said' :
              a = [ask |-> a.ask, answer |-> a.answer] /\ a.answer \in {"yes", "no"}
    BY DEF AsksFine
  <1>6. QED
    BY <1>3, <1>4, <1>5 DEF AsksFine

\* The confirmation that is remembered is still asked.
LEMMA ModelGoesOn ==
    ASSUME AskInv, NEW t \in askers, NEW u \in AskTask, SameTask(t, u), Becomes(t, u),
           modelAsk' # NoQuestion =>
               \/ modelAsk' = <<u.n, u.k>> /\ u.kind = "model" /\ u.at \in Asking
               \/ modelAsk' = modelAsk /\ (modelAsk # <<t.n, t.k>> \/ t.kind # "model")
    PROVE  ModelFine'
  <1>1. askers' = (askers \ {t}) \cup {u}
    BY DEF Becomes
  <1>2. CASE modelAsk' = NoQuestion
    BY <1>2 DEF ModelFine, NoQuestion
  <1>3. CASE modelAsk' = <<u.n, u.k>> /\ u.kind = "model" /\ u.at \in Asking
    BY <1>1, <1>3 DEF ModelFine
  <1>4. CASE modelAsk' = modelAsk /\ modelAsk # NoQuestion
             /\ (modelAsk # <<t.n, t.k>> \/ t.kind # "model")
    <2>1. PICK x \in askers : x.kind = "model" /\ x.at \in Asking /\ modelAsk = <<x.n, x.k>>
      BY <1>4 DEF AskInv, ModelFine
    <2>2. x # t
      BY <2>1, <1>4
    <2>3. QED
      BY <2>1, <2>2, <1>1, <1>4 DEF ModelFine
  <1>5. QED
    BY <1>2, <1>3, <1>4 DEF NoQuestion

\* What a form has been told so far grows with every answer.
LEMMA Registered ==
    ASSUME AskInv, NEW t \in askers, NEW pending, Registers(t, pending),
           \/ t.at = "new" /\ pending = asks
           \/ /\ t.at = "wait" /\ t.kind = "form" /\ asks[<<t.n, t.k>>] \in {"yes", "no"}
              /\ pending = Drop(asks, <<t.n, t.k>>),
           UNCHANGED <<link, asked, fromServer, byId, openIds, mail, created, said, replies,
                       resolved, leaked>>,
           modelAsk' = IF t.kind = "model" THEN <<t.n, t.k + 1>> ELSE modelAsk
    PROVE  AskInv'
  <1> DEFINE u == [t EXCEPT !.at = "sending", !.k = @ + 1]
             q == <<t.n, t.k>>
             p == <<t.n, t.k + 1>>
  <1>1. t \in AskTask /\ TaskFine(t) /\ t.n \in Nat /\ t.k \in Nat
    BY DEF AskInv, TasksTyped, TasksFine, AskTask
  <1>2. /\ u \in AskTask /\ SameTask(t, u) /\ Becomes(t, u)
        /\ u.at = "sending" /\ u.k = t.k + 1
        /\ u.at \in Asking
    <2>1. u.at = "sending" /\ u.k = t.k + 1 /\ SameTask(t, u)
      BY <1>1 DEF AskTask, SameTask
    <2>2. u \in AskTask
      <3>1. \A k \in Nat : [t EXCEPT !.at = "sending", !.k = k] \in AskTask
        BY <1>1 DEF AskTask, Asking
      <3>2. t.k + 1 \in Nat
        BY <1>1
      <3>3. QED
        BY <3>1, <3>2
    <2>3. Becomes(t, u)
      BY DEF Registers
    <2>4. QED
      BY <2>1, <2>2, <2>3 DEF Asking
  <1>3. asks' = [x \in DOMAIN pending \cup {p} |-> IF x = p THEN "open" ELSE pending[x]]
    BY DEF Registers, Put
  <1>4. /\ DOMAIN asks' = DOMAIN pending \cup {p} /\ asks'[p] = "open"
        /\ \A x \in DOMAIN pending : x # p => asks'[x] = pending[x]
    BY <1>3
  <1>5. DOMAIN pending \subseteq DOMAIN asks
    BY DEF Drop
  <1>6. /\ \A x \in DOMAIN asks : x # q => x \in DOMAIN pending
        /\ \A x \in DOMAIN pending : pending[x] = asks[x]
        /\ t.at # "new" => q \notin DOMAIN pending
    BY DEF Drop
  <1>7. p = <<u.n, u.k>>
    BY <1>2 DEF SameTask
  <1>8. \A x \in askers : x # t /\ x.at \in Asking =>
            /\ <<x.n, x.k>> \in DOMAIN asks'
            /\ asks'[<<x.n, x.k>>] = asks[<<x.n, x.k>>]
    <2> SUFFICES ASSUME NEW x \in askers, x # t, x.at \in Asking
                 PROVE  /\ <<x.n, x.k>> \in DOMAIN asks'
                        /\ asks'[<<x.n, x.k>>] = asks[<<x.n, x.k>>]
      OBVIOUS
    <2>1. <<x.n, x.k>> # q /\ <<x.n, x.k>> # p
      BY OwnQuestion DEF AskInv
    <2>2. <<x.n, x.k>> \in DOMAIN asks
      BY DEF AskInv, TasksFine, TaskFine
    <2> HIDE DEF q, p
    <2>3. QED
      BY <2>1, <2>2, <1>4, <1>6
  <1>9. TaskFine(u)'
    <2>1. \A j \in 1 .. t.k : \E a \in said : a.ask = <<t.n, j>>
      <3>1. CASE t.at = "new"
        BY <3>1, <1>1 DEF TaskFine
      <3>2. CASE t.at = "wait" /\ asks[q] \in {"yes", "no"}
        <4>1. [ask |-> q, answer |-> asks[q]] \in said
          BY <3>2, <1>1 DEF TaskFine, Asking, AskInv, AsksFine
        <4>2. \A j \in 1 .. (t.k - 1) : \E a \in said : a.ask = <<t.n, j>>
          BY <3>2, <1>1 DEF TaskFine
        <4>3. \E a \in said : a.ask = <<t.n, t.k>>
          BY <4>1
        <4>4. \A j \in 1 .. t.k : j = t.k \/ j \in 1 .. (t.k - 1)
          BY <1>1
        <4>5. QED
          BY <4>2, <4>3, <4>4
      <3>3. QED
        BY <3>1, <3>2
    <2>2. u.k - 1 = t.k /\ u.k >= 1 /\ (u.kind # "form" => u.k = 1)
      BY <1>1, <1>2 DEF SameTask, TaskFine
    <2>3. <<u.n, u.k>> \in DOMAIN asks' /\ asks'[<<u.n, u.k>>] = "open"
      BY <1>4, <1>7
    <2>4. /\ u.kind \in ClaudeAsks => link.claude
          /\ u.kind = "model" => ~u.cancelled
          /\ u.kind \in CodexAsks =>
                u.gen = link.gen /\ u.id \in RequestIds /\ (link.closing => u.cancelled)
      BY <1>1, <1>2 DEF SameTask, TaskFine
    <2>5. \A j \in 1 .. (u.k - 1) : \E a \in said : a.ask = <<u.n, j>>
      BY <2>1, <2>2, <1>2 DEF SameTask
    <2> HIDE DEF u
    <2>6. QED
      BY <2>2, <2>3, <2>4, <2>5, <1>2 DEF TaskFine
  <1>10. \A x \in DOMAIN asks' :
            \/ x = <<u.n, u.k>> /\ u.at \in Asking /\ asks'[x] = "open"
            \/ /\ x \in DOMAIN asks /\ asks'[x] = asks[x]
               /\ x # q \/ t.at \notin Asking \/ x \in leaked'
    <2>1. t.at = "new" => t.at \notin Asking
      BY DEF Asking
    <2> HIDE DEF u, q, p
    <2>2. QED
      BY <2>1, <1>2, <1>4, <1>5, <1>6, <1>7
  <1>11. modelAsk' # NoQuestion =>
            \/ modelAsk' = <<u.n, u.k>> /\ u.kind = "model" /\ u.at \in Asking
            \/ modelAsk' = modelAsk /\ (modelAsk # <<t.n, t.k>> \/ t.kind # "model")
    BY <1>2, <1>7 DEF SameTask
  <1> HIDE DEF u, q, p
  <1>12. TasksFine' /\ AsksFine'
    BY <1>2, <1>8, <1>9, <1>10, QuestionGoesOn DEF q
  <1>13. ModelFine'
    BY <1>2, <1>11, ModelGoesOn
  <1>14. LinkFine' /\ TasksTyped' /\ FramesFine' /\ TablesFine' /\ OnceAsked' /\ RepliesFine'
    BY <1>2, TaskGoesOn
  <1>15. QED
    BY <1>12, <1>13, <1>14 DEF AskInv

\* A task that goes on and asks no new question.
LEMMA TaskSettles ==
    ASSUME AskInv, NEW t \in askers, NEW u \in AskTask, SameTask(t, u), Becomes(t, u),
           UNCHANGED <<link, asked, fromServer, byId, openIds, mail, created, said, replies,
                       resolved>>,
           TaskFine(u)', leaked \subseteq leaked',
           \/ asks' = asks /\ ((u.at \in Asking /\ u.k = t.k) \/ t.at \notin Asking
                               \/ <<t.n, t.k>> \in leaked')
           \/ asks' = Drop(asks, <<t.n, t.k>>),
           \/ modelAsk' = modelAsk /\ (t.kind # "model" \/ t.at \notin Asking \/ (u.at \in Asking /\ u.k = t.k))
           \/ ModelAskOver(t)
    PROVE  AskInv'
  <1>1. \A x \in askers : x # t /\ x.at \in Asking =>
            /\ <<x.n, x.k>> \in DOMAIN asks'
            /\ asks'[<<x.n, x.k>>] = asks[<<x.n, x.k>>]
    <2> SUFFICES ASSUME NEW x \in askers, x # t, x.at \in Asking
                 PROVE  /\ <<x.n, x.k>> \in DOMAIN asks'
                        /\ asks'[<<x.n, x.k>>] = asks[<<x.n, x.k>>]
      OBVIOUS
    <2>1. <<x.n, x.k>> # <<t.n, t.k>>
      BY OwnQuestion DEF AskInv
    <2>2. <<x.n, x.k>> \in DOMAIN asks
      BY DEF AskInv, TasksFine, TaskFine
    <2>3. QED
      BY <2>1, <2>2 DEF Drop
  <1>2. \A q \in DOMAIN asks' :
            \/ q = <<u.n, u.k>> /\ u.at \in Asking /\ q \in DOMAIN asks /\ asks'[q] = asks[q]
            \/ /\ q \in DOMAIN asks /\ asks'[q] = asks[q]
               /\ q # <<t.n, t.k>> \/ t.at \notin Asking \/ q \in leaked'
    BY DEF Drop, SameTask
  <1>3. TasksFine' /\ AsksFine'
    BY <1>1, <1>2, QuestionGoesOn
  <1>4. LinkFine' /\ TasksTyped' /\ FramesFine' /\ TablesFine' /\ OnceAsked' /\ RepliesFine'
    BY TaskGoesOn
  <1>5. ModelFine'
    <2>1. CASE modelAsk' # NoQuestion => modelAsk' = modelAsk /\ (modelAsk # <<t.n, t.k>> \/ t.kind # "model")
      BY <2>1, ModelGoesOn
    <2>2. CASE modelAsk' = modelAsk /\ modelAsk = <<t.n, t.k>> /\ u.at \in Asking /\ u.k = t.k
               /\ t.kind = "model"
      BY <2>2, ModelGoesOn DEF SameTask
    <2>3. CASE modelAsk' = modelAsk /\ modelAsk # NoQuestion /\ modelAsk = <<t.n, t.k>> /\ t.at \notin Asking
      <3>1. PICK x \in askers : x.kind = "model" /\ x.at \in Asking /\ modelAsk = <<x.n, x.k>>
        BY <2>3 DEF AskInv, ModelFine
      <3>2. x = t
        BY <3>1, <2>3, OwnQuestion DEF AskInv
      <3>3. QED
        BY <3>1, <3>2, <2>3
    <2>4. QED
      BY <2>1, <2>2, <2>3 DEF ModelAskOver
  <1>6. QED
    BY <1>3, <1>4, <1>5 DEF AskInv

LEMMA TaskBeginsKeeps ==
    ASSUME AskInv, NEW t \in askers, TaskBegins(t)
    PROVE  AskInv'
  <1>1. t \in AskTask /\ TaskFine(t)
    BY DEF AskInv, TasksTyped, TasksFine
  <1>2. CASE t.kind = "approval" /\ link.never
    <2> DEFINE u == [t EXCEPT !.at = "reply", !.say = "decline", !.chosen = TRUE]
    <2>1. /\ u \in AskTask /\ SameTask(t, u) /\ Becomes(t, u)
          /\ u.at = "reply" /\ u.say = "decline" /\ u.chosen
      BY <1>1, <1>2 DEF AskTask, SameTask, TaskBegins
    <2> HIDE DEF u
    <2>2. u.at \notin Asking /\ t.at \notin Asking
      BY <2>1 DEF Asking, TaskBegins
    <2>3. UNCHANGED <<link, asked, fromServer, byId, openIds, mail, created, said, replies,
                      resolved, asks, modelAsk, leaked>>
      BY <1>2 DEF TaskBegins
    <2>4. TaskFine(u)'
      BY <2>1, <2>2, <2>3, <1>1 DEF TaskFine, SameTask
    <2>5. QED
      BY <2>1, <2>2, <2>3, <2>4, TaskSettles
  <1>3. CASE ~(t.kind = "approval" /\ link.never)
    <2>1. t.k = 0 /\ t.at = "new"
      BY <1>1 DEF TaskBegins, TaskFine
    <2>2. Registers(t, asks) /\ modelAsk' = (IF t.kind = "model" THEN <<t.n, t.k + 1>> ELSE modelAsk)
      BY <1>3, <2>1 DEF TaskBegins
    <2>3. UNCHANGED <<link, asked, fromServer, byId, openIds, mail, created, said, replies,
                      resolved, leaked>>
      BY DEF TaskBegins
    <2>4. QED
      BY <2>1, <2>2, <2>3, Registered
  <1>4. QED
    BY <1>2, <1>3

LEMMA QuestionSendingKeeps ==
    ASSUME AskInv, NEW t \in askers, QuestionShown(t) \/ QuestionSent(t)
    PROVE  AskInv'
  <1>1. t \in AskTask /\ TaskFine(t)
    BY DEF AskInv, TasksTyped, TasksFine
  <1>2. PICK at \in {"sent", "wait"} : Becomes(t, [t EXCEPT !.at = at])
    BY DEF QuestionShown, QuestionSent
  <1> DEFINE u == [t EXCEPT !.at = at]
  <1>3. t.at \in Asking
    BY DEF QuestionShown, QuestionSent, Asking
  <1>4. /\ u \in AskTask /\ SameTask(t, u) /\ Becomes(t, u)
        /\ u.at \in Asking /\ u.k = t.k /\ u.at # "new" /\ u.at # "reply"
    BY <1>1, <1>2 DEF AskTask, SameTask, Asking
  <1> HIDE DEF u
  <1>5. UNCHANGED <<link, asked, fromServer, byId, openIds, mail, created, said, replies,
                    resolved, asks, modelAsk, leaked>>
    BY DEF QuestionShown, QuestionSent
  <1>6. TaskFine(u)'
    <2>1. t.at # "reply"
      BY <1>3 DEF Asking
    <2>2. QED
      BY <2>1, <1>1, <1>3, <1>4, <1>5 DEF TaskFine, SameTask
  <1>7. QED
    BY <1>4, <1>5, <1>6, TaskSettles

LEMMA ResumesKeeps ==
    ASSUME AskInv, NEW t \in askers, Resumes(t)
    PROVE  AskInv'
  <1> DEFINE q == <<t.n, t.k>>
  <1>1. /\ t \in AskTask /\ TaskFine(t) /\ t.n \in Nat /\ t.k \in Nat
        /\ t.at = "wait" /\ t.at \in Asking /\ t.k >= 1
    BY DEF AskInv, TasksTyped, TasksFine, AskTask, Resumes, TaskFine, Asking
  <1>2. UNCHANGED <<link, asked, fromServer, byId, openIds, mail, created, said, replies,
                    resolved, leaked>>
    BY DEF Resumes
  <1>3. q \in DOMAIN asks /\ asks[q] \in {"yes", "no", "replaced"}
    BY <1>1 DEF Resumes, TaskFine
  <1>4. asks[q] \in {"yes", "no"} => [ask |-> q, answer |-> asks[q]] \in said
    BY <1>3 DEF AskInv, AsksFine
  <1>5. asks[q] = "replaced" => t.kind = "model"
    BY <1>1 DEF TaskFine
  <1>6. CASE LastQuestion(t)
    <2>1. PICK say \in {"accept", "decline"} : say = Decision(t, asks[q])
      BY DEF Decision
    <2> DEFINE u == [t EXCEPT !.at = "reply", !.chosen = TRUE, !.say = say]
    <2>2. /\ u \in AskTask /\ SameTask(t, u) /\ Becomes(t, u)
          /\ u.at = "reply" /\ u.chosen /\ u.say = say
      BY <1>1, <1>6, <2>1 DEF AskTask, SameTask, Resumes, Becomes
    <2>3. asks' = Drop(asks, q) /\ ModelAskOver(t)
      BY <1>6 DEF Resumes
    <2> HIDE DEF u
    <2>4. u.say = "accept" => Consented(t.kind, t.n)
      <3>1. CASE t.kind = "form"
        <4>1. \A j \in 1 .. (t.k - 1) : \E a \in said : a.ask = <<t.n, j>>
          BY <1>1 DEF TaskFine
        <4>2. \E a \in said : a.ask = <<t.n, t.k>>
          BY <1>3, <1>4, <1>5, <3>1
        <4>3. t.k >= FormLength /\ FormLength \in Nat
          BY <1>6, <3>1, AskBounds DEF LastQuestion
        <4>4. \A j \in 1 .. FormLength : j = t.k \/ j \in 1 .. (t.k - 1)
          BY <4>3, <1>1
        <4>5. QED
          BY <4>1, <4>2, <4>4, <3>1 DEF Consented
      <3>2. CASE t.kind # "form"
        <4>1. t.k = 1
          BY <1>1, <3>2 DEF TaskFine
        <4>2. u.say = "accept" => asks[q] = "yes"
          BY <2>1, <2>2, <3>2 DEF Decision
        <4>3. QED
          BY <4>1, <4>2, <1>4, <3>2 DEF Consented
      <3>3. QED
        BY <3>1, <3>2
    <2>5. TaskFine(u)'
      <3>1. u.say = "accept" => Consented(u.kind, u.n)'
        BY <2>4, <1>2, <2>2 DEF Consented, SameTask
      <3>2. u.at \notin Asking
        BY <2>2 DEF Asking
      <3>3. QED
        BY <3>1, <3>2, <1>1, <1>2, <2>2 DEF TaskFine, SameTask
    <2>6. QED
      BY <1>2, <2>2, <2>3, <2>5, TaskSettles
  <1>7. CASE ~LastQuestion(t)
    <2>1. t.kind = "form"
      BY <1>7 DEF LastQuestion
    <2>2. Registers(t, Drop(asks, q)) /\ modelAsk' = modelAsk
      BY <1>7, <2>1 DEF Resumes, ModelAskOver
    <2>3. asks[q] \in {"yes", "no"}
      BY <2>1, <1>3, <1>5
    <2>4. QED
      BY <2>1, <2>2, <2>3, <1>1, <1>2, Registered
  <1>8. QED
    BY <1>6, <1>7

LEMMA TimesOutKeeps ==
    ASSUME AskInv, NEW t \in askers, TimesOutAsking(t)
    PROVE  AskInv'
  <1>1. t \in AskTask /\ TaskFine(t) /\ t.kind \in CodexAsks \cup ClaudeAsks
    BY DEF AskInv, TasksTyped, TasksFine, AskTask
  <1>2. PICK say \in {"decline", "nothing"} :
            /\ say = IF t.kind \in ClaudeAsks THEN "decline" ELSE Undecided
            /\ link.shared => say = "nothing"
    BY <1>1 DEF Undecided, TaskFine, AskInv, LinkFine
  <1> DEFINE u == [t EXCEPT !.at = "reply", !.say = say]
  <1>3. /\ u \in AskTask /\ SameTask(t, u) /\ u.at = "reply" /\ u.say = say
    BY <1>1, <1>2 DEF AskTask, SameTask
  <1>4. Becomes(t, u) /\ ModelAskOver(t)
    BY <1>2 DEF TimesOutAsking
  <1> HIDE DEF u
  <1>5. UNCHANGED <<link, asked, fromServer, byId, openIds, mail, created, said, replies, resolved>>
    BY DEF TimesOutAsking
  <1>6. /\ leaked \subseteq leaked'
        /\ \/ asks' = asks /\ <<t.n, t.k>> \in leaked'
           \/ asks' = Drop(asks, <<t.n, t.k>>)
    BY DEF TimesOutAsking
  <1>7. TaskFine(u)'
    <2>1. u.at \notin Asking
      BY <1>3 DEF Asking
    <2>2. QED
      BY <2>1, <1>1, <1>2, <1>3, <1>5 DEF TaskFine, SameTask
  <1>8. QED
    BY <1>3, <1>4, <1>5, <1>6, <1>7, TaskSettles

----------------------------------------------------------------------------
(* A task ends.                                                              *)

\* What is not about requests and replies.
LEMMA TaskLeaves ==
    ASSUME AskInv, NEW t \in askers, Forgets(t), t.kind = "model" => t.at \notin Asking,
           UNCHANGED <<link, fromServer, mail, created, said, modelAsk>>,
           leaked \subseteq leaked',
           \/ asks' = asks /\ (t.at \notin Asking \/ <<t.n, t.k>> \in leaked')
           \/ asks' = Drop(asks, <<t.n, t.k>>)
    PROVE  /\ LinkFine' /\ TasksTyped' /\ TasksFine' /\ AsksFine' /\ ModelFine' /\ FramesFine'
           /\ TablesFine'
  <1> USE DEF AskInv
  <1>1. LinkFine' /\ FramesFine'
    BY DEF LinkFine, FramesFine
  <1>2. askers' = askers \ {t}
    BY DEF Forgets
  <1>3. TasksTyped'
    BY <1>2 DEF TasksTyped
  <1>4. \A x \in askers : x # t /\ x.at \in Asking =>
            /\ <<x.n, x.k>> \in DOMAIN asks'
            /\ asks'[<<x.n, x.k>>] = asks[<<x.n, x.k>>]
    <2> SUFFICES ASSUME NEW x \in askers, x # t, x.at \in Asking
                 PROVE  /\ <<x.n, x.k>> \in DOMAIN asks'
                        /\ asks'[<<x.n, x.k>>] = asks[<<x.n, x.k>>]
      OBVIOUS
    <2>1. <<x.n, x.k>> # <<t.n, t.k>>
      BY OwnQuestion
    <2>2. <<x.n, x.k>> \in DOMAIN asks
      BY DEF TasksFine, TaskFine
    <2>3. QED
      BY <2>1, <2>2 DEF Drop
  <1>5. TasksFine'
    <2> SUFFICES ASSUME NEW x \in askers'
                 PROVE  TaskFine(x)'
      BY DEF TasksFine
    <2>1. x \in askers /\ x # t /\ TaskFine(x)
      BY <1>2 DEF TasksFine
    <2>2. x.at \in Asking => (asks[<<x.n, x.k>>] = "replaced" => x.kind = "model")
      BY <2>1 DEF TaskFine
    <2>3. QED
      BY <2>1, <2>2, <1>4, TaskKept
  <1>6. ASSUME NEW q \in DOMAIN asks'
        PROVE  /\ asks'[q] \in AskValues
               /\ asks'[q] \in {"yes", "no"} => [ask |-> q, answer |-> asks'[q]] \in said'
               /\ q \in leaked' \/ \E x \in askers' : x.at \in Asking /\ q = <<x.n, x.k>>
    <2>1. /\ q \in DOMAIN asks /\ asks'[q] = asks[q]
          /\ q # <<t.n, t.k>> \/ t.at \notin Asking \/ q \in leaked'
      BY DEF Drop
    <2>2. q \in leaked \/ \E x \in askers : x.at \in Asking /\ q = <<x.n, x.k>>
      BY <2>1 DEF AsksFine
    <2>3. q \in leaked' \/ \E x \in askers' : x.at \in Asking /\ q = <<x.n, x.k>>
      BY <2>1, <2>2, <1>2
    <2>4. QED
      BY <2>1, <2>3 DEF AsksFine
  <1>7. AsksFine'
    BY <1>6 DEF AsksFine
  <1>8. ModelFine'
    BY <1>2 DEF ModelFine
  <1>9. TablesFine'
    <2>1. /\ DOMAIN byId' = {id \in DOMAIN byId : byId[id] # t.n}
          /\ \A id \in DOMAIN byId' : byId'[id] = byId[id]
          /\ \A id \in openIds : id \in openIds' \/ (id \in DOMAIN byId /\ byId[id] = t.n)
          /\ openIds' \subseteq openIds
      BY DEF Forgets
    <2>2. ASSUME NEW id \in DOMAIN byId'
          PROVE  \E x \in ServerTasks' : x.n = byId'[id] /\ x.id = id /\ x.gen = link'.gen
      <3>1. PICK x \in ServerTasks : x.n = byId[id] /\ x.id = id /\ x.gen = link.gen
        BY <2>1, <2>2 DEF TablesFine, TasksAreKnown
      <3>2. x \in ServerTasks'
        BY <3>1, <2>1, <2>2, <1>2 DEF ServerTasks
      <3>3. QED
        BY <3>1, <3>2, <2>1, <2>2
    <2>3. ASSUME NEW x \in ServerTasks', ~x.cancelled
          PROVE  x.id \in DOMAIN byId' /\ byId'[x.id] = x.n /\ x.id \in openIds'
      <3>1. x \in ServerTasks /\ x # t /\ x \in askers
        BY <2>3, <1>2 DEF ServerTasks
      <3>2. x.n # t.n
        BY <3>1 DEF TasksTyped
      <3>3. x.id \in DOMAIN byId /\ byId[x.id] = x.n /\ x.id \in openIds
        BY <3>1, <2>3 DEF TablesFine, TasksAreKnown
      <3>4. QED
        BY <3>2, <3>3, <2>1
    <2>4. QED
      BY <2>1, <2>2, <2>3 DEF TablesFine, TasksAreKnown
  <1>10. QED
    BY <1>1, <1>3, <1>5, <1>7, <1>8, <1>9

LEMMA UnwindsKeeps ==
    ASSUME AskInv, NEW t \in askers, TaskUnwinds(t)
    PROVE  AskInv'
  <1>1. t.kind # "model"
    BY DEF AskInv, TasksFine, TaskFine, TaskUnwinds
  <1>2. /\ leaked \subseteq leaked'
        /\ \/ asks' = asks /\ (t.at \notin Asking \/ <<t.n, t.k>> \in leaked')
           \/ asks' = Drop(asks, <<t.n, t.k>>)
    BY DEF TaskUnwinds, Asking
  <1>3. /\ LinkFine' /\ TasksTyped' /\ TasksFine' /\ AsksFine' /\ ModelFine' /\ FramesFine'
        /\ TablesFine'
    BY <1>1, <1>2, TaskLeaves DEF TaskUnwinds
  <1>4. OnceAsked'
    <2>1. \A x \in ServerTasks' : ~x.cancelled =>
              \E y \in ServerTasks : ~y.cancelled /\ y.id = x.id
      BY DEF ServerTasks, TaskUnwinds, Forgets
    <2>2. QED
      BY <2>1, OnceAskedKept DEF AskInv, TaskUnwinds
  <1>5. RepliesFine'
    BY RepliesKept DEF AskInv, TaskUnwinds
  <1>6. QED
    BY <1>3, <1>4, <1>5 DEF AskInv

\* Who answers a request is the only one, and nobody has answered it yet.
LEMMA OneMoreReply ==
    ASSUME RepliesFine, NEW t, replies' = replies \cup {Answered(t)},
           link' = link, said' = said,
           t.say = "accept" => Consented(t.kind, t.n),
           link.shared => t.chosen,
           t.kind \in CodexAsks => t.gen = link.gen /\ Unanswered(t.id)
    PROVE  RepliesFine'
  <1> DEFINE r == Answered(t)
  <1>1. /\ r.id = t.id /\ r.gen = t.gen /\ r.to = link.gen /\ r.kind = t.kind /\ r.what = t.say
        /\ r.chosen = t.chosen /\ r.task = t.n /\ r.late = (<<t.id, t.gen>> \in resolved)
    BY DEF Answered
  <1>2. \A s \in replies' : s = r \/ s \in replies
    OBVIOUS
  <1>3. \A s \in replies : s.kind \in CodexAsks /\ r.kind \in CodexAsks => ~(s.id = r.id /\ s.gen = r.gen)
    BY <1>1 DEF Unanswered
  <1>4. r.kind \in CodexAsks => ~r.late /\ r.to = r.gen
    BY <1>1 DEF Unanswered
  <1> HIDE DEF r
  <1>5. ConsentIsGiven'
    BY <1>1, <1>2 DEF RepliesFine, ConsentIsGiven, Consented
  <1>6. RepliesMatch'
    BY <1>2, <1>3, <1>4 DEF RepliesFine, RepliesMatch
  <1>7. OthersMayAnswer'
    BY <1>1, <1>2, <1>4 DEF RepliesFine, OthersMayAnswer
  <1>8. QED
    BY <1>5, <1>6, <1>7 DEF RepliesFine

\* The answer to a request concerns no other request that is under way.
LEMMA AnswerIsOwn ==
    ASSUME AskInv, NEW t, t.kind \in CodexAsks => t.gen = link.gen,
           fromServer' = fromServer, resolved' = resolved, link' = link,
           replies' = replies \/ replies' = replies \cup {Answered(t)},
           asked' = asked \/ (asked' = asked \ {t.id} /\ t.kind \in CodexAsks),
           t.kind \in CodexAsks => ~Sent("request", t.id),
           \A x \in ServerTasks' : ~x.cancelled =>
              /\ \E y \in ServerTasks : ~y.cancelled /\ y.id = x.id
              /\ t.kind \in CodexAsks => x.id # t.id
    PROVE  OnceAsked'
  <1>1. \A what, id : Sent(what, id)' <=> Sent(what, id)
    BY DEF Sent
  <1>2. ASSUME NEW id, Unanswered(id), t.kind \in CodexAsks => id # t.id
        PROVE  Unanswered(id)'
    <2>1. \A r \in replies' : r.kind \in CodexAsks => ~(r.id = id /\ r.gen = link.gen)
      BY <1>2 DEF Unanswered, Answered
    <2>2. link.up => id \in asked' \/ Sent("resolved", id)
      BY <1>2 DEF Unanswered
    <2>3. QED
      BY <1>1, <1>2, <2>1, <2>2 DEF Unanswered
  <1>3. QED
    BY <1>1, <1>2 DEF AskInv, OnceAsked

LEMMA RepliesKeeps ==
    ASSUME AskInv, NEW t \in askers, Replies(t)
    PROVE  AskInv'
  <1>1. t \in AskTask /\ TaskFine(t) /\ t.kind \in CodexAsks \cup ClaudeAsks
    BY DEF AskInv, TasksTyped, TasksFine, AskTask
  <1>2. t.at = "reply" /\ t.at \notin Asking /\ ~t.cancelled
    BY DEF Replies, Asking
  <1>3. /\ LinkFine' /\ TasksTyped' /\ TasksFine' /\ AsksFine' /\ ModelFine' /\ FramesFine'
        /\ TablesFine'
    BY <1>2, TaskLeaves DEF Replies
  <1>4. t.kind \in CodexAsks =>
            t.gen = link.gen /\ Unanswered(t.id) /\ ~Sent("request", t.id)
    BY <1>1, <1>2 DEF TaskFine, AskInv, OnceAsked, ServerTasks
  <1>5. OnceAsked'
    <2>1. ASSUME NEW x \in ServerTasks', ~x.cancelled
          PROVE  /\ \E y \in ServerTasks : ~y.cancelled /\ y.id = x.id
                 /\ t.kind \in CodexAsks => x.id # t.id
      <3>1. x \in ServerTasks /\ x # t /\ x \in askers
        BY <2>1 DEF ServerTasks, Replies, Forgets
      <3>2. x.n # t.n
        BY <3>1 DEF AskInv, TasksTyped
      <3>3. t.kind \in CodexAsks => byId[t.id] = t.n
        BY <1>2 DEF AskInv, TablesFine, TasksAreKnown, ServerTasks
      <3>4. byId[x.id] = x.n
        BY <3>1, <2>1 DEF AskInv, TablesFine, TasksAreKnown
      <3>5. QED
        BY <3>1, <3>2, <3>3, <3>4, <2>1
    <2>2. replies' = replies \/ replies' = replies \cup {Answered(t)}
      BY DEF Replies
    <2>3. asked' = asked \/ (asked' = asked \ {t.id} /\ t.kind \in CodexAsks)
      BY <1>1 DEF Replies
    <2>4. UNCHANGED <<fromServer, resolved, link>>
      BY DEF Replies
    <2>5. QED
      BY <1>4, <2>1, <2>2, <2>3, <2>4, AnswerIsOwn
  <1>6. RepliesFine'
    <2>1. CASE replies' = replies
      BY <2>1, RepliesKept DEF AskInv, Replies
    <2>2. CASE replies' = replies \cup {Answered(t)} /\ t.say # "nothing"
      <3>1. (t.say = "accept" => Consented(t.kind, t.n)) /\ (link.shared => t.chosen)
        BY <1>1, <1>2, <2>2 DEF TaskFine
      <3>2. QED
        BY <3>1, <2>2, <1>4, OneMoreReply DEF AskInv, Replies
    <2>3. QED
      BY <2>1, <2>2 DEF Replies
  <1>7. QED
    BY <1>3, <1>5, <1>6 DEF AskInv

----------------------------------------------------------------------------
(* Tasks are cancelled.                                                      *)

LEMMA TasksCancelled ==
    ASSUME AskInv, NEW some \in SUBSET askers, \A t \in some : t.kind # "model", Cancel(some),
           UNCHANGED <<mail, said, leaked, modelAsk, created>>,
           link'.claude = link.claude, link'.gen = link.gen, link'.shared = link.shared,
           link'.closing => link.closing \/ some = ServerTasks
    PROVE  /\ TasksTyped' /\ TasksFine' /\ AsksFine' /\ ModelFine'
           /\ \A x \in ServerTasks' : \E y \in ServerTasks :
                 /\ x.n = y.n /\ x.id = y.id /\ x.gen = y.gen
                 /\ ~x.cancelled => x = y /\ y \notin some
           /\ \A y \in ServerTasks : \E x \in ServerTasks' :
                 x.n = y.n /\ x.id = y.id /\ x.gen = y.gen
  <1> DEFINE c(t) == IF t \in some THEN [t EXCEPT !.cancelled = TRUE] ELSE t
  <1> USE DEF AskInv
  <1>1. ASSUME NEW t \in askers
        PROVE  /\ c(t) \in AskTask
               /\ c(t).n = t.n /\ c(t).id = t.id /\ c(t).gen = t.gen /\ c(t).kind = t.kind
               /\ c(t).at = t.at /\ c(t).k = t.k /\ c(t).chosen = t.chosen /\ c(t).say = t.say
               /\ c(t).cancelled = (t.cancelled \/ t \in some)
               /\ t \notin some => c(t) = t
    <2>1. t \in AskTask
      BY DEF TasksTyped
    <2>2. CASE t \in some
      <3>1. c(t) = [t EXCEPT !.cancelled = TRUE]
        BY <2>2
      <3>2. QED
        BY <3>1, <2>1, <2>2 DEF AskTask
    <2>3. CASE t \notin some
      <3>1. c(t) = t
        BY <2>3
      <3>2. QED
        BY <3>1, <2>1, <2>3 DEF AskTask
    <2>4. QED
      BY <2>2, <2>3
  <1>2. /\ \A t \in askers : c(t) \in askers'
        /\ \A x \in askers' : \E t \in askers : x = c(t)
    BY DEF Cancel
  <1> HIDE DEF c
  <1>3. /\ DOMAIN asks' = DOMAIN asks
        /\ \A q \in DOMAIN asks : asks'[q] = asks[q] \/ (asks[q] = "open" /\ asks'[q] = "cancelled")
    BY DEF Cancel
  <1>4. TasksTyped'
    <2>1. \A x \in askers' : x \in AskTask /\ x.n <= created
      BY <1>1, <1>2 DEF TasksTyped
    <2>2. \A x, y \in askers' : x.n = y.n => x = y
      <3> SUFFICES ASSUME NEW x \in askers', NEW y \in askers', x.n = y.n
                   PROVE  x = y
        OBVIOUS
      <3>1. PICK t \in askers : x = c(t)
        BY <1>2
      <3>2. PICK u \in askers : y = c(u)
        BY <1>2
      <3>3. t = u
        BY <3>1, <3>2, <1>1 DEF TasksTyped
      <3>4. QED
        BY <3>1, <3>2, <3>3
    <2>3. QED
      BY <2>1, <2>2 DEF TasksTyped
  <1>5. TasksFine'
    <2> SUFFICES ASSUME NEW x \in askers'
                 PROVE  TaskFine(x)'
      BY DEF TasksFine
    <2>1. PICK t \in askers : x = c(t)
      BY <1>2
    <2>2. /\ TaskFine(t) /\ (t \in some => t.kind # "model")
          /\ x.n = t.n /\ x.id = t.id /\ x.gen = t.gen /\ x.kind = t.kind
          /\ x.at = t.at /\ x.k = t.k /\ x.chosen = t.chosen /\ x.say = t.say
          /\ x.cancelled = (t.cancelled \/ t \in some)
      BY <2>1, <1>1 DEF TasksFine
    <2>3. TaskFine(x)
      BY <2>2 DEF TaskFine
    <2>4. link'.closing => link.closing \/ x.cancelled \/ x.kind \notin CodexAsks
      BY <2>2 DEF ServerTasks
    <2>5. x.at \in Asking =>
              /\ <<x.n, x.k>> \in DOMAIN asks'
              /\ asks'[<<x.n, x.k>>] = "replaced" => x.kind = "model"
      BY <2>3, <1>3 DEF TaskFine
    <2>6. QED
      BY <2>3, <2>4, <2>5, TaskKept
  <1>6. AsksFine'
    <2>1. ASSUME NEW q \in DOMAIN asks'
          PROVE  /\ asks'[q] \in AskValues
                 /\ asks'[q] \in {"yes", "no"} => [ask |-> q, answer |-> asks'[q]] \in said'
                 /\ q \in leaked' \/ \E x \in askers' : x.at \in Asking /\ q = <<x.n, x.k>>
      <3>1. q \in leaked' \/ \E x \in askers' : x.at \in Asking /\ q = <<x.n, x.k>>
        <4>1. q \in leaked \/ \E t \in askers : t.at \in Asking /\ q = <<t.n, t.k>>
          BY <2>1, <1>3 DEF AsksFine
        <4>2. ASSUME NEW t \in askers, t.at \in Asking, q = <<t.n, t.k>>
              PROVE  \E x \in askers' : x.at \in Asking /\ q = <<x.n, x.k>>
          BY <4>2, <1>1, <1>2
        <4>3. QED
          BY <4>1, <4>2
      <3>2. QED
        BY <3>1, <2>1, <1>3 DEF AsksFine, AskValues
    <2>2. QED
      BY <2>1 DEF AsksFine
  <1>7. ModelFine'
    <2> SUFFICES ASSUME modelAsk # NoQuestion
                 PROVE  \E x \in askers' : x.kind = "model" /\ x.at \in Asking /\ modelAsk = <<x.n, x.k>>
      BY DEF ModelFine
    <2>1. PICK t \in askers : t.kind = "model" /\ t.at \in Asking /\ modelAsk = <<t.n, t.k>>
      BY DEF ModelFine
    <2>2. c(t) = t
      BY <2>1, <1>1
    <2>3. QED
      BY <2>1, <2>2, <1>2
  <1>8. ASSUME NEW x \in ServerTasks'
        PROVE  \E y \in ServerTasks :
                 /\ x.n = y.n /\ x.id = y.id /\ x.gen = y.gen
                 /\ ~x.cancelled => x = y /\ y \notin some
    <2>1. PICK t \in askers : x = c(t)
      BY <1>2 DEF ServerTasks
    <2>2. t \in ServerTasks
      BY <2>1, <1>1 DEF ServerTasks
    <2>3. QED
      BY <2>1, <2>2, <1>1
  <1>9. ASSUME NEW y \in ServerTasks
        PROVE  \E x \in ServerTasks' : x.n = y.n /\ x.id = y.id /\ x.gen = y.gen
    <2>1. y \in askers /\ c(y) \in ServerTasks'
      BY <1>1, <1>2 DEF ServerTasks
    <2>2. QED
      BY <2>1, <1>1
  <1>10. QED
    BY <1>4, <1>5, <1>6, <1>7, <1>8, <1>9

\* A request that another client has answered: its task is cancelled.
LEMMA DispatchResolvedKeeps ==
    ASSUME AskInv, NEW m, fromServer # <<>>, m = Head(fromServer), m.what = "resolved",
           fromServer' = Tail(fromServer), DispatchResolved(m),
           UNCHANGED <<created, replies, asked, link, modelAsk, mail, seenBy, said, leaked>>
    PROVE  AskInv'
  <1> USE DEF AskInv
  <1>1. /\ m = fromServer[1] /\ 1 \in DOMAIN fromServer
        /\ \A k \in DOMAIN fromServer' : fromServer'[k] = fromServer[k + 1] /\ k + 1 \in DOMAIN fromServer
                                         /\ k \in Nat /\ k + 1 > 1
        /\ \A k \in DOMAIN fromServer : k # 1 => k - 1 \in DOMAIN fromServer'
                                                 /\ fromServer'[k - 1] = fromServer[k]
        /\ fromServer' \in Seq(Frame)
    BY DEF FramesFine
  <1>2. \A what, id : Sent(what, id)' => Sent(what, id)
    BY <1>1 DEF Sent
  <1>3. ~Sent("request", m.id)'
    BY <1>1 DEF Sent, FramesFine
  <1>4. \A id : id # m.id /\ Sent("resolved", id) => Sent("resolved", id)'
    BY <1>1 DEF Sent
  <1>5. LinkFine' /\ FramesFine'
    <2>1. LinkFine'
      BY <1>1 DEF LinkFine
    <2>2. FramesFine'
      BY <1>1 DEF FramesFine
    <2>3. QED
      BY <2>1, <2>2
  <1>6. ASSUME NEW id, Unanswered(id), id # m.id
        PROVE  Unanswered(id)'
    BY <1>6, <1>4 DEF Unanswered, DispatchResolved
  <1>7. DOMAIN byId' = DOMAIN byId \ {m.id} /\ \A id \in DOMAIN byId' : byId'[id] = byId[id]
    BY DEF DispatchResolved, Drop
  <1>8. openIds' = openIds \ {m.id}
    BY DEF DispatchResolved
  <1>9. RepliesFine'
    BY RepliesKept
  <1>10. CASE m.id \in DOMAIN byId
    <2> DEFINE some == {t \in askers : t.n = byId[m.id]}
    <2>1. \A t \in some : t.kind # "model"
      <3>1. PICK x \in ServerTasks : x.n = byId[m.id]
        BY <1>10 DEF TablesFine, TasksAreKnown
      <3>2. \A t \in some : t = x
        BY <3>1 DEF TasksTyped, ServerTasks
      <3>3. QED
        BY <3>1, <3>2 DEF ServerTasks, CodexAsks
    <2>2. Cancel(some)
      BY <1>10 DEF DispatchResolved
    <2>3. \A y \in ServerTasks : y.n = byId[m.id] => y \in some
      BY DEF ServerTasks
    <2> HIDE DEF some
    <2>4. some \in SUBSET askers
      BY DEF some
    <2>5. /\ TasksTyped' /\ TasksFine' /\ AsksFine' /\ ModelFine'
          /\ \A x \in ServerTasks' : \E y \in ServerTasks :
                /\ x.n = y.n /\ x.id = y.id /\ x.gen = y.gen
                /\ ~x.cancelled => x = y /\ y \notin some
          /\ \A y \in ServerTasks : \E x \in ServerTasks' :
                x.n = y.n /\ x.id = y.id /\ x.gen = y.gen
      BY <2>1, <2>2, <2>4, TasksCancelled
    <2>6. ASSUME NEW x \in ServerTasks', ~x.cancelled
          PROVE  x \in ServerTasks /\ x.id # m.id
      <3>1. PICK y \in ServerTasks : ~x.cancelled => x = y /\ y \notin some
        BY <2>5
      <3>2. x \in ServerTasks /\ x \notin some
        BY <3>1, <2>6
      <3>3. byId[x.id] = x.n
        BY <3>2, <2>6 DEF TablesFine, TasksAreKnown
      <3>4. QED
        BY <3>2, <3>3, <2>3
    <2>7. TablesFine'
      <3>1. ASSUME NEW id \in DOMAIN byId'
            PROVE  \E x \in ServerTasks' : x.n = byId'[id] /\ x.id = id /\ x.gen = link'.gen
        <4>1. PICK y \in ServerTasks : y.n = byId[id] /\ y.id = id /\ y.gen = link.gen
          BY <1>7, <3>1 DEF TablesFine, TasksAreKnown
        <4>2. QED
          BY <4>1, <1>7, <2>5, <3>1
      <3>2. ASSUME NEW x \in ServerTasks', ~x.cancelled
            PROVE  x.id \in DOMAIN byId' /\ byId'[x.id] = x.n /\ x.id \in openIds'
        <4>1. x \in ServerTasks /\ x.id # m.id
          BY <2>6, <3>2
        <4>2. QED
          BY <4>1, <1>7, <1>8, <3>2 DEF TablesFine, TasksAreKnown
      <3>3. QED
        BY <3>1, <3>2, <1>7, <1>8 DEF TablesFine, TasksAreKnown
    <2>8. OnceAsked'
      BY <1>2, <1>3, <1>6, <2>6 DEF OnceAsked
    <2>9. QED
      BY <1>5, <1>9, <2>5, <2>7, <2>8
  <1>11. CASE m.id \notin DOMAIN byId
    <2>1. UNCHANGED <<askers, asks>>
      BY <1>11 DEF DispatchResolved
    <2>2. TasksTyped' /\ AsksFine' /\ ModelFine'
      BY <2>1 DEF TasksTyped, AsksFine, ModelFine
    <2>3. TasksFine'
      BY <2>1 DEF TasksFine, TaskFine, Consented
    <2>4. \A x \in ServerTasks' : x \in ServerTasks /\ (~x.cancelled => x.id # m.id)
      BY <2>1, <1>11 DEF ServerTasks, TablesFine, TasksAreKnown
    <2>5. \A x \in ServerTasks : x \in ServerTasks'
      BY <2>1 DEF ServerTasks
    <2>6. TablesFine'
      BY <2>4, <2>5, <1>7, <1>8 DEF TablesFine, TasksAreKnown
    <2>7. OnceAsked'
      BY <1>2, <1>3, <1>6, <2>4 DEF OnceAsked
    <2>8. QED
      BY <1>5, <1>9, <2>2, <2>3, <2>6, <2>7
  <1>12. QED
    BY <1>10, <1>11

\* The tasks of a process that is gone are cancelled.
LEMMA EofKeeps ==
    ASSUME AskInv, NEW m, fromServer # <<>>, m = Head(fromServer), m.what = "eof",
           fromServer' = Tail(fromServer), Cancel(ServerTasks),
           UNCHANGED <<byId, openIds, created, replies, asked, resolved, link, modelAsk, mail,
                       said, leaked>>
    PROVE  AskInv'
  <1> USE DEF AskInv
  <1>1. /\ m = fromServer[1] /\ 1 \in DOMAIN fromServer
        /\ \A k \in DOMAIN fromServer' : fromServer'[k] = fromServer[k + 1] /\ k + 1 \in DOMAIN fromServer
                                         /\ k \in Nat /\ k + 1 > 1
        /\ \A k \in DOMAIN fromServer : k # 1 => k - 1 \in DOMAIN fromServer'
                                                 /\ fromServer'[k - 1] = fromServer[k]
        /\ fromServer' \in Seq(Frame)
    BY DEF FramesFine
  <1>2. /\ \A what, id : Sent(what, id)' => Sent(what, id)
        /\ \A id : Sent("resolved", id) => Sent("resolved", id)'
    <2>1. \A what, id : Sent(what, id)' => Sent(what, id)
      BY <1>1 DEF Sent
    <2>2. ASSUME NEW id, Sent("resolved", id)
          PROVE  Sent("resolved", id)'
      <3>1. PICK k \in DOMAIN fromServer : fromServer[k].what = "resolved" /\ fromServer[k].id = id
        BY <2>2 DEF Sent
      <3>2. k # 1
        BY <3>1, <1>1
      <3>3. k - 1 \in DOMAIN fromServer' /\ fromServer'[k - 1] = fromServer[k]
        BY <3>2, <1>1
      <3>4. QED
        BY <3>1, <3>3 DEF Sent
    <2>3. QED
      BY <2>1, <2>2
  <1>3. LinkFine'
    BY <1>1 DEF LinkFine
  <1>4. FramesFine'
    BY <1>1 DEF FramesFine
  <1>5. \A t \in ServerTasks : t.kind # "model"
    BY DEF ServerTasks, CodexAsks
  <1>6. /\ TasksTyped' /\ TasksFine' /\ AsksFine' /\ ModelFine'
        /\ \A x \in ServerTasks' : x.cancelled
        /\ \A y \in ServerTasks : \E x \in ServerTasks' :
              x.n = y.n /\ x.id = y.id /\ x.gen = y.gen
    <2>1. ServerTasks \in SUBSET askers
      BY DEF ServerTasks
    <2>2. QED
      BY <2>1, <1>5, TasksCancelled
  <1>7. TablesFine'
    BY <1>6 DEF TablesFine, TasksAreKnown
  <1>8. OnceAsked'
    <2>1. \A id : Unanswered(id) => Unanswered(id)'
      BY <1>2 DEF Unanswered
    <2>2. QED
      BY <2>1, <1>2, <1>6 DEF OnceAsked
  <1>9. RepliesFine'
    BY RepliesKept
  <1>10. QED
    BY <1>3, <1>4, <1>6, <1>7, <1>8, <1>9

LEMMA DisconnectKeeps ==
    ASSUME AskInv, Disconnect
    PROVE  AskInv'
  <1> USE DEF AskInv
  <1>1. LinkFine' /\ FramesFine'
    <2>1. link' = [link EXCEPT !.up = FALSE, !.closing = TRUE] /\ fromServer' = <<>>
      BY DEF Disconnect
    <2>2. LinkFine'
      BY <2>1 DEF LinkFine
    <2>3. FramesFine'
      BY <2>1 DEF FramesFine
    <2>4. QED
      BY <2>2, <2>3
  <1>2. /\ link'.claude = link.claude /\ link'.gen = link.gen /\ link'.shared = link.shared
        /\ ~link'.up
    BY DEF Disconnect, LinkFine
  <1>3. /\ TasksTyped' /\ TasksFine' /\ AsksFine' /\ ModelFine'
        /\ \A x \in ServerTasks' : x.cancelled
    <2>1. ServerTasks \in SUBSET askers /\ \A t \in ServerTasks : t.kind # "model"
      BY DEF ServerTasks, CodexAsks
    <2>2. Cancel(ServerTasks) /\ UNCHANGED <<mail, said, leaked, modelAsk, created>>
      BY DEF Disconnect, CancelAll
    <2>3. QED
      BY <1>2, <2>1, <2>2, TasksCancelled
  <1>4. TablesFine'
    BY <1>3 DEF Disconnect, TablesFine, TasksAreKnown
  <1>5. OnceAsked'
    BY <1>3 DEF Disconnect, OnceAsked, Sent
  <1>6. RepliesFine'
    BY <1>2, RepliesKept DEF Disconnect
  <1>7. QED
    BY <1>1, <1>3, <1>4, <1>5, <1>6

LEMMA SdkCancelsKeeps ==
    ASSUME AskInv, SdkCancels
    PROVE  AskInv'
  <1> USE DEF AskInv
  <1> DEFINE some == {t \in askers : t.kind = "tool"}
  <1>1. /\ some \in SUBSET askers /\ \A t \in some : t.kind # "model"
        /\ Cancel(some) /\ UNCHANGED <<mail, said, leaked, modelAsk, created, link>>
    BY DEF SdkCancels
  <1>2. \A y \in ServerTasks : y \notin some
    BY DEF ServerTasks, CodexAsks
  <1> HIDE DEF some
  <1>3. /\ TasksTyped' /\ TasksFine' /\ AsksFine' /\ ModelFine'
        /\ \A x \in ServerTasks' : \E y \in ServerTasks :
              /\ x.n = y.n /\ x.id = y.id /\ x.gen = y.gen
              /\ ~x.cancelled => x = y /\ y \notin some
        /\ \A y \in ServerTasks : \E x \in ServerTasks' :
              x.n = y.n /\ x.id = y.id /\ x.gen = y.gen
    BY <1>1, TasksCancelled
  <1>4. LinkFine' /\ FramesFine'
    BY DEF SdkCancels, LinkFine, FramesFine
  <1>5. TablesFine'
    BY <1>3 DEF SdkCancels, TablesFine, TasksAreKnown
  <1>6. OnceAsked'
    <2>1. \A u \in ServerTasks' : ~u.cancelled => \E t \in ServerTasks : ~t.cancelled /\ t.id = u.id
      BY <1>3
    <2>2. QED
      BY <2>1, OnceAskedKept DEF SdkCancels
  <1>7. RepliesFine'
    BY RepliesKept DEF SdkCancels
  <1>8. QED
    BY <1>3, <1>4, <1>5, <1>6, <1>7

----------------------------------------------------------------------------
(* Tasks begin.                                                              *)

LEMMA TaskAdded ==
    ASSUME AskInv, NEW id \in RequestIds \cup {0}, NEW kind \in CodexAsks \cup ClaudeAsks,
           NEW t, t = NewTask(id, link.gen, kind),
           kind \in ClaudeAsks => link.claude,
           kind \in CodexAsks => id \in RequestIds /\ ~link.closing,
           askers' = askers \cup {t}, created' = created + 1,
           UNCHANGED <<link, mail, said, modelAsk, leaked>>,
           \/ asks' = asks
           \/ /\ modelAsk \in DOMAIN asks /\ asks[modelAsk] = "open"
              /\ asks' = [asks EXCEPT ![modelAsk] = "replaced"]
    PROVE  TasksTyped' /\ TasksFine' /\ AsksFine' /\ ModelFine'
  <1> USE DEF AskInv
  <1>1. created \in Nat /\ link.gen \in Nat
    BY DEF TasksTyped, LinkFine
  <1>2. /\ t \in AskTask
        /\ t.n = created + 1 /\ t.id = id /\ t.gen = link.gen /\ t.kind = kind /\ t.at = "new"
        /\ t.k = 0 /\ t.cancelled = FALSE /\ t.chosen = FALSE /\ t.say = "none"
    <2>1. /\ t.n = created + 1 /\ t.id = id /\ t.gen = link.gen /\ t.kind = kind /\ t.at = "new"
          /\ t.k = 0 /\ t.cancelled = FALSE /\ t.chosen = FALSE /\ t.say = "none"
      BY DEF NewTask
    <2>2. created + 1 \in Nat \ {0}
      BY <1>1
    <2>3. t \in AskTask
      BY <1>1, <2>2 DEF NewTask, AskTask
    <2>4. QED
      BY <2>1, <2>3
  <1>3. TasksTyped'
    <2>1. \A x \in askers : x \in AskTask /\ x.n \in Nat /\ x.n <= created
      BY DEF TasksTyped, AskTask
    <2>2. \A x \in askers' : x \in AskTask /\ x.n <= created'
      BY <2>1, <1>1, <1>2
    <2>3. \A x, y \in askers' : x.n = y.n => x = y
      BY <2>1, <1>1, <1>2 DEF TasksTyped
    <2>4. QED
      BY <2>2, <2>3, <1>1 DEF TasksTyped
  <1>4. DOMAIN asks' = DOMAIN asks
    OBVIOUS
  <1>5. \A q \in DOMAIN asks :
            asks'[q] = asks[q] \/ (asks[q] = "open" /\ asks'[q] = "replaced" /\ q = modelAsk)
    OBVIOUS
  <1>6. TasksFine'
    <2> SUFFICES ASSUME NEW x \in askers'
                 PROVE  TaskFine(x)'
      BY DEF TasksFine
    <2>1. CASE x = t
      <3>1. t.at \notin Asking /\ t.at # "reply"
        BY <1>2 DEF Asking
      <3>2. \A j \in 1 .. (t.k - 1) : FALSE
        BY <1>2
      <3>3. QED
        BY <2>1, <3>1, <3>2, <1>2 DEF TaskFine
    <2>2. CASE x \in askers
      <3>1. TaskFine(x)
        BY <2>2 DEF TasksFine
      <3>2. x.at \in Asking =>
                /\ <<x.n, x.k>> \in DOMAIN asks'
                /\ asks'[<<x.n, x.k>>] = "replaced" => x.kind = "model"
        <4> SUFFICES ASSUME x.at \in Asking, asks'[<<x.n, x.k>>] = "replaced"
                     PROVE  x.kind = "model"
          BY <3>1, <1>4 DEF TaskFine
        <4>1. CASE asks[<<x.n, x.k>>] = "replaced"
          BY <4>1, <3>1 DEF TaskFine
        <4>2. CASE modelAsk = <<x.n, x.k>>
          <5>1. x.n # 0
            BY <2>2 DEF TasksTyped, AskTask
          <5>2. modelAsk # NoQuestion
            BY <4>2, <5>1 DEF NoQuestion
          <5>3. PICK y \in askers : y.kind = "model" /\ modelAsk = <<y.n, y.k>>
            BY <5>2 DEF ModelFine
          <5>4. QED
            BY <4>2, <5>3, <2>2, OwnQuestion
        <4>3. QED
          BY <4>1, <4>2, <3>1, <1>5 DEF TaskFine
      <3>3. QED
        BY <3>1, <3>2, TaskKept
    <2>3. QED
      BY <2>1, <2>2
  <1>7. AsksFine'
    <2>1. ASSUME NEW q \in DOMAIN asks'
          PROVE  /\ asks'[q] \in AskValues
                 /\ asks'[q] \in {"yes", "no"} => [ask |-> q, answer |-> asks'[q]] \in said'
                 /\ q \in leaked' \/ \E x \in askers' : x.at \in Asking /\ q = <<x.n, x.k>>
      BY <2>1, <1>4, <1>5 DEF AsksFine, AskValues
    <2>2. QED
      BY <2>1 DEF AsksFine
  <1>8. ModelFine'
    BY DEF ModelFine
  <1>9. QED
    BY <1>3, <1>6, <1>7, <1>8

LEMMA ClaudeAsksKeeps ==
    ASSUME AskInv, ToolAsks \/ ModelChanges
    PROVE  AskInv'
  <1> USE DEF AskInv
  <1>1. PICK kind \in ClaudeAsks : askers' = askers \cup {NewTask(0, link.gen, kind)}
    BY DEF ToolAsks, ModelChanges, ClaudeAsks
  <1>2. /\ link.claude /\ created' = created + 1
        /\ UNCHANGED <<link, mail, said, modelAsk, leaked, fromServer, byId, openIds, replies,
                       resolved, asked>>
        /\ \/ asks' = asks
           \/ /\ modelAsk \in DOMAIN asks /\ asks[modelAsk] = "open"
              /\ asks' = [asks EXCEPT ![modelAsk] = "replaced"]
    BY DEF ToolAsks, ModelChanges
  <1>3. PICK t : t = NewTask(0, link.gen, kind)
    OBVIOUS
  <1>4. kind \notin CodexAsks
    BY DEF ClaudeAsks, CodexAsks
  <1>5. TasksTyped' /\ TasksFine' /\ AsksFine' /\ ModelFine'
    BY <1>1, <1>2, <1>3, <1>4, TaskAdded
  <1>6. ServerTasks' = ServerTasks
    BY <1>1, <1>3, <1>4 DEF ServerTasks, NewTask
  <1>7. LinkFine' /\ FramesFine'
    BY <1>2 DEF LinkFine, FramesFine
  <1>8. TablesFine'
    BY <1>2, <1>6 DEF TablesFine, TasksAreKnown
  <1>9. OnceAsked'
    BY <1>2, <1>6, OnceAskedKept
  <1>10. RepliesFine'
    BY <1>2, RepliesKept
  <1>11. QED
    BY <1>5, <1>7, <1>8, <1>9, <1>10

\* The next frame is taken from the queue.
LEMMA FrameTaken ==
    ASSUME FramesFine, fromServer # <<>>, fromServer' = Tail(fromServer),
           NEW m, m = Head(fromServer), m.what = "request"
    PROVE  /\ FramesFine'
           /\ m.id \in RequestIds /\ m.kind \in CodexAsks /\ Sent("request", m.id)
           /\ \A what, id : Sent(what, id)' => Sent(what, id)
           /\ \A id : Sent("resolved", id) => Sent("resolved", id)'
           /\ ~Sent("request", m.id)'
  <1>1. /\ m = fromServer[1] /\ 1 \in DOMAIN fromServer /\ m \in Frame
        /\ \A k \in DOMAIN fromServer' : fromServer'[k] = fromServer[k + 1] /\ k + 1 \in DOMAIN fromServer
                                         /\ k \in Nat /\ k + 1 > 1
        /\ \A k \in DOMAIN fromServer : k # 1 => k - 1 \in DOMAIN fromServer'
                                                 /\ fromServer'[k - 1] = fromServer[k]
        /\ fromServer' \in Seq(Frame)
    BY DEF FramesFine
  <1>2. FramesFine'
    BY <1>1 DEF FramesFine
  <1>3. m.id \in RequestIds /\ m.kind \in CodexAsks /\ Sent("request", m.id)
    BY <1>1 DEF Frame, Sent, FramesFine
  <1>4. \A what, id : Sent(what, id)' => Sent(what, id)
    BY <1>1 DEF Sent
  <1>5. ASSUME NEW id, Sent("resolved", id)
        PROVE  Sent("resolved", id)'
    <2>1. PICK k \in DOMAIN fromServer : fromServer[k].what = "resolved" /\ fromServer[k].id = id
      BY <1>5 DEF Sent
    <2>2. k # 1
      BY <2>1, <1>1
    <2>3. k - 1 \in DOMAIN fromServer' /\ fromServer'[k - 1] = fromServer[k]
      BY <2>2, <1>1
    <2>4. QED
      BY <2>1, <2>3 DEF Sent
  <1>6. ~Sent("request", m.id)'
    BY <1>1 DEF Sent, FramesFine
  <1>7. QED
    BY <1>2, <1>3, <1>4, <1>5, <1>6

LEMMA DispatchRequestKeeps ==
    ASSUME AskInv, NEW m, fromServer # <<>>, ~link.closing, m = Head(fromServer),
           m.what = "request", fromServer' = Tail(fromServer), DispatchRequest(m),
           UNCHANGED <<asks, resolved, link, modelAsk, mail, said, leaked>>
    PROVE  AskInv'
  <1> USE DEF AskInv
  <1>1. /\ FramesFine'
        /\ m.id \in RequestIds /\ m.kind \in CodexAsks /\ Sent("request", m.id)
        /\ \A what, id : Sent(what, id)' => Sent(what, id)
        /\ \A id : Sent("resolved", id) => Sent("resolved", id)'
        /\ ~Sent("request", m.id)'
    BY FrameTaken
  <1>2. Unanswered(m.id) /\ \A x \in ServerTasks : x.id = m.id => x.cancelled
    BY <1>1 DEF OnceAsked
  <1>3. LinkFine'
    BY DEF LinkFine
  <1>4. CASE Cardinality(ServerTasks) >= MaxAskTasks
    <2>1. UNCHANGED <<askers, byId, openIds, created>>
      BY <1>4 DEF DispatchRequest
    <2>2. TasksTyped' /\ AsksFine' /\ ModelFine'
      BY <2>1 DEF TasksTyped, AsksFine, ModelFine
    <2>3. TasksFine'
      BY <2>1 DEF TasksFine, TaskFine, Consented
    <2>4. ServerTasks' = ServerTasks
      BY <2>1 DEF ServerTasks
    <2>5. TablesFine'
      BY <2>1, <2>4 DEF TablesFine, TasksAreKnown
    <2>6. CASE link.shared
      <3>1. UNCHANGED <<replies, asked>>
        BY <1>4, <2>6 DEF DispatchRequest
      <3>2. \A id : Unanswered(id) => Unanswered(id)'
        BY <3>1, <1>1 DEF Unanswered
      <3>3. OnceAsked'
        BY <3>2, <2>4, <1>1 DEF OnceAsked
      <3>4. RepliesFine'
        BY <3>1, RepliesKept
      <3>5. QED
        BY <1>1, <1>3, <2>2, <2>3, <2>5, <3>3, <3>4
    <2>7. CASE ~link.shared
      <3> DEFINE t == [NewTask(m.id, link.gen, m.kind) EXCEPT !.n = 0, !.say = "decline"]
      <3>1. replies' = replies \cup {Answered(t)} /\ asked' = asked \ {m.id}
        BY <1>4, <2>7 DEF DispatchRequest
      <3>2. t.id = m.id /\ t.gen = link.gen /\ t.kind = m.kind /\ t.say = "decline"
        BY DEF NewTask
      <3>3. Answered(t).id = m.id /\ Answered(t).gen = link.gen
        BY <3>2 DEF Answered
      <3> HIDE DEF t
      <3>4. RepliesFine'
        BY <1>2, <2>7, <3>1, <3>2, OneMoreReply
      <3>5. ASSUME NEW id, id # m.id, Unanswered(id)
            PROVE  Unanswered(id)'
        BY <3>1, <3>3, <3>5, <1>1 DEF Unanswered
      <3>6. OnceAsked'
        BY <3>5, <2>4, <1>1, <1>2 DEF OnceAsked
      <3>7. QED
        BY <1>1, <1>3, <2>2, <2>3, <2>5, <3>4, <3>6
    <2>8. QED
      BY <2>6, <2>7
  <1>5. CASE ~(Cardinality(ServerTasks) >= MaxAskTasks)
    <2>1. PICK t : t = NewTask(m.id, link.gen, m.kind)
      OBVIOUS
    <2>2. /\ askers' = askers \cup {t} /\ byId' = Put(byId, m.id, created + 1)
          /\ openIds' = openIds \cup {m.id} /\ created' = created + 1
          /\ UNCHANGED <<replies, asked>>
      BY <1>5, <2>1 DEF DispatchRequest
    <2>3. t.n = created + 1 /\ t.id = m.id /\ t.gen = link.gen /\ t.kind = m.kind /\ ~t.cancelled
      BY <2>1 DEF NewTask
    <2>4. TasksTyped' /\ TasksFine' /\ AsksFine' /\ ModelFine'
      <3>1. m.kind \notin ClaudeAsks
        BY <1>1 DEF CodexAsks, ClaudeAsks
      <3>2. QED
        BY <3>1, <1>1, <2>1, <2>2, TaskAdded
    <2>5. ServerTasks' = ServerTasks \cup {t}
      BY <1>1, <2>2, <2>3 DEF ServerTasks
    <2>6. /\ DOMAIN byId' = DOMAIN byId \cup {m.id} /\ byId'[m.id] = created + 1
          /\ \A id \in DOMAIN byId : id # m.id => byId'[id] = byId[id]
      BY <2>2 DEF Put
    <2>7. TablesFine'
      <3>1. ASSUME NEW id \in DOMAIN byId'
            PROVE  \E x \in ServerTasks' : x.n = byId'[id] /\ x.id = id /\ x.gen = link'.gen
        <4>1. CASE id = m.id
          BY <4>1, <2>3, <2>5, <2>6
        <4>2. CASE id # m.id
          BY <4>2, <3>1, <2>5, <2>6 DEF TablesFine, TasksAreKnown
        <4>3. QED
          BY <4>1, <4>2
      <3>2. ASSUME NEW x \in ServerTasks', ~x.cancelled
            PROVE  x.id \in DOMAIN byId' /\ byId'[x.id] = x.n /\ x.id \in openIds'
        <4>1. CASE x = t
          BY <4>1, <2>2, <2>3, <2>6
        <4>2. CASE x \in ServerTasks
          <5>1. x.id # m.id
            BY <4>2, <3>2, <1>2
          <5>2. QED
            BY <5>1, <4>2, <3>2, <2>2, <2>6 DEF TablesFine, TasksAreKnown
        <4>3. QED
          BY <4>1, <4>2, <2>5
      <3>3. DOMAIN byId' \subseteq RequestIds /\ openIds' \subseteq RequestIds
        BY <1>1, <2>2, <2>6 DEF TablesFine
      <3>4. QED
        BY <3>1, <3>2, <3>3 DEF TablesFine, TasksAreKnown
    <2>8. OnceAsked'
      <3>1. \A id : Unanswered(id) => Unanswered(id)'
        BY <2>2, <1>1 DEF Unanswered
      <3>2. QED
        BY <3>1, <1>1, <1>2, <2>3, <2>5 DEF OnceAsked
    <2>9. RepliesFine'
      BY <2>2, RepliesKept
    <2>10. QED
      BY <1>1, <1>3, <2>4, <2>7, <2>8, <2>9
  <1>6. QED
    BY <1>4, <1>5

LEMMA DispatchKeeps ==
    ASSUME AskInv, Dispatch1
    PROVE  AskInv'
  <1>1. PICK m : m = Head(fromServer)
    OBVIOUS
  <1>2. /\ fromServer # <<>> /\ ~link.closing /\ fromServer' = Tail(fromServer)
        /\ UNCHANGED <<link, modelAsk, mail, seenBy, said, leaked>>
    BY DEF Dispatch1
  <1>3. CASE m.what = "request" /\ DispatchRequest(m) /\ UNCHANGED <<asks, resolved>>
    BY <1>1, <1>2, <1>3, DispatchRequestKeeps
  <1>4. CASE m.what = "resolved" /\ DispatchResolved(m) /\ UNCHANGED <<created, replies, asked>>
    BY <1>1, <1>2, <1>4, DispatchResolvedKeeps
  <1>5. CASE /\ m.what = "eof" /\ Cancel(ServerTasks)
             /\ UNCHANGED <<byId, openIds, created, replies, asked, resolved>>
    BY <1>1, <1>2, <1>5, EofKeeps
  <1>6. QED
    BY <1>1, <1>3, <1>4, <1>5 DEF Dispatch1

----------------------------------------------------------------------------
(* Engines and pages.                                                        *)

\* Nothing about tasks and their questions changes.
LEMMA TasksStay ==
    ASSUME AskInv,
           UNCHANGED <<askers, byId, openIds, asks, modelAsk, mail, created, said, replies, leaked>>,
           link'.claude = link.claude, link'.gen = link.gen, link'.shared = link.shared,
           link'.closing = link.closing
    PROVE  /\ TasksTyped' /\ TasksFine' /\ AsksFine' /\ ModelFine' /\ TablesFine' /\ RepliesFine'
           /\ ServerTasks' = ServerTasks
  <1> USE DEF AskInv
  <1>1. TasksTyped' /\ AsksFine' /\ ModelFine'
    BY DEF TasksTyped, AsksFine, ModelFine
  <1>2. TasksFine'
    BY DEF TasksFine, TaskFine, Consented
  <1>3. ServerTasks' = ServerTasks
    BY DEF ServerTasks
  <1>4. TablesFine'
    BY <1>3 DEF TablesFine, TasksAreKnown
  <1>5. RepliesFine'
    BY RepliesKept
  <1>6. QED
    BY <1>1, <1>2, <1>3, <1>4, <1>5

\* A frame is sent: a request only with an id that no earlier frame has.
LEMMA FrameSent ==
    ASSUME FramesFine, NEW f \in Frame, fromServer' = Append(fromServer, f),
           f.what # "eof" => f.id \in RequestIds,
           f.what = "request" => ~Sent("request", f.id) /\ ~Sent("resolved", f.id)
    PROVE  /\ FramesFine'
           /\ \A what, id : Sent(what, id) => Sent(what, id)'
           /\ \A what, id : Sent(what, id)' => Sent(what, id) \/ (what = f.what /\ id = f.id)
           /\ Sent(f.what, f.id)'
  <1>1. /\ fromServer \in Seq(Frame) /\ fromServer' \in Seq(Frame)
        /\ \A k \in DOMAIN fromServer : k \in DOMAIN fromServer' /\ fromServer'[k] = fromServer[k]
        /\ Len(fromServer) + 1 \in DOMAIN fromServer' /\ fromServer'[Len(fromServer) + 1] = f
        /\ \A k \in DOMAIN fromServer' : k \in DOMAIN fromServer \/ k = Len(fromServer) + 1
        /\ \A k \in DOMAIN fromServer : k \in Nat /\ k < Len(fromServer) + 1
    BY DEF FramesFine
  <1>2. \A what, id : Sent(what, id) => Sent(what, id)'
    BY <1>1 DEF Sent
  <1>3. \A what, id : Sent(what, id)' => Sent(what, id) \/ (what = f.what /\ id = f.id)
    BY <1>1 DEF Sent
  <1>4. Sent(f.what, f.id)'
    BY <1>1 DEF Sent
  <1>5. ASSUME NEW i \in DOMAIN fromServer', NEW j \in DOMAIN fromServer', i < j,
               fromServer'[i].what # "eof", fromServer'[j].what = "request"
        PROVE  fromServer'[i].id # fromServer'[j].id
    <2>1. i \in DOMAIN fromServer
      BY <1>5, <1>1
    <2>2. CASE j \in DOMAIN fromServer
      BY <2>1, <2>2, <1>5, <1>1 DEF FramesFine
    <2>3. CASE j = Len(fromServer) + 1
      <3>1. f.what = "request" /\ fromServer'[j] = f
        BY <2>3, <1>5, <1>1
      <3>2. fromServer[i] \in Frame /\ fromServer'[i] = fromServer[i]
        BY <2>1, <1>1
      <3>3. fromServer[i].what = "request" \/ fromServer[i].what = "resolved"
        BY <3>2, <1>5 DEF Frame
      <3>4. QED
        BY <2>1, <3>1, <3>2, <3>3 DEF Sent
    <2>4. QED
      BY <2>2, <2>3, <1>1
  <1>6. \A k \in DOMAIN fromServer' :
            fromServer'[k].what # "eof" => fromServer'[k].id \in RequestIds
    BY <1>1 DEF FramesFine
  <1>7. FramesFine'
    BY <1>1, <1>5, <1>6 DEF FramesFine
  <1>8. QED
    BY <1>2, <1>3, <1>4, <1>7

LEMMA ServerRequestsKeeps ==
    ASSUME AskInv, NEW id \in RequestIds, NEW kind \in CodexAsks, ServerRequests(id, kind)
    PROVE  AskInv'
  <1> USE DEF AskInv
  <1>1. PICK f : f = [what |-> "request", id |-> id, kind |-> kind]
    OBVIOUS
  <1>2. f \in Frame /\ f.what = "request" /\ f.id = id
    BY <1>1 DEF Frame
  <1>3. ~Sent("resolved", id)
    BY DEF ServerRequests, Sent
  <1>4. ~Sent("request", id)
    BY <1>3 DEF OnceAsked, Unanswered, ServerRequests
  <1>5. /\ FramesFine'
        /\ \A what, x : Sent(what, x) => Sent(what, x)'
        /\ \A what, x : Sent(what, x)' => Sent(what, x) \/ (what = "request" /\ x = id)
    BY <1>1, <1>2, <1>3, <1>4, FrameSent DEF ServerRequests
  <1>6. UNCHANGED <<link, askers, byId, openIds, asks, modelAsk, mail, created, said, replies,
                    resolved, leaked>> /\ asked' = asked \cup {id}
    BY DEF ServerRequests
  <1>7. /\ TasksTyped' /\ TasksFine' /\ AsksFine' /\ ModelFine' /\ TablesFine' /\ RepliesFine'
        /\ ServerTasks' = ServerTasks
    BY <1>6, TasksStay
  <1>8. LinkFine'
    BY <1>6 DEF LinkFine, ServerRequests
  <1>9. OnceAsked'
    <2>1. \A x : Unanswered(x) => Unanswered(x)'
      BY <1>5, <1>6 DEF Unanswered
    <2>2. Unanswered(id)'
      BY <1>6 DEF Unanswered, ServerRequests
    <2>3. \A t \in ServerTasks : ~t.cancelled => t.id # id
      <3> SUFFICES ASSUME NEW t \in ServerTasks, ~t.cancelled, t.id = id
                   PROVE  FALSE
        OBVIOUS
      <3>1. Unanswered(id)
        BY DEF OnceAsked
      <3>2. QED
        BY <3>1, <1>3 DEF Unanswered, ServerRequests
    <2>4. QED
      BY <2>1, <2>2, <2>3, <1>5, <1>7 DEF OnceAsked
  <1>10. QED
    BY <1>5, <1>7, <1>8, <1>9

LEMMA AnotherAnswersKeeps ==
    ASSUME AskInv, NEW id \in RequestIds, AnotherAnswers(id)
    PROVE  AskInv'
  <1> USE DEF AskInv
  <1>1. PICK f : f = [what |-> "resolved", id |-> id, kind |-> "form"]
    OBVIOUS
  <1>2. f \in Frame /\ f.what = "resolved" /\ f.id = id
    BY <1>1 DEF Frame, CodexAsks
  <1>3. /\ FramesFine'
        /\ \A what, x : Sent(what, x) => Sent(what, x)'
        /\ \A what, x : Sent(what, x)' => Sent(what, x) \/ (what = "resolved" /\ x = id)
        /\ Sent("resolved", id)'
    BY <1>1, <1>2, FrameSent DEF AnotherAnswers
  <1>4. UNCHANGED <<link, askers, byId, openIds, asks, modelAsk, mail, created, said, replies,
                    resolved, leaked>> /\ asked' = asked \ {id}
    BY DEF AnotherAnswers
  <1>5. /\ TasksTyped' /\ TasksFine' /\ AsksFine' /\ ModelFine' /\ TablesFine' /\ RepliesFine'
        /\ ServerTasks' = ServerTasks
    BY <1>4, TasksStay
  <1>6. LinkFine'
    BY <1>4 DEF LinkFine, AnotherAnswers
  <1>7. OnceAsked'
    <2>1. \A x : Unanswered(x) => Unanswered(x)'
      BY <1>3, <1>4 DEF Unanswered
    <2>2. QED
      BY <2>1, <1>3, <1>5 DEF OnceAsked
  <1>8. QED
    BY <1>3, <1>5, <1>6, <1>7

LEMMA ServerExitsKeeps ==
    ASSUME AskInv, ServerExits
    PROVE  AskInv'
  <1> USE DEF AskInv
  <1>1. PICK f : f = [what |-> "eof", id |-> 0, kind |-> "form"]
    OBVIOUS
  <1>2. f \in Frame /\ f.what = "eof"
    BY <1>1 DEF Frame, CodexAsks
  <1>3. /\ FramesFine'
        /\ \A what, x : Sent(what, x) => Sent(what, x)'
        /\ \A what, x : Sent(what, x)' => Sent(what, x) \/ what = "eof"
    BY <1>1, <1>2, FrameSent DEF ServerExits
  <1>4. /\ link' = [link EXCEPT !.up = FALSE]
        /\ UNCHANGED <<askers, byId, openIds, asks, modelAsk, mail, created, said, replies,
                       resolved, leaked>>
    BY DEF ServerExits
  <1>5. LinkFine' /\ link'.claude = link.claude /\ link'.gen = link.gen
        /\ link'.shared = link.shared /\ link'.closing = link.closing /\ ~link'.up
    BY <1>4 DEF LinkFine, ServerExits
  <1>6. /\ TasksTyped' /\ TasksFine' /\ AsksFine' /\ ModelFine' /\ TablesFine' /\ RepliesFine'
        /\ ServerTasks' = ServerTasks
    BY <1>4, <1>5, TasksStay
  <1>7. OnceAsked'
    <2>1. \A x : Unanswered(x) => Unanswered(x)'
      BY <1>4, <1>5 DEF Unanswered
    <2>2. QED
      BY <2>1, <1>3, <1>6 DEF OnceAsked
  <1>8. QED
    BY <1>3, <1>5, <1>6, <1>7

\* A new process begins without frames and without tasks.
LEMMA ConnectsKeeps ==
    ASSUME AskInv, Connects
    PROVE  AskInv'
  <1> USE DEF AskInv
  <1>1. /\ link' = [link EXCEPT !.gen = @ + 1, !.up = TRUE, !.closing = FALSE] /\ fromServer = <<>>
        /\ UNCHANGED <<asked, fromServer, askers, byId, openIds, asks, modelAsk, mail, created,
                       said, replies, resolved, leaked>>
    BY DEF Connects, LinkFine
  <1>2. ServerTasks = {}
    BY DEF Connects, ServerTasks, TasksFine, TaskFine
  <1>3. ServerTasks' = {}
    BY <1>1, <1>2 DEF ServerTasks
  <1>4. LinkFine' /\ link'.claude = link.claude /\ link'.shared = link.shared /\ ~link'.closing
    <2>1. \A g \in Nat : [link EXCEPT !.gen = g, !.up = TRUE, !.closing = FALSE] \in
              [claude : BOOLEAN, gen : Nat, up : BOOLEAN, shared : BOOLEAN, never : BOOLEAN,
               closing : BOOLEAN]
      BY DEF LinkFine
    <2>2. link.gen + 1 \in Nat
      BY DEF LinkFine
    <2>3. link'.claude = link.claude /\ link'.shared = link.shared /\ ~link'.closing
      BY <1>1 DEF LinkFine
    <2>4. QED
      BY <1>1, <2>1, <2>2, <2>3 DEF LinkFine
  <1>5. TasksTyped' /\ AsksFine' /\ ModelFine' /\ FramesFine'
    BY <1>1 DEF TasksTyped, AsksFine, ModelFine, FramesFine
  <1>6. TasksFine'
    <2> SUFFICES ASSUME NEW t \in askers
                 PROVE  TaskFine(t)'
      BY <1>1 DEF TasksFine
    <2>1. t.kind \notin CodexAsks /\ TaskFine(t)
      BY <1>2 DEF ServerTasks, TasksFine
    <2>2. QED
      BY <2>1, <1>1, <1>4 DEF TaskFine, Consented
  <1>7. TablesFine'
    <2>1. DOMAIN byId = {}
      BY <1>2 DEF TablesFine, TasksAreKnown
    <2>2. QED
      BY <2>1, <1>1, <1>3 DEF TablesFine, TasksAreKnown
  <1>8. OnceAsked'
    BY <1>1, <1>3 DEF OnceAsked, Sent
  <1>9. RepliesFine'
    BY <1>1, <1>4, RepliesKept
  <1>10. QED
    BY <1>4, <1>5, <1>6, <1>7, <1>8, <1>9

\* What is not about answers.
LEMMA AnswersOnly ==
    ASSUME AskInv, said \subseteq said',
           UNCHANGED <<link, asked, fromServer, askers, byId, openIds, modelAsk, created, replies,
                       resolved>>
    PROVE  /\ LinkFine' /\ TasksTyped' /\ ModelFine' /\ FramesFine' /\ TablesFine' /\ OnceAsked'
           /\ RepliesFine'
  <1> USE DEF AskInv
  <1>1. LinkFine' /\ TasksTyped' /\ ModelFine' /\ FramesFine'
    BY DEF LinkFine, TasksTyped, ModelFine, FramesFine
  <1>2. ServerTasks' = ServerTasks
    BY DEF ServerTasks
  <1>3. TablesFine'
    BY <1>2 DEF TablesFine, TasksAreKnown
  <1>4. OnceAsked'
    BY <1>2, OnceAskedKept
  <1>5. RepliesFine'
    BY RepliesKept
  <1>6. QED
    BY <1>1, <1>3, <1>4, <1>5

LEMMA PageAnswersKeeps ==
    ASSUME AskInv, NEW q, NEW answer \in {"yes", "no"}, PageAnswers(q, answer)
    PROVE  AskInv'
  <1> USE DEF AskInv
  <1>1. said \subseteq said' /\ said' = said \cup {[ask |-> q, answer |-> answer]}
        /\ mail' = mail \cup {[ask |-> q, answer |-> answer]}
    BY DEF PageAnswers
  <1>2. UNCHANGED <<link, asked, fromServer, askers, byId, openIds, asks, modelAsk, created,
                    replies, resolved, leaked>>
    BY DEF PageAnswers
  <1>3. TasksFine'
    <2> SUFFICES ASSUME NEW x \in askers
                 PROVE  TaskFine(x)'
      BY <1>2 DEF TasksFine
    <2>1. TaskFine(x)
      BY DEF TasksFine
    <2>2. x.at \in Asking =>
              /\ <<x.n, x.k>> \in DOMAIN asks'
              /\ asks'[<<x.n, x.k>>] = "replaced" => x.kind = "model"
      BY <2>1, <1>2 DEF TaskFine
    <2>3. QED
      BY <2>1, <2>2, <1>1, <1>2, TaskKept
  <1>4. AsksFine'
    BY <1>1, <1>2 DEF AsksFine
  <1>5. QED
    BY <1>1, <1>2, <1>3, <1>4, AnswersOnly

LEMMA AnswerArrivesKeeps ==
    ASSUME AskInv, NEW m, AnswerArrives(m)
    PROVE  AskInv'
  <1> USE DEF AskInv
  <1>1. UNCHANGED <<link, asked, fromServer, askers, byId, openIds, modelAsk, created, said,
                    replies, resolved, leaked>> /\ mail' = mail \ {m}
    BY DEF AnswerArrives
  <1>2. m \in said /\ m = [ask |-> m.ask, answer |-> m.answer] /\ m.answer \in {"yes", "no"}
    BY DEF AnswerArrives, AsksFine
  <1>3. /\ DOMAIN asks' = DOMAIN asks
        /\ \A q \in DOMAIN asks :
              \/ asks'[q] = asks[q]
              \/ q = m.ask /\ asks'[q] = m.answer
    BY DEF AnswerArrives
  <1>4. TasksFine'
    <2> SUFFICES ASSUME NEW x \in askers
                 PROVE  TaskFine(x)'
      BY <1>1 DEF TasksFine
    <2>1. TaskFine(x)
      BY DEF TasksFine
    <2>2. x.at \in Asking =>
              /\ <<x.n, x.k>> \in DOMAIN asks'
              /\ asks'[<<x.n, x.k>>] = "replaced" => x.kind = "model"
      BY <2>1, <1>2, <1>3 DEF TaskFine
    <2>3. QED
      BY <2>1, <2>2, <1>1, TaskKept
  <1>5. AsksFine'
    <2>1. ASSUME NEW q \in DOMAIN asks', asks'[q] \in {"yes", "no"}
          PROVE  [ask |-> q, answer |-> asks'[q]] \in said'
      <3>1. CASE asks'[q] = asks[q]
        BY <2>1, <3>1, <1>1, <1>3 DEF AsksFine
      <3>2. CASE q = m.ask /\ asks'[q] = m.answer
        BY <3>2, <1>1, <1>2
      <3>3. QED
        BY <3>1, <3>2, <2>1, <1>3
    <2>2. \A q \in DOMAIN asks' : asks'[q] \in AskValues
      BY <1>2, <1>3 DEF AsksFine, AskValues
    <2>3. QED
      BY <2>1, <2>2, <1>1, <1>3 DEF AsksFine
  <1>6. QED
    BY <1>1, <1>4, <1>5, AnswersOnly

----------------------------------------------------------------------------
(* The theorems.                                                             *)

LEMMA QuestionsBegin ==
    ASSUME QuestionsInit
    PROVE  AskInv
  <1>1. LinkFine
    BY DEF QuestionsInit, LinkFine
  <1>2. fromServer = <<>> /\ askers = {} /\ byId = <<>> /\ openIds = {} /\ asks = <<>>
        /\ modelAsk = NoQuestion /\ mail = {} /\ created = 0 /\ said = {} /\ replies = {}
    BY DEF QuestionsInit
  <1>3. DOMAIN byId = {} /\ DOMAIN asks = {} /\ DOMAIN fromServer = {} /\ ServerTasks = {}
    BY <1>2 DEF ServerTasks
  <1>4. TasksTyped /\ TasksFine /\ AsksFine /\ ModelFine
    BY <1>2, <1>3 DEF TasksTyped, TasksFine, AsksFine, ModelFine
  <1>5. FramesFine
    BY <1>2, <1>3 DEF FramesFine
  <1>6. TablesFine /\ OnceAsked
    BY <1>2, <1>3 DEF TablesFine, TasksAreKnown, OnceAsked, Sent
  <1>7. RepliesFine
    BY <1>2 DEF RepliesFine, ConsentIsGiven, RepliesMatch, OthersMayAnswer
  <1>8. QED
    BY <1>1, <1>4, <1>5, <1>6, <1>7 DEF AskInv

LEMMA QuestionsKeep ==
    ASSUME AskInv, [QuestionsNext]_askVars
    PROVE  AskInv'
  <1>1. ASSUME NEW id \in RequestIds, NEW kind \in CodexAsks, ServerRequests(id, kind)
        PROVE  AskInv'
    BY <1>1, ServerRequestsKeeps
  <1>2. ASSUME NEW id \in RequestIds, AnotherAnswers(id)
        PROVE  AskInv'
    BY <1>2, AnotherAnswersKeeps
  <1>3. CASE ServerExits
    BY <1>3, ServerExitsKeeps
  <1>4. CASE Dispatch1
    BY <1>4, DispatchKeeps
  <1>5. CASE Disconnect
    BY <1>5, DisconnectKeeps
  <1>6. CASE Connects
    BY <1>6, ConnectsKeeps
  <1>7. CASE ToolAsks \/ ModelChanges
    BY <1>7, ClaudeAsksKeeps
  <1>8. CASE SdkCancels
    BY <1>8, SdkCancelsKeeps
  <1>9. ASSUME NEW t \in askers, TaskBegins(t)
        PROVE  AskInv'
    BY <1>9, TaskBeginsKeeps
  <1>10. ASSUME NEW t \in askers, QuestionShown(t) \/ QuestionSent(t)
         PROVE  AskInv'
    BY <1>10, QuestionSendingKeeps
  <1>11. ASSUME NEW t \in askers, Resumes(t)
         PROVE  AskInv'
    BY <1>11, ResumesKeeps
  <1>12. ASSUME NEW t \in askers, TimesOutAsking(t)
         PROVE  AskInv'
    BY <1>12, TimesOutKeeps
  <1>13. ASSUME NEW t \in askers, TaskUnwinds(t)
         PROVE  AskInv'
    BY <1>13, UnwindsKeeps
  <1>14. ASSUME NEW t \in askers, Replies(t)
         PROVE  AskInv'
    BY <1>14, RepliesKeeps
  <1>15. ASSUME NEW q \in seenBy, NEW answer \in {"yes", "no"}, PageAnswers(q, answer)
         PROVE  AskInv'
    BY <1>15, PageAnswersKeeps
  <1>16. ASSUME NEW m \in mail, AnswerArrives(m)
         PROVE  AskInv'
    BY <1>16, AnswerArrivesKeeps
  <1>17. CASE UNCHANGED askVars
    <2>1. UNCHANGED <<link, asked, fromServer, askers, byId, openIds, asks, modelAsk, mail,
                      created, said, replies, resolved, leaked>>
      BY <1>17 DEF askVars
    <2>2. /\ TasksTyped' /\ TasksFine' /\ AsksFine' /\ ModelFine' /\ TablesFine' /\ RepliesFine'
      BY <2>1, TasksStay
    <2>3. LinkFine' /\ FramesFine' /\ OnceAsked'
      BY <2>1, AnswersOnly
    <2>4. QED
      BY <2>2, <2>3 DEF AskInv
  <1>18. QED
    BY <1>1, <1>2, <1>3, <1>4, <1>5, <1>6, <1>7, <1>8, <1>9, <1>10, <1>11, <1>12, <1>13, <1>14,
       <1>15, <1>16, <1>17 DEF QuestionsNext

(* In every state the questions, the tasks that ask them, the frames on their *)
(* way and the replies fit together as described above.                       *)
THEOREM QuestionsInvariant == QuestionsSpec => []AskInv
  <1>1. QuestionsInit => AskInv
    BY QuestionsBegin
  <1>2. AskInv /\ [QuestionsNext]_askVars => AskInv'
    BY QuestionsKeep
  <1>3. QED
    BY <1>1, <1>2, PTL DEF QuestionsSpec

(* What an engine is told as consent was said by a page to a question of that *)
(* same request; a request is answered at most once, and to the process that  *)
(* made it; a shared app-server hears only what somebody chose, and nothing   *)
(* of a request that another client has answered; the tables name the live    *)
(* tasks; and a question that can be answered has a task that waits for it or *)
(* was given up while it was sent (_on_ask, _handle_server_request,           *)
(* _handle_answer_question, disconnect).                                      *)
THEOREM QuestionsAreSafe == QuestionsSpec => []QuestionsSafe
  <1>1. ASSUME AskInv
        PROVE  QuestionsSafe
    <2> USE <1>1 DEF AskInv
    <2>1. QuestionsTypeOK
      <3>1. \A q \in DOMAIN asks : asks[q] \in {"open", "yes", "no", "replaced", "cancelled"}
        BY DEF AsksFine, AskValues
      <3>2. QED
        BY <3>1 DEF QuestionsTypeOK, TablesFine, TasksTyped, ModelFine
    <2>2. ConsentIsGiven /\ RepliesMatch /\ OthersMayAnswer /\ TasksAreKnown
      BY DEF RepliesFine, TablesFine
    <2>3. AskersWait
      BY DEF AsksFine, AskersWait, TasksFine, TaskFine, Asking
    <2>4. QED
      BY <2>1, <2>2, <2>3 DEF QuestionsSafe
  <1>2. QED
    BY <1>1, QuestionsInvariant, PTL

(***************************************************************************)
(* Turns.                                                                  *)
(***************************************************************************)

\* Where a managed turn is while its task exists, and while its stream may be open.
Live == Working \cup {"unwinding"}
Streaming == {"requested", "accepted", "refused", "bound", "announcing", "consuming"}
Marked == Streaming \cup {"launching", "reviving"}

\* Where a follower is before its turn has the session, and while it has it.
Early == {"announcing", "created", "waiting"}
Following == {"anchoring", "consuming", "finishing", "recording"}

Request == [type : {"start", "stop"}, turn : Turns]
Report == [type : {"started_ok", "start_error", "stopped", "stop_error", "started", "completed",
                   "eof"},
           turn : Turns \cup {None}]

CtxTyped ==
    /\ state \in {"idle", "running", "interrupting"} /\ event \in BOOLEAN
    /\ active \in Turns \cup {None} /\ turnTask \in Queries \cup {None}
    /\ spont \in Turns \cup {None} /\ spTask \in Turns \cup {None}
    /\ lane \in [at : {"free", "preflight", "claimed", "stopping", "asked", "done", "failed"},
                 query : Queries \cup {None}]
    /\ turnAt \in [Queries -> Live \cup {"none", "done"}]
    /\ timed \in [Queries -> Turns \cup {None}]
    /\ follower \in [Turns -> Early \cup Following \cup {"none", "done"}]
    /\ awaited \in [Turns -> Queries \cup {None}]
    /\ issued \subseteq Turns /\ shown \subseteq Turns

ServerTyped ==
    /\ h \in Handles
    /\ server \in Turns \cup {None, "down"}
    /\ inp \in Seq(Request) /\ out \in Seq(Report)
    /\ \A k \in DOMAIN out : out[k].type = "started" => out[k].turn \in Turns

LockHeld ==
    /\ \A q \in Queries : /\ turnAt[q] \in InWindow => lock = q
                          /\ lock = q => turnAt[q] \in InWindow \cup {"ending"}
    /\ lock = "stop" <=> lane.at \in {"asked", "done", "failed"}

\* A query runs once.
QueriesFresh ==
    /\ lane.at \in {"preflight", "claimed"} =>
          lane.query \in Queries /\ lane.query \in issued /\ turnAt[lane.query] = "none"
    /\ \A q \in Queries : turnAt[q] # "none" => q \in issued

\* The stream of a managed turn is open until its turn streams.
StreamsFresh ==
    \A q \in Queries :
        /\ h.mq = q => turnAt[q] \in Streaming
        /\ turnAt[q] \in {"none", "starting", "launching", "reviving"} => h.managed[q] = "open"

SpontTasked == spont # None => spTask = spont

\* There is one task of a managed turn, and turn_task names it.
OneTask ==
    /\ \A q \in Queries : turnAt[q] \in Live <=> turnTask = q
    /\ lane.at = "claimed" => turnTask = None

\* The automatic turn of the session waits for the managed turn.
AutoWaits ==
    /\ state = "idle" => spont = None /\ \A q \in Queries : turnAt[q] \notin Working
    /\ lane.at = "claimed" => state # "idle" /\ spont = None /\ active = lane.query
    /\ \A t \in Turns : follower[t] \in Following => spont = t
    /\ \A q \in Queries :
          /\ turnAt[q] \in {"starting", "launching"} /\ spont # None => event
          /\ turnAt[q] = "starting" => active = q
          /\ turnAt[q] = "reviving" => ~h.alive /\ spont = None
          /\ turnAt[q] \in Live /\ spont # None =>
                /\ follower[spont] \in Early
                /\ follower[spont] = "waiting" => awaited[spont] = q

\* The handle counts no turn that neither the session follows nor a managed turn streams.
HandleFollows ==
    /\ h.active => spont # None \/ \E q \in Queries : turnAt[q] \in Streaming
    /\ \A q \in Queries :
          /\ turnAt[q] \in Streaming /\ (h.mq # q \/ h.managed[q] # "open") =>
                (h.active => spont # None)
          /\ turnAt[q] = "reconnecting" => ~h.alive /\ ~h.active
    /\ spont # None =>
          /\ h.auto[spont] # "open" \/ follower[spont] \in {"finishing", "recording"} => ~h.active
          /\ follower[spont] \in Early \cup {"anchoring", "consuming"} => h.sq = spont

\* A marker that was sent belongs to a turn that streams.
MarkersFine ==
    \A t \in shown : (t \in Queries /\ turnAt[t] \in Marked) \/ follower[t] = "consuming"

TooEarly == Raced({"early"})
Crossing == Raced({"early", "crossed"})
Ignoring == Raced({"early", "crossed", "ignored"})

TurnInv ==
    /\ CtxTyped /\ ServerTyped /\ LockHeld /\ QueriesFresh /\ StreamsFresh /\ SpontTasked
    /\ TooEarly \/ OneTask
    /\ Crossing \/ AutoWaits
    /\ Ignoring \/ (HandleFollows /\ MarkersFine)

----------------------------------------------------------------------------
(* What the operations of the handle do.                                     *)

LEMMA QueriedDoes ==
    ASSUME NEW g \in Handles, NEW q \in Queries
    PROVE  /\ Queried(g, q) \in Handles
           /\ Queried(g, q).mq = q /\ Queried(g, q).active /\ Queried(g, q).alive = g.alive
           /\ Queried(g, q).managed = g.managed /\ Queried(g, q).auto = g.auto
           /\ Queried(g, q).sq = g.sq
  BY DEF Handles, Queried, Turns

LEMMA AcceptedDoes ==
    ASSUME NEW g \in Handles, NEW q \in Queries
    PROVE  /\ Accepted(g, q) \in Handles
           /\ Accepted(g, q).mq = g.mq /\ Accepted(g, q).active = g.active
           /\ Accepted(g, q).alive = g.alive
           /\ Accepted(g, q).managed = g.managed /\ Accepted(g, q).auto = g.auto
           /\ Accepted(g, q).sq = g.sq
  BY DEF Handles, Accepted, Turns

LEMMA RefusedDoes ==
    ASSUME NEW g \in Handles, NEW q \in Queries
    PROVE  /\ Refused(g, q) \in Handles
           /\ Refused(g, q).mq \in {g.mq, None} /\ Refused(g, q).mq # q
           /\ ~Refused(g, q).active
           /\ Refused(g, q).alive = g.alive
           /\ Refused(g, q).managed = g.managed /\ Refused(g, q).auto = g.auto
           /\ Refused(g, q).sq = g.sq
  BY TurnAssumption DEF Handles, Refused, Turns

LEMMA ReceivedDoes ==
    ASSUME NEW g \in Handles, NEW q \in Queries
    PROVE  /\ Received(g, q) \in Handles
           /\ Received(g, q).mq \in {g.mq, None} /\ Received(g, q).mq # q
           /\ g.mq # q => Received(g, q).mq = g.mq
           /\ Received(g, q).active => g.active
           /\ Received(g, q).alive = g.alive
           /\ Received(g, q).managed = g.managed /\ Received(g, q).auto = g.auto
           /\ Received(g, q).sq = g.sq
  BY TurnAssumption DEF Handles, Received, Turns

LEMMA ReceivedAutoDoes ==
    ASSUME NEW g \in Handles, NEW t \in Turns
    PROVE  /\ ReceivedAuto(g, t) \in Handles
           /\ ReceivedAuto(g, t).mq = g.mq /\ ReceivedAuto(g, t).active = g.active
           /\ ReceivedAuto(g, t).alive = g.alive
           /\ ReceivedAuto(g, t).managed = g.managed /\ ReceivedAuto(g, t).auto = g.auto
           /\ g.sq # t => ReceivedAuto(g, t).sq = g.sq
  BY DEF Handles, ReceivedAuto

LEMMA SpontaneousClosedDoes ==
    ASSUME NEW g \in Handles, NEW t \in Turns \cup {None}
    PROVE  /\ SpontaneousClosed(g, t) \in Handles
           /\ SpontaneousClosed(g, t).mq = g.mq /\ SpontaneousClosed(g, t).active = g.active
           /\ SpontaneousClosed(g, t).alive = g.alive
           /\ SpontaneousClosed(g, t).managed = g.managed /\ SpontaneousClosed(g, t).sq = g.sq
           /\ \A u \in Turns : u # g.sq => SpontaneousClosed(g, t).auto[u] = g.auto[u]
  <1>1. CASE g.sq = None \/ (t # None /\ t # g.sq)
    BY <1>1 DEF SpontaneousClosed
  <1>2. CASE ~(g.sq = None \/ (t # None /\ t # g.sq))
    <2>1. g.sq \in Turns /\ g.auto \in [Turns -> StreamStates]
      BY <1>2 DEF Handles
    <2>2. Closed(g.auto[g.sq]) \in StreamStates
      BY <2>1 DEF Closed, StreamStates
    <2>3. SpontaneousClosed(g, t) = [g EXCEPT !.auto = [g.auto EXCEPT ![g.sq] = Closed(g.auto[g.sq])]]
      BY <1>2 DEF SpontaneousClosed
    <2>4. [g.auto EXCEPT ![g.sq] = Closed(g.auto[g.sq])] \in [Turns -> StreamStates]
      BY <2>1, <2>2
    <2>5. QED
      BY <2>1, <2>3, <2>4 DEF Handles
  <1>3. QED
    BY <1>1, <1>2

LEMMA AtEofDoes ==
    ASSUME NEW g \in Handles
    PROVE  /\ AtEof(g) \in Handles
           /\ AtEof(g).mq = g.mq /\ ~AtEof(g).active /\ ~AtEof(g).alive /\ AtEof(g).sq = g.sq
           /\ \A q \in Queries : q # g.mq => AtEof(g).managed[q] = g.managed[q]
           /\ \A t \in Turns : t # g.sq => AtEof(g).auto[t] = g.auto[t]
  <1> DEFINE b == [g EXCEPT !.sp = None]
             c == SpontaneousClosed(b, g.sp)
             e == [c EXCEPT !.alive = FALSE, !.active = FALSE]
  <1>1. b \in Handles /\ g.sp \in Turns \cup {None}
        /\ b.mq = g.mq /\ b.managed = g.managed /\ b.sq = g.sq /\ b.auto = g.auto
    BY DEF Handles
  <1> HIDE DEF b
  <1>2. /\ c \in Handles /\ c.mq = g.mq /\ c.managed = g.managed /\ c.sq = g.sq
        /\ \A t \in Turns : t # g.sq => c.auto[t] = g.auto[t]
    BY <1>1, SpontaneousClosedDoes
  <1> HIDE DEF c
  <1>3. /\ e \in Handles /\ e.mq = g.mq /\ e.managed = g.managed /\ e.sq = g.sq
        /\ ~e.active /\ ~e.alive /\ e.auto = c.auto
    BY <1>2 DEF Handles
  <1>4. AtEof(g) = IF g.mq = None THEN e ELSE [e EXCEPT !.managed[g.mq] = Closed(@)]
    BY DEF AtEof, b, c
  <1> HIDE DEF e
  <1>5. CASE g.mq = None
    BY <1>2, <1>3, <1>4, <1>5
  <1>6. CASE g.mq # None
    <2>1. g.mq \in Queries /\ e.managed \in [Queries -> StreamStates]
      BY <1>3, <1>6 DEF Handles
    <2>2. [e.managed EXCEPT ![g.mq] = Closed(e.managed[g.mq])] \in [Queries -> StreamStates]
      BY <2>1 DEF Closed, StreamStates
    <2>3. AtEof(g) = [e EXCEPT !.managed = [e.managed EXCEPT ![g.mq] = Closed(e.managed[g.mq])]]
      BY <1>4, <1>6
    <2>4. QED
      BY <1>2, <1>3, <2>1, <2>2, <2>3 DEF Handles
  <1>7. QED
    BY <1>5, <1>6

LEMMA DisconnectedDoes ==
    ASSUME NEW g \in Handles
    PROVE  /\ Disconnected(g) \in Handles
           /\ Disconnected(g).mq = None /\ ~Disconnected(g).active /\ ~Disconnected(g).alive
           /\ Disconnected(g).sq = g.sq
           /\ \A q \in Queries : q # g.mq => Disconnected(g).managed[q] = g.managed[q]
           /\ \A t \in Turns : t # g.sq => Disconnected(g).auto[t] = g.auto[t]
  <1> DEFINE e == AtEof(g)
  <1>1. /\ e \in Handles
        /\ e.mq = g.mq /\ ~e.active /\ ~e.alive /\ e.sq = g.sq
        /\ \A q \in Queries : q # g.mq => e.managed[q] = g.managed[q]
        /\ \A t \in Turns : t # g.sq => e.auto[t] = g.auto[t]
    BY AtEofDoes
  <1>2. Disconnected(g) = [e EXCEPT !.mq = None, !.turn = None, !.pend = FALSE]
    BY DEF Disconnected
  <1> HIDE DEF e
  <1>3. QED
    BY <1>1, <1>2 DEF Handles

\* A turn that starts while another is active only gives its id.
LEMMA StartedDoes ==
    ASSUME NEW g \in Handles, NEW t \in Turns
    PROVE  /\ Started(g, t) \in Handles /\ Started(g, t).alive = g.alive
           /\ Started(g, t).managed = g.managed
           /\ g.active =>
                 /\ Started(g, t).mq = g.mq /\ Started(g, t).active
                 /\ Started(g, t).auto = g.auto /\ Started(g, t).sq = g.sq
           /\ ~g.active =>
                 /\ Started(g, t).mq = None /\ Started(g, t).active
                 /\ Started(g, t).sq = t /\ Started(g, t).auto[t] = "open"
  <1>1. CASE g.active
    BY <1>1 DEF Started, StartsAlone, Handles
  <1>2. CASE ~g.active
    <2> DEFINE c == SpontaneousClosed(g, g.sq)
    <2>1. /\ c \in Handles /\ c.managed = g.managed /\ c.alive = g.alive
      BY SpontaneousClosedDoes DEF Handles
    <2>2. Started(g, t) = [c EXCEPT !.turn = t, !.active = TRUE, !.mq = None, !.sp = t, !.sq = t,
                                    !.auto = [c.auto EXCEPT ![t] = "open"]]
      BY <1>2 DEF Started, StartsAlone
    <2> HIDE DEF c
    <2>3. c.auto \in [Turns -> StreamStates] /\ [c.auto EXCEPT ![t] = "open"] \in [Turns -> StreamStates]
          /\ [c.auto EXCEPT ![t] = "open"][t] = "open"
      BY <2>1 DEF Handles, StreamStates
    <2>4. QED
      BY <1>2, <2>1, <2>2, <2>3 DEF Handles
  <1>3. QED
    BY <1>1, <1>2 DEF Handles

LEMMA CompletedDoes ==
    ASSUME NEW g \in Handles, NEW t
    PROVE  /\ Completed(g, t) \in Handles /\ Completed(g, t).alive = g.alive
           /\ Completed(g, t).mq = g.mq /\ ~Completed(g, t).active /\ Completed(g, t).sq = g.sq
           /\ \A q \in Queries : q # g.mq => Completed(g, t).managed[q] = g.managed[q]
           /\ \A u \in Turns : u # g.sq => Completed(g, t).auto[u] = g.auto[u]
  <1> DEFINE o == [g EXCEPT !.active = FALSE, !.turn = None, !.sp = IF @ = t THEN None ELSE @]
  <1>1. /\ o \in Handles /\ o.alive = g.alive /\ o.mq = g.mq /\ ~o.active /\ o.sq = g.sq
        /\ o.managed = g.managed /\ o.auto = g.auto
    BY DEF Handles
  <1>2. Completed(g, t) = IF g.mq # None THEN [o EXCEPT !.managed[g.mq] = Ended(@)]
                          ELSE IF g.sp # None /\ g.sq # None THEN [o EXCEPT !.auto[g.sq] = Ended(@)]
                          ELSE o
    BY DEF Completed
  <1> HIDE DEF o
  <1>3. CASE g.mq # None
    <2>1. g.mq \in Queries /\ o.managed \in [Queries -> StreamStates]
      BY <1>1, <1>3 DEF Handles
    <2>2. [o.managed EXCEPT ![g.mq] = Ended(o.managed[g.mq])] \in [Queries -> StreamStates]
      BY <2>1 DEF Ended, StreamStates
    <2>3. Completed(g, t) = [o EXCEPT !.managed = [o.managed EXCEPT ![g.mq] = Ended(o.managed[g.mq])]]
      BY <1>2, <1>3
    <2>4. QED
      BY <1>1, <2>1, <2>2, <2>3 DEF Handles
  <1>4. CASE g.mq = None /\ g.sp # None /\ g.sq # None
    <2>1. g.sq \in Turns /\ o.auto \in [Turns -> StreamStates]
      BY <1>1, <1>4 DEF Handles
    <2>2. [o.auto EXCEPT ![g.sq] = Ended(o.auto[g.sq])] \in [Turns -> StreamStates]
      BY <2>1 DEF Ended, StreamStates
    <2>3. Completed(g, t) = [o EXCEPT !.auto = [o.auto EXCEPT ![g.sq] = Ended(o.auto[g.sq])]]
      BY <1>2, <1>4
    <2>4. QED
      BY <1>1, <2>1, <2>2, <2>3 DEF Handles
  <1>5. CASE g.mq = None /\ ~(g.sp # None /\ g.sq # None)
    BY <1>1, <1>2, <1>5
  <1>6. QED
    BY <1>3, <1>4, <1>5

----------------------------------------------------------------------------
(* Messages.                                                                 *)

OutTyped == out \in Seq(Report) /\ \A k \in DOMAIN out : out[k].type = "started" => out[k].turn \in Turns

LEMMA ReportTaken ==
    ASSUME OutTyped, out # <<>>, out' = Tail(out)
    PROVE  /\ OutTyped'
           /\ Head(out) \in Report /\ (Head(out).type = "started" => Head(out).turn \in Turns)
  <1>1. /\ out' \in Seq(Report)
        /\ \A k \in DOMAIN out' : k + 1 \in DOMAIN out /\ out'[k] = out[k + 1]
        /\ 1 \in DOMAIN out /\ Head(out) = out[1] /\ out[1] \in Report
    BY DEF OutTyped
  <1>2. QED
    BY <1>1 DEF OutTyped

LEMMA ReportAdded ==
    ASSUME OutTyped, NEW m \in Report, m.type = "started" => m.turn \in Turns,
           out' = Append(out, m)
    PROVE  OutTyped'
  <1>1. /\ out' \in Seq(Report)
        /\ \A k \in DOMAIN out' : k = Len(out) + 1 \/ (k \in DOMAIN out /\ out'[k] = out[k])
        /\ out'[Len(out) + 1] = m
    BY DEF OutTyped
  <1>2. QED
    BY <1>1 DEF OutTyped

LEMMA ReportsAdded ==
    ASSUME OutTyped, NEW m \in Report, NEW n \in Report,
           m.type = "started" => m.turn \in Turns, n.type = "started" => n.turn \in Turns,
           out' = out \o <<m, n>>
    PROVE  OutTyped'
  <1>1. <<m, n>> \in Seq(Report) /\ Len(<<m, n>>) = 2 /\ <<m, n>>[1] = m /\ <<m, n>>[2] = n
    OBVIOUS
  <1>2. /\ out' \in Seq(Report)
        /\ \A k \in DOMAIN out' :
              \/ k \in DOMAIN out /\ out'[k] = out[k]
              \/ out'[k] = m \/ out'[k] = n
    BY <1>1 DEF OutTyped
  <1>3. QED
    BY <1>2 DEF OutTyped

LEMMA RequestTaken ==
    ASSUME inp \in Seq(Request), inp # <<>>
    PROVE  Head(inp) \in Request /\ Tail(inp) \in Seq(Request)
  OBVIOUS

LEMMA CheckQueryKeeps ==
    ASSUME TurnInv, NEW q \in Queries, CheckQuery(q)
    PROVE  TurnInv'
  <1> USE DEF TurnInv
  <1>1. \A r : Raced(r) => Raced(r)'
    BY DEF Raced, CheckQuery
  <1>2. CtxTyped'
    BY DEF CtxTyped, Turns, CheckQuery, At, ctxVars, queryVars, autoVars
  <1>3. ServerTyped'
    BY DEF ServerTyped, CheckQuery, serverVars
  <1>4. LockHeld'
    BY DEF LockHeld, CheckQuery, At, Free, queryVars
  <1>5. QueriesFresh'
    BY DEF QueriesFresh, CheckQuery, At, queryVars
  <1>6. StreamsFresh'
    BY DEF StreamsFresh, ServerTyped, CheckQuery, queryVars
  <1>7. SpontTasked'
    BY DEF SpontTasked, CheckQuery, ctxVars
  <1>8. TooEarly' \/ OneTask'
    BY <1>1 DEF TooEarly, Raced, OneTask, QueriesFresh, CheckQuery, At, ctxVars, queryVars
  <1>9. Crossing' \/ AutoWaits'
    <2> SUFFICES ASSUME ~Crossing'
                 PROVE  AutoWaits'
      OBVIOUS
    <2>1. OneTask /\ AutoWaits
      BY <1>1 DEF TooEarly, Crossing, Raced
    <2>2. QED
      BY <1>1, <2>1 DEF Crossing, Raced, AutoWaits, CheckQuery, At, ctxVars, queryVars, autoVars
  <1>10. Ignoring' \/ (HandleFollows' /\ MarkersFine')
    <2> SUFFICES ASSUME ~Ignoring'
                 PROVE  HandleFollows' /\ MarkersFine'
      OBVIOUS
    <2>1. OneTask /\ AutoWaits /\ HandleFollows /\ MarkersFine
      BY <1>1 DEF TooEarly, Crossing, Ignoring, Raced
    <2>2. HandleFollows'
      BY <1>1, <2>1 DEF HandleFollows, AutoWaits, CheckQuery, ctxVars, queryVars
    <2>3. MarkersFine'
      BY <1>1, <2>1 DEF MarkersFine, CheckQuery, queryVars, autoVars
    <2>4. QED
      BY <2>2, <2>3
  <1>11. QED
    BY <1>2, <1>3, <1>4, <1>5, <1>6, <1>7, <1>8, <1>9, <1>10

LEMMA AbandonQueryKeeps ==
    ASSUME TurnInv, AbandonQuery
    PROVE  TurnInv'
  <1> USE DEF TurnInv
  <1>1. \A r : Raced(r) => Raced(r)'
    BY DEF Raced, AbandonQuery, histVars
  <1>2. CtxTyped'
    BY DEF CtxTyped, AbandonQuery, Free, ctxVars, queryVars, autoVars, histVars
  <1>3. ServerTyped'
    BY DEF ServerTyped, AbandonQuery, serverVars
  <1>4. LockHeld'
    BY DEF LockHeld, AbandonQuery, Free, queryVars
  <1>5. QueriesFresh'
    BY DEF QueriesFresh, AbandonQuery, Free, queryVars, histVars
  <1>6. StreamsFresh'
    BY DEF StreamsFresh, ServerTyped, AbandonQuery, queryVars
  <1>7. SpontTasked'
    BY DEF SpontTasked, AbandonQuery, ctxVars
  <1>8. TooEarly' \/ OneTask'
    BY <1>1 DEF TooEarly, Raced, OneTask, QueriesFresh, AbandonQuery, Free, ctxVars, queryVars
  <1>9. Crossing' \/ AutoWaits'
    <2> SUFFICES ASSUME ~Crossing'
                 PROVE  AutoWaits'
      OBVIOUS
    <2>1. OneTask /\ AutoWaits
      BY <1>1 DEF TooEarly, Crossing, Raced
    <2>2. QED
      BY <1>1, <2>1
         DEF Crossing, Raced, AutoWaits, AbandonQuery, Free, ctxVars, queryVars, autoVars
  <1>10. Ignoring' \/ (HandleFollows' /\ MarkersFine')
    <2> SUFFICES ASSUME ~Ignoring'
                 PROVE  HandleFollows' /\ MarkersFine'
      OBVIOUS
    <2>1. OneTask /\ AutoWaits /\ HandleFollows /\ MarkersFine
      BY <1>1 DEF TooEarly, Crossing, Ignoring, Raced
    <2>2. HandleFollows'
      BY <1>1, <2>1 DEF HandleFollows, AbandonQuery, ctxVars, queryVars, autoVars
    <2>3. MarkersFine'
      BY <1>1, <2>1 DEF MarkersFine, AbandonQuery, queryVars, autoVars, histVars
    <2>4. QED
      BY <2>2, <2>3
  <1>11. QED
    BY <1>2, <1>3, <1>4, <1>5, <1>6, <1>7, <1>8, <1>9, <1>10

LEMMA ClaimQueryKeeps ==
    ASSUME TurnInv, ClaimQuery
    PROVE  TurnInv'
  <1> USE DEF TurnInv
  <1>1. \A r : Raced(r) => Raced(r)'
    BY DEF Raced, ClaimQuery
  <1>2. CtxTyped'
    BY DEF CtxTyped, Turns, ClaimQuery, queryVars, autoVars
  <1>3. ServerTyped'
    BY DEF ServerTyped, ClaimQuery, serverVars
  <1>4. LockHeld'
    BY DEF LockHeld, ClaimQuery, queryVars
  <1>5. QueriesFresh'
    BY DEF QueriesFresh, ClaimQuery, queryVars
  <1>6. StreamsFresh'
    BY DEF StreamsFresh, ServerTyped, ClaimQuery, queryVars
  <1>7. SpontTasked'
    BY DEF SpontTasked, ClaimQuery
  <1>8. TooEarly' \/ OneTask'
    BY <1>1 DEF TooEarly, Raced, OneTask, QueriesFresh, ClaimQuery, queryVars
  <1>9. Crossing' \/ AutoWaits'
    <2> SUFFICES ASSUME ~Crossing'
                 PROVE  AutoWaits'
      OBVIOUS
    <2>1. OneTask /\ AutoWaits
      BY <1>1 DEF TooEarly, Crossing, Raced
    <2>2. QED
      BY <1>1, <2>1, TurnAssumption
         DEF Crossing, Raced, AutoWaits, OneTask, CtxTyped, ClaimQuery, queryVars, autoVars
  <1>10. Ignoring' \/ (HandleFollows' /\ MarkersFine')
    <2> SUFFICES ASSUME ~Ignoring'
                 PROVE  HandleFollows' /\ MarkersFine'
      OBVIOUS
    <2>1. OneTask /\ AutoWaits /\ HandleFollows /\ MarkersFine
      BY <1>1 DEF TooEarly, Crossing, Ignoring, Raced
    <2>2. HandleFollows'
      BY <1>1, <2>1 DEF HandleFollows, ClaimQuery, queryVars, autoVars
    <2>3. MarkersFine'
      BY <1>1, <2>1 DEF MarkersFine, ClaimQuery, queryVars, autoVars
    <2>4. QED
      BY <2>2, <2>3
  <1>11. QED
    BY <1>2, <1>3, <1>4, <1>5, <1>6, <1>7, <1>8, <1>9, <1>10

LEMMA CreateTaskKeeps ==
    ASSUME TurnInv, CreateTask
    PROVE  TurnInv'
  <1> USE DEF TurnInv
  <1>1. \A r : Raced(r) => Raced(r)'
    BY DEF Raced, CreateTask, histVars
  <1>2. CtxTyped'
    BY DEF CtxTyped, Live, Working, CreateTask, Free, autoVars, histVars
  <1>3. ServerTyped'
    BY DEF ServerTyped, CreateTask, serverVars
  <1>4. LockHeld'
    BY DEF LockHeld, QueriesFresh, InWindow, CreateTask, Free
  <1>5. QueriesFresh'
    BY DEF QueriesFresh, CreateTask, Free, histVars
  <1>6. StreamsFresh'
    BY DEF StreamsFresh, QueriesFresh, ServerTyped, Streaming, CreateTask
  <1>7. SpontTasked'
    BY DEF SpontTasked, CreateTask
  <1>8. TooEarly' \/ OneTask'
    BY <1>1, TurnAssumption
       DEF TooEarly, Raced, OneTask, CtxTyped, QueriesFresh, Live, Working, CreateTask, Free,
           histVars
  <1>9. Crossing' \/ AutoWaits'
    <2> SUFFICES ASSUME ~Crossing'
                 PROVE  AutoWaits'
      OBVIOUS
    <2>1. OneTask /\ AutoWaits
      BY <1>1 DEF TooEarly, Crossing, Raced
    <2>2. QED
      BY <1>1, <2>1 DEF Crossing, Raced, AutoWaits, CreateTask, Free, autoVars
  <1>10. Ignoring' \/ (HandleFollows' /\ MarkersFine')
    <2> SUFFICES ASSUME ~Ignoring'
                 PROVE  HandleFollows' /\ MarkersFine'
      OBVIOUS
    <2>1. OneTask /\ AutoWaits /\ HandleFollows /\ MarkersFine
      BY <1>1 DEF TooEarly, Crossing, Ignoring, Raced
    <2>2. HandleFollows'
      BY <1>1, <2>1, TurnAssumption
         DEF HandleFollows, AutoWaits, OneTask, CtxTyped, Streaming, CreateTask
    <2>3. MarkersFine'
      BY <2>1 DEF MarkersFine, QueriesFresh, Marked, Streaming, CreateTask, autoVars, histVars
    <2>4. QED
      BY <2>2, <2>3
  <1>11. QED
    BY <1>2, <1>3, <1>4, <1>5, <1>6, <1>7, <1>8, <1>9, <1>10

LEMMA StopKeeps ==
    ASSUME TurnInv, Stop
    PROVE  TurnInv'
  <1> USE DEF TurnInv
  <1>1. \A r : Raced(r) => Raced(r)'
    BY DEF Raced, Stop
  <1>2. CtxTyped'
    BY DEF CtxTyped, Stop, At, Free, queryVars, autoVars
  <1>3. ServerTyped'
    BY DEF ServerTyped, Stop, serverVars
  <1>4. LockHeld'
    BY DEF LockHeld, Stop, At, Free, queryVars
  <1>5. QueriesFresh'
    BY DEF QueriesFresh, Stop, At, Free, queryVars
  <1>6. StreamsFresh'
    BY DEF StreamsFresh, ServerTyped, Stop, queryVars
  <1>7. SpontTasked'
    BY DEF SpontTasked, Stop
  <1>8. TooEarly' \/ OneTask'
    BY <1>1 DEF TooEarly, Raced, OneTask, QueriesFresh, Stop, At, Free, queryVars
  <1>9. Crossing' \/ AutoWaits'
    <2> SUFFICES ASSUME ~Crossing'
                 PROVE  AutoWaits'
      OBVIOUS
    <2>1. OneTask /\ AutoWaits
      BY <1>1 DEF TooEarly, Crossing, Raced
    <2>2. QED
      BY <1>1, <2>1 DEF Crossing, Raced, AutoWaits, Stop, At, Free, queryVars, autoVars
  <1>10. Ignoring' \/ (HandleFollows' /\ MarkersFine')
    <2> SUFFICES ASSUME ~Ignoring'
                 PROVE  HandleFollows' /\ MarkersFine'
      OBVIOUS
    <2>1. OneTask /\ AutoWaits /\ HandleFollows /\ MarkersFine
      BY <1>1 DEF TooEarly, Crossing, Ignoring, Raced
    <2>2. HandleFollows'
      BY <1>1, <2>1 DEF HandleFollows, Stop, queryVars, autoVars
    <2>3. MarkersFine'
      BY <1>1, <2>1 DEF MarkersFine, Stop, queryVars, autoVars
    <2>4. QED
      BY <2>2, <2>3
  <1>11. QED
    BY <1>2, <1>3, <1>4, <1>5, <1>6, <1>7, <1>8, <1>9, <1>10

LEMMA StopIsOverKeeps ==
    ASSUME TurnInv, StopIsOver
    PROVE  TurnInv'
  <1> USE DEF TurnInv
  <1>1. \A r : Raced(r) => Raced(r)'
    BY DEF Raced, StopIsOver, histVars
  <1>2. CtxTyped'
    BY DEF CtxTyped, StopIsOver, Free, ctxVars, queryVars, autoVars, histVars
  <1>3. ServerTyped'
    BY DEF ServerTyped, StopIsOver, serverVars
  <1>4. LockHeld'
    BY DEF LockHeld, StopIsOver, Free, queryVars
  <1>5. QueriesFresh'
    BY DEF QueriesFresh, StopIsOver, Free, queryVars, histVars
  <1>6. StreamsFresh'
    BY DEF StreamsFresh, ServerTyped, StopIsOver, queryVars
  <1>7. SpontTasked'
    BY DEF SpontTasked, StopIsOver, ctxVars
  <1>8. TooEarly' \/ OneTask'
    BY <1>1 DEF TooEarly, Raced, OneTask, QueriesFresh, StopIsOver, Free, ctxVars, queryVars
  <1>9. Crossing' \/ AutoWaits'
    <2> SUFFICES ASSUME ~Crossing'
                 PROVE  AutoWaits'
      OBVIOUS
    <2>1. OneTask /\ AutoWaits
      BY <1>1 DEF TooEarly, Crossing, Raced
    <2>2. QED
      BY <1>1, <2>1 DEF Crossing, Raced, AutoWaits, StopIsOver, Free, ctxVars, queryVars, autoVars
  <1>10. Ignoring' \/ (HandleFollows' /\ MarkersFine')
    <2> SUFFICES ASSUME ~Ignoring'
                 PROVE  HandleFollows' /\ MarkersFine'
      OBVIOUS
    <2>1. OneTask /\ AutoWaits /\ HandleFollows /\ MarkersFine
      BY <1>1 DEF TooEarly, Crossing, Ignoring, Raced
    <2>2. HandleFollows'
      BY <1>1, <2>1 DEF HandleFollows, StopIsOver, ctxVars, queryVars, autoVars
    <2>3. MarkersFine'
      BY <1>1, <2>1 DEF MarkersFine, StopIsOver, queryVars, autoVars, histVars
    <2>4. QED
      BY <2>2, <2>3
  <1>11. QED
    BY <1>2, <1>3, <1>4, <1>5, <1>6, <1>7, <1>8, <1>9, <1>10

LEMMA RequestStopKeeps ==
    ASSUME TurnInv, RequestStop
    PROVE  TurnInv'
  <1> USE DEF TurnInv
  <1>1. \A r : Raced(r) => Raced(r)'
    BY DEF Raced, RequestStop, histVars
  <1>2. CtxTyped'
    BY DEF CtxTyped, RequestStop, At, ctxVars, queryVars, autoVars, histVars
  <1>3. ServerTyped'
    <2>1. UNCHANGED <<h, server, out>>
      BY DEF RequestStop
    <2>2. CASE h.alive /\ h.turn # None
      <3>1. [type |-> "stop", turn |-> h.turn] \in Request
        BY <2>2 DEF ServerTyped, Handles, Request
      <3>2. inp' = Append(inp, [type |-> "stop", turn |-> h.turn])
        BY <2>2 DEF RequestStop
      <3>3. QED
        BY <2>1, <3>1, <3>2 DEF ServerTyped
    <2>3. CASE ~(h.alive /\ h.turn # None)
      BY <2>1, <2>3 DEF RequestStop, ServerTyped
    <2>4. QED
      BY <2>2, <2>3
  <1>4. LockHeld'
    BY TurnAssumption, LifecycleAssumption DEF LockHeld, Turns, RequestStop, At, queryVars
  <1>5. QueriesFresh'
    BY DEF QueriesFresh, RequestStop, At, queryVars, histVars
  <1>6. StreamsFresh'
    BY DEF StreamsFresh, ServerTyped, RequestStop, queryVars
  <1>7. SpontTasked'
    BY DEF SpontTasked, RequestStop, ctxVars
  <1>8. TooEarly' \/ OneTask'
    BY <1>1
       DEF TooEarly, Raced, OneTask, QueriesFresh, RequestStop, At, ctxVars, queryVars, histVars
  <1>9. Crossing' \/ AutoWaits'
    <2> SUFFICES ASSUME ~Crossing'
                 PROVE  AutoWaits'
      OBVIOUS
    <2>1. OneTask /\ AutoWaits
      BY <1>1 DEF TooEarly, Crossing, Raced
    <2>2. QED
      BY <1>1, <2>1 DEF Crossing, Raced, AutoWaits, RequestStop, At, ctxVars, queryVars, autoVars
  <1>10. Ignoring' \/ (HandleFollows' /\ MarkersFine')
    <2> SUFFICES ASSUME ~Ignoring'
                 PROVE  HandleFollows' /\ MarkersFine'
      OBVIOUS
    <2>1. OneTask /\ AutoWaits /\ HandleFollows /\ MarkersFine
      BY <1>1 DEF TooEarly, Crossing, Ignoring, Raced
    <2>2. HandleFollows'
      BY <1>1, <2>1 DEF HandleFollows, RequestStop, ctxVars, queryVars, autoVars
    <2>3. MarkersFine'
      BY <1>1, <2>1 DEF MarkersFine, RequestStop, queryVars, autoVars, histVars
    <2>4. QED
      BY <2>2, <2>3
  <1>11. QED
    BY <1>2, <1>3, <1>4, <1>5, <1>6, <1>7, <1>8, <1>9, <1>10

LEMMA FinishStopKeeps ==
    ASSUME TurnInv, FinishStop
    PROVE  TurnInv'
  <1> USE DEF TurnInv
  <1>1. \A r : Raced(r) => Raced(r)'
    BY DEF Raced, FinishStop, histVars
  <1>2. CtxTyped'
    BY DEF CtxTyped, FinishStop, Free, queryVars, autoVars, histVars
  <1>3. ServerTyped'
    BY DEF ServerTyped, FinishStop, serverVars
  <1>4. LockHeld'
    BY TurnAssumption, LifecycleAssumption DEF LockHeld, Turns, FinishStop, Free, queryVars
  <1>5. QueriesFresh'
    BY DEF QueriesFresh, FinishStop, Free, queryVars, histVars
  <1>6. StreamsFresh'
    BY DEF StreamsFresh, ServerTyped, FinishStop, queryVars
  <1>7. SpontTasked'
    BY DEF SpontTasked, FinishStop
  <1>8. TooEarly' \/ OneTask'
    BY <1>1 DEF TooEarly, Raced, OneTask, QueriesFresh, FinishStop, Free, queryVars
  <1>9. Crossing' \/ AutoWaits'
    <2> SUFFICES ASSUME ~Crossing'
                 PROVE  AutoWaits'
      OBVIOUS
    <2>1. OneTask /\ AutoWaits
      BY <1>1 DEF TooEarly, Crossing, Raced
    <2>2. state' = "idle" => spont = None /\ \A q \in Queries : turnAt[q] \notin Working
      <3>1. CASE state' = state
        BY <2>1, <3>1 DEF AutoWaits
      <3>2. CASE turnTask = None /\ spTask = None
        BY <2>1, <3>2, TurnAssumption DEF OneTask, SpontTasked, Live
      <3>3. QED
        BY <3>1, <3>2 DEF FinishStop
    <2>3. lane'.at # "claimed"
      BY DEF FinishStop, Free
    <2>4. UNCHANGED <<spont, turnAt, event, active, h, follower, awaited>>
      BY DEF FinishStop, queryVars, autoVars
    <2>5. QED
      BY <2>1, <2>2, <2>3, <2>4 DEF AutoWaits
  <1>10. Ignoring' \/ (HandleFollows' /\ MarkersFine')
    <2> SUFFICES ASSUME ~Ignoring'
                 PROVE  HandleFollows' /\ MarkersFine'
      OBVIOUS
    <2>1. OneTask /\ AutoWaits /\ HandleFollows /\ MarkersFine
      BY <1>1 DEF TooEarly, Crossing, Ignoring, Raced
    <2>2. HandleFollows'
      BY <1>1, <2>1 DEF HandleFollows, FinishStop, queryVars, autoVars
    <2>3. MarkersFine'
      BY <1>1, <2>1 DEF MarkersFine, FinishStop, queryVars, autoVars, histVars
    <2>4. QED
      BY <2>2, <2>3
  <1>11. QED
    BY <1>2, <1>3, <1>4, <1>5, <1>6, <1>7, <1>8, <1>9, <1>10

LEMMA EnterLaunchKeeps ==
    ASSUME TurnInv, NEW q \in Queries, EnterLaunch(q)
    PROVE  TurnInv'
  <1> USE DEF TurnInv
  <1>1. \A r : Raced(r) => Raced(r)'
    BY DEF Raced, EnterLaunch
  <1>2. CtxTyped'
    BY DEF CtxTyped, Live, Working, Turns, EnterLaunch, Step, ctxVars, autoVars
  <1>3. ServerTyped'
    BY DEF ServerTyped, EnterLaunch, serverVars
  <1>4. LockHeld'
    BY TurnAssumption, LifecycleAssumption
       DEF LockHeld, CtxTyped, InWindow, Turns, EnterLaunch, Step
  <1>5. QueriesFresh'
    BY DEF QueriesFresh, EnterLaunch, Step
  <1>6. StreamsFresh'
    BY DEF StreamsFresh, ServerTyped, Streaming, EnterLaunch, Step
  <1>7. SpontTasked'
    BY DEF SpontTasked, EnterLaunch, ctxVars
  <1>8. TooEarly' \/ OneTask'
    BY <1>1 DEF TooEarly, Raced, OneTask, QueriesFresh, Live, Working, EnterLaunch, Step, ctxVars
  <1>9. Crossing' \/ AutoWaits'
    <2> SUFFICES ASSUME ~Crossing'
                 PROVE  AutoWaits'
      OBVIOUS
    <2>1. OneTask /\ AutoWaits
      BY <1>1 DEF TooEarly, Crossing, Raced
    <2>2. QED
      BY <1>1, <2>1
         DEF Crossing, Raced, AutoWaits, Live, Working, EnterLaunch, Step, ctxVars, autoVars
  <1>10. Ignoring' \/ (HandleFollows' /\ MarkersFine')
    <2> SUFFICES ASSUME ~Ignoring'
                 PROVE  HandleFollows' /\ MarkersFine'
      OBVIOUS
    <2>1. OneTask /\ AutoWaits /\ HandleFollows /\ MarkersFine
      BY <1>1 DEF TooEarly, Crossing, Ignoring, Raced
    <2>2. HandleFollows'
      BY <1>1, <2>1 DEF HandleFollows, Streaming, EnterLaunch, Step, ctxVars, autoVars
    <2>3. MarkersFine'
      BY <1>1, <2>1 DEF MarkersFine, CtxTyped, Marked, Streaming, EnterLaunch, Step, autoVars
    <2>4. QED
      BY <2>2, <2>3
  <1>11. QED
    BY <1>2, <1>3, <1>4, <1>5, <1>6, <1>7, <1>8, <1>9, <1>10

LEMMA GiveUpKeeps ==
    ASSUME TurnInv, NEW q \in Queries, GiveUp(q)
    PROVE  TurnInv'
  <1> USE DEF TurnInv
  <1>1. \A r : Raced(r) => Raced(r)'
    BY DEF Raced, GiveUp
  <1>2. CtxTyped'
    BY DEF CtxTyped, Live, Working, GiveUp, Step, ctxVars, laneVars, autoVars
  <1>3. ServerTyped'
    BY DEF ServerTyped, GiveUp, serverVars
  <1>4. LockHeld'
    BY DEF LockHeld, InWindow, GiveUp, Step, laneVars
  <1>5. QueriesFresh'
    BY DEF QueriesFresh, GiveUp, Step, laneVars
  <1>6. StreamsFresh'
    BY DEF StreamsFresh, ServerTyped, Streaming, GiveUp, Step
  <1>7. SpontTasked'
    BY DEF SpontTasked, GiveUp, ctxVars
  <1>8. TooEarly' \/ OneTask'
    BY <1>1
       DEF TooEarly, Raced, OneTask, QueriesFresh, Live, Working, GiveUp, Step, ctxVars, laneVars
  <1>9. Crossing' \/ AutoWaits'
    <2> SUFFICES ASSUME ~Crossing'
                 PROVE  AutoWaits'
      OBVIOUS
    <2>1. OneTask /\ AutoWaits
      BY <1>1 DEF TooEarly, Crossing, Raced
    <2>2. QED
      BY <1>1, <2>1
         DEF Crossing, Raced, AutoWaits, Live, Working, GiveUp, Step, ctxVars, laneVars, autoVars
  <1>10. Ignoring' \/ (HandleFollows' /\ MarkersFine')
    <2> SUFFICES ASSUME ~Ignoring'
                 PROVE  HandleFollows' /\ MarkersFine'
      OBVIOUS
    <2>1. OneTask /\ AutoWaits /\ HandleFollows /\ MarkersFine
      BY <1>1 DEF TooEarly, Crossing, Ignoring, Raced
    <2>2. HandleFollows'
      BY <1>1, <2>1 DEF HandleFollows, Streaming, GiveUp, Step, ctxVars, autoVars
    <2>3. MarkersFine'
      BY <1>1, <2>1 DEF MarkersFine, GiveUp, Step, autoVars
    <2>4. QED
      BY <2>2, <2>3
  <1>11. QED
    BY <1>2, <1>3, <1>4, <1>5, <1>6, <1>7, <1>8, <1>9, <1>10

LEMMA StartTurnKeeps ==
    ASSUME TurnInv, NEW q \in Queries, StartTurn(q)
    PROVE  TurnInv'
  <1> USE DEF TurnInv
  <1>1. \A r : Raced(r) => Raced(r)'
    BY DEF Raced, StartTurn, Stopping, laneVars, histVars
  <1>2. CtxTyped'
    BY DEF CtxTyped, Live, Working, StartTurn, Stopping, ctxVars, laneVars, autoVars, histVars
  <1>3. ServerTyped'
    <2>1. UNCHANGED <<server, out>> /\ [type |-> "start", turn |-> q] \in Request
      BY DEF StartTurn, Request, Turns
    <2>2. \/ inp' = inp /\ h' = h
          \/ inp' = Append(inp, [type |-> "start", turn |-> q]) /\ h' = Queried(h, q)
      BY DEF StartTurn
    <2>3. QED
      BY <2>1, <2>2, QueriedDoes DEF ServerTyped
  <1>4. LockHeld'
    BY DEF LockHeld, CtxTyped, InWindow, StartTurn, Stopping, laneVars, histVars
  <1>5. QueriesFresh'
    BY DEF QueriesFresh, CtxTyped, StartTurn, Stopping, laneVars, histVars
  <1>6. StreamsFresh'
    BY QueriedDoes
       DEF StreamsFresh, ServerTyped, Handles, CtxTyped, Streaming, StartTurn, Stopping, ctxVars,
           laneVars, autoVars, histVars
  <1>7. SpontTasked'
    BY DEF SpontTasked, StartTurn, Stopping, ctxVars
  <1>8. TooEarly' \/ OneTask'
    BY <1>1
       DEF TooEarly, Raced, OneTask, CtxTyped, QueriesFresh, Live, Working, StartTurn, Stopping,
           ctxVars, laneVars, histVars
  <1>9. Crossing' \/ AutoWaits'
    <2> SUFFICES ASSUME ~Crossing'
                 PROVE  AutoWaits'
      OBVIOUS
    <2>1. OneTask /\ AutoWaits
      BY <1>1 DEF TooEarly, Crossing, Raced
    <2>2. QED
      BY <1>1, <2>1
         DEF Crossing, Raced, AutoWaits, CtxTyped, Live, StartTurn, Stopping, ctxVars, laneVars,
             autoVars, histVars
  <1>10. Ignoring' \/ (HandleFollows' /\ MarkersFine')
    <2> SUFFICES ASSUME ~Ignoring'
                 PROVE  HandleFollows' /\ MarkersFine'
      OBVIOUS
    <2>1. OneTask /\ AutoWaits /\ HandleFollows /\ MarkersFine
      BY <1>1 DEF TooEarly, Crossing, Ignoring, Raced
    <2>2. HandleFollows'
      BY <1>1, <2>1, TurnAssumption, LifecycleAssumption, QueriedDoes
         DEF HandleFollows, AutoWaits, OneTask, ServerTyped, CtxTyped, StreamsFresh, Streaming,
             Live, Working, Following, StartTurn, Stopping, ctxVars, laneVars, histVars
    <2>3. MarkersFine'
      BY <1>1, <2>1
         DEF MarkersFine, CtxTyped, Marked, Streaming, StartTurn, Stopping, laneVars, autoVars,
             histVars
    <2>4. QED
      BY <2>2, <2>3
  <1>11. QED
    BY <1>2, <1>3, <1>4, <1>5, <1>6, <1>7, <1>8, <1>9, <1>10

LEMMA ReviveKeeps ==
    ASSUME TurnInv, NEW q \in Queries, Revive(q)
    PROVE  TurnInv'
  <1> USE DEF TurnInv
  <1>0. /\ h' \in Handles /\ h'.alive /\ h'.active /\ h'.mq = q /\ h'.sq = h.sq
        /\ \A x \in Queries : x # h.mq => h'.managed[x] = h.managed[x]
        /\ \A x \in Turns : x # h.sq => h'.auto[x] = h.auto[x]
    <2> DEFINE d == Disconnected(h)
               e == [d EXCEPT !.alive = TRUE]
    <2>1. /\ d \in Handles /\ d.sq = h.sq
          /\ \A x \in Queries : x # h.mq => d.managed[x] = h.managed[x]
          /\ \A x \in Turns : x # h.sq => d.auto[x] = h.auto[x]
      BY DisconnectedDoes DEF ServerTyped
    <2> HIDE DEF d
    <2>2. e \in Handles /\ e.alive /\ e.sq = d.sq /\ e.managed = d.managed /\ e.auto = d.auto
      BY <2>1 DEF Handles
    <2>3. h' = Queried(e, q)
      BY DEF Revive, d
    <2> HIDE DEF e
    <2>4. QED
      BY <2>1, <2>2, <2>3, QueriedDoes
  <1>1. \A r : Raced(r) => Raced(r)'
    BY DEF Raced, Revive, laneVars, histVars
  <1>2. CtxTyped'
    BY DEF CtxTyped, Live, Working, Revive, Step, ctxVars, laneVars, autoVars, histVars
  <1>3. ServerTyped'
    <2>1. inp' = <<[type |-> "start", turn |-> q]>> /\ out' = <<>> /\ server' = None
      BY DEF Revive
    <2>2. [type |-> "start", turn |-> q] \in Request
      BY DEF Request, Turns
    <2>3. inp' \in Seq(Request) /\ out' \in Seq(Report) /\ DOMAIN out' = {}
      BY <2>1, <2>2
    <2>4. QED
      BY <1>0, <2>1, <2>3 DEF ServerTyped
  <1>4. LockHeld'
    BY DEF LockHeld, InWindow, Revive, Step, laneVars, histVars
  <1>5. QueriesFresh'
    BY DEF QueriesFresh, Revive, Step, laneVars, histVars
  <1>6. StreamsFresh'
    <2>1. \A x \in Queries : x # q => turnAt'[x] = turnAt[x]
      BY DEF Revive, Step
    <2>2. turnAt'[q] = "requested"
      BY DEF Revive, Step, CtxTyped
    <2>3. QED
      BY <1>0, <2>1, <2>2 DEF StreamsFresh, Streaming
  <1>7. SpontTasked'
    BY DEF SpontTasked, Revive, ctxVars
  <1>8. TooEarly' \/ OneTask'
    BY <1>1
       DEF TooEarly, Raced, OneTask, QueriesFresh, Live, Working, Revive, Step, ctxVars, laneVars,
           histVars
  <1>9. Crossing' \/ AutoWaits'
    <2> SUFFICES ASSUME ~Crossing'
                 PROVE  AutoWaits'
      OBVIOUS
    <2>1. OneTask /\ AutoWaits
      BY <1>1 DEF TooEarly, Crossing, Raced
    <2>2. QED
      BY <1>1, <2>1
         DEF Crossing, Raced, AutoWaits, OneTask, CtxTyped, Live, Revive, Step, ctxVars, laneVars,
             autoVars, histVars
  <1>10. Ignoring' \/ (HandleFollows' /\ MarkersFine')
    <2> SUFFICES ASSUME ~Ignoring'
                 PROVE  HandleFollows' /\ MarkersFine'
      OBVIOUS
    <2>1. OneTask /\ AutoWaits /\ HandleFollows /\ MarkersFine
      BY <1>1 DEF TooEarly, Crossing, Ignoring, Raced
    <2>2. HandleFollows'
      <3>1. \A x \in Queries : x # q => turnAt'[x] = turnAt[x]
        BY DEF Revive, Step
      <3>2. turnAt'[q] = "requested" /\ turnAt[q] = "reviving" /\ spont' = spont
        BY DEF Revive, Step, CtxTyped, ctxVars
      <3>3. spont = None
        BY <2>1, <3>2 DEF AutoWaits
      <3>4. h.mq # q /\ h.managed[q] = "open"
        BY <3>2 DEF StreamsFresh, Streaming
      <3>5. \A x \in Queries : x # q => turnAt[x] \notin Live
        BY <2>1, <3>2 DEF OneTask, Live, Working
      <3>6. h.mq # None => h.mq \notin Queries
        BY <3>2, <3>4, <3>5 DEF StreamsFresh, Streaming, Live, Working
      <3>7. h'.managed[q] = "open"
        BY <1>0, <3>4
      <3>8. QED
        BY <1>0, <3>1, <3>2, <3>3, <3>5, <3>7 DEF HandleFollows, Streaming, Live, Working
    <2>3. MarkersFine'
      BY <1>1, <2>1 DEF MarkersFine, Marked, Streaming, Revive, Step, laneVars, autoVars, histVars
    <2>4. QED
      BY <2>2, <2>3
  <1>11. QED
    BY <1>2, <1>3, <1>4, <1>5, <1>6, <1>7, <1>8, <1>9, <1>10

LEMMA AcceptKeeps ==
    ASSUME TurnInv, NEW q \in Queries, Accept(q)
    PROVE  TurnInv'
  <1> USE DEF TurnInv
  <1>1. \A r : Raced(r) => Raced(r)'
    BY DEF Raced, Accept
  <1>2. CtxTyped'
    BY DEF CtxTyped, Live, Working, Accept, Step, ctxVars, laneVars, autoVars
  <1>3. ServerTyped'
    BY AcceptedDoes DEF ServerTyped, Accept, serverVars
  <1>4. LockHeld'
    BY DEF LockHeld, InWindow, Accept, Step, laneVars
  <1>5. QueriesFresh'
    BY DEF QueriesFresh, Accept, Step, laneVars
  <1>6. StreamsFresh'
    BY LifecycleAssumption, AcceptedDoes DEF StreamsFresh, ServerTyped, Streaming, Accept, Step
  <1>7. SpontTasked'
    BY DEF SpontTasked, Accept, ctxVars
  <1>8. TooEarly' \/ OneTask'
    BY <1>1
       DEF TooEarly, Raced, OneTask, QueriesFresh, Live, Working, Accept, Step, ctxVars, laneVars
  <1>9. Crossing' \/ AutoWaits'
    <2> SUFFICES ASSUME ~Crossing'
                 PROVE  AutoWaits'
      OBVIOUS
    <2>1. OneTask /\ AutoWaits
      BY <1>1 DEF TooEarly, Crossing, Raced
    <2>2. QED
      BY <1>1, <2>1
         DEF Crossing, Raced, AutoWaits, OneTask, Live, Working, Accept, Step, ctxVars, laneVars,
             autoVars
  <1>10. Ignoring' \/ (HandleFollows' /\ MarkersFine')
    <2> SUFFICES ASSUME ~Ignoring'
                 PROVE  HandleFollows' /\ MarkersFine'
      OBVIOUS
    <2>1. OneTask /\ AutoWaits /\ HandleFollows /\ MarkersFine
      BY <1>1 DEF TooEarly, Crossing, Ignoring, Raced
    <2>2. HandleFollows'
      <3>1. \A x \in Queries : x # q => turnAt'[x] = turnAt[x]
        BY DEF Accept, Step
      <3>2. turnAt'[q] = "bound" /\ turnAt[q] = "accepted" /\ UNCHANGED <<spont, follower>>
        BY DEF Accept, Step, CtxTyped, ctxVars, autoVars
      <3>3. /\ h'.mq = h.mq /\ h'.active = h.active /\ h'.alive = h.alive /\ h'.sq = h.sq
            /\ h'.managed = h.managed /\ h'.auto = h.auto
        BY AcceptedDoes DEF Accept, ServerTyped
      <3>4. QED
        BY <2>1, <3>1, <3>2, <3>3 DEF HandleFollows, Streaming
    <2>3. MarkersFine'
      BY <1>1, <2>1 DEF MarkersFine, Marked, Streaming, Accept, Step, autoVars
    <2>4. QED
      BY <2>2, <2>3
  <1>11. QED
    BY <1>2, <1>3, <1>4, <1>5, <1>6, <1>7, <1>8, <1>9, <1>10

LEMMA RefuseKeeps ==
    ASSUME TurnInv, NEW q \in Queries, Refuse(q)
    PROVE  TurnInv'
  <1> USE DEF TurnInv
  <1>1. \A r : Raced(r) => Raced(r)'
    BY DEF Raced, Refuse
  <1>2. CtxTyped'
    BY DEF CtxTyped, Live, Working, Refuse, Step, ctxVars, autoVars
  <1>3. ServerTyped'
    BY RefusedDoes DEF ServerTyped, Refuse, serverVars
  <1>4. LockHeld'
    BY TurnAssumption, LifecycleAssumption DEF LockHeld, CtxTyped, InWindow, Turns, Refuse, Step
  <1>5. QueriesFresh'
    BY DEF QueriesFresh, Refuse, Step
  <1>6. StreamsFresh'
    BY TurnAssumption, RefusedDoes DEF StreamsFresh, ServerTyped, Refuse, Step
  <1>7. SpontTasked'
    BY DEF SpontTasked, Refuse, ctxVars
  <1>8. TooEarly' \/ OneTask'
    BY <1>1 DEF TooEarly, Raced, OneTask, QueriesFresh, Live, Working, Refuse, Step, ctxVars
  <1>9. Crossing' \/ AutoWaits'
    <2> SUFFICES ASSUME ~Crossing'
                 PROVE  AutoWaits'
      OBVIOUS
    <2>1. OneTask /\ AutoWaits
      BY <1>1 DEF TooEarly, Crossing, Raced
    <2>2. QED
      BY <1>1, <2>1
         DEF Crossing, Raced, AutoWaits, OneTask, Live, Working, Refuse, Step, ctxVars, autoVars
  <1>10. Ignoring' \/ (HandleFollows' /\ MarkersFine')
    <2> SUFFICES ASSUME ~Ignoring'
                 PROVE  HandleFollows' /\ MarkersFine'
      OBVIOUS
    <2>1. OneTask /\ AutoWaits /\ HandleFollows /\ MarkersFine
      BY <1>1 DEF TooEarly, Crossing, Ignoring, Raced
    <2>2. HandleFollows'
      BY <1>1, <2>1, RefusedDoes
         DEF HandleFollows, AutoWaits, ServerTyped, StreamsFresh, Live, Working, Refuse, Step,
             ctxVars
    <2>3. MarkersFine'
      BY <1>1, <2>1 DEF MarkersFine, Refuse, Step, autoVars
    <2>4. QED
      BY <2>2, <2>3
  <1>11. QED
    BY <1>2, <1>3, <1>4, <1>5, <1>6, <1>7, <1>8, <1>9, <1>10

LEMMA LeaveLaunchKeeps ==
    ASSUME TurnInv, NEW q \in Queries, LeaveLaunch(q)
    PROVE  TurnInv'
  <1> USE DEF TurnInv
  <1>1. \A r : Raced(r) => Raced(r)'
    BY DEF Raced, LeaveLaunch, histVars
  <1>2. CtxTyped'
    BY DEF CtxTyped, Live, Working, LeaveLaunch, Step, ctxVars, autoVars, histVars
  <1>3. ServerTyped'
    BY DEF ServerTyped, LeaveLaunch, serverVars
  <1>4. LockHeld'
    BY TurnAssumption, LifecycleAssumption
       DEF LockHeld, CtxTyped, InWindow, Turns, LeaveLaunch, Step
  <1>5. QueriesFresh'
    BY DEF QueriesFresh, LeaveLaunch, Step, histVars
  <1>6. StreamsFresh'
    BY DEF StreamsFresh, ServerTyped, Streaming, LeaveLaunch, Step
  <1>7. SpontTasked'
    BY DEF SpontTasked, LeaveLaunch, ctxVars
  <1>8. TooEarly' \/ OneTask'
    BY <1>1
       DEF TooEarly, Raced, OneTask, QueriesFresh, Live, Working, LeaveLaunch, Step, ctxVars,
           histVars
  <1>9. Crossing' \/ AutoWaits'
    <2> SUFFICES ASSUME ~Crossing'
                 PROVE  AutoWaits'
      OBVIOUS
    <2>1. OneTask /\ AutoWaits
      BY <1>1 DEF TooEarly, Crossing, Raced
    <2>2. QED
      BY <1>1, <2>1
         DEF Crossing, Raced, AutoWaits, Live, Working, LeaveLaunch, Step, ctxVars, autoVars
  <1>10. Ignoring' \/ (HandleFollows' /\ MarkersFine')
    <2> SUFFICES ASSUME ~Ignoring'
                 PROVE  HandleFollows' /\ MarkersFine'
      OBVIOUS
    <2>1. OneTask /\ AutoWaits /\ HandleFollows /\ MarkersFine
      BY <1>1 DEF TooEarly, Crossing, Ignoring, Raced
    <2>2. HandleFollows'
      BY <1>1, <2>1 DEF HandleFollows, Streaming, LeaveLaunch, Step, ctxVars, autoVars
    <2>3. MarkersFine'
      BY <1>1, <2>1 DEF MarkersFine, Marked, Streaming, LeaveLaunch, Step, autoVars, histVars
    <2>4. QED
      BY <2>2, <2>3
  <1>11. QED
    BY <1>2, <1>3, <1>4, <1>5, <1>6, <1>7, <1>8, <1>9, <1>10

LEMMA AttachKeeps ==
    ASSUME TurnInv, NEW q \in Queries, Attach(q)
    PROVE  TurnInv'
  <1> USE DEF TurnInv
  <1>1. \A r : Raced(r) => Raced(r)'
    BY DEF Raced, Attach
  <1>2. CtxTyped'
    BY DEF CtxTyped, Live, Working, Attach, ctxVars, laneVars, autoVars
  <1>3. ServerTyped'
    BY DEF ServerTyped, Attach, serverVars
  <1>4. LockHeld'
    BY DEF LockHeld, CtxTyped, InWindow, Attach, laneVars
  <1>5. QueriesFresh'
    BY DEF QueriesFresh, CtxTyped, Attach, laneVars
  <1>6. StreamsFresh'
    BY DEF StreamsFresh, ServerTyped, CtxTyped, Streaming, Attach
  <1>7. SpontTasked'
    BY DEF SpontTasked, Attach, ctxVars
  <1>8. TooEarly' \/ OneTask'
    BY <1>1
       DEF TooEarly, Raced, OneTask, CtxTyped, QueriesFresh, Live, Working, Attach, ctxVars,
           laneVars
  <1>9. Crossing' \/ AutoWaits'
    <2> SUFFICES ASSUME ~Crossing'
                 PROVE  AutoWaits'
      OBVIOUS
    <2>1. OneTask /\ AutoWaits
      BY <1>1 DEF TooEarly, Crossing, Raced
    <2>2. QED
      BY <1>1, <2>1
         DEF Crossing, Raced, AutoWaits, CtxTyped, Live, Attach, ctxVars, laneVars, autoVars
  <1>10. Ignoring' \/ (HandleFollows' /\ MarkersFine')
    <2> SUFFICES ASSUME ~Ignoring'
                 PROVE  HandleFollows' /\ MarkersFine'
      OBVIOUS
    <2>1. OneTask /\ AutoWaits /\ HandleFollows /\ MarkersFine
      BY <1>1 DEF TooEarly, Crossing, Ignoring, Raced
    <2>2. HandleFollows'
      BY <1>1, <2>1 DEF HandleFollows, CtxTyped, Streaming, Attach, ctxVars, autoVars
    <2>3. MarkersFine'
      BY <1>1, <2>1 DEF MarkersFine, CtxTyped, Marked, Streaming, Attach, autoVars
    <2>4. QED
      BY <2>2, <2>3
  <1>11. QED
    BY <1>2, <1>3, <1>4, <1>5, <1>6, <1>7, <1>8, <1>9, <1>10

LEMMA ConsumeKeeps ==
    ASSUME TurnInv, NEW q \in Queries, Consume(q)
    PROVE  TurnInv'
  <1> USE DEF TurnInv
  <1>1. \A r : Raced(r) => Raced(r)'
    BY DEF Raced, Consume
  <1>2. CtxTyped'
    BY DEF CtxTyped, Live, Working, Consume, Step, ctxVars, laneVars, autoVars
  <1>3. ServerTyped'
    BY ReceivedDoes DEF ServerTyped, Consume, serverVars
  <1>4. LockHeld'
    BY DEF LockHeld, InWindow, Consume, Step, laneVars
  <1>5. QueriesFresh'
    BY DEF QueriesFresh, Consume, Step, laneVars
  <1>6. StreamsFresh'
    BY TurnAssumption, ReceivedDoes DEF StreamsFresh, ServerTyped, Consume, Step
  <1>7. SpontTasked'
    BY DEF SpontTasked, Consume, ctxVars
  <1>8. TooEarly' \/ OneTask'
    BY <1>1
       DEF TooEarly, Raced, OneTask, QueriesFresh, Live, Working, Consume, Step, ctxVars, laneVars
  <1>9. Crossing' \/ AutoWaits'
    <2> SUFFICES ASSUME ~Crossing'
                 PROVE  AutoWaits'
      OBVIOUS
    <2>1. OneTask /\ AutoWaits
      BY <1>1 DEF TooEarly, Crossing, Raced
    <2>2. QED
      BY <1>1, <2>1
         DEF Crossing, Raced, AutoWaits, OneTask, Live, Working, Consume, Step, ctxVars, laneVars,
             autoVars
  <1>10. Ignoring' \/ (HandleFollows' /\ MarkersFine')
    <2> SUFFICES ASSUME ~Ignoring'
                 PROVE  HandleFollows' /\ MarkersFine'
      OBVIOUS
    <2>1. OneTask /\ AutoWaits /\ HandleFollows /\ MarkersFine
      BY <1>1 DEF TooEarly, Crossing, Ignoring, Raced
    <2>2. HandleFollows'
      BY <1>1, <2>1, ReceivedDoes
         DEF HandleFollows, ServerTyped, StreamsFresh, Streaming, Live, Consume, Step, ctxVars,
             autoVars
    <2>3. MarkersFine'
      BY <1>1, <2>1 DEF MarkersFine, Consume, Step, autoVars
    <2>4. QED
      BY <2>2, <2>3
  <1>11. QED
    BY <1>2, <1>3, <1>4, <1>5, <1>6, <1>7, <1>8, <1>9, <1>10

LEMMA TimeOutKeeps ==
    ASSUME TurnInv, NEW q \in Queries, TimeOut(q)
    PROVE  TurnInv'
  <1> USE DEF TurnInv
  <1>1. \A r : Raced(r) => Raced(r)'
    BY DEF Raced, TimeOut, Stopping
  <1>2. CtxTyped'
    BY DEF CtxTyped, Live, Working, TimeOut, Step, At, Stopping, ctxVars, autoVars
  <1>3. ServerTyped'
    BY DisconnectedDoes DEF ServerTyped, TimeOut, Stopping
  <1>4. LockHeld'
    BY DEF LockHeld, InWindow, TimeOut, Step, At, Stopping
  <1>5. QueriesFresh'
    BY DEF QueriesFresh, TimeOut, Step, At, Stopping
  <1>6. StreamsFresh'
    <2>1. \A x \in Queries : x # q => turnAt'[x] = turnAt[x]
      BY DEF TimeOut, Step
    <2>2. turnAt'[q] = "reconnecting" /\ h' = Disconnected(h)
      BY DEF TimeOut, Step, CtxTyped
    <2>3. /\ h'.mq = None
          /\ \A x \in Queries : x # h.mq => h'.managed[x] = h.managed[x]
      BY <2>2, DisconnectedDoes DEF ServerTyped
    <2>4. QED
      BY <2>1, <2>2, <2>3, TurnAssumption DEF StreamsFresh, Streaming
  <1>7. SpontTasked'
    BY DEF SpontTasked, TimeOut, Stopping, ctxVars
  <1>8. TooEarly' \/ OneTask'
    BY <1>1
       DEF TooEarly, Raced, OneTask, QueriesFresh, Live, Working, TimeOut, Step, At, Stopping,
           ctxVars
  <1>9. Crossing' \/ AutoWaits'
    <2> SUFFICES ASSUME ~Crossing'
                 PROVE  AutoWaits'
      OBVIOUS
    <2>1. OneTask /\ AutoWaits
      BY <1>1 DEF TooEarly, Crossing, Raced
    <2>2. QED
      BY <1>1, <2>1
         DEF Crossing, Raced, AutoWaits, OneTask, Live, Working, TimeOut, Step, At, Stopping,
             ctxVars, autoVars
  <1>10. Ignoring' \/ (HandleFollows' /\ MarkersFine')
    <2> SUFFICES ASSUME ~Ignoring'
                 PROVE  HandleFollows' /\ MarkersFine'
      OBVIOUS
    <2>1. OneTask /\ AutoWaits /\ HandleFollows /\ MarkersFine
      BY <1>1 DEF TooEarly, Crossing, Ignoring, Raced
    <2>2. HandleFollows'
      BY <1>1, <2>1, DisconnectedDoes
         DEF HandleFollows, ServerTyped, StreamsFresh, TimeOut, Stopping, ctxVars, autoVars
    <2>3. MarkersFine'
      BY <1>1, <2>1 DEF MarkersFine, TimeOut, Step, Stopping, autoVars
    <2>4. QED
      BY <2>2, <2>3
  <1>11. QED
    BY <1>2, <1>3, <1>4, <1>5, <1>6, <1>7, <1>8, <1>9, <1>10

LEMMA ReconnectKeeps ==
    ASSUME TurnInv, NEW q \in Queries, Reconnect(q)
    PROVE  TurnInv'
  <1> USE DEF TurnInv
  <1>1. \A r : Raced(r) => Raced(r)'
    BY DEF Raced, Reconnect, laneVars, histVars
  <1>2. CtxTyped'
    BY DEF CtxTyped, Live, Working, Reconnect, Step, laneVars, autoVars, histVars
  <1>3. ServerTyped'
    <2>1. h' = h \/ h' = [h EXCEPT !.alive = TRUE]
      BY DEF Reconnect
    <2>2. h' \in Handles
      BY <2>1 DEF ServerTyped, Handles
    <2>3. QED
      BY <2>2 DEF ServerTyped, Reconnect
  <1>4. LockHeld'
    BY DEF LockHeld, InWindow, Reconnect, Step, laneVars, histVars
  <1>5. QueriesFresh'
    BY DEF QueriesFresh, Reconnect, Step, laneVars, histVars
  <1>6. StreamsFresh'
    BY DEF StreamsFresh, ServerTyped, Handles, Streaming, Reconnect, Step
  <1>7. SpontTasked'
    BY DEF SpontTasked, Reconnect
  <1>8. TooEarly' \/ OneTask'
    BY <1>1
       DEF TooEarly, Raced, OneTask, QueriesFresh, Live, Working, Reconnect, Step, laneVars,
           histVars
  <1>9. Crossing' \/ AutoWaits'
    <2> SUFFICES ASSUME ~Crossing'
                 PROVE  AutoWaits'
      OBVIOUS
    <2>1. OneTask /\ AutoWaits
      BY <1>1 DEF TooEarly, Crossing, Raced
    <2>2. QED
      BY <1>1, <2>1
         DEF Crossing, Raced, AutoWaits, OneTask, Live, Working, Early, Following, Reconnect,
             Step, laneVars, autoVars, histVars
  <1>10. Ignoring' \/ (HandleFollows' /\ MarkersFine')
    <2> SUFFICES ASSUME ~Ignoring'
                 PROVE  HandleFollows' /\ MarkersFine'
      OBVIOUS
    <2>1. OneTask /\ AutoWaits /\ HandleFollows /\ MarkersFine
      BY <1>1 DEF TooEarly, Crossing, Ignoring, Raced
    <2>2. HandleFollows'
      <3>1. \A x \in Queries : x # q => turnAt'[x] = turnAt[x]
        BY DEF Reconnect, Step
      <3>2. turnAt'[q] = "ending" /\ turnAt[q] = "reconnecting" /\ (spont' = spont \/ spont' = None)
            /\ UNCHANGED follower
        BY DEF Reconnect, Step, CtxTyped, autoVars
      <3>3. ~h.active
        BY <2>1, <3>2 DEF HandleFollows
      <3>4. h'.active = h.active /\ h'.mq = h.mq /\ h'.managed = h.managed /\ h'.sq = h.sq
        BY DEF Reconnect, ServerTyped, Handles
      <3>5. \A x \in Queries : x # q => turnAt[x] # "reconnecting"
        BY <2>1, <3>2 DEF OneTask, Live, Working
      <3>6. QED
        BY <2>1, <3>1, <3>2, <3>3, <3>4, <3>5 DEF HandleFollows
    <2>3. MarkersFine'
      BY <1>1, <2>1
         DEF MarkersFine, Marked, Streaming, Reconnect, Step, laneVars, autoVars, histVars
    <2>4. QED
      BY <2>2, <2>3
  <1>11. QED
    BY <1>2, <1>3, <1>4, <1>5, <1>6, <1>7, <1>8, <1>9, <1>10

LEMMA UnlockKeeps ==
    ASSUME TurnInv, NEW q \in Queries, Unlock(q)
    PROVE  TurnInv'
  <1> USE DEF TurnInv
  <1>1. \A r : Raced(r) => Raced(r)'
    BY DEF Raced, Unlock, histVars
  <1>2. CtxTyped'
    BY DEF CtxTyped, Live, Unlock, Step, autoVars, histVars
  <1>3. ServerTyped'
    BY DEF ServerTyped, Unlock, serverVars
  <1>4. LockHeld'
    BY TurnAssumption, LifecycleAssumption DEF LockHeld, InWindow, Turns, Unlock, Step
  <1>5. QueriesFresh'
    BY DEF QueriesFresh, Unlock, Step, histVars
  <1>6. StreamsFresh'
    BY DEF StreamsFresh, ServerTyped, Streaming, Unlock, Step
  <1>7. SpontTasked'
    BY DEF SpontTasked, Unlock
  <1>8. TooEarly' \/ OneTask'
    BY <1>1 DEF TooEarly, Raced, OneTask, QueriesFresh, Live, Working, Unlock, Step, histVars
  <1>9. Crossing' \/ AutoWaits'
    <2> SUFFICES ASSUME ~Crossing'
                 PROVE  AutoWaits'
      OBVIOUS
    <2>1. OneTask /\ AutoWaits
      BY <1>1 DEF TooEarly, Crossing, Raced
    <2>2. QED
      BY <1>1, <2>1, TurnAssumption
         DEF Crossing, Raced, AutoWaits, OneTask, CtxTyped, Live, Working, Unlock, Step, autoVars
  <1>10. Ignoring' \/ (HandleFollows' /\ MarkersFine')
    <2> SUFFICES ASSUME ~Ignoring'
                 PROVE  HandleFollows' /\ MarkersFine'
      OBVIOUS
    <2>1. OneTask /\ AutoWaits /\ HandleFollows /\ MarkersFine
      BY <1>1 DEF TooEarly, Crossing, Ignoring, Raced
    <2>2. HandleFollows'
      BY <1>1, <2>1 DEF HandleFollows, Streaming, Unlock, Step, autoVars
    <2>3. MarkersFine'
      BY <1>1, <2>1 DEF MarkersFine, Marked, Streaming, Unlock, Step, autoVars, histVars
    <2>4. QED
      BY <2>2, <2>3
  <1>11. QED
    BY <1>2, <1>3, <1>4, <1>5, <1>6, <1>7, <1>8, <1>9, <1>10

LEMMA UnwindKeeps ==
    ASSUME TurnInv, NEW q \in Queries, Unwind(q)
    PROVE  TurnInv'
  <1> USE DEF TurnInv
  <1>1. \A r : Raced(r) => Raced(r)'
    BY DEF Raced, Unwind, laneVars, histVars
  <1>2. CtxTyped'
    BY DEF CtxTyped, Unwind, Step, laneVars, autoVars, histVars
  <1>3. ServerTyped'
    BY DEF ServerTyped, Unwind, serverVars
  <1>4. LockHeld'
    BY DEF LockHeld, InWindow, Unwind, Step, laneVars, histVars
  <1>5. QueriesFresh'
    BY DEF QueriesFresh, Unwind, Step, laneVars, histVars
  <1>6. StreamsFresh'
    BY DEF StreamsFresh, ServerTyped, Streaming, Unwind, Step
  <1>7. SpontTasked'
    BY DEF SpontTasked, Unwind
  <1>8. TooEarly' \/ OneTask'
    BY <1>1, TurnAssumption
       DEF TooEarly, Raced, OneTask, CtxTyped, QueriesFresh, Live, Working, Unwind, Step,
           laneVars, histVars
  <1>9. Crossing' \/ AutoWaits'
    <2> SUFFICES ASSUME ~Crossing'
                 PROVE  AutoWaits'
      OBVIOUS
    <2>1. OneTask /\ AutoWaits
      BY <1>1 DEF TooEarly, Crossing, Raced
    <2>2. QED
      BY <1>1, <2>1, TurnAssumption
         DEF Crossing, Raced, AutoWaits, OneTask, Live, Working, Unwind, Step, laneVars, autoVars,
             histVars
  <1>10. Ignoring' \/ (HandleFollows' /\ MarkersFine')
    <2> SUFFICES ASSUME ~Ignoring'
                 PROVE  HandleFollows' /\ MarkersFine'
      OBVIOUS
    <2>1. OneTask /\ AutoWaits /\ HandleFollows /\ MarkersFine
      BY <1>1 DEF TooEarly, Crossing, Ignoring, Raced
    <2>2. HandleFollows'
      BY <1>1, <2>1 DEF HandleFollows, Streaming, Unwind, Step, autoVars
    <2>3. MarkersFine'
      BY <1>1, <2>1 DEF MarkersFine, Marked, Streaming, Unwind, Step, laneVars, autoVars, histVars
    <2>4. QED
      BY <2>2, <2>3
  <1>11. QED
    BY <1>2, <1>3, <1>4, <1>5, <1>6, <1>7, <1>8, <1>9, <1>10

LEMMA FollowKeeps ==
    ASSUME TurnInv, NEW t \in Turns, Follow(t)
    PROVE  TurnInv'
  <1> USE DEF TurnInv
  <1>1. \A r : Raced(r) => Raced(r)'
    BY DEF Raced, Follow, laneVars, histVars
  <1>2. CtxTyped'
    BY DEF CtxTyped, Early, Following, Follow, Move, ctxVars, laneVars, queryVars, histVars
  <1>3. ServerTyped'
    BY DEF ServerTyped, Follow, serverVars
  <1>4. LockHeld'
    BY DEF LockHeld, Follow, laneVars, queryVars, histVars
  <1>5. QueriesFresh'
    BY DEF QueriesFresh, Follow, laneVars, queryVars, histVars
  <1>6. StreamsFresh'
    BY DEF StreamsFresh, ServerTyped, Follow, queryVars
  <1>7. SpontTasked'
    BY DEF SpontTasked, Follow, ctxVars
  <1>8. TooEarly' \/ OneTask'
    BY <1>1
       DEF TooEarly, Raced, OneTask, QueriesFresh, Follow, ctxVars, laneVars, queryVars, histVars
  <1>9. Crossing' \/ AutoWaits'
    <2> SUFFICES ASSUME ~Crossing'
                 PROVE  AutoWaits'
      OBVIOUS
    <2>1. OneTask /\ AutoWaits
      BY <1>1 DEF TooEarly, Crossing, Raced
    <2>2. QED
      BY <1>1, <2>1
         DEF Crossing, Raced, AutoWaits, OneTask, CtxTyped, Early, Following, Follow, Move,
             ctxVars, laneVars, queryVars, histVars
  <1>10. Ignoring' \/ (HandleFollows' /\ MarkersFine')
    <2> SUFFICES ASSUME ~Ignoring'
                 PROVE  HandleFollows' /\ MarkersFine'
      OBVIOUS
    <2>1. OneTask /\ AutoWaits /\ HandleFollows /\ MarkersFine
      BY <1>1 DEF TooEarly, Crossing, Ignoring, Raced
    <2>2. HandleFollows'
      BY <1>1, <2>1 DEF HandleFollows, CtxTyped, Following, Follow, Move, ctxVars, queryVars
    <2>3. MarkersFine'
      BY <1>1, <2>1 DEF MarkersFine, CtxTyped, Follow, Move, laneVars, queryVars, histVars
    <2>4. QED
      BY <2>2, <2>3
  <1>11. QED
    BY <1>2, <1>3, <1>4, <1>5, <1>6, <1>7, <1>8, <1>9, <1>10

LEMMA AnchorKeeps ==
    ASSUME TurnInv, NEW t \in Turns, Anchor(t)
    PROVE  TurnInv'
  <1> USE DEF TurnInv
  <1>1. \A r : Raced(r) => Raced(r)'
    BY DEF Raced, Anchor, AwaitedIsDone, laneVars, histVars
  <1>2. CtxTyped'
    BY DEF CtxTyped, Following, Anchor, AwaitedIsDone, laneVars, queryVars, histVars
  <1>3. ServerTyped'
    BY DEF ServerTyped, Anchor, AwaitedIsDone, serverVars
  <1>4. LockHeld'
    BY DEF LockHeld, Anchor, AwaitedIsDone, laneVars, queryVars, histVars
  <1>5. QueriesFresh'
    BY DEF QueriesFresh, Anchor, AwaitedIsDone, laneVars, queryVars, histVars
  <1>6. StreamsFresh'
    BY DEF StreamsFresh, ServerTyped, Anchor, AwaitedIsDone, queryVars
  <1>7. SpontTasked'
    BY DEF SpontTasked, Anchor, AwaitedIsDone
  <1>8. TooEarly' \/ OneTask'
    BY <1>1
       DEF TooEarly, Raced, OneTask, QueriesFresh, Anchor, AwaitedIsDone, laneVars, queryVars,
           histVars
  <1>9. Crossing' \/ AutoWaits'
    <2> SUFFICES ASSUME ~Crossing'
                 PROVE  AutoWaits'
      OBVIOUS
    <2>1. OneTask /\ AutoWaits
      BY <1>1 DEF TooEarly, Crossing, Raced
    <2>2. /\ follower[t] = "waiting" /\ AwaitedIsDone(t)
          /\ \A x \in Turns : x # t => follower'[x] = follower[x]
          /\ UNCHANGED <<state, spont, turnAt, lane, event, awaited, h>>
      BY DEF Anchor, CtxTyped, laneVars, queryVars
    <2>3. CASE spont = t
      <3>1. active' = t /\ follower'[t] = "anchoring"
        BY <2>3 DEF Anchor, CtxTyped
      <3>2. spont # None
        BY <2>3, TurnAssumption DEF Turns
      <3>3. \A q \in Queries : turnAt[q] \notin Live
        BY <2>1, <2>2, <2>3, <3>2, TurnAssumption DEF AutoWaits, AwaitedIsDone, Live, Working
      <3>4. lane.at # "claimed"
        BY <2>1, <3>2 DEF AutoWaits
      <3>5. QED
        BY <2>1, <2>2, <2>3, <3>1, <3>2, <3>3, <3>4 DEF AutoWaits, Live, Working
    <2>4. CASE spont # t
      <3>1. active' = active /\ follower'[t] = "done"
        BY <2>4 DEF Anchor, CtxTyped
      <3>2. \A x \in Turns : follower'[x] \in Following => follower[x] \in Following
        BY <2>2, <3>1 DEF Following
      <3>3. spont # None => follower'[spont] = follower[spont]
        BY <2>2, <2>4 DEF CtxTyped
      <3>4. QED
        BY <2>1, <2>2, <3>1, <3>2, <3>3 DEF AutoWaits
    <2>5. QED
      BY <2>3, <2>4
  <1>10. Ignoring' \/ (HandleFollows' /\ MarkersFine')
    <2> SUFFICES ASSUME ~Ignoring'
                 PROVE  HandleFollows' /\ MarkersFine'
      OBVIOUS
    <2>1. OneTask /\ AutoWaits /\ HandleFollows /\ MarkersFine
      BY <1>1 DEF TooEarly, Crossing, Ignoring, Raced
    <2>2. HandleFollows'
      BY <1>1, <2>1 DEF HandleFollows, CtxTyped, Following, Anchor, AwaitedIsDone, queryVars
    <2>3. MarkersFine'
      BY <1>1, <2>1
         DEF MarkersFine, CtxTyped, Anchor, AwaitedIsDone, laneVars, queryVars, histVars
    <2>4. QED
      BY <2>2, <2>3
  <1>11. QED
    BY <1>2, <1>3, <1>4, <1>5, <1>6, <1>7, <1>8, <1>9, <1>10

LEMMA AttachAutoKeeps ==
    ASSUME TurnInv, NEW t \in Turns, AttachAuto(t)
    PROVE  TurnInv'
  <1> USE DEF TurnInv
  <1>1. \A r : Raced(r) => Raced(r)'
    BY DEF Raced, AttachAuto
  <1>2. CtxTyped'
    BY DEF CtxTyped, Following, AttachAuto, ctxVars, laneVars, queryVars
  <1>3. ServerTyped'
    BY DEF ServerTyped, AttachAuto, serverVars
  <1>4. LockHeld'
    BY DEF LockHeld, AttachAuto, laneVars, queryVars
  <1>5. QueriesFresh'
    BY DEF QueriesFresh, AttachAuto, laneVars, queryVars
  <1>6. StreamsFresh'
    BY DEF StreamsFresh, ServerTyped, AttachAuto, queryVars
  <1>7. SpontTasked'
    BY DEF SpontTasked, AttachAuto, ctxVars
  <1>8. TooEarly' \/ OneTask'
    BY <1>1 DEF TooEarly, Raced, OneTask, QueriesFresh, AttachAuto, ctxVars, laneVars, queryVars
  <1>9. Crossing' \/ AutoWaits'
    <2> SUFFICES ASSUME ~Crossing'
                 PROVE  AutoWaits'
      OBVIOUS
    <2>1. OneTask /\ AutoWaits
      BY <1>1 DEF TooEarly, Crossing, Raced
    <2>2. QED
      BY <1>1, <2>1
         DEF Crossing, Raced, AutoWaits, Early, Following, AttachAuto, ctxVars, laneVars,
             queryVars
  <1>10. Ignoring' \/ (HandleFollows' /\ MarkersFine')
    <2> SUFFICES ASSUME ~Ignoring'
                 PROVE  HandleFollows' /\ MarkersFine'
      OBVIOUS
    <2>1. OneTask /\ AutoWaits /\ HandleFollows /\ MarkersFine
      BY <1>1 DEF TooEarly, Crossing, Ignoring, Raced
    <2>2. HandleFollows'
      BY <1>1, <2>1 DEF HandleFollows, AttachAuto, ctxVars, queryVars
    <2>3. MarkersFine'
      <3>1. follower[t] = "anchoring" /\ shown' = shown \cup {t} /\ turnAt' = turnAt
        BY DEF AttachAuto, queryVars
      <3>2. spont = t /\ spont # None
        BY <2>1, <3>1, TurnAssumption DEF AutoWaits, Following, Turns
      <3>3. h.sq = t
        BY <2>1, <3>1, <3>2 DEF HandleFollows
      <3>4. follower' = [follower EXCEPT ![t] = "consuming"]
        BY <3>3 DEF AttachAuto
      <3>5. QED
        BY <2>1, <3>1, <3>4 DEF MarkersFine, CtxTyped
    <2>4. QED
      BY <2>2, <2>3
  <1>11. QED
    BY <1>2, <1>3, <1>4, <1>5, <1>6, <1>7, <1>8, <1>9, <1>10

LEMMA ConsumeAutoKeeps ==
    ASSUME TurnInv, NEW t \in Turns, ConsumeAuto(t)
    PROVE  TurnInv'
  <1> USE DEF TurnInv
  <1>1. \A r : Raced(r) => Raced(r)'
    BY DEF Raced, ConsumeAuto
  <1>2. CtxTyped'
    BY DEF CtxTyped, Following, ConsumeAuto, Move, ctxVars, laneVars, queryVars
  <1>3. ServerTyped'
    BY ReceivedAutoDoes DEF ServerTyped, ConsumeAuto, serverVars
  <1>4. LockHeld'
    BY DEF LockHeld, ConsumeAuto, laneVars, queryVars
  <1>5. QueriesFresh'
    BY DEF QueriesFresh, ConsumeAuto, laneVars, queryVars
  <1>6. StreamsFresh'
    <2>1. h'.mq = h.mq /\ h'.managed = h.managed /\ turnAt' = turnAt
      BY ReceivedAutoDoes DEF ConsumeAuto, ServerTyped, queryVars
    <2>2. QED
      BY <2>1 DEF StreamsFresh
  <1>7. SpontTasked'
    BY DEF SpontTasked, ConsumeAuto, ctxVars
  <1>8. TooEarly' \/ OneTask'
    BY <1>1 DEF TooEarly, Raced, OneTask, QueriesFresh, ConsumeAuto, ctxVars, laneVars, queryVars
  <1>9. Crossing' \/ AutoWaits'
    <2> SUFFICES ASSUME ~Crossing'
                 PROVE  AutoWaits'
      OBVIOUS
    <2>1. AutoWaits
      BY <1>1 DEF Crossing
    <2>2. /\ follower[t] = "consuming" /\ follower'[t] = "finishing"
          /\ \A x \in Turns : x # t => follower'[x] = follower[x]
      BY DEF ConsumeAuto, Move, CtxTyped
    <2>3. h'.alive = h.alive
      BY ReceivedAutoDoes DEF ConsumeAuto, ServerTyped
    <2>4. UNCHANGED <<state, spont, turnAt, lane, active, event, awaited>>
      BY DEF ConsumeAuto, ctxVars, laneVars, queryVars
    <2>5. t = spont
      BY <2>1, <2>2 DEF AutoWaits, Following
    <2>6. \A q \in Queries : turnAt[q] \notin Live
      BY <2>1, <2>2, <2>5, TurnAssumption DEF AutoWaits, Early, Turns
    <2>7. \A x \in Turns : follower'[x] \in Following => spont' = x
      BY <2>1, <2>2, <2>4, <2>5 DEF AutoWaits
    <2>8. QED
      BY <2>1, <2>3, <2>4, <2>6, <2>7 DEF AutoWaits
  <1>10. Ignoring' \/ (HandleFollows' /\ MarkersFine')
    <2> SUFFICES ASSUME ~Ignoring'
                 PROVE  HandleFollows' /\ MarkersFine'
      OBVIOUS
    <2>1. OneTask /\ AutoWaits /\ HandleFollows /\ MarkersFine
      BY <1>1 DEF TooEarly, Crossing, Ignoring, Raced
    <2>2. HandleFollows'
      <3>1. /\ follower[t] = "consuming" /\ follower'[t] = "finishing"
            /\ h.auto[t] # "open"
            /\ \A x \in Turns : x # t => follower'[x] = follower[x]
        BY DEF ConsumeAuto, Move, CtxTyped
      <3>2. /\ h'.mq = h.mq /\ h'.active = h.active /\ h'.alive = h.alive
            /\ h'.managed = h.managed /\ h'.auto = h.auto
        BY ReceivedAutoDoes DEF ConsumeAuto, ServerTyped
      <3>3. UNCHANGED <<spont, turnAt>>
        BY DEF ConsumeAuto, ctxVars, queryVars
      <3>4. t = spont /\ spont # None
        BY <2>1, <3>1, TurnAssumption DEF AutoWaits, Following, Turns
      <3>5. ~h.active
        BY <2>1, <3>1, <3>4 DEF HandleFollows
      <3>6. spont \notin {} /\ follower'[spont] \notin Early \cup {"anchoring", "consuming"}
        BY <3>1, <3>4 DEF Early
      <3>7. QED
        BY <2>1, <3>2, <3>3, <3>5, <3>6 DEF HandleFollows
    <2>3. MarkersFine'
      BY <1>1, <2>1 DEF MarkersFine, ConsumeAuto, Move, queryVars
    <2>4. QED
      BY <2>2, <2>3
  <1>11. QED
    BY <1>2, <1>3, <1>4, <1>5, <1>6, <1>7, <1>8, <1>9, <1>10

LEMMA FinishKeeps ==
    ASSUME TurnInv, NEW t \in Turns, Finish(t)
    PROVE  TurnInv'
  <1> USE DEF TurnInv
  <1>1. \A r : Raced(r) => Raced(r)'
    BY DEF Raced, Finish, laneVars, histVars
  <1>2. CtxTyped'
    BY DEF CtxTyped, Following, Finish, ctxVars, laneVars, queryVars, histVars
  <1>3. ServerTyped'
    BY DEF ServerTyped, Finish, serverVars
  <1>4. LockHeld'
    BY DEF LockHeld, Finish, laneVars, queryVars, histVars
  <1>5. QueriesFresh'
    BY DEF QueriesFresh, Finish, laneVars, queryVars, histVars
  <1>6. StreamsFresh'
    BY DEF StreamsFresh, ServerTyped, Finish, queryVars
  <1>7. SpontTasked'
    BY DEF SpontTasked, Finish, ctxVars
  <1>8. TooEarly' \/ OneTask'
    BY <1>1
       DEF TooEarly, Raced, OneTask, QueriesFresh, Finish, ctxVars, laneVars, queryVars, histVars
  <1>9. Crossing' \/ AutoWaits'
    <2> SUFFICES ASSUME ~Crossing'
                 PROVE  AutoWaits'
      OBVIOUS
    <2>1. OneTask /\ AutoWaits
      BY <1>1 DEF TooEarly, Crossing, Raced
    <2>2. QED
      BY <1>1, <2>1
         DEF Crossing, Raced, AutoWaits, Early, Following, Finish, ctxVars, laneVars, queryVars,
             histVars
  <1>10. Ignoring' \/ (HandleFollows' /\ MarkersFine')
    <2> SUFFICES ASSUME ~Ignoring'
                 PROVE  HandleFollows' /\ MarkersFine'
      OBVIOUS
    <2>1. OneTask /\ AutoWaits /\ HandleFollows /\ MarkersFine
      BY <1>1 DEF TooEarly, Crossing, Ignoring, Raced
    <2>2. HandleFollows'
      BY <1>1, <2>1 DEF HandleFollows, Early, Following, Finish, ctxVars, queryVars
    <2>3. MarkersFine'
      BY <1>1, <2>1 DEF MarkersFine, Finish, laneVars, queryVars, histVars
    <2>4. QED
      BY <2>2, <2>3
  <1>11. QED
    BY <1>2, <1>3, <1>4, <1>5, <1>6, <1>7, <1>8, <1>9, <1>10

LEMMA UnlockAutoKeeps ==
    ASSUME TurnInv, NEW t \in Turns, UnlockAuto(t)
    PROVE  TurnInv'
  <1> USE DEF TurnInv
  <1>1. \A r : Raced(r) => Raced(r)'
    BY DEF Raced, UnlockAuto
  <1>2. CtxTyped'
    BY DEF CtxTyped, UnlockAuto, Move, laneVars, queryVars
  <1>3. ServerTyped'
    BY DEF ServerTyped, UnlockAuto, serverVars
  <1>4. LockHeld'
    BY DEF LockHeld, UnlockAuto, laneVars, queryVars
  <1>5. QueriesFresh'
    BY DEF QueriesFresh, UnlockAuto, laneVars, queryVars
  <1>6. StreamsFresh'
    BY DEF StreamsFresh, ServerTyped, UnlockAuto, queryVars
  <1>7. SpontTasked'
    BY DEF SpontTasked, UnlockAuto
  <1>8. TooEarly' \/ OneTask'
    BY <1>1 DEF TooEarly, Raced, OneTask, QueriesFresh, UnlockAuto, laneVars, queryVars
  <1>9. Crossing' \/ AutoWaits'
    <2> SUFFICES ASSUME ~Crossing'
                 PROVE  AutoWaits'
      OBVIOUS
    <2>1. OneTask /\ AutoWaits
      BY <1>1 DEF TooEarly, Crossing, Raced
    <2>2. /\ follower[t] = "recording" /\ follower'[t] = "done" /\ spont' = None
          /\ \A x \in Turns : x # t => follower'[x] = follower[x]
          /\ UNCHANGED <<turnAt, lane, h>>
      BY DEF UnlockAuto, Move, CtxTyped, laneVars, queryVars
    <2>3. spont = t /\ spont # None
      BY <2>1, <2>2, TurnAssumption DEF AutoWaits, Following, Turns
    <2>4. \A q \in Queries : turnAt[q] \notin Live
      BY <2>1, <2>2, <2>3 DEF AutoWaits, Early
    <2>5. lane.at # "claimed"
      BY <2>1, <2>3 DEF AutoWaits
    <2>6. \A x \in Turns : follower'[x] \notin Following
      BY <2>1, <2>2, <2>3 DEF AutoWaits, Following
    <2>7. QED
      BY <2>2, <2>4, <2>5, <2>6 DEF AutoWaits, Live, Working
  <1>10. Ignoring' \/ (HandleFollows' /\ MarkersFine')
    <2> SUFFICES ASSUME ~Ignoring'
                 PROVE  HandleFollows' /\ MarkersFine'
      OBVIOUS
    <2>1. OneTask /\ AutoWaits /\ HandleFollows /\ MarkersFine
      BY <1>1 DEF TooEarly, Crossing, Ignoring, Raced
    <2>2. HandleFollows'
      BY <1>1, <2>1 DEF HandleFollows, AutoWaits, Following, UnlockAuto, Move, queryVars
    <2>3. MarkersFine'
      BY <1>1, <2>1 DEF MarkersFine, UnlockAuto, Move, queryVars
    <2>4. QED
      BY <2>2, <2>3
  <1>11. QED
    BY <1>2, <1>3, <1>4, <1>5, <1>6, <1>7, <1>8, <1>9, <1>10

LEMMA DispatchResponseKeeps ==
    ASSUME TurnInv, DispatchResponse
    PROVE  TurnInv'
  <1> USE DEF TurnInv
  <1>1. \A r : Raced(r) => Raced(r)'
    BY DEF Raced, DispatchResponse, Respond, histVars
  <1>2. CtxTyped'
    BY DEF CtxTyped, Live, Working, DispatchResponse, Respond, At, ctxVars, autoVars, histVars
  <1>3. ServerTyped'
    <2>1. out # <<>> /\ out' = Tail(out) /\ UNCHANGED <<h, inp, server>>
      BY DEF DispatchResponse, Respond, Reading
    <2>2. OutTyped'
      BY <2>1, ReportTaken DEF ServerTyped, OutTyped
    <2>3. QED
      BY <2>1, <2>2 DEF ServerTyped, OutTyped
  <1>4. LockHeld'
    BY DEF LockHeld, InWindow, DispatchResponse, Respond, At
  <1>5. QueriesFresh'
    BY DEF QueriesFresh, DispatchResponse, Respond, At, histVars
  <1>6. StreamsFresh'
    BY DEF StreamsFresh, ServerTyped, Streaming, DispatchResponse, Respond
  <1>7. SpontTasked'
    BY DEF SpontTasked, DispatchResponse, Respond, ctxVars
  <1>8. TooEarly' \/ OneTask'
    BY <1>1
       DEF TooEarly, Raced, OneTask, QueriesFresh, Live, Working, DispatchResponse, Respond, At,
           ctxVars, histVars
  <1>9. Crossing' \/ AutoWaits'
    <2> SUFFICES ASSUME ~Crossing'
                 PROVE  AutoWaits'
      OBVIOUS
    <2>1. OneTask /\ AutoWaits
      BY <1>1 DEF TooEarly, Crossing, Raced
    <2>2. QED
      BY <1>1, <2>1
         DEF Crossing, Raced, AutoWaits, Live, Working, DispatchResponse, Respond, At, ctxVars,
             autoVars
  <1>10. Ignoring' \/ (HandleFollows' /\ MarkersFine')
    <2> SUFFICES ASSUME ~Ignoring'
                 PROVE  HandleFollows' /\ MarkersFine'
      OBVIOUS
    <2>1. OneTask /\ AutoWaits /\ HandleFollows /\ MarkersFine
      BY <1>1 DEF TooEarly, Crossing, Ignoring, Raced
    <2>2. HandleFollows'
      BY <1>1, <2>1 DEF HandleFollows, Streaming, DispatchResponse, Respond, ctxVars, autoVars
    <2>3. MarkersFine'
      BY <1>1, <2>1
         DEF MarkersFine, Marked, Streaming, DispatchResponse, Respond, autoVars, histVars
    <2>4. QED
      BY <2>2, <2>3
  <1>11. QED
    BY <1>2, <1>3, <1>4, <1>5, <1>6, <1>7, <1>8, <1>9, <1>10

LEMMA DispatchCompletedKeeps ==
    ASSUME TurnInv, DispatchCompleted
    PROVE  TurnInv'
  <1> USE DEF TurnInv
  <1>1. \A r : Raced(r) => Raced(r)'
    BY DEF Raced, DispatchCompleted, laneVars, histVars
  <1>2. CtxTyped'
    BY DEF CtxTyped, DispatchCompleted, ctxVars, laneVars, queryVars, autoVars, histVars
  <1>3. ServerTyped'
    BY CompletedDoes DEF ServerTyped, DispatchCompleted, Reading
  <1>4. LockHeld'
    BY DEF LockHeld, DispatchCompleted, laneVars, queryVars, histVars
  <1>5. QueriesFresh'
    BY DEF QueriesFresh, DispatchCompleted, laneVars, queryVars, histVars
  <1>6. StreamsFresh'
    BY CompletedDoes DEF StreamsFresh, ServerTyped, Streaming, DispatchCompleted, queryVars
  <1>7. SpontTasked'
    BY DEF SpontTasked, DispatchCompleted, ctxVars
  <1>8. TooEarly' \/ OneTask'
    BY <1>1
       DEF TooEarly, Raced, OneTask, QueriesFresh, DispatchCompleted, ctxVars, laneVars,
           queryVars, histVars
  <1>9. Crossing' \/ AutoWaits'
    <2> SUFFICES ASSUME ~Crossing'
                 PROVE  AutoWaits'
      OBVIOUS
    <2>1. OneTask /\ AutoWaits
      BY <1>1 DEF TooEarly, Crossing, Raced
    <2>2. QED
      BY <1>1, <2>1
         DEF Crossing, Raced, AutoWaits, DispatchCompleted, Reading, ctxVars, laneVars, queryVars,
             autoVars, histVars
  <1>10. Ignoring' \/ (HandleFollows' /\ MarkersFine')
    <2> SUFFICES ASSUME ~Ignoring'
                 PROVE  HandleFollows' /\ MarkersFine'
      OBVIOUS
    <2>1. OneTask /\ AutoWaits /\ HandleFollows /\ MarkersFine
      BY <1>1 DEF TooEarly, Crossing, Ignoring, Raced
    <2>2. HandleFollows'
      BY <1>1, <2>1, CompletedDoes
         DEF HandleFollows, ServerTyped, StreamsFresh, DispatchCompleted, ctxVars, queryVars,
             autoVars
    <2>3. MarkersFine'
      BY <1>1, <2>1 DEF MarkersFine, DispatchCompleted, laneVars, queryVars, autoVars, histVars
    <2>4. QED
      BY <2>2, <2>3
  <1>11. QED
    BY <1>2, <1>3, <1>4, <1>5, <1>6, <1>7, <1>8, <1>9, <1>10

LEMMA DispatchEofKeeps ==
    ASSUME TurnInv, DispatchEof
    PROVE  TurnInv'
  <1> USE DEF TurnInv
  <1>1. \A r : Raced(r) => Raced(r)'
    BY DEF Raced, DispatchEof, histVars
  <1>2. CtxTyped'
    BY DEF CtxTyped, Live, Working, DispatchEof, At, ctxVars, autoVars, histVars
  <1>3. ServerTyped'
    BY AtEofDoes DEF ServerTyped, DispatchEof, Reading
  <1>4. LockHeld'
    BY DEF LockHeld, InWindow, DispatchEof, At
  <1>5. QueriesFresh'
    BY DEF QueriesFresh, DispatchEof, At, histVars
  <1>6. StreamsFresh'
    BY AtEofDoes DEF StreamsFresh, ServerTyped, Streaming, DispatchEof
  <1>7. SpontTasked'
    BY DEF SpontTasked, DispatchEof, ctxVars
  <1>8. TooEarly' \/ OneTask'
    BY <1>1 DEF TooEarly, Raced, OneTask, QueriesFresh, Live, Working, DispatchEof, At, ctxVars
  <1>9. Crossing' \/ AutoWaits'
    <2> SUFFICES ASSUME ~Crossing'
                 PROVE  AutoWaits'
      OBVIOUS
    <2>1. OneTask /\ AutoWaits
      BY <1>1 DEF TooEarly, Crossing, Raced
    <2>2. QED
      BY <1>1, <2>1
         DEF Crossing, Raced, AutoWaits, Live, Working, DispatchEof, Reading, At, ctxVars,
             autoVars
  <1>10. Ignoring' \/ (HandleFollows' /\ MarkersFine')
    <2> SUFFICES ASSUME ~Ignoring'
                 PROVE  HandleFollows' /\ MarkersFine'
      OBVIOUS
    <2>1. OneTask /\ AutoWaits /\ HandleFollows /\ MarkersFine
      BY <1>1 DEF TooEarly, Crossing, Ignoring, Raced
    <2>2. HandleFollows'
      BY <1>1, <2>1, AtEofDoes
         DEF HandleFollows, ServerTyped, StreamsFresh, DispatchEof, ctxVars, autoVars
    <2>3. MarkersFine'
      BY <1>1, <2>1 DEF MarkersFine, Marked, Streaming, DispatchEof, autoVars, histVars
    <2>4. QED
      BY <2>2, <2>3
  <1>11. QED
    BY <1>2, <1>3, <1>4, <1>5, <1>6, <1>7, <1>8, <1>9, <1>10

LEMMA ServeStartKeeps ==
    ASSUME TurnInv, ServeStart
    PROVE  TurnInv'
  <1> USE DEF TurnInv
  <1>1. \A r : Raced(r) => Raced(r)'
    BY DEF Raced, ServeStart, laneVars, histVars
  <1>2. CtxTyped'
    BY DEF CtxTyped, ServeStart, ctxVars, laneVars, queryVars, autoVars, histVars
  <1>3. ServerTyped'
    <2>1. PICK q \in Turns : q = Head(inp).turn
      BY RequestTaken DEF ServeStart, ServerTyped, Request
    <2>2. inp' \in Seq(Request) /\ h' = h
      BY RequestTaken DEF ServeStart, ServerTyped
    <2>3. server' \in {server, q}
      BY <2>1 DEF ServeStart
    <2>4. PICK a, b, c \in Report :
              /\ a = Msg("started_ok", q) /\ b = Msg("started", q) /\ c = Msg("start_error", q)
      BY DEF Msg, Report
    <2>5. out' = out \o <<a, b>> \/ out' = out \o <<b, a>> \/ out' = Append(out, c)
      BY <2>1, <2>4 DEF ServeStart
    <2>6. a.type # "started" /\ b.turn \in Turns /\ c.type # "started"
      BY <2>4 DEF Msg
    <2>7. OutTyped'
      BY <2>5, <2>6, ReportAdded, ReportsAdded DEF ServerTyped, OutTyped
    <2>8. QED
      BY <2>2, <2>3, <2>7 DEF ServerTyped, OutTyped
  <1>4. LockHeld'
    BY DEF LockHeld, ServeStart, laneVars, queryVars, histVars
  <1>5. QueriesFresh'
    BY DEF QueriesFresh, ServeStart, laneVars, queryVars, histVars
  <1>6. StreamsFresh'
    BY DEF StreamsFresh, ServerTyped, ServeStart, queryVars
  <1>7. SpontTasked'
    BY DEF SpontTasked, ServeStart, ctxVars
  <1>8. TooEarly' \/ OneTask'
    BY <1>1
       DEF TooEarly, Raced, OneTask, QueriesFresh, ServeStart, ctxVars, laneVars, queryVars,
           histVars
  <1>9. Crossing' \/ AutoWaits'
    <2> SUFFICES ASSUME ~Crossing'
                 PROVE  AutoWaits'
      OBVIOUS
    <2>1. OneTask /\ AutoWaits
      BY <1>1 DEF TooEarly, Crossing, Raced
    <2>2. QED
      BY <1>1, <2>1
         DEF Crossing, Raced, AutoWaits, ServeStart, ctxVars, laneVars, queryVars, autoVars,
             histVars
  <1>10. Ignoring' \/ (HandleFollows' /\ MarkersFine')
    <2> SUFFICES ASSUME ~Ignoring'
                 PROVE  HandleFollows' /\ MarkersFine'
      OBVIOUS
    <2>1. OneTask /\ AutoWaits /\ HandleFollows /\ MarkersFine
      BY <1>1 DEF TooEarly, Crossing, Ignoring, Raced
    <2>2. HandleFollows'
      BY <1>1, <2>1 DEF HandleFollows, ServeStart, ctxVars, queryVars, autoVars
    <2>3. MarkersFine'
      BY <1>1, <2>1 DEF MarkersFine, ServeStart, laneVars, queryVars, autoVars, histVars
    <2>4. QED
      BY <2>2, <2>3
  <1>11. QED
    BY <1>2, <1>3, <1>4, <1>5, <1>6, <1>7, <1>8, <1>9, <1>10

LEMMA ServeStopKeeps ==
    ASSUME TurnInv, ServeStop
    PROVE  TurnInv'
  <1> USE DEF TurnInv
  <1>1. \A r : Raced(r) => Raced(r)'
    BY DEF Raced, ServeStop, laneVars, histVars
  <1>2. CtxTyped'
    BY DEF CtxTyped, ServeStop, ctxVars, laneVars, queryVars, autoVars, histVars
  <1>3. ServerTyped'
    <2>1. PICK t \in Turns : t = Head(inp).turn
      BY RequestTaken DEF ServeStop, ServerTyped, Request
    <2>2. inp' \in Seq(Request) /\ h' = h
      BY RequestTaken DEF ServeStop, ServerTyped
    <2>3. server' \in {server, None}
      BY DEF ServeStop
    <2>4. PICK a, b, c \in Report :
              /\ a = Msg("stopped", t) /\ b = Msg("completed", t) /\ c = Msg("stop_error", t)
      BY DEF Msg, Report
    <2>5. out' = out \o <<a, b>> \/ out' = Append(out, a) \/ out' = Append(out, c)
      BY <2>1, <2>4 DEF ServeStop
    <2>6. a.type # "started" /\ b.type # "started" /\ c.type # "started"
      BY <2>4 DEF Msg
    <2>7. OutTyped'
      BY <2>5, <2>6, ReportAdded, ReportsAdded DEF ServerTyped, OutTyped
    <2>8. QED
      BY <2>2, <2>3, <2>7 DEF ServerTyped, OutTyped
  <1>4. LockHeld'
    BY DEF LockHeld, ServeStop, laneVars, queryVars, histVars
  <1>5. QueriesFresh'
    BY DEF QueriesFresh, ServeStop, laneVars, queryVars, histVars
  <1>6. StreamsFresh'
    BY DEF StreamsFresh, ServerTyped, ServeStop, queryVars
  <1>7. SpontTasked'
    BY DEF SpontTasked, ServeStop, ctxVars
  <1>8. TooEarly' \/ OneTask'
    BY <1>1
       DEF TooEarly, Raced, OneTask, QueriesFresh, ServeStop, ctxVars, laneVars, queryVars,
           histVars
  <1>9. Crossing' \/ AutoWaits'
    <2> SUFFICES ASSUME ~Crossing'
                 PROVE  AutoWaits'
      OBVIOUS
    <2>1. OneTask /\ AutoWaits
      BY <1>1 DEF TooEarly, Crossing, Raced
    <2>2. QED
      BY <1>1, <2>1
         DEF Crossing, Raced, AutoWaits, ServeStop, ctxVars, laneVars, queryVars, autoVars,
             histVars
  <1>10. Ignoring' \/ (HandleFollows' /\ MarkersFine')
    <2> SUFFICES ASSUME ~Ignoring'
                 PROVE  HandleFollows' /\ MarkersFine'
      OBVIOUS
    <2>1. OneTask /\ AutoWaits /\ HandleFollows /\ MarkersFine
      BY <1>1 DEF TooEarly, Crossing, Ignoring, Raced
    <2>2. HandleFollows'
      BY <1>1, <2>1 DEF HandleFollows, Streaming, ServeStop, Msg, ctxVars, queryVars, autoVars
    <2>3. MarkersFine'
      BY <1>1, <2>1 DEF MarkersFine, ServeStop, laneVars, queryVars, autoVars, histVars
    <2>4. QED
      BY <2>2, <2>3
  <1>11. QED
    BY <1>2, <1>3, <1>4, <1>5, <1>6, <1>7, <1>8, <1>9, <1>10

LEMMA ServeEndKeeps ==
    ASSUME TurnInv, ServeEnd
    PROVE  TurnInv'
  <1> USE DEF TurnInv
  <1>1. \A r : Raced(r) => Raced(r)'
    BY DEF Raced, ServeEnd, laneVars, histVars
  <1>2. CtxTyped'
    BY DEF CtxTyped, ServeEnd, ctxVars, laneVars, queryVars, autoVars, histVars
  <1>3. ServerTyped'
    BY DEF ServerTyped, Request, Report, ServeEnd, Msg
  <1>4. LockHeld'
    BY DEF LockHeld, Turns, ServeEnd, laneVars, queryVars, histVars
  <1>5. QueriesFresh'
    BY DEF QueriesFresh, ServeEnd, laneVars, queryVars, histVars
  <1>6. StreamsFresh'
    BY DEF StreamsFresh, ServerTyped, ServeEnd, queryVars
  <1>7. SpontTasked'
    BY DEF SpontTasked, ServeEnd, ctxVars
  <1>8. TooEarly' \/ OneTask'
    BY <1>1, LifecycleAssumption
       DEF TooEarly, Raced, OneTask, QueriesFresh, ServeEnd, ctxVars, laneVars, queryVars,
           histVars
  <1>9. Crossing' \/ AutoWaits'
    <2> SUFFICES ASSUME ~Crossing'
                 PROVE  AutoWaits'
      OBVIOUS
    <2>1. OneTask /\ AutoWaits
      BY <1>1 DEF TooEarly, Crossing, Raced
    <2>2. QED
      BY <1>1, <2>1
         DEF Crossing, Raced, AutoWaits, ServeEnd, ctxVars, laneVars, queryVars, autoVars,
             histVars
  <1>10. Ignoring' \/ (HandleFollows' /\ MarkersFine')
    <2> SUFFICES ASSUME ~Ignoring'
                 PROVE  HandleFollows' /\ MarkersFine'
      OBVIOUS
    <2>1. OneTask /\ AutoWaits /\ HandleFollows /\ MarkersFine
      BY <1>1 DEF TooEarly, Crossing, Ignoring, Raced
    <2>2. HandleFollows'
      BY <1>1, <2>1 DEF HandleFollows, ServeEnd, ctxVars, queryVars, autoVars
    <2>3. MarkersFine'
      BY <1>1, <2>1 DEF MarkersFine, ServeEnd, laneVars, queryVars, autoVars, histVars
    <2>4. QED
      BY <2>2, <2>3
  <1>11. QED
    BY <1>2, <1>3, <1>4, <1>5, <1>6, <1>7, <1>8, <1>9, <1>10

LEMMA ServeAutoKeeps ==
    ASSUME TurnInv, NEW t \in Turns, ServeAuto(t)
    PROVE  TurnInv'
  <1> USE DEF TurnInv
  <1>1. \A r : Raced(r) => Raced(r)'
    BY DEF Raced, ServeAuto
  <1>2. CtxTyped'
    BY DEF CtxTyped, ServeAuto, ctxVars, laneVars, queryVars, autoVars
  <1>3. ServerTyped'
    BY DEF ServerTyped, Request, Report, ServeAuto, Msg
  <1>4. LockHeld'
    BY DEF LockHeld, ServeAuto, laneVars, queryVars
  <1>5. QueriesFresh'
    BY DEF QueriesFresh, ServeAuto, laneVars, queryVars
  <1>6. StreamsFresh'
    BY DEF StreamsFresh, ServerTyped, ServeAuto, queryVars
  <1>7. SpontTasked'
    BY DEF SpontTasked, ServeAuto, ctxVars
  <1>8. TooEarly' \/ OneTask'
    BY <1>1 DEF TooEarly, Raced, OneTask, QueriesFresh, ServeAuto, ctxVars, laneVars, queryVars
  <1>9. Crossing' \/ AutoWaits'
    <2> SUFFICES ASSUME ~Crossing'
                 PROVE  AutoWaits'
      OBVIOUS
    <2>1. OneTask /\ AutoWaits
      BY <1>1 DEF TooEarly, Crossing, Raced
    <2>2. QED
      BY <1>1, <2>1
         DEF Crossing, Raced, AutoWaits, ServeAuto, Msg, ctxVars, laneVars, queryVars, autoVars
  <1>10. Ignoring' \/ (HandleFollows' /\ MarkersFine')
    <2> SUFFICES ASSUME ~Ignoring'
                 PROVE  HandleFollows' /\ MarkersFine'
      OBVIOUS
    <2>1. OneTask /\ AutoWaits /\ HandleFollows /\ MarkersFine
      BY <1>1 DEF TooEarly, Crossing, Ignoring, Raced
    <2>2. HandleFollows'
      BY <1>1, <2>1 DEF HandleFollows, CtxTyped, ServeAuto, ctxVars, queryVars, autoVars
    <2>3. MarkersFine'
      BY <1>1, <2>1 DEF MarkersFine, Following, ServeAuto, laneVars, queryVars, autoVars
    <2>4. QED
      BY <2>2, <2>3
  <1>11. QED
    BY <1>2, <1>3, <1>4, <1>5, <1>6, <1>7, <1>8, <1>9, <1>10

LEMMA ExitKeeps ==
    ASSUME TurnInv, Exit
    PROVE  TurnInv'
  <1> USE DEF TurnInv
  <1>1. \A r : Raced(r) => Raced(r)'
    BY DEF Raced, Exit
  <1>2. CtxTyped'
    BY DEF CtxTyped, Exit, Msg, ctxVars, laneVars, queryVars, autoVars
  <1>3. ServerTyped'
    BY DEF ServerTyped, Request, Report, Exit, Msg
  <1>4. LockHeld'
    BY DEF LockHeld, Exit, laneVars, queryVars
  <1>5. QueriesFresh'
    BY DEF QueriesFresh, Exit, ctxVars, laneVars, queryVars, autoVars
  <1>6. StreamsFresh'
    BY DEF StreamsFresh, ServerTyped, CtxTyped, Exit, queryVars
  <1>7. SpontTasked'
    BY DEF SpontTasked, Exit, ctxVars, laneVars
  <1>8. TooEarly' \/ OneTask'
    BY <1>1 DEF TooEarly, Raced, OneTask, QueriesFresh, Live, Exit, ctxVars, laneVars, queryVars
  <1>9. Crossing' \/ AutoWaits'
    <2> SUFFICES ASSUME ~Crossing'
                 PROVE  AutoWaits'
      OBVIOUS
    <2>1. OneTask /\ AutoWaits
      BY <1>1 DEF TooEarly, Crossing, Raced
    <2>2. QED
      BY <1>1, <2>1 DEF Crossing, Raced, AutoWaits, Exit, ctxVars, laneVars, queryVars, autoVars
  <1>10. Ignoring' \/ (HandleFollows' /\ MarkersFine')
    <2> SUFFICES ASSUME ~Ignoring'
                 PROVE  HandleFollows' /\ MarkersFine'
      OBVIOUS
    <2>1. OneTask /\ AutoWaits /\ HandleFollows /\ MarkersFine
      BY <1>1 DEF TooEarly, Crossing, Ignoring, Raced
    <2>2. HandleFollows'
      BY <1>1, <2>1 DEF HandleFollows, Exit, ctxVars, queryVars, autoVars
    <2>3. MarkersFine'
      BY <1>1, <2>1 DEF MarkersFine, Exit, queryVars, autoVars
    <2>4. QED
      BY <2>2, <2>3
  <1>11. QED
    BY <1>2, <1>3, <1>4, <1>5, <1>6, <1>7, <1>8, <1>9, <1>10

LEMMA RequestTimesOutKeeps ==
    ASSUME TurnInv, RequestTimesOut
    PROVE  TurnInv'
  <1> USE DEF TurnInv
  <1>1. \A r : Raced(r) => Raced(r)'
    BY DEF Raced, RequestTimesOut
  <1>2. CtxTyped'
    BY DEF CtxTyped, Live, Working, RequestTimesOut, Step, At, ctxVars, autoVars
  <1>3. ServerTyped'
    BY DEF ServerTyped, RequestTimesOut, serverVars
  <1>4. LockHeld'
    BY DEF LockHeld, CtxTyped, InWindow, RequestTimesOut, Step, At
  <1>5. QueriesFresh'
    BY DEF QueriesFresh, CtxTyped, RequestTimesOut, Step, At
  <1>6. StreamsFresh'
    BY DEF StreamsFresh, ServerTyped, CtxTyped, Streaming, RequestTimesOut, Step
  <1>7. SpontTasked'
    BY DEF SpontTasked, RequestTimesOut, ctxVars
  <1>8. TooEarly' \/ OneTask'
    BY <1>1
       DEF TooEarly, Raced, OneTask, CtxTyped, QueriesFresh, Live, Working, RequestTimesOut, Step,
           At, ctxVars
  <1>9. Crossing' \/ AutoWaits'
    <2> SUFFICES ASSUME ~Crossing'
                 PROVE  AutoWaits'
      OBVIOUS
    <2>1. OneTask /\ AutoWaits
      BY <1>1 DEF TooEarly, Crossing, Raced
    <2>2. QED
      BY <1>1, <2>1
         DEF Crossing, Raced, AutoWaits, CtxTyped, Live, RequestTimesOut, Step, At, ctxVars,
             autoVars
  <1>10. Ignoring' \/ (HandleFollows' /\ MarkersFine')
    <2> SUFFICES ASSUME ~Ignoring'
                 PROVE  HandleFollows' /\ MarkersFine'
      OBVIOUS
    <2>1. OneTask /\ AutoWaits /\ HandleFollows /\ MarkersFine
      BY <1>1 DEF TooEarly, Crossing, Ignoring, Raced
    <2>2. HandleFollows'
      BY <1>1, <2>1
         DEF HandleFollows, CtxTyped, Streaming, RequestTimesOut, Step, ctxVars, autoVars
    <2>3. MarkersFine'
      BY <1>1, <2>1 DEF MarkersFine, CtxTyped, Marked, Streaming, RequestTimesOut, Step, autoVars
    <2>4. QED
      BY <2>2, <2>3
  <1>11. QED
    BY <1>2, <1>3, <1>4, <1>5, <1>6, <1>7, <1>8, <1>9, <1>10

\* A turn starts: it may claim the session.
LEMMA DispatchStartedKeeps ==
    ASSUME TurnInv, DispatchStarted
    PROVE  TurnInv'
  <1> USE DEF TurnInv
  <1>1. /\ out # <<>> /\ out' = Tail(out) /\ h.alive
        /\ UNCHANGED <<active, turnTask, lane, lock, turnAt, timed, awaited, inp, server,
                       shown, issued>>
    BY DEF DispatchStarted, Reading, laneVars, queryVars
  <1>2. OutTyped' /\ Head(out).turn \in Turns
    <2>1. OutTyped
      BY DEF OutTyped, ServerTyped
    <2>2. Head(out).type = "started"
      BY DEF DispatchStarted, Reading
    <2>3. QED
      BY <1>1, <2>1, <2>2, ReportTaken
  <1>3. PICK t \in Turns : t = Head(out).turn
    BY <1>2
  <1>4. QueriesFresh' /\ LockHeld' /\ (TooEarly' \/ OneTask')
    <2>1. causes \subseteq causes'
      BY DEF DispatchStarted, Claimed, Ignored
    <2>2. QED
      BY <1>1, <2>1 DEF QueriesFresh, LockHeld, OneTask, TooEarly, Raced
  <1>5. CASE ~(StartedIsCurrent(h, t) /\ StartsAlone(h))
    <2>1. /\ UNCHANGED <<spont, spTask, follower, state, event>> /\ causes \subseteq causes'
          /\ h' = IF StartedIsCurrent(h, t) THEN Started(h, t) ELSE h
      BY <1>3, <1>5 DEF DispatchStarted
    <2>2. /\ h' \in Handles /\ h'.alive = h.alive /\ h'.mq = h.mq /\ h'.active = h.active
          /\ h'.managed = h.managed /\ h'.auto = h.auto /\ h'.sq = h.sq
      <3>1. CASE h' = h
        BY <3>1 DEF ServerTyped
      <3>2. CASE h' = Started(h, t) /\ h.active
        <4>1. /\ h \in Handles /\ h' \in Handles /\ h'.active /\ h'.alive = h.alive
              /\ h'.managed = h.managed /\ h'.auto = h.auto /\ h'.sq = h.sq /\ h'.mq = h.mq
          BY <3>2, StartedDoes DEF ServerTyped
        <4>2. h.active \in BOOLEAN /\ h'.active \in BOOLEAN
          BY <4>1 DEF Handles
        <4>3. h'.active = h.active
          BY <3>2, <4>1, <4>2
        <4>4. QED
          BY <4>1, <4>3
      <3>3. QED
        BY <2>1, <1>5, <3>1, <3>2 DEF StartsAlone
    <2>3. CtxTyped' /\ ServerTyped' /\ SpontTasked'
      BY <1>1, <1>2, <2>1, <2>2 DEF CtxTyped, ServerTyped, SpontTasked, OutTyped
    <2>4. StreamsFresh'
      BY <1>1, <2>2 DEF StreamsFresh
    <2>5. Crossing' \/ AutoWaits'
      BY <1>1, <2>1, <2>2 DEF Crossing, Raced, AutoWaits
    <2>6. Ignoring' \/ (HandleFollows' /\ MarkersFine')
      BY <1>1, <2>1, <2>2 DEF Ignoring, Raced, HandleFollows, MarkersFine
    <2>7. QED
      BY <1>4, <2>3, <2>4, <2>5, <2>6
  <1>6. CASE StartedIsCurrent(h, t) /\ StartsAlone(h)
    <2>1. /\ h' \in Handles /\ h'.alive = h.alive /\ h'.managed = h.managed
          /\ h'.mq = None /\ h'.active /\ h'.sq = t /\ h'.auto[t] = "open"
      <3>1. h' = Started(h, t) /\ ~h.active
        BY <1>3, <1>6 DEF DispatchStarted, StartsAlone
      <3>2. QED
        BY <3>1, StartedDoes DEF ServerTyped
    <2>2. StreamsFresh'
      BY <1>1, <2>1, TurnAssumption DEF StreamsFresh
    <2>3. CASE Claimed(t)
      <3>1. /\ spont = None /\ spont' = t /\ spTask' = t /\ t # None /\ state' # "idle"
            /\ state' \in {"running", "interrupting"}
            /\ follower'[t] \in {"announcing", "created"}
            /\ \A x \in Turns : x # t => follower'[x] = follower[x]
            /\ follower' \in [Turns -> Early \cup Following \cup {"none", "done"}]
            /\ event' \in BOOLEAN /\ causes \subseteq causes'
            /\ lane.at = "claimed" => Crossing'
            /\ state # "idle" /\ turnTask # None => event'
        BY <2>3, TurnAssumption DEF Claimed, CtxTyped, Turns, Early, Crossing, Raced
      <3>2. CtxTyped' /\ ServerTyped' /\ SpontTasked'
        BY <1>1, <1>2, <2>1, <3>1 DEF CtxTyped, ServerTyped, SpontTasked, OutTyped
      <3>3. Crossing' \/ AutoWaits'
        <4> SUFFICES ASSUME ~Crossing'
                     PROVE  AutoWaits'
          OBVIOUS
        <4>1. OneTask /\ AutoWaits
          BY <3>1 DEF TooEarly, Crossing, Raced
        <4>2. \A x \in Turns : follower'[x] \notin Following
          <5>1. \A x \in Turns : follower[x] \notin Following
            BY <3>1, <4>1, TurnAssumption DEF AutoWaits, Turns
          <5>2. {"announcing", "created"} \cap Following = {}
            BY DEF Following
          <5>3. QED
            BY <3>1, <5>1, <5>2
        <4>3. \A q \in Queries : turnAt[q] \in Working => event'
          BY <3>1, <4>1, TurnAssumption DEF AutoWaits, OneTask, Live, Turns
        <4>4. \A q \in Queries : turnAt[q] # "reviving"
          BY <1>1, <4>1 DEF AutoWaits
        <4>5. QED
          BY <1>1, <3>1, <4>1, <4>2, <4>3, <4>4 DEF AutoWaits, Early, Working
      <3>4. Ignoring' \/ (HandleFollows' /\ MarkersFine')
        <4> SUFFICES ASSUME ~Ignoring'
                     PROVE  HandleFollows' /\ MarkersFine'
          OBVIOUS
        <4>1. AutoWaits /\ HandleFollows /\ MarkersFine
          BY <3>1 DEF Crossing, Ignoring, Raced
        <4>2. follower[t] # "consuming"
          BY <3>1, <4>1 DEF AutoWaits, Following
        <4>3. HandleFollows'
          BY <1>1, <2>1, <3>1, <4>1 DEF HandleFollows
        <4>4. MarkersFine'
          BY <1>1, <3>1, <4>1, <4>2 DEF MarkersFine, CtxTyped
        <4>5. QED
          BY <4>3, <4>4
      <3>5. QED
        BY <1>4, <2>2, <3>2, <3>3, <3>4
    <2>4. CASE Ignored(t)
      <3>1. UNCHANGED <<spont, spTask, follower, state, event>> /\ causes \subseteq causes' /\ Ignoring'
        BY <2>4 DEF Ignored, Ignoring, Raced
      <3>2. CtxTyped' /\ ServerTyped' /\ SpontTasked'
        BY <1>1, <1>2, <2>1, <3>1 DEF CtxTyped, ServerTyped, SpontTasked, OutTyped
      <3>3. Crossing' \/ AutoWaits'
        BY <1>1, <2>1, <3>1 DEF Crossing, Raced, AutoWaits
      <3>4. QED
        BY <1>4, <2>2, <3>1, <3>2, <3>3
    <2>5. QED
      BY <1>3, <1>6, <2>3, <2>4 DEF DispatchStarted
  <1>7. QED
    BY <1>5, <1>6

----------------------------------------------------------------------------
(* The theorems.                                                             *)

LEMMA TurnBegins == TurnInit => TurnInv
  <1> SUFFICES ASSUME TurnInit
               PROVE  TurnInv
    OBVIOUS
  <1>1. h \in Handles /\ h.active = FALSE /\ h.mq = None /\ \A q \in Queries : h.managed[q] = "open"
    BY DEF TurnInit, Connected, Handles, StreamStates
  <1>2. CtxTyped
    BY DEF TurnInit, CtxTyped, Free
  <1>3. ServerTyped
    BY <1>1 DEF TurnInit, ServerTyped
  <1>4. LockHeld /\ QueriesFresh /\ SpontTasked
    BY TurnAssumption, LifecycleAssumption
       DEF TurnInit, LockHeld, QueriesFresh, SpontTasked, InWindow, Turns, Free
  <1>5. StreamsFresh /\ OneTask
    BY <1>1, TurnAssumption DEF TurnInit, StreamsFresh, OneTask, Live, Working, Turns, Free
  <1>6. AutoWaits /\ HandleFollows /\ MarkersFine
    BY <1>1, TurnAssumption DEF TurnInit, AutoWaits, HandleFollows, MarkersFine, Live, Working,
       Streaming, Following, Free
  <1>7. QED
    BY <1>2, <1>3, <1>4, <1>5, <1>6 DEF TurnInv

LEMMA TurnStuttersKeeps ==
    ASSUME TurnInv, UNCHANGED turnVars
    PROVE  TurnInv'
  <1>1. UNCHANGED <<state, event, active, turnTask, spont, spTask, lane, lock, turnAt, timed,
                    follower, awaited, h, inp, out, server, shown, causes, issued>>
    BY DEF turnVars, ctxVars, laneVars, queryVars, autoVars, serverVars, histVars
  <1>2. CtxTyped' /\ ServerTyped' /\ LockHeld' /\ QueriesFresh' /\ StreamsFresh' /\ SpontTasked'
    BY <1>1 DEF TurnInv, CtxTyped, ServerTyped, LockHeld, QueriesFresh, StreamsFresh, SpontTasked
  <1>3. /\ TooEarly' \/ OneTask'
        /\ Crossing' \/ AutoWaits'
        /\ Ignoring' \/ (HandleFollows' /\ MarkersFine')
    BY <1>1 DEF TurnInv, TooEarly, Crossing, Ignoring, Raced, OneTask, AutoWaits, HandleFollows,
       MarkersFine
  <1>4. QED
    BY <1>2, <1>3 DEF TurnInv

LEMMA TurnKeeps == TurnInv /\ [TurnNext]_turnVars => TurnInv'
  <1> SUFFICES ASSUME TurnInv, [TurnNext]_turnVars
               PROVE  TurnInv'
    OBVIOUS
  <1>1. ASSUME NEW q \in Queries, CheckQuery(q) \/ EnterLaunch(q) \/ GiveUp(q) \/ StartTurn(q)
        PROVE  TurnInv'
    BY <1>1, CheckQueryKeeps, EnterLaunchKeeps, GiveUpKeeps, StartTurnKeeps
  <1>2. ASSUME NEW q \in Queries, Revive(q) \/ Accept(q) \/ Refuse(q) \/ LeaveLaunch(q) \/ Attach(q)
        PROVE  TurnInv'
    BY <1>2, ReviveKeeps, AcceptKeeps, RefuseKeeps, LeaveLaunchKeeps, AttachKeeps
  <1>3. ASSUME NEW q \in Queries, Consume(q) \/ TimeOut(q) \/ Reconnect(q) \/ Unlock(q) \/ Unwind(q)
        PROVE  TurnInv'
    BY <1>3, ConsumeKeeps, TimeOutKeeps, ReconnectKeeps, UnlockKeeps, UnwindKeeps
  <1>4. ASSUME NEW t \in Turns, FollowAuto(t)
        PROVE  TurnInv'
    BY <1>4, FollowKeeps, AnchorKeeps, AttachAutoKeeps, ConsumeAutoKeeps, FinishKeeps,
       UnlockAutoKeeps DEF FollowAuto
  <1>5. ASSUME NEW t \in Turns, ServeAuto(t)
        PROVE  TurnInv'
    BY <1>5, ServeAutoKeeps
  <1>6. CASE Lane \/ Stop
    BY <1>6, AbandonQueryKeeps, ClaimQueryKeeps, CreateTaskKeeps, StopIsOverKeeps,
       RequestStopKeeps, FinishStopKeeps, StopKeeps DEF Lane
  <1>7. CASE Dispatch
    BY <1>7, DispatchResponseKeeps, DispatchStartedKeeps, DispatchCompletedKeeps,
       DispatchEofKeeps DEF Dispatch
  <1>8. CASE Serve \/ ServeEnd \/ Exit \/ RequestTimesOut
    BY <1>8, ServeStartKeeps, ServeStopKeeps, ServeEndKeeps, ExitKeeps, RequestTimesOutKeeps
       DEF Serve
  <1>9. CASE UNCHANGED turnVars
    BY <1>9, TurnStuttersKeeps
  <1>10. QED
    BY <1>1, <1>2, <1>3, <1>4, <1>5, <1>6, <1>7, <1>8, <1>9 DEF TurnNext, Run

(* In every state the tasks, the lock, the handle and the messages of a       *)
(* session fit together as described above, each part unless a race that it   *)
(* does not survive has happened.                                             *)
THEOREM TurnInvariant == TurnSpec => []TurnInv
  <1>1. QED
    BY TurnBegins, TurnKeeps, PTL DEF TurnSpec

\* A set whose elements are all the same has one at most.
LEMMA OneAtMost ==
    ASSUME NEW S, NEW x, S \subseteq {x}
    PROVE  Cardinality(S) <= 1
  <1>1. IsFiniteSet({x}) /\ Cardinality({x}) = 1
    BY FS_Singleton
  <1>2. QED
    BY <1>1, FS_Subset

(* At no time do two managed turns work in a session, it is unlocked only     *)
(* when neither an automatic nor a managed turn is left, and the page is      *)
(* shown one turn at a time, each unless one of the named races happened      *)
(* (_set_idle_after_managed_turn, _finish_codex_spontaneous_turn,             *)
(* _run_codex_spontaneous_turn).                                              *)
THEOREM TurnsAreSafe == TurnSpec => []TurnsSafe
  <1>1. ASSUME TurnInv
        PROVE  TurnsSafe
    <2> USE <1>1 DEF TurnInv
    <2>1. TurnTypeOK
      BY DEF TurnTypeOK, CtxTyped, ServerTyped, LockHeld, Live
    <2>2. OneManagedTurn
      <3>1. CASE TooEarly
        BY <3>1 DEF TooEarly, OneManagedTurn
      <3>2. CASE OneTask
        <4>1. {q \in Queries : turnAt[q] \in Working} \subseteq {turnTask}
          BY <3>2 DEF OneTask, Live
        <4>2. QED
          BY <4>1, OneAtMost DEF OneManagedTurn, TurnsAreAlone
      <3>3. QED
        BY <3>1, <3>2
    <2>3. UnlockedMeansFree
      BY DEF UnlockedMeansFree, AutoWaits, Crossing
    <2>4. TurnsDoNotNest
      <3>1. CASE Ignoring
        BY <3>1 DEF Ignoring, TurnsDoNotNest
      <3>2. CASE ~Ignoring
        <4>1. OneTask /\ AutoWaits /\ MarkersFine
          BY <3>2 DEF TooEarly, Crossing, Ignoring, Raced
        <4>2. \A t, u \in shown : t = u
          <5> SUFFICES ASSUME NEW t \in shown, NEW u \in shown
                       PROVE  t = u
            OBVIOUS
          <5>1. \A x \in shown : follower[x] = "consuming" => spont = x /\ x # None
            BY <4>1, TurnAssumption DEF AutoWaits, Following, CtxTyped, Turns
          <5>2. \A x \in shown : \/ x \in Queries /\ turnAt[x] \in Live
                                 \/ follower[x] = "consuming"
            BY <4>1 DEF MarkersFine, Marked, Streaming, Live, Working
          <5>3. ASSUME NEW x \in shown, NEW y \in shown, x \in Queries, turnAt[x] \in Live,
                       follower[y] = "consuming"
                PROVE  FALSE
            BY <5>1, <5>3, <4>1 DEF AutoWaits, Early
          <5>4. CASE t \in Queries /\ turnAt[t] \in Live /\ u \in Queries /\ turnAt[u] \in Live
            BY <5>4, <4>1 DEF OneTask
          <5>5. CASE follower[t] = "consuming" /\ follower[u] = "consuming"
            BY <5>5, <5>1
          <5>6. QED
            BY <5>2, <5>3, <5>4, <5>5
        <4>3. CASE shown = {}
          BY <4>3, OneAtMost DEF TurnsDoNotNest
        <4>4. CASE shown # {}
          <5>1. PICK x \in shown : TRUE
            BY <4>4
          <5>2. shown \subseteq {x}
            BY <4>2, <5>1
          <5>3. QED
            BY <5>2, OneAtMost DEF TurnsDoNotNest
        <4>5. QED
          BY <4>3, <4>4
      <3>3. QED
        BY <3>1, <3>2
    <2>5. QED
      BY <2>1, <2>2, <2>3, <2>4 DEF TurnsSafe
  <1>2. QED
    BY <1>1, TurnInvariant, PTL

\* Only its own steps take a managed turn into its launch window and out of it.
LEMMA LaunchIsOwn ==
    ASSUME TurnInv, TurnNext, NEW q \in Queries, turnAt'[q] # turnAt[q],
           turnAt'[q] \in {"launching", "requested"}
    PROVE  EnterLaunch(q) \/ StartTurn(q) \/ Revive(q)
  <1>0. turnAt \in [Queries -> Live \cup {"none", "done"}]
    BY DEF TurnInv, CtxTyped
  <1>1. ASSUME NEW p \in Queries, CheckQuery(p)
        PROVE  FALSE
    BY <1>1 DEF CheckQuery, queryVars
  <1>2. ASSUME NEW p \in Queries, Run(p)
        PROVE  EnterLaunch(q) \/ StartTurn(q) \/ Revive(q)
    <2>1. \A x \in Queries : x # p => turnAt'[x] = turnAt[x]
      BY <1>0, <1>2 DEF Run, EnterLaunch, GiveUp, StartTurn, Revive, Accept, Refuse, LeaveLaunch,
         Attach, Consume, TimeOut, Reconnect, Unlock, Unwind, Step
    <2>2. p = q
      BY <2>1
    <2>3. \/ EnterLaunch(p) \/ StartTurn(p) \/ Revive(p)
          \/ turnAt'[p] \in {"ending", "bound", "announcing", "consuming", "reconnecting",
                             "unwinding", "done"}
      BY <1>0, <1>2 DEF Run, EnterLaunch, GiveUp, StartTurn, Revive, Accept, Refuse, LeaveLaunch,
         Attach, Consume, TimeOut, Reconnect, Unlock, Unwind, Step
    <2>4. QED
      BY <2>2, <2>3
  <1>3. ASSUME NEW t \in Turns, FollowAuto(t) \/ ServeAuto(t)
        PROVE  FALSE
    BY <1>3 DEF FollowAuto, Follow, Anchor, AttachAuto, ConsumeAuto, Finish, UnlockAuto, ServeAuto,
       queryVars
  <1>4. CASE Lane \/ Stop
    BY <1>0, <1>4 DEF Lane, AbandonQuery, ClaimQuery, CreateTask, StopIsOver, RequestStop,
       FinishStop, Stop, queryVars
  <1>5. CASE Dispatch
    BY <1>5 DEF Dispatch, DispatchResponse, Respond, DispatchStarted, DispatchCompleted,
       DispatchEof, queryVars
  <1>6. CASE Serve \/ ServeEnd \/ Exit \/ RequestTimesOut
    BY <1>0, <1>6 DEF Serve, ServeStart, ServeStop, ServeEnd, Exit, RequestTimesOut, Step, queryVars
  <1>7. QED
    BY <1>1, <1>2, <1>3, <1>4, <1>5, <1>6 DEF TurnNext

(* turn/start is never written while the session follows an automatic turn,   *)
(* nor over a turn that the handle still counts as active, and a turn enters  *)
(* its launch window under its own id, each unless one of the named races     *)
(* happened (_run_turn's launch window).                                      *)
THEOREM LaunchesHold == TurnSpec => LaunchSteps
  <1> DEFINE Yields == \A q \in Queries : turnAt[q] # "requested" /\ turnAt'[q] = "requested"
                          => Raced({"early", "crossed"}) \/ spont = None
             Overwrites == \A q \in Queries : turnAt[q] = "launching" /\ turnAt'[q] = "requested"
                          => Raced({"early", "crossed", "ignored"}) \/ ~h.active
             Owns == \A q \in Queries : turnAt[q] = "starting" /\ turnAt'[q] = "launching"
                          => Raced({"early", "crossed"}) \/ active = q
  <1>1. ASSUME TurnInv, TurnNext
        PROVE  Yields /\ Overwrites /\ Owns
    <2>1. Crossing \/ AutoWaits
      BY <1>1 DEF TurnInv
    <2>2. Yields
      <3> SUFFICES ASSUME NEW q \in Queries, turnAt[q] # "requested", turnAt'[q] = "requested",
                          ~Crossing
                   PROVE  spont = None
        BY DEF Crossing
      <3>1. EnterLaunch(q) \/ StartTurn(q) \/ Revive(q)
        BY <1>1, LaunchIsOwn
      <3>2. CASE EnterLaunch(q)
        BY <1>1, <3>2 DEF EnterLaunch, Step, TurnInv, CtxTyped
      <3>3. CASE StartTurn(q)
        BY <2>1, <3>3 DEF StartTurn, Stopping, AutoWaits
      <3>4. CASE Revive(q)
        BY <2>1, <3>4 DEF Revive, Step, AutoWaits
      <3>5. QED
        BY <3>1, <3>2, <3>3, <3>4
    <2>3. Overwrites
      <3> SUFFICES ASSUME NEW q \in Queries, turnAt[q] = "launching", turnAt'[q] = "requested",
                          ~Ignoring
                   PROVE  ~h.active
        BY DEF Ignoring
      <3>1. OneTask /\ AutoWaits /\ HandleFollows
        BY <1>1 DEF TurnInv, TooEarly, Crossing, Ignoring, Raced
      <3>2. spont = None
        BY <2>2, <3>1 DEF Crossing, Ignoring, Raced
      <3>3. \A p \in Queries : turnAt[p] \notin Streaming
        BY <3>1 DEF OneTask, Live, Working, Streaming
      <3>4. QED
        BY <3>1, <3>2, <3>3 DEF HandleFollows
    <2>4. Owns
      BY <2>1 DEF Crossing, AutoWaits
    <2>5. QED
      BY <2>2, <2>3, <2>4
  <1>2. ASSUME TurnInv, UNCHANGED turnVars
        PROVE  Yields /\ Overwrites /\ Owns
    <2>1. turnAt' = turnAt
      BY <1>2 DEF turnVars, queryVars
    <2>2. QED
      BY <2>1
  <1>3. TurnInv /\ [TurnNext]_turnVars => [Yields /\ Overwrites /\ Owns]_turnVars
    BY <1>1, <1>2
  <1>4. TurnInv /\ [TurnNext]_turnVars => [Yields]_turnVars /\ [Overwrites]_turnVars /\ [Owns]_turnVars
    BY <1>1, <1>2
  <1>5. TurnSpec => [][Yields]_turnVars /\ [][Overwrites]_turnVars /\ [][Owns]_turnVars
    BY <1>4, TurnInvariant, PTL DEF TurnSpec
  <1>6. QED
    BY <1>5 DEF LaunchSteps, LaunchYields, LaunchOverwritesNothing, LaunchOwnsMarker
=============================================================================
