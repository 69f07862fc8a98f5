----------------------------- MODULE CodexStream -----------------------------
(* The translator of one live Codex turn: it is fed the notifications of the *)
(* app-server one by one and makes of each the events a page shows.  The     *)
(* queue in front of it may overflow, so notifications of an item may be     *)
(* missing, late or alone.                                                   *)
(*                                                                           *)
(* Source: wrapper/codex_stream.py (CodexStreamTranslator).  Identities are  *)
(* model values; of a text only its length counts, and of the events sent    *)
(* only what the page can be left with.                                      *)
EXTENDS Integers, FiniteSets

CONSTANTS
    Messages, Tools, Processes,   \* identities of agent messages, tools, other items
    NoMessage,                       \* no message is open
    MaxLiveItems,                 \* _MAX_LIVE_ITEMS
    MaxFinishedItems,             \* _MAX_FINISHED_DELTA_ITEMS
    MaxStreams,                   \* _MAX_DELTA_STREAMS
    MaxAppends,                   \* _MAX_DELTA_EVENTS_PER_STREAM
    ResultMax,                    \* tool_result_max
    EventMax,                     \* the most one notification may append
    NoticeSize,                   \* length of _DELTA_TRUNCATION_NOTICE
    TextSizes,                    \* bound: lengths of what is appended
    MaxFed                        \* bound: notifications

Items == Messages \cup Tools \cup Processes
StreamNames == {"text", "diff"}

ASSUME StreamConstants ==
    /\ Messages \cap Tools = {} /\ Messages \cap Processes = {} /\ Tools \cap Processes = {}
    /\ NoMessage \notin Items
    /\ MaxLiveItems \in Nat \ {0} /\ MaxFinishedItems \in Nat /\ MaxLiveItems <= MaxFinishedItems
    /\ MaxStreams \in Nat /\ MaxAppends \in Nat \ {0} /\ NoticeSize \in Nat \ {0}
    /\ ResultMax \in Nat \ {0} /\ EventMax \in Nat \ {0}
    /\ TextSizes \subseteq Nat /\ MaxFed \in Nat

VARIABLES
    tr,        \* the translator
    page,      \* history: what the events sent so far amount to
    fed        \* notifications so far

streamVars == <<tr, page, fed>>

Keys == Items \X StreamNames

StreamInit ==
    /\ tr = [started |-> {}, textSeen |-> {}, toolsStarted |-> {}, reasoning |-> {},
             open |-> NoMessage, visible |-> FALSE, terminalError |-> FALSE,
             chars |-> [k \in Keys |-> 0], count |-> [k \in Keys |-> 0], cut |-> {},
             finished |-> {}, live |-> {}, omitted |-> FALSE, closed |-> FALSE]
    /\ page = [begun |-> {}, ended |-> {}, whole |-> {}, pieces |-> {}, doubled |-> {},
               used |-> {}, loose |-> {}, done |-> {}, chars |-> [k \in Keys |-> 0],
               count |-> [k \in Keys |-> 0], late |-> {}, items |-> {}, shown |-> FALSE,
               error |-> FALSE, end |-> "none"]
    /\ fed = 0

Feeds == fed < MaxFed /\ fed' = fed + 1
----------------------------------------------------------------------------
(* Admission: a turn has a fixed number of items; of the first one that is    *)
(* turned away the page is told.                                             *)

(* Mutant: an item that is known is admitted before the end is looked at.    *)
AdmitsKnown(id) == id \in tr.live \/ (~tr.closed /\ Cardinality(tr.live) < MaxLiveItems)

Admits(id) == ~tr.closed /\ (id \in tr.live \/ Cardinality(tr.live) < MaxLiveItems)

Admitted(t, id) == [t EXCEPT !.live = @ \cup {id}]

Tells(p, id) == [p EXCEPT !.shown = TRUE, !.items = @ \cup {id}]

(* A tool that begins or ends counts as visible before it is admitted.       *)
Refused(id) ==
    LET told == ~tr.closed /\ ~tr.omitted IN
    /\ ~Admits(id) /\ Feeds
    /\ \E counted \in BOOLEAN :
          /\ counted => id \in Tools
          /\ tr' = [tr EXCEPT !.omitted = @ \/ told, !.visible = @ \/ told \/ counted]
    /\ page' = [page EXCEPT !.shown = @ \/ told]
----------------------------------------------------------------------------
(* Messages: one is open at a time, and another one closes it.               *)

Closes(t, p) == [p EXCEPT !.ended = IF t.open = NoMessage THEN @ ELSE @ \cup {t.open}]

TrStarted(t, id) ==
    IF id \in t.started THEN t ELSE [t EXCEPT !.started = @ \cup {id}, !.open = id]

PageStarted(t, p, id) ==
    IF id \in t.started THEN p
    ELSE [Closes(t, p) EXCEPT !.begun = @ \cup {id}, !.items = @ \cup {id}]

MessageStarted(id) ==
    /\ Admits(id) /\ Feeds
    /\ LET t == Admitted(tr, id) IN tr' = TrStarted(t, id) /\ page' = PageStarted(t, page, id)

TrText(t, id) == [TrStarted(t, id) EXCEPT !.textSeen = @ \cup {id}, !.visible = TRUE]

TextDelta(id) ==
    /\ Admits(id) /\ Feeds
    /\ \E empty \in BOOLEAN :
          LET t == Admitted(tr, id)
              p == PageStarted(t, page, id)
          IN /\ tr' = IF empty THEN TrStarted(t, id) ELSE TrText(t, id)
             /\ page' = IF empty THEN p ELSE [Tells(p, id) EXCEPT !.pieces = @ \cup {id}]

(* The text of a completed message is sent when no piece of it was.          *)
PageWhole(t, p, id) ==
    [Tells(PageStarted(t, p, id), id) EXCEPT
        !.whole = @ \cup {id}, !.doubled = @ \cup ({id} \cap (p.whole \cup p.pieces))]

TrEnded(t, id) ==
    IF id \in t.started THEN [t EXCEPT !.open = IF @ = id THEN NoMessage ELSE @] ELSE t

PageEnded(t, p, id) == IF id \in t.started THEN [p EXCEPT !.ended = @ \cup {id}] ELSE p

MessageCompleted(id) ==
    /\ Admits(id) /\ Feeds
    /\ \E text \in BOOLEAN :
          LET s == Admitted(tr, id)
              whole == text /\ id \notin tr.textSeen
              t == IF whole THEN TrText(s, id) ELSE s
              p == IF whole THEN PageWhole(s, page, id) ELSE page
          IN tr' = TrEnded(t, id) /\ page' = PageEnded(t, p, id)
----------------------------------------------------------------------------
(* Tools: a card hangs under the open message, or under a message of its own *)
(* that is opened for it.                                                    *)

TrUse(t, id) ==
    IF id \in t.toolsStarted THEN [t EXCEPT !.visible = TRUE]
    ELSE [t EXCEPT !.toolsStarted = @ \cup {id}, !.visible = TRUE,
                   !.open = IF @ = NoMessage THEN id ELSE @,
                   !.started = IF t.open = NoMessage THEN @ \cup {id} ELSE @]

PageUse(t, p, id) ==
    IF id \in t.toolsStarted THEN p
    ELSE [Tells(p, id) EXCEPT
             !.begun = IF t.open = NoMessage THEN @ \cup {id} ELSE @,
             !.used = @ \cup {id},
             !.loose = IF t.open = NoMessage \/ t.open \in p.begun THEN @ ELSE @ \cup {id}]

ToolStarted(id) ==
    /\ Admits(id) /\ Feeds
    /\ LET t == Admitted(tr, id) IN tr' = TrUse(t, id) /\ page' = PageUse(t, page, id)

(* Nothing may be appended to an item that is over.                          *)
Finished(t, id) ==
    [t EXCEPT !.finished = IF Cardinality(@) < MaxFinishedItems THEN @ \cup {id} ELSE @,
              !.chars = [k \in Keys |-> IF k[1] = id THEN 0 ELSE @[k]],
              !.count = [k \in Keys |-> IF k[1] = id THEN 0 ELSE @[k]],
              !.cut = {k \in @ : k[1] # id}]

ToolCompleted(id) ==
    /\ Admits(id) /\ Feeds
    /\ LET t == Admitted(tr, id) IN
          /\ tr' = Finished(TrUse(t, id), id)
          /\ page' = [Tells(PageUse(t, page, id), id) EXCEPT !.done = @ \cup {id}]
----------------------------------------------------------------------------
(* What is appended to an item is bounded in length and in number; the last  *)
(* piece says that the rest is missing.                                      *)

Least(a, b) == IF a < b THEN a ELSE b

OpenKeys(t) == {k \in Keys : t.count[k] > 0}

Takes(t, key) ==
    /\ key[1] \notin t.finished /\ key \notin t.cut
    /\ t.count[key] > 0 \/ Cardinality(OpenKeys(t)) < MaxStreams

Remaining(t, key) == ResultMax - t.chars[key]

Spent(t, key) == Remaining(t, key) <= 0 \/ t.count[key] >= MaxAppends - 1

Allowed(t, key) == Least(EventMax, Remaining(t, key))

(* The length that is sent of a text of length n.                            *)
Piece(t, key, n) ==
    LET left == Remaining(t, key) IN
    IF Spent(t, key) THEN IF left <= 0 THEN 0 ELSE Least(NoticeSize, left)
    ELSE IF n <= Allowed(t, key) THEN n
    ELSE IF NoticeSize >= left THEN left
    ELSE Least(Allowed(t, key), left - NoticeSize) + NoticeSize

TrAppend(t, key, n) ==
    IF ~Takes(t, key) THEN t
    ELSE [t EXCEPT !.cut = IF Spent(t, key) \/ n > Allowed(t, key) THEN @ \cup {key} ELSE @,
                   !.chars[key] = @ + Piece(t, key, n),
                   !.count[key] = IF Piece(t, key, n) > 0 THEN @ + 1 ELSE @]

Sent(t, key, n) == Takes(t, key) /\ Piece(t, key, n) > 0

PageAppend(t, p, key, n) ==
    IF ~Sent(t, key, n) THEN p
    ELSE [Tells(p, key[1]) EXCEPT
             !.chars[key] = @ + Piece(t, key, n), !.count[key] = @ + 1,
             !.late = IF key[1] \in p.done THEN @ \cup {key[1]} ELSE @]

(* Output of a command, of a file change or of an MCP tool.                  *)
ToolDelta(id, name) ==
    /\ Admits(id) /\ Feeds
    /\ \E n \in TextSizes :
          LET t == Admitted(tr, id) IN
          /\ tr' = TrAppend(t, <<id, name>>, n)
          /\ page' = PageAppend(t, page, <<id, name>>, n)

(* The changes of a file come whole: only what is new at their end is        *)
(* appended to the diff, and the card that is there is brought up to date.   *)
PatchUpdated(id) ==
    /\ Admits(id) /\ Feeds
    /\ \E n \in TextSizes, grows \in BOOLEAN :
          LET t == Admitted(tr, id)
              p == IF id \in tr.toolsStarted THEN Tells(page, id) ELSE page
          IN /\ tr' = IF grows THEN TrAppend(t, <<id, "diff">>, n) ELSE t
             /\ page' = IF grows THEN PageAppend(t, p, <<id, "diff">>, n) ELSE p

(* A plan, or the summary of the reasoning, which is begun when it is new.   *)
ProcessDelta(id) ==
    /\ Admits(id) /\ Feeds
    /\ \E n \in TextSizes, thinks \in BOOLEAN :
          LET t == Admitted(tr, id)
              p == IF thinks /\ id \notin tr.reasoning THEN Tells(page, id) ELSE page
          IN /\ tr' = [TrAppend(t, <<id, "text">>, n) EXCEPT
                          !.visible = @ \/ Sent(t, <<id, "text">>, n),
                          !.reasoning = IF thinks THEN @ \cup {id} ELSE @]
             /\ page' = PageAppend(t, p, <<id, "text">>, n)

SummaryPart(id) ==
    /\ Admits(id) /\ Feeds
    /\ tr' = [Admitted(tr, id) EXCEPT !.visible = @ \/ id \notin tr.reasoning,
                                      !.reasoning = @ \cup {id}]
    /\ page' = IF id \in tr.reasoning THEN page ELSE Tells(page, id)

ItemShown(id, completed, told, thinks) ==
    LET t == [Admitted(tr, id) EXCEPT !.visible = @ \/ told,
                 !.reasoning = IF told /\ thinks THEN @ \cup {id} ELSE @]
    IN /\ Admits(id) /\ Feeds
       /\ tr' = IF completed THEN Finished(t, id) ELSE t
       /\ page' = IF told THEN Tells(page, id) ELSE page

(* Reasoning without a public summary is not shown.                          *)
ProcessItem(id, completed) ==
    \E told, thinks \in BOOLEAN : (told \/ thinks) /\ ItemShown(id, completed, told, thinks)

(* What another agent is asked to do is always shown.                        *)
Delegation(id, completed) == ItemShown(id, completed, TRUE, FALSE)

(* What is told in one event: the plan and the diff of the turn, and a marker *)
(* (a compaction, a terminal's input, a notice of the model).                *)
ToldAtOnce(id) ==
    /\ Admits(id) /\ Feeds
    /\ tr' = [Admitted(tr, id) EXCEPT !.visible = TRUE]
    /\ page' = Tells(page, id)

PlanUpdated(id) == ToldAtOnce(id)
DiffUpdated(id) == ToldAtOnce(id)
TurnMarker(id) == ToldAtOnce(id)

(* A review or a hook that lacks what identifies it is passed over.          *)
PassedOver == Feeds /\ UNCHANGED <<tr, page>>

Review(id) == ToldAtOnce(id) \/ PassedOver
Hook(id) == ToldAtOnce(id) \/ PassedOver
----------------------------------------------------------------------------
(* Errors that are not retried, and the end of the turn, after which the     *)
(* translator is not fed its own turn any more.                              *)

ErrorNotified ==
    /\ ~tr.closed /\ Feeds
    /\ tr' = [tr EXCEPT !.terminalError = TRUE]
    /\ page' = [page EXCEPT !.error = TRUE]

TurnCompleted ==
    /\ ~tr.closed /\ Feeds
    /\ \E status \in {"completed", "interrupted", "failed"} :
          LET empty == status = "completed" /\ ~tr.visible
              error == tr.terminalError \/ empty \/ status = "failed"
          IN /\ tr' = [tr EXCEPT !.open = NoMessage, !.terminalError = error, !.closed = TRUE,
                          !.chars = [k \in Keys |-> 0], !.count = [k \in Keys |-> 0],
                          !.cut = {}, !.finished = {}]
             /\ page' = [Closes(tr, page) EXCEPT !.error = error,
                            !.end = IF status = "interrupted" THEN "interrupted"
                                    ELSE IF error THEN "error" ELSE "success"]

StreamNext ==
    \/ \E id \in Items : Refused(id)
    \/ \E id \in Messages : MessageStarted(id) \/ TextDelta(id) \/ MessageCompleted(id)
    \/ \E id \in Tools :
          \/ ToolStarted(id) \/ ToolCompleted(id) \/ PatchUpdated(id)
          \/ \E name \in StreamNames : ToolDelta(id, name)
    \/ \E id \in Processes :
          \/ ProcessDelta(id) \/ SummaryPart(id) \/ PlanUpdated(id) \/ DiffUpdated(id)
          \/ TurnMarker(id) \/ Review(id) \/ Hook(id)
          \/ \E completed \in BOOLEAN : ProcessItem(id, completed) \/ Delegation(id, completed)
    \/ ErrorNotified \/ TurnCompleted

StreamSpec == StreamInit /\ [][StreamNext]_streamVars
----------------------------------------------------------------------------
(* Properties.                                                               *)

(* A card of a tool hangs under a message the page has been told of, a        *)
(* result belongs to a card (1108-1141, 606-611).                             *)
CardsHang == page.loose = {} /\ page.done \subseteq page.used

(* A message that was begun is ended: when another one is opened, by its own  *)
(* completion, or by the end of the turn (1098-1106, 974).                    *)
MessagesEnd ==
    /\ page.ended \subseteq page.begun
    /\ page.begun \ page.ended \subseteq {tr.open}
    /\ page.end # "none" => page.begun = page.ended

(* The text of a message is not shown twice: whole only where no piece of it  *)
(* was shown, and once (581-594).                                             *)
TextOnce == page.doubled = {}

(* A turn succeeds when something was shown and no error was; one that fails  *)
(* shows an error, an empty one also (985-1004).                              *)
HonestEnd ==
    /\ page.end = "success" => page.shown /\ ~page.error
    /\ page.end = "error" => page.error

(* However often an item is finished, forgotten and heard of again, not more  *)
(* than the budget is appended to it, and nothing after it has its result     *)
(* (1045-1090); the items of a turn are limited (1024-1043).                  *)
AppendsBounded ==
    /\ \A k \in Keys : page.chars[k] <= ResultMax /\ page.count[k] <= MaxAppends
    /\ page.late = {}
    /\ Cardinality(page.items) <= MaxLiveItems

StreamSafe == CardsHang /\ MessagesEnd /\ TextOnce /\ HonestEnd /\ AppendsBounded
=============================================================================
