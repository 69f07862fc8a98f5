---------------------------- MODULE StreamProofs ----------------------------
(* Proofs about what a viewer is shown: the events of a live Codex turn in   *)
(* the page (CodexStream: StreamSafe, for every number of items, messages,   *)
(* streams and notifications), and the output of a Claude TUI in the         *)
(* terminals attached to it (BrokerSessions: SessionsSafe, for every number  *)
(* of terminals, transcripts and chunks, and every limit).                   *)
(*                                                                           *)
(* While the turn runs the translator's books describe what the page has     *)
(* been sent (Faithful), and each helper of the translator keeps that; after *)
(* the turn nothing is sent any more.                                        *)
(*                                                                           *)
(* In the broker, what waits for a terminal is the output behind what it was *)
(* shown (TermFits), whatever a TUI brings is offered to all that follow it  *)
(* (OfferedFits), and a start, an exit or a pruning touches the table only   *)
(* where no TUI runs (Forgets, Spawn).                                       *)
EXTENDS CodexStream, BrokerSessions, FiniteSetTheorems, SequenceTheorems, WellFoundedInduction, TLAPS

TrType ==
    [started : SUBSET Items, textSeen : SUBSET Items, toolsStarted : SUBSET Items,
     reasoning : SUBSET Items, open : Items \cup {NoMessage}, visible : BOOLEAN,
     terminalError : BOOLEAN, chars : [Keys -> Nat], count : [Keys -> Nat], cut : SUBSET Keys,
     finished : SUBSET Items, live : SUBSET Items, omitted : BOOLEAN, closed : BOOLEAN]

PageType ==
    [begun : SUBSET Items, ended : SUBSET Items, whole : SUBSET Items, pieces : SUBSET Items,
     doubled : SUBSET Items, used : SUBSET Items, loose : SUBSET Items, done : SUBSET Items,
     chars : [Keys -> Nat], count : [Keys -> Nat], late : SUBSET Items, items : SUBSET Items,
     shown : BOOLEAN, error : BOOLEAN, end : {"none", "success", "error", "interrupted"}]

(* The open message is begun, and it is the only one that is not ended.      *)
MessagesBooked(t, p) ==
    /\ p.begun = t.started
    /\ t.open = NoMessage \/ t.open \in t.started
    /\ p.ended \subseteq p.begun
    /\ \A m \in p.begun : m \in p.ended \/ m = t.open
    /\ p.pieces \subseteq t.textSeen /\ p.whole \subseteq t.textSeen
    /\ p.doubled = {}

CardsBooked(t, p) ==
    /\ p.used = t.toolsStarted /\ p.done \subseteq p.used
    /\ p.loose = {}

ShowingBooked(t, p) ==
    /\ t.visible => p.shown
    /\ t.omitted => p.shown
    /\ t.toolsStarted # {} => p.shown
    /\ p.error = t.terminalError

(* What is finished is admitted, so it never exceeds the limit of the        *)
(* finished ones and none is forgotten.                                      *)
ItemsBooked(t, p) ==
    /\ IsFiniteSet(t.live) /\ Cardinality(t.live) <= MaxLiveItems
    /\ p.items \subseteq t.live /\ t.finished \subseteq t.live
    /\ p.done \subseteq t.finished

(* Of an item that is not finished the budget spent is what the page has;    *)
(* a field whose last piece was sent is cut.                                 *)
BudgetBooked(t, p) ==
    /\ \A k \in Keys :
          /\ p.chars[k] <= ResultMax /\ p.count[k] <= MaxAppends
          /\ k[1] \notin t.finished => p.chars[k] = t.chars[k] /\ p.count[k] = t.count[k]
          /\ k[1] \notin t.finished /\ t.count[k] = MaxAppends => k \in t.cut
    /\ p.late = {}

Faithful(t, p) ==
    /\ t \in TrType /\ p \in PageType
    /\ t.closed = FALSE /\ p.end = "none"
    /\ MessagesBooked(t, p) /\ CardsBooked(t, p) /\ ShowingBooked(t, p)
    /\ ItemsBooked(t, p) /\ BudgetBooked(t, p)

StreamInv ==
    /\ tr \in TrType /\ page \in PageType /\ fed \in Nat
    /\ ~tr.closed => Faithful(tr, page)
    /\ tr.closed => StreamSafe /\ page.begun = page.ended /\ page.end # "none"
-----------------------------------------------------------------------------
(* The helpers.                                                              *)

LEMMA KeyOfItem ==
    ASSUME NEW k \in Keys
    PROVE  k[1] \in Items /\ k[2] \in StreamNames /\ k = <<k[1], k[2]>>
  BY DEF Keys

LEMMA ItemKey ==
    ASSUME NEW id \in Items, NEW name \in StreamNames
    PROVE  <<id, name>> \in Keys /\ <<id, name>>[1] = id
  BY DEF Keys

(* An item that is admitted keeps the limit of the turn's items.             *)
LEMMA AdmittedFaithful ==
    ASSUME NEW t, NEW p, Faithful(t, p), NEW id \in Items,
           id \in t.live \/ Cardinality(t.live) < MaxLiveItems
    PROVE  /\ Faithful(Admitted(t, id), p) /\ id \in Admitted(t, id).live
           /\ Admitted(t, id).started = t.started /\ Admitted(t, id).open = t.open
           /\ Admitted(t, id).toolsStarted = t.toolsStarted /\ Admitted(t, id).textSeen = t.textSeen
           /\ Admitted(t, id).finished = t.finished /\ Admitted(t, id).cut = t.cut
           /\ Admitted(t, id).chars = t.chars /\ Admitted(t, id).count = t.count
           /\ Admitted(t, id).reasoning = t.reasoning
<1> DEFINE live == t.live \cup {id}
<1>1. t \in TrType /\ p \in PageType /\ ItemsBooked(t, p)
  BY DEF Faithful
<1>2. IsFiniteSet(live) /\ Cardinality(live) <= MaxLiveItems
  <2>1. IsFiniteSet(t.live) /\ Cardinality(t.live) <= MaxLiveItems
    BY <1>1 DEF ItemsBooked
  <2>2. Cardinality(t.live) \in Nat /\ MaxLiveItems \in Nat
    BY <2>1, FS_CardinalityType, StreamConstants
  <2>3. IsFiniteSet(live) /\ Cardinality(live) = IF id \in t.live THEN Cardinality(t.live)
                                                ELSE Cardinality(t.live) + 1
    BY <2>1, FS_AddElement
  <2> QED BY <2>1, <2>2, <2>3
<1>3. Admitted(t, id) = [t EXCEPT !.live = live]
  BY DEF Admitted
<1>4. Admitted(t, id) \in TrType
  BY <1>1, <1>3 DEF TrType
<1>5. /\ Admitted(t, id).live = live
      /\ Admitted(t, id).started = t.started /\ Admitted(t, id).open = t.open
      /\ Admitted(t, id).toolsStarted = t.toolsStarted /\ Admitted(t, id).textSeen = t.textSeen
      /\ Admitted(t, id).finished = t.finished /\ Admitted(t, id).cut = t.cut
      /\ Admitted(t, id).chars = t.chars /\ Admitted(t, id).count = t.count
      /\ Admitted(t, id).visible = t.visible /\ Admitted(t, id).omitted = t.omitted
      /\ Admitted(t, id).terminalError = t.terminalError /\ Admitted(t, id).closed = t.closed
      /\ Admitted(t, id).reasoning = t.reasoning
  BY <1>1, <1>3 DEF TrType
<1>6. ItemsBooked(Admitted(t, id), p)
  BY <1>1, <1>2, <1>5 DEF ItemsBooked
<1> HIDE DEF live
<1> QED
  <2>1. MessagesBooked(Admitted(t, id), p) /\ CardsBooked(Admitted(t, id), p)
        /\ ShowingBooked(Admitted(t, id), p) /\ BudgetBooked(Admitted(t, id), p)
    BY <1>5 DEF Faithful, MessagesBooked, CardsBooked, ShowingBooked, BudgetBooked
  <2>2. id \in live
    BY DEF live
  <2> QED BY <1>1, <1>4, <1>5, <1>6, <2>1, <2>2 DEF Faithful

(* What is told beside the books changes none of them.                       *)
LEMMA TellsFaithful ==
    ASSUME NEW t, NEW p, Faithful(t, p), NEW id \in t.live
    PROVE  /\ Faithful(t, Tells(p, id)) /\ Tells(p, id).shown
           /\ Tells(p, id).done = p.done
<1>1. t \in TrType /\ p \in PageType /\ id \in Items
  BY DEF Faithful, TrType
<1>2. Tells(p, id) = [p EXCEPT !.shown = TRUE, !.items = p.items \cup {id}]
  BY <1>1 DEF Tells, PageType
<1>3. /\ Tells(p, id) \in PageType /\ Tells(p, id).shown = TRUE
      /\ Tells(p, id).items = p.items \cup {id}
      /\ Tells(p, id).begun = p.begun /\ Tells(p, id).ended = p.ended
      /\ Tells(p, id).whole = p.whole /\ Tells(p, id).pieces = p.pieces
      /\ Tells(p, id).doubled = p.doubled /\ Tells(p, id).used = p.used
      /\ Tells(p, id).loose = p.loose /\ Tells(p, id).done = p.done
      /\ Tells(p, id).chars = p.chars /\ Tells(p, id).count = p.count
      /\ Tells(p, id).late = p.late /\ Tells(p, id).error = p.error /\ Tells(p, id).end = p.end
  <2>1. p.items \cup {id} \in SUBSET Items
    BY <1>1 DEF PageType
  <2> QED BY <1>1, <1>2, <2>1 DEF PageType
<1>4. ItemsBooked(t, Tells(p, id))
  BY <1>3 DEF Faithful, ItemsBooked
<1>5. MessagesBooked(t, Tells(p, id)) /\ CardsBooked(t, Tells(p, id))
      /\ ShowingBooked(t, Tells(p, id)) /\ BudgetBooked(t, Tells(p, id))
  BY <1>3 DEF Faithful, MessagesBooked, CardsBooked, ShowingBooked, BudgetBooked
<1> QED BY <1>1, <1>3, <1>4, <1>5 DEF Faithful

(* The translator may count a turn as visible once the page was shown        *)
(* something; what it knows of the reasoning is its own.                     *)
LEMMA VisibleFaithful ==
    ASSUME NEW t, NEW p, Faithful(t, p), NEW seen \in BOOLEAN, seen => p.shown,
           NEW thought \in SUBSET Items
    PROVE  Faithful([t EXCEPT !.visible = seen, !.reasoning = thought], p)
<1> DEFINE s == [t EXCEPT !.visible = seen, !.reasoning = thought]
<1>1. t \in TrType /\ p \in PageType
  BY DEF Faithful
<1>2. /\ s \in TrType /\ s.visible = seen
      /\ s.live = t.live /\ s.started = t.started /\ s.open = t.open
      /\ s.toolsStarted = t.toolsStarted /\ s.textSeen = t.textSeen
      /\ s.finished = t.finished /\ s.cut = t.cut /\ s.chars = t.chars /\ s.count = t.count
      /\ s.omitted = t.omitted /\ s.terminalError = t.terminalError /\ s.closed = t.closed
  BY <1>1 DEF TrType
<1> HIDE DEF s
<1>3. MessagesBooked(s, p) /\ CardsBooked(s, p)
      /\ ShowingBooked(s, p) /\ BudgetBooked(s, p) /\ ItemsBooked(s, p)
  BY <1>2 DEF Faithful, MessagesBooked, CardsBooked, ShowingBooked, BudgetBooked, ItemsBooked
<1>4. Faithful(s, p)
  BY <1>1, <1>2, <1>3 DEF Faithful
<1> QED BY <1>4 DEF s

(* A message is begun after the one that is open was ended.                  *)
LEMMA StartedFaithful ==
    ASSUME NEW t, NEW p, Faithful(t, p), NEW id \in t.live
    PROVE  /\ Faithful(TrStarted(t, id), PageStarted(t, p, id))
           /\ TrStarted(t, id).live = t.live /\ id \in TrStarted(t, id).started
           /\ TrStarted(t, id).textSeen = t.textSeen
           /\ PageStarted(t, p, id).whole = p.whole
           /\ PageStarted(t, p, id).pieces = p.pieces
<1> DEFINE s == TrStarted(t, id)
           q == PageStarted(t, p, id)
<1>1. t \in TrType /\ p \in PageType /\ id \in Items
  BY DEF Faithful, TrType
<1>2. CASE id \in t.started
  BY <1>1, <1>2 DEF TrStarted, PageStarted
<1>3. CASE id \notin t.started
  <2>1. s = [t EXCEPT !.started = t.started \cup {id}, !.open = id]
    BY <1>1, <1>3 DEF TrStarted, TrType
  <2>2. PICK over : over = IF t.open = NoMessage THEN p.ended ELSE p.ended \cup {t.open}
    OBVIOUS
  <2>3. Closes(t, p) = [p EXCEPT !.ended = over]
    BY <2>2, <1>1 DEF Closes, PageType
  <2>4. over \in SUBSET Items
    BY <2>2, <1>1 DEF TrType, PageType
  <2>5. Closes(t, p) \in PageType
    BY <2>3, <2>4, <1>1 DEF PageType
  <2>6. q = [Closes(t, p) EXCEPT !.begun = p.begun \cup {id}, !.items = p.items \cup {id}]
    BY <1>1, <1>3, <2>3, <2>5 DEF PageStarted, PageType
  <2>7. /\ q \in PageType /\ q.begun = p.begun \cup {id} /\ q.items = p.items \cup {id}
        /\ q.ended = over /\ q.whole = p.whole /\ q.pieces = p.pieces /\ q.doubled = p.doubled
        /\ q.used = p.used /\ q.loose = p.loose /\ q.done = p.done
        /\ q.chars = p.chars /\ q.count = p.count /\ q.late = p.late /\ q.shown = p.shown
        /\ q.error = p.error /\ q.end = p.end
    <3>1. p.begun \cup {id} \in SUBSET Items /\ p.items \cup {id} \in SUBSET Items
      BY <1>1 DEF PageType
    <3>2. q = [p EXCEPT !.ended = over, !.begun = p.begun \cup {id}, !.items = p.items \cup {id}]
      BY <1>1, <2>3, <2>6 DEF PageType
    <3> HIDE DEF q
    <3> QED BY <1>1, <2>4, <3>1, <3>2 DEF PageType
  <2>8. /\ s \in TrType /\ s.started = t.started \cup {id} /\ s.open = id
        /\ s.live = t.live /\ s.visible = t.visible
        /\ s.toolsStarted = t.toolsStarted /\ s.textSeen = t.textSeen
        /\ s.finished = t.finished /\ s.cut = t.cut /\ s.chars = t.chars /\ s.count = t.count
        /\ s.omitted = t.omitted /\ s.terminalError = t.terminalError /\ s.closed = t.closed
    <3>1. t.started \cup {id} \in SUBSET Items /\ id \in Items \cup {NoMessage}
      BY <1>1 DEF TrType
    <3> HIDE DEF s
    <3> QED BY <1>1, <2>1, <3>1 DEF TrType
  <2> HIDE DEF s, q
  <2>9. MessagesBooked(s, q)
    <3>1. MessagesBooked(t, p)
      BY DEF Faithful
    <3>2. over \subseteq p.begun /\ \A m \in p.begun : m \in over
      <4>1. NoMessage \notin p.begun
        BY <1>1, StreamConstants DEF PageType
      <4>2. CASE t.open = NoMessage
        BY <2>2, <3>1, <4>1, <4>2 DEF MessagesBooked
      <4>3. CASE t.open # NoMessage
        BY <2>2, <3>1, <4>3 DEF MessagesBooked
      <4> QED BY <4>2, <4>3
    <3> QED BY <2>7, <2>8, <3>1, <3>2 DEF MessagesBooked
  <2>10. ItemsBooked(s, q)
    BY <2>7, <2>8 DEF Faithful, ItemsBooked
  <2>11. CardsBooked(s, q) /\ ShowingBooked(s, q) /\ BudgetBooked(s, q)
    BY <2>7, <2>8 DEF Faithful, CardsBooked, ShowingBooked, BudgetBooked
  <2> QED BY <2>7, <2>8, <2>9, <2>10, <2>11 DEF Faithful, s, q
<1> QED BY <1>2, <1>3

(* A piece of its text, or the whole of it where no piece was sent.          *)
LEMMA TextFaithful ==
    ASSUME NEW t, NEW p, Faithful(t, p), NEW id \in t.live
    PROVE  /\ Faithful(TrText(t, id), [Tells(PageStarted(t, p, id), id) EXCEPT
                                          !.pieces = PageStarted(t, p, id).pieces \cup {id}])
           /\ id \notin t.textSeen => Faithful(TrText(t, id), PageWhole(t, p, id))
           /\ TrText(t, id).live = t.live /\ id \in TrText(t, id).started
<1> DEFINE s == TrStarted(t, id)
           q == Tells(PageStarted(t, p, id), id)
           u == TrText(t, id)
           w == [q EXCEPT !.pieces = p.pieces \cup {id}]
           v == PageWhole(t, p, id)
<1>1. t \in TrType /\ p \in PageType /\ id \in Items
  BY DEF Faithful, TrType
<1>2. Faithful(s, PageStarted(t, p, id)) /\ s.live = t.live /\ id \in s.started
      /\ s.textSeen = t.textSeen
      /\ PageStarted(t, p, id).whole = p.whole /\ PageStarted(t, p, id).pieces = p.pieces
  BY StartedFaithful
<1>3. PageStarted(t, p, id) \in PageType
  BY <1>2 DEF Faithful
<1>4. Faithful(s, q) /\ q.shown /\ q.whole = p.whole /\ q.pieces = p.pieces
      /\ s \in TrType /\ q \in PageType
  <2>1. Faithful(s, q) /\ q.shown
    BY <1>2, TellsFaithful
  <2>2. q.whole = p.whole /\ q.pieces = p.pieces
    BY <1>2, <1>3 DEF Tells, PageType
  <2> QED BY <2>1, <2>2 DEF Faithful
<1> HIDE DEF s, q
<1>5. u = [s EXCEPT !.textSeen = t.textSeen \cup {id}, !.visible = TRUE]
  BY <1>2, <1>4 DEF TrText, s
<1>6. /\ u \in TrType /\ u.started = s.started /\ u.open = s.open
      /\ u.live = s.live /\ u.visible = TRUE
      /\ u.toolsStarted = s.toolsStarted /\ u.textSeen = t.textSeen \cup {id}
      /\ u.finished = s.finished /\ u.cut = s.cut /\ u.chars = s.chars /\ u.count = s.count
      /\ u.omitted = s.omitted /\ u.terminalError = s.terminalError /\ u.closed = s.closed
  <2>1. t.textSeen \cup {id} \in SUBSET Items
    BY <1>1 DEF TrType
  <2> HIDE DEF u
  <2> QED BY <1>4, <1>5, <2>1 DEF TrType
<1> HIDE DEF u
<1>7. Faithful(u, w)
  <2>1. /\ w \in PageType /\ w.pieces = p.pieces \cup {id}
        /\ w.begun = q.begun /\ w.items = q.items
        /\ w.ended = q.ended /\ w.whole = q.whole /\ w.doubled = q.doubled
        /\ w.used = q.used /\ w.loose = q.loose /\ w.done = q.done
        /\ w.chars = q.chars /\ w.count = q.count /\ w.late = q.late /\ w.shown = q.shown
        /\ w.error = q.error /\ w.end = q.end
    BY <1>1, <1>4 DEF PageType
  <2> HIDE DEF w
  <2>2. MessagesBooked(u, w)
    BY <1>2, <1>4, <1>6, <2>1 DEF Faithful, MessagesBooked
  <2>3. CardsBooked(u, w) /\ ShowingBooked(u, w) /\ BudgetBooked(u, w) /\ ItemsBooked(u, w)
    BY <1>4, <1>6, <2>1 DEF Faithful, CardsBooked, ShowingBooked, BudgetBooked, ItemsBooked
  <2> QED BY <1>4, <1>6, <2>1, <2>2, <2>3 DEF Faithful
<1>8. ASSUME id \notin t.textSeen PROVE Faithful(u, v)
  <2>0. id \notin p.whole \cup p.pieces
    BY <1>8 DEF Faithful, MessagesBooked
  <2>1. v = [q EXCEPT !.whole = p.whole \cup {id}, !.doubled = q.doubled]
    BY <1>4, <2>0 DEF PageWhole, q, PageType
  <2>2. /\ v \in PageType /\ v.whole = p.whole \cup {id}
        /\ v.begun = q.begun /\ v.items = q.items
        /\ v.ended = q.ended /\ v.pieces = q.pieces /\ v.doubled = q.doubled
        /\ v.used = q.used /\ v.loose = q.loose /\ v.done = q.done
        /\ v.chars = q.chars /\ v.count = q.count /\ v.late = q.late /\ v.shown = q.shown
        /\ v.error = q.error /\ v.end = q.end
    <3>1. p.whole \cup {id} \in SUBSET Items /\ q.doubled \in SUBSET Items
      BY <1>1, <1>4 DEF PageType
    <3> HIDE DEF v
    <3> QED BY <1>4, <2>1, <3>1 DEF PageType
  <2> HIDE DEF v
  <2>3. MessagesBooked(u, v)
    BY <1>2, <1>4, <1>6, <2>2 DEF Faithful, MessagesBooked
  <2>4. CardsBooked(u, v) /\ ShowingBooked(u, v) /\ BudgetBooked(u, v) /\ ItemsBooked(u, v)
    BY <1>4, <1>6, <2>2 DEF Faithful, CardsBooked, ShowingBooked, BudgetBooked, ItemsBooked
  <2> QED BY <1>4, <1>6, <2>2, <2>3, <2>4 DEF Faithful
<1>9. u.live = t.live /\ id \in u.started
  BY <1>2, <1>6 DEF s
<1>10. w = [Tells(PageStarted(t, p, id), id) EXCEPT !.pieces = PageStarted(t, p, id).pieces \cup {id}]
  BY <1>2 DEF q
<1> QED BY <1>7, <1>8, <1>9, <1>10 DEF u

(* Its completion ends it.                                                   *)
LEMMA EndedFaithful ==
    ASSUME NEW t, NEW p, Faithful(t, p), NEW id \in t.live
    PROVE  Faithful(TrEnded(t, id), PageEnded(t, p, id))
<1> DEFINE s == TrEnded(t, id)
           q == PageEnded(t, p, id)
<1>1. t \in TrType /\ p \in PageType /\ id \in Items
  BY DEF Faithful, TrType
<1>2. CASE id \notin t.started
  BY <1>2 DEF TrEnded, PageEnded
<1>3. CASE id \in t.started
  <2>1. PICK o : o = IF t.open = id THEN NoMessage ELSE t.open
    OBVIOUS
  <2>2. s = [t EXCEPT !.open = o]
    BY <1>1, <1>3, <2>1 DEF TrEnded, TrType
  <2>3. q = [p EXCEPT !.ended = p.ended \cup {id}]
    BY <1>1, <1>3 DEF PageEnded, PageType
  <2>4. /\ s \in TrType /\ s.open = o /\ s.started = t.started
        /\ s.live = t.live /\ s.visible = t.visible
        /\ s.toolsStarted = t.toolsStarted /\ s.textSeen = t.textSeen
        /\ s.finished = t.finished /\ s.cut = t.cut /\ s.chars = t.chars /\ s.count = t.count
        /\ s.omitted = t.omitted /\ s.terminalError = t.terminalError /\ s.closed = t.closed
    BY <1>1, <2>1, <2>2 DEF TrType
  <2>5. /\ q \in PageType /\ q.ended = p.ended \cup {id}
        /\ q.begun = p.begun /\ q.items = p.items
        /\ q.whole = p.whole /\ q.pieces = p.pieces /\ q.doubled = p.doubled
        /\ q.used = p.used /\ q.loose = p.loose /\ q.done = p.done
        /\ q.chars = p.chars /\ q.count = p.count /\ q.late = p.late /\ q.shown = p.shown
        /\ q.error = p.error /\ q.end = p.end
    BY <1>1, <2>3 DEF PageType
  <2> HIDE DEF s, q
  <2>6. MessagesBooked(s, q)
    BY <1>3, <2>1, <2>4, <2>5 DEF Faithful, MessagesBooked
  <2>7. CardsBooked(s, q) /\ ShowingBooked(s, q) /\ BudgetBooked(s, q) /\ ItemsBooked(s, q)
    BY <2>4, <2>5 DEF Faithful, CardsBooked, ShowingBooked, BudgetBooked, ItemsBooked
  <2> QED BY <2>4, <2>5, <2>6, <2>7 DEF Faithful, s, q
<1> QED BY <1>2, <1>3

(* A card hangs under the open message, or under the one begun for it.       *)
LEMMA UseFaithful ==
    ASSUME NEW t, NEW p, Faithful(t, p), NEW id \in t.live
    PROVE  /\ Faithful(TrUse(t, id), PageUse(t, p, id))
           /\ TrUse(t, id).live = t.live /\ id \in TrUse(t, id).toolsStarted
<1> DEFINE s == TrUse(t, id)
           q == PageUse(t, p, id)
<1>1. t \in TrType /\ p \in PageType /\ id \in Items
  BY DEF Faithful, TrType
<1>2. CASE id \in t.toolsStarted
  <2>1. p.shown /\ t.reasoning \in SUBSET Items
    BY <1>1, <1>2 DEF Faithful, ShowingBooked, TrType
  <2>2. s = [t EXCEPT !.visible = TRUE, !.reasoning = t.reasoning]
    BY <1>1, <1>2 DEF TrUse, TrType
  <2>3. Faithful(s, p)
    <3> HIDE DEF s
    <3> QED BY <2>1, <2>2, VisibleFaithful
  <2>4. s.live = t.live /\ s.toolsStarted = t.toolsStarted
    BY <1>1, <1>2 DEF TrUse, TrType
  <2> QED BY <1>2, <2>3, <2>4 DEF PageUse
<1>3. CASE id \notin t.toolsStarted
  <2>1. PICK o : o = IF t.open = NoMessage THEN id ELSE t.open
    OBVIOUS
  <2>2. PICK more : more = IF t.open = NoMessage THEN {id} ELSE {}
    OBVIOUS
  <2>3. more \in SUBSET Items /\ o \in Items
    BY <1>1, <2>1, <2>2 DEF TrType
  <2>4. s = [t EXCEPT !.toolsStarted = t.toolsStarted \cup {id}, !.visible = TRUE, !.open = o,
                      !.started = t.started \cup more]
    <3>1. t.started \cup more = IF t.open = NoMessage THEN t.started \cup {id} ELSE t.started
      BY <2>2
    <3> QED BY <1>1, <1>3, <2>1, <3>1 DEF TrUse, TrType
  <2>5. p.loose = {} /\ (t.open = NoMessage \/ t.open \in p.begun)
    BY DEF Faithful, CardsBooked, MessagesBooked
  <2>6. q = [p EXCEPT !.shown = TRUE, !.items = p.items \cup {id}, !.begun = p.begun \cup more,
                      !.used = p.used \cup {id}]
    <3>1. p.begun \cup more = IF t.open = NoMessage THEN p.begun \cup {id} ELSE p.begun
      BY <2>2
    <3>2. q = [p EXCEPT !.shown = TRUE, !.items = p.items \cup {id}, !.begun = p.begun \cup more,
                        !.used = p.used \cup {id}, !.loose = p.loose]
      BY <1>1, <1>3, <2>5, <3>1 DEF PageUse, Tells, PageType
    <3> QED BY <1>1, <3>2 DEF PageType
  <2>7. /\ s \in TrType /\ s.toolsStarted = t.toolsStarted \cup {id} /\ s.visible = TRUE
        /\ s.open = o /\ s.started = t.started \cup more
        /\ s.live = t.live /\ s.textSeen = t.textSeen
        /\ s.finished = t.finished /\ s.cut = t.cut /\ s.chars = t.chars /\ s.count = t.count
        /\ s.omitted = t.omitted /\ s.terminalError = t.terminalError /\ s.closed = t.closed
    <3>1. t.started \cup more \in SUBSET Items /\ t.toolsStarted \cup {id} \in SUBSET Items
      BY <1>1, <2>3 DEF TrType
    <3> HIDE DEF s
    <3> QED BY <1>1, <2>3, <2>4, <3>1 DEF TrType
  <2>8. /\ q \in PageType /\ q.shown = TRUE /\ q.items = p.items \cup {id}
        /\ q.begun = p.begun \cup more /\ q.used = p.used \cup {id}
        /\ q.ended = p.ended /\ q.whole = p.whole /\ q.pieces = p.pieces /\ q.doubled = p.doubled
        /\ q.loose = p.loose /\ q.done = p.done
        /\ q.chars = p.chars /\ q.count = p.count /\ q.late = p.late
        /\ q.error = p.error /\ q.end = p.end
    <3>1. /\ p.begun \cup more \in SUBSET Items /\ p.items \cup {id} \in SUBSET Items
          /\ p.used \cup {id} \in SUBSET Items
      BY <1>1, <2>3 DEF PageType
    <3> HIDE DEF q
    <3> QED BY <1>1, <2>6, <3>1 DEF PageType
  <2> HIDE DEF s, q
  <2>9. MessagesBooked(s, q)
    <3>1. MessagesBooked(t, p)
      BY DEF Faithful
    <3>2. NoMessage \notin p.begun
      BY <1>1, StreamConstants DEF PageType
    <3>3. CASE t.open = NoMessage
      BY <2>1, <2>2, <2>7, <2>8, <3>1, <3>2, <3>3 DEF MessagesBooked
    <3>4. CASE t.open # NoMessage
      BY <2>1, <2>2, <2>7, <2>8, <3>1, <3>4 DEF MessagesBooked
    <3> QED BY <3>3, <3>4
  <2>10. CardsBooked(s, q) /\ ShowingBooked(s, q)
    BY <2>7, <2>8 DEF Faithful, CardsBooked, ShowingBooked
  <2>11. BudgetBooked(s, q) /\ ItemsBooked(s, q)
    BY <2>7, <2>8 DEF Faithful, BudgetBooked, ItemsBooked
  <2>12. Faithful(s, q)
    BY <2>7, <2>8, <2>9, <2>10, <2>11 DEF Faithful
  <2> QED BY <2>7, <2>12 DEF s, q
<1> QED BY <1>2, <1>3

(* An item that is over is remembered as such, whatever it had: the limit of *)
(* the finished items is not reached before the one of the admitted ones.    *)
LEMMA FinishedFaithful ==
    ASSUME NEW t, NEW p, Faithful(t, p), NEW id \in t.live
    PROVE  /\ Faithful(Finished(t, id), p)
           /\ Finished(t, id).live = t.live /\ id \in Finished(t, id).finished
           /\ Finished(t, id).toolsStarted = t.toolsStarted
<1> DEFINE s == Finished(t, id)
<1>1. t \in TrType /\ p \in PageType /\ id \in Items
  BY DEF Faithful, TrType
<1>2. Cardinality(t.finished) < MaxFinishedItems \/ id \in t.finished
  <2>1. IsFiniteSet(t.live) /\ Cardinality(t.live) <= MaxLiveItems /\ t.finished \subseteq t.live
    BY DEF Faithful, ItemsBooked
  <2>2. CASE t.finished = t.live
    BY <2>2
  <2>3. CASE t.finished # t.live
    <3>1. /\ IsFiniteSet(t.finished) /\ Cardinality(t.finished) <= Cardinality(t.live)
          /\ Cardinality(t.finished) # Cardinality(t.live)
      BY <2>1, <2>3, FS_Subset, Zenon
    <3>2. /\ Cardinality(t.finished) \in Nat /\ Cardinality(t.live) \in Nat
          /\ MaxLiveItems \in Nat /\ MaxFinishedItems \in Nat /\ MaxLiveItems <= MaxFinishedItems
      BY <2>1, <3>1, FS_CardinalityType, StreamConstants
    <3> QED BY <2>1, <3>1, <3>2
  <2> QED BY <2>2, <2>3
<1>3. PICK over : over = t.finished \cup {id}
  OBVIOUS
<1>4. PICK chars : chars = [k \in Keys |-> IF k[1] = id THEN 0 ELSE t.chars[k]]
  OBVIOUS
<1>5. PICK count : count = [k \in Keys |-> IF k[1] = id THEN 0 ELSE t.count[k]]
  OBVIOUS
<1>6. PICK cut : cut = {k \in t.cut : k[1] # id}
  OBVIOUS
<1>7. s = [t EXCEPT !.finished = over, !.chars = chars, !.count = count, !.cut = cut]
  <2>1. over = IF Cardinality(t.finished) < MaxFinishedItems THEN t.finished \cup {id} ELSE t.finished
    BY <1>2, <1>3
  <2>2. s = [t EXCEPT !.finished = over,
                 !.chars = [k \in Keys |-> IF k[1] = id THEN 0 ELSE t.chars[k]],
                 !.count = [k \in Keys |-> IF k[1] = id THEN 0 ELSE t.count[k]],
                 !.cut = {k \in t.cut : k[1] # id}]
    BY <1>1, <2>1 DEF Finished, TrType
  <2> QED BY <1>4, <1>5, <1>6, <2>2
<1>8. /\ s \in TrType /\ s.finished = over /\ s.chars = chars /\ s.count = count /\ s.cut = cut
      /\ s.open = t.open /\ s.started = t.started /\ s.live = t.live /\ s.visible = t.visible
      /\ s.toolsStarted = t.toolsStarted /\ s.textSeen = t.textSeen
      /\ s.omitted = t.omitted /\ s.terminalError = t.terminalError /\ s.closed = t.closed
  <2>1. over \in SUBSET Items /\ cut \in SUBSET Keys
    BY <1>1, <1>3, <1>6 DEF TrType
  <2>2. chars \in [Keys -> Nat] /\ count \in [Keys -> Nat]
    BY <1>1, <1>4, <1>5 DEF TrType
  <2> HIDE DEF s
  <2> QED BY <1>1, <1>7, <2>1, <2>2 DEF TrType
<1> HIDE DEF s
<1>9. MessagesBooked(s, p) /\ CardsBooked(s, p) /\ ShowingBooked(s, p)
  BY <1>8 DEF Faithful, MessagesBooked, CardsBooked, ShowingBooked
<1>10. ItemsBooked(s, p)
  BY <1>3, <1>8 DEF Faithful, ItemsBooked
<1>11. BudgetBooked(s, p)
  <2>1. BudgetBooked(t, p)
    BY DEF Faithful
  <2>2. ASSUME NEW k \in Keys, k[1] \notin over
        PROVE  /\ p.chars[k] = chars[k] /\ p.count[k] = count[k]
               /\ count[k] = MaxAppends => k \in cut
    BY <1>3, <1>4, <1>5, <1>6, <2>1, <2>2 DEF BudgetBooked
  <2> QED BY <1>8, <2>1, <2>2 DEF BudgetBooked
<1>12. Faithful(s, p)
  BY <1>1, <1>8, <1>9, <1>10, <1>11 DEF Faithful
<1> QED BY <1>3, <1>8, <1>12 DEF s

(* Its result is the last thing a page is sent of a tool.                    *)
LEMMA DoneFaithful ==
    ASSUME NEW t, NEW p, Faithful(t, p), NEW id \in t.finished, id \in t.toolsStarted
    PROVE  Faithful(t, [p EXCEPT !.done = p.done \cup {id}])
<1> DEFINE q == [p EXCEPT !.done = p.done \cup {id}]
<1>1. t \in TrType /\ p \in PageType /\ id \in Items
  BY DEF Faithful, TrType
<1>2. /\ q \in PageType /\ q.done = p.done \cup {id}
      /\ q.shown = p.shown /\ q.items = p.items /\ q.begun = p.begun /\ q.used = p.used
      /\ q.ended = p.ended /\ q.whole = p.whole /\ q.pieces = p.pieces /\ q.doubled = p.doubled
      /\ q.loose = p.loose /\ q.chars = p.chars /\ q.count = p.count /\ q.late = p.late
      /\ q.error = p.error /\ q.end = p.end
  <2>1. p.done \cup {id} \in SUBSET Items
    BY <1>1 DEF PageType
  <2> QED BY <1>1, <2>1 DEF PageType
<1> HIDE DEF q
<1>3. MessagesBooked(t, q) /\ CardsBooked(t, q) /\ ShowingBooked(t, q) /\ ItemsBooked(t, q)
  BY <1>2 DEF Faithful, MessagesBooked, CardsBooked, ShowingBooked, ItemsBooked
<1>4. BudgetBooked(t, q)
  BY <1>2 DEF Faithful, BudgetBooked
<1>5. Faithful(t, q)
  BY <1>1, <1>2, <1>3, <1>4 DEF Faithful
<1> QED BY <1>5 DEF q

(* A piece fits in what is left of the budget, and the last of the pieces    *)
(* that may be sent is the notice that cuts the field.                       *)
LEMMA PieceFits ==
    ASSUME NEW t, NEW p, Faithful(t, p), NEW key \in Keys, Takes(t, key), NEW n \in Nat
    PROVE  /\ Piece(t, key, n) \in Nat /\ t.chars[key] \in Nat /\ t.count[key] \in Nat
           /\ t.chars[key] + Piece(t, key, n) <= ResultMax
           /\ t.count[key] + 1 <= MaxAppends \/ Piece(t, key, n) = 0
           /\ t.count[key] + 1 = MaxAppends => Spent(t, key)
<1>1. t.chars[key] \in Nat /\ t.count[key] \in Nat
  BY DEF Faithful, TrType
<1>2. /\ ResultMax \in Nat \ {0} /\ EventMax \in Nat \ {0} /\ NoticeSize \in Nat \ {0}
      /\ MaxAppends \in Nat \ {0}
  BY StreamConstants
<1>3. t.chars[key] <= ResultMax /\ t.count[key] <= MaxAppends /\ t.count[key] # MaxAppends
  <2>1. key[1] \notin t.finished /\ key \notin t.cut
    BY DEF Takes
  <2> QED BY <2>1 DEF Faithful, BudgetBooked
<1>4. t.count[key] + 1 <= MaxAppends /\ (t.count[key] + 1 = MaxAppends => Spent(t, key))
  BY <1>1, <1>2, <1>3 DEF Spent
<1>5. PICK left : left = ResultMax - t.chars[key]
  OBVIOUS
<1>6. left \in Nat /\ t.chars[key] + left = ResultMax
  BY <1>1, <1>2, <1>3, <1>5
<1>7. Piece(t, key, n) \in Nat /\ Piece(t, key, n) <= left
  <2>1. CASE Spent(t, key)
    BY <1>2, <1>5, <1>6, <2>1 DEF Piece, Remaining, Least
  <2>2. CASE ~Spent(t, key) /\ n <= Allowed(t, key)
    BY <1>2, <1>5, <1>6, <2>2 DEF Piece, Remaining, Least, Allowed
  <2>3. CASE ~Spent(t, key) /\ ~(n <= Allowed(t, key))
    BY <1>2, <1>5, <1>6, <2>3 DEF Piece, Remaining, Least, Allowed
  <2> QED BY <2>1, <2>2, <2>3
<1>8. t.chars[key] + Piece(t, key, n) <= ResultMax
  BY <1>1, <1>6, <1>7
<1> QED BY <1>1, <1>4, <1>7, <1>8

(* What is appended on the page is what the translator books for it.         *)
LEMMA AppendFaithful ==
    ASSUME NEW t, NEW p, Faithful(t, p), NEW key \in Keys, key[1] \in t.live, NEW n \in Nat
    PROVE  /\ Faithful(TrAppend(t, key, n), PageAppend(t, p, key, n))
           /\ TrAppend(t, key, n).live = t.live /\ TrAppend(t, key, n).reasoning = t.reasoning
           /\ TrAppend(t, key, n).visible = t.visible
           /\ p.shown \/ Sent(t, key, n) => PageAppend(t, p, key, n).shown
<1> DEFINE s == TrAppend(t, key, n)
           q == PageAppend(t, p, key, n)
<1>1. t \in TrType /\ p \in PageType /\ key[1] \in Items
  BY KeyOfItem DEF Faithful, TrType
<1>2. CASE ~Takes(t, key)
  BY <1>2 DEF TrAppend, PageAppend, Sent
<1>3. CASE Takes(t, key)
  <2>1. PICK m : m = Piece(t, key, n)
    OBVIOUS
  <2>2. /\ m \in Nat /\ t.chars[key] \in Nat /\ t.count[key] \in Nat
        /\ t.chars[key] + m <= ResultMax
        /\ t.count[key] + 1 <= MaxAppends \/ m = 0
        /\ t.count[key] + 1 = MaxAppends => Spent(t, key)
    BY <1>3, <2>1, PieceFits
  <2>3. PICK cut : cut = IF Spent(t, key) \/ n > Allowed(t, key) THEN t.cut \cup {key} ELSE t.cut
    OBVIOUS
  <2>4. PICK more : more = IF m > 0 THEN t.count[key] + 1 ELSE t.count[key]
    OBVIOUS
  <2>5. s = [t EXCEPT !.cut = cut, !.chars[key] = t.chars[key] + m, !.count[key] = more]
    BY <1>1, <1>3, <2>1, <2>3, <2>4 DEF TrAppend, TrType
  <2>6. /\ s \in TrType /\ s.cut = cut
        /\ s.chars = [t.chars EXCEPT ![key] = t.chars[key] + m]
        /\ s.count = [t.count EXCEPT ![key] = more]
        /\ s.finished = t.finished /\ s.reasoning = t.reasoning
        /\ s.open = t.open /\ s.started = t.started /\ s.live = t.live /\ s.visible = t.visible
        /\ s.toolsStarted = t.toolsStarted /\ s.textSeen = t.textSeen
        /\ s.omitted = t.omitted /\ s.terminalError = t.terminalError /\ s.closed = t.closed
    <3>1. cut \in SUBSET Keys /\ more \in Nat /\ t.chars[key] + m \in Nat
      BY <1>1, <2>2, <2>3, <2>4 DEF TrType
    <3>2. /\ [t.chars EXCEPT ![key] = t.chars[key] + m] \in [Keys -> Nat]
          /\ [t.count EXCEPT ![key] = more] \in [Keys -> Nat]
      BY <1>1, <3>1 DEF TrType
    <3>3. s = [t EXCEPT !.cut = cut, !.chars = [t.chars EXCEPT ![key] = t.chars[key] + m],
                        !.count = [t.count EXCEPT ![key] = more]]
      BY <1>1, <2>5 DEF TrType
    <3> HIDE DEF s
    <3> QED BY <1>1, <3>1, <3>2, <3>3 DEF TrType
  <2>7. key[1] \notin t.finished /\ key[1] \notin p.done /\ p.late = {}
        /\ p.chars[key] = t.chars[key] /\ p.count[key] = t.count[key]
    BY <1>3 DEF Takes, Faithful, ItemsBooked, BudgetBooked
  <2>8. PICK told : told = (m > 0)
    OBVIOUS
  <2>9. told = Sent(t, key, n)
    BY <1>3, <2>1, <2>8 DEF Sent
  <2>10. q \in PageType /\ q.done = p.done /\ q.late = {} /\ q.begun = p.begun
         /\ q.ended = p.ended /\ q.whole = p.whole /\ q.pieces = p.pieces /\ q.doubled = p.doubled
         /\ q.used = p.used /\ q.loose = p.loose /\ q.error = p.error /\ q.end = p.end
         /\ q.chars = [p.chars EXCEPT ![key] = t.chars[key] + m]
         /\ q.count = [p.count EXCEPT ![key] = more]
         /\ q.items \subseteq t.live /\ (p.shown \/ told => q.shown)
    <3>1. [p.chars EXCEPT ![key] = t.chars[key] + m] \in [Keys -> Nat]
          /\ [p.count EXCEPT ![key] = more] \in [Keys -> Nat]
      BY <1>1, <2>2, <2>4 DEF PageType
    <3>2. p.items \subseteq t.live /\ p.items \cup {key[1]} \in SUBSET Items
      BY <1>1 DEF Faithful, ItemsBooked, PageType
    <3>3. CASE m > 0
      <4>1. q = [p EXCEPT !.shown = TRUE, !.items = p.items \cup {key[1]},
                    !.chars = [p.chars EXCEPT ![key] = t.chars[key] + m],
                    !.count = [p.count EXCEPT ![key] = more], !.late = p.late]
        BY <1>1, <1>3, <2>1, <2>4, <2>7, <3>3 DEF PageAppend, Sent, Tells, PageType
      <4> HIDE DEF q
      <4> QED BY <1>1, <2>7, <3>1, <3>2, <4>1 DEF PageType
    <3>4. CASE ~(m > 0)
      <4>1. m = 0 /\ more = t.count[key]
        BY <2>2, <2>4, <3>4
      <4>2. q = p
        BY <2>1, <3>4 DEF PageAppend, Sent
      <4>3. /\ p.chars = [p.chars EXCEPT ![key] = t.chars[key] + m]
            /\ p.count = [p.count EXCEPT ![key] = more]
        BY <1>1, <2>2, <2>7, <4>1 DEF PageType
      <4> HIDE DEF q
      <4> QED BY <1>1, <2>7, <2>8, <3>2, <3>4, <4>2, <4>3
    <3> QED BY <3>3, <3>4
  <2> HIDE DEF s, q
  <2>11. MessagesBooked(s, q) /\ CardsBooked(s, q) /\ ShowingBooked(s, q) /\ ItemsBooked(s, q)
    BY <2>6, <2>10 DEF Faithful, MessagesBooked, CardsBooked, ShowingBooked, ItemsBooked
  <2>12. BudgetBooked(s, q)
    <3>1. BudgetBooked(t, p)
      BY DEF Faithful
    <3>2. ASSUME NEW k \in Keys, k # key
          PROVE  /\ q.chars[k] = p.chars[k] /\ q.count[k] = p.count[k]
                 /\ s.chars[k] = t.chars[k] /\ s.count[k] = t.count[k] /\ (k \in t.cut => k \in s.cut)
      BY <1>1, <2>3, <2>6, <2>10, <3>2 DEF PageType, TrType
    <3>3. /\ q.chars[key] = t.chars[key] + m /\ q.count[key] = more
          /\ s.chars[key] = t.chars[key] + m /\ s.count[key] = more
      BY <1>1, <2>6, <2>10 DEF PageType, TrType
    <3>4. t.count[key] <= MaxAppends /\ t.count[key] # MaxAppends /\ MaxAppends \in Nat
      BY <1>3, <2>7, StreamConstants, <3>1 DEF BudgetBooked, Takes
    <3>5. more <= MaxAppends /\ (more = MaxAppends => key \in cut)
      BY <2>2, <2>3, <2>4, <3>4
    <3>6. ASSUME NEW k \in Keys
          PROVE  /\ q.chars[k] <= ResultMax /\ q.count[k] <= MaxAppends
                 /\ k[1] \notin s.finished => q.chars[k] = s.chars[k] /\ q.count[k] = s.count[k]
                 /\ k[1] \notin s.finished /\ s.count[k] = MaxAppends => k \in s.cut
      <4>1. CASE k = key
        BY <2>2, <2>6, <3>3, <3>5, <4>1
      <4>2. CASE k # key
        BY <2>6, <3>1, <3>2, <4>2 DEF BudgetBooked
      <4> QED BY <4>1, <4>2
    <3> QED BY <2>10, <3>6 DEF BudgetBooked
  <2>13. Faithful(s, q)
    BY <2>6, <2>10, <2>11, <2>12 DEF Faithful
  <2> QED BY <2>6, <2>9, <2>10, <2>13 DEF s, q
<1> QED BY <1>2, <1>3
-----------------------------------------------------------------------------
(* The invariant.                                                            *)

LEMMA InitFaithful == StreamInit => StreamInv
<1> SUFFICES ASSUME StreamInit PROVE StreamInv
  OBVIOUS
<1>1. [k \in Keys |-> 0] \in [Keys -> Nat]
  OBVIOUS
<1>2. tr \in TrType /\ page \in PageType /\ fed \in Nat
  BY <1>1 DEF StreamInit, TrType, PageType
<1>3. MessagesBooked(tr, page) /\ CardsBooked(tr, page) /\ ShowingBooked(tr, page)
  BY DEF StreamInit, MessagesBooked, CardsBooked, ShowingBooked
<1>4. ItemsBooked(tr, page)
  <2>1. IsFiniteSet({}) /\ Cardinality({}) = 0
    BY FS_EmptySet
  <2> QED BY <2>1, StreamConstants DEF StreamInit, ItemsBooked
<1>5. BudgetBooked(tr, page)
  BY StreamConstants DEF StreamInit, BudgetBooked
<1>6. tr.closed = FALSE /\ page.end = "none"
  BY DEF StreamInit
<1> QED BY <1>2, <1>3, <1>4, <1>5, <1>6 DEF StreamInv, Faithful

(* While the turn runs the books give all that is promised of the page.      *)
LEMMA FaithfulIsSafe ==
    ASSUME tr.closed = FALSE, Faithful(tr, page)
    PROVE  StreamSafe
<1>1. CardsHang
  BY DEF Faithful, CardsBooked, CardsHang
<1>2. MessagesEnd /\ TextOnce
  BY DEF Faithful, MessagesBooked, MessagesEnd, TextOnce
<1>3. HonestEnd
  BY DEF Faithful, HonestEnd
<1>4. AppendsBounded
  <2>1. IsFiniteSet(tr.live) /\ Cardinality(tr.live) <= MaxLiveItems /\ page.items \subseteq tr.live
    BY DEF Faithful, ItemsBooked
  <2>2. IsFiniteSet(page.items) /\ Cardinality(page.items) <= Cardinality(tr.live)
    BY <2>1, FS_Subset, Zenon
  <2>3. Cardinality(page.items) \in Nat /\ Cardinality(tr.live) \in Nat /\ MaxLiveItems \in Nat
    BY <2>1, <2>2, FS_CardinalityType, StreamConstants
  <2>4. Cardinality(page.items) <= MaxLiveItems
    BY <2>1, <2>2, <2>3
  <2> QED BY <2>4 DEF Faithful, BudgetBooked, AppendsBounded
<1> QED BY <1>1, <1>2, <1>3, <1>4 DEF StreamSafe

(* A step that leaves the books faithful keeps the invariant.                *)
LEMMA StaysFaithful ==
    ASSUME StreamInv, Feeds, Faithful(tr', page')
    PROVE  StreamInv'
  BY DEF StreamInv, Feeds, Faithful

LEMMA AdmittedRuns ==
    ASSUME StreamInv, NEW id \in Items, Admits(id)
    PROVE  /\ Faithful(tr, page) /\ Faithful(Admitted(tr, id), page)
           /\ id \in Admitted(tr, id).live
           /\ Admitted(tr, id).started = tr.started
           /\ Admitted(tr, id).toolsStarted = tr.toolsStarted
           /\ Admitted(tr, id).textSeen = tr.textSeen
           /\ Admitted(tr, id).reasoning = tr.reasoning
<1>1. Faithful(tr, page) /\ (id \in tr.live \/ Cardinality(tr.live) < MaxLiveItems)
  BY DEF StreamInv, Admits
<1> QED BY <1>1, AdmittedFaithful

LEMMA MessageStartedKeeps ==
    ASSUME StreamInv, NEW id \in Messages, MessageStarted(id)
    PROVE  StreamInv'
<1>1. id \in Items /\ Admits(id) /\ Feeds
  BY DEF Items, MessageStarted
<1>2. Faithful(tr', page')
  BY <1>1, AdmittedRuns, StartedFaithful DEF MessageStarted
<1> QED BY <1>1, <1>2, StaysFaithful

LEMMA TextDeltaKeeps ==
    ASSUME StreamInv, NEW id \in Messages, TextDelta(id)
    PROVE  StreamInv'
<1>1. id \in Items /\ Admits(id) /\ Feeds
  BY DEF Items, TextDelta
<1>2. PICK t : t = Admitted(tr, id)
  OBVIOUS
<1>3. Faithful(t, page) /\ id \in t.live
  BY <1>1, <1>2, AdmittedRuns
<1>4. \/ tr' = TrStarted(t, id) /\ page' = PageStarted(t, page, id)
      \/ /\ tr' = TrText(t, id)
         /\ page' = [Tells(PageStarted(t, page, id), id) EXCEPT !.pieces = @ \cup {id}]
  BY <1>2 DEF TextDelta
<1>5. Tells(PageStarted(t, page, id), id).pieces = PageStarted(t, page, id).pieces
  <2>1. PageStarted(t, page, id) \in PageType
    BY <1>3, StartedFaithful DEF Faithful
  <2> QED BY <2>1 DEF Tells, PageType
<1>6. Faithful(tr', page')
  <2>1. CASE tr' = TrStarted(t, id) /\ page' = PageStarted(t, page, id)
    BY <1>3, <2>1, StartedFaithful
  <2>2. CASE /\ tr' = TrText(t, id)
             /\ page' = [Tells(PageStarted(t, page, id), id) EXCEPT !.pieces = @ \cup {id}]
    <3>1. page' = [Tells(PageStarted(t, page, id), id) EXCEPT
                      !.pieces = PageStarted(t, page, id).pieces \cup {id}]
      BY <1>5, <2>2
    <3> QED BY <1>3, <2>2, <3>1, TextFaithful
  <2> QED BY <1>4, <2>1, <2>2
<1> QED BY <1>1, <1>6, StaysFaithful

LEMMA MessageCompletedKeeps ==
    ASSUME StreamInv, NEW id \in Messages, MessageCompleted(id)
    PROVE  StreamInv'
<1>1. id \in Items /\ Admits(id) /\ Feeds
  BY DEF Items, MessageCompleted
<1>2. PICK s : s = Admitted(tr, id)
  OBVIOUS
<1>3. Faithful(s, page) /\ id \in s.live /\ s.textSeen = tr.textSeen
  BY <1>1, <1>2, AdmittedRuns
<1>4. PICK text \in BOOLEAN :
          LET whole == text /\ id \notin tr.textSeen
              t == IF whole THEN TrText(s, id) ELSE s
              p == IF whole THEN PageWhole(s, page, id) ELSE page
          IN tr' = TrEnded(t, id) /\ page' = PageEnded(t, p, id)
  BY <1>2 DEF MessageCompleted
<1>5. CASE text /\ id \notin tr.textSeen
  <2>1. Faithful(TrText(s, id), PageWhole(s, page, id)) /\ id \in TrText(s, id).live
    BY <1>3, <1>5, TextFaithful
  <2>2. tr' = TrEnded(TrText(s, id), id) /\ page' = PageEnded(TrText(s, id), PageWhole(s, page, id), id)
    BY <1>4, <1>5
  <2>3. Faithful(tr', page')
    BY <2>1, <2>2, EndedFaithful
  <2> QED BY <1>1, <2>3, StaysFaithful
<1>6. CASE ~(text /\ id \notin tr.textSeen)
  <2>1. tr' = TrEnded(s, id) /\ page' = PageEnded(s, page, id)
    BY <1>4, <1>6
  <2>2. Faithful(tr', page')
    BY <1>3, <2>1, EndedFaithful
  <2> QED BY <1>1, <2>2, StaysFaithful
<1> QED BY <1>5, <1>6

LEMMA ToolStartedKeeps ==
    ASSUME StreamInv, NEW id \in Tools, ToolStarted(id)
    PROVE  StreamInv'
<1>1. id \in Items /\ Admits(id) /\ Feeds
  BY DEF Items, ToolStarted
<1>2. Faithful(tr', page')
  BY <1>1, AdmittedRuns, UseFaithful DEF ToolStarted
<1> QED BY <1>1, <1>2, StaysFaithful

LEMMA ToolCompletedKeeps ==
    ASSUME StreamInv, NEW id \in Tools, ToolCompleted(id)
    PROVE  StreamInv'
<1>1. id \in Items /\ Admits(id) /\ Feeds
  BY DEF Items, ToolCompleted
<1>2. PICK t : t = Admitted(tr, id)
  OBVIOUS
<1>3. PICK q : q = Tells(PageUse(t, page, id), id)
  OBVIOUS
<1>4. Faithful(t, page) /\ id \in t.live
  BY <1>1, <1>2, AdmittedRuns
<1>5. /\ Faithful(TrUse(t, id), PageUse(t, page, id))
      /\ id \in TrUse(t, id).live /\ id \in TrUse(t, id).toolsStarted
  BY <1>4, UseFaithful
<1>6. Faithful(TrUse(t, id), q)
  BY <1>3, <1>5, TellsFaithful
<1>7. /\ Faithful(Finished(TrUse(t, id), id), q)
      /\ id \in Finished(TrUse(t, id), id).finished
      /\ id \in Finished(TrUse(t, id), id).toolsStarted
  BY <1>5, <1>6, FinishedFaithful
<1>8. Faithful(Finished(TrUse(t, id), id), [q EXCEPT !.done = q.done \cup {id}])
  BY <1>7, DoneFaithful
<1>9. tr' = Finished(TrUse(t, id), id) /\ page' = [q EXCEPT !.done = q.done \cup {id}]
  <2>1. q \in PageType
    BY <1>6 DEF Faithful
  <2>2. page' = [q EXCEPT !.done = @ \cup {id}] /\ tr' = Finished(TrUse(t, id), id)
    BY <1>2, <1>3 DEF ToolCompleted
  <2> QED BY <2>1, <2>2 DEF PageType
<1> QED BY <1>1, <1>8, <1>9, StaysFaithful

LEMMA ToolDeltaKeeps ==
    ASSUME StreamInv, NEW id \in Tools, NEW name \in StreamNames, ToolDelta(id, name)
    PROVE  StreamInv'
<1>1. id \in Items /\ Admits(id) /\ Feeds
  BY DEF Items, ToolDelta
<1>2. PICK key \in Keys : key = <<id, name>> /\ key[1] = id
  BY <1>1, ItemKey
<1>3. PICK n \in TextSizes : /\ tr' = TrAppend(Admitted(tr, id), key, n)
                             /\ page' = PageAppend(Admitted(tr, id), page, key, n)
  BY <1>2 DEF ToolDelta
<1>4. Faithful(Admitted(tr, id), page) /\ key[1] \in Admitted(tr, id).live
  BY <1>1, <1>2, AdmittedRuns
<1>5. n \in Nat
  BY StreamConstants
<1>6. Faithful(tr', page')
  BY <1>3, <1>4, <1>5, AppendFaithful
<1> QED BY <1>1, <1>6, StaysFaithful

LEMMA PatchUpdatedKeeps ==
    ASSUME StreamInv, NEW id \in Tools, PatchUpdated(id)
    PROVE  StreamInv'
<1>1. id \in Items /\ Admits(id) /\ Feeds
  BY DEF Items, PatchUpdated
<1>2. PICK key \in Keys : key = <<id, "diff">> /\ key[1] = id
  BY <1>1, ItemKey DEF StreamNames
<1>3. PICK t : t = Admitted(tr, id)
  OBVIOUS
<1>4. Faithful(t, page) /\ id \in t.live
  BY <1>1, <1>3, AdmittedRuns
<1>5. PICK p : p = IF id \in tr.toolsStarted THEN Tells(page, id) ELSE page
  OBVIOUS
<1>6. Faithful(t, p)
  BY <1>4, <1>5, TellsFaithful
<1>7. PICK n \in TextSizes, grows \in BOOLEAN :
          /\ tr' = IF grows THEN TrAppend(t, key, n) ELSE t
          /\ page' = IF grows THEN PageAppend(t, p, key, n) ELSE p
  BY <1>2, <1>3, <1>5 DEF PatchUpdated
<1>8. n \in Nat
  BY StreamConstants
<1>9. Faithful(TrAppend(t, key, n), PageAppend(t, p, key, n))
  BY <1>2, <1>4, <1>6, <1>8, AppendFaithful
<1>10. Faithful(tr', page')
  BY <1>6, <1>7, <1>9
<1> QED BY <1>1, <1>10, StaysFaithful

LEMMA ProcessDeltaKeeps ==
    ASSUME StreamInv, NEW id \in Processes, ProcessDelta(id)
    PROVE  StreamInv'
<1>1. id \in Items /\ Admits(id) /\ Feeds
  BY DEF Items, ProcessDelta
<1>2. PICK key \in Keys : key = <<id, "text">> /\ key[1] = id
  BY <1>1, ItemKey DEF StreamNames
<1>3. PICK t : t = Admitted(tr, id)
  OBVIOUS
<1>4. Faithful(t, page) /\ id \in t.live
  BY <1>1, <1>3, AdmittedRuns
<1>5. PICK n \in TextSizes, thinks \in BOOLEAN :
          LET p == IF thinks /\ id \notin tr.reasoning THEN Tells(page, id) ELSE page
          IN /\ tr' = [TrAppend(t, key, n) EXCEPT
                          !.visible = @ \/ Sent(t, key, n),
                          !.reasoning = IF thinks THEN @ \cup {id} ELSE @]
             /\ page' = PageAppend(t, p, key, n)
  BY <1>2, <1>3 DEF ProcessDelta
<1>6. PICK p : p = IF thinks /\ id \notin tr.reasoning THEN Tells(page, id) ELSE page
  OBVIOUS
<1>7. PICK s : s = TrAppend(t, key, n)
  OBVIOUS
<1>8. PICK q : q = PageAppend(t, p, key, n)
  OBVIOUS
<1>9. Faithful(t, p)
  BY <1>4, <1>6, TellsFaithful
<1>10. /\ Faithful(s, q) /\ s.visible = t.visible
       /\ p.shown \/ Sent(t, key, n) => q.shown
  <2>1. n \in Nat
    BY StreamConstants
  <2> QED BY <1>2, <1>4, <1>7, <1>8, <1>9, <2>1, AppendFaithful
<1>11. PICK seen : seen = (s.visible \/ Sent(t, key, n))
  OBVIOUS
<1>12. PICK thought : thought = IF thinks THEN s.reasoning \cup {id} ELSE s.reasoning
  OBVIOUS
<1>13. s \in TrType /\ t \in TrType
  BY <1>4, <1>10 DEF Faithful
<1>14. tr' = [s EXCEPT !.visible = seen, !.reasoning = thought] /\ page' = q
  BY <1>5, <1>6, <1>7, <1>8, <1>11, <1>12, <1>13 DEF TrType
<1>15. seen \in BOOLEAN /\ thought \in SUBSET Items
  <2>1. s.visible \in BOOLEAN /\ s.reasoning \in SUBSET Items
    BY <1>13 DEF TrType
  <2>2. Sent(t, key, n) \in BOOLEAN
    BY DEF Sent, Takes
  <2> QED BY <1>1, <1>11, <1>12, <2>1, <2>2
<1>16. seen => q.shown
  BY <1>10, <1>11, <1>13 DEF Faithful, ShowingBooked
<1>17. Faithful(tr', page')
  BY <1>10, <1>14, <1>15, <1>16, VisibleFaithful
<1> QED BY <1>1, <1>17, StaysFaithful

LEMMA SummaryPartKeeps ==
    ASSUME StreamInv, NEW id \in Processes, SummaryPart(id)
    PROVE  StreamInv'
<1>1. id \in Items /\ Admits(id) /\ Feeds
  BY DEF Items, SummaryPart
<1>2. PICK t : t = Admitted(tr, id)
  OBVIOUS
<1>3. Faithful(t, page) /\ id \in t.live /\ t \in TrType
  BY <1>1, <1>2, AdmittedRuns DEF Faithful
<1>4. PICK q : q = IF id \in tr.reasoning THEN page ELSE Tells(page, id)
  OBVIOUS
<1>5. Faithful(t, q) /\ (id \notin tr.reasoning => q.shown)
  BY <1>3, <1>4, TellsFaithful
<1>6. PICK seen : seen = (t.visible \/ id \notin tr.reasoning)
  OBVIOUS
<1>7. tr' = [t EXCEPT !.visible = seen, !.reasoning = t.reasoning \cup {id}] /\ page' = q
  BY <1>2, <1>3, <1>4, <1>6 DEF SummaryPart, TrType
<1>8. seen \in BOOLEAN /\ t.reasoning \cup {id} \in SUBSET Items
  BY <1>1, <1>3, <1>6 DEF TrType
<1>9. seen => q.shown
  BY <1>5, <1>6 DEF Faithful, ShowingBooked
<1>10. Faithful(tr', page')
  BY <1>5, <1>7, <1>8, <1>9, VisibleFaithful
<1> QED BY <1>1, <1>10, StaysFaithful

LEMMA ItemShownKeeps ==
    ASSUME StreamInv, NEW id \in Processes, NEW completed \in BOOLEAN, NEW told \in BOOLEAN,
           NEW thinks \in BOOLEAN, ItemShown(id, completed, told, thinks)
    PROVE  StreamInv'
<1>1. id \in Items /\ Admits(id) /\ Feeds
  BY DEF Items, ItemShown
<1>2. PICK t : t = Admitted(tr, id)
  OBVIOUS
<1>3. Faithful(t, page) /\ id \in t.live /\ t \in TrType
  BY <1>1, <1>2, AdmittedRuns DEF Faithful
<1>4. LET s == [t EXCEPT !.visible = @ \/ told,
                             !.reasoning = IF told /\ thinks THEN @ \cup {id} ELSE @]
      IN /\ tr' = IF completed THEN Finished(s, id) ELSE s
         /\ page' = IF told THEN Tells(page, id) ELSE page
  BY <1>2 DEF ItemShown
<1>5. PICK q : q = IF told THEN Tells(page, id) ELSE page
  OBVIOUS
<1>6. Faithful(t, q) /\ (told => q.shown)
  BY <1>3, <1>5, TellsFaithful
<1>7. PICK seen : seen = (t.visible \/ told)
  OBVIOUS
<1>8. PICK thought : thought = IF told /\ thinks THEN t.reasoning \cup {id} ELSE t.reasoning
  OBVIOUS
<1>9. PICK s : s = [t EXCEPT !.visible = seen, !.reasoning = thought]
  OBVIOUS
<1>10. tr' = (IF completed THEN Finished(s, id) ELSE s) /\ page' = q
  BY <1>3, <1>4, <1>5, <1>7, <1>8, <1>9 DEF TrType
<1>11. seen \in BOOLEAN /\ thought \in SUBSET Items
  BY <1>1, <1>3, <1>7, <1>8 DEF TrType
<1>12. seen => q.shown
  BY <1>6, <1>7 DEF Faithful, ShowingBooked
<1>13. Faithful(s, q)
  BY <1>6, <1>9, <1>11, <1>12, VisibleFaithful
<1>14. id \in s.live
  BY <1>3, <1>9 DEF TrType
<1>15. Faithful(tr', page')
  BY <1>10, <1>13, <1>14, FinishedFaithful
<1> QED BY <1>1, <1>15, StaysFaithful

LEMMA ToldAtOnceKeeps ==
    ASSUME StreamInv, NEW id \in Processes, ToldAtOnce(id)
    PROVE  StreamInv'
<1>1. id \in Items /\ Admits(id) /\ Feeds
  BY DEF Items, ToldAtOnce
<1>2. PICK t : t = Admitted(tr, id)
  OBVIOUS
<1>3. Faithful(t, page) /\ id \in t.live /\ t \in TrType
  BY <1>1, <1>2, AdmittedRuns DEF Faithful
<1>4. Faithful(t, Tells(page, id)) /\ Tells(page, id).shown
  BY <1>3, TellsFaithful
<1>5. tr' = [t EXCEPT !.visible = TRUE, !.reasoning = t.reasoning] /\ page' = Tells(page, id)
  BY <1>2, <1>3 DEF ToldAtOnce, TrType
<1>6. t.reasoning \in SUBSET Items
  BY <1>3 DEF TrType
<1>7. Faithful(tr', page')
  BY <1>4, <1>5, <1>6, VisibleFaithful
<1> QED BY <1>1, <1>7, StaysFaithful

(* What is refused is told once, and not after the end.                      *)
LEMMA RefusedKeeps ==
    ASSUME StreamInv, NEW id \in Items, Refused(id)
    PROVE  StreamInv'
<1> DEFINE told == ~tr.closed /\ ~tr.omitted
<1>1. tr \in TrType /\ page \in PageType /\ fed \in Nat /\ fed' \in Nat
  BY DEF StreamInv, Refused, Feeds
<1>2. PICK seen \in BOOLEAN, counted \in BOOLEAN :
          /\ seen = (tr.visible \/ told \/ counted)
          /\ tr' = [tr EXCEPT !.omitted = tr.omitted \/ told, !.visible = seen]
  <2>1. PICK counted \in BOOLEAN :
            tr' = [tr EXCEPT !.omitted = tr.omitted \/ told, !.visible = tr.visible \/ told \/ counted]
    BY <1>1 DEF Refused, TrType
  <2> QED BY <2>1
<1>3. page' = [page EXCEPT !.shown = page.shown \/ told]
  BY <1>1 DEF Refused, PageType
<1>4. CASE tr.closed
  <2>1. page' = page
    BY <1>1, <1>3, <1>4 DEF PageType
  <2>2. tr' \in TrType /\ tr'.closed = TRUE /\ tr'.open = tr.open
    BY <1>1, <1>2, <1>4 DEF TrType
  <2>3. StreamSafe' = StreamSafe
    BY <2>1, <2>2 DEF StreamSafe, CardsHang, MessagesEnd, TextOnce, HonestEnd, AppendsBounded
  <2> QED BY <1>1, <1>4, <2>1, <2>2, <2>3 DEF StreamInv
<1>5. CASE ~tr.closed
  <2>1. Faithful(tr, page)
    BY <1>5 DEF StreamInv
  <2>2. tr.omitted \/ told
    BY <1>1, <1>5 DEF TrType
  <2>3. /\ tr' \in TrType /\ tr'.omitted = TRUE
        /\ tr'.open = tr.open /\ tr'.started = tr.started /\ tr'.live = tr.live
        /\ tr'.toolsStarted = tr.toolsStarted /\ tr'.textSeen = tr.textSeen
        /\ tr'.chars = tr.chars /\ tr'.count = tr.count /\ tr'.cut = tr.cut
        /\ tr'.finished = tr.finished
        /\ tr'.terminalError = tr.terminalError /\ tr'.closed = FALSE
    BY <1>1, <1>2, <1>5, <2>2 DEF TrType
  <2>4. page.shown \/ told
    BY <2>1, <2>2 DEF Faithful, ShowingBooked
  <2>5. /\ page' \in PageType /\ page'.shown = TRUE
        /\ page'.begun = page.begun /\ page'.used = page.used /\ page'.items = page.items
        /\ page'.ended = page.ended /\ page'.whole = page.whole /\ page'.pieces = page.pieces
        /\ page'.doubled = page.doubled /\ page'.loose = page.loose /\ page'.done = page.done
        /\ page'.chars = page.chars /\ page'.count = page.count /\ page'.late = page.late
        /\ page'.error = page.error /\ page'.end = page.end
    BY <1>1, <1>3, <2>4 DEF PageType
  <2>6. MessagesBooked(tr', page') /\ CardsBooked(tr', page') /\ ShowingBooked(tr', page')
    BY <2>1, <2>3, <2>5 DEF Faithful, MessagesBooked, CardsBooked, ShowingBooked
  <2>7. ItemsBooked(tr', page') /\ BudgetBooked(tr', page')
    BY <2>1, <2>3, <2>5 DEF Faithful, ItemsBooked, BudgetBooked
  <2>8. Faithful(tr', page')
    BY <2>1, <2>3, <2>5, <2>6, <2>7 DEF Faithful
  <2> QED BY <2>8, StaysFaithful DEF Refused
<1> QED BY <1>4, <1>5

LEMMA ErrorNotifiedKeeps ==
    ASSUME StreamInv, ErrorNotified
    PROVE  StreamInv'
<1>1. Faithful(tr, page) /\ tr \in TrType /\ page \in PageType
  BY DEF StreamInv, ErrorNotified
<1>2. /\ tr' \in TrType /\ tr'.omitted = tr.omitted /\ tr'.visible = tr.visible
      /\ tr'.open = tr.open /\ tr'.started = tr.started /\ tr'.live = tr.live
      /\ tr'.toolsStarted = tr.toolsStarted /\ tr'.textSeen = tr.textSeen
      /\ tr'.chars = tr.chars /\ tr'.count = tr.count /\ tr'.cut = tr.cut
      /\ tr'.finished = tr.finished
      /\ tr'.terminalError = TRUE /\ tr'.closed = tr.closed
  BY <1>1 DEF ErrorNotified, TrType
<1>3. /\ page' \in PageType /\ page'.shown = page.shown
      /\ page'.begun = page.begun /\ page'.used = page.used /\ page'.items = page.items
      /\ page'.ended = page.ended /\ page'.whole = page.whole /\ page'.pieces = page.pieces
      /\ page'.doubled = page.doubled /\ page'.loose = page.loose /\ page'.done = page.done
      /\ page'.chars = page.chars /\ page'.count = page.count /\ page'.late = page.late
      /\ page'.error = TRUE /\ page'.end = page.end
  BY <1>1 DEF ErrorNotified, PageType
<1>4. MessagesBooked(tr', page') /\ CardsBooked(tr', page') /\ ShowingBooked(tr', page')
  BY <1>1, <1>2, <1>3 DEF Faithful, MessagesBooked, CardsBooked, ShowingBooked
<1>5. ItemsBooked(tr', page') /\ BudgetBooked(tr', page')
  BY <1>1, <1>2, <1>3 DEF Faithful, ItemsBooked, BudgetBooked
<1>6. Faithful(tr', page')
  BY <1>1, <1>2, <1>3, <1>4, <1>5 DEF Faithful
<1> QED BY <1>6, StaysFaithful DEF ErrorNotified

(* The end closes the open message, and says error where none had been said  *)
(* and nothing was shown.                                                    *)
LEMMA TurnCompletedKeeps ==
    ASSUME StreamInv, TurnCompleted
    PROVE  StreamInv'
<1>1. Faithful(tr, page) /\ tr \in TrType /\ page \in PageType /\ ~tr.closed
  BY DEF StreamInv, TurnCompleted
<1>2. fed' \in Nat
  BY DEF StreamInv, TurnCompleted, Feeds
<1>3. PICK zero : zero = [k \in Keys |-> 0]
  OBVIOUS
<1>4. PICK over : over = IF tr.open = NoMessage THEN page.ended ELSE page.ended \cup {tr.open}
  OBVIOUS
<1>5. PICK status \in {"completed", "interrupted", "failed"}, error \in BOOLEAN :
          /\ error = (tr.terminalError \/ (status = "completed" /\ ~tr.visible) \/ status = "failed")
          /\ tr' = [tr EXCEPT !.open = NoMessage, !.terminalError = error, !.closed = TRUE,
                       !.chars = zero, !.count = zero, !.cut = {}, !.finished = {}]
          /\ page' = [Closes(tr, page) EXCEPT !.error = error,
                         !.end = IF status = "interrupted" THEN "interrupted"
                                 ELSE IF error THEN "error" ELSE "success"]
  <2>1. PICK status \in {"completed", "interrupted", "failed"} :
          LET empty == status = "completed" /\ ~tr.visible
              error == tr.terminalError \/ empty \/ status = "failed"
          IN /\ tr' = [tr EXCEPT !.open = NoMessage, !.terminalError = error, !.closed = TRUE,
                          !.chars = zero, !.count = zero, !.cut = {}, !.finished = {}]
             /\ page' = [Closes(tr, page) EXCEPT !.error = error,
                            !.end = IF status = "interrupted" THEN "interrupted"
                                    ELSE IF error THEN "error" ELSE "success"]
    BY <1>3 DEF TurnCompleted
  <2> QED BY <2>1
<1>6. PICK end : end = IF status = "interrupted" THEN "interrupted"
                       ELSE IF error THEN "error" ELSE "success"
  OBVIOUS
<1>7. /\ over \in SUBSET Items /\ over = page.begun
      /\ end \in {"success", "error", "interrupted"}
  <2>1. MessagesBooked(tr, page) /\ NoMessage \notin page.begun
    BY <1>1, StreamConstants DEF Faithful, PageType
  <2>2. over = page.begun
    <3>1. CASE tr.open = NoMessage
      BY <1>4, <2>1, <3>1 DEF MessagesBooked
    <3>2. CASE tr.open # NoMessage
      BY <1>4, <2>1, <3>2 DEF MessagesBooked
    <3> QED BY <3>1, <3>2
  <2> QED BY <1>1, <1>6, <2>2 DEF PageType
<1>8. page' = [page EXCEPT !.ended = over, !.error = error, !.end = end]
  <2>1. Closes(tr, page) = [page EXCEPT !.ended = over]
    BY <1>1, <1>4 DEF Closes, PageType
  <2> QED BY <1>1, <1>5, <1>6, <2>1 DEF PageType
<1>9. /\ page' \in PageType /\ page'.shown = page.shown
      /\ page'.begun = page.begun /\ page'.used = page.used /\ page'.items = page.items
      /\ page'.ended = over /\ page'.whole = page.whole /\ page'.pieces = page.pieces
      /\ page'.doubled = page.doubled /\ page'.loose = page.loose /\ page'.done = page.done
      /\ page'.chars = page.chars /\ page'.count = page.count /\ page'.late = page.late
      /\ page'.error = error /\ page'.end = end
  BY <1>1, <1>7, <1>8 DEF PageType
<1>10. tr' \in TrType /\ tr'.closed = TRUE /\ tr'.open = NoMessage
  <2>1. zero \in [Keys -> Nat]
    BY <1>3
  <2> QED BY <1>1, <1>5, <2>1 DEF TrType
<1>11. StreamSafe
  BY <1>1, FaithfulIsSafe DEF Faithful
<1>12. StreamSafe'
  <2>1. CardsHang' /\ TextOnce' /\ AppendsBounded'
    BY <1>9, <1>11 DEF StreamSafe, CardsHang, TextOnce, AppendsBounded
  <2>2. MessagesEnd'
    BY <1>7, <1>9 DEF MessagesEnd
  <2>3. HonestEnd'
    <3>1. ASSUME end = "success" PROVE page.shown /\ ~error
      <4>1. status = "completed" /\ ~error
        <5>1. status # "interrupted" /\ ~error
          BY <1>6, <3>1
        <5>2. status # "failed"
          BY <1>5, <5>1
        <5> QED BY <1>5, <5>1, <5>2
      <4>2. tr.visible
        BY <1>5, <4>1
      <4> QED BY <1>1, <4>1, <4>2 DEF Faithful, ShowingBooked
    <3>2. ASSUME end = "error" PROVE error
      BY <1>6, <3>2
    <3> QED BY <1>9, <3>1, <3>2 DEF HonestEnd
  <2> QED BY <2>1, <2>2, <2>3 DEF StreamSafe
<1> QED BY <1>2, <1>7, <1>9, <1>10, <1>12 DEF StreamInv

LEMMA NextFaithful == StreamInv /\ [StreamNext]_streamVars => StreamInv'
<1> SUFFICES ASSUME StreamInv, [StreamNext]_streamVars PROVE StreamInv'
  OBVIOUS
<1>1. CASE UNCHANGED streamVars
  BY <1>1 DEF streamVars, StreamInv, StreamSafe, CardsHang, MessagesEnd, TextOnce, HonestEnd,
              AppendsBounded
<1>2. ASSUME NEW id \in Items, Refused(id) PROVE StreamInv'
  BY <1>2, RefusedKeeps
<1>3. ASSUME NEW id \in Messages, MessageStarted(id) \/ TextDelta(id) \/ MessageCompleted(id)
      PROVE StreamInv'
  BY <1>3, MessageStartedKeeps, TextDeltaKeeps, MessageCompletedKeeps
<1>4. ASSUME NEW id \in Tools, ToolStarted(id) \/ ToolCompleted(id) \/ PatchUpdated(id)
      PROVE StreamInv'
  BY <1>4, ToolStartedKeeps, ToolCompletedKeeps, PatchUpdatedKeeps
<1>5. ASSUME NEW id \in Tools, NEW name \in StreamNames, ToolDelta(id, name) PROVE StreamInv'
  BY <1>5, ToolDeltaKeeps
<1>6. ASSUME NEW id \in Processes, ProcessDelta(id) \/ SummaryPart(id) PROVE StreamInv'
  BY <1>6, ProcessDeltaKeeps, SummaryPartKeeps
<1>7. ASSUME NEW id \in Processes, ToldAtOnce(id) PROVE StreamInv'
  BY <1>7, ToldAtOnceKeeps
<1>8. ASSUME Feeds, UNCHANGED <<tr, page>> PROVE StreamInv'
  BY <1>8 DEF Feeds, StreamInv, StreamSafe, CardsHang, MessagesEnd, TextOnce, HonestEnd,
              AppendsBounded
<1>9. ASSUME NEW id \in Processes, NEW completed \in BOOLEAN,
             ProcessItem(id, completed) \/ Delegation(id, completed)
      PROVE StreamInv'
  BY <1>9, ItemShownKeeps DEF ProcessItem, Delegation
<1>10. CASE ErrorNotified
  BY <1>10, ErrorNotifiedKeeps
<1>11. CASE TurnCompleted
  BY <1>11, TurnCompletedKeeps
<1> QED
  BY <1>1, <1>2, <1>3, <1>4, <1>5, <1>6, <1>7, <1>8, <1>9, <1>10, <1>11
  DEF StreamNext, PlanUpdated, DiffUpdated, TurnMarker, Review, Hook, PassedOver

(* In every reachable state the translator's books describe what the page    *)
(* has been sent, or the turn is over and the page has all that is promised. *)
THEOREM StreamInvariant == StreamSpec => []StreamInv
<1>1. StreamInit => StreamInv
  BY InitFaithful
<1>2. StreamInv /\ [StreamNext]_streamVars => StreamInv'
  BY NextFaithful
<1> QED BY <1>1, <1>2, PTL DEF StreamSpec

(* Every card hangs under a message and every result belongs to a card, each *)
(* message begun is ended, no text is shown twice, no empty or failed turn   *)
(* ends as a success, and what is appended stays within its budget and comes *)
(* before the result (codex_stream.py, CodexStreamTranslator).               *)
THEOREM StreamIsSafe == StreamSpec => []StreamSafe
<1>1. StreamInv => StreamSafe
  BY FaithfulIsSafe DEF StreamInv, Faithful
<1> QED BY <1>1, StreamInvariant, PTL
----------------------------------------------------------------------------
(* The broker: types.                                                        *)
PtyType ==
    [id : Transcripts, alive : BOOLEAN, exited : Nat, made : Nat, unread : Nat, mode : StoredModes]

TermType ==
    [at : {"off", "on", "told"}, of : Nat, snapshot : Seq(Nat), queue : Seq(Nat), over : BOOLEAN,
     keyboard : BOOLEAN, last : Nat, told : {Nobody, "slow", "exit"}]

EntryType == [id : Transcripts, mode : StoredModes]

TableTyped ==
    /\ ptys \in Seq(PtyType)
    /\ sessions \in [Transcripts -> Nat]
    /\ launch \in [Launchers -> {NoLaunch} \cup EntryType]
    /\ term \in [Terminals -> TermType]
    /\ stored \in Seq(EntryType) /\ Len(stored) <= StoreLimit

(* A TUI whose exit was noticed is dead and read to its end.                 *)
PtyFits(y) == y.unread <= y.made /\ (y.exited # 0 => ~y.alive /\ y.unread = 0)

PtysFit == \A i \in DOMAIN ptys : PtyFits(ptys[i])

TableFits ==
    \A s \in Transcripts : sessions[s] # 0 => sessions[s] \in DOMAIN ptys /\ ptys[sessions[s]].id = s

(* What waits is the output behind what was shown; the exit is the last.     *)
Waiting(x) == Len(x.snapshot) + Len(x.queue) - (IF ExitQueued(x.queue) THEN 1 ELSE 0)

(* A terminal that is attached to the TUI y.                                 *)
TermFits(x, y) ==
    /\ \A k \in 1 .. Len(x.snapshot) : x.snapshot[k] = x.last + k
    /\ \A k \in 1 .. Len(x.queue) : x.queue[k] = x.last + Len(x.snapshot) + k
                                    \/ (k = Len(x.queue) /\ x.queue[k] = 0)
    /\ Len(x.queue) <= QueueEvents
    /\ ExitQueued(x.queue) \/ x.told = "exit" => y.exited # 0
    /\ x.told = "exit" => x.at = "told" /\ x.last = y.made
    /\ x.at = "on" /\ ~x.over =>
          /\ x.last + Waiting(x) = y.made - y.unread
          /\ y.exited # 0 => ExitQueued(x.queue)

TermsFit ==
    \A t \in Terminals :
       /\ Len(term[t].queue) <= QueueEvents
       /\ term[t].at # "off" =>
            term[t].of \in DOMAIN ptys /\ TermFits(term[t], ptys[term[t].of])

TypesInto(x) == x.at = "on" /\ ~x.over /\ x.keyboard

KeyboardsFit ==
    \A t, u \in Terminals :
       TypesInto(term[t]) /\ TypesInto(term[u]) /\ term[t].of = term[u].of => t = u

EntriesDiffer == \A j, k \in DOMAIN stored : stored[j].id = stored[k].id => j = k

BrokerInv ==
    /\ TableTyped /\ PtysFit /\ TableFits /\ TermsFit /\ KeyboardsFit
    /\ OneTuiPerTranscript /\ EntriesDiffer /\ StoredIsTrue

-----------------------------------------------------------------------------
(* The control store.                                                        *)
LEMMA UpdatedStore ==
    ASSUME stored \in Seq(EntryType), Len(stored) <= StoreLimit, EntriesDiffer,
           NEW s \in Transcripts, NEW mode \in StoredModes,
           NEW u, u = Updated(s, mode)
    PROVE  /\ u \in Seq(EntryType) /\ Len(u) <= StoreLimit
           /\ \A j, k \in DOMAIN u : u[j].id = u[k].id => j = k
           /\ \A k \in DOMAIN u : u[k].id = s => u[k].mode = mode
           /\ \A k \in DOMAIN u : u[k].id # s => \E j \in DOMAIN stored : stored[j] = u[k]
<1> DEFINE entry == [id |-> s, mode |-> mode]
           place == CHOOSE k \in StoredFor(s) : TRUE
           next == IF StoredFor(s) # {} THEN [stored EXCEPT ![place] = entry]
                   ELSE Append(stored, entry)
<1>1. entry \in EntryType /\ entry.id = s /\ entry.mode = mode
  BY DEF EntryType
<1>2. DOMAIN stored = 1 .. Len(stored) /\ Len(stored) \in Nat
  OBVIOUS
<1>3. /\ next \in Seq(EntryType) /\ Len(next) <= StoreLimit + 1
      /\ DOMAIN next = 1 .. Len(next)
      /\ \A j, k \in DOMAIN next : next[j].id = next[k].id => j = k
      /\ \A k \in DOMAIN next : next[k] = entry
                               \/ (next[k].id # s /\ \E j \in DOMAIN stored : stored[j] = next[k])
  <2>1. CASE StoredFor(s) # {}
    <3>1. place \in DOMAIN stored /\ stored[place].id = s
      BY <2>1 DEF StoredFor
    <3>2. \A k \in DOMAIN stored : stored[k].id = s => k = place
      BY <3>1 DEF EntriesDiffer
    <3> HIDE DEF place, entry
    <3>3. next = [stored EXCEPT ![place] = entry]
      BY <2>1
    <3>4. next \in Seq(EntryType) /\ Len(next) = Len(stored) /\ DOMAIN next = DOMAIN stored
      <4>1. place \in 1 .. Len(stored)
        BY <1>2, <3>1
      <4>2. [stored EXCEPT ![place] = entry] \in Seq(EntryType)
            /\ Len([stored EXCEPT ![place] = entry]) = Len(stored)
        BY <1>1, <4>1, ExceptSeq
      <4> QED BY <1>2, <3>3, <4>2, LenProperties
    <3>5. next[place] = entry /\ \A k \in DOMAIN stored : k # place => next[k] = stored[k]
      BY <3>1, <3>3
    <3> HIDE DEF next
    <3>6. \A j, k \in DOMAIN next : next[j].id = next[k].id => j = k
      BY <1>1, <3>2, <3>4, <3>5 DEF EntriesDiffer
    <3> QED BY <1>2, <3>2, <3>4, <3>5, <3>6, BrokerBounds
  <2>2. CASE StoredFor(s) = {}
    <3>1. \A k \in DOMAIN stored : stored[k].id # s
      BY <2>2 DEF StoredFor
    <3> HIDE DEF entry
    <3>2. next = Append(stored, entry)
      BY <2>2
    <3>3. next \in Seq(EntryType) /\ Len(next) = Len(stored) + 1 /\ DOMAIN next = 1 .. Len(next)
      BY <1>1, <3>2
    <3>4. next[Len(stored) + 1] = entry /\ \A k \in DOMAIN stored : next[k] = stored[k]
      <4>1. /\ \A k \in 1 .. Len(stored) : Append(stored, entry)[k] = stored[k]
            /\ Append(stored, entry)[Len(stored) + 1] = entry
        BY <1>1, AppendProperties
      <4> QED BY <1>2, <3>2, <4>1
    <3> HIDE DEF next
    <3>5. \A k \in DOMAIN next : k = Len(stored) + 1 \/ k \in DOMAIN stored
      BY <1>2, <3>3
    <3>6. \A j, k \in DOMAIN next : next[j].id = next[k].id => j = k
      BY <1>1, <3>1, <3>4, <3>5 DEF EntriesDiffer
    <3> QED BY <1>2, <3>1, <3>3, <3>4, <3>5, <3>6, BrokerBounds
  <2> QED BY <2>1, <2>2
<1>4. u = IF Len(next) > StoreLimit THEN Tail(next) ELSE next
  BY DEF Updated
<1> HIDE DEF next, entry
<1>5. CASE Len(next) > StoreLimit
  <2>1. next # <<>> /\ u = Tail(next) /\ Len(next) \in Nat /\ StoreLimit \in Nat \ {0}
    BY <1>3, <1>4, <1>5, BrokerBounds
  <2>2. u \in Seq(EntryType) /\ Len(u) = Len(next) - 1 /\ DOMAIN u = 1 .. Len(u)
    BY <1>3, <2>1
  <2>3. \A k \in DOMAIN u : u[k] = next[k + 1] /\ k + 1 \in DOMAIN next
    BY <1>3, <2>1, <2>2
  <2>4. \A j, k \in DOMAIN u : u[j].id = u[k].id => j = k
    <3>1. TAKE j, k \in DOMAIN u
    <3>2. HAVE u[j].id = u[k].id
    <3>3. next[j + 1].id = next[k + 1].id /\ j + 1 \in DOMAIN next /\ k + 1 \in DOMAIN next
      BY <2>3, <3>2
    <3>4. j + 1 = k + 1
      BY <1>3, <3>3
    <3> QED BY <2>2, <3>4
  <2> QED BY <1>1, <1>3, <2>1, <2>2, <2>3, <2>4
<1>6. CASE ~(Len(next) > StoreLimit)
  BY <1>1, <1>3, <1>4, <1>6, BrokerBounds
<1> QED BY <1>5, <1>6

(* What is stored for a session is a mode.                                   *)
LEMMA StoredMode ==
    ASSUME stored \in Seq(EntryType), NEW s
    PROVE  LaunchMode(s) \in StoredModes
<1>1. CASE StoredFor(s) = {}
  BY <1>1 DEF LaunchMode, StoredModes
<1>2. CASE StoredFor(s) # {}
  <2> DEFINE k == CHOOSE k \in StoredFor(s) : TRUE
  <2>1. k \in DOMAIN stored
    BY <1>2 DEF StoredFor
  <2>2. stored[k] \in EntryType
    BY <2>1
  <2> QED BY <1>2, <2>2 DEF LaunchMode, EntryType
<1> QED BY <1>1, <1>2
-----------------------------------------------------------------------------
(* Events that a TUI brings: output from where it was read to, and the exit  *)
(* last if it is noticed with them.                                          *)
Brings(e, y, z) ==
    /\ e \in Seq(Nat) /\ Len(e) >= 1
    /\ \A k \in 1 .. Len(e) : e[k] = y.made - y.unread + k \/ (k = Len(e) /\ e[k] = 0)
    /\ ExitQueued(e) <=> z.exited # 0
    /\ z.made = y.made
    /\ z.made - z.unread = y.made - y.unread + Len(e) - (IF ExitQueued(e) THEN 1 ELSE 0)

LEMMA OfferedFits ==
    ASSUME NEW x \in TermType, NEW y \in PtyType, NEW z \in PtyType, PtyFits(y), PtyFits(z),
           TermFits(x, y), y.exited = 0, x.at = "on", ~x.over, NEW e, Brings(e, y, z)
    PROVE  /\ Offered(x, e) \in TermType /\ TermFits(Offered(x, e), z)
           /\ Offered(x, e).at = x.at /\ Offered(x, e).of = x.of
           /\ TypesInto(Offered(x, e)) => TypesInto(x)
<1> DEFINE q == x.queue
           base == x.last + Len(x.snapshot)
           room == QueueEvents - Len(q)
           f == Fitting(x, e)
           w == q \o f
<1>1. /\ q \in Seq(Nat) /\ x.snapshot \in Seq(Nat) /\ x.last \in Nat /\ base \in Nat
      /\ Len(q) \in Nat /\ Len(x.snapshot) \in Nat
  BY DEF TermType
<1>2. y.made \in Nat /\ y.unread \in Nat /\ y.unread <= y.made /\ z.made \in Nat /\ z.unread \in Nat
  BY DEF PtyType, PtyFits
<1>3. ~ExitQueued(q) /\ x.told # "exit"
  BY DEF TermFits
<1>4. \A k \in 1 .. Len(q) : q[k] = base + k
  BY <1>1, <1>3 DEF TermFits, ExitQueued
<1>5. base + Len(q) = y.made - y.unread
  <2>1. x.last + Waiting(x) = y.made - y.unread
    BY DEF TermFits
  <2>2. Waiting(x) = Len(x.snapshot) + Len(q)
    BY <1>1, <1>3 DEF Waiting
  <2>3. x.last + (Len(x.snapshot) + Len(q)) = y.made - y.unread
    BY <2>1, <2>2
  <2>4. \A a, b, c \in Nat : a + (b + c) = (a + b) + c
    OBVIOUS
  <2>5. x.last + (Len(x.snapshot) + Len(q)) = base + Len(q)
    BY <1>1, <2>4
  <2> QED BY <2>3, <2>5
<1>6. QueueEvents \in Nat /\ room \in Nat
  BY <1>1, BrokerBounds DEF TermFits
<1>7. e \in Seq(Nat) /\ Len(e) \in Nat /\ Len(e) >= 1
  BY DEF Brings
<1>8. \A k \in 1 .. Len(e) : e[k] = base + Len(q) + k \/ (k = Len(e) /\ e[k] = 0)
  BY <1>5 DEF Brings
<1> HIDE DEF base, q, room
<1>9. CASE Len(e) <= room
  <2>1. f = e /\ Offered(x, e) = [x EXCEPT !.queue = w]
    BY <1>9 DEF Fitting, Offered, Queued, q, room
  <2>2. w \in Seq(Nat) /\ Len(w) = Len(q) + Len(e)
    BY <1>1, <1>7, <2>1
  <2>3. /\ \A k \in 1 .. Len(q) : w[k] = q[k]
        /\ \A k \in 1 .. Len(w) : k > Len(q) => w[k] = e[k - Len(q)] /\ k - Len(q) \in 1 .. Len(e)
    BY <1>1, <1>7, <2>1, <2>2
  <2> HIDE DEF w
  <2>4. \A k \in 1 .. Len(w) : w[k] = base + k \/ (k = Len(w) /\ w[k] = 0)
    <3>1. TAKE k \in 1 .. Len(w)
    <3>2. CASE k <= Len(q)
      BY <1>1, <1>4, <2>2, <2>3, <3>2
    <3>3. CASE k > Len(q)
      <4>1. e[k - Len(q)] = base + Len(q) + (k - Len(q))
            \/ (k - Len(q) = Len(e) /\ e[k - Len(q)] = 0)
        BY <1>8, <2>3, <3>3
      <4> QED BY <1>1, <1>7, <2>2, <2>3, <3>3, <4>1
    <3> QED BY <1>1, <2>2, <3>2, <3>3
  <2>5. ExitQueued(w) <=> ExitQueued(e)
    <3>1. w # <<>> /\ e # <<>>
      BY <1>1, <1>7, <2>2
    <3>2. w[Len(w)] = e[Len(e)]
      <4>1. Len(w) \in 1 .. Len(w) /\ Len(w) > Len(q) /\ Len(w) - Len(q) = Len(e)
        BY <1>1, <1>7, <2>2
      <4> QED BY <2>3, <4>1
    <3> QED BY <3>1, <3>2 DEF ExitQueued
  <2>6. Offered(x, e) \in TermType /\ Offered(x, e).queue = w /\ Offered(x, e).at = x.at
        /\ Offered(x, e).of = x.of /\ Offered(x, e).over = x.over /\ Offered(x, e).last = x.last
        /\ Offered(x, e).snapshot = x.snapshot /\ Offered(x, e).keyboard = x.keyboard
        /\ Offered(x, e).told = x.told
    BY <2>1, <2>2 DEF TermType, q
  <2>7. x.last + Len(x.snapshot) + Len(w) - (IF ExitQueued(w) THEN 1 ELSE 0) = z.made - z.unread
    <3>1. z.made - z.unread = y.made - y.unread + Len(e) - (IF ExitQueued(e) THEN 1 ELSE 0)
      BY DEF Brings
    <3> DEFINE c == IF ExitQueued(e) THEN 1 ELSE 0
    <3>2. c \in Nat /\ (IF ExitQueued(w) THEN 1 ELSE 0) = c
      BY <2>5
    <3> HIDE DEF c
    <3>3. z.made - z.unread = base + Len(q) + Len(e) - c
      BY <1>5, <3>1 DEF c
    <3>4. base + Len(q) + Len(e) = base + Len(w)
      BY <1>1, <1>7, <2>2
    <3>5. x.last + Len(x.snapshot) + Len(w) - c = base + Len(w) - c
      BY DEF base
    <3>6. z.made - z.unread = base + Len(w) - c
      BY <1>1, <1>7, <2>2, <3>2, <3>3, <3>4
    <3>7. x.last + Len(x.snapshot) + Len(w) - (IF ExitQueued(w) THEN 1 ELSE 0)
             = x.last + Len(x.snapshot) + Len(w) - c
      BY <3>2
    <3> QED BY <3>5, <3>6, <3>7
  <2>8. Len(w) <= QueueEvents
    BY <1>1, <1>6, <1>7, <1>9, <2>2 DEF room
  <2>9. TermFits(Offered(x, e), z)
    <3>1. ExitQueued(w) => z.exited # 0
      BY <2>5 DEF Brings
    <3>2. z.exited # 0 => ExitQueued(w)
      BY <2>5 DEF Brings
    <3>3. x.last + Waiting(Offered(x, e)) = z.made - z.unread
      <4> DEFINE c == IF ExitQueued(w) THEN 1 ELSE 0
      <4>1. c \in Nat
        OBVIOUS
      <4>2. Waiting(Offered(x, e)) = Len(x.snapshot) + Len(w) - c
        BY <2>6 DEF Waiting
      <4> HIDE DEF c
      <4>3. x.last + Len(x.snapshot) + Len(w) - c = z.made - z.unread
        BY <2>7 DEF c
      <4>4. Len(w) \in Nat
        BY <2>2, LenProperties
      <4> QED BY <1>1, <4>1, <4>2, <4>3, <4>4
    <3>4. \A k \in 1 .. Len(x.snapshot) : x.snapshot[k] = x.last + k
      BY DEF TermFits
    <3> QED BY <1>3, <2>4, <2>6, <2>8, <3>1, <3>2, <3>3, <3>4 DEF TermFits, base, q
  <2> QED BY <2>6, <2>9 DEF TypesInto
<1>10. CASE Len(e) > room
  <2>1. f = SubSeq(e, 1, room) /\ Len(f) = room /\ f \in Seq(Nat)
        /\ \A k \in 1 .. room : f[k] = e[k]
    <3>1. f = SubSeq(e, 1, room)
      BY <1>6, <1>7, <1>10 DEF Fitting, q, room
    <3>2. room <= Len(e) /\ \A k \in 1 .. room : e[k] \in Nat
      BY <1>6, <1>7, <1>10, ElementOfSeq
    <3>3. /\ SubSeq(e, 1, room) \in Seq(Nat)
          /\ Len(SubSeq(e, 1, room)) = IF 1 <= room THEN room - 1 + 1 ELSE 0
          /\ \A k \in 1 .. room - 1 + 1 : SubSeq(e, 1, room)[k] = e[1 + k - 1]
      BY <1>6, <3>2, SubSeqProperties
    <3> QED BY <1>6, <3>1, <3>3
  <2>2. f # e
    BY <1>6, <1>7, <1>10, <2>1
  <2>3. Offered(x, e) = [x EXCEPT !.queue = w, !.over = TRUE, !.keyboard = FALSE]
    BY <2>2 DEF Offered, Queued, TermType, q
  <2>4. w \in Seq(Nat) /\ Len(w) = QueueEvents
    <3>1. w \in Seq(Nat) /\ Len(w) = Len(q) + room
      BY <1>1, <2>1, ConcatProperties
    <3>2. Len(q) + room = QueueEvents
      BY <1>1, <1>6 DEF room
    <3> QED BY <3>1, <3>2
  <2>5. /\ \A k \in 1 .. Len(q) : w[k] = q[k]
        /\ \A k \in 1 .. Len(w) : k > Len(q) => w[k] = f[k - Len(q)] /\ k - Len(q) \in 1 .. room
    BY <1>1, <1>6, <2>1, <2>4
  <2> HIDE DEF w, f
  <2>6. \A k \in 1 .. Len(w) : w[k] = base + k
    <3>1. TAKE k \in 1 .. Len(w)
    <3>2. CASE k <= Len(q)
      BY <1>1, <1>4, <2>4, <2>5, <3>2
    <3>3. CASE k > Len(q)
      <4>1. w[k] = e[k - Len(q)] /\ k - Len(q) \in 1 .. Len(e) /\ k - Len(q) < Len(e)
        BY <1>6, <1>7, <1>10, <2>1, <2>5, <3>3
      <4>2. e[k - Len(q)] = base + Len(q) + (k - Len(q))
        BY <1>8, <4>1
      <4> QED BY <1>1, <4>1, <4>2
    <3> QED BY <1>1, <2>4, <3>2, <3>3
  <2>7. ~ExitQueued(w)
    BY <1>1, <2>4, <2>6 DEF ExitQueued
  <2>8. Offered(x, e) \in TermType /\ Offered(x, e).queue = w /\ Offered(x, e).at = x.at
        /\ Offered(x, e).of = x.of /\ Offered(x, e).over = TRUE /\ Offered(x, e).last = x.last
        /\ Offered(x, e).snapshot = x.snapshot /\ Offered(x, e).told = x.told
    BY <2>3, <2>4 DEF TermType, q
  <2>9. TermFits(Offered(x, e), z)
    <3>1. \A k \in 1 .. Len(x.snapshot) : x.snapshot[k] = x.last + k
      BY DEF TermFits
    <3>2. Len(w) <= QueueEvents
      BY <1>6, <2>4
    <3> QED BY <1>3, <2>6, <2>7, <2>8, <3>1, <3>2 DEF TermFits, base, q
  <2> QED BY <2>8, <2>9 DEF TypesInto
<1> QED BY <1>6, <1>7, <1>9, <1>10
-----------------------------------------------------------------------------
(* What the invariant says of ids and modes, for a step that may end TUIs    *)
(* and forget them.                                                          *)
Forgets(kept) ==
    /\ kept \in [Transcripts -> Nat]
    /\ \A s \in Transcripts : kept[s] = sessions[s]
                              \/ (kept[s] = 0 /\ (sessions[s] # 0 => ~Running(sessions[s])))

(* Sessions that have exited leave the table.                                *)
LEMMA TableKeeps ==
    ASSUME BrokerInv, Forgets(sessions'), launch' \in [Launchers -> {NoLaunch} \cup EntryType],
           UNCHANGED <<ptys, term, stored, doubled>>
    PROVE  BrokerInv'
<1>1. TableTyped'
  BY DEF BrokerInv, TableTyped, Forgets
<1>2. PtysFit' /\ TermsFit' /\ KeyboardsFit' /\ EntriesDiffer'
  BY DEF BrokerInv, PtysFit, TermsFit, KeyboardsFit, EntriesDiffer
<1>3. TableFits'
  BY DEF BrokerInv, TableFits, Forgets
<1>4. OneTuiPerTranscript'
  <2> SUFFICES ASSUME NEW i \in DOMAIN ptys, Running(i), ptys[i].id \notin doubled
               PROVE  sessions'[ptys[i].id] = i
    BY DEF OneTuiPerTranscript, Running
  <2>1. sessions[ptys[i].id] = i
    BY DEF BrokerInv, OneTuiPerTranscript
  <2>2. ptys[i] \in PtyType /\ i # 0
    BY DEF BrokerInv, TableTyped
  <2>3. ptys[i].id \in Transcripts
    BY <2>2 DEF PtyType
  <2> QED BY <2>1, <2>2, <2>3 DEF Forgets
<1>5. StoredIsTrue'
  BY DEF BrokerInv, StoredIsTrue, Registered, Running, StoredFor, Forgets
<1> QED BY <1>1, <1>2, <1>3, <1>4, <1>5 DEF BrokerInv

(* A TUI is started.                                                         *)
LEMMA SpawnKeeps ==
    ASSUME BrokerInv, NEW kept, Forgets(kept), NEW s \in Transcripts, NEW mode \in StoredModes,
           Spawn(kept, s, mode), launch' \in [Launchers -> {NoLaunch} \cup EntryType],
           doubled \subseteq doubled', UNCHANGED term,
           \A i \in DOMAIN ptys : ptys[i].id = s /\ Running(i) => s \in doubled'
    PROVE  BrokerInv'
<1> DEFINE n == Len(ptys)
           y == Spawned(s, mode)
<1>1. y \in PtyType /\ PtyFits(y) /\ y.id = s /\ y.mode = mode /\ y.exited = 0
  BY DEF Spawned, PtyType, PtyFits
<1>2. ptys \in Seq(PtyType) /\ n \in Nat /\ DOMAIN ptys = 1 .. n
  BY DEF BrokerInv, TableTyped
<1>3. ptys' = Append(ptys, y)
  BY DEF Spawn
<1> HIDE DEF y
<1>4. /\ ptys' \in Seq(PtyType) /\ DOMAIN ptys' = 1 .. n + 1 /\ ptys'[n + 1] = y
      /\ \A i \in 1 .. n : ptys'[i] = ptys[i]
  BY <1>1, <1>2, <1>3, AppendProperties, LenProperties
<1> HIDE DEF n
<1>5. \A i \in DOMAIN ptys' : i = n + 1 \/ i \in DOMAIN ptys
  BY <1>2, <1>4
<1>6. /\ stored' \in Seq(EntryType) /\ Len(stored') <= StoreLimit
      /\ \A j, k \in DOMAIN stored' : stored'[j].id = stored'[k].id => j = k
      /\ \A k \in DOMAIN stored' : stored'[k].id = s => stored'[k].mode = mode
      /\ \A k \in DOMAIN stored' : stored'[k].id # s => \E j \in DOMAIN stored : stored[j] = stored'[k]
  <2>1. stored \in Seq(EntryType) /\ Len(stored) <= StoreLimit /\ EntriesDiffer
    BY DEF BrokerInv, TableTyped
  <2>2. stored' = Updated(s, mode)
    BY DEF Spawn
  <2> QED BY <2>1, <2>2, UpdatedStore
<1>7. sessions' = [kept EXCEPT ![s] = n + 1]
  BY DEF Spawn, n
<1>8. TableTyped'
  BY <1>2, <1>4, <1>6, <1>7 DEF BrokerInv, TableTyped, Forgets
<1>9. PtysFit'
  BY <1>1, <1>2, <1>4, <1>5 DEF BrokerInv, PtysFit
<1>10. TableFits'
  <2> SUFFICES ASSUME NEW r \in Transcripts, sessions'[r] # 0
               PROVE  sessions'[r] \in DOMAIN ptys' /\ ptys'[sessions'[r]].id = r
    BY DEF TableFits
  <2>1. CASE r = s
    BY <1>1, <1>2, <1>4, <1>7, <2>1 DEF Forgets
  <2>2. CASE r # s
    BY <1>2, <1>4, <1>7, <2>2 DEF Forgets, BrokerInv, TableFits
  <2> QED BY <2>1, <2>2
<1>11. TermsFit' /\ KeyboardsFit'
  BY <1>2, <1>4 DEF BrokerInv, TermsFit, KeyboardsFit
<1>12. EntriesDiffer'
  BY <1>6 DEF EntriesDiffer
<1>13. OneTuiPerTranscript'
  <2> SUFFICES ASSUME NEW i \in DOMAIN ptys', ptys'[i].exited = 0, ptys'[i].id \notin doubled'
               PROVE  sessions'[ptys'[i].id] = i
    BY DEF OneTuiPerTranscript, Running
  <2>1. CASE i = n + 1
    BY <1>1, <1>4, <1>7, <2>1 DEF Forgets
  <2>2. CASE i \in DOMAIN ptys
    <3>1. ptys'[i] = ptys[i] /\ Running(i) /\ ptys[i] \in PtyType /\ i # 0
      BY <1>2, <1>4, <2>2 DEF Running
    <3>2. ptys[i].id # s /\ ptys[i].id \in Transcripts
      BY <2>2, <3>1 DEF PtyType
    <3>3. sessions[ptys[i].id] = i
      BY <2>2, <3>1 DEF BrokerInv, OneTuiPerTranscript
    <3> QED BY <1>7, <3>1, <3>2, <3>3 DEF Forgets
  <2> QED BY <1>5, <2>1, <2>2
<1>14. StoredIsTrue'
  <2> SUFFICES ASSUME NEW r \in Transcripts, sessions'[r] # 0, r \notin doubled',
                      ptys'[sessions'[r]].exited = 0,
                      NEW k \in DOMAIN stored', stored'[k].id = r
               PROVE  stored'[k].mode = ptys'[sessions'[r]].mode
    BY DEF StoredIsTrue, Registered, Running, StoredFor
  <2>1. CASE r = s
    BY <1>1, <1>4, <1>6, <1>7, <2>1 DEF Forgets
  <2>2. CASE r # s
    <3>1. sessions'[r] = sessions[r] /\ sessions[r] # 0
      BY <1>7, <2>2 DEF Forgets
    <3>2. sessions[r] \in DOMAIN ptys
      BY <3>1 DEF BrokerInv, TableFits
    <3>3. ptys'[sessions[r]] = ptys[sessions[r]]
      BY <1>2, <1>4, <3>2
    <3>4. PICK j \in DOMAIN stored : stored[j] = stored'[k]
      BY <1>6, <2>2
    <3> QED BY <3>1, <3>3, <3>4 DEF BrokerInv, StoredIsTrue, Registered, Running, StoredFor
  <2> QED BY <2>1, <2>2
<1> QED BY <1>8, <1>9, <1>10, <1>11, <1>12, <1>13, <1>14 DEF BrokerInv

(* What is known of a TUI changes; its id does not, and one that has exited  *)
(* does not run again.                                                       *)
LEMMA PtyKeeps ==
    ASSUME BrokerInv, NEW i \in DOMAIN ptys, NEW z \in PtyType, PtyFits(z), z.id = ptys[i].id,
           z.exited = 0 => ptys[i].exited = 0,
           ptys' = [ptys EXCEPT ![i] = z], term' \in [Terminals -> TermType],
           UNCHANGED <<sessions, launch, doubled>>
    PROVE  /\ PtysFit' /\ TableFits' /\ OneTuiPerTranscript'
           /\ UNCHANGED stored => TableTyped' /\ EntriesDiffer'
           /\ UNCHANGED stored /\ z.mode = ptys[i].mode => StoredIsTrue'
           /\ DOMAIN ptys' = DOMAIN ptys /\ ptys'[i] = z
           /\ \A j \in DOMAIN ptys : j # i => ptys'[j] = ptys[j]
<1>1. ptys \in Seq(PtyType) /\ DOMAIN ptys = 1 .. Len(ptys)
  BY DEF BrokerInv, TableTyped
<1>2. ptys' \in Seq(PtyType) /\ Len(ptys') = Len(ptys)
  BY <1>1, ExceptSeq
<1>3. DOMAIN ptys' = DOMAIN ptys /\ ptys'[i] = z /\ \A j \in DOMAIN ptys : j # i => ptys'[j] = ptys[j]
  BY <1>1, <1>2
<1>4. PtysFit' /\ TableFits'
  BY <1>3 DEF BrokerInv, PtysFit, TableFits
<1>5. OneTuiPerTranscript'
  BY <1>3 DEF BrokerInv, OneTuiPerTranscript, Running
<1>6. UNCHANGED stored => TableTyped' /\ EntriesDiffer'
  BY <1>2 DEF BrokerInv, TableTyped, EntriesDiffer
<1>7. ASSUME UNCHANGED stored, z.mode = ptys[i].mode PROVE StoredIsTrue'
  <2> SUFFICES ASSUME NEW r \in Transcripts, sessions[r] # 0, r \notin doubled,
                      ptys'[sessions[r]].exited = 0,
                      NEW k \in DOMAIN stored, stored[k].id = r
               PROVE  stored[k].mode = ptys'[sessions[r]].mode
    BY <1>7 DEF StoredIsTrue, Registered, Running, StoredFor
  <2>1. sessions[r] \in DOMAIN ptys
    BY DEF BrokerInv, TableFits
  <2>2. ptys[sessions[r]].exited = 0 /\ ptys[sessions[r]].mode = ptys'[sessions[r]].mode
    BY <1>3, <1>7, <2>1
  <2> QED BY <2>2 DEF BrokerInv, StoredIsTrue, Registered, Running, StoredFor
<1> QED BY <1>3, <1>4, <1>5, <1>6, <1>7

(* A terminal changes.                                                       *)
LEMMA TermKeeps ==
    ASSUME BrokerInv, NEW t \in Terminals, NEW x \in TermType, term' = [term EXCEPT ![t] = x],
           UNCHANGED <<ptys, sessions, launch, stored, doubled>>,
           Len(x.queue) <= QueueEvents,
           x.at # "off" => x.of \in DOMAIN ptys /\ TermFits(x, ptys[x.of]),
           TypesInto(x) => \A u \in Terminals :
                              TypesInto(term[u]) /\ term[u].of = x.of => u = t
    PROVE  BrokerInv'
<1>1. term \in [Terminals -> TermType]
  BY DEF BrokerInv, TableTyped
<1>2. term'[t] = x /\ \A u \in Terminals : u # t => term'[u] = term[u]
  BY <1>1
<1>3. TableTyped'
  BY <1>1 DEF BrokerInv, TableTyped
<1>4. TermsFit'
  BY <1>2 DEF BrokerInv, TermsFit
<1>5. KeyboardsFit'
  BY <1>2 DEF BrokerInv, KeyboardsFit
<1>6. PtysFit' /\ TableFits' /\ OneTuiPerTranscript' /\ EntriesDiffer' /\ StoredIsTrue'
  BY DEF BrokerInv, PtysFit, TableFits, OneTuiPerTranscript, EntriesDiffer, StoredIsTrue, Registered,
         Running, StoredFor
<1> QED BY <1>3, <1>4, <1>5, <1>6 DEF BrokerInv
-----------------------------------------------------------------------------
(* The actions.                                                              *)
LEMMA InitFits == BrokerInit => BrokerInv
<1> SUFFICES ASSUME BrokerInit PROVE BrokerInv
  OBVIOUS
<1>1. ptys = <<>> /\ stored = <<>> /\ DOMAIN ptys = {} /\ DOMAIN stored = {}
  BY DEF BrokerInit
<1>2. Detached \in TermType /\ Detached.at = "off" /\ Len(Detached.queue) = 0
  BY DEF Detached, TermType
<1>3. TableTyped
  BY <1>1, <1>2, BrokerBounds DEF BrokerInit, TableTyped
<1>4. TermsFit /\ KeyboardsFit
  BY <1>2, BrokerBounds DEF BrokerInit, TermsFit, KeyboardsFit, TypesInto
<1>5. StoredIsTrue
  BY DEF BrokerInit, StoredIsTrue, Registered
<1> QED BY <1>1, <1>3, <1>4, <1>5
        DEF BrokerInit, BrokerInv, PtysFit, TableFits, OneTuiPerTranscript, EntriesDiffer

LEMMA ResumeKeeps ==
    ASSUME BrokerInv, NEW l \in Launchers, NEW s \in Transcripts, Resume(l, s)
    PROVE  BrokerInv'
<1>1. PICK gone \in SUBSET Prunable : LET kept == Pruned(gone) IN
         /\ \/ /\ sessions' = kept
               /\ UNCHANGED <<ptys, stored, doubled, launch>>
            \/ /\ kept[s] = 0
               /\ Spawn(kept, s, LaunchMode(s))
               /\ doubled' = IF \E i \in DOMAIN ptys : ptys[i].id = s /\ Running(i)
                             THEN doubled \cup {s} ELSE doubled
               /\ UNCHANGED launch
            \/ /\ kept[s] # 0 /\ ~Running(kept[s])
               /\ sessions' = [kept EXCEPT ![s] = 0]
               /\ launch' = [launch EXCEPT ![l] = [id |-> s, mode |-> LaunchMode(s)]]
               /\ UNCHANGED <<ptys, stored, doubled>>
         /\ UNCHANGED term
  BY DEF Resume
<1> DEFINE kept == Pruned(gone)
<1>2. Forgets(kept)
  BY DEF Pruned, Prunable, Registered, Forgets, BrokerInv, TableTyped
<1>3. LaunchMode(s) \in StoredModes
  BY StoredMode DEF BrokerInv, TableTyped
<1>4. launch \in [Launchers -> {NoLaunch} \cup EntryType]
  BY DEF BrokerInv, TableTyped
<1> HIDE DEF kept
<1>5. CASE sessions' = kept /\ UNCHANGED <<ptys, stored, doubled, launch>>
  BY <1>1, <1>2, <1>4, <1>5, TableKeeps
<1>6. CASE /\ Spawn(kept, s, LaunchMode(s)) /\ UNCHANGED launch
           /\ doubled' = IF \E i \in DOMAIN ptys : ptys[i].id = s /\ Running(i)
                         THEN doubled \cup {s} ELSE doubled
  BY <1>1, <1>2, <1>3, <1>4, <1>6, SpawnKeeps
<1>7. CASE /\ kept[s] # 0 /\ ~Running(kept[s]) /\ sessions' = [kept EXCEPT ![s] = 0]
           /\ launch' = [launch EXCEPT ![l] = [id |-> s, mode |-> LaunchMode(s)]]
           /\ UNCHANGED <<ptys, stored, doubled>>
  <2>1. Forgets(sessions')
    BY <1>2, <1>7 DEF Forgets
  <2>2. launch' \in [Launchers -> {NoLaunch} \cup EntryType]
    BY <1>3, <1>4, <1>7 DEF EntryType
  <2> QED BY <1>1, <1>7, <2>1, <2>2, TableKeeps
<1> QED BY <1>1, <1>5, <1>6, <1>7 DEF kept

LEMMA FinishResumeKeeps ==
    ASSUME BrokerInv, NEW l \in Launchers, FinishResume(l)
    PROVE  BrokerInv'
<1> DEFINE s == launch[l].id
<1>1. launch \in [Launchers -> {NoLaunch} \cup EntryType] /\ launch[l] # NoLaunch
  BY DEF BrokerInv, TableTyped, FinishResume
<1>2. launch[l] \in EntryType /\ s \in Transcripts /\ launch[l].mode \in StoredModes
  BY <1>1 DEF EntryType
<1>3. launch' \in [Launchers -> {NoLaunch} \cup EntryType]
  BY <1>1 DEF FinishResume
<1>4. Forgets(sessions)
  BY DEF Forgets, BrokerInv, TableTyped
<1>5. CASE UNCHANGED <<ptys, sessions, stored, doubled>>
  BY <1>3, <1>4, <1>5, TableKeeps DEF FinishResume
<1>6. CASE /\ Spawn(sessions, s, launch[l].mode)
           /\ doubled' = IF sessions[s] # 0 /\ Running(sessions[s])
                         THEN doubled \cup {s} ELSE doubled
  <2>1. ASSUME NEW i \in DOMAIN ptys, ptys[i].id = s, Running(i) PROVE s \in doubled'
    <3>1. sessions[s] = i \/ s \in doubled
      BY <2>1 DEF BrokerInv, OneTuiPerTranscript
    <3>2. i # 0
      BY DEF BrokerInv, TableTyped
    <3> QED BY <1>6, <2>1, <3>1, <3>2
  <2>2. UNCHANGED term /\ doubled \subseteq doubled'
    BY <1>6 DEF FinishResume
  <2> HIDE DEF s
  <2> QED BY <1>2, <1>3, <1>4, <1>6, <2>1, <2>2, SpawnKeeps
<1> QED BY <1>5, <1>6 DEF FinishResume

LEMMA ModeChangesKeeps ==
    ASSUME BrokerInv, NEW i \in DOMAIN ptys, ModeChanges(i)
    PROVE  BrokerInv'
<1>1. PICK mode \in StoredModes : /\ ptys' = [ptys EXCEPT ![i].mode = mode]
                                  /\ stored' = Updated(ptys[i].id, mode)
  BY DEF ModeChanges
<1>2. Running(i) /\ UNCHANGED <<sessions, launch, term, doubled>>
  BY DEF ModeChanges
<1> DEFINE y == ptys[i]
           z == [y EXCEPT !.mode = mode]
           s == y.id
<1>3. y \in PtyType /\ PtyFits(y) /\ term \in [Terminals -> TermType]
  BY DEF BrokerInv, TableTyped, PtysFit
<1>4. /\ z \in PtyType /\ PtyFits(z) /\ z.id = s /\ z.exited = y.exited /\ z.mode = mode
      /\ z.made = y.made /\ z.unread = y.unread /\ s \in Transcripts
  BY <1>3 DEF PtyType, PtyFits
<1>5. ptys' = [ptys EXCEPT ![i] = z]
  BY <1>1
<1> HIDE DEF z
<1>6. /\ PtysFit' /\ TableFits' /\ OneTuiPerTranscript'
      /\ DOMAIN ptys' = DOMAIN ptys /\ ptys'[i] = z
      /\ \A j \in DOMAIN ptys : j # i => ptys'[j] = ptys[j]
  BY <1>2, <1>3, <1>4, <1>5, PtyKeeps
<1>7. /\ stored' \in Seq(EntryType) /\ Len(stored') <= StoreLimit
      /\ \A j, k \in DOMAIN stored' : stored'[j].id = stored'[k].id => j = k
      /\ \A k \in DOMAIN stored' : stored'[k].id = s => stored'[k].mode = mode
      /\ \A k \in DOMAIN stored' : stored'[k].id # s => \E j \in DOMAIN stored : stored[j] = stored'[k]
  <2>1. stored \in Seq(EntryType) /\ Len(stored) <= StoreLimit /\ EntriesDiffer
    BY DEF BrokerInv, TableTyped
  <2> HIDE DEF s
  <2> QED BY <1>1, <1>4, <2>1, UpdatedStore DEF s
<1>8. ptys' \in Seq(PtyType)
  BY <1>4, <1>5, ExceptSeq DEF BrokerInv, TableTyped
<1>9. TableTyped' /\ EntriesDiffer'
  BY <1>2, <1>7, <1>8 DEF BrokerInv, TableTyped, EntriesDiffer
<1>10. TermsFit' /\ KeyboardsFit'
  <2>1. \A x \in TermType : TermFits(x, y) => TermFits(x, z)
    BY <1>4 DEF TermFits
  <2> HIDE DEF y
  <2>2. \A j \in DOMAIN ptys, x \in TermType : TermFits(x, ptys[j]) => TermFits(x, ptys'[j])
    BY <1>6, <2>1 DEF y
  <2> QED BY <1>2, <1>3, <1>6, <2>2 DEF BrokerInv, TermsFit, KeyboardsFit
<1>11. StoredIsTrue'
  <2> SUFFICES ASSUME NEW r \in Transcripts, sessions[r] # 0, r \notin doubled,
                      ptys'[sessions[r]].exited = 0,
                      NEW k \in DOMAIN stored', stored'[k].id = r
               PROVE  stored'[k].mode = ptys'[sessions[r]].mode
    BY <1>2 DEF StoredIsTrue, Registered, Running, StoredFor
  <2>1. sessions[r] \in DOMAIN ptys /\ ptys[sessions[r]].id = r
    BY DEF BrokerInv, TableFits
  <2>2. CASE r = s
    <3>1. sessions[r] = i
      BY <1>2, <2>2 DEF BrokerInv, OneTuiPerTranscript
    <3> QED BY <1>4, <1>6, <1>7, <2>2, <3>1
  <2>3. CASE r # s
    <3>1. sessions[r] # i
      BY <2>1, <2>3
    <3>2. PICK j \in DOMAIN stored : stored[j] = stored'[k]
      BY <1>7, <2>3
    <3>3. ptys'[sessions[r]] = ptys[sessions[r]]
      BY <1>6, <2>1, <3>1
    <3> QED BY <3>2, <3>3 DEF BrokerInv, StoredIsTrue, Registered, Running, StoredFor
  <2> QED BY <2>2, <2>3
<1> QED BY <1>6, <1>9, <1>10, <1>11 DEF BrokerInv

LEMMA PreferModeKeeps ==
    ASSUME BrokerInv, NEW s \in Transcripts, NEW mode \in StoredModes, PreferMode(s, mode)
    PROVE  BrokerInv'
<1>1. /\ UNCHANGED <<ptys, sessions, launch, term, doubled>> /\ stored' = Updated(s, mode)
      /\ sessions[s] # 0 /\ Running(sessions[s]) => ptys[sessions[s]].mode = mode
  BY DEF PreferMode
<1>2. /\ stored' \in Seq(EntryType) /\ Len(stored') <= StoreLimit
      /\ \A j, k \in DOMAIN stored' : stored'[j].id = stored'[k].id => j = k
      /\ \A k \in DOMAIN stored' : stored'[k].id = s => stored'[k].mode = mode
      /\ \A k \in DOMAIN stored' : stored'[k].id # s => \E j \in DOMAIN stored : stored[j] = stored'[k]
  BY <1>1, UpdatedStore DEF BrokerInv, TableTyped
<1>3. TableTyped' /\ EntriesDiffer'
  BY <1>1, <1>2 DEF BrokerInv, TableTyped, EntriesDiffer
<1>4. PtysFit' /\ TableFits' /\ TermsFit' /\ KeyboardsFit' /\ OneTuiPerTranscript'
  BY <1>1 DEF BrokerInv, PtysFit, TableFits, TermsFit, KeyboardsFit, OneTuiPerTranscript, Running
<1>5. StoredIsTrue'
  <2> SUFFICES ASSUME NEW r \in Transcripts, sessions[r] # 0, r \notin doubled, Running(sessions[r]),
                      NEW k \in DOMAIN stored', stored'[k].id = r
               PROVE  stored'[k].mode = ptys[sessions[r]].mode
    BY <1>1 DEF StoredIsTrue, Registered, Running, StoredFor
  <2>1. CASE r = s
    BY <1>1, <1>2, <2>1
  <2>2. CASE r # s
    <3>1. PICK j \in DOMAIN stored : stored[j] = stored'[k]
      BY <1>2, <2>2
    <3> QED BY <3>1 DEF BrokerInv, StoredIsTrue, Registered, StoredFor
  <2> QED BY <2>1, <2>2
<1> QED BY <1>3, <1>4, <1>5 DEF BrokerInv

(* A TUI whose output nobody has read yet, or that ends.                     *)
LEMMA QuietPtyKeeps ==
    ASSUME BrokerInv, NEW i \in DOMAIN ptys, NEW z \in PtyType, PtyFits(z), z.id = ptys[i].id,
           z.exited = ptys[i].exited, z.mode = ptys[i].mode,
           z.made - z.unread = ptys[i].made - ptys[i].unread,
           z.made = ptys[i].made \/ z.exited = 0,
           ptys' = [ptys EXCEPT ![i] = z], UNCHANGED <<sessions, launch, term, stored, doubled>>
    PROVE  BrokerInv'
<1>1. term \in [Terminals -> TermType]
  BY DEF BrokerInv, TableTyped
<1>2. /\ TableTyped' /\ PtysFit' /\ TableFits' /\ OneTuiPerTranscript' /\ EntriesDiffer'
      /\ StoredIsTrue' /\ DOMAIN ptys' = DOMAIN ptys /\ ptys'[i] = z
      /\ \A j \in DOMAIN ptys : j # i => ptys'[j] = ptys[j]
  BY <1>1, PtyKeeps
<1>3. \A x \in TermType : TermFits(x, ptys[i]) => TermFits(x, z)
  BY DEF TermFits
<1>4. \A j \in DOMAIN ptys, x \in TermType : TermFits(x, ptys[j]) => TermFits(x, ptys'[j])
  BY <1>2, <1>3
<1>5. TermsFit' /\ KeyboardsFit'
  BY <1>1, <1>2, <1>4 DEF BrokerInv, TermsFit, KeyboardsFit
<1> QED BY <1>2, <1>5 DEF BrokerInv

LEMMA ProduceKeeps ==
    ASSUME BrokerInv, NEW i \in DOMAIN ptys, Produce(i) \/ TuiExits(i)
    PROVE  BrokerInv'
<1> DEFINE y == ptys[i]
<1>1. y \in PtyType /\ PtyFits(y) /\ y.alive /\ UNCHANGED <<sessions, launch, term, stored, doubled>>
  BY DEF BrokerInv, TableTyped, PtysFit, Produce, TuiExits
<1>2. CASE Produce(i)
  <2> DEFINE z == [y EXCEPT !.made = y.made + 1, !.unread = y.unread + 1]
  <2>1. y.exited = 0 /\ y.made \in Nat /\ y.unread \in Nat /\ y.unread <= y.made
    BY <1>1 DEF PtyFits, PtyType
  <2>2. /\ z \in PtyType /\ z.id = y.id /\ z.exited = y.exited /\ z.mode = y.mode
        /\ z.made = y.made + 1 /\ z.unread = y.unread + 1
    <3>1. y.made + 1 \in Nat /\ y.unread + 1 \in Nat
      BY <2>1
    <3> QED BY <1>1, <3>1 DEF PtyType
  <2>3. ptys' = [ptys EXCEPT ![i] = z]
    BY <1>2 DEF Produce
  <2> HIDE DEF z
  <2>4. PtyFits(z) /\ z.made - z.unread = y.made - y.unread
    BY <2>1, <2>2 DEF PtyFits
  <2> QED BY <1>1, <2>1, <2>2, <2>3, <2>4, QuietPtyKeeps
<1>3. CASE TuiExits(i)
  <2> DEFINE z == [y EXCEPT !.alive = FALSE]
  <2>1. /\ z \in PtyType /\ z.id = y.id /\ z.exited = y.exited /\ z.mode = y.mode
        /\ z.made = y.made /\ z.unread = y.unread /\ ~z.alive
    BY <1>1 DEF PtyType
  <2>2. ptys' = [ptys EXCEPT ![i] = z]
    BY <1>3 DEF TuiExits
  <2> HIDE DEF z
  <2>3. PtyFits(z)
    BY <1>1, <2>1 DEF PtyFits
  <2> QED BY <1>1, <2>1, <2>2, <2>3, QuietPtyKeeps
<1> QED BY <1>2, <1>3

(* What a TUI brings is offered to everybody attached to it.                 *)
LEMMA BroadcastKeeps ==
    ASSUME BrokerInv, NEW i \in DOMAIN ptys, NEW z \in PtyType, PtyFits(z), z.id = ptys[i].id,
           z.mode = ptys[i].mode, ptys[i].exited = 0, NEW e, Brings(e, ptys[i], z),
           ptys' = [ptys EXCEPT ![i] = z], Broadcast(i, e),
           UNCHANGED <<sessions, launch, stored, doubled>>
    PROVE  BrokerInv'
<1>1. term \in [Terminals -> TermType]
  BY DEF BrokerInv, TableTyped
<1>2. \A t \in Terminals : term'[t] = IF Subscribed(t, i) THEN Offered(term[t], e) ELSE term[t]
  BY DEF Broadcast
<1>3. ptys[i] \in PtyType /\ PtyFits(ptys[i])
  BY DEF BrokerInv, TableTyped, PtysFit
<1>4. \A t \in Terminals :
         /\ term'[t] \in TermType /\ Len(term'[t].queue) <= QueueEvents
         /\ term'[t].at = term[t].at /\ term'[t].of = term[t].of
         /\ TypesInto(term'[t]) => TypesInto(term[t])
         /\ term[t].at # "off" /\ term[t].of = i => TermFits(term'[t], z)
         /\ term[t].at # "off" /\ term[t].of # i => term'[t] = term[t]
  <2> TAKE t \in Terminals
  <2>1. term[t] \in TermType /\ Len(term[t].queue) <= QueueEvents
        /\ (term[t].at # "off" => TermFits(term[t], ptys[term[t].of]))
    BY <1>1 DEF BrokerInv, TermsFit
  <2>2. CASE Subscribed(t, i)
    <3>1. term[t].at = "on" /\ term[t].of = i /\ ~term[t].over
      BY <2>2 DEF Subscribed
    <3>2. /\ Offered(term[t], e) \in TermType /\ TermFits(Offered(term[t], e), z)
          /\ Offered(term[t], e).at = term[t].at /\ Offered(term[t], e).of = term[t].of
          /\ TypesInto(Offered(term[t], e)) => TypesInto(term[t])
      BY <1>3, <2>1, <3>1, OfferedFits
    <3>3. term'[t] = Offered(term[t], e)
      BY <1>2, <2>2
    <3> QED BY <3>1, <3>2, <3>3 DEF TermFits
  <2>3. CASE ~Subscribed(t, i)
    <3>1. term'[t] = term[t]
      BY <1>2, <2>3
    <3>2. ASSUME term[t].at # "off", term[t].of = i PROVE TermFits(term[t], z)
      <4>1. ~(term[t].at = "on" /\ ~term[t].over)
        BY <2>3, <3>2 DEF Subscribed
      <4> QED BY <2>1, <3>2, <4>1 DEF TermFits
    <3> QED BY <2>1, <3>1, <3>2
  <2> QED BY <2>2, <2>3
<1>5. term' \in [Terminals -> TermType]
  BY <1>4 DEF Broadcast
<1>6. /\ TableTyped' /\ PtysFit' /\ TableFits' /\ OneTuiPerTranscript' /\ EntriesDiffer'
      /\ StoredIsTrue' /\ DOMAIN ptys' = DOMAIN ptys /\ ptys'[i] = z
      /\ \A j \in DOMAIN ptys : j # i => ptys'[j] = ptys[j]
  BY <1>5, PtyKeeps
<1>7. TermsFit'
  BY <1>4, <1>6 DEF BrokerInv, TermsFit
<1>8. KeyboardsFit'
  BY <1>4 DEF BrokerInv, KeyboardsFit
<1> QED BY <1>6, <1>7, <1>8 DEF BrokerInv

LEMMA OnReadableKeeps ==
    ASSUME BrokerInv, NEW i \in DOMAIN ptys, OnReadable(i)
    PROVE  BrokerInv'
<1> DEFINE y == ptys[i]
           z == [y EXCEPT !.unread = y.unread - 1]
           e == <<y.made - y.unread + 1>>
<1>1. /\ y \in PtyType /\ PtyFits(y) /\ y.exited = 0 /\ y.unread > 0
      /\ UNCHANGED <<sessions, launch, stored, doubled>>
      /\ ptys' = [ptys EXCEPT ![i] = z] /\ Broadcast(i, e)
  BY DEF BrokerInv, TableTyped, PtysFit, OnReadable, Running, ReadSoFar
<1>2. y.made \in Nat /\ y.unread \in Nat /\ y.unread <= y.made
  BY <1>1 DEF PtyFits, PtyType
<1>3. /\ z \in PtyType /\ z.id = y.id /\ z.exited = y.exited /\ z.mode = y.mode
      /\ z.made = y.made /\ z.unread = y.unread - 1
  <2>1. y.unread - 1 \in Nat
    BY <1>1, <1>2
  <2> QED BY <1>1, <2>1 DEF PtyType
<1>4. e \in Seq(Nat) /\ Len(e) = 1 /\ e[1] = y.made - y.unread + 1 /\ e[1] # 0
  BY <1>2
<1>5. ~ExitQueued(e)
  BY <1>4 DEF ExitQueued
<1> HIDE DEF z, e
<1>6. PtyFits(z)
  BY <1>1, <1>2, <1>3 DEF PtyFits
<1>7. Brings(e, y, z)
  <2>1. z.made - z.unread = y.made - y.unread + 1
    BY <1>2, <1>3
  <2> HIDE DEF y
  <2> QED BY <1>1, <1>2, <1>3, <1>4, <1>5, <2>1 DEF Brings
<1> QED BY <1>1, <1>3, <1>6, <1>7, BroadcastKeeps

(* The rest of the output, and the exit.                                     *)
LEMMA NoticeExitKeeps ==
    ASSUME BrokerInv, NEW i \in DOMAIN ptys, NoticeExit(i)
    PROVE  BrokerInv'
<1> DEFINE y == ptys[i]
           n == y.unread
           read == y.made - y.unread
           z == [y EXCEPT !.exited = Exits + 1, !.unread = 0]
           rest == [k \in 1 .. n |-> read + k]
           e == rest \o <<0>>
<1>1. /\ y \in PtyType /\ PtyFits(y) /\ y.exited = 0 /\ ~y.alive
      /\ UNCHANGED <<sessions, launch, stored, doubled>>
      /\ ptys' = [ptys EXCEPT ![i] = z] /\ Broadcast(i, e)
  <2>1. y \in PtyType /\ PtyFits(y)
    BY DEF BrokerInv, TableTyped, PtysFit
  <2>2. /\ y.exited = 0 /\ ~y.alive
        /\ UNCHANGED <<sessions, launch, stored, doubled>>
    BY DEF NoticeExit, Running
  <2>3. ptys' = [ptys EXCEPT ![i] = z]
    BY DEF NoticeExit
  <2>4. Broadcast(i, e)
    <3>1. Broadcast(i, [k \in 1 .. ptys[i].unread |-> ReadSoFar(i) + k] \o <<0>>)
      BY DEF NoticeExit
    <3>2. ReadSoFar(i) = read
      BY DEF ReadSoFar
    <3> QED BY <3>1, <3>2
  <2> QED BY <2>1, <2>2, <2>3, <2>4
<1>2. y.made \in Nat /\ n \in Nat /\ n <= y.made /\ read \in Nat
  BY <1>1 DEF PtyFits, PtyType
<1>3. Exits \in Nat
  <2>1. DOMAIN ptys = 1 .. Len(ptys) /\ Len(ptys) \in Nat
    BY DEF BrokerInv, TableTyped
  <2>2. IsFiniteSet(DOMAIN ptys)
    BY <2>1, FS_Interval
  <2>3. IsFiniteSet({j \in DOMAIN ptys : ~Running(j)})
    BY <2>2, FS_Subset
  <2> QED BY <2>3, FS_CardinalityType DEF Exits
<1>4. /\ z \in PtyType /\ z.id = y.id /\ z.exited # 0 /\ z.mode = y.mode
      /\ z.made = y.made /\ z.unread = 0 /\ ~z.alive
  <2>1. Exits + 1 \in Nat \ {0}
    BY <1>3
  <2> QED BY <1>1, <2>1 DEF PtyType
<1>5. /\ rest \in Seq(Nat) /\ Len(rest) = n /\ \A k \in 1 .. n : rest[k] = read + k
  BY <1>2
<1> HIDE DEF z, rest, read, n
<1>6. /\ e \in Seq(Nat) /\ Len(e) = n + 1 /\ e[n + 1] = 0 /\ \A k \in 1 .. n : e[k] = read + k
  BY <1>2, <1>5
<1> HIDE DEF e
<1>7. ExitQueued(e)
  BY <1>2, <1>6 DEF ExitQueued
<1>8. PtyFits(z)
  BY <1>2, <1>4 DEF PtyFits, n
<1>9. Brings(e, y, z)
  <2>1. z.made - z.unread = read + Len(e) - 1
    BY <1>2, <1>4, <1>6 DEF read, n
  <2>2. \A k \in 1 .. Len(e) : e[k] = read + k \/ (k = Len(e) /\ e[k] = 0)
    BY <1>2, <1>6
  <2>3. Len(e) >= 1
    BY <1>2, <1>6
  <2> HIDE DEF y
  <2> QED BY <1>4, <1>6, <1>7, <2>1, <2>2, <2>3 DEF Brings, read
<1> QED BY <1>1, <1>4, <1>8, <1>9, BroadcastKeeps

LEMMA PumpKeeps ==
    ASSUME BrokerInv, NEW t \in Terminals, Pump(t)
    PROVE  BrokerInv'
<1> DEFINE x == term[t]
           y == ptys[x.of]
<1>1. x \in TermType /\ x.at = "on" /\ UNCHANGED <<ptys, sessions, launch, stored, doubled>>
  BY DEF BrokerInv, TableTyped, Pump
<1>2. x.of \in DOMAIN ptys /\ TermFits(x, y) /\ Len(x.queue) <= QueueEvents
  BY <1>1 DEF BrokerInv, TermsFit
<1>3. y \in PtyType /\ PtyFits(y)
  BY <1>2 DEF BrokerInv, TableTyped, PtysFit
<1>4. /\ x.last \in Nat /\ x.snapshot \in Seq(Nat) /\ x.queue \in Seq(Nat)
      /\ Len(x.snapshot) \in Nat /\ Len(x.queue) \in Nat
      /\ y.made \in Nat /\ y.unread \in Nat
  BY <1>1, <1>3 DEF TermType, PtyType
<1>5. ASSUME NEW w \in TermType, term' = [term EXCEPT ![t] = w], w.of = x.of, w.at # "off",
             TermFits(w, y), TypesInto(w) => TypesInto(x)
      PROVE  BrokerInv'
  <2>1. TypesInto(w) => \A u \in Terminals : TypesInto(term[u]) /\ term[u].of = w.of => u = t
    BY <1>5 DEF BrokerInv, KeyboardsFit
  <2>2. Len(w.queue) <= QueueEvents
    BY <1>5 DEF TermFits
  <2> QED BY <1>1, <1>2, <1>5, <2>1, <2>2, TermKeeps
<1> HIDE DEF y
<1>6. CASE /\ x.snapshot # <<>>
           /\ term' = [term EXCEPT ![t] =
                [[x EXCEPT !.last = IF Head(x.snapshot) = x.last + 1 THEN Head(x.snapshot) ELSE -1]
                    EXCEPT !.snapshot = Tail(@)]]
  <2> DEFINE w == [x EXCEPT !.last = x.last + 1, !.snapshot = Tail(x.snapshot)]
  <2>1. Len(x.snapshot) >= 1 /\ Head(x.snapshot) = x.last + 1 /\ x.last + 1 \in Nat
    <3>1. Len(x.snapshot) >= 1 /\ 1 \in 1 .. Len(x.snapshot) /\ Head(x.snapshot) = x.snapshot[1]
      BY <1>4, <1>6
    <3>2. x.snapshot[1] = x.last + 1
      BY <1>2, <3>1 DEF TermFits
    <3> QED BY <1>4, <3>1, <3>2
  <2>2. term' = [term EXCEPT ![t] = w]
    BY <1>1, <1>6, <2>1 DEF TermType
  <2>3. /\ Tail(x.snapshot) \in Seq(Nat) /\ Len(Tail(x.snapshot)) = Len(x.snapshot) - 1
        /\ \A k \in 1 .. Len(Tail(x.snapshot)) : Tail(x.snapshot)[k] = x.snapshot[k + 1]
    BY <1>4, <1>6, HeadTailProperties
  <2>4. /\ w \in TermType /\ w.of = x.of /\ w.at = x.at /\ w.over = x.over /\ w.told = x.told
        /\ w.keyboard = x.keyboard /\ w.queue = x.queue /\ w.last = x.last + 1
        /\ w.snapshot = Tail(x.snapshot)
    BY <1>1, <2>1, <2>3 DEF TermType
  <2> HIDE DEF w, x
  <2>5. w.last + Len(w.snapshot) = x.last + Len(x.snapshot) /\ Len(w.snapshot) \in Nat
    <3>1. w.last = x.last + 1 /\ Len(w.snapshot) = Len(x.snapshot) - 1
      BY <2>3, <2>4
    <3>2. \A a, b \in Nat : b >= 1 => b - 1 \in Nat /\ a + 1 + (b - 1) = a + b
      OBVIOUS
    <3>3. x.last \in Nat /\ Len(x.snapshot) \in Nat /\ Len(x.snapshot) >= 1
      BY <1>4, <2>1
    <3>4. /\ Len(x.snapshot) - 1 \in Nat
          /\ x.last + 1 + (Len(x.snapshot) - 1) = x.last + Len(x.snapshot)
      BY <3>2, <3>3
    <3> QED BY <3>1, <3>4
  <2>6. TermFits(w, y)
    <3>1. ASSUME NEW k \in 1 .. Len(w.snapshot) PROVE w.snapshot[k] = w.last + k
      <4>1. k + 1 \in 1 .. Len(x.snapshot) /\ w.snapshot[k] = x.snapshot[k + 1] /\ k \in Nat
        BY <1>4, <2>3, <2>4
      <4>2. x.snapshot[k + 1] = x.last + (k + 1)
        BY <1>2, <4>1 DEF TermFits
      <4>3. \A a, b \in Nat : a + (b + 1) = a + 1 + b
        OBVIOUS
      <4>4. w.last = x.last + 1 /\ x.last \in Nat
        BY <1>4, <2>4
      <4>5. x.last + (k + 1) = x.last + 1 + k
        BY <4>1, <4>3, <4>4
      <4> QED BY <4>1, <4>2, <4>4, <4>5
    <3>2. w.last + Waiting(w) = x.last + Waiting(x)
      <4> DEFINE c == IF ExitQueued(x.queue) THEN 1 ELSE 0
      <4>1. c \in Nat /\ Waiting(w) = Len(w.snapshot) + Len(x.queue) - c
            /\ Waiting(x) = Len(x.snapshot) + Len(x.queue) - c
        BY <2>4 DEF Waiting
      <4> HIDE DEF c
      <4> DEFINE a == x.last  b == Len(x.snapshot)  d == Len(w.snapshot)
                 f == w.last  q == Len(x.queue)
      <4>2. a \in Nat /\ b \in Nat /\ d \in Nat /\ f \in Nat /\ q \in Nat /\ f + d = a + b
        BY <1>4, <2>1, <2>4, <2>5
      <4> HIDE DEF a, b, d, f, q
      <4>3. f + (d + q - c) = a + (b + q - c)
        BY <4>1, <4>2
      <4> QED BY <4>1, <4>3 DEF a, b, d, f, q
    <3> QED BY <1>1, <1>2, <2>4, <2>5, <3>1, <3>2 DEF TermFits
  <2> QED BY <1>1, <1>5, <2>2, <2>4, <2>6 DEF TypesInto, x
<1>7. ASSUME NEW what \in {"slow", "exit"},
             term' = [term EXCEPT ![t] = [x EXCEPT !.told = what, !.at = "told", !.keyboard = FALSE]],
             what = "exit" => x.last = y.made /\ y.exited # 0
      PROVE  BrokerInv'
  <2> DEFINE w == [x EXCEPT !.told = what, !.at = "told", !.keyboard = FALSE]
  <2>1. /\ w \in TermType /\ w.of = x.of /\ w.at = "told" /\ w.told = what
        /\ w.queue = x.queue /\ w.last = x.last /\ w.snapshot = x.snapshot
    BY <1>1 DEF TermType
  <2>2. term' = [term EXCEPT ![t] = w]
    BY <1>7
  <2> HIDE DEF w, x
  <2>3. TermFits(w, y)
    BY <1>2, <1>7, <2>1 DEF TermFits
  <2> QED BY <1>5, <2>1, <2>2, <2>3 DEF TypesInto
<1>8. CASE /\ x.snapshot = <<>> /\ ~x.over /\ x.queue # <<>> /\ Head(x.queue) = 0
           /\ term' = [term EXCEPT ![t] = [x EXCEPT !.told = "exit", !.at = "told", !.keyboard = FALSE]]
  <2>1. Len(x.snapshot) = 0 /\ Len(x.queue) >= 1 /\ x.queue[1] = 0
    BY <1>4, <1>8
  <2>2. Len(x.queue) = 1
    <3>1. 1 \in 1 .. Len(x.queue) /\ x.last + Len(x.snapshot) + 1 # 0
      BY <1>4, <2>1
    <3> QED BY <1>2, <2>1, <3>1 DEF TermFits
  <2>3. ExitQueued(x.queue)
    BY <1>8, <2>1, <2>2 DEF ExitQueued
  <2>4. y.exited # 0 /\ y.unread = 0
    BY <1>2, <1>3, <2>3 DEF TermFits, PtyFits
  <2>5. Waiting(x) = 0
    BY <2>1, <2>2, <2>3 DEF Waiting
  <2>6. x.last + Waiting(x) = y.made - y.unread
    BY <1>1, <1>2, <1>8 DEF TermFits
  <2>7. x.last = y.made
    BY <1>4, <2>4, <2>5, <2>6
  <2> QED BY <1>7, <1>8, <2>4, <2>7
<1>9. CASE /\ x.snapshot = <<>> /\ ~x.over /\ x.queue # <<>> /\ Head(x.queue) # 0
           /\ term' = [term EXCEPT ![t] =
                [[x EXCEPT !.last = IF Head(x.queue) = x.last + 1 THEN Head(x.queue) ELSE -1]
                    EXCEPT !.queue = Tail(@)]]
  <2> DEFINE w == [x EXCEPT !.last = x.last + 1, !.queue = Tail(x.queue)]
  <2>1. Len(x.snapshot) = 0 /\ Len(x.queue) >= 1 /\ x.queue[1] # 0 /\ Head(x.queue) = x.queue[1]
    BY <1>4, <1>9
  <2>2. Head(x.queue) = x.last + 1 /\ x.last + 1 \in Nat
    <3>1. 1 \in 1 .. Len(x.queue) /\ x.last + Len(x.snapshot) + 1 = x.last + 1
      BY <1>4, <2>1
    <3>2. x.queue[1] = x.last + Len(x.snapshot) + 1
      BY <1>2, <2>1, <3>1 DEF TermFits
    <3> QED BY <1>4, <2>1, <3>1, <3>2
  <2>3. term' = [term EXCEPT ![t] = w]
    BY <1>1, <1>9, <2>2 DEF TermType
  <2>4. /\ Tail(x.queue) \in Seq(Nat) /\ Len(Tail(x.queue)) = Len(x.queue) - 1
        /\ \A k \in 1 .. Len(Tail(x.queue)) : Tail(x.queue)[k] = x.queue[k + 1]
    BY <1>4, <1>9, HeadTailProperties
  <2>5. /\ w \in TermType /\ w.of = x.of /\ w.at = x.at /\ w.over = x.over /\ w.told = x.told
        /\ w.keyboard = x.keyboard /\ w.snapshot = x.snapshot /\ w.last = x.last + 1
        /\ w.queue = Tail(x.queue)
    BY <1>1, <2>2, <2>4 DEF TermType
  <2> HIDE DEF w, x
  <2>6. ExitQueued(w.queue) <=> ExitQueued(x.queue)
    <3>1. CASE Len(x.queue) = 1
      <4>1. ~ExitQueued(x.queue)
        BY <2>1, <3>1 DEF ExitQueued
      <4>2. w.queue = <<>>
        <5>1. w.queue \in Seq(Nat) /\ Len(w.queue) = 0
          BY <2>4, <2>5, <3>1
        <5> QED BY <5>1, EmptySeq
      <4> QED BY <4>1, <4>2 DEF ExitQueued
    <3>2. CASE Len(x.queue) > 1
      <4>0. Len(w.queue) = Len(x.queue) - 1 /\ Len(w.queue) \in 1 .. Len(w.queue)
            /\ Len(w.queue) + 1 = Len(x.queue)
        BY <1>4, <2>4, <2>5, <3>2
      <4>1. Len(w.queue) >= 1 /\ w.queue[Len(w.queue)] = x.queue[Len(x.queue)]
        BY <2>4, <2>5, <4>0
      <4> QED BY <1>9, <2>4, <2>5, <4>1 DEF ExitQueued
    <3>3. \A a \in Nat : a >= 1 => a = 1 \/ a > 1
      OBVIOUS
    <3>4. Len(x.queue) = 1 \/ Len(x.queue) > 1
      BY <1>4, <2>1, <3>3
    <3> QED BY <3>1, <3>2, <3>4
  <2>7. TermFits(w, y)
    <3>1. ASSUME NEW k \in 1 .. Len(w.queue)
          PROVE  w.queue[k] = w.last + Len(w.snapshot) + k \/ (k = Len(w.queue) /\ w.queue[k] = 0)
      <4>1. k + 1 \in 1 .. Len(x.queue) /\ w.queue[k] = x.queue[k + 1] /\ k \in Nat
        BY <1>4, <2>4, <2>5
      <4>2. x.queue[k + 1] = x.last + Len(x.snapshot) + (k + 1)
            \/ (k + 1 = Len(x.queue) /\ x.queue[k + 1] = 0)
        BY <1>2, <4>1 DEF TermFits
      <4>4. /\ w.last = x.last + 1 /\ x.last \in Nat /\ Len(x.snapshot) = 0
            /\ w.snapshot = x.snapshot /\ Len(w.queue) = Len(x.queue) - 1 /\ Len(x.queue) \in Nat
        BY <1>4, <2>1, <2>4, <2>5
      <4>5. \A a, b \in Nat : a + 0 + (b + 1) = a + 1 + 0 + b
        OBVIOUS
      <4>6. x.last + Len(x.snapshot) + (k + 1) = w.last + Len(w.snapshot) + k
        <5>1. k \in Nat /\ x.last \in Nat
          BY <4>1, <4>4
        <5>2. x.last + 0 + (k + 1) = x.last + 1 + 0 + k
          BY <4>5, <5>1
        <5>3. Len(x.snapshot) = 0 /\ Len(w.snapshot) = 0 /\ w.last = x.last + 1
          BY <4>4
        <5> QED BY <5>2, <5>3, Zenon
      <4>7. \A a, b \in Nat : a + 1 = b => a = b - 1
        OBVIOUS
      <4>8. k + 1 = Len(x.queue) => k = Len(w.queue)
        BY <4>1, <4>4, <4>7
      <4> QED BY <4>1, <4>2, <4>6, <4>8
    <3>2. w.last + Waiting(w) = x.last + Waiting(x)
      <4> DEFINE c == IF ExitQueued(x.queue) THEN 1 ELSE 0
      <4>1. c \in Nat /\ Waiting(w) = Len(x.snapshot) + Len(w.queue) - c
            /\ Waiting(x) = Len(x.snapshot) + Len(x.queue) - c
        BY <2>5, <2>6 DEF Waiting
      <4>0. Len(w.queue) = Len(x.queue) - 1 /\ w.last = x.last + 1
        BY <2>4, <2>5
      <4> HIDE DEF c
      <4> DEFINE a == x.last  b == Len(x.queue)  d == Len(w.queue)  f == w.last
                 q == Len(x.snapshot)
      <4>2. a \in Nat /\ b \in Nat /\ q \in Nat /\ d = b - 1 /\ f = a + 1
        BY <1>4, <4>0
      <4> HIDE DEF a, b, d, f, q
      <4>3. f + (q + d - c) = a + (q + b - c)
        BY <4>1, <4>2
      <4> QED BY <4>1, <4>3 DEF a, b, d, f, q
    <3>3. Len(w.queue) <= QueueEvents
      BY <1>2, <1>4, <2>4, <2>5, BrokerBounds
    <3>4. \A k \in 1 .. Len(w.snapshot) : w.snapshot[k] = w.last + k
      BY <2>1, <2>5
    <3> QED BY <1>1, <1>2, <2>5, <2>6, <3>1, <3>2, <3>3, <3>4 DEF TermFits
  <2> QED BY <1>1, <1>5, <2>3, <2>5, <2>7 DEF TypesInto, x
<1>10. CASE /\ x.snapshot = <<>> /\ x.over
            /\ term' = [term EXCEPT ![t] = [x EXCEPT !.told = "slow", !.at = "told", !.keyboard = FALSE]]
  BY <1>7, <1>10
<1> QED BY <1>6, <1>8, <1>9, <1>10 DEF Pump

(* What is shown first is the recent output.                                 *)
LEMMA RecentOutput ==
    ASSUME NEW i, ptys[i] \in PtyType, PtyFits(ptys[i])
    PROVE  /\ HistoryOf(i) \in Seq(Nat) /\ Len(HistoryOf(i)) \in Nat
           /\ ReadSoFar(i) - Len(HistoryOf(i)) \in Nat
           /\ ReadSoFar(i) = ptys[i].made - ptys[i].unread
           /\ \A k \in 1 .. Len(HistoryOf(i)) :
                 HistoryOf(i)[k] = ReadSoFar(i) - Len(HistoryOf(i)) + k
<1> DEFINE n == ReadSoFar(i)
           first == IF n > HistoryChunks THEN n - HistoryChunks + 1 ELSE 1
           h == HistoryOf(i)
<1>1. n \in Nat /\ n = ptys[i].made - ptys[i].unread
  BY DEF ReadSoFar, PtyType, PtyFits
<1>2. h = [k \in 1 .. (n - first + 1) |-> first + k - 1]
  BY DEF HistoryOf
<1> HIDE DEF n, h
<1>3. first \in Nat /\ first >= 1 /\ n - first + 1 \in Nat
  BY <1>1, BrokerBounds
<1> HIDE DEF first
<1>4. /\ h \in Seq(Nat) /\ Len(h) = n - first + 1
      /\ \A k \in 1 .. Len(h) : h[k] = first + k - 1
  <2> DEFINE m == n - first + 1
  <2>1. m \in Nat /\ h = [k \in 1 .. m |-> first + k - 1]
    BY <1>2, <1>3
  <2> HIDE DEF m
  <2>2. \A k \in 1 .. m : first + k - 1 \in Nat
    BY <1>3, <2>1
  <2>3. h \in Seq(Nat) /\ Len(h) = m
    BY <2>1, <2>2
  <2> QED BY <2>1, <2>3 DEF m
<1>5. n - Len(h) = first - 1 /\ first - 1 \in Nat
  BY <1>1, <1>3, <1>4
<1>6. ASSUME NEW k \in 1 .. Len(h) PROVE h[k] = n - Len(h) + k
  <2>1. \A a, b \in Nat : a + b - 1 = a - 1 + b
    OBVIOUS
  <2>2. k \in Nat /\ h[k] = first + k - 1
    BY <1>4
  <2> QED BY <1>3, <1>5, <2>1, <2>2
<1> QED BY <1>1, <1>3, <1>4, <1>5, <1>6 DEF n, h

LEMMA AttachKeeps ==
    ASSUME BrokerInv, NEW t \in Terminals, NEW s \in Transcripts, AttachTerminal(t, s)
    PROVE  BrokerInv'
<1> DEFINE i == sessions[s]
           h == HistoryOf(i)
           y == ptys[i]
           q == IF Running(i) THEN <<>> ELSE <<0>>
           key == Running(i) /\ KeyboardOwner(i) = {}
           from == ReadSoFar(i) - Len(h)
           w == [Detached EXCEPT !.at = "on", !.of = i, !.snapshot = h, !.queue = q,
                                 !.keyboard = key, !.last = from]
<1>1. /\ i # 0 /\ term' = [term EXCEPT ![t] = w]
      /\ UNCHANGED <<ptys, sessions, launch, stored, doubled>>
  BY DEF AttachTerminal
<1>2. i \in DOMAIN ptys /\ i \in Nat
  BY <1>1 DEF BrokerInv, TableFits, TableTyped
<1>3. y \in PtyType /\ PtyFits(y)
  BY <1>2 DEF BrokerInv, TableTyped, PtysFit
<1>4. /\ h \in Seq(Nat) /\ Len(h) \in Nat /\ from \in Nat
      /\ ReadSoFar(i) = y.made - y.unread /\ \A k \in 1 .. Len(h) : h[k] = from + k
  BY <1>3, RecentOutput
<1>5. from + Len(h) = y.made - y.unread
  <2>1. y.made \in Nat /\ y.unread \in Nat
    BY <1>3 DEF PtyType
  <2> QED BY <1>4, <2>1
<1>6. q \in Seq(Nat) /\ key \in BOOLEAN
  OBVIOUS
<1>7. CASE y.exited = 0
  <2>1. q = <<>> /\ Len(q) = 0 /\ ~ExitQueued(q)
    BY <1>7 DEF Running, ExitQueued
  <2> HIDE DEF q, key, from, h, y, i
  <2>2. /\ w \in TermType /\ w.at = "on" /\ w.of = i /\ w.snapshot = h /\ w.queue = q /\ ~w.over
        /\ w.keyboard = key /\ w.last = from /\ w.told = Nobody
    BY <1>2, <1>4, <1>6 DEF TermType, Detached
  <2> HIDE DEF w
  <2>3. TermFits(w, y)
    <3>1. w.last + Waiting(w) = y.made - y.unread
      <4>1. Waiting(w) = Len(h)
        BY <1>4, <2>1, <2>2 DEF Waiting
      <4> QED BY <1>5, <2>2, <4>1
    <3>2. Len(w.queue) <= QueueEvents
      BY <2>1, <2>2, BrokerBounds
    <3>3. \A k \in 1 .. Len(w.queue) : FALSE
      BY <2>1, <2>2
    <3>4. w.told # "exit"
      BY <2>2 DEF Nobody
    <3> QED BY <1>4, <1>7, <2>1, <2>2, <3>1, <3>2, <3>3, <3>4 DEF TermFits
  <2>4. Len(w.queue) <= QueueEvents
    BY <2>3 DEF TermFits
  <2>5. TypesInto(w) => \A u \in Terminals : TypesInto(term[u]) /\ term[u].of = w.of => u = t
    BY <2>2 DEF TypesInto, key, KeyboardOwner, Subscribed
  <2> QED BY <1>1, <1>2, <2>2, <2>3, <2>4, <2>5, TermKeeps DEF y
<1>8. CASE y.exited # 0
  <2>1. q = <<0>> /\ Len(q) = 1 /\ q[1] = 0 /\ ExitQueued(q) /\ ~key
    BY <1>8 DEF Running, ExitQueued
  <2> HIDE DEF q, key, from, h, y, i
  <2>2. /\ w \in TermType /\ w.at = "on" /\ w.of = i /\ w.snapshot = h /\ w.queue = q /\ ~w.over
        /\ w.keyboard = key /\ w.last = from /\ w.told = Nobody
    BY <1>2, <1>4, <1>6 DEF TermType, Detached
  <2> HIDE DEF w
  <2>3. TermFits(w, y)
    <3>1. w.last + Waiting(w) = y.made - y.unread
      <4>1. Waiting(w) = Len(h)
        BY <1>4, <2>1, <2>2 DEF Waiting
      <4> QED BY <1>5, <2>2, <4>1
    <3>2. Len(w.queue) <= QueueEvents
      BY <2>1, <2>2, BrokerBounds
    <3>3. \A k \in 1 .. Len(w.queue) : k = Len(w.queue) /\ w.queue[k] = 0
      BY <2>1, <2>2
    <3>4. w.told # "exit"
      BY <2>2 DEF Nobody
    <3> QED BY <1>4, <1>8, <2>1, <2>2, <3>1, <3>2, <3>3, <3>4 DEF TermFits
  <2>4. Len(w.queue) <= QueueEvents
    BY <2>3 DEF TermFits
  <2>5. ~TypesInto(w)
    BY <2>1, <2>2 DEF TypesInto
  <2> QED BY <1>1, <1>2, <2>2, <2>3, <2>4, <2>5, TermKeeps DEF y
<1> QED BY <1>7, <1>8

LEMMA DetachKeeps ==
    ASSUME BrokerInv, NEW t \in Terminals, DetachTerminal(t)
    PROVE  BrokerInv'
<1>1. /\ Detached \in TermType /\ Detached.at = "off" /\ Len(Detached.queue) <= QueueEvents
      /\ ~TypesInto(Detached)
  BY BrokerBounds DEF Detached, TermType, TypesInto
<1> QED BY <1>1, TermKeeps DEF DetachTerminal

LEMMA BrokerNextKeeps == BrokerInv /\ [BrokerNext]_brokerVars => BrokerInv'
<1> SUFFICES ASSUME BrokerInv, [BrokerNext]_brokerVars PROVE BrokerInv'
  OBVIOUS
<1>1. CASE UNCHANGED brokerVars
  BY <1>1 DEF brokerVars, BrokerInv, TableTyped, PtysFit, TableFits, TermsFit, KeyboardsFit,
              EntriesDiffer, OneTuiPerTranscript, StoredIsTrue, Registered, Running, StoredFor
<1>2. ASSUME NEW l \in Launchers, FinishResume(l) \/ \E s \in Transcripts : Resume(l, s)
      PROVE  BrokerInv'
  BY <1>2, FinishResumeKeeps, ResumeKeeps
<1>3. ASSUME NEW s \in Transcripts, NEW mode \in StoredModes, PreferMode(s, mode)
      PROVE  BrokerInv'
  BY <1>3, PreferModeKeeps
<1>4. ASSUME NEW i \in DOMAIN ptys,
             ModeChanges(i) \/ Produce(i) \/ OnReadable(i) \/ TuiExits(i) \/ NoticeExit(i)
      PROVE  BrokerInv'
  BY <1>4, ModeChangesKeeps, ProduceKeeps, OnReadableKeeps, NoticeExitKeeps
<1>5. ASSUME NEW t \in Terminals,
             Pump(t) \/ DetachTerminal(t) \/ \E s \in Transcripts : AttachTerminal(t, s)
      PROVE  BrokerInv'
  BY <1>5, PumpKeeps, DetachKeeps, AttachKeeps
<1> QED BY <1>1, <1>2, <1>3, <1>4, <1>5 DEF BrokerNext
-----------------------------------------------------------------------------
(* What the invariant says, as the safety properties say it.                 *)
LEMMA OutputIsQueue ==
    ASSUME NEW q \in Seq(Nat)
    PROVE  /\ Output(q) \in Seq(Nat)
           /\ Len(Output(q)) = Len(q) - (IF ExitQueued(q) THEN 1 ELSE 0)
           /\ \A k \in 1 .. Len(Output(q)) :
                 Output(q)[k] = q[k] /\ k \in 1 .. Len(q) /\ ~(k = Len(q) /\ q[k] = 0)
<1>1. CASE ~ExitQueued(q)
  <2>1. Output(q) = q /\ Len(q) \in Nat
    BY <1>1 DEF Output
  <2>2. ASSUME NEW k \in 1 .. Len(q), k = Len(q), q[k] = 0 PROVE FALSE
    <3>1. q # <<>>
      BY <2>1, <2>2
    <3> QED BY <1>1, <2>2, <3>1 DEF ExitQueued
  <2> QED BY <1>1, <2>1, <2>2
<1>2. CASE ExitQueued(q)
  <2>1. Output(q) = SubSeq(q, 1, Len(q) - 1) /\ Len(q) \in Nat /\ Len(q) >= 1
    BY <1>2 DEF Output, ExitQueued
  <2> DEFINE m == Len(q) - 1
  <2>2. m \in Nat /\ m <= Len(q) /\ m < Len(q) /\ \A k \in 1 .. m : q[k] \in Nat /\ k \in 1 .. Len(q)
    BY <2>1
  <2>3. /\ SubSeq(q, 1, m) \in Seq(Nat)
        /\ Len(SubSeq(q, 1, m)) = IF 1 <= m THEN m - 1 + 1 ELSE 0
        /\ \A k \in 1 .. m - 1 + 1 : SubSeq(q, 1, m)[k] = q[1 + k - 1]
    <3> HIDE DEF m
    <3> QED BY <2>2, SubSeqProperties
  <2>4. Output(q) \in Seq(Nat) /\ Len(Output(q)) = m /\ \A k \in 1 .. m : Output(q)[k] = q[k]
    <3> HIDE DEF m
    <3>1. Output(q) = SubSeq(q, 1, m)
      BY <2>1 DEF m
    <3> QED BY <2>2, <2>3, <3>1
  <2> QED BY <1>2, <2>1, <2>2, <2>4
<1> QED BY <1>1, <1>2

LEMMA InvSeesAll == BrokerInv => TerminalSeesAll
<1> SUFFICES ASSUME BrokerInv, NEW t \in Terminals, term[t].at # "off"
             PROVE  LET x == term[t]
                        waiting == x.snapshot \o Output(x.queue)
                    IN  /\ x.last >= 0
                        /\ \A k \in DOMAIN waiting : waiting[k] = x.last + k
                        /\ x.told = "exit" => x.last = ptys[x.of].made
                        /\ x.at = "on" /\ ~x.over =>
                              /\ x.last + Len(waiting) = ReadSoFar(x.of)
                              /\ ~Running(x.of) => ExitQueued(x.queue)
  BY DEF TerminalSeesAll
<1> DEFINE x == term[t]
           y == ptys[x.of]
           o == Output(x.queue)
           waiting == x.snapshot \o o
<1>1. x \in TermType /\ x.of \in DOMAIN ptys /\ TermFits(x, y)
  BY DEF BrokerInv, TableTyped, TermsFit
<1>2. /\ x.last \in Nat /\ x.snapshot \in Seq(Nat) /\ x.queue \in Seq(Nat)
      /\ Len(x.snapshot) \in Nat /\ Len(x.queue) \in Nat
  BY <1>1 DEF TermType
<1>3. /\ o \in Seq(Nat) /\ Len(o) = Len(x.queue) - (IF ExitQueued(x.queue) THEN 1 ELSE 0)
      /\ \A k \in 1 .. Len(o) :
            o[k] = x.queue[k] /\ k \in 1 .. Len(x.queue) /\ ~(k = Len(x.queue) /\ x.queue[k] = 0)
  BY <1>2, OutputIsQueue
<1> HIDE DEF x, y, o
<1>4. /\ waiting \in Seq(Nat) /\ Len(waiting) = Len(x.snapshot) + Len(o)
      /\ \A k \in 1 .. Len(x.snapshot) : waiting[k] = x.snapshot[k]
      /\ \A k \in Len(x.snapshot) + 1 .. Len(x.snapshot) + Len(o) :
            waiting[k] = o[k - Len(x.snapshot)]
      /\ DOMAIN waiting = 1 .. Len(waiting) /\ Len(o) \in Nat
  <2> DEFINE p == x.snapshot
  <2>1. p \in Seq(Nat) /\ o \in Seq(Nat) /\ Len(o) \in Nat /\ Len(p) \in Nat
    BY <1>2, <1>3, LenProperties
  <2> HIDE DEF p
  <2>2. /\ p \o o \in Seq(Nat) /\ Len(p \o o) = Len(p) + Len(o)
        /\ \A k \in 1 .. Len(p) + Len(o) :
              (p \o o)[k] = IF k <= Len(p) THEN p[k] ELSE o[k - Len(p)]
    BY <2>1, ConcatProperties
  <2>3. DOMAIN (p \o o) = 1 .. Len(p \o o)
    BY <2>2, LenProperties
  <2>4. \A k \in 1 .. Len(p) : (p \o o)[k] = p[k]
    BY <2>1, <2>2
  <2>5. \A k \in Len(p) + 1 .. Len(p) + Len(o) : (p \o o)[k] = o[k - Len(p)]
    BY <2>1, <2>2
  <2> QED BY <2>1, <2>2, <2>3, <2>4, <2>5 DEF p
<1> HIDE DEF waiting
<1>5. ASSUME NEW k \in DOMAIN waiting PROVE waiting[k] = x.last + k
  <2>1. k \in Nat /\ 1 <= k /\ k <= Len(x.snapshot) + Len(o)
    BY <1>2, <1>4
  <2>2. CASE k <= Len(x.snapshot)
    <3>1. k \in 1 .. Len(x.snapshot)
      BY <1>2, <2>1, <2>2
    <3>2. x.snapshot[k] = x.last + k
      BY <1>1, <3>1 DEF TermFits
    <3> QED BY <1>4, <3>1, <3>2
  <2>3. CASE k > Len(x.snapshot)
    <3> DEFINE j == k - Len(x.snapshot)
    <3>1. j \in 1 .. Len(o) /\ k \in Len(x.snapshot) + 1 .. Len(x.snapshot) + Len(o)
      BY <1>2, <1>4, <2>1, <2>3
    <3>2. waiting[k] = o[j]
      BY <1>4, <3>1
    <3> HIDE DEF j
    <3>3. o[j] = x.last + Len(x.snapshot) + j
      BY <1>1, <1>3, <3>1 DEF TermFits
    <3>4. \A a, b, c \in Nat : a + b + (c - b) = a + c
      OBVIOUS
    <3>5. x.last + Len(x.snapshot) + (k - Len(x.snapshot)) = x.last + k
      BY <1>2, <2>1, <3>4
    <3> QED BY <3>2, <3>3, <3>5 DEF j
  <2> QED BY <1>2, <2>1, <2>2, <2>3
<1>6. Waiting(x) = Len(waiting)
  <2> DEFINE c == IF ExitQueued(x.queue) THEN 1 ELSE 0
             a == Len(x.snapshot)
             b == Len(x.queue)
  <2>1. Waiting(x) = a + b - c /\ Len(o) = b - c /\ Len(waiting) = a + Len(o)
    BY <1>3, <1>4 DEF Waiting
  <2>2. a \in Nat /\ b \in Nat /\ c \in Nat
    BY <1>2
  <2> HIDE DEF a, b, c
  <2> QED BY <2>1, <2>2
<1>7. x.at = "on" /\ ~x.over => /\ x.last + Len(waiting) = ReadSoFar(x.of)
                                /\ ~Running(x.of) => ExitQueued(x.queue)
  BY <1>1, <1>6 DEF TermFits, ReadSoFar, Running, y
<1>8. x.told = "exit" => x.last = y.made
  BY <1>1 DEF TermFits
<1>9. x.last >= 0
  BY <1>2
<1> QED BY <1>5, <1>7, <1>8, <1>9 DEF waiting, o, x, y

LEMMA InvKeyboard == BrokerInv => KeyboardIsOnes
<1> SUFFICES ASSUME BrokerInv, NEW i \in DOMAIN ptys PROVE Cardinality(KeyboardOwner(i)) <= 1
  BY DEF KeyboardIsOnes
<1>1. \A t, u \in KeyboardOwner(i) : t = u
  BY DEF BrokerInv, KeyboardsFit, TypesInto, KeyboardOwner, Subscribed
<1>2. CASE KeyboardOwner(i) = {}
  BY <1>2, FS_EmptySet
<1>3. CASE KeyboardOwner(i) # {}
  <2>1. PICK t : t \in KeyboardOwner(i)
    BY <1>3
  <2>2. KeyboardOwner(i) = {t}
    BY <1>1, <2>1
  <2>3. Cardinality({t}) = 1
    BY FS_Singleton
  <2> QED BY <2>2, <2>3
<1> QED BY <1>2, <1>3

LEMMA InvIsSafe == BrokerInv => SessionsSafe
<1> SUFFICES ASSUME BrokerInv PROVE SessionsSafe
  OBVIOUS
<1>1. BrokerTypeOK
  <2>1. \A s \in Registered : sessions[s] \in DOMAIN ptys /\ ptys[sessions[s]].id = s
    BY DEF BrokerInv, TableFits, Registered
  <2>2. ASSUME NEW i \in DOMAIN ptys
        PROVE  ptys[i].unread \in 0 .. ptys[i].made /\ ptys[i].mode \in StoredModes
    <3>1. ptys[i] \in PtyType /\ PtyFits(ptys[i])
      BY DEF BrokerInv, TableTyped, PtysFit
    <3> QED BY <3>1 DEF PtyType, PtyFits
  <2>3. Len(stored) <= StoreLimit /\ \A t \in Terminals : Len(term[t].queue) <= QueueEvents
    BY DEF BrokerInv, TableTyped, TermsFit
  <2> QED BY <2>1, <2>2, <2>3 DEF BrokerTypeOK
<1> QED BY <1>1, InvSeesAll, InvKeyboard DEF SessionsSafe, BrokerInv

(* The inductive invariant of the broker: the types, and what relates the    *)
(* table, the TUIs, the terminals and the store (session.py's                *)
(* SessionManager and subscriptions, server.py's _attach).                   *)
THEOREM BrokerInvariant == BrokerSpec => []BrokerInv
<1> QED BY InitFits, BrokerNextKeeps, PTL DEF BrokerSpec

(* Whatever the terminals, transcripts, limits and interleavings of starts,  *)
(* exits and attachments: a terminal sees the output of its TUI without a    *)
(* hole, one terminal has its keyboard, a transcript has one TUI (but for    *)
(* the double resume), and what is stored is the mode it runs in.            *)
THEOREM SessionsAreSafe == BrokerSpec => []SessionsSafe
<1> QED BY BrokerInvariant, InvIsSafe, PTL
=============================================================================
