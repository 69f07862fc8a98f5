---------------------------- MODULE RelayProofs ----------------------------
(***************************************************************************)
(* Proofs about the relay: the tokens and notices of RelayAccess, the      *)
(* sockets and frames of RelayHub.                                         *)
(*                                                                         *)
(* That a token lets in once is not inductive by itself: a grant that is   *)
(* still open must not have let in anybody yet, and whoever it let in has  *)
(* a subject, so that the session is never tried again (TokensKept).  That *)
(* a notice only goes to a live session rests on sessions never coming     *)
(* back: whoever is still on the way in has left no trace (NewcomersClean).*)
(*                                                                         *)
(* What a page of the hub gets next depends on what it was told last, and  *)
(* that on the drops that are pending: a page that waits for no drop was   *)
(* told everything, one that waits for no drop of the live wrapper was     *)
(* told everything of it (PagesTold), and every broadcast in a queue comes *)
(* after the one before it (PagesLinked).  Both speak of the pages that    *)
(* still hear (Hears): who is closed, or has lost its client id, gets      *)
(* nothing more.                                                           *)
(***************************************************************************)
EXTENDS RelayAccess, RelayHub, InductionLemmas, FiniteSetTheorems, TLAPS

(***************************************************************************)
(* Logins, pairing and notices.                                            *)
(***************************************************************************)

AccessTyped ==
    /\ entries \subseteq Sessions /\ reading \subseteq Sessions /\ redeeming \subseteq Sessions
    /\ goingOut \subseteq Sessions /\ past \subseteq Sessions
    /\ requests \subseteq Kinds \X Sessions
    /\ grants \in [Grants -> Subjects \cup {Nobody}]
    /\ codes \in [Subjects -> Codes \cup {Nobody}]
    /\ devices \in [Devices -> Subjects \cup {Nobody}]
    /\ rows \in [Endpoints -> Sessions \cup {Nobody}]
    /\ who \in [Sessions -> Subjects \cup {Nobody}]
    /\ grantOf \in [Sessions -> Grants \cup {Nobody}]
    /\ issuedTo \in [Grants \cup Codes -> Subjects \cup {Nobody}]
    /\ codeOf \in [Devices -> Codes \cup {Nobody}]
    /\ spare \in [requests : Nat, notices : Nat, restarts : Nat]

Deliveries ==
    [notice : Nat, endpoint : Endpoints, session : Sessions, at : {"check", "send", "drop", "gone"},
     live : BOOLEAN]

\* Open grants and codes have let in nobody; whoever came in belongs to their subject.
TokensKept ==
    /\ \A g \in Grants : grants[g] # Nobody =>
        grants[g] = issuedTo[g] /\ \A s \in Sessions : grantOf[s] # g
    /\ \A u \in Subjects : codes[u] # Nobody =>
        issuedTo[codes[u]] = u /\ \A d \in Devices : codeOf[d] # codes[u]
    /\ \A s \in Sessions : grantOf[s] # Nobody => who[s] # Nobody /\ who[s] = issuedTo[grantOf[s]]
    /\ \A s, t \in Sessions : grantOf[s] # Nobody /\ grantOf[s] = grantOf[t] => s = t
    /\ \A d \in Devices : codeOf[d] # Nobody => issuedTo[codeOf[d]] # Nobody
    /\ \A d, f \in Devices : codeOf[d] # Nobody /\ codeOf[d] = codeOf[f] => d = f
    /\ \A d \in Devices : devices[d] # Nobody => codeOf[d] # Nobody /\ devices[d] = issuedTo[codeOf[d]]

\* A session that has come in: it has a subject, and is not on its way in again.
Known(s) == who[s] # Nobody /\ s \notin reading /\ s \notin redeeming

NewcomersClean ==
    /\ \A s \in Sessions : s \in reading \/ s \in redeeming => who[s] # Nobody
    /\ \A s \in Sessions : s \in entries \/ s \in past => Known(s)
    /\ \A k \in Kinds, s \in Sessions : <<k, s>> \in requests => Known(s)
    /\ \A e \in Endpoints : rows[e] # Nobody => Known(rows[e])
    /\ \A d \in deliveries : Known(d.session)
    /\ reading \cap redeeming = {} /\ entries \cap past = {}

NoticesKept ==
    /\ deliveries \subseteq Deliveries
    /\ \A d \in deliveries : (d.at = "send" \/ d.session \in entries) => d.live
    /\ \A d \in deliveries : d.at = "drop" => d.session \notin entries

AtMost(S, n) == IsFiniteSet(S) /\ Cardinality(S) <= n

OpenGrants == {g \in Grants : grants[g] # Nobody}

LimitsKept ==
    /\ AtMost(entries, SessionCap)
    /\ AtMost(reading, LoginSlots)
    /\ AtMost(OpenGrants, GrantCap)
    /\ \A u \in Subjects : AtMost(Owned(u), DeviceCap)

AccessInv == AccessTyped /\ TokensKept /\ NewcomersClean /\ NoticesKept /\ LimitsKept
-----------------------------------------------------------------------------
\* A bounded set that has room may take one more.
LEMMA OneMore ==
    ASSUME NEW S, NEW x, NEW n \in Nat, AtMost(S, n), Cardinality(S) < n
    PROVE  AtMost(S \cup {x}, n)
<1>1. IsFiniteSet(S) /\ Cardinality(S) \in Nat
  BY FS_CardinalityType DEF AtMost
<1>2. IsFiniteSet(S \cup {x}) /\ (Cardinality(S \cup {x}) = Cardinality(S)
                                  \/ Cardinality(S \cup {x}) = Cardinality(S) + 1)
  BY <1>1, FS_AddElement
<1> QED
  BY <1>1, <1>2 DEF AtMost

\* A part of a bounded set is bounded, and so is the empty set.
LEMMA Fewer ==
    ASSUME NEW S, NEW n \in Nat, AtMost(S, n), NEW T \in SUBSET S
    PROVE  AtMost(T, n)
<1>1. IsFiniteSet(S) /\ Cardinality(S) \in Nat
  BY FS_CardinalityType DEF AtMost
<1>2. IsFiniteSet(T) /\ Cardinality(T) <= Cardinality(S) /\ Cardinality(T) \in Nat
  BY <1>1, FS_Subset, FS_CardinalityType
<1> QED
  BY <1>1, <1>2 DEF AtMost

\* The empty set has room.
LEMMA NoneAtAll == ASSUME NEW n \in Nat PROVE AtMost({}, n)
  BY FS_EmptySet DEF AtMost


\* The types of everything but the notices.
LEMMA TypedSteps ==
    ASSUME AccessTyped, AccessNext
    PROVE  AccessTyped'
<1>1. ASSUME NEW s \in Sessions, BeginLogin(s)
      PROVE  AccessTyped'
  BY <1>1 DEF BeginLogin, AccessTyped, Done, Registers, WithoutSession, memoryVars,
     tableVars, historyVars
<1>2. ASSUME NEW s \in Sessions, EndLogin(s)
      PROVE  AccessTyped'
  BY <1>2 DEF EndLogin, AccessTyped, Done, Registers, WithoutSession, memoryVars,
     tableVars, historyVars
<1>3. ASSUME NEW s \in Sessions, BeginLogout(s)
      PROVE  AccessTyped'
  BY <1>3 DEF BeginLogout, AccessTyped, Done, Registers, WithoutSession, memoryVars,
     tableVars, historyVars
<1>4. ASSUME NEW s \in Sessions, EndLogout(s)
      PROVE  AccessTyped'
  BY <1>4 DEF EndLogout, AccessTyped, Done, Registers, WithoutSession, memoryVars,
     tableVars, historyVars
<1>5. ASSUME NEW s \in Sessions, SessionExpires(s)
      PROVE  AccessTyped'
  BY <1>5 DEF SessionExpires, AccessTyped, Done, Registers, WithoutSession, memoryVars,
     tableVars, historyVars
<1>6. ASSUME NEW s \in Sessions, NEW k \in Kinds, BeginRequest(s, k)
      PROVE  AccessTyped'
  BY <1>6 DEF BeginRequest, AccessTyped, Done, Registers, WithoutSession, memoryVars,
     tableVars, historyVars
<1>7. ASSUME NEW s \in Sessions, CreateGrant(s)
      PROVE  AccessTyped'
  BY <1>7 DEF CreateGrant, AccessTyped, Done, Registers, WithoutSession, memoryVars,
     tableVars, historyVars
<1>8. ASSUME NEW s \in Sessions, IssueSession(s)
      PROVE  AccessTyped'
  BY <1>8 DEF IssueSession, AccessTyped, Done, Registers, WithoutSession, memoryVars,
     tableVars, historyVars
<1>9. ASSUME NEW s \in Sessions, CreatePairing(s)
      PROVE  AccessTyped'
  <2>1. PICK c \in Codes :
            codes' = [codes EXCEPT ![who[s]] = c] /\ issuedTo' = [issuedTo EXCEPT ![c] = who[s]]
    BY <1>9 DEF CreatePairing
  <2>2. codes' \in [Subjects -> Codes \cup {Nobody}]
    BY <2>1 DEF AccessTyped
  <2>3. issuedTo' \in [Grants \cup Codes -> Subjects \cup {Nobody}]
    BY <2>1 DEF AccessTyped
  <2> QED
    BY <1>9, <2>2, <2>3 DEF CreatePairing, Done, AccessTyped
<1>10. ASSUME NEW s \in Sessions, ClosePairing(s)
      PROVE  AccessTyped'
  BY <1>10 DEF ClosePairing, AccessTyped, Done, Registers, WithoutSession, memoryVars,
     tableVars, historyVars
<1>11. ASSUME NEW s \in Sessions, NEW e \in Endpoints, Subscribe(s, e)
      PROVE  AccessTyped'
  BY <1>11 DEF Subscribe, AccessTyped, Done, Registers, WithoutSession, memoryVars,
     tableVars, historyVars
<1>12. ASSUME NEW s \in Sessions, NEW e \in Endpoints, Unsubscribe(s, e)
      PROVE  AccessTyped'
  BY <1>12 DEF Unsubscribe, AccessTyped, Done, Registers, WithoutSession, memoryVars,
     tableVars, historyVars
<1>13. ASSUME NEW g \in Grants, NEW s \in Sessions, ClaimGrant(g, s)
      PROVE  AccessTyped'
  BY <1>13 DEF ClaimGrant, AccessTyped, Done, Registers, WithoutSession, memoryVars,
     tableVars, historyVars
<1>14. ASSUME NEW g \in Grants, GrantExpires(g)
      PROVE  AccessTyped'
  BY <1>14 DEF GrantExpires, AccessTyped, Done, Registers, WithoutSession, memoryVars,
     tableVars, historyVars
<1>15. ASSUME NEW u \in Subjects, CodeExpires(u)
      PROVE  AccessTyped'
  BY <1>15 DEF CodeExpires, AccessTyped, Done, Registers, WithoutSession, memoryVars,
     tableVars, historyVars
<1>16. ASSUME NEW c \in Codes, Redeem(c)
      PROVE  AccessTyped'
  BY <1>16 DEF Redeem, AccessTyped, Done, Registers, WithoutSession, memoryVars,
     tableVars, historyVars
<1>17. ASSUME NEW d \in Devices, RevokeDevice(d)
      PROVE  AccessTyped'
  BY <1>17 DEF RevokeDevice, AccessTyped, Done, Registers, WithoutSession, memoryVars,
     tableVars, historyVars
<1>18. ASSUME Notify
      PROVE  AccessTyped'
  <2>1. rows' \in [Endpoints -> Sessions \cup {Nobody}]
    BY <1>18 DEF Notify, AccessTyped
  <2>2. spare' \in [requests : Nat, notices : Nat, restarts : Nat]
    <3>1. spare \in [requests : Nat, notices : Nat, restarts : Nat]
      BY DEF AccessTyped
    <3>2. spare.notices > 0 /\ spare' = [spare EXCEPT !.notices = spare.notices - 1]
      BY <1>18 DEF Notify
    <3> QED
      BY <3>1, <3>2
  <2> QED
    BY <1>18, <2>1, <2>2 DEF Notify, AccessTyped
<1>19. ASSUME NEW d \in deliveries, Check(d)
      PROVE  AccessTyped'
  BY <1>19 DEF Check, AccessTyped, Done, Registers, WithoutSession, memoryVars, tableVars,
     historyVars
<1>20. ASSUME NEW d \in deliveries, SendNotice(d)
      PROVE  AccessTyped'
  BY <1>20 DEF SendNotice, AccessTyped, Done, Registers, WithoutSession, memoryVars,
     tableVars, historyVars
<1>21. ASSUME NEW d \in deliveries, RemoveRow(d)
      PROVE  AccessTyped'
  BY <1>21 DEF RemoveRow, AccessTyped, Done, Registers, WithoutSession, memoryVars,
     tableVars, historyVars
<1>22. ASSUME Restart
      PROVE  AccessTyped'
  BY <1>22 DEF Restart, AccessTyped, Done, Registers, WithoutSession, memoryVars,
     tableVars, historyVars
<1> QED
    BY AccessNext, <1>1, <1>2, <1>3, <1>4, <1>5, <1>6, <1>7, <1>8, <1>9, <1>10, <1>11,
     <1>12, <1>13, <1>14, <1>15, <1>16, <1>17, <1>18, <1>19, <1>20, <1>21, <1>22 DEF
     AccessNext

\* Whoever came in has a subject and is not on its way in again; what has expired stays out.
LEMMA CleanSteps ==
    ASSUME AccessTyped, NewcomersClean, NoticesKept, AccessNext
    PROVE  NewcomersClean'
<1>1. ASSUME NEW s \in Sessions, BeginLogin(s)
      PROVE  NewcomersClean'
  BY <1>1, AccessAssumption DEF BeginLogin, AccessTyped, NewcomersClean, Known, Kinds,
     NoticesKept, Deliveries, Done, Registers,
         WithoutSession, Moves, SessionActive, memoryVars, tableVars, historyVars
<1>2. ASSUME NEW s \in Sessions, EndLogin(s)
      PROVE  NewcomersClean'
  BY <1>2, AccessAssumption DEF EndLogin, AccessTyped, NewcomersClean, Known, Kinds,
     NoticesKept, Deliveries, Done, Registers,
         WithoutSession, Moves, SessionActive, memoryVars, tableVars, historyVars
<1>3. ASSUME NEW s \in Sessions, BeginLogout(s)
      PROVE  NewcomersClean'
  BY <1>3, AccessAssumption DEF BeginLogout, AccessTyped, NewcomersClean, Known, Kinds,
     NoticesKept, Deliveries, Done, Registers,
         WithoutSession, Moves, SessionActive, memoryVars, tableVars, historyVars
<1>4. ASSUME NEW s \in Sessions, EndLogout(s)
      PROVE  NewcomersClean'
  BY <1>4, AccessAssumption DEF EndLogout, AccessTyped, NewcomersClean, Known, Kinds,
     NoticesKept, Deliveries, Done, Registers,
         WithoutSession, Moves, SessionActive, memoryVars, tableVars, historyVars
<1>5. ASSUME NEW s \in Sessions, SessionExpires(s)
      PROVE  NewcomersClean'
  BY <1>5, AccessAssumption DEF SessionExpires, AccessTyped, NewcomersClean, Known, Kinds,
     NoticesKept, Deliveries, Done, Registers,
         WithoutSession, Moves, SessionActive, memoryVars, tableVars, historyVars
<1>6. ASSUME NEW s \in Sessions, NEW k \in Kinds, BeginRequest(s, k)
      PROVE  NewcomersClean'
  BY <1>6, AccessAssumption DEF BeginRequest, AccessTyped, NewcomersClean, Known, Kinds,
     NoticesKept, Deliveries, Done, Registers,
         WithoutSession, Moves, SessionActive, memoryVars, tableVars, historyVars
<1>7. ASSUME NEW s \in Sessions, CreateGrant(s)
      PROVE  NewcomersClean'
  BY <1>7, AccessAssumption DEF CreateGrant, AccessTyped, NewcomersClean, Known, Kinds,
     NoticesKept, Deliveries, Done, Registers,
         WithoutSession, Moves, SessionActive, memoryVars, tableVars, historyVars
<1>8. ASSUME NEW s \in Sessions, IssueSession(s)
      PROVE  NewcomersClean'
  BY <1>8, AccessAssumption DEF IssueSession, AccessTyped, NewcomersClean, Known, Kinds,
     NoticesKept, Deliveries, Done, Registers,
         WithoutSession, Moves, SessionActive, memoryVars, tableVars, historyVars
<1>9. ASSUME NEW s \in Sessions, CreatePairing(s)
      PROVE  NewcomersClean'
  BY <1>9, AccessAssumption DEF CreatePairing, AccessTyped, NewcomersClean, Known, Kinds,
     NoticesKept, Deliveries, Done, Registers,
         WithoutSession, Moves, SessionActive, memoryVars, tableVars, historyVars
<1>10. ASSUME NEW s \in Sessions, ClosePairing(s)
      PROVE  NewcomersClean'
  BY <1>10, AccessAssumption DEF ClosePairing, AccessTyped, NewcomersClean, Known, Kinds,
     NoticesKept, Deliveries, Done, Registers,
         WithoutSession, Moves, SessionActive, memoryVars, tableVars, historyVars
<1>11. ASSUME NEW s \in Sessions, NEW e \in Endpoints, Subscribe(s, e)
      PROVE  NewcomersClean'
  BY <1>11, AccessAssumption DEF Subscribe, AccessTyped, NewcomersClean, Known, Kinds,
     NoticesKept, Deliveries, Done, Registers,
         WithoutSession, Moves, SessionActive, memoryVars, tableVars, historyVars
<1>12. ASSUME NEW s \in Sessions, NEW e \in Endpoints, Unsubscribe(s, e)
      PROVE  NewcomersClean'
  BY <1>12, AccessAssumption DEF Unsubscribe, AccessTyped, NewcomersClean, Known, Kinds,
     NoticesKept, Deliveries, Done, Registers,
         WithoutSession, Moves, SessionActive, memoryVars, tableVars, historyVars
<1>13. ASSUME NEW g \in Grants, NEW s \in Sessions, ClaimGrant(g, s)
      PROVE  NewcomersClean'
  BY <1>13, AccessAssumption DEF ClaimGrant, AccessTyped, NewcomersClean, Known, Kinds,
     NoticesKept, Deliveries, Done, Registers,
         WithoutSession, Moves, SessionActive, memoryVars, tableVars, historyVars
<1>14. ASSUME NEW g \in Grants, GrantExpires(g)
      PROVE  NewcomersClean'
  BY <1>14, AccessAssumption DEF GrantExpires, AccessTyped, NewcomersClean, Known, Kinds,
     NoticesKept, Deliveries, Done, Registers,
         WithoutSession, Moves, SessionActive, memoryVars, tableVars, historyVars
<1>15. ASSUME NEW u \in Subjects, CodeExpires(u)
      PROVE  NewcomersClean'
  BY <1>15, AccessAssumption DEF CodeExpires, AccessTyped, NewcomersClean, Known, Kinds,
     NoticesKept, Deliveries, Done, Registers,
         WithoutSession, Moves, SessionActive, memoryVars, tableVars, historyVars
<1>16. ASSUME NEW c \in Codes, Redeem(c)
      PROVE  NewcomersClean'
  BY <1>16, AccessAssumption DEF Redeem, AccessTyped, NewcomersClean, Known, Kinds,
     NoticesKept, Deliveries, Done, Registers,
         WithoutSession, Moves, SessionActive, memoryVars, tableVars, historyVars
<1>17. ASSUME NEW d \in Devices, RevokeDevice(d)
      PROVE  NewcomersClean'
  BY <1>17, AccessAssumption DEF RevokeDevice, AccessTyped, NewcomersClean, Known, Kinds,
     NoticesKept, Deliveries, Done, Registers,
         WithoutSession, Moves, SessionActive, memoryVars, tableVars, historyVars
<1>18. ASSUME Notify
      PROVE  NewcomersClean'
  <2>1. /\ UNCHANGED <<entries, reading, redeeming, requests, who, past>>
        /\ \A e \in Endpoints : rows'[e] # Nobody => rows'[e] = rows[e]
        /\ \A d \in deliveries' \ deliveries : \E e \in Endpoints :
               d.session = rows[e] /\ rows'[e] # Nobody
    BY <1>18 DEF Notify
  <2> QED
    BY <2>1 DEF NewcomersClean, Known
<1>19. ASSUME NEW d \in deliveries, Check(d)
      PROVE  NewcomersClean'
  BY <1>19, AccessAssumption DEF Check, AccessTyped, NewcomersClean, Known, Kinds,
     NoticesKept, Deliveries, Done, Registers,
         WithoutSession, Moves, SessionActive, memoryVars, tableVars, historyVars
<1>20. ASSUME NEW d \in deliveries, SendNotice(d)
      PROVE  NewcomersClean'
  BY <1>20, AccessAssumption DEF SendNotice, AccessTyped, NewcomersClean, Known, Kinds,
     NoticesKept, Deliveries, Done, Registers,
         WithoutSession, Moves, SessionActive, memoryVars, tableVars, historyVars
<1>21. ASSUME NEW d \in deliveries, RemoveRow(d)
      PROVE  NewcomersClean'
  BY <1>21, AccessAssumption DEF RemoveRow, AccessTyped, NewcomersClean, Known, Kinds,
     NoticesKept, Deliveries, Done, Registers,
         WithoutSession, Moves, SessionActive, memoryVars, tableVars, historyVars
<1>22. ASSUME Restart
      PROVE  NewcomersClean'
  BY <1>22, AccessAssumption DEF Restart, AccessTyped, NewcomersClean, Known, Kinds,
     NoticesKept, Deliveries, Done, Registers,
         WithoutSession, Moves, SessionActive, memoryVars, tableVars, historyVars
<1> QED
    BY AccessNext, <1>1, <1>2, <1>3, <1>4, <1>5, <1>6, <1>7, <1>8, <1>9, <1>10, <1>11,
     <1>12, <1>13, <1>14, <1>15, <1>16, <1>17, <1>18, <1>19, <1>20, <1>21, <1>22 DEF
     AccessNext

\* A notice remembers whether its session was live when the turn ended.
LEMMA NoticeSteps ==
    ASSUME AccessTyped, NewcomersClean, NoticesKept, AccessNext
    PROVE  NoticesKept'
<1>1. ASSUME NEW s \in Sessions, BeginLogin(s)
      PROVE  NoticesKept'
  BY <1>1 DEF BeginLogin, NoticesKept, Deliveries, Done, Moves, memoryVars, tableVars,
     historyVars
<1>2. ASSUME NEW s \in Sessions, EndLogin(s)
      PROVE  NoticesKept'
  BY <1>2 DEF EndLogin, Registers, NoticesKept, NewcomersClean, Known, tableVars,
     historyVars
<1>3. ASSUME NEW s \in Sessions, BeginLogout(s)
      PROVE  NoticesKept'
  BY <1>3 DEF BeginLogout, NoticesKept, Deliveries, Done, Moves, memoryVars, tableVars,
     historyVars
<1>4. ASSUME NEW s \in Sessions, EndLogout(s)
      PROVE  NoticesKept'
  BY <1>4 DEF EndLogout, NoticesKept, Deliveries, Done, Moves, memoryVars, tableVars,
     historyVars
<1>5. ASSUME NEW s \in Sessions, SessionExpires(s)
      PROVE  NoticesKept'
  BY <1>5 DEF SessionExpires, NoticesKept, Deliveries, Done, Moves, memoryVars, tableVars,
     historyVars
<1>6. ASSUME NEW s \in Sessions, NEW k \in Kinds, BeginRequest(s, k)
      PROVE  NoticesKept'
  BY <1>6 DEF BeginRequest, NoticesKept, Deliveries, Done, Moves, memoryVars, tableVars,
     historyVars
<1>7. ASSUME NEW s \in Sessions, CreateGrant(s)
      PROVE  NoticesKept'
  BY <1>7 DEF CreateGrant, NoticesKept, Deliveries, Done, Moves, memoryVars, tableVars,
     historyVars
<1>8. ASSUME NEW s \in Sessions, IssueSession(s)
      PROVE  NoticesKept'
  BY <1>8 DEF IssueSession, Registers, NoticesKept, NewcomersClean, Known, tableVars,
     historyVars
<1>9. ASSUME NEW s \in Sessions, CreatePairing(s)
      PROVE  NoticesKept'
  BY <1>9 DEF CreatePairing, NoticesKept, Deliveries, Done, Moves, memoryVars, tableVars,
     historyVars
<1>10. ASSUME NEW s \in Sessions, ClosePairing(s)
      PROVE  NoticesKept'
  BY <1>10 DEF ClosePairing, NoticesKept, Deliveries, Done, Moves, memoryVars, tableVars,
     historyVars
<1>11. ASSUME NEW s \in Sessions, NEW e \in Endpoints, Subscribe(s, e)
      PROVE  NoticesKept'
  BY <1>11 DEF Subscribe, NoticesKept, Deliveries, Done, Moves, memoryVars, tableVars,
     historyVars
<1>12. ASSUME NEW s \in Sessions, NEW e \in Endpoints, Unsubscribe(s, e)
      PROVE  NoticesKept'
  BY <1>12 DEF Unsubscribe, NoticesKept, Deliveries, Done, Moves, memoryVars, tableVars,
     historyVars
<1>13. ASSUME NEW g \in Grants, NEW s \in Sessions, ClaimGrant(g, s)
      PROVE  NoticesKept'
  BY <1>13 DEF ClaimGrant, NoticesKept, Deliveries, Done, Moves, memoryVars, tableVars,
     historyVars
<1>14. ASSUME NEW g \in Grants, GrantExpires(g)
      PROVE  NoticesKept'
  BY <1>14 DEF GrantExpires, NoticesKept, Deliveries, Done, Moves, memoryVars, tableVars,
     historyVars
<1>15. ASSUME NEW u \in Subjects, CodeExpires(u)
      PROVE  NoticesKept'
  BY <1>15 DEF CodeExpires, NoticesKept, Deliveries, Done, Moves, memoryVars, tableVars,
     historyVars
<1>16. ASSUME NEW c \in Codes, Redeem(c)
      PROVE  NoticesKept'
  BY <1>16 DEF Redeem, NoticesKept, Deliveries, Done, Moves, memoryVars, tableVars,
     historyVars
<1>17. ASSUME NEW d \in Devices, RevokeDevice(d)
      PROVE  NoticesKept'
  BY <1>17 DEF RevokeDevice, NoticesKept, Deliveries, Done, Moves, memoryVars, tableVars,
     historyVars
<1>18. ASSUME Notify
      PROVE  NoticesKept'
  <2>1. ASSUME NEW d \in deliveries', d \notin deliveries
        PROVE  d \in Deliveries /\ d.at = "check" /\ (d.session \in entries => d.live)
    <3>1. PICK e \in Endpoints :
              /\ rows[e] # Nobody
              /\ d = [notice |-> spare.notices, endpoint |-> e, session |-> rows[e],
                      at |-> "check", live |-> rows[e] \in entries]
      BY <1>18, <2>1 DEF Notify, AccessTyped
    <3>2. spare.notices \in Nat /\ rows[e] \in Sessions /\ (rows[e] \in entries) \in BOOLEAN
      BY <3>1 DEF AccessTyped
    <3>3. d \in Deliveries
      BY <3>1, <3>2 DEF Deliveries
    <3>4. d.at = "check" /\ d.session = rows[e] /\ d.live = (rows[e] \in entries)
      BY <3>1
    <3> QED
      BY <3>3, <3>4
  <2> QED
    BY <1>18, <2>1 DEF Notify, NoticesKept
<1>19. ASSUME NEW d \in deliveries, Check(d)
      PROVE  NoticesKept'
  <2> DEFINE stage == IF d.session \in entries THEN "send" ELSE "drop"
             moved == [d EXCEPT !.at = stage]
  <2>1. deliveries' = (deliveries \ {d}) \cup {moved} /\ entries' = entries
    BY <1>19 DEF Check, Moves, SessionActive
  <2>2. d \in Deliveries
    BY DEF NoticesKept
  <2>3. moved \in Deliveries /\ moved.session = d.session /\ moved.live = d.live /\ moved.at = stage
    BY <2>2 DEF Deliveries
  <2>4. d.session \in entries => d.live
    BY DEF NoticesKept
  <2>5. /\ moved.at = "send" \/ moved.session \in entries => moved.live
        /\ moved.at = "drop" => moved.session \notin entries
    BY <2>3, <2>4
  <2> HIDE DEF moved
  <2> QED
    BY <2>1, <2>3, <2>5 DEF NoticesKept
<1>20. ASSUME NEW d \in deliveries, SendNotice(d)
      PROVE  NoticesKept'
  BY <1>20 DEF SendNotice, NoticesKept, Deliveries, Done, Moves, memoryVars, tableVars,
     historyVars
<1>21. ASSUME NEW d \in deliveries, RemoveRow(d)
      PROVE  NoticesKept'
  BY <1>21 DEF RemoveRow, NoticesKept, Deliveries, Done, Moves, memoryVars, tableVars,
     historyVars
<1>22. ASSUME Restart
      PROVE  NoticesKept'
  BY <1>22 DEF Restart, NoticesKept, Deliveries, Done, Moves, memoryVars, tableVars,
     historyVars
<1> QED
    BY AccessNext, <1>1, <1>2, <1>3, <1>4, <1>5, <1>6, <1>7, <1>8, <1>9, <1>10, <1>11,
     <1>12, <1>13, <1>14, <1>15, <1>16, <1>17, <1>18, <1>19, <1>20, <1>21, <1>22 DEF
     AccessNext

\* Tokens let in once.
LEMMA TokenSteps ==
    ASSUME AccessTyped, TokensKept, AccessNext
    PROVE  TokensKept'
<1>1. ASSUME NEW s \in Sessions, BeginLogin(s)
      PROVE  TokensKept'
  BY <1>1, AccessAssumption DEF BeginLogin, AccessTyped, TokensKept, Done, memoryVars,
     tableVars, historyVars
<1>2. ASSUME NEW s \in Sessions, EndLogin(s)
      PROVE  TokensKept'
  BY <1>2, AccessAssumption DEF EndLogin, AccessTyped, TokensKept, Done, memoryVars,
     tableVars, historyVars
<1>3. ASSUME NEW s \in Sessions, BeginLogout(s)
      PROVE  TokensKept'
  BY <1>3, AccessAssumption DEF BeginLogout, AccessTyped, TokensKept, Done, memoryVars,
     tableVars, historyVars
<1>4. ASSUME NEW s \in Sessions, EndLogout(s)
      PROVE  TokensKept'
  BY <1>4, AccessAssumption DEF EndLogout, AccessTyped, TokensKept, Done, memoryVars,
     tableVars, historyVars
<1>5. ASSUME NEW s \in Sessions, SessionExpires(s)
      PROVE  TokensKept'
  BY <1>5, AccessAssumption DEF SessionExpires, AccessTyped, TokensKept, Done, memoryVars,
     tableVars, historyVars
<1>6. ASSUME NEW s \in Sessions, NEW k \in Kinds, BeginRequest(s, k)
      PROVE  TokensKept'
  BY <1>6, AccessAssumption DEF BeginRequest, AccessTyped, TokensKept, Done, memoryVars,
     tableVars, historyVars
<1>7. ASSUME NEW s \in Sessions, CreateGrant(s)
      PROVE  TokensKept'
  BY <1>7, AccessAssumption DEF CreateGrant, AccessTyped, TokensKept, Done, memoryVars,
     tableVars, historyVars
<1>8. ASSUME NEW s \in Sessions, IssueSession(s)
      PROVE  TokensKept'
  BY <1>8, AccessAssumption DEF IssueSession, AccessTyped, TokensKept, Done, memoryVars,
     tableVars, historyVars
<1>9. ASSUME NEW s \in Sessions, CreatePairing(s)
      PROVE  TokensKept'
  BY <1>9, AccessAssumption DEF CreatePairing, AccessTyped, TokensKept, Done, memoryVars,
     tableVars, historyVars
<1>10. ASSUME NEW s \in Sessions, ClosePairing(s)
      PROVE  TokensKept'
  BY <1>10, AccessAssumption DEF ClosePairing, AccessTyped, TokensKept, Done, memoryVars,
     tableVars, historyVars
<1>11. ASSUME NEW s \in Sessions, NEW e \in Endpoints, Subscribe(s, e)
      PROVE  TokensKept'
  BY <1>11, AccessAssumption DEF Subscribe, AccessTyped, TokensKept, Done, memoryVars,
     tableVars, historyVars
<1>12. ASSUME NEW s \in Sessions, NEW e \in Endpoints, Unsubscribe(s, e)
      PROVE  TokensKept'
  BY <1>12, AccessAssumption DEF Unsubscribe, AccessTyped, TokensKept, Done, memoryVars,
     tableVars, historyVars
<1>13. ASSUME NEW g \in Grants, NEW s \in Sessions, ClaimGrant(g, s)
      PROVE  TokensKept'
  BY <1>13, AccessAssumption DEF ClaimGrant, AccessTyped, TokensKept, Done, memoryVars,
     tableVars, historyVars
<1>14. ASSUME NEW g \in Grants, GrantExpires(g)
      PROVE  TokensKept'
  BY <1>14, AccessAssumption DEF GrantExpires, AccessTyped, TokensKept, Done, memoryVars,
     tableVars, historyVars
<1>15. ASSUME NEW u \in Subjects, CodeExpires(u)
      PROVE  TokensKept'
  BY <1>15, AccessAssumption DEF CodeExpires, AccessTyped, TokensKept, Done, memoryVars,
     tableVars, historyVars
<1>16. ASSUME NEW c \in Codes, Redeem(c)
      PROVE  TokensKept'
  BY <1>16, AccessAssumption DEF Redeem, AccessTyped, TokensKept, Done, memoryVars,
     tableVars, historyVars
<1>17. ASSUME NEW d \in Devices, RevokeDevice(d)
      PROVE  TokensKept'
  BY <1>17, AccessAssumption DEF RevokeDevice, AccessTyped, TokensKept, Done, memoryVars,
     tableVars, historyVars
<1>18. ASSUME Notify
      PROVE  TokensKept'
  BY <1>18, AccessAssumption DEF Notify, AccessTyped, TokensKept, Done, memoryVars,
     tableVars, historyVars
<1>19. ASSUME NEW d \in deliveries, Check(d)
      PROVE  TokensKept'
  BY <1>19, AccessAssumption DEF Check, AccessTyped, TokensKept, Done, memoryVars,
     tableVars, historyVars
<1>20. ASSUME NEW d \in deliveries, SendNotice(d)
      PROVE  TokensKept'
  BY <1>20, AccessAssumption DEF SendNotice, AccessTyped, TokensKept, Done, memoryVars,
     tableVars, historyVars
<1>21. ASSUME NEW d \in deliveries, RemoveRow(d)
      PROVE  TokensKept'
  BY <1>21, AccessAssumption DEF RemoveRow, AccessTyped, TokensKept, Done, memoryVars,
     tableVars, historyVars
<1>22. ASSUME Restart
      PROVE  TokensKept'
  BY <1>22, AccessAssumption DEF Restart, AccessTyped, TokensKept, Done, memoryVars,
     tableVars, historyVars
<1> QED
    BY AccessNext, <1>1, <1>2, <1>3, <1>4, <1>5, <1>6, <1>7, <1>8, <1>9, <1>10, <1>11,
     <1>12, <1>13, <1>14, <1>15, <1>16, <1>17, <1>18, <1>19, <1>20, <1>21, <1>22 DEF
     AccessNext

\* Sessions, logins, grants and devices stay within their limits.
LEMMA LimitSteps ==
    ASSUME AccessTyped, LimitsKept, AccessNext
    PROVE  LimitsKept'
<1>1. ASSUME NEW s \in Sessions, BeginLogin(s)
      PROVE  LimitsKept'
  <2>2. (AtMost(reading, LoginSlots))'
    BY <1>1, OneMore, AccessAssumption DEF BeginLogin, LimitsKept
  <2> QED
    BY <1>1, <2>2 DEF BeginLogin, LimitsKept, OpenGrants, Owned, memoryVars, tableVars,
       historyVars
<1>2. ASSUME NEW s \in Sessions, EndLogin(s)
      PROVE  LimitsKept'
  <2>1. (AtMost(entries, SessionCap))'
    <3>1. CASE entries' = entries
      BY <3>1 DEF LimitsKept
    <3>2. CASE entries' = entries \cup {s} /\ Cardinality(entries) < SessionCap
      BY <3>2, OneMore, AccessAssumption DEF LimitsKept
    <3>3. ~(Cardinality(entries) >= SessionCap) => Cardinality(entries) < SessionCap
      BY FS_CardinalityType, AccessAssumption DEF LimitsKept, AtMost
    <3> QED
      BY <1>2, <3>1, <3>2, <3>3 DEF EndLogin, Registers
  <2>2. (AtMost(reading, LoginSlots))'
    <3>1. reading' \in SUBSET reading
      BY <1>2 DEF EndLogin
    <3> QED
      BY <3>1, Fewer, AccessAssumption DEF LimitsKept
  <2> QED
    BY <1>2, <2>1, <2>2 DEF EndLogin, LimitsKept, OpenGrants, Owned, memoryVars,
       tableVars, historyVars
<1>3. ASSUME NEW s \in Sessions, BeginLogout(s)
      PROVE  LimitsKept'
  BY <1>3 DEF BeginLogout, LimitsKept, OpenGrants, Owned, Done, memoryVars, tableVars,
     historyVars
<1>4. ASSUME NEW s \in Sessions, EndLogout(s)
      PROVE  LimitsKept'
  <2>1. (AtMost(entries, SessionCap))'
    <3>1. entries' \in SUBSET entries
      BY <1>4 DEF EndLogout
    <3> QED
      BY <3>1, Fewer, AccessAssumption DEF LimitsKept
  <2> QED
    BY <1>4, <2>1 DEF EndLogout, LimitsKept, OpenGrants, Owned, memoryVars, tableVars,
       historyVars
<1>5. ASSUME NEW s \in Sessions, SessionExpires(s)
      PROVE  LimitsKept'
  <2>1. (AtMost(entries, SessionCap))'
    <3>1. entries' \in SUBSET entries
      BY <1>5 DEF SessionExpires
    <3> QED
      BY <3>1, Fewer, AccessAssumption DEF LimitsKept
  <2> QED
    BY <1>5, <2>1 DEF SessionExpires, LimitsKept, OpenGrants, Owned, memoryVars,
       tableVars, historyVars
<1>6. ASSUME NEW s \in Sessions, NEW k \in Kinds, BeginRequest(s, k)
      PROVE  LimitsKept'
  BY <1>6 DEF BeginRequest, LimitsKept, OpenGrants, Owned, Done, memoryVars, tableVars,
     historyVars
<1>7. ASSUME NEW s \in Sessions, CreateGrant(s)
      PROVE  LimitsKept'
  <2>3. (AtMost(OpenGrants, GrantCap))'
    <3>1. CASE grants' = grants
      BY <3>1 DEF LimitsKept, OpenGrants
    <3>2. ASSUME NEW g \in Grants, grants' = [grants EXCEPT ![g] = who[s]],
                 Cardinality(OpenGrants) < GrantCap
          PROVE  AtMost(OpenGrants, GrantCap)'
      <4>1. AtMost(OpenGrants \cup {g}, GrantCap)
        BY <3>2, OneMore, AccessAssumption DEF LimitsKept
      <4>2. OpenGrants' \in SUBSET (OpenGrants \cup {g})
        BY <3>2 DEF OpenGrants, AccessTyped
      <4> QED
        BY <4>1, <4>2, Fewer, AccessAssumption
    <3> QED
      BY <1>7, <3>1, <3>2 DEF CreateGrant, OpenGrants
  <2> QED
    BY <1>7, <2>3 DEF CreateGrant, LimitsKept, OpenGrants, Owned, memoryVars, tableVars,
       historyVars
<1>8. ASSUME NEW s \in Sessions, IssueSession(s)
      PROVE  LimitsKept'
  <2>1. (AtMost(entries, SessionCap))'
    <3>1. CASE entries' = entries
      BY <3>1 DEF LimitsKept
    <3>2. CASE entries' = entries \cup {s} /\ Cardinality(entries) < SessionCap
      BY <3>2, OneMore, AccessAssumption DEF LimitsKept
    <3>3. ~(Cardinality(entries) >= SessionCap) => Cardinality(entries) < SessionCap
      BY FS_CardinalityType, AccessAssumption DEF LimitsKept, AtMost
    <3> QED
      BY <1>8, <3>1, <3>2, <3>3 DEF IssueSession, Registers
  <2> QED
    BY <1>8, <2>1 DEF IssueSession, LimitsKept, OpenGrants, Owned, memoryVars,
       tableVars, historyVars
<1>9. ASSUME NEW s \in Sessions, CreatePairing(s)
      PROVE  LimitsKept'
  BY <1>9 DEF CreatePairing, LimitsKept, OpenGrants, Owned, Done, memoryVars, tableVars,
     historyVars
<1>10. ASSUME NEW s \in Sessions, ClosePairing(s)
      PROVE  LimitsKept'
  BY <1>10 DEF ClosePairing, LimitsKept, OpenGrants, Owned, Done, memoryVars, tableVars,
     historyVars
<1>11. ASSUME NEW s \in Sessions, NEW e \in Endpoints, Subscribe(s, e)
      PROVE  LimitsKept'
  BY <1>11 DEF Subscribe, LimitsKept, OpenGrants, Owned, Done, memoryVars, tableVars,
     historyVars
<1>12. ASSUME NEW s \in Sessions, NEW e \in Endpoints, Unsubscribe(s, e)
      PROVE  LimitsKept'
  BY <1>12 DEF Unsubscribe, LimitsKept, OpenGrants, Owned, Done, memoryVars, tableVars,
     historyVars
<1>13. ASSUME NEW g \in Grants, NEW s \in Sessions, ClaimGrant(g, s)
      PROVE  LimitsKept'
  <2>3. (AtMost(OpenGrants, GrantCap))'
    <3>1. OpenGrants' \in SUBSET OpenGrants
      BY <1>13 DEF ClaimGrant, OpenGrants, AccessTyped
    <3> QED
      BY <3>1, Fewer, AccessAssumption DEF LimitsKept
  <2> QED
    BY <1>13, <2>3 DEF ClaimGrant, LimitsKept, OpenGrants, Owned, memoryVars, tableVars,
       historyVars
<1>14. ASSUME NEW g \in Grants, GrantExpires(g)
      PROVE  LimitsKept'
  <2>3. (AtMost(OpenGrants, GrantCap))'
    <3>1. OpenGrants' \in SUBSET OpenGrants
      BY <1>14 DEF GrantExpires, OpenGrants, AccessTyped
    <3> QED
      BY <3>1, Fewer, AccessAssumption DEF LimitsKept
  <2> QED
    BY <1>14, <2>3 DEF GrantExpires, LimitsKept, OpenGrants, Owned, memoryVars,
       tableVars, historyVars
<1>15. ASSUME NEW u \in Subjects, CodeExpires(u)
      PROVE  LimitsKept'
  BY <1>15 DEF CodeExpires, LimitsKept, OpenGrants, Owned, Done, memoryVars, tableVars,
     historyVars
<1>16. ASSUME NEW c \in Codes, Redeem(c)
      PROVE  LimitsKept'
  <2>4. (\A u \in Subjects : AtMost(Owned(u), DeviceCap))'
    <3>1. PICK v \in Subjects, f \in Devices :
              Cardinality(Owned(v)) < DeviceCap /\ devices' = [devices EXCEPT ![f] = v]
      BY <1>16 DEF Redeem
    <3>2. ASSUME NEW u \in Subjects PROVE AtMost(Owned(u)', DeviceCap)
      <4>1. CASE u = v
        <5>1. AtMost(Owned(v) \cup {f}, DeviceCap)
          BY <3>1, OneMore, AccessAssumption DEF LimitsKept
        <5>2. Owned(u)' \in SUBSET (Owned(v) \cup {f})
          BY <3>1, <4>1 DEF Owned, AccessTyped
        <5> QED
          BY <5>1, <5>2, Fewer, AccessAssumption
      <4>2. CASE u # v
        <5>1. Owned(u)' \in SUBSET Owned(u)
          BY <3>1, <4>2 DEF Owned, AccessTyped
        <5> QED
          BY <5>1, Fewer, AccessAssumption DEF LimitsKept
      <4> QED
        BY <4>1, <4>2
    <3> QED
      BY <3>2
  <2> QED
    BY <1>16, <2>4 DEF Redeem, LimitsKept, OpenGrants, Owned, memoryVars, tableVars,
       historyVars
<1>17. ASSUME NEW d \in Devices, RevokeDevice(d)
      PROVE  LimitsKept'
  <2>4. (\A u \in Subjects : AtMost(Owned(u), DeviceCap))'
    <3>1. ASSUME NEW u \in Subjects PROVE AtMost(Owned(u)', DeviceCap)
      <4>1. Owned(u)' \in SUBSET Owned(u)
        BY <1>17, AccessAssumption DEF RevokeDevice, Owned, AccessTyped
      <4> QED
        BY <4>1, Fewer, AccessAssumption DEF LimitsKept
    <3> QED
      BY <3>1
  <2> QED
    BY <1>17, <2>4 DEF RevokeDevice, LimitsKept, OpenGrants, Owned, memoryVars,
       tableVars, historyVars
<1>18. ASSUME Notify
      PROVE  LimitsKept'
  BY <1>18 DEF Notify, LimitsKept, OpenGrants, Owned, Done, memoryVars, tableVars,
     historyVars
<1>19. ASSUME NEW d \in deliveries, Check(d)
      PROVE  LimitsKept'
  BY <1>19 DEF Check, LimitsKept, OpenGrants, Owned, Done, memoryVars, tableVars,
     historyVars
<1>20. ASSUME NEW d \in deliveries, SendNotice(d)
      PROVE  LimitsKept'
  BY <1>20 DEF SendNotice, LimitsKept, OpenGrants, Owned, Done, memoryVars, tableVars,
     historyVars
<1>21. ASSUME NEW d \in deliveries, RemoveRow(d)
      PROVE  LimitsKept'
  BY <1>21 DEF RemoveRow, LimitsKept, OpenGrants, Owned, Done, memoryVars, tableVars,
     historyVars
<1>22. ASSUME Restart
      PROVE  LimitsKept'
  <2>1. (AtMost(entries, SessionCap))'
    <3>1. entries' = {}
      BY <1>22 DEF Restart
    <3> QED
      BY <3>1, NoneAtAll, AccessAssumption
  <2>2. (AtMost(reading, LoginSlots))'
    <3>1. reading' = {}
      BY <1>22 DEF Restart
    <3> QED
      BY <3>1, NoneAtAll, AccessAssumption
  <2>3. (AtMost(OpenGrants, GrantCap))'
    <3>1. OpenGrants' = {}
      BY <1>22 DEF Restart, OpenGrants
    <3> QED
      BY <3>1, NoneAtAll, AccessAssumption
  <2> QED
    BY <1>22, <2>1, <2>2, <2>3 DEF Restart, LimitsKept, OpenGrants, Owned, memoryVars,
       tableVars, historyVars
<1> QED
    BY AccessNext, <1>1, <1>2, <1>3, <1>4, <1>5, <1>6, <1>7, <1>8, <1>9, <1>10, <1>11,
     <1>12, <1>13, <1>14, <1>15, <1>16, <1>17, <1>18, <1>19, <1>20, <1>21, <1>22 DEF
     AccessNext

\* The reasons SubscriptionKept allows, for one endpoint and one step.
EndsForAReason(e) ==
    rows[e] \in entries \ goingOut /\ rows'[e] = Nobody /\ rows[e] \in entries' =>
        \/ rows[e] \in goingOut'
        \/ UnsubscribedByOwner(e)
        \/ RemovedByDelivery(e)

\* Every step that ends the subscription of a live session has its reason.
LEMMA SubscriptionSteps ==
    ASSUME AccessTyped, NewcomersClean, NoticesKept, AccessNext
    PROVE  \A x \in Endpoints : EndsForAReason(x)
<1>1. ASSUME NEW s \in Sessions, BeginLogin(s)
      PROVE  \A x \in Endpoints : EndsForAReason(x)
  BY <1>1, AccessAssumption DEF BeginLogin, AccessTyped, EndsForAReason, Done, memoryVars,
     tableVars, historyVars
<1>2. ASSUME NEW s \in Sessions, EndLogin(s)
      PROVE  \A x \in Endpoints : EndsForAReason(x)
  BY <1>2, AccessAssumption DEF EndLogin, AccessTyped, EndsForAReason, Done, memoryVars,
     tableVars, historyVars
<1>3. ASSUME NEW s \in Sessions, BeginLogout(s)
      PROVE  \A x \in Endpoints : EndsForAReason(x)
  BY <1>3, AccessAssumption DEF BeginLogout, WithoutSession, EndsForAReason, AccessTyped
<1>4. ASSUME NEW s \in Sessions, EndLogout(s)
      PROVE  \A x \in Endpoints : EndsForAReason(x)
  BY <1>4, AccessAssumption DEF EndLogout, AccessTyped, EndsForAReason, Done, memoryVars,
     tableVars, historyVars
<1>5. ASSUME NEW s \in Sessions, SessionExpires(s)
      PROVE  \A x \in Endpoints : EndsForAReason(x)
  BY <1>5, AccessAssumption DEF SessionExpires, AccessTyped, EndsForAReason, Done,
     memoryVars, tableVars, historyVars
<1>6. ASSUME NEW s \in Sessions, NEW k \in Kinds, BeginRequest(s, k)
      PROVE  \A x \in Endpoints : EndsForAReason(x)
  BY <1>6, AccessAssumption DEF BeginRequest, AccessTyped, EndsForAReason, Done,
     memoryVars, tableVars, historyVars
<1>7. ASSUME NEW s \in Sessions, CreateGrant(s)
      PROVE  \A x \in Endpoints : EndsForAReason(x)
  BY <1>7, AccessAssumption DEF CreateGrant, AccessTyped, EndsForAReason, Done,
     memoryVars, tableVars, historyVars
<1>8. ASSUME NEW s \in Sessions, IssueSession(s)
      PROVE  \A x \in Endpoints : EndsForAReason(x)
  BY <1>8, AccessAssumption DEF IssueSession, AccessTyped, EndsForAReason, Done,
     memoryVars, tableVars, historyVars
<1>9. ASSUME NEW s \in Sessions, CreatePairing(s)
      PROVE  \A x \in Endpoints : EndsForAReason(x)
  BY <1>9, AccessAssumption DEF CreatePairing, AccessTyped, EndsForAReason, Done,
     memoryVars, tableVars, historyVars
<1>10. ASSUME NEW s \in Sessions, ClosePairing(s)
      PROVE  \A x \in Endpoints : EndsForAReason(x)
  BY <1>10, AccessAssumption DEF ClosePairing, AccessTyped, EndsForAReason, Done,
     memoryVars, tableVars, historyVars
<1>11. ASSUME NEW s \in Sessions, NEW e \in Endpoints, Subscribe(s, e)
      PROVE  \A x \in Endpoints : EndsForAReason(x)
  BY <1>11, AccessAssumption DEF Subscribe, AccessTyped, EndsForAReason, Done, memoryVars,
     tableVars, historyVars
<1>12. ASSUME NEW s \in Sessions, NEW e \in Endpoints, Unsubscribe(s, e)
      PROVE  \A x \in Endpoints : EndsForAReason(x)
  <2>1. ASSUME NEW f \in Endpoints, rows[f] \in entries, rows'[f] = Nobody
        PROVE  UnsubscribedByOwner(f)
    <3>1. f = e /\ who[rows[f]] = who[s]
      BY <1>12, <2>1, AccessAssumption DEF Unsubscribe, AccessTyped
    <3>2. <<"unsubscribe", s>> \in requests \ requests'
      BY <1>12 DEF Unsubscribe, Done
    <3>3. \A g \in Endpoints \ {f} : rows'[g] = rows[g]
      BY <1>12, <3>1 DEF Unsubscribe, AccessTyped
    <3> QED
      BY <3>1, <3>2, <3>3 DEF UnsubscribedByOwner
  <2> QED
    BY <2>1 DEF EndsForAReason
<1>13. ASSUME NEW g \in Grants, NEW s \in Sessions, ClaimGrant(g, s)
      PROVE  \A x \in Endpoints : EndsForAReason(x)
  BY <1>13, AccessAssumption DEF ClaimGrant, AccessTyped, EndsForAReason, Done,
     memoryVars, tableVars, historyVars
<1>14. ASSUME NEW g \in Grants, GrantExpires(g)
      PROVE  \A x \in Endpoints : EndsForAReason(x)
  BY <1>14, AccessAssumption DEF GrantExpires, AccessTyped, EndsForAReason, Done,
     memoryVars, tableVars, historyVars
<1>15. ASSUME NEW u \in Subjects, CodeExpires(u)
      PROVE  \A x \in Endpoints : EndsForAReason(x)
  BY <1>15, AccessAssumption DEF CodeExpires, AccessTyped, EndsForAReason, Done,
     memoryVars, tableVars, historyVars
<1>16. ASSUME NEW c \in Codes, Redeem(c)
      PROVE  \A x \in Endpoints : EndsForAReason(x)
  BY <1>16, AccessAssumption DEF Redeem, AccessTyped, EndsForAReason, Done, memoryVars,
     tableVars, historyVars
<1>17. ASSUME NEW d \in Devices, RevokeDevice(d)
      PROVE  \A x \in Endpoints : EndsForAReason(x)
  BY <1>17, AccessAssumption DEF RevokeDevice, AccessTyped, EndsForAReason, Done,
     memoryVars, tableVars, historyVars
<1>18. ASSUME Notify
      PROVE  \A x \in Endpoints : EndsForAReason(x)
  BY <1>18, AccessAssumption DEF Notify, EndsForAReason, NewcomersClean, AccessTyped
<1>19. ASSUME NEW d \in deliveries, Check(d)
      PROVE  \A x \in Endpoints : EndsForAReason(x)
  BY <1>19, AccessAssumption DEF Check, AccessTyped, EndsForAReason, Done, memoryVars,
     tableVars, historyVars
<1>20. ASSUME NEW d \in deliveries, SendNotice(d)
      PROVE  \A x \in Endpoints : EndsForAReason(x)
  BY <1>20, AccessAssumption DEF SendNotice, AccessTyped, EndsForAReason, Done,
     memoryVars, tableVars, historyVars
<1>21. ASSUME NEW d \in deliveries, RemoveRow(d)
      PROVE  \A x \in Endpoints : EndsForAReason(x)
  <2>1. ASSUME NEW e \in Endpoints, rows[e] \in entries, rows'[e] = Nobody
        PROVE  RemovedByDelivery(e)
    <3>1. d.endpoint = e /\ who[d.session] = who[rows[e]]
      BY <1>21, <2>1, AccessAssumption DEF RemoveRow, SameRow, AccessTyped
    <3>2. d \in deliveries \ deliveries'
      BY <1>21 DEF RemoveRow, Moves
    <3>3. d.at = "gone" \/ (d.at = "drop" /\ d.session # rows[e])
      BY <1>21, <2>1 DEF RemoveRow, NoticesKept
    <3> QED
      BY <3>1, <3>2, <3>3 DEF RemovedByDelivery
  <2> QED
    BY <2>1 DEF EndsForAReason
<1>22. ASSUME Restart
      PROVE  \A x \in Endpoints : EndsForAReason(x)
  BY <1>22, AccessAssumption DEF Restart, AccessTyped, EndsForAReason, Done, memoryVars,
     tableVars, historyVars
<1> QED
    BY AccessNext, <1>1, <1>2, <1>3, <1>4, <1>5, <1>6, <1>7, <1>8, <1>9, <1>10, <1>11,
     <1>12, <1>13, <1>14, <1>15, <1>16, <1>17, <1>18, <1>19, <1>20, <1>21, <1>22 DEF
     AccessNext

\* The invariant holds at the start.
LEMMA AccessStarts == AccessInit => AccessInv
<1> SUFFICES ASSUME AccessInit PROVE AccessInv
  OBVIOUS
<1>1. AccessTyped
  <2>1. spare \in [requests : Nat, notices : Nat, restarts : Nat]
    BY AccessAssumption DEF AccessInit
  <2> QED
    BY <2>1 DEF AccessInit, AccessTyped
<1>2. TokensKept
  BY AccessAssumption DEF AccessInit, TokensKept
<1>3. NewcomersClean /\ NoticesKept
  BY DEF AccessInit, NewcomersClean, NoticesKept
<1>4. OpenGrants = {} /\ \A u \in Subjects : Owned(u) = {}
  BY AccessAssumption DEF AccessInit, OpenGrants, Owned
<1>5. LimitsKept
  BY <1>4, NoneAtAll, AccessAssumption DEF AccessInit, LimitsKept
<1> QED
  BY <1>1, <1>2, <1>3, <1>5 DEF AccessInv

\* The inductive invariant: open tokens have let in nobody, and sessions never come back.
THEOREM AccessInvariant == AccessSpec => []AccessInv
<1>1. AccessInit => AccessInv
  BY AccessStarts
<1>2. AccessInv /\ [AccessNext]_accessVars => AccessInv'
  <2> SUFFICES ASSUME AccessInv, [AccessNext]_accessVars PROVE AccessInv'
    OBVIOUS
  <2>1. CASE AccessNext
    BY <2>1, TypedSteps, TokenSteps, CleanSteps, NoticeSteps, LimitSteps DEF AccessInv
  <2>2. CASE UNCHANGED accessVars
    <3> USE <2>2 DEF AccessInv, accessVars, memoryVars, tableVars, historyVars
    <3>1. AccessTyped'
      BY DEF AccessTyped
    <3>2. TokensKept'
      BY DEF TokensKept
    <3>3. NewcomersClean' /\ NoticesKept'
      BY DEF NewcomersClean, Known, NoticesKept
    <3>4. LimitsKept'
      BY DEF LimitsKept, OpenGrants, Owned
    <3> QED
      BY <3>1, <3>2, <3>3, <3>4
  <2> QED
    BY <2>1, <2>2
<1> QED
  BY <1>1, <1>2, PTL DEF AccessSpec

(* The limits, tokens that work once, and notices only for sessions that   *)
(* were live when the turn ended.                                          *)
THEOREM AccessIsSafe == AccessSpec => []AccessSafe
<1>1. AccessInv => AccessSafe
  <2> SUFFICES ASSUME AccessInv PROVE AccessSafe
    OBVIOUS
  <2>1. AccessTypeOK
    <3>1. \A d \in deliveries : d.endpoint \in Endpoints /\ d.session \in Sessions
      BY DEF AccessInv, NoticesKept, Deliveries
    <3> QED
      BY <3>1 DEF AccessInv, AccessTyped, LimitsKept, AtMost, OpenGrants, AccessTypeOK
  <2>2. TokensWorkOnce
    BY DEF AccessInv, TokensKept, TokensWorkOnce
  <2>3. NoticesForTheLive
    BY DEF AccessInv, NoticesKept, NoticesForTheLive
  <2> QED
    BY <2>1, <2>2, <2>3 DEF AccessSafe
<1> QED
  BY <1>1, AccessInvariant, PTL

(* A browser that is logged in loses its subscription only by its own      *)
(* logout, an unsubscribe of its own account for its endpoint, the end of  *)
(* the endpoint, or a removal decided for an ended session of the same     *)
(* account before it subscribed.  No other account can take it away.       *)
THEOREM SubscriptionsAreKept == AccessSpec => SubscriptionKept
<1>1. AccessInv /\ [AccessNext]_accessVars
        => [\A e \in Endpoints : EndsForAReason(e)]_accessVars
  BY SubscriptionSteps DEF AccessInv
<1> QED
  BY <1>1, AccessInvariant, PTL DEF AccessSpec, SubscriptionKept, EndsForAReason

-----------------------------------------------------------------------------
(***************************************************************************)
(* The hub.                                                                *)
(***************************************************************************)

\* The frames that page s can be sent.
PageFrames(s) == Broadcasts \X (1 .. sent) \cup {Offline, Answer(s)}

HubTyped ==
    /\ task \in [Pages -> {"out", "probe", "replacing", "joining", "greeting", "helloing",
                           "serving", "forwarding", "leaving", "gone"}]
    /\ clientId \in [Pages -> Clients \cup {NoSock}]
    /\ clients \in [Clients -> Pages \cup {NoSock}]
    /\ clientSlots \subseteq Pages
    /\ connClosed \in [Pages -> BOOLEAN]
    /\ wsOpen \in [Pages \cup Wrappers -> BOOLEAN]
    /\ here \in [Pages -> BOOLEAN]
    /\ sendLock \in [by : Pages \cup {NoSock}, to : Wrappers \cup {NoSock}]
    /\ wrapperTask \in [Wrappers -> {"out", "hello", "checking", "live", "gone"}]
    /\ wrapperSlot \in Wrappers \cup {NoSock}
    /\ toDrop \in [Wrappers -> SUBSET Pages]
    /\ enrolled \in BOOLEAN
    /\ revoker \in {"idle", "deleted", "done"}
    /\ revoked \in BOOLEAN
    /\ guard \in [Pages -> {"none", "armed", "fired"}]
    /\ sent \in Nat
    /\ liveSent \in 0 .. MaxLive
    /\ newest \in [Clients -> Pages \cup {NoSock}]
    /\ hellos \subseteq Pages
    /\ uplink \in Nat \X (Pages \cup {NoSock})
    /\ swallowed \subseteq Pages
    /\ faults \in 0 .. MaxFaults

\* Queues hold broadcasts sent so far, and of the answers only the page's own.
QueuesTyped ==
    /\ connQueue = [s \in Pages |-> connQueue[s]]
    /\ \A s \in Pages : connQueue[s] \in Seq(PageFrames(s)) /\ Len(connQueue[s]) <= QueueCap
    /\ got \in [Pages -> Broadcasts \X (1 .. sent) \cup {Offline}]

HubLimits ==
    /\ AtMost(clientSlots, MaxClients + 1)
    /\ AtMost(Registered, MaxClients)

Served == {"replacing", "joining", "greeting", "helloing", "serving", "forwarding"}

\* Who is registered, who sends to the wrapper, and who has been silenced.
PagesKept ==
    /\ \A s \in Pages : task[s] \in {"out", "probe"} =>
        clientId[s] = NoSock /\ connQueue[s] = <<>> /\ got[s] = Offline
    /\ \A c \in Clients : clients[c] # NoSock => clientId[clients[c]] = c /\ newest[c] = clients[c]
    /\ \A s \in Pages : task[s] \in Served /\ ~connClosed[s] => Owns(s)
    /\ \A s \in Pages : task[s] = "leaving" => connClosed[s]
    /\ \A s \in Pages : task[s] = "gone" => ~wsOpen[s]
    /\ \A s \in Pages : guard[s] = "fired" /\ s \notin swallowed =>
        connClosed[s] /\ task[s] \in {"leaving", "gone"}
    /\ \A s \in Pages : task[s] \in {"helloing", "forwarding"} =>
        /\ sendLock.by = s /\ sendLock.to \in Wrappers
        /\ clientId[s] # NoSock /\ newest[clientId[s]] = s

\* The slot is the wrapper's that is checked or served; only an ended one may broadcast no more.
WrappersKept ==
    /\ \A w \in Wrappers : wrapperTask[w] \in {"checking", "live"} => wrapperSlot = w
    /\ \A w \in Wrappers : wrapperTask[w] \in {"out", "hello", "checking"} => toDrop[w] = {}
    /\ \A w \in Wrappers : \A s \in toDrop[w] : clientId[s] # NoSock
    /\ revoker # "idle" => ~enrolled
    /\ revoker = "done" => \A w \in Wrappers : wrapperTask[w] = "live" => ~wsOpen[w]

\* A page that still hears what is queued for it.
Hears(s) == here[s] /\ wsOpen[s] /\ ~connClosed[s] /\ Owns(s)

BroadcastAt(q, i) == i \in 1 .. Len(q) /\ q[i][1] \in Broadcasts

\* The last broadcast a page has got, or is about to get.
Told(q, g) ==
    {x \in {q[i] : i \in 1 .. Len(q)} \cup {g} :
        \/ x = g /\ \A i \in 1 .. Len(q) : ~BroadcastAt(q, i)
        \/ \E i \in 1 .. Len(q) : x = q[i] /\ BroadcastAt(q, i)
                                  /\ \A j \in i + 1 .. Len(q) : ~BroadcastAt(q, j)}

Live(w) == wrapperTask[w] = "live"

\* Who waits for no drop was told everything, and who waits for none of the live wrapper's
\* was told everything of it.
PagesTold ==
    \A s \in Pages : Hears(s) =>
        \A x \in Told(connQueue[s], got[s]) : x # Offline =>
            /\ (\A w \in Wrappers : s \notin toDrop[w]) =>
                /\ x[2] = sent
                /\ x[1] \in {"up", "live"} => \E w \in Wrappers : Live(w)
                /\ x[1] = "down" => \A w \in Wrappers : ~Live(w)
            /\ \A w \in Wrappers : Live(w) /\ s \notin toDrop[w] => x[2] = sent

\* y may come after x.
Succeeds(x, y, pending) ==
    y[2] = x[2] + 1 \/ (pending /\ y[1] # "live" /\ y[2] > x[2])

\* Every broadcast of a queue comes after the one before it, the first one after g.
Linked(q, g, pending) ==
    /\ \A i, j \in 1 .. Len(q) :
        i < j /\ BroadcastAt(q, i) /\ BroadcastAt(q, j)
              /\ (\A k \in i + 1 .. j - 1 : ~BroadcastAt(q, k))
            => Succeeds(q[i], q[j], pending)
    /\ g # Offline => \A j \in 1 .. Len(q) :
        BroadcastAt(q, j) /\ (\A k \in 1 .. j - 1 : ~BroadcastAt(q, k))
            => Succeeds(g, q[j], pending)

PagesLinked ==
    \A s \in Pages : Hears(s) => Linked(connQueue[s], got[s], DropPending(s))

HubInv == HubTyped /\ QueuesTyped /\ HubLimits /\ PagesKept /\ WrappersKept /\ PagesTold /\ PagesLinked


\* Connections are only closed, and client ids only given up, by those who are closed.
OnlyCloses ==
    /\ connClosed' \in [Pages -> BOOLEAN]
    /\ wsOpen' \in [Pages \cup Wrappers -> BOOLEAN]
    /\ clients' \in [Clients -> Pages \cup {NoSock}]
    /\ \A s \in Pages : (connClosed[s] => connClosed'[s]) /\ (wsOpen'[s] => wsOpen[s])
    /\ \A w \in Wrappers : wsOpen'[w] => wsOpen[w]
    /\ \A c \in Clients :
        \/ clients'[c] = clients[c]
        \/ clients'[c] = NoSock /\ clients[c] \in Pages /\ connClosed'[clients[c]]

\* What a broadcast of w does: each registered client gets the frame, or is closed, or
\* waits for its drop.
Reached(w, f) ==
    /\ sent' = sent + 1
    /\ connQueue' = [s \in Pages |-> IF s \in Registered \ Dead
                                     THEN Append(connQueue[s], <<f, sent + 1>>) ELSE connQueue[s]]
    /\ \A v \in Wrappers : v # w => toDrop'[v] = toDrop[v]
    /\ toDrop[w] \subseteq toDrop'[w] /\ toDrop'[w] \subseteq Dead
    /\ \A s \in Dead : connClosed'[s] \/ s \in toDrop'[w]

\* A drop closes one connection.
LEMMA DropCloses ==
    ASSUME HubTyped, PagesKept, NEW c \in Pages, clientId[c] # NoSock, Drop(c, clients, wsOpen)
    PROVE  OnlyCloses /\ connClosed'[c]
<1>1. clientId[c] \in Clients
  BY DEF HubTyped
<1>2. connClosed' \in [Pages -> BOOLEAN] /\ \A s \in Pages : connClosed'[s] = (connClosed[s] \/ s = c)
  BY DEF HubTyped, Drop
<1>3. /\ wsOpen' \in [Pages \cup Wrappers -> BOOLEAN]
      /\ \A s \in Pages \cup Wrappers : wsOpen'[s] => wsOpen[s]
  BY DEF HubTyped, Drop
<1>4. /\ clients' \in [Clients -> Pages \cup {NoSock}]
      /\ \A x \in Clients : clients'[x] = clients[x] \/ (clients'[x] = NoSock /\ clients[x] = c)
  BY <1>1 DEF HubTyped, Drop
<1> QED
  BY <1>2, <1>3, <1>4 DEF OnlyCloses

\* A broadcast of a wrapper that has none to drop.
LEMMA BroadcastReaches ==
    ASSUME HubTyped, PagesKept, NEW w \in Wrappers, NEW f, toDrop[w] = {},
           NEW open \in [Pages \cup Wrappers -> BOOLEAN],
           \A x \in Pages \cup Wrappers : open[x] => wsOpen[x],
           Broadcast(w, f, open)
    PROVE  OnlyCloses /\ Reached(w, f) /\ toDrop' \in [Wrappers -> SUBSET Pages]
<1>1. Registered \subseteq Pages /\ Dead \subseteq Registered
  BY DEF HubTyped, Registered, Dead
<1>2. CASE Dead = {}
  <2>1. wsOpen' = open /\ UNCHANGED <<clients, connClosed, toDrop>>
    BY <1>2 DEF Broadcast
  <2>2. OnlyCloses
    BY <2>1 DEF OnlyCloses, HubTyped
  <2>3. toDrop' \in [Wrappers -> SUBSET Pages] /\ \A v \in Wrappers : toDrop'[v] = toDrop[v]
    BY <2>1 DEF HubTyped
  <2>4. /\ sent' = sent + 1
        /\ connQueue' = [s \in Pages |-> IF s \in Registered \ Dead
                                         THEN Append(connQueue[s], <<f, sent + 1>>) ELSE connQueue[s]]
    BY DEF Broadcast
  <2> QED
    BY <1>2, <2>2, <2>3, <2>4 DEF Reached
<1>3. CASE Dead # {}
  <2>1. PICK c \in Dead : Drop(c, clients, open) /\ toDrop' = [toDrop EXCEPT ![w] = Dead \ {c}]
    BY <1>3 DEF Broadcast
  <2>2. c \in Pages /\ clientId[c] \in Clients
    BY <1>1, HubAssumption DEF HubTyped, PagesKept, Registered
  <2>3. connClosed' \in [Pages -> BOOLEAN] /\ \A s \in Pages : connClosed'[s] = (connClosed[s] \/ s = c)
    BY <2>1, <2>2 DEF HubTyped, Drop
  <2>4. /\ wsOpen' \in [Pages \cup Wrappers -> BOOLEAN]
        /\ \A s \in Pages \cup Wrappers : wsOpen'[s] => wsOpen[s]
    BY <2>1, <2>2 DEF HubTyped, Drop
  <2>5. /\ clients' \in [Clients -> Pages \cup {NoSock}]
        /\ \A x \in Clients : clients'[x] = clients[x] \/ (clients'[x] = NoSock /\ clients[x] = c)
    BY <2>1, <2>2 DEF HubTyped, Drop
  <2>6. OnlyCloses
    BY <2>2, <2>3, <2>4, <2>5 DEF OnlyCloses
  <2>7. /\ toDrop' \in [Wrappers -> SUBSET Pages] /\ toDrop'[w] = Dead \ {c}
        /\ \A v \in Wrappers : v # w => toDrop'[v] = toDrop[v]
    BY <1>1, <2>1 DEF HubTyped
  <2>8. /\ sent' = sent + 1
        /\ connQueue' = [s \in Pages |-> IF s \in Registered \ Dead
                                         THEN Append(connQueue[s], <<f, sent + 1>>) ELSE connQueue[s]]
    BY DEF Broadcast
  <2>9. \A s \in Dead : connClosed'[s] \/ s \in toDrop'[w]
    BY <1>1, <2>2, <2>3, <2>7
  <2> QED
    BY <2>6, <2>7, <2>8, <2>9 DEF Reached
<1> QED
  BY <1>2, <1>3

\* Closing disturbs nothing of what is kept about pages.
LEMMA ClosingKeepsPages ==
    ASSUME HubTyped, PagesKept, OnlyCloses,
           UNCHANGED <<task, clientId, guard, got, sendLock, newest, swallowed>>,
           \A s \in Pages : task[s] \in {"out", "probe"} => connQueue'[s] = connQueue[s]
    PROVE  PagesKept'
<1>1. \A c \in Clients : clients'[c] # NoSock => clients'[c] = clients[c]
  BY DEF OnlyCloses
<1>2. \A s \in Pages : Owns(s) /\ ~connClosed'[s] => Owns(s)'
  BY HubAssumption DEF OnlyCloses, Owns, HubTyped
<1> QED
  BY <1>1, <1>2 DEF PagesKept, OnlyCloses, HubTyped, Served

\* Who has not yet said hello is not registered.
LEMMA NewcomersUnregistered ==
    ASSUME PagesKept, NEW s \in Pages, task[s] \in {"out", "probe"}
    PROVE  s \notin Registered
BY HubAssumption DEF PagesKept, Registered

\* A wrapper is served, or fails the second check and gives the slot back.
LEMMA Authorizes ==
    ASSUME HubTyped, PagesKept, WrappersKept, NEW w \in Wrappers, Authorize(w)
    PROVE  /\ OnlyCloses /\ toDrop' \in [Wrappers -> SUBSET Pages]
           /\ \/ /\ Reached(w, "up") /\ enrolled /\ wrapperSlot' = wrapperSlot
                 /\ wrapperTask' = [wrapperTask EXCEPT ![w] = "live"]
              \/ /\ Reached(w, "down") /\ wrapperSlot' = NoSock
                 /\ wrapperTask' = [wrapperTask EXCEPT ![w] = "gone"]
<1>1. toDrop[w] = {} /\ wrapperSlot = w
  BY DEF Authorize, WrappersKept
<1>2. CASE enrolled
  <2>1. Broadcast(w, "up", wsOpen) /\ wrapperSlot' = wrapperSlot
        /\ wrapperTask' = [wrapperTask EXCEPT ![w] = "live"]
    BY <1>2 DEF Authorize
  <2> QED
    BY <1>1, <1>2, <2>1, BroadcastReaches DEF HubTyped
<1>3. CASE ~enrolled
  <2> DEFINE open == [wsOpen EXCEPT ![w] = FALSE]
  <2>1. Vacates(w, open)
    BY <1>3 DEF Authorize
  <2>2. Broadcast(w, "down", open) /\ wrapperSlot' = NoSock
        /\ wrapperTask' = [wrapperTask EXCEPT ![w] = "gone"]
    BY <1>1, <2>1 DEF Vacates
  <2>3. /\ open \in [Pages \cup Wrappers -> BOOLEAN]
        /\ \A x \in Pages \cup Wrappers : open[x] => wsOpen[x]
    BY DEF HubTyped
  <2> HIDE DEF open
  <2> QED
    BY <1>1, <2>2, <2>3, BroadcastReaches
<1> QED
  BY <1>2, <1>3

\* A live frame reaches everybody or closes them.
LEMMA LiveFrameReaches ==
    ASSUME HubTyped, PagesKept, NEW w \in Wrappers, LiveFrame(w)
    PROVE  OnlyCloses /\ toDrop' \in [Wrappers -> SUBSET Pages] /\ Reached(w, "live")
<1>1. toDrop[w] = {} /\ Broadcast(w, "live", wsOpen)
  BY DEF LiveFrame
<1> QED
  BY <1>1, BroadcastReaches DEF HubTyped

\* A wrapper goes silently before its hello, and announces its end after it.
LEMMA WrapperGoes ==
    ASSUME HubTyped, PagesKept, WrappersKept, NEW w \in Wrappers, WrapperGone(w)
    PROVE  /\ OnlyCloses /\ toDrop' \in [Wrappers -> SUBSET Pages]
           /\ wrapperTask' = [wrapperTask EXCEPT ![w] = "gone"]
           /\ \/ /\ wrapperTask[w] = "hello"
                 /\ UNCHANGED <<wrapperSlot, connQueue, clients, connClosed, toDrop, wsOpen, sent>>
              \/ Reached(w, "down") /\ wrapperSlot' = NoSock
<1>1. toDrop[w] = {}
  BY DEF WrapperGone
<1>2. CASE wrapperTask[w] = "hello"
  BY <1>2 DEF WrapperGone, OnlyCloses, HubTyped
<1>3. CASE wrapperTask[w] = "live"
  <2>1. Vacates(w, wsOpen) /\ wrapperSlot = w
    BY <1>3 DEF WrapperGone, WrappersKept
  <2>2. Broadcast(w, "down", wsOpen) /\ wrapperSlot' = NoSock
        /\ wrapperTask' = [wrapperTask EXCEPT ![w] = "gone"]
    BY <2>1 DEF Vacates
  <2> QED
    BY <1>1, <2>2, BroadcastReaches DEF HubTyped
<1> QED
  BY <1>2, <1>3 DEF WrapperGone

\* A frame for one page: forgotten, queued for the page that asked, or too much for it.
LEMMA RoutedFrameGoesHome ==
    ASSUME HubTyped, PagesKept, NEW w \in Wrappers, RoutedFrame(w)
    PROVE  /\ OnlyCloses /\ hellos' \subseteq hellos
           /\ \/ connQueue' = connQueue
              \/ \E r \in Pages : /\ Owns(r) /\ ~Full(r)
                                  /\ connQueue' = [connQueue EXCEPT ![r] = Append(@, Answer(r))]
<1>1. PICK r \in hellos :
        /\ hellos' = hellos \ {r}
        /\ IF ~Routed(r)
           THEN UNCHANGED <<connQueue, clients, connClosed, wsOpen>>
           ELSE IF connClosed[clients[clientId[r]]] \/ Full(clients[clientId[r]])
           THEN Drop(clients[clientId[r]], clients, wsOpen) /\ UNCHANGED connQueue
           ELSE /\ connQueue' = [connQueue EXCEPT ![clients[clientId[r]]] = Append(@, Answer(r))]
                /\ UNCHANGED <<clients, connClosed, wsOpen>>
  BY DEF RoutedFrame
<1>2. r \in Pages /\ (Routed(r) => clients[clientId[r]] = r /\ clientId[r] # NoSock)
  BY <1>1 DEF HubTyped, Routed, Owns
<1>3. CASE UNCHANGED <<connQueue, clients, connClosed, wsOpen>>
  BY <1>1, <1>3 DEF OnlyCloses, HubTyped
<1>4. CASE Routed(r) /\ Drop(r, clients, wsOpen) /\ UNCHANGED connQueue
  BY <1>1, <1>2, <1>4, DropCloses
<1>5. CASE /\ Routed(r) /\ ~Full(r)
           /\ connQueue' = [connQueue EXCEPT ![r] = Append(@, Answer(r))]
           /\ UNCHANGED <<clients, connClosed, wsOpen>>
  <2>1. Owns(r)
    BY <1>5 DEF Routed
  <2>2. OnlyCloses
    BY <1>5 DEF OnlyCloses, HubTyped
  <2> QED
    BY <1>1, <1>2, <1>5, <2>1, <2>2
<1> QED
  BY <1>1, <1>2, <1>3, <1>4, <1>5

\* A slow client is dropped.
LEMMA DropNextCloses ==
    ASSUME HubTyped, PagesKept, WrappersKept, NEW w \in Wrappers, DropNext(w)
    PROVE  /\ OnlyCloses /\ toDrop' \in [Wrappers -> SUBSET Pages]
           /\ \A v \in Wrappers : toDrop'[v] \subseteq toDrop[v]
           /\ \A v \in Wrappers : \A s \in toDrop[v] : s \in toDrop'[v] \/ connClosed'[s]
<1>1. PICK c \in toDrop[w] : /\ Drop(c, clients, wsOpen)
                             /\ toDrop' = [toDrop EXCEPT ![w] = @ \ {c}]
  BY DEF DropNext
<1>2. c \in Pages /\ clientId[c] # NoSock
  BY <1>1 DEF HubTyped, WrappersKept
<1>3. OnlyCloses /\ connClosed'[c]
  BY <1>1, <1>2, DropCloses
<1>4. /\ toDrop' \in [Wrappers -> SUBSET Pages]
      /\ \A v \in Wrappers : toDrop'[v] = IF v = w THEN toDrop[v] \ {c} ELSE toDrop[v]
  BY <1>1 DEF HubTyped
<1> QED
  BY <1>3, <1>4

\* One connection is closed, if there is one.
Closed(old) ==
    /\ connClosed' \in [Pages -> BOOLEAN]
    /\ wsOpen' \in [Pages \cup Wrappers -> BOOLEAN]
    /\ \A p \in Pages : connClosed'[p] <=> connClosed[p] \/ p = old
    /\ \A p \in Pages \cup Wrappers : wsOpen'[p] <=> wsOpen[p] /\ p # old

\* A hello that is refused for want of room, or takes client id c over and closes its holder.
HelloEnds(s, c, n) ==
    /\ clientId' = [clientId EXCEPT ![s] = c]
    /\ \/ /\ UNCHANGED <<clients, newest>>
          /\ task' = [task EXCEPT ![s] = "leaving"]
          /\ connClosed' = [connClosed EXCEPT ![s] = TRUE]
          /\ wsOpen' = [wsOpen EXCEPT ![s] = FALSE]
       \/ /\ clients[c] # NoSock \/ Cardinality(Registered) + n < MaxClients
          /\ clients' = [clients EXCEPT ![c] = s]
          /\ newest' = [newest EXCEPT ![c] = s]
          /\ \E t \in {"greeting", "joining", "replacing"} : task' = [task EXCEPT ![s] = t]
          /\ Closed(clients[c])

\* A hello is refused for want of room, or takes the client id over and closes its predecessor.
LEMMA RegisterOutcomes ==
    ASSUME HubTyped, HubLimits, NEW s \in Pages, Register(s)
    PROVE  \E c \in Clients, n \in Elsewhere : HelloEnds(s, c, n)
<1> USE DEF HelloEnds
<1>1. PICK c \in Clients, n \in Elsewhere :
        LET old == clients[c] IN
        /\ clientId' = [clientId EXCEPT ![s] = c]
        /\ IF OverCapacity(c, n)
           THEN /\ task' = [task EXCEPT ![s] = "leaving"]
                /\ connClosed' = [connClosed EXCEPT ![s] = TRUE]
                /\ wsOpen' = [wsOpen EXCEPT ![s] = FALSE]
                /\ UNCHANGED <<clients, newest>>
           ELSE /\ clients' = [clients EXCEPT ![c] = s]
                /\ newest' = [newest EXCEPT ![c] = s]
                /\ IF old = NoSock
                   THEN /\ task' = [task EXCEPT ![s] = "greeting"]
                        /\ UNCHANGED <<connClosed, wsOpen>>
                   ELSE /\ task' = [task EXCEPT ![s] = IF connClosed[old] THEN "joining"
                                                       ELSE "replacing"]
                        /\ connClosed' = [connClosed EXCEPT ![old] = TRUE]
                        /\ wsOpen' = [wsOpen EXCEPT ![old] = FALSE]
  BY DEF Register
<1>2. CASE OverCapacity(c, n)
  BY <1>1, <1>2
<1>3. ASSUME ~OverCapacity(c, n), clients[c] = NoSock
      PROVE  /\ Cardinality(Registered) + n < MaxClients
             /\ clients' = [clients EXCEPT ![c] = s] /\ newest' = [newest EXCEPT ![c] = s]
             /\ task' = [task EXCEPT ![s] = "greeting"]
             /\ Closed(clients[c])
  <2>1. /\ clients' = [clients EXCEPT ![c] = s] /\ newest' = [newest EXCEPT ![c] = s]
        /\ task' = [task EXCEPT ![s] = "greeting"] /\ UNCHANGED <<connClosed, wsOpen>>
    BY <1>1, <1>3
  <2>2. NoSock \notin Pages /\ NoSock \notin Wrappers
    BY HubAssumption
  <2>3. Closed(clients[c])
    BY <1>3, <2>1, <2>2 DEF HubTyped, Closed
  <2>4. Cardinality(Registered) \in Nat /\ n \in Nat /\ MaxClients \in Nat
    BY FS_CardinalityType, HubAssumption DEF HubLimits, AtMost, Elsewhere
  <2>5. ~(Cardinality(Registered) + n >= MaxClients)
    BY <1>3 DEF OverCapacity
  <2>6. Cardinality(Registered) + n < MaxClients
    BY <2>4, <2>5
  <2> QED
    BY <2>1, <2>3, <2>6
<1>4. ASSUME ~OverCapacity(c, n), clients[c] # NoSock
      PROVE  /\ clients' = [clients EXCEPT ![c] = s] /\ newest' = [newest EXCEPT ![c] = s]
             /\ \E t \in {"greeting", "joining", "replacing"} : task' = [task EXCEPT ![s] = t]
             /\ Closed(clients[c])
  <2>1. clients[c] \in Pages
    BY <1>4 DEF HubTyped
  <2>2. /\ clients' = [clients EXCEPT ![c] = s] /\ newest' = [newest EXCEPT ![c] = s]
        /\ task' = [task EXCEPT ![s] = IF connClosed[clients[c]] THEN "joining" ELSE "replacing"]
        /\ connClosed' = [connClosed EXCEPT ![clients[c]] = TRUE]
        /\ wsOpen' = [wsOpen EXCEPT ![clients[c]] = FALSE]
    BY <1>1, <1>4
  <2>3. Closed(clients[c])
    BY <2>1, <2>2 DEF HubTyped, Closed
  <2> QED
    BY <2>2, <2>3
<1> QED
  BY <1>1, <1>2, <1>3, <1>4

\* Whoever unwinds is closed.
LEMMA UnwindsCloses ==
    ASSUME HubTyped, NEW s \in Pages, Unwinds(s),
           wsOpen' \in [Pages \cup Wrappers -> BOOLEAN],
           \A x \in Pages \cup Wrappers : wsOpen'[x] => wsOpen[x]
    PROVE  OnlyCloses /\ connClosed'[s] /\ task' = [task EXCEPT ![s] = "leaving"]
<1>1. /\ clients' \in [Clients -> Pages \cup {NoSock}]
      /\ \A c \in Clients : clients'[c] = clients[c] \/ (clients'[c] = NoSock /\ clients[c] = s)
  BY DEF Unwinds, Unregistered, Owns, HubTyped
<1>2. /\ connClosed' \in [Pages -> BOOLEAN] /\ connClosed'[s]
      /\ \A p \in Pages : connClosed[p] => connClosed'[p]
  BY DEF Unwinds, HubTyped
<1> QED
  BY <1>1, <1>2 DEF OnlyCloses, Unwinds

\* A frame waits for its wrapper, is answered by the relay, or ends the connection.
LEMMA BeginForwardOutcomes ==
    ASSUME HubTyped, NEW s \in Pages, BeginForward(s)
    PROVE  /\ task[s] \in {"greeting", "serving"} /\ sendLock = NoSend
           /\ OnlyCloses
           /\ \/ /\ task' = [task EXCEPT ![s] = "leaving"] /\ connClosed'[s]
                 /\ UNCHANGED <<connQueue, sendLock>>
              \/ /\ Owns(s) /\ wrapperSlot # NoSock /\ sendLock' = [by |-> s, to |-> wrapperSlot]
                 /\ \E t \in {"helloing", "forwarding"} : task' = [task EXCEPT ![s] = t]
                 /\ UNCHANGED <<clients, connQueue, connClosed>>
              \/ /\ Owns(s) /\ ~Full(s) /\ connQueue' = [connQueue EXCEPT ![s] = Append(@, Offline)]
                 /\ task' = [task EXCEPT ![s] = "serving"]
                 /\ UNCHANGED <<clients, connClosed, sendLock>>
<1>1. task[s] \in {"greeting", "serving"} /\ sendLock = NoSend /\ wsOpen' = wsOpen
  BY DEF BeginForward
<1>2. CASE Unwinds(s) /\ UNCHANGED <<connQueue, sendLock>>
  BY <1>1, <1>2, UnwindsCloses DEF HubTyped
<1>3. CASE /\ Owns(s) /\ wrapperSlot # NoSock /\ sendLock' = [by |-> s, to |-> wrapperSlot]
           /\ task' = [task EXCEPT ![s] = IF task[s] = "greeting" THEN "helloing" ELSE "forwarding"]
           /\ UNCHANGED <<clients, connQueue, connClosed>>
  <2>1. OnlyCloses
    BY <1>1, <1>3 DEF OnlyCloses, HubTyped
  <2> QED
    BY <1>1, <1>3, <2>1
<1>4. CASE /\ Owns(s) /\ ~Full(s) /\ connQueue' = [connQueue EXCEPT ![s] = Append(@, Offline)]
           /\ task' = [task EXCEPT ![s] = "serving"]
           /\ UNCHANGED <<clients, connClosed, sendLock>>
  <2>1. OnlyCloses
    BY <1>1, <1>4 DEF OnlyCloses, HubTyped
  <2> QED
    BY <1>1, <1>4, <2>1
<1> QED
  BY <1>2, <1>3, <1>4 DEF BeginForward

\* The send reached the wrapper, or its end is answered like its absence.
LEMMA EndForwardOutcomes ==
    ASSUME HubTyped, NEW s \in Pages, EndForward(s)
    PROVE  /\ task[s] \in {"helloing", "forwarding"} /\ sendLock' = NoSend
           /\ OnlyCloses
           /\ \/ /\ task' = [task EXCEPT ![s] = "leaving"] /\ connClosed'[s]
                 /\ UNCHANGED <<connQueue, hellos, uplink>>
              \/ /\ task' = [task EXCEPT ![s] = "serving"]
                 /\ hellos' \subseteq hellos \cup {s} /\ uplink' = <<uplink[1] + 1, s>>
                 /\ UNCHANGED <<clients, connQueue, connClosed>>
              \/ /\ ~Full(s) /\ connQueue' = [connQueue EXCEPT ![s] = Append(@, Offline)]
                 /\ task' = [task EXCEPT ![s] = "serving"]
                 /\ UNCHANGED <<clients, connClosed, hellos, uplink>>
<1>1. task[s] \in {"helloing", "forwarding"} /\ sendLock' = NoSend /\ wsOpen' = wsOpen
  BY DEF EndForward
<1>2. CASE Unwinds(s) /\ UNCHANGED <<connQueue, hellos, uplink>>
  BY <1>1, <1>2, UnwindsCloses DEF HubTyped
<1>3. CASE /\ task' = [task EXCEPT ![s] = "serving"]
           /\ hellos' \subseteq hellos \cup {s} /\ uplink' = <<uplink[1] + 1, s>>
           /\ UNCHANGED <<clients, connQueue, connClosed>>
  <2>1. OnlyCloses
    BY <1>1, <1>3 DEF OnlyCloses, HubTyped
  <2> QED
    BY <1>1, <1>3, <2>1
<1>4. CASE /\ ~Full(s) /\ connQueue' = [connQueue EXCEPT ![s] = Append(@, Offline)]
           /\ task' = [task EXCEPT ![s] = "serving"]
           /\ UNCHANGED <<clients, connClosed, hellos, uplink>>
  <2>1. OnlyCloses
    BY <1>1, <1>4 DEF OnlyCloses, HubTyped
  <2> QED
    BY <1>1, <1>4, <2>1
<1> QED
  BY <1>2, <1>3, <1>4 DEF EndForward, upVars

\* A frame goes out, or the connection fails.
LEMMA SenderOutcomes ==
    ASSUME HubTyped, NEW s \in Pages, SenderStep(s)
    PROVE  /\ OnlyCloses /\ ~connClosed[s] /\ connQueue[s] # <<>>
           /\ connQueue' = [connQueue EXCEPT ![s] = Tail(@)]
           /\ UNCHANGED <<clients>>
           /\ \/ /\ wsOpen[s] /\ here[s]
                 /\ got' = [got EXCEPT ![s] = IF Head(connQueue[s])[1] \in Broadcasts
                                              THEN Head(connQueue[s]) ELSE @]
              \/ ~(wsOpen[s] /\ here[s]) /\ UNCHANGED got
<1>1. CASE wsOpen[s] /\ here[s]
  BY <1>1 DEF SenderStep, OnlyCloses, HubTyped
<1>2. CASE ~(wsOpen[s] /\ here[s])
  <2>1. \/ UNCHANGED <<connClosed, wsOpen>>
        \/ /\ connClosed' = [connClosed EXCEPT ![s] = TRUE]
           /\ wsOpen' = [wsOpen EXCEPT ![s] = FALSE]
    BY <1>2 DEF SenderStep
  <2>2. clients' = clients
    BY DEF SenderStep
  <2>3. OnlyCloses
    BY <2>1, <2>2 DEF OnlyCloses, HubTyped
  <2> QED
    BY <1>2, <2>3 DEF SenderStep
<1> QED
  BY <1>1, <1>2

\* The guard ends the connection, or its cancellation is swallowed.
LEMMA GuardOutcomes ==
    ASSUME HubTyped, NEW s \in Pages, GuardFires(s)
    PROVE  /\ OnlyCloses /\ guard' = [guard EXCEPT ![s] = "fired"]
           /\ \/ /\ swallowed' = swallowed \cup {s} /\ task[s] = "joining"
                 /\ UNCHANGED <<task, clients, connClosed, sendLock>>
              \/ /\ task' = [task EXCEPT ![s] = "leaving"] /\ connClosed'[s]
                 /\ sendLock' = IF sendLock.by = s THEN NoSend ELSE sendLock
                 /\ UNCHANGED swallowed
<1>1. CASE task[s] = "joining"
  BY <1>1 DEF GuardFires, OnlyCloses, HubTyped
<1>2. CASE task[s] # "joining"
  BY <1>2, UnwindsCloses DEF GuardFires, HubTyped
<1> QED
  BY <1>1, <1>2

\* Whoever cannot read any more leaves.
LEMMA LeaveCloses ==
    ASSUME HubTyped, NEW s \in Pages, Leave(s)
    PROVE  OnlyCloses /\ connClosed'[s] /\ task' = [task EXCEPT ![s] = "leaving"]
<1>1. /\ wsOpen' \in [Pages \cup Wrappers -> BOOLEAN]
      /\ \A x \in Pages \cup Wrappers : wsOpen'[x] => wsOpen[x]
  BY DEF Leave, HubTyped
<1> QED
  BY <1>1, UnwindsCloses DEF Leave

\* A broadcast passes by who has not said hello.
LEMMA NewcomersUnreached ==
    ASSUME PagesKept, NEW w, NEW f, Reached(w, f), NEW x \in Pages, task[x] \in {"out", "probe"}
    PROVE  connQueue'[x] = connQueue[x]
<1>1. x \notin Registered
  BY NewcomersUnregistered
<1> QED
  BY <1>1 DEF Reached

\* Nor does leaving disturb anything.
LEMMA LeavingKeepsPages ==
    ASSUME HubTyped, PagesKept, OnlyCloses, NEW s \in Pages,
           task' = [task EXCEPT ![s] = "leaving"], connClosed'[s],
           UNCHANGED <<clientId, got, connQueue, newest, swallowed>>,
           guard' \in {guard, [guard EXCEPT ![s] = "fired"]},
           \A x \in Pages : x # s /\ sendLock.by = x => sendLock' = sendLock
    PROVE  PagesKept'
<1>1. \A x \in Pages : task'[x] = IF x = s THEN "leaving" ELSE task[x]
  BY DEF HubTyped
<1>2. \A x \in Pages : x # s => guard'[x] = guard[x]
  BY DEF HubTyped
<1>3. \A x \in Pages : Owns(x) /\ ~connClosed'[x] => Owns(x)'
  BY HubAssumption DEF OnlyCloses, Owns, HubTyped
<1>4. \A x \in Pages : task'[x] \in {"out", "probe"} =>
          clientId'[x] = NoSock /\ connQueue'[x] = <<>> /\ got'[x] = Offline
  BY <1>1 DEF PagesKept
<1>5. \A c \in Clients : clients'[c] # NoSock =>
          clientId'[clients'[c]] = c /\ newest'[c] = clients'[c]
  BY DEF PagesKept, OnlyCloses
<1>6. \A x \in Pages : task'[x] \in Served /\ ~connClosed'[x] => Owns(x)'
  BY <1>1, <1>3 DEF PagesKept, Served, OnlyCloses
<1>7. \A x \in Pages : task'[x] = "leaving" => connClosed'[x]
  BY <1>1 DEF PagesKept, OnlyCloses
<1>8. \A x \in Pages : task'[x] = "gone" => ~wsOpen'[x]
  BY <1>1 DEF PagesKept, OnlyCloses
<1>9. \A x \in Pages : guard'[x] = "fired" /\ x \notin swallowed' =>
          connClosed'[x] /\ task'[x] \in {"leaving", "gone"}
  BY <1>1, <1>2 DEF PagesKept, OnlyCloses
<1>10. \A x \in Pages : task'[x] \in {"helloing", "forwarding"} =>
          /\ sendLock'.by = x /\ sendLock'.to \in Wrappers
          /\ clientId'[x] # NoSock /\ newest'[clientId'[x]] = x
  BY <1>1 DEF PagesKept
<1> QED
  BY <1>4, <1>5, <1>6, <1>7, <1>8, <1>9, <1>10 DEF PagesKept

\* Giving up client ids and slots stays within the limits.
LEMMA FewerKeepLimits ==
    ASSUME HubLimits, clientSlots' \subseteq clientSlots,
           \A c \in Clients : clients'[c] = clients[c] \/ clients'[c] = NoSock
    PROVE  HubLimits'
<1>1. Registered' \in SUBSET Registered
  BY DEF Registered
<1>2. AtMost(Registered', MaxClients)
  BY <1>1, Fewer, HubAssumption DEF HubLimits
<1>3. AtMost(clientSlots', MaxClients + 1)
  BY Fewer, HubAssumption DEF HubLimits
<1> QED
  BY <1>2, <1>3 DEF HubLimits

\* What may be queued for a page may still be when more has been sent.
LEMMA FramesGrow ==
    ASSUME NEW s \in Pages, sent \in Nat, sent' \in Nat, sent <= sent'
    PROVE  /\ PageFrames(s) \subseteq PageFrames(s)'
           /\ Seq(PageFrames(s)) \subseteq Seq(PageFrames(s)')
           /\ Broadcasts \X (1 .. sent) \subseteq Broadcasts \X (1 .. sent')
<1>1. Broadcasts \X (1 .. sent) \subseteq Broadcasts \X (1 .. sent')
  <2>1. 1 .. sent \subseteq 1 .. sent'
    OBVIOUS
  <2> QED
    BY <2>1
<1>2. PageFrames(s) \subseteq PageFrames(s)'
  BY <1>1 DEF PageFrames
<1>3. ASSUME NEW q \in Seq(PageFrames(s)) PROVE q \in Seq(PageFrames(s)')
  BY <1>2
<1> QED
  BY <1>1, <1>2, <1>3

\* A frame fits into a queue that has room.
LEMMA QueueTakes ==
    ASSUME QueuesTyped, NEW s \in Pages, NEW f, f \in PageFrames(s)', ~Full(s),
           sent \in Nat, sent' \in Nat, sent <= sent'
    PROVE  Append(connQueue[s], f) \in Seq(PageFrames(s)') /\ Len(Append(connQueue[s], f)) <= QueueCap
<1>1. connQueue[s] \in Seq(PageFrames(s)')
  BY FramesGrow DEF QueuesTyped
<1>2. Append(connQueue[s], f) \in Seq(PageFrames(s)') /\ Len(connQueue[s]) \in Nat
      /\ Len(Append(connQueue[s], f)) = Len(connQueue[s]) + 1
  BY <1>1
<1>3. Len(connQueue[s]) < QueueCap
  BY <1>2, HubAssumption DEF Full
<1> QED
  BY <1>2, <1>3, HubAssumption

\* What the queues hold stays allowed when a frame more has been sent.
LEMMA SameQueue ==
    ASSUME QueuesTyped, NEW s \in Pages, sent \in Nat, sent' \in Nat, sent <= sent'
    PROVE  /\ connQueue[s] \in Seq(PageFrames(s)') /\ Len(connQueue[s]) <= QueueCap
           /\ got[s] \in Broadcasts \X (1 .. sent') \cup {Offline}
<1>1. connQueue[s] \in Seq(PageFrames(s)) /\ Len(connQueue[s]) <= QueueCap
      /\ got[s] \in Broadcasts \X (1 .. sent) \cup {Offline}
  BY DEF QueuesTyped
<1> QED
  BY <1>1, FramesGrow

\* Queues that have grown by a frame at most.
LEMMA QueuesGrow ==
    ASSUME QueuesTyped, sent \in Nat, sent' \in Nat, sent <= sent', got' = got,
           connQueue' = [s \in Pages |-> connQueue'[s]],
           \A s \in Pages : \/ connQueue'[s] = connQueue[s]
                            \/ ~Full(s) /\ \E f \in PageFrames(s)' : connQueue'[s] = Append(connQueue[s], f)
    PROVE  QueuesTyped'
<1>1. ASSUME NEW s \in Pages
      PROVE  connQueue'[s] \in Seq(PageFrames(s)') /\ Len(connQueue'[s]) <= QueueCap
  BY SameQueue, QueueTakes
<1>2. got' \in [Pages -> Broadcasts \X (1 .. sent') \cup {Offline}]
  <2>1. Broadcasts \X (1 .. sent) \cup {Offline} \subseteq Broadcasts \X (1 .. sent') \cup {Offline}
    <3>1. 1 .. sent \subseteq 1 .. sent'
      OBVIOUS
    <3> QED
      BY <3>1
  <2>2. got \in [Pages -> Broadcasts \X (1 .. sent) \cup {Offline}]
    BY DEF QueuesTyped
  <2> QED
    BY <2>1, <2>2
<1> QED
  BY <1>1, <1>2 DEF QueuesTyped

\* A broadcast fits in every queue it is put into.
LEMMA ReachedFits ==
    ASSUME HubTyped, QueuesTyped, NEW w, NEW f \in Broadcasts, Reached(w, f), got' = got
    PROVE  QueuesTyped'
<1>1. sent \in Nat /\ sent' \in Nat /\ sent <= sent' /\ sent + 1 \in 1 .. sent'
  BY DEF Reached, HubTyped
<1>2. connQueue' = [s \in Pages |-> connQueue'[s]]
  BY DEF Reached
<1>3. ASSUME NEW s \in Pages
      PROVE  \/ connQueue'[s] = connQueue[s]
             \/ ~Full(s) /\ \E x \in PageFrames(s)' : connQueue'[s] = Append(connQueue[s], x)
  <2>1. CASE s \in Registered \ Dead
    <3>1. ~Full(s)
      BY <2>1 DEF Dead
    <3>2. connQueue'[s] = Append(connQueue[s], <<f, sent + 1>>)
      BY <2>1 DEF Reached
    <3>3. <<f, sent + 1>> \in PageFrames(s)'
      BY <1>1 DEF PageFrames
    <3> QED
      BY <3>1, <3>2, <3>3
  <2>2. CASE s \notin Registered \ Dead
    BY <2>2 DEF Reached
  <2> QED
    BY <2>1, <2>2
<1> QED
  BY <1>1, <1>2, <1>3, QueuesGrow

\* Frames of a queue with one more at its end.
LEMMA Appended ==
    ASSUME NEW U, NEW q \in Seq(U), NEW f \in U
    PROVE  /\ Len(q) \in Nat /\ Len(Append(q, f)) = Len(q) + 1
           /\ Append(q, f)[Len(q) + 1] = f
           /\ \A i \in 1 .. Len(q) : Append(q, f)[i] = q[i]
           /\ \A i \in 1 .. Len(q) : BroadcastAt(Append(q, f), i) <=> BroadcastAt(q, i)
           /\ BroadcastAt(Append(q, f), Len(q) + 1) <=> f[1] \in Broadcasts
<1>1. /\ Len(q) \in Nat /\ Len(Append(q, f)) = Len(q) + 1
      /\ Append(q, f)[Len(q) + 1] = f
      /\ \A i \in 1 .. Len(q) : Append(q, f)[i] = q[i]
  OBVIOUS
<1> QED
  BY <1>1 DEF BroadcastAt

\* Frames of a queue whose first one is gone.
LEMMA Shortened ==
    ASSUME NEW U, NEW q \in Seq(U), q # <<>>
    PROVE  /\ Len(q) \in Nat \ {0} /\ Len(Tail(q)) = Len(q) - 1 /\ Head(q) = q[1]
           /\ \A i \in 1 .. Len(q) - 1 : Tail(q)[i] = q[i + 1]
           /\ \A i \in 1 .. Len(q) - 1 : BroadcastAt(Tail(q), i) <=> BroadcastAt(q, i + 1)
           /\ BroadcastAt(q, 1) <=> Head(q)[1] \in Broadcasts
<1>1. /\ Len(q) \in Nat \ {0} /\ Len(Tail(q)) = Len(q) - 1 /\ Head(q) = q[1]
      /\ \A i \in 1 .. Len(q) - 1 : Tail(q)[i] = q[i + 1]
  OBVIOUS
<1> QED
  BY <1>1 DEF BroadcastAt

\* The two ways of being told last.
LEMMA ToldIs ==
    ASSUME NEW q, NEW g, NEW x
    PROVE  x \in Told(q, g) <=>
             \/ x = g /\ \A i \in 1 .. Len(q) : ~BroadcastAt(q, i)
             \/ \E i \in 1 .. Len(q) : x = q[i] /\ BroadcastAt(q, i)
                                       /\ \A j \in i + 1 .. Len(q) : ~BroadcastAt(q, j)
BY DEF Told

\* A new broadcast is what a page is told last.
LEMMA ToldTheNew ==
    ASSUME NEW U, NEW q \in Seq(U), NEW f \in U, f[1] \in Broadcasts, NEW g,
           NEW x \in Told(Append(q, f), g)
    PROVE  x = f
<1>1. Len(q) + 1 \in 1 .. Len(Append(q, f)) /\ BroadcastAt(Append(q, f), Len(q) + 1)
  BY Appended
<1>2. PICK i \in 1 .. Len(Append(q, f)) :
          x = Append(q, f)[i] /\ \A j \in i + 1 .. Len(Append(q, f)) : ~BroadcastAt(Append(q, f), j)
  BY <1>1, ToldIs
<1>3. i = Len(q) + 1
  BY <1>1, <1>2, Appended
<1> QED
  BY <1>2, <1>3, Appended

\* Any other frame tells nothing.
LEMMA ToldNoMore ==
    ASSUME NEW U, NEW q \in Seq(U), NEW f \in U, f[1] \notin Broadcasts, NEW g,
           NEW x \in Told(Append(q, f), g)
    PROVE  x \in Told(q, g)
<1>0. \/ x = g /\ \A i \in 1 .. Len(Append(q, f)) : ~BroadcastAt(Append(q, f), i)
      \/ \E i \in 1 .. Len(Append(q, f)) : x = Append(q, f)[i] /\ BroadcastAt(Append(q, f), i)
                                /\ \A j \in i + 1 .. Len(Append(q, f)) : ~BroadcastAt(Append(q, f), j)
  BY DEF Told
<1>1. CASE x = g /\ \A i \in 1 .. Len(Append(q, f)) : ~BroadcastAt(Append(q, f), i)
  <2>1. \A i \in 1 .. Len(q) : ~BroadcastAt(q, i)
    BY <1>1, Appended
  <2> QED
    BY <1>1, <2>1, ToldIs
<1>2. ASSUME NEW i \in 1 .. Len(Append(q, f)),
             x = Append(q, f)[i], BroadcastAt(Append(q, f), i),
             \A j \in i + 1 .. Len(Append(q, f)) : ~BroadcastAt(Append(q, f), j)
      PROVE  x \in Told(q, g)
  <2>1. i \in 1 .. Len(q)
    BY <1>2, Appended
  <2>2. x = q[i] /\ BroadcastAt(q, i)
    BY <1>2, <2>1, Appended
  <2>3. \A j \in i + 1 .. Len(q) : ~BroadcastAt(q, j)
    BY <1>2, <2>1, Appended
  <2> QED
    BY <2>1, <2>2, <2>3, ToldIs
<1> QED
  BY <1>0, <1>1, <1>2

\* Nor does the delivery of the first frame change what a page is told last.
LEMMA ToldTheSame ==
    ASSUME NEW U, NEW q \in Seq(U), q # <<>>, NEW g, NEW h,
           h = IF Head(q)[1] \in Broadcasts THEN Head(q) ELSE g,
           NEW x \in Told(Tail(q), h)
    PROVE  x \in Told(q, g)
<1>0. \/ x = h /\ \A i \in 1 .. Len(Tail(q)) : ~BroadcastAt(Tail(q), i)
      \/ \E i \in 1 .. Len(Tail(q)) : x = Tail(q)[i] /\ BroadcastAt(Tail(q), i)
                                /\ \A j \in i + 1 .. Len(Tail(q)) : ~BroadcastAt(Tail(q), j)
  BY DEF Told
<1>1. CASE x = h /\ \A i \in 1 .. Len(Tail(q)) : ~BroadcastAt(Tail(q), i)
  <2>1. \A i \in 2 .. Len(q) : ~BroadcastAt(q, i)
    <3>1. ASSUME NEW i \in 2 .. Len(q) PROVE ~BroadcastAt(q, i)
      <4>1. i - 1 \in 1 .. Len(q) - 1 /\ i - 1 \in 1 .. Len(Tail(q)) /\ (i - 1) + 1 = i
        BY Shortened
      <4>2. BroadcastAt(Tail(q), i - 1) <=> BroadcastAt(q, (i - 1) + 1)
        BY <4>1, Shortened
      <4> QED
        BY <1>1, <4>1, <4>2
    <3> QED
      BY <3>1
  <2>2. CASE BroadcastAt(q, 1)
    <3>1. h = q[1] /\ 1 \in 1 .. Len(q) /\ \A j \in 1 + 1 .. Len(q) : ~BroadcastAt(q, j)
      BY <2>1, <2>2, Shortened
    <3> QED
      BY <1>1, <2>2, <3>1, ToldIs
  <2>3. CASE ~BroadcastAt(q, 1)
    <3>1. h = g /\ \A j \in 1 .. Len(q) : ~BroadcastAt(q, j)
      BY <2>1, <2>3, Shortened
    <3> QED
      BY <1>1, <3>1, ToldIs
  <2> QED
    BY <2>2, <2>3
<1>2. ASSUME NEW i \in 1 .. Len(Tail(q)), x = Tail(q)[i], BroadcastAt(Tail(q), i),
             \A j \in i + 1 .. Len(Tail(q)) : ~BroadcastAt(Tail(q), j)
      PROVE  x \in Told(q, g)
  <2>1. i \in 1 .. Len(q) - 1 /\ i + 1 \in 1 .. Len(q)
    BY Shortened
  <2>2. x = q[i + 1] /\ BroadcastAt(q, i + 1)
    BY <1>2, <2>1, Shortened
  <2>3. ASSUME NEW j \in (i + 1) + 1 .. Len(q) PROVE ~BroadcastAt(q, j)
    <3>1. j - 1 \in i + 1 .. Len(Tail(q)) /\ j - 1 \in 1 .. Len(q) - 1 /\ (j - 1) + 1 = j
      BY Shortened
    <3>2. BroadcastAt(Tail(q), j - 1) <=> BroadcastAt(q, (j - 1) + 1)
      BY <3>1, Shortened
    <3> QED
      BY <1>2, <3>1, <3>2
  <2> QED
    BY <2>1, <2>2, <2>3, ToldIs
<1> QED
  BY <1>0, <1>1, <1>2

\* Somebody who has got a frame has been told something.
LEMMA Lasts ==
    ASSUME NEW U, NEW q \in Seq(U), NEW g
    PROVE  \/ \A i \in 1 .. Len(q) : ~BroadcastAt(q, i)
           \/ \E i \in 1 .. Len(q) : BroadcastAt(q, i) /\ \A j \in i + 1 .. Len(q) : ~BroadcastAt(q, j)
<1> DEFINE P == {n \in 0 .. Len(q) : n = 0 \/ \E i \in n .. Len(q) : BroadcastAt(q, i)}
<1>1. SUFFICES ASSUME NEW k \in 1 .. Len(q), BroadcastAt(q, k),
                      \A i \in 1 .. Len(q) : BroadcastAt(q, i) =>
                          \E j \in i + 1 .. Len(q) : BroadcastAt(q, j)
               PROVE  FALSE
  OBVIOUS
<1>2. Len(q) \in Nat
  OBVIOUS
<1>3. 0 \in P
  BY <1>2
<1>4. ASSUME NEW n \in 1 .. Len(q), n - 1 \in P PROVE n \in P
  <2>1. CASE n = 1
    BY <1>1, <1>2, <2>1
  <2>2. CASE n # 1
    <3>1. PICK i \in n - 1 .. Len(q) : BroadcastAt(q, i)
      BY <1>2, <1>4, <2>2
    <3>2. i \in 1 .. Len(q)
      BY <1>2, <2>2
    <3>3. PICK j \in i + 1 .. Len(q) : BroadcastAt(q, j)
      BY <1>1, <3>1, <3>2
    <3>4. j \in n .. Len(q)
      BY <1>2, <3>2
    <3> QED
      BY <3>3, <3>4
  <2> QED
    BY <2>1, <2>2
<1>5. \A n \in 0 .. Len(q) : n \in P
  <2> HIDE DEF P
  <2> QED
    BY <1>2, <1>3, <1>4, CountUp
<1>6. Len(q) \in P /\ Len(q) \in 1 .. Len(q)
  BY <1>2, <1>5
<1>7. BroadcastAt(q, Len(q))
  BY <1>2, <1>6
<1> QED
  BY <1>1, <1>2, <1>6, <1>7

\* What is queued stays linked when more of what is missing is excused.
LEMMA LinkedStill ==
    ASSUME NEW q, NEW g, NEW a \in BOOLEAN, NEW b \in BOOLEAN, a => b, Linked(q, g, a)
    PROVE  Linked(q, g, b)
BY DEF Linked, Succeeds

\* A broadcast that may follow what was told last.
LEMMA LinkedNew ==
    ASSUME NEW U, NEW q \in Seq(U), NEW f \in U, f[1] \in Broadcasts, NEW g, NEW b \in BOOLEAN,
           Linked(q, g, b), \A x \in Told(q, g) : x # Offline => Succeeds(x, f, b),
           \A i \in 1 .. Len(q) : BroadcastAt(q, i) => q[i] # Offline
    PROVE  Linked(Append(q, f), g, b)
<1> DEFINE r == Append(q, f)
<1>0. /\ Len(q) \in Nat /\ Len(r) = Len(q) + 1 /\ r[Len(q) + 1] = f
      /\ \A i \in 1 .. Len(q) : r[i] = q[i] /\ (BroadcastAt(r, i) <=> BroadcastAt(q, i))
  BY Appended
<1> HIDE DEF r
<1>1. ASSUME NEW i \in 1 .. Len(r), NEW j \in 1 .. Len(r), i < j, BroadcastAt(r, i), BroadcastAt(r, j),
             \A k \in i + 1 .. j - 1 : ~BroadcastAt(r, k)
      PROVE  Succeeds(r[i], r[j], b)
  <2>1. i \in 1 .. Len(q) /\ r[i] = q[i] /\ BroadcastAt(q, i)
    BY <1>0, <1>1
  <2>2. CASE j \in 1 .. Len(q)
    <3>1. \A k \in i + 1 .. j - 1 : ~BroadcastAt(q, k)
      BY <1>0, <1>1, <2>2
    <3>2. r[j] = q[j] /\ BroadcastAt(q, j)
      BY <1>0, <1>1, <2>2
    <3> QED
      BY <1>1, <2>1, <2>2, <3>1, <3>2 DEF Linked
  <2>3. CASE j = Len(q) + 1
    <3>1. \A k \in i + 1 .. Len(q) : ~BroadcastAt(q, k)
      BY <1>0, <1>1, <2>3
    <3>2. q[i] \in Told(q, g)
      BY <2>1, <3>1, ToldIs
    <3> QED
      BY <1>0, <2>1, <2>3, <3>2
  <2> QED
    BY <1>0, <2>2, <2>3
<1>2. ASSUME g # Offline, NEW j \in 1 .. Len(r), BroadcastAt(r, j),
             \A k \in 1 .. j - 1 : ~BroadcastAt(r, k)
      PROVE  Succeeds(g, r[j], b)
  <2>1. CASE j \in 1 .. Len(q)
    <3>1. \A k \in 1 .. j - 1 : ~BroadcastAt(q, k)
      BY <1>0, <1>2, <2>1
    <3> QED
      BY <1>0, <1>2, <2>1, <3>1 DEF Linked
  <2>2. CASE j = Len(q) + 1
    <3>1. \A k \in 1 .. Len(q) : ~BroadcastAt(q, k)
      BY <1>0, <1>2, <2>2
    <3>2. g \in Told(q, g)
      BY <3>1, ToldIs
    <3> QED
      BY <1>0, <1>2, <2>2, <3>2
  <2> QED
    BY <1>0, <2>1, <2>2
<1> QED
  BY <1>1, <1>2 DEF Linked, r

\* A frame that is no broadcast is no link.
LEMMA LinkedOther ==
    ASSUME NEW U, NEW q \in Seq(U), NEW f \in U, f[1] \notin Broadcasts, NEW g, NEW b \in BOOLEAN,
           Linked(q, g, b)
    PROVE  Linked(Append(q, f), g, b)
<1> DEFINE r == Append(q, f)
<1>0. /\ Len(q) \in Nat /\ Len(r) = Len(q) + 1 /\ ~BroadcastAt(r, Len(q) + 1)
      /\ \A i \in 1 .. Len(q) : r[i] = q[i] /\ (BroadcastAt(r, i) <=> BroadcastAt(q, i))
  BY Appended
<1> HIDE DEF r
<1>1. \A i \in 1 .. Len(r) : BroadcastAt(r, i) => i \in 1 .. Len(q) /\ BroadcastAt(q, i) /\ r[i] = q[i]
  BY <1>0
<1>2. \A i \in 1 .. Len(q) : ~BroadcastAt(r, i) => ~BroadcastAt(q, i)
  BY <1>0
<1>3. ASSUME NEW i \in 1 .. Len(r), NEW j \in 1 .. Len(r), i < j, BroadcastAt(r, i), BroadcastAt(r, j),
             \A k \in i + 1 .. j - 1 : ~BroadcastAt(r, k)
      PROVE  Succeeds(r[i], r[j], b)
  <2>1. \A k \in i + 1 .. j - 1 : ~BroadcastAt(q, k)
    BY <1>0, <1>1, <1>2, <1>3
  <2> QED
    BY <1>1, <1>3, <2>1 DEF Linked
<1>4. ASSUME g # Offline, NEW j \in 1 .. Len(r), BroadcastAt(r, j),
             \A k \in 1 .. j - 1 : ~BroadcastAt(r, k)
      PROVE  Succeeds(g, r[j], b)
  <2>1. \A k \in 1 .. j - 1 : ~BroadcastAt(q, k)
    BY <1>0, <1>1, <1>2, <1>4
  <2> QED
    BY <1>1, <1>4, <2>1 DEF Linked
<1> QED
  BY <1>3, <1>4 DEF Linked, r

\* The first frame is delivered.
LEMMA LinkedTail ==
    ASSUME NEW U, NEW q \in Seq(U), q # <<>>, NEW g, NEW b \in BOOLEAN, Linked(q, g, b), NEW h,
           h = IF Head(q)[1] \in Broadcasts THEN Head(q) ELSE g
    PROVE  /\ Linked(Tail(q), h, b)
           /\ h = g \/ g = Offline \/ Succeeds(g, h, b)
<1> DEFINE r == Tail(q)
<1>0. /\ Len(q) \in Nat \ {0} /\ Len(r) = Len(q) - 1
      /\ \A i \in 1 .. Len(q) - 1 : r[i] = q[i + 1] /\ (BroadcastAt(r, i) <=> BroadcastAt(q, i + 1))
      /\ h = IF BroadcastAt(q, 1) THEN q[1] ELSE g
  BY Shortened
<1> HIDE DEF r
<1>1. ASSUME NEW i \in 1 .. Len(r), NEW j \in 1 .. Len(r), i < j, BroadcastAt(r, i), BroadcastAt(r, j),
             \A k \in i + 1 .. j - 1 : ~BroadcastAt(r, k)
      PROVE  Succeeds(r[i], r[j], b)
  <2>1. ASSUME NEW k \in (i + 1) + 1 .. (j + 1) - 1 PROVE ~BroadcastAt(q, k)
    <3>1. k - 1 \in i + 1 .. j - 1 /\ k - 1 \in 1 .. Len(q) - 1 /\ (k - 1) + 1 = k
      BY <1>0
    <3> QED
      BY <1>0, <1>1, <3>1
  <2>2. /\ i + 1 \in 1 .. Len(q) /\ j + 1 \in 1 .. Len(q) /\ i + 1 < j + 1
        /\ BroadcastAt(q, i + 1) /\ BroadcastAt(q, j + 1) /\ r[i] = q[i + 1] /\ r[j] = q[j + 1]
    BY <1>0, <1>1
  <2> QED
    BY <2>1, <2>2 DEF Linked
<1>2. ASSUME h # Offline, NEW j \in 1 .. Len(r), BroadcastAt(r, j),
             \A k \in 1 .. j - 1 : ~BroadcastAt(r, k)
      PROVE  Succeeds(h, r[j], b)
  <2>1. ASSUME NEW k \in 2 .. (j + 1) - 1 PROVE ~BroadcastAt(q, k)
    <3>1. k - 1 \in 1 .. j - 1 /\ k - 1 \in 1 .. Len(q) - 1 /\ (k - 1) + 1 = k
      BY <1>0
    <3> QED
      BY <1>0, <1>2, <3>1
  <2>2. j + 1 \in 1 .. Len(q) /\ 1 \in 1 .. Len(q) /\ 1 < j + 1 /\ BroadcastAt(q, j + 1) /\ r[j] = q[j + 1]
    BY <1>0, <1>2
  <2>3. CASE BroadcastAt(q, 1)
    <3>1. \A k \in 1 + 1 .. (j + 1) - 1 : ~BroadcastAt(q, k)
      BY <2>1
    <3> QED
      BY <1>0, <2>2, <2>3, <3>1 DEF Linked
  <2>4. CASE ~BroadcastAt(q, 1)
    <3>1. \A k \in 1 .. (j + 1) - 1 : ~BroadcastAt(q, k)
      BY <2>1, <2>4
    <3> QED
      BY <1>0, <1>2, <2>2, <2>4, <3>1 DEF Linked
  <2> QED
    BY <2>3, <2>4
<1>3. h = g \/ g = Offline \/ Succeeds(g, h, b)
  <2>1. CASE BroadcastAt(q, 1) /\ g # Offline
    <3>1. 1 \in 1 .. Len(q) /\ \A k \in 1 .. 1 - 1 : ~BroadcastAt(q, k)
      BY <1>0
    <3> QED
      BY <1>0, <2>1, <3>1 DEF Linked
  <2> QED
    BY <1>0, <2>1
<1> QED
  BY <1>1, <1>2, <1>3 DEF Linked, r

\* Nothing is queued, or told, that is not a frame for the page.
LEMMA ToldTyped ==
    ASSUME QueuesTyped, NEW x \in Pages, NEW y \in Told(connQueue[x], got[x]), y # Offline
    PROVE  y \in Broadcasts \X (1 .. sent)
<1>1. connQueue[x] \in Seq(PageFrames(x)) /\ got[x] \in Broadcasts \X (1 .. sent) \cup {Offline}
  BY DEF QueuesTyped
<1>2. CASE y = got[x]
  BY <1>1, <1>2
<1>3. ASSUME NEW i \in 1 .. Len(connQueue[x]), y = connQueue[x][i], BroadcastAt(connQueue[x], i)
      PROVE  y \in Broadcasts \X (1 .. sent)
  <2>1. y \in PageFrames(x) /\ y[1] \in Broadcasts
    BY <1>1, <1>3 DEF BroadcastAt
  <2> QED
    BY <2>1 DEF PageFrames, Broadcasts, Offline, Answer
<1> QED
  BY <1>2, <1>3, ToldIs

\* Closing deafens.
LEMMA ClosingDeafens ==
    ASSUME OnlyCloses, HubTyped, clientId' = clientId, \A p \in Pages : here'[p] => here[p],
           NEW x \in Pages, Hears(x)'
    PROVE  Hears(x)
<1>1. Owns(x)' => Owns(x)
  BY HubAssumption DEF OnlyCloses, Owns, HubTyped
<1> QED
  BY <1>1 DEF Hears, OnlyCloses

\* A page that hears goes on as before, or has heard nothing yet.
GoesOn(x) ==
    \/ connQueue'[x] = <<>> /\ got'[x] = Offline
    \/ /\ Hears(x)
       /\ \A w \in Wrappers : x \in toDrop[w] => x \in toDrop'[w]
       /\ Told(connQueue'[x], got'[x]) \subseteq Told(connQueue[x], got[x])
       /\ \A b \in BOOLEAN : Linked(connQueue[x], got[x], b) => Linked(connQueue'[x], got'[x], b)

\* A page whose frames are left alone goes on.
LEMMA SameGoesOn ==
    ASSUME NEW x \in Pages, Hears(x), connQueue'[x] = connQueue[x], got'[x] = got[x],
           \A w \in Wrappers : x \in toDrop[w] => x \in toDrop'[w]
    PROVE  GoesOn(x)
BY DEF GoesOn

\* While no broadcast is sent and no wrapper comes or goes, what pages were told stays true.
LEMMA HearingKept ==
    ASSUME PagesTold, PagesLinked, sent' = sent,
           \A w \in Wrappers : (Live(w)' <=> Live(w))
                               /\ (wrapperTask[w] = "gone" => wrapperTask'[w] = "gone"),
           \A x \in Pages : Hears(x)' => GoesOn(x)
    PROVE  PagesTold' /\ PagesLinked'
<1>1. ASSUME NEW x \in Pages, Hears(x)', NEW y \in Told(connQueue'[x], got'[x]), y # Offline
      PROVE  /\ (\A w \in Wrappers : x \notin toDrop'[w]) =>
                 /\ y[2] = sent'
                 /\ y[1] \in {"up", "live"} => \E w \in Wrappers : Live(w)'
                 /\ y[1] = "down" => \A w \in Wrappers : ~Live(w)'
             /\ \A w \in Wrappers : Live(w)' /\ x \notin toDrop'[w] => y[2] = sent'
  <2>1. CASE connQueue'[x] = <<>> /\ got'[x] = Offline
    <3>1. y = Offline
      BY <2>1, <1>1 DEF Told
    <3> QED
      BY <1>1, <3>1
  <2>2. CASE /\ Hears(x) /\ \A w \in Wrappers : x \in toDrop[w] => x \in toDrop'[w]
             /\ y \in Told(connQueue[x], got[x])
    BY <1>1, <2>2 DEF PagesTold
  <2> QED
    BY <1>1, <2>1, <2>2 DEF GoesOn
<1>2. ASSUME NEW x \in Pages, Hears(x)'
      PROVE  Linked(connQueue'[x], got'[x], DropPending(x)')
  <2>1. CASE connQueue'[x] = <<>> /\ got'[x] = Offline
    BY <2>1 DEF Linked
  <2>2. CASE /\ Hears(x) /\ \A w \in Wrappers : x \in toDrop[w] => x \in toDrop'[w]
             /\ \A b \in BOOLEAN : Linked(connQueue[x], got[x], b) => Linked(connQueue'[x], got'[x], b)
    <3>1. DropPending(x) \in BOOLEAN /\ DropPending(x)' \in BOOLEAN
          /\ (DropPending(x) => DropPending(x)')
      BY <2>2 DEF DropPending
    <3>2. Linked(connQueue'[x], got'[x], DropPending(x))
      BY <2>2, <3>1 DEF PagesLinked
    <3> QED
      BY <3>1, <3>2, LinkedStill
  <2> QED
    BY <1>2, <2>1, <2>2 DEF GoesOn
<1>3. PagesTold'
  BY <1>1 DEF PagesTold
<1>4. PagesLinked'
  BY <1>2 DEF PagesLinked
<1> QED
  BY <1>3, <1>4

\* A frame for one page alone tells nothing of the wrapper.
LEMMA PrivateGoesOn ==
    ASSUME QueuesTyped, NEW x \in Pages, NEW f \in {Offline, Answer(x)}, Hears(x), got'[x] = got[x],
           connQueue'[x] = Append(connQueue[x], f),
           \A w \in Wrappers : x \in toDrop[w] => x \in toDrop'[w]
    PROVE  GoesOn(x)
<1>1. connQueue[x] \in Seq(PageFrames(x)) /\ f \in PageFrames(x) /\ f[1] \notin Broadcasts
  BY DEF QueuesTyped, PageFrames, Offline, Answer, Broadcasts
<1>2. Told(connQueue'[x], got'[x]) \subseteq Told(connQueue[x], got[x])
  BY <1>1, ToldNoMore
<1>3. \A b \in BOOLEAN : Linked(connQueue[x], got[x], b) => Linked(connQueue'[x], got'[x], b)
  BY <1>1, LinkedOther
<1> QED
  BY <1>2, <1>3 DEF GoesOn

\* A broadcast of the wrapper that is being served, or of the one that is checked.
LEMMA HearingReached ==
    ASSUME HubTyped, QueuesTyped, PagesKept, WrappersKept, PagesTold, PagesLinked, OnlyCloses,
           UNCHANGED <<clientId, here, got>>,
           NEW w \in Wrappers, NEW f \in Broadcasts, NEW t \in {"live", "gone"}, Reached(w, f),
           wrapperTask[w] \in {"checking", "live"}, toDrop[w] = {},
           wrapperTask' = [wrapperTask EXCEPT ![w] = t],
           f = "live" => Live(w), t = "live" <=> f \in {"up", "live"}
    PROVE  PagesTold' /\ PagesLinked'
<1>1. \A v \in Wrappers : v # w => ~Live(v) /\ wrapperTask[v] # "checking"
  BY DEF WrappersKept, Live
<1>2. \A v \in Wrappers : Live(v)' <=> (v = w /\ t = "live")
  BY <1>1 DEF Live, HubTyped
<1>3. \A v \in Wrappers : wrapperTask[v] = "gone" => v # w /\ wrapperTask'[v] = "gone"
                                                      /\ toDrop'[v] = toDrop[v]
  BY DEF HubTyped, Reached
<1>4. \A x \in Pages : Hears(x)' => Hears(x) /\ x \in Registered
  <2>1. \A x \in Pages : Owns(x) => x \in Registered
    BY HubAssumption DEF Owns, Registered, HubTyped
  <2> QED
    BY <2>1, ClosingDeafens DEF Hears
<1>5. \A x \in Pages : x \in Dead /\ Hears(x)' => x \in toDrop'[w]
  BY DEF Reached, Hears
<1>6. /\ sent \in Nat /\ sent' = sent + 1
      /\ \A x \in Pages : x \in Registered /\ x \notin Dead =>
            connQueue'[x] = Append(connQueue[x], <<f, sent + 1>>)
      /\ \A x \in Pages : x \in Dead => connQueue'[x] = connQueue[x]
  BY DEF Reached, HubTyped
<1>7. \A x \in Pages : connQueue[x] \in Seq(PageFrames(x) \cup {<<f, sent + 1>>})
  BY DEF QueuesTyped
<1>8. ASSUME NEW x \in Pages, Hears(x)', NEW y \in Told(connQueue'[x], got'[x]), y # Offline
      PROVE  /\ (\A v \in Wrappers : x \notin toDrop'[v]) =>
                 /\ y[2] = sent'
                 /\ y[1] \in {"up", "live"} => \E v \in Wrappers : Live(v)'
                 /\ y[1] = "down" => \A v \in Wrappers : ~Live(v)'
             /\ \A v \in Wrappers : Live(v)' /\ x \notin toDrop'[v] => y[2] = sent'
  <2>1. CASE x \in Dead
    BY <1>2, <1>5, <1>8, <2>1
  <2>2. CASE x \notin Dead
    <3>1. y = <<f, sent + 1>>
      <4> DEFINE z == <<f, sent + 1>>
                 U == PageFrames(x) \cup {z}
      <4>1. connQueue[x] \in Seq(U) /\ z \in U /\ z[1] \in Broadcasts
        BY <1>7
      <4>2. y \in Told(Append(connQueue[x], z), got[x])
        BY <1>4, <1>6, <1>8, <2>2
      <4> HIDE DEF z, U
      <4>3. y = z
        BY <4>1, <4>2, ToldTheNew
      <4> QED
        BY <4>3 DEF z
    <3>2. y[2] = sent' /\ y[1] = f
      BY <1>6, <3>1
    <3> QED
      BY <1>2, <3>2 DEF Broadcasts
  <2> QED
    BY <2>1, <2>2
<1>9. ASSUME NEW x \in Pages, Hears(x)'
      PROVE  Linked(connQueue'[x], got'[x], DropPending(x)')
  <2>1. /\ DropPending(x) \in BOOLEAN /\ DropPending(x)' \in BOOLEAN
        /\ (DropPending(x) => DropPending(x)')
    BY <1>3 DEF DropPending
  <2>2. Linked(connQueue[x], got[x], DropPending(x))
    BY <1>4, <1>9 DEF PagesLinked
  <2>3. CASE x \in Dead
    BY <1>6, <2>1, <2>2, <2>3, LinkedStill
  <2>4. CASE x \notin Dead
    <3>1. ASSUME NEW y \in Told(connQueue[x], got[x]), y # Offline
          PROVE  Succeeds(y, <<f, sent + 1>>, DropPending(x))
      <4>1. y \in Broadcasts \X (1 .. sent)
        BY <3>1, ToldTyped
      <4>2. y[2] < sent + 1
        BY <1>6, <4>1
      <4>3. CASE \A v \in Wrappers : x \notin toDrop[v]
        BY <1>4, <1>9, <3>1, <4>3 DEF PagesTold, Succeeds
      <4>4. ASSUME NEW v \in Wrappers, x \in toDrop[v]
            PROVE  Succeeds(y, <<f, sent + 1>>, DropPending(x))
        <5>1. wrapperTask[v] = "gone"
          BY <1>1, <4>4 DEF WrappersKept, HubTyped, Live
        <5>2. DropPending(x)
          BY <4>4, <5>1 DEF DropPending
        <5>3. f = "live" => y[2] = sent
          BY <1>4, <1>9, <3>1 DEF PagesTold
        <5> QED
          BY <4>2, <5>2, <5>3 DEF Succeeds
      <4> QED
        BY <4>3, <4>4
    <3>2. \A i \in 1 .. Len(connQueue[x]) : BroadcastAt(connQueue[x], i) => connQueue[x][i] # Offline
      BY DEF BroadcastAt, Broadcasts, Offline
    <3>3. Linked(Append(connQueue[x], <<f, sent + 1>>), got[x], DropPending(x))
      <4> DEFINE z == <<f, sent + 1>>
                 U == PageFrames(x) \cup {z}
      <4>1. connQueue[x] \in Seq(U) /\ z \in U /\ z[1] \in Broadcasts
        BY <1>7
      <4>2. \A y \in Told(connQueue[x], got[x]) : y # Offline => Succeeds(y, z, DropPending(x))
        BY <3>1
      <4> HIDE DEF z, U
      <4>3. Linked(Append(connQueue[x], z), got[x], DropPending(x))
        BY <2>1, <2>2, <3>2, <4>1, <4>2, LinkedNew
      <4> QED
        BY <4>3 DEF z
    <3>4. connQueue'[x] = Append(connQueue[x], <<f, sent + 1>>)
      BY <1>4, <1>6, <1>9, <2>4
    <3> QED
      BY <2>1, <3>3, <3>4, LinkedStill
  <2> QED
    BY <2>3, <2>4
<1>10. PagesTold'
  BY <1>8 DEF PagesTold
<1>11. PagesLinked'
  BY <1>9 DEF PagesLinked
<1> QED
  BY <1>10, <1>11

\* A step that sends no broadcast and closes connections at most.
LEMMA HearingQuiet ==
    ASSUME HubTyped, PagesTold, PagesLinked, OnlyCloses, UNCHANGED <<clientId, sent>>,
           \A p \in Pages : here'[p] => here[p],
           \A w \in Wrappers : (Live(w)' <=> Live(w))
                               /\ (wrapperTask[w] = "gone" => wrapperTask'[w] = "gone"),
           \A x \in Pages : Hears(x)' =>
               \/ GoesOn(x)
               \/ /\ connQueue'[x] = connQueue[x] /\ got'[x] = got[x]
                  /\ \A w \in Wrappers : x \in toDrop[w] => x \in toDrop'[w]
    PROVE  PagesTold' /\ PagesLinked'
<1>1. ASSUME NEW x \in Pages, Hears(x)'
      PROVE  GoesOn(x)
  <2>1. Hears(x)
    BY <1>1, ClosingDeafens
  <2> QED
    BY <1>1, <2>1, SameGoesOn
<1> QED
  BY <1>1, HearingKept

\* Types of the hub.
LEMMA HubTypedSteps ==
    ASSUME HubTyped, HubLimits, PagesKept, WrappersKept, HubNext
    PROVE  HubTyped'
<1>1. ASSUME NEW s \in Pages, Accept(s)
      PROVE  HubTyped'
  <2>1. UNCHANGED <<clientId, clients, connQueue, connClosed, wrapperTask, wrapperSlot,
                    toDrop, sent, liveSent, enrolled, revoker, got, hellos, uplink, here,
                    sendLock, revoked, newest, swallowed, faults>>
    BY <1>1 DEF Accept, pageVars, wrapperVars, deviceVars, upVars
  <2>2. \/ /\ clientSlots' = clientSlots \cup {s} /\ task' = [task EXCEPT ![s] = "probe"]
           /\ guard' = [guard EXCEPT ![s] = "armed"] /\ UNCHANGED wsOpen
        \/ /\ wsOpen' = [wsOpen EXCEPT ![s] = FALSE] /\ task' = [task EXCEPT ![s] = "gone"]
           /\ UNCHANGED <<clientSlots, guard>>
    BY <1>1 DEF Accept
  <2>3. clientSlots' \subseteq Pages
    BY <2>2 DEF HubTyped
  <2>5. wsOpen' \in [Pages \cup Wrappers -> BOOLEAN]
    BY <2>2 DEF HubTyped
  <2>6. guard' \in [Pages -> {"none", "armed", "fired"}]
    BY <2>2 DEF HubTyped
  <2>4. task' \in [Pages -> {"out", "probe", "replacing", "joining", "greeting", "helloing",
                             "serving", "forwarding", "leaving", "gone"}]
    BY <2>2 DEF HubTyped
  <2> QED
    BY <2>1, <2>3, <2>4, <2>5, <2>6 DEF HubTyped
<1>2. ASSUME NEW s \in Pages, Register(s)
      PROVE  HubTyped'
  <2>1. UNCHANGED <<clientSlots, connQueue, guard, wrapperTask, wrapperSlot, toDrop, sent,
                    liveSent, enrolled, revoker, got, hellos, uplink, here, sendLock,
                    revoked, swallowed, faults>>
    BY <1>2 DEF Register, pageVars, wrapperVars, deviceVars, upVars
  <2>2. PICK c \in Clients, n \in Elsewhere : HelloEnds(s, c, n)
    BY <1>2, RegisterOutcomes
  <2> USE DEF HelloEnds
  <2>3. clientId' \in [Pages -> Clients \cup {NoSock}]
    BY <2>2 DEF HubTyped
  <2>4. task' \in [Pages -> {"out", "probe", "replacing", "joining", "greeting", "helloing",
                             "serving", "forwarding", "leaving", "gone"}]
    BY <2>2 DEF HubTyped
  <2>5. connClosed' \in [Pages -> BOOLEAN] /\ wsOpen' \in [Pages \cup Wrappers -> BOOLEAN]
    BY <2>2 DEF Closed, HubTyped
  <2>6. /\ clients' \in [Clients -> Pages \cup {NoSock}]
        /\ newest' \in [Clients -> Pages \cup {NoSock}]
    BY <2>2 DEF HubTyped
  <2> QED
    BY <2>1, <2>3, <2>4, <2>5, <2>6 DEF HubTyped
<1>3. ASSUME NEW s \in Pages, StopPredecessor(s)
      PROVE  HubTyped'
  BY <1>3, HubAssumption DEF StopPredecessor, HubTyped, pageVars, wrapperVars, deviceVars,
     upVars
<1>4. ASSUME NEW s \in Pages, BeginForward(s)
      PROVE  HubTyped'
  <2>1. UNCHANGED <<clientSlots, guard, clientId, wrapperTask, wrapperSlot, toDrop, sent,
                    liveSent, enrolled, revoker, got, hellos, uplink, wsOpen, here, revoked,
                    newest, swallowed, faults>>
    BY <1>4 DEF BeginForward, pageVars, wrapperVars, deviceVars, upVars
  <2>2. OnlyCloses /\ task' \in [Pages -> {"out", "probe", "replacing", "joining", "greeting", "helloing",
                             "serving", "forwarding", "leaving", "gone"}]
    BY <1>4, <2>1, BeginForwardOutcomes DEF HubTyped
  <2>3. sendLock' \in [by : Pages \cup {NoSock}, to : Wrappers \cup {NoSock}]
    BY <1>4, <2>1, BeginForwardOutcomes DEF NoSend, HubTyped
  <2> QED
    BY <2>1, <2>2, <2>3 DEF OnlyCloses, HubTyped
<1>5. ASSUME NEW s \in Pages, EndForward(s)
      PROVE  HubTyped'
  <2>1. UNCHANGED <<clientSlots, guard, clientId, wrapperTask, wrapperSlot, toDrop, sent,
                    liveSent, enrolled, revoker, got, wsOpen, here, revoked, newest,
                    swallowed, faults>>
    BY <1>5 DEF EndForward, pageVars, wrapperVars, deviceVars, upVars
  <2>2. OnlyCloses /\ task' \in [Pages -> {"out", "probe", "replacing", "joining", "greeting", "helloing",
                             "serving", "forwarding", "leaving", "gone"}]
    BY <1>5, <2>1, EndForwardOutcomes DEF HubTyped
  <2>3. /\ sendLock' \in [by : Pages \cup {NoSock}, to : Wrappers \cup {NoSock}]
        /\ hellos' \subseteq Pages /\ uplink' \in Nat \X (Pages \cup {NoSock})
    BY <1>5, <2>1, EndForwardOutcomes DEF NoSend, HubTyped
  <2> QED
    BY <2>1, <2>2, <2>3 DEF OnlyCloses, HubTyped
<1>6. ASSUME NEW s \in Pages, Leave(s)
      PROVE  HubTyped'
  <2>1. UNCHANGED <<clientSlots, connQueue, guard, clientId, wrapperTask, wrapperSlot,
                    toDrop, sent, liveSent, enrolled, revoker, got, hellos, uplink, here,
                    sendLock, revoked, newest, swallowed, faults>>
    BY <1>6 DEF Leave, pageVars, wrapperVars, deviceVars, upVars
  <2>2. OnlyCloses /\ task' \in [Pages -> {"out", "probe", "replacing", "joining", "greeting", "helloing",
                             "serving", "forwarding", "leaving", "gone"}]
    BY <1>6, <2>1, LeaveCloses DEF HubTyped
  <2> QED
    BY <2>1, <2>2 DEF OnlyCloses, HubTyped
<1>7. ASSUME NEW s \in Pages, Left(s)
      PROVE  HubTyped'
  BY <1>7, HubAssumption DEF Left, HubTyped, pageVars, wrapperVars, deviceVars, upVars
<1>8. ASSUME NEW s \in Pages, SenderStep(s)
      PROVE  HubTyped'
  <2>1. UNCHANGED <<task, clients, clientSlots, guard, clientId, wrapperTask, wrapperSlot,
                    toDrop, sent, liveSent, enrolled, revoker, hellos, uplink, here,
                    sendLock, revoked, newest, swallowed, faults>>
    BY <1>8 DEF SenderStep, pageVars, wrapperVars, deviceVars, upVars
  <2>2. OnlyCloses /\ task' \in [Pages -> {"out", "probe", "replacing", "joining", "greeting", "helloing",
                             "serving", "forwarding", "leaving", "gone"}]
    BY <1>8, <2>1, SenderOutcomes DEF HubTyped
  <2> QED
    BY <2>1, <2>2 DEF OnlyCloses, HubTyped
<1>9. ASSUME NEW s \in Pages, PageGoes(s)
      PROVE  HubTyped'
  <2>1. faults' \in 0 .. MaxFaults
    BY <1>9, HubAssumption DEF PageGoes, Fault, HubTyped
  <2>2. wsOpen' \in [Pages \cup Wrappers -> BOOLEAN]
    BY <1>9 DEF PageGoes, HubTyped
  <2> QED
    BY <1>9, <2>1, <2>2 DEF PageGoes, HubTyped, pageVars, wrapperVars, deviceVars, upVars
<1>10. ASSUME NEW s \in Pages, GuardFires(s)
      PROVE  HubTyped'
  <2>1. UNCHANGED <<clientSlots, connQueue, clientId, wrapperTask, wrapperSlot, toDrop,
                    sent, liveSent, enrolled, revoker, got, hellos, uplink, wsOpen, here,
                    revoked, newest, faults>>
    BY <1>10 DEF GuardFires, pageVars, wrapperVars, deviceVars, upVars
  <2>2. OnlyCloses /\ task' \in [Pages -> {"out", "probe", "replacing", "joining", "greeting", "helloing",
                             "serving", "forwarding", "leaving", "gone"}]
    BY <1>10, <2>1, GuardOutcomes DEF HubTyped
  <2>3. /\ guard' \in [Pages -> {"none", "armed", "fired"}] /\ swallowed' \subseteq Pages
        /\ sendLock' \in [by : Pages \cup {NoSock}, to : Wrappers \cup {NoSock}]
    BY <1>10, <2>1, GuardOutcomes, HubAssumption DEF NoSend, HubTyped
  <2> QED
    BY <2>1, <2>2, <2>3 DEF OnlyCloses, HubTyped
<1>11. ASSUME NEW w \in Wrappers, WrapperConnects(w)
      PROVE  HubTyped'
  BY <1>11, HubAssumption DEF WrapperConnects, HubTyped, pageVars, wrapperVars,
     deviceVars, upVars
<1>12. ASSUME NEW w \in Wrappers, WrapperHello(w)
      PROVE  HubTyped'
  <2>1. /\ wrapperTask' \in [Wrappers -> {"out", "hello", "checking", "live", "gone"}]
        /\ wrapperSlot' \in Wrappers \cup {NoSock} /\ wsOpen' \in [Pages \cup Wrappers -> BOOLEAN]
    BY <1>12 DEF WrapperHello, HubTyped
  <2> QED
    BY <1>12, <2>1 DEF WrapperHello, HubTyped, pageVars, wrapperVars, deviceVars, upVars
<1>13. ASSUME NEW w \in Wrappers, Authorize(w)
      PROVE  HubTyped'
  <2>1. UNCHANGED <<task, clientId, clientSlots, guard, enrolled, revoker, got, uplink,
                    here, sendLock, revoked, newest, swallowed, faults, hellos, liveSent>>
    BY <1>13 DEF Authorize, pageVars, wrapperVars, deviceVars, upVars
  <2>2. OnlyCloses /\ toDrop' \in [Wrappers -> SUBSET Pages]
    BY <1>13, <2>1, Authorizes DEF HubTyped
  <2>3. /\ sent' \in Nat /\ hellos' \subseteq Pages /\ wrapperSlot' \in Wrappers \cup {NoSock}
        /\ wrapperTask' \in [Wrappers -> {"out", "hello", "checking", "live", "gone"}]
    BY <1>13, <2>1, Authorizes DEF Reached, HubTyped
  <2> QED
    BY <2>1, <2>2, <2>3 DEF OnlyCloses, HubTyped
<1>14. ASSUME NEW w \in Wrappers, LiveFrame(w)
      PROVE  HubTyped'
  <2>1. UNCHANGED <<task, clientId, clientSlots, guard, enrolled, revoker, got, uplink,
                    here, sendLock, revoked, newest, swallowed, faults, wrapperTask,
                    wrapperSlot, hellos>>
    BY <1>14 DEF LiveFrame, pageVars, wrapperVars, deviceVars, upVars
  <2>2. OnlyCloses /\ toDrop' \in [Wrappers -> SUBSET Pages]
    BY <1>14, <2>1, LiveFrameReaches DEF HubTyped
  <2>3. /\ sent' \in Nat /\ hellos' \subseteq Pages /\ wrapperSlot' \in Wrappers \cup {NoSock}
        /\ wrapperTask' \in [Wrappers -> {"out", "hello", "checking", "live", "gone"}]
    BY <1>14, <2>1, LiveFrameReaches DEF Reached, HubTyped
  <2>4. liveSent' \in 0 .. MaxLive
    BY <1>14, HubAssumption DEF LiveFrame, HubTyped
  <2> QED
    BY <2>1, <2>2, <2>3, <2>4 DEF OnlyCloses, HubTyped
<1>15. ASSUME NEW w \in Wrappers, RoutedFrame(w)
      PROVE  HubTyped'
  <2>1. UNCHANGED <<task, clientId, clientSlots, guard, enrolled, revoker, got, uplink,
                    here, sendLock, revoked, newest, swallowed, faults, wrapperTask,
                    wrapperSlot, toDrop, sent, liveSent>>
    BY <1>15 DEF RoutedFrame, pageVars, wrapperVars, deviceVars, upVars
  <2>2. OnlyCloses /\ toDrop' \in [Wrappers -> SUBSET Pages]
    BY <1>15, <2>1, RoutedFrameGoesHome DEF HubTyped
  <2>3. /\ sent' \in Nat /\ hellos' \subseteq Pages /\ wrapperSlot' \in Wrappers \cup {NoSock}
        /\ wrapperTask' \in [Wrappers -> {"out", "hello", "checking", "live", "gone"}]
    BY <1>15, <2>1, RoutedFrameGoesHome DEF Reached, HubTyped
  <2> QED
    BY <2>1, <2>2, <2>3 DEF OnlyCloses, HubTyped
<1>16. ASSUME NEW w \in Wrappers, WrapperLost(w)
      PROVE  HubTyped'
  <2>1. faults' \in 0 .. MaxFaults
    BY <1>16, HubAssumption DEF WrapperLost, Fault, HubTyped
  <2> QED
    BY <1>16, <2>1 DEF WrapperLost, HubTyped, pageVars, wrapperVars, deviceVars, upVars
<1>17. ASSUME NEW w \in Wrappers, WrapperGone(w)
      PROVE  HubTyped'
  <2>1. UNCHANGED <<task, clientId, clientSlots, guard, enrolled, revoker, got, uplink,
                    here, sendLock, revoked, newest, swallowed, faults, hellos, liveSent>>
    BY <1>17 DEF WrapperGone, pageVars, wrapperVars, deviceVars, upVars
  <2>2. OnlyCloses /\ toDrop' \in [Wrappers -> SUBSET Pages]
    BY <1>17, <2>1, WrapperGoes DEF HubTyped
  <2>3. /\ sent' \in Nat /\ hellos' \subseteq Pages /\ wrapperSlot' \in Wrappers \cup {NoSock}
        /\ wrapperTask' \in [Wrappers -> {"out", "hello", "checking", "live", "gone"}]
    BY <1>17, <2>1, WrapperGoes DEF Reached, HubTyped
  <2> QED
    BY <2>1, <2>2, <2>3 DEF OnlyCloses, HubTyped
<1>18. ASSUME NEW w \in Wrappers, DropNext(w)
      PROVE  HubTyped'
  <2>1. UNCHANGED <<task, clientId, clientSlots, guard, enrolled, revoker, got, uplink,
                    here, sendLock, revoked, newest, swallowed, faults, wrapperTask,
                    wrapperSlot, sent, liveSent, connQueue, hellos>>
    BY <1>18 DEF DropNext, pageVars, wrapperVars, deviceVars, upVars
  <2>2. OnlyCloses /\ toDrop' \in [Wrappers -> SUBSET Pages]
    BY <1>18, <2>1, DropNextCloses DEF HubTyped
  <2>3. /\ sent' \in Nat /\ hellos' \subseteq Pages /\ wrapperSlot' \in Wrappers \cup {NoSock}
        /\ wrapperTask' \in [Wrappers -> {"out", "hello", "checking", "live", "gone"}]
    BY <1>18, <2>1, DropNextCloses DEF Reached, HubTyped
  <2> QED
    BY <2>1, <2>2, <2>3 DEF OnlyCloses, HubTyped
<1>19. ASSUME EndSession
      PROVE  HubTyped'
  <2>1. faults' \in 0 .. MaxFaults
    BY <1>19, HubAssumption DEF EndSession, Fault, HubTyped
  <2> QED
    BY <1>19, <2>1 DEF EndSession, HubTyped, pageVars, wrapperVars, deviceVars, upVars
<1>20. ASSUME RevokeRow
      PROVE  HubTyped'
  <2>1. faults' \in 0 .. MaxFaults
    BY <1>20, HubAssumption DEF RevokeRow, Fault, HubTyped
  <2> QED
    BY <1>20, <2>1 DEF RevokeRow, HubTyped, pageVars, wrapperVars, deviceVars, upVars
<1>21. ASSUME DisconnectWrapper
      PROVE  HubTyped'
  BY <1>21, HubAssumption DEF DisconnectWrapper, HubTyped, pageVars, wrapperVars,
     deviceVars, upVars
<1> QED
  BY HubNext, <1>1, <1>2, <1>3, <1>4, <1>5, <1>6, <1>7, <1>8, <1>9, <1>10, <1>11, <1>12,
     <1>13, <1>14, <1>15, <1>16, <1>17, <1>18, <1>19, <1>20, <1>21 DEF HubNext

\* The queues.
LEMMA QueuesTypedSteps ==
    ASSUME HubTyped, HubLimits, QueuesTyped, PagesKept, WrappersKept, HubNext
    PROVE  QueuesTyped'
<1>1. ASSUME NEW s \in Pages, Accept(s)
      PROVE  QueuesTyped'
  BY <1>1 DEF Accept, QueuesTyped, PageFrames, pageVars, wrapperVars, deviceVars, upVars
<1>2. ASSUME NEW s \in Pages, Register(s)
      PROVE  QueuesTyped'
  BY <1>2 DEF Register, QueuesTyped, PageFrames, pageVars, wrapperVars, deviceVars, upVars
<1>3. ASSUME NEW s \in Pages, StopPredecessor(s)
      PROVE  QueuesTyped'
  BY <1>3 DEF StopPredecessor, QueuesTyped, PageFrames, pageVars, wrapperVars, deviceVars,
     upVars
<1>4. ASSUME NEW s \in Pages, BeginForward(s)
      PROVE  QueuesTyped'
  <2>1. got' = got /\ sent' = sent
    BY <1>4 DEF BeginForward, pageVars, wrapperVars, deviceVars, upVars
  <2>2. CASE UNCHANGED connQueue
    BY <2>1, <2>2 DEF QueuesTyped, PageFrames
  <2>3. ASSUME NEW r \in Pages, ~Full(r), connQueue' = [connQueue EXCEPT ![r] = Append(@, Offline)]
        PROVE  QueuesTyped'
    <3>1. sent \in Nat /\ sent' \in Nat /\ sent <= sent'
      BY <2>1 DEF HubTyped
    <3>2. connQueue' = [x \in Pages |-> IF x = r THEN Append(connQueue[r], Offline) ELSE connQueue[x]]
      BY <2>3 DEF QueuesTyped
    <3>3. Offline \in PageFrames(r)'
      BY DEF PageFrames
    <3>4. connQueue' = [x \in Pages |-> connQueue'[x]]
      BY <3>2
    <3>5. \A x \in Pages :
            \/ connQueue'[x] = connQueue[x]
            \/ ~Full(x) /\ \E f \in PageFrames(x)' : connQueue'[x] = Append(connQueue[x], f)
      BY <2>3, <3>2, <3>3
    <3> QED
      BY <2>1, <3>1, <3>4, <3>5, QueuesGrow
  <2> QED
    BY <1>4, <2>2, <2>3, BeginForwardOutcomes
<1>5. ASSUME NEW s \in Pages, EndForward(s)
      PROVE  QueuesTyped'
  <2>1. got' = got /\ sent' = sent
    BY <1>5 DEF EndForward, pageVars, wrapperVars, deviceVars, upVars
  <2>2. CASE UNCHANGED connQueue
    BY <2>1, <2>2 DEF QueuesTyped, PageFrames
  <2>3. ASSUME NEW r \in Pages, ~Full(r), connQueue' = [connQueue EXCEPT ![r] = Append(@, Offline)]
        PROVE  QueuesTyped'
    <3>1. sent \in Nat /\ sent' \in Nat /\ sent <= sent'
      BY <2>1 DEF HubTyped
    <3>2. connQueue' = [x \in Pages |-> IF x = r THEN Append(connQueue[r], Offline) ELSE connQueue[x]]
      BY <2>3 DEF QueuesTyped
    <3>3. Offline \in PageFrames(r)'
      BY DEF PageFrames
    <3>4. connQueue' = [x \in Pages |-> connQueue'[x]]
      BY <3>2
    <3>5. \A x \in Pages :
            \/ connQueue'[x] = connQueue[x]
            \/ ~Full(x) /\ \E f \in PageFrames(x)' : connQueue'[x] = Append(connQueue[x], f)
      BY <2>3, <3>2, <3>3
    <3> QED
      BY <2>1, <3>1, <3>4, <3>5, QueuesGrow
  <2> QED
    BY <1>5, <2>2, <2>3, EndForwardOutcomes
<1>6. ASSUME NEW s \in Pages, Leave(s)
      PROVE  QueuesTyped'
  BY <1>6 DEF Leave, QueuesTyped, PageFrames, pageVars, wrapperVars, deviceVars, upVars
<1>7. ASSUME NEW s \in Pages, Left(s)
      PROVE  QueuesTyped'
  <2>1. connQueue' = [connQueue EXCEPT ![s] = <<>>] /\ sent' = sent /\ got' = got
    BY <1>7 DEF Left, wrapperVars
  <2>2. \A x \in Pages : PageFrames(x)' = PageFrames(x)
    BY <2>1 DEF PageFrames
  <2>3. connQueue' = [x \in Pages |-> IF x = s THEN <<>> ELSE connQueue[x]]
    BY <2>1 DEF QueuesTyped
  <2>4. <<>> \in Seq(PageFrames(s)) /\ Len(<<>>) <= QueueCap
    BY HubAssumption
  <2> QED
    BY <2>1, <2>2, <2>3, <2>4 DEF QueuesTyped
<1>8. ASSUME NEW s \in Pages, SenderStep(s)
      PROVE  QueuesTyped'
  <2>1. /\ ~connClosed[s] /\ connQueue[s] # <<>> /\ connQueue' = [connQueue EXCEPT ![s] = Tail(@)]
        /\ sent' = sent
    BY <1>8, SenderOutcomes DEF SenderStep, wrapperVars
  <2>2. \A x \in Pages : connQueue[x] \in Seq(PageFrames(x)) /\ Len(connQueue[x]) <= QueueCap
    BY DEF QueuesTyped
  <2>3. /\ Head(connQueue[s]) \in PageFrames(s) /\ Tail(connQueue[s]) \in Seq(PageFrames(s))
        /\ Len(Tail(connQueue[s])) <= QueueCap
    <3>1. connQueue[s] \in Seq(PageFrames(s)) /\ Len(connQueue[s]) <= QueueCap /\ QueueCap \in Nat
      BY <2>2, HubAssumption
    <3> QED
      BY <2>1, <3>1
  <2>4. connQueue' = [x \in Pages |-> IF x = s THEN Tail(connQueue[s]) ELSE connQueue[x]]
    BY <2>1 DEF QueuesTyped
  <2>5. /\ connQueue' = [x \in Pages |-> connQueue'[x]]
        /\ \A x \in Pages : connQueue'[x] \in Seq(PageFrames(x)) /\ Len(connQueue'[x]) <= QueueCap
    BY <2>2, <2>3, <2>4
  <2>6. Head(connQueue[s])[1] \in Broadcasts => Head(connQueue[s]) \in Broadcasts \X (1 .. sent)
    BY <2>3 DEF PageFrames, Broadcasts, Offline, Answer
  <2>7. got' \in [Pages -> Broadcasts \X (1 .. sent) \cup {Offline}]
    BY <1>8, <2>6, SenderOutcomes DEF QueuesTyped
  <2>8. \A x \in Pages : PageFrames(x)' = PageFrames(x)
    BY <2>1 DEF PageFrames
  <2> QED
    BY <2>1, <2>5, <2>7, <2>8 DEF QueuesTyped
<1>9. ASSUME NEW s \in Pages, PageGoes(s)
      PROVE  QueuesTyped'
  BY <1>9 DEF PageGoes, QueuesTyped, PageFrames, pageVars, wrapperVars, deviceVars, upVars
<1>10. ASSUME NEW s \in Pages, GuardFires(s)
      PROVE  QueuesTyped'
  BY <1>10 DEF GuardFires, QueuesTyped, PageFrames, pageVars, wrapperVars, deviceVars,
     upVars
<1>11. ASSUME NEW w \in Wrappers, WrapperConnects(w)
      PROVE  QueuesTyped'
  BY <1>11 DEF WrapperConnects, QueuesTyped, PageFrames, pageVars, wrapperVars,
     deviceVars, upVars
<1>12. ASSUME NEW w \in Wrappers, WrapperHello(w)
      PROVE  QueuesTyped'
  BY <1>12 DEF WrapperHello, QueuesTyped, PageFrames, pageVars, wrapperVars, deviceVars,
     upVars
<1>13. ASSUME NEW w \in Wrappers, Authorize(w)
      PROVE  QueuesTyped'
  <2>1. got' = got
    BY <1>13 DEF Authorize
  <2> QED
    BY <1>13, <2>1, Authorizes, ReachedFits DEF Broadcasts
<1>14. ASSUME NEW w \in Wrappers, LiveFrame(w)
      PROVE  QueuesTyped'
  <2>1. got' = got
    BY <1>14 DEF LiveFrame
  <2> QED
    BY <1>14, <2>1, LiveFrameReaches, ReachedFits DEF Broadcasts
<1>15. ASSUME NEW w \in Wrappers, RoutedFrame(w)
      PROVE  QueuesTyped'
  <2>1. got' = got /\ sent' = sent
    BY <1>15 DEF RoutedFrame, pageVars, wrapperVars, deviceVars, upVars
  <2>2. CASE UNCHANGED connQueue
    BY <2>1, <2>2 DEF QueuesTyped, PageFrames
  <2>3. ASSUME NEW r \in Pages, ~Full(r), connQueue' = [connQueue EXCEPT ![r] = Append(@, Answer(r))]
        PROVE  QueuesTyped'
    <3>1. sent \in Nat /\ sent' \in Nat /\ sent <= sent'
      BY <2>1 DEF HubTyped
    <3>2. connQueue' = [x \in Pages |-> IF x = r THEN Append(connQueue[r], Answer(r)) ELSE connQueue[x]]
      BY <2>3 DEF QueuesTyped
    <3>3. Answer(r) \in PageFrames(r)'
      BY DEF PageFrames
    <3>4. connQueue' = [x \in Pages |-> connQueue'[x]]
      BY <3>2
    <3>5. \A x \in Pages :
            \/ connQueue'[x] = connQueue[x]
            \/ ~Full(x) /\ \E f \in PageFrames(x)' : connQueue'[x] = Append(connQueue[x], f)
      BY <2>3, <3>2, <3>3
    <3> QED
      BY <2>1, <3>1, <3>4, <3>5, QueuesGrow
  <2> QED
    BY <1>15, <2>2, <2>3, RoutedFrameGoesHome
<1>16. ASSUME NEW w \in Wrappers, WrapperLost(w)
      PROVE  QueuesTyped'
  BY <1>16 DEF WrapperLost, QueuesTyped, PageFrames, pageVars, wrapperVars, deviceVars,
     upVars
<1>17. ASSUME NEW w \in Wrappers, WrapperGone(w)
      PROVE  QueuesTyped'
  <2>1. got' = got
    BY <1>17 DEF WrapperGone
  <2>2. CASE UNCHANGED <<connQueue, sent>>
    BY <2>1, <2>2 DEF QueuesTyped, PageFrames
  <2> QED
    BY <1>17, <2>1, <2>2, WrapperGoes, ReachedFits DEF Broadcasts
<1>18. ASSUME NEW w \in Wrappers, DropNext(w)
      PROVE  QueuesTyped'
  BY <1>18 DEF DropNext, QueuesTyped, PageFrames, pageVars, wrapperVars, deviceVars, upVars
<1>19. ASSUME EndSession
      PROVE  QueuesTyped'
  BY <1>19 DEF EndSession, QueuesTyped, PageFrames, pageVars, wrapperVars, deviceVars,
     upVars
<1>20. ASSUME RevokeRow
      PROVE  QueuesTyped'
  BY <1>20 DEF RevokeRow, QueuesTyped, PageFrames, pageVars, wrapperVars, deviceVars, upVars
<1>21. ASSUME DisconnectWrapper
      PROVE  QueuesTyped'
  BY <1>21 DEF DisconnectWrapper, QueuesTyped, PageFrames, pageVars, wrapperVars,
     deviceVars, upVars
<1> QED
  BY HubNext, <1>1, <1>2, <1>3, <1>4, <1>5, <1>6, <1>7, <1>8, <1>9, <1>10, <1>11, <1>12,
     <1>13, <1>14, <1>15, <1>16, <1>17, <1>18, <1>19, <1>20, <1>21 DEF HubNext

\* The limits of the hub.
LEMMA HubLimitsSteps ==
    ASSUME HubTyped, HubLimits, PagesKept, WrappersKept, HubNext
    PROVE  HubLimits'
<1>1. ASSUME NEW s \in Pages, Accept(s)
      PROVE  HubLimits'
  <2>1. clients' = clients
    BY <1>1 DEF Accept
  <2>2. CASE UNCHANGED clientSlots
    BY <2>1, <2>2, FewerKeepLimits
  <2>3. ASSUME NEW n \in Elsewhere, clientSlots' = clientSlots \cup {s},
               Cardinality(clientSlots) + n < MaxClients + 1
        PROVE  HubLimits'
    <3>1. Cardinality(clientSlots) \in Nat /\ n \in Nat /\ MaxClients + 1 \in Nat
      BY FS_CardinalityType, HubAssumption DEF HubLimits, AtMost, Elsewhere
    <3>2. Cardinality(clientSlots) < MaxClients + 1
      BY <2>3, <3>1
    <3>3. AtMost(clientSlots', MaxClients + 1)
      BY <2>3, <3>1, <3>2, OneMore DEF HubLimits
    <3>4. Registered' = Registered
      BY <2>1 DEF Registered
    <3> QED
      BY <3>3, <3>4 DEF HubLimits
  <2> QED
    BY <1>1, <2>2, <2>3 DEF Accept
<1>2. ASSUME NEW s \in Pages, Register(s)
      PROVE  HubLimits'
  <2>1. PICK c \in Clients, n \in Elsewhere : HelloEnds(s, c, n)
    BY <1>2, RegisterOutcomes
  <2> USE DEF HelloEnds
  <2>2. clientSlots' = clientSlots
    BY <1>2 DEF Register
  <2>3. CASE UNCHANGED clients
    BY <2>2, <2>3, FewerKeepLimits
  <2>4. ASSUME clients' = [clients EXCEPT ![c] = s],
               clients[c] # NoSock \/ Cardinality(Registered) + n < MaxClients
        PROVE  AtMost(Registered', MaxClients)
    <3>1. Registered' \subseteq (Registered \ {clients[c]}) \cup {s}
      BY <2>4 DEF Registered, PagesKept, HubTyped
    <3>2. IsFiniteSet(Registered) /\ Cardinality(Registered) \in Nat /\ n \in Nat
          /\ MaxClients \in Nat /\ Cardinality(Registered) <= MaxClients
      BY FS_CardinalityType, HubAssumption DEF HubLimits, AtMost, Elsewhere
    <3>3. CASE clients[c] # NoSock
      <4>1. clients[c] \in Registered
        BY <3>3 DEF Registered
      <4>2. /\ IsFiniteSet(Registered \ {clients[c]})
            /\ Cardinality(Registered \ {clients[c]}) = Cardinality(Registered) - 1
        BY <3>2, <4>1, FS_RemoveElement
      <4>3. AtMost(Registered \ {clients[c]}, MaxClients)
            /\ Cardinality(Registered \ {clients[c]}) < MaxClients
        BY <3>2, <4>2 DEF AtMost
      <4>4. AtMost((Registered \ {clients[c]}) \cup {s}, MaxClients)
        BY <3>2, <4>3, OneMore
      <4> QED
        BY <3>1, <3>2, <4>4, Fewer
    <3>4. CASE Cardinality(Registered) + n < MaxClients
      <4>1. Cardinality(Registered) < MaxClients
        BY <3>2, <3>4
      <4>2. AtMost(Registered \cup {s}, MaxClients)
        BY <3>2, <4>1, OneMore DEF HubLimits
      <4> QED
        BY <3>1, <3>2, <4>2, Fewer
    <3> QED
      BY <2>4, <3>3, <3>4
  <2>5. AtMost(clientSlots', MaxClients + 1)
    BY <2>2 DEF HubLimits
  <2> QED
    BY <2>1, <2>3, <2>4, <2>5 DEF HubLimits
<1>3. ASSUME NEW s \in Pages, StopPredecessor(s)
      PROVE  HubLimits'
  BY <1>3 DEF StopPredecessor, HubLimits, Registered, pageVars, wrapperVars, deviceVars,
     upVars
<1>4. ASSUME NEW s \in Pages, BeginForward(s)
      PROVE  HubLimits'
  <2>1. OnlyCloses
    BY <1>4, BeginForwardOutcomes
  <2>2. clientSlots' = clientSlots
    BY <1>4 DEF BeginForward
  <2> QED
    BY <2>1, <2>2, FewerKeepLimits DEF OnlyCloses
<1>5. ASSUME NEW s \in Pages, EndForward(s)
      PROVE  HubLimits'
  <2>1. OnlyCloses
    BY <1>5, EndForwardOutcomes
  <2>2. clientSlots' = clientSlots
    BY <1>5 DEF EndForward
  <2> QED
    BY <2>1, <2>2, FewerKeepLimits DEF OnlyCloses
<1>6. ASSUME NEW s \in Pages, Leave(s)
      PROVE  HubLimits'
  <2>1. OnlyCloses
    BY <1>6, LeaveCloses
  <2>2. clientSlots' = clientSlots
    BY <1>6 DEF Leave
  <2> QED
    BY <2>1, <2>2, FewerKeepLimits DEF OnlyCloses
<1>7. ASSUME NEW s \in Pages, Left(s)
      PROVE  HubLimits'
  <2>1. clientSlots' \subseteq clientSlots /\ clients' = clients
    BY <1>7 DEF Left
  <2> QED
    BY <2>1, FewerKeepLimits
<1>8. ASSUME NEW s \in Pages, SenderStep(s)
      PROVE  HubLimits'
  <2>1. OnlyCloses
    BY <1>8, SenderOutcomes
  <2>2. clientSlots' = clientSlots
    BY <1>8 DEF SenderStep
  <2> QED
    BY <2>1, <2>2, FewerKeepLimits DEF OnlyCloses
<1>9. ASSUME NEW s \in Pages, PageGoes(s)
      PROVE  HubLimits'
  BY <1>9 DEF PageGoes, HubLimits, Registered, pageVars, wrapperVars, deviceVars, upVars
<1>10. ASSUME NEW s \in Pages, GuardFires(s)
      PROVE  HubLimits'
  <2>1. OnlyCloses
    BY <1>10, GuardOutcomes
  <2>2. clientSlots' = clientSlots
    BY <1>10 DEF GuardFires
  <2> QED
    BY <2>1, <2>2, FewerKeepLimits DEF OnlyCloses
<1>11. ASSUME NEW w \in Wrappers, WrapperConnects(w)
      PROVE  HubLimits'
  BY <1>11 DEF WrapperConnects, HubLimits, Registered, pageVars, wrapperVars, deviceVars,
     upVars
<1>12. ASSUME NEW w \in Wrappers, WrapperHello(w)
      PROVE  HubLimits'
  BY <1>12 DEF WrapperHello, HubLimits, Registered, pageVars, wrapperVars, deviceVars,
     upVars
<1>13. ASSUME NEW w \in Wrappers, Authorize(w)
      PROVE  HubLimits'
  <2>1. OnlyCloses
    BY <1>13, Authorizes
  <2>2. clientSlots' = clientSlots
    BY <1>13 DEF Authorize
  <2> QED
    BY <2>1, <2>2, FewerKeepLimits DEF OnlyCloses
<1>14. ASSUME NEW w \in Wrappers, LiveFrame(w)
      PROVE  HubLimits'
  <2>1. OnlyCloses
    BY <1>14, LiveFrameReaches
  <2>2. clientSlots' = clientSlots
    BY <1>14 DEF LiveFrame
  <2> QED
    BY <2>1, <2>2, FewerKeepLimits DEF OnlyCloses
<1>15. ASSUME NEW w \in Wrappers, RoutedFrame(w)
      PROVE  HubLimits'
  <2>1. OnlyCloses
    BY <1>15, RoutedFrameGoesHome
  <2>2. clientSlots' = clientSlots
    BY <1>15 DEF RoutedFrame
  <2> QED
    BY <2>1, <2>2, FewerKeepLimits DEF OnlyCloses
<1>16. ASSUME NEW w \in Wrappers, WrapperLost(w)
      PROVE  HubLimits'
  BY <1>16 DEF WrapperLost, HubLimits, Registered, pageVars, wrapperVars, deviceVars, upVars
<1>17. ASSUME NEW w \in Wrappers, WrapperGone(w)
      PROVE  HubLimits'
  <2>1. OnlyCloses
    BY <1>17, WrapperGoes
  <2>2. clientSlots' = clientSlots
    BY <1>17 DEF WrapperGone
  <2> QED
    BY <2>1, <2>2, FewerKeepLimits DEF OnlyCloses
<1>18. ASSUME NEW w \in Wrappers, DropNext(w)
      PROVE  HubLimits'
  <2>1. OnlyCloses
    BY <1>18, DropNextCloses
  <2>2. clientSlots' = clientSlots
    BY <1>18 DEF DropNext
  <2> QED
    BY <2>1, <2>2, FewerKeepLimits DEF OnlyCloses
<1>19. ASSUME EndSession
      PROVE  HubLimits'
  BY <1>19 DEF EndSession, HubLimits, Registered, pageVars, wrapperVars, deviceVars, upVars
<1>20. ASSUME RevokeRow
      PROVE  HubLimits'
  BY <1>20 DEF RevokeRow, HubLimits, Registered, pageVars, wrapperVars, deviceVars, upVars
<1>21. ASSUME DisconnectWrapper
      PROVE  HubLimits'
  BY <1>21 DEF DisconnectWrapper, HubLimits, Registered, pageVars, wrapperVars,
     deviceVars, upVars
<1> QED
  BY HubNext, <1>1, <1>2, <1>3, <1>4, <1>5, <1>6, <1>7, <1>8, <1>9, <1>10, <1>11, <1>12,
     <1>13, <1>14, <1>15, <1>16, <1>17, <1>18, <1>19, <1>20, <1>21 DEF HubNext

\* Pages.
LEMMA PagesKeptSteps ==
    ASSUME HubTyped, QueuesTyped, HubLimits, PagesKept, WrappersKept, HubNext
    PROVE  PagesKept'
<1>1. ASSUME NEW s \in Pages, Accept(s)
      PROVE  PagesKept'
  <2>1. UNCHANGED <<clientId, clients, connQueue, connClosed, wrapperTask, wrapperSlot,
                    toDrop, sent, liveSent, enrolled, revoker, got, hellos, uplink, here,
                    sendLock, revoked, newest, swallowed, faults>>
    BY <1>1 DEF Accept, pageVars, wrapperVars, deviceVars, upVars
  <2>2. task[s] = "out" /\ \A x \in Pages : Owns(x)' <=> Owns(x)
    BY <1>1, <2>1 DEF Accept, Owns
  <2>3. CASE /\ task' = [task EXCEPT ![s] = "probe"] /\ guard' = [guard EXCEPT ![s] = "armed"]
             /\ UNCHANGED wsOpen
    BY <2>1, <2>2, <2>3 DEF PagesKept, HubTyped, Served
  <2>4. CASE /\ task' = [task EXCEPT ![s] = "gone"] /\ wsOpen' = [wsOpen EXCEPT ![s] = FALSE]
             /\ UNCHANGED guard
    <3>1. \A x \in Pages : task'[x] = (IF x = s THEN "gone" ELSE task[x])
      BY <2>4 DEF HubTyped
    <3>2. \A x \in Pages : wsOpen'[x] => wsOpen[x] /\ x # s
      BY <2>4 DEF HubTyped
    <3> QED
      BY <2>1, <2>2, <2>4, <3>1, <3>2 DEF PagesKept, Served
  <2> QED
    BY <1>1, <2>3, <2>4 DEF Accept
<1>2. ASSUME NEW s \in Pages, Register(s)
      PROVE  PagesKept'
  <2>1. UNCHANGED <<clientSlots, connQueue, guard, wrapperTask, wrapperSlot, toDrop, sent,
                    liveSent, enrolled, revoker, got, hellos, uplink, here, sendLock,
                    revoked, swallowed, faults>>
    BY <1>2 DEF Register, pageVars, wrapperVars, deviceVars, upVars
  <2>2. PICK c \in Clients, n \in Elsewhere : HelloEnds(s, c, n)
    BY <1>2, RegisterOutcomes
  <2> USE DEF HelloEnds
  <2>3. task[s] = "probe" /\ sendLock = NoSend /\ clientId[s] = NoSock
    BY <1>2 DEF Register, PagesKept
  <2>4. \A x \in Pages : clientId'[x] = IF x = s THEN c ELSE clientId[x]
    BY <2>2 DEF HubTyped
  <2>5. \A d \in Clients : clients[d] # s
    BY <2>3, HubAssumption DEF PagesKept
  <2>6. \A x \in Pages : task[x] \notin {"helloing", "forwarding"}
    BY <2>3, HubAssumption DEF PagesKept, NoSend
  <2>7. CASE /\ UNCHANGED <<clients, newest>>
             /\ task' = [task EXCEPT ![s] = "leaving"]
             /\ connClosed' = [connClosed EXCEPT ![s] = TRUE]
             /\ wsOpen' = [wsOpen EXCEPT ![s] = FALSE]
    <3>1. /\ \A x \in Pages : task'[x] = IF x = s THEN "leaving" ELSE task[x]
          /\ \A x \in Pages : connClosed'[x] <=> connClosed[x] \/ x = s
          /\ \A x \in Pages : wsOpen'[x] <=> wsOpen[x] /\ x # s
      BY <2>7 DEF HubTyped
    <3>2. \A x \in Pages : x # s => (Owns(x)' <=> Owns(x))
      BY <2>4, <2>7 DEF Owns
    <3>3. \A x \in Pages : task'[x] \in Served /\ ~connClosed'[x] => Owns(x)'
      BY <3>1, <3>2 DEF PagesKept, Served
    <3>4. \A d \in Clients : clients'[d] # NoSock =>
              clientId'[clients'[d]] = d /\ newest'[d] = clients'[d]
      BY <2>4, <2>5, <2>7 DEF PagesKept, HubTyped
    <3> QED
      BY <2>1, <2>3, <2>4, <2>6, <3>1, <3>3, <3>4 DEF PagesKept
  <2>8. CASE /\ clients' = [clients EXCEPT ![c] = s]
             /\ newest' = [newest EXCEPT ![c] = s]
             /\ \E t \in {"greeting", "joining", "replacing"} : task' = [task EXCEPT ![s] = t]
             /\ Closed(clients[c])
    <3>1. PICK t \in {"greeting", "joining", "replacing"} :
              \A x \in Pages : task'[x] = IF x = s THEN t ELSE task[x]
      BY <2>8 DEF HubTyped
    <3>2. /\ \A x \in Pages : connClosed'[x] <=> connClosed[x] \/ x = clients[c]
          /\ \A x \in Pages : wsOpen'[x] <=> wsOpen[x] /\ x # clients[c]
      BY <2>8 DEF Closed
    <3>3. \A d \in Clients : /\ clients'[d] = IF d = c THEN s ELSE clients[d]
                             /\ newest'[d] = IF d = c THEN s ELSE newest[d]
      BY <2>8 DEF HubTyped
    <3>4. \A x \in Pages : x # s /\ Owns(x) /\ ~connClosed'[x] => Owns(x)'
      BY <2>4, <3>2, <3>3 DEF Owns, HubTyped
    <3>5. Owns(s)'
      BY <2>4, <3>3, HubAssumption DEF Owns
    <3>6. \A x \in Pages : task'[x] \in Served /\ ~connClosed'[x] => Owns(x)'
      BY <3>1, <3>2, <3>4, <3>5 DEF PagesKept, Served
    <3>7. \A d \in Clients : clients'[d] # NoSock =>
              clientId'[clients'[d]] = d /\ newest'[d] = clients'[d]
      BY <2>4, <2>5, <3>3 DEF PagesKept, HubTyped
    <3> QED
      BY <2>1, <2>3, <2>4, <2>6, <3>1, <3>2, <3>6, <3>7 DEF PagesKept
  <2> QED
    BY <2>2, <2>7, <2>8
<1>3. ASSUME NEW s \in Pages, StopPredecessor(s)
      PROVE  PagesKept'
  <2>1. UNCHANGED <<clientId, clients, clientSlots, connQueue, connClosed, guard,
                    wrapperTask, wrapperSlot, toDrop, sent, liveSent, enrolled, revoker,
                    got, hellos, uplink, wsOpen, here, sendLock, revoked, newest, swallowed,
                    faults>>
    BY <1>3 DEF StopPredecessor, pageVars, wrapperVars, deviceVars, upVars
  <2>2. PICK t \in {"joining", "greeting"} : task' = [task EXCEPT ![s] = t]
    BY <1>3 DEF StopPredecessor
  <2>3. task[s] \in {"replacing", "joining"}
    BY <1>3 DEF StopPredecessor
  <2>4. \A x \in Pages : task'[x] = IF x = s THEN t ELSE task[x]
    BY <2>2 DEF HubTyped
  <2>5. \A x \in Pages : Owns(x)' <=> Owns(x)
    BY <2>1 DEF Owns
  <2> QED
    BY <2>1, <2>3, <2>4, <2>5 DEF PagesKept, Served
<1>4. ASSUME NEW s \in Pages, BeginForward(s)
      PROVE  PagesKept'
  <2>1. UNCHANGED <<clientSlots, guard, clientId, wrapperTask, wrapperSlot, toDrop, sent,
                    liveSent, enrolled, revoker, got, hellos, uplink, wsOpen, here, revoked,
                    newest, swallowed, faults>>
    BY <1>4 DEF BeginForward, pageVars, wrapperVars, deviceVars, upVars
  <2>2. OnlyCloses /\ task[s] \in {"greeting", "serving"} /\ sendLock = NoSend
    BY <1>4, BeginForwardOutcomes
  <2>3. CASE task' = [task EXCEPT ![s] = "leaving"] /\ connClosed'[s] /\ UNCHANGED <<connQueue, sendLock>>
    BY <2>1, <2>2, <2>3, LeavingKeepsPages
  <2>4. CASE /\ Owns(s) /\ wrapperSlot # NoSock /\ sendLock' = [by |-> s, to |-> wrapperSlot]
             /\ \E t \in {"helloing", "forwarding"} : task' = [task EXCEPT ![s] = t]
             /\ UNCHANGED <<clients, connQueue, connClosed>>
    BY <2>1, <2>2, <2>4, HubAssumption DEF PagesKept, HubTyped, Owns, Served, NoSend
  <2>5. CASE /\ Owns(s) /\ ~Full(s) /\ connQueue' = [connQueue EXCEPT ![s] = Append(@, Offline)]
             /\ task' = [task EXCEPT ![s] = "serving"] /\ UNCHANGED <<clients, connClosed, sendLock>>
    BY <2>1, <2>2, <2>5, HubAssumption DEF PagesKept, HubTyped, QueuesTyped, Owns,
       Served, NoSend
  <2> QED
    BY <1>4, <2>3, <2>4, <2>5, BeginForwardOutcomes
<1>5. ASSUME NEW s \in Pages, EndForward(s)
      PROVE  PagesKept'
  <2>1. UNCHANGED <<clientSlots, guard, clientId, wrapperTask, wrapperSlot, toDrop, sent,
                    liveSent, enrolled, revoker, got, wsOpen, here, revoked, newest,
                    swallowed, faults>>
    BY <1>5 DEF EndForward, pageVars, wrapperVars, deviceVars, upVars
  <2>2. OnlyCloses /\ task[s] \in {"helloing", "forwarding"} /\ sendLock' = NoSend /\ sendLock.by = s
    BY <1>5, EndForwardOutcomes DEF PagesKept
  <2>3. CASE task' = [task EXCEPT ![s] = "leaving"] /\ connClosed'[s] /\ UNCHANGED connQueue
    BY <2>1, <2>2, <2>3, LeavingKeepsPages
  <2>4. CASE task' = [task EXCEPT ![s] = "serving"] /\ UNCHANGED <<clients, connQueue, connClosed>>
    BY <2>1, <2>2, <2>4, HubAssumption DEF PagesKept, HubTyped, Owns, Served, NoSend
  <2>5. CASE /\ ~Full(s) /\ connQueue' = [connQueue EXCEPT ![s] = Append(@, Offline)]
             /\ task' = [task EXCEPT ![s] = "serving"] /\ UNCHANGED <<clients, connClosed>>
    BY <2>1, <2>2, <2>5, HubAssumption DEF PagesKept, HubTyped, QueuesTyped, Owns,
       Served, NoSend
  <2> QED
    BY <1>5, <2>3, <2>4, <2>5, EndForwardOutcomes
<1>6. ASSUME NEW s \in Pages, Leave(s)
      PROVE  PagesKept'
  <2>1. UNCHANGED <<clientSlots, connQueue, guard, clientId, wrapperTask, wrapperSlot,
                    toDrop, sent, liveSent, enrolled, revoker, got, hellos, uplink, here,
                    sendLock, revoked, newest, swallowed, faults>>
    BY <1>6 DEF Leave, pageVars, wrapperVars, deviceVars, upVars
  <2> QED
    BY <1>6, <2>1, LeaveCloses, LeavingKeepsPages
<1>7. ASSUME NEW s \in Pages, Left(s)
      PROVE  PagesKept'
  BY <1>7, HubAssumption DEF Left, HubTyped, PagesKept, QueuesTyped, Served, Owns, Fault,
     pageVars, wrapperVars, deviceVars, upVars
<1>8. ASSUME NEW s \in Pages, SenderStep(s)
      PROVE  PagesKept'
  <2>1. UNCHANGED <<task, clients, clientSlots, guard, clientId, wrapperTask, wrapperSlot,
                    toDrop, sent, liveSent, enrolled, revoker, hellos, uplink, here,
                    sendLock, revoked, newest, swallowed, faults>>
    BY <1>8 DEF SenderStep, pageVars, wrapperVars, deviceVars, upVars
  <2>2. OnlyCloses /\ connQueue[s] # <<>>
    BY <1>8, SenderOutcomes
  <2>3. \A x \in Pages : task[x] \in {"out", "probe"} => x # s
    BY <2>2 DEF PagesKept
  <2>4. \A x \in Pages : x # s => connQueue'[x] = connQueue[x] /\ got'[x] = got[x]
    BY <1>8, SenderOutcomes DEF QueuesTyped
  <2> QED
    BY <2>1, <2>2, <2>3, <2>4 DEF PagesKept, HubTyped, Owns, Served, OnlyCloses
<1>9. ASSUME NEW s \in Pages, PageGoes(s)
      PROVE  PagesKept'
  <2>1. UNCHANGED <<task, clientId, clients, clientSlots, connQueue, connClosed, guard,
                    wrapperTask, wrapperSlot, toDrop, sent, liveSent, enrolled, revoker,
                    got, hellos, uplink, sendLock, revoked, newest, swallowed>>
    BY <1>9 DEF PageGoes, pageVars, wrapperVars, deviceVars, upVars
  <2>2. OnlyCloses
    BY <1>9, <2>1 DEF PageGoes, HubTyped, OnlyCloses
  <2> QED
    BY <2>1, <2>2, ClosingKeepsPages
<1>10. ASSUME NEW s \in Pages, GuardFires(s)
      PROVE  PagesKept'
  <2>1. UNCHANGED <<clientSlots, connQueue, clientId, wrapperTask, wrapperSlot, toDrop,
                    sent, liveSent, enrolled, revoker, got, hellos, uplink, wsOpen, here,
                    revoked, newest, faults>>
    BY <1>10 DEF GuardFires, pageVars, wrapperVars, deviceVars, upVars
  <2>2. OnlyCloses /\ guard' = [guard EXCEPT ![s] = "fired"]
    BY <1>10, GuardOutcomes
  <2>3. CASE task' = [task EXCEPT ![s] = "leaving"] /\ connClosed'[s] /\ UNCHANGED swallowed
             /\ sendLock' = IF sendLock.by = s THEN NoSend ELSE sendLock
    BY <2>1, <2>2, <2>3, LeavingKeepsPages
  <2>4. CASE swallowed' = swallowed \cup {s} /\ UNCHANGED <<task, clients, connClosed, sendLock>>
    BY <2>1, <2>2, <2>4 DEF PagesKept, HubTyped, Owns, Served
  <2> QED
    BY <1>10, <2>3, <2>4, GuardOutcomes
<1>11. ASSUME NEW w \in Wrappers, WrapperConnects(w)
      PROVE  PagesKept'
  BY <1>11, HubAssumption DEF WrapperConnects, HubTyped, PagesKept, QueuesTyped, Served,
     Owns, Fault, pageVars, wrapperVars, deviceVars, upVars
<1>12. ASSUME NEW w \in Wrappers, WrapperHello(w)
      PROVE  PagesKept'
  <2>1. UNCHANGED <<task, clientId, clients, clientSlots, connQueue, connClosed, guard,
                    toDrop, sent, liveSent, enrolled, revoker, got, hellos, uplink, here,
                    sendLock, revoked, newest, swallowed, faults>>
    BY <1>12 DEF WrapperHello, pageVars, wrapperVars, deviceVars, upVars
  <2>2. OnlyCloses
    BY <1>12, <2>1 DEF WrapperHello, HubTyped, OnlyCloses
  <2> QED
    BY <2>1, <2>2, ClosingKeepsPages
<1>13. ASSUME NEW w \in Wrappers, Authorize(w)
      PROVE  PagesKept'
  <2>1. UNCHANGED <<task, clientId, clientSlots, guard, enrolled, revoker, got, uplink,
                    here, sendLock, revoked, newest, swallowed, faults, hellos, liveSent>>
    BY <1>13 DEF Authorize, pageVars, wrapperVars, deviceVars, upVars
  <2>2. OnlyCloses
    BY <1>13, Authorizes
  <2>3. \A x \in Pages : task[x] \in {"out", "probe"} => connQueue'[x] = connQueue[x]
    BY <1>13, <2>1, Authorizes, NewcomersUnreached DEF QueuesTyped
  <2> QED
    BY <2>1, <2>2, <2>3, ClosingKeepsPages
<1>14. ASSUME NEW w \in Wrappers, LiveFrame(w)
      PROVE  PagesKept'
  <2>1. UNCHANGED <<task, clientId, clientSlots, guard, enrolled, revoker, got, uplink,
                    here, sendLock, revoked, newest, swallowed, faults, wrapperTask,
                    wrapperSlot, hellos>>
    BY <1>14 DEF LiveFrame, pageVars, wrapperVars, deviceVars, upVars
  <2>2. OnlyCloses
    BY <1>14, LiveFrameReaches
  <2>3. \A x \in Pages : task[x] \in {"out", "probe"} => connQueue'[x] = connQueue[x]
    BY <1>14, <2>1, LiveFrameReaches, NewcomersUnreached DEF QueuesTyped
  <2> QED
    BY <2>1, <2>2, <2>3, ClosingKeepsPages
<1>15. ASSUME NEW w \in Wrappers, RoutedFrame(w)
      PROVE  PagesKept'
  <2>1. UNCHANGED <<task, clientId, clientSlots, guard, enrolled, revoker, got, uplink,
                    here, sendLock, revoked, newest, swallowed, faults, wrapperTask,
                    wrapperSlot, toDrop, sent, liveSent>>
    BY <1>15 DEF RoutedFrame, pageVars, wrapperVars, deviceVars, upVars
  <2>2. OnlyCloses
    BY <1>15, RoutedFrameGoesHome
  <2>3. \A x \in Pages : task[x] \in {"out", "probe"} => connQueue'[x] = connQueue[x]
    BY <1>15, <2>1, RoutedFrameGoesHome DEF PagesKept, Owns, QueuesTyped
  <2> QED
    BY <2>1, <2>2, <2>3, ClosingKeepsPages
<1>16. ASSUME NEW w \in Wrappers, WrapperLost(w)
      PROVE  PagesKept'
  <2>1. UNCHANGED <<task, clientId, clients, clientSlots, connQueue, connClosed, guard,
                    wrapperTask, wrapperSlot, toDrop, sent, liveSent, enrolled, revoker,
                    got, here, hellos, uplink, sendLock, revoked, newest, swallowed>>
    BY <1>16 DEF WrapperLost, pageVars, wrapperVars, deviceVars, upVars
  <2>2. OnlyCloses
    BY <1>16, <2>1 DEF WrapperLost, HubTyped, OnlyCloses
  <2> QED
    BY <2>1, <2>2, ClosingKeepsPages
<1>17. ASSUME NEW w \in Wrappers, WrapperGone(w)
      PROVE  PagesKept'
  <2>1. UNCHANGED <<task, clientId, clientSlots, guard, enrolled, revoker, got, uplink,
                    here, sendLock, revoked, newest, swallowed, faults, hellos, liveSent>>
    BY <1>17 DEF WrapperGone, pageVars, wrapperVars, deviceVars, upVars
  <2>2. OnlyCloses
    BY <1>17, WrapperGoes
  <2>3. \A x \in Pages : task[x] \in {"out", "probe"} => connQueue'[x] = connQueue[x]
    BY <1>17, <2>1, WrapperGoes, NewcomersUnreached DEF QueuesTyped
  <2> QED
    BY <2>1, <2>2, <2>3, ClosingKeepsPages
<1>18. ASSUME NEW w \in Wrappers, DropNext(w)
      PROVE  PagesKept'
  <2>1. UNCHANGED <<task, clientId, clientSlots, guard, enrolled, revoker, got, uplink,
                    here, sendLock, revoked, newest, swallowed, faults, wrapperTask,
                    wrapperSlot, sent, liveSent, connQueue, hellos>>
    BY <1>18 DEF DropNext, pageVars, wrapperVars, deviceVars, upVars
  <2>2. OnlyCloses
    BY <1>18, DropNextCloses
  <2>3. \A x \in Pages : task[x] \in {"out", "probe"} => connQueue'[x] = connQueue[x]
    BY <2>1
  <2> QED
    BY <2>1, <2>2, <2>3, ClosingKeepsPages
<1>19. ASSUME EndSession
      PROVE  PagesKept'
  BY <1>19, HubAssumption DEF EndSession, HubTyped, PagesKept, QueuesTyped, Served, Owns,
     Fault, pageVars, wrapperVars, deviceVars, upVars
<1>20. ASSUME RevokeRow
      PROVE  PagesKept'
  BY <1>20, HubAssumption DEF RevokeRow, HubTyped, PagesKept, QueuesTyped, Served, Owns,
     Fault, pageVars, wrapperVars, deviceVars, upVars
<1>21. ASSUME DisconnectWrapper
      PROVE  PagesKept'
  <2>1. UNCHANGED <<task, clientId, clients, clientSlots, connQueue, connClosed, guard,
                    wrapperTask, wrapperSlot, toDrop, sent, liveSent, enrolled, got, hellos,
                    uplink, here, sendLock, revoked, newest, swallowed, faults>>
    BY <1>21 DEF DisconnectWrapper, pageVars, wrapperVars, deviceVars, upVars
  <2>2. OnlyCloses
    BY <1>21, <2>1 DEF DisconnectWrapper, HubTyped, OnlyCloses
  <2> QED
    BY <2>1, <2>2, ClosingKeepsPages
<1> QED
  BY HubNext, <1>1, <1>2, <1>3, <1>4, <1>5, <1>6, <1>7, <1>8, <1>9, <1>10, <1>11, <1>12,
     <1>13, <1>14, <1>15, <1>16, <1>17, <1>18, <1>19, <1>20, <1>21 DEF HubNext

\* Wrappers.
LEMMA WrappersKeptSteps ==
    ASSUME HubTyped, HubLimits, PagesKept, WrappersKept, HubNext
    PROVE  WrappersKept'
<1>1. ASSUME NEW s \in Pages, Accept(s)
      PROVE  WrappersKept'
  BY <1>1, HubAssumption DEF Accept, HubTyped, PagesKept, WrappersKept, Fault, Unwinds,
     Unregistered, Owns, Vacates, Broadcast, Drop, Full, Registered, Dead, pageVars,
     wrapperVars, deviceVars, upVars
<1>2. ASSUME NEW s \in Pages, Register(s)
      PROVE  WrappersKept'
  BY <1>2, HubAssumption DEF Register, HubTyped, PagesKept, WrappersKept, Fault, Unwinds,
     Unregistered, Owns, Vacates, Broadcast, Drop, Full, Registered, Dead, pageVars,
     wrapperVars, deviceVars, upVars
<1>3. ASSUME NEW s \in Pages, StopPredecessor(s)
      PROVE  WrappersKept'
  BY <1>3, HubAssumption DEF StopPredecessor, HubTyped, PagesKept, WrappersKept, Fault,
     Unwinds, Unregistered, Owns, Vacates, Broadcast, Drop, Full, Registered, Dead,
     pageVars, wrapperVars, deviceVars, upVars
<1>4. ASSUME NEW s \in Pages, BeginForward(s)
      PROVE  WrappersKept'
  BY <1>4, HubAssumption DEF BeginForward, HubTyped, PagesKept, WrappersKept, Fault,
     Unwinds, Unregistered, Owns, Vacates, Broadcast, Drop, Full, Registered, Dead,
     pageVars, wrapperVars, deviceVars, upVars
<1>5. ASSUME NEW s \in Pages, EndForward(s)
      PROVE  WrappersKept'
  BY <1>5, HubAssumption DEF EndForward, HubTyped, PagesKept, WrappersKept, Fault,
     Unwinds, Unregistered, Owns, Vacates, Broadcast, Drop, Full, Registered, Dead,
     pageVars, wrapperVars, deviceVars, upVars
<1>6. ASSUME NEW s \in Pages, Leave(s)
      PROVE  WrappersKept'
  BY <1>6, HubAssumption DEF Leave, HubTyped, PagesKept, WrappersKept, Fault, Unwinds,
     Unregistered, Owns, Vacates, Broadcast, Drop, Full, Registered, Dead, pageVars,
     wrapperVars, deviceVars, upVars
<1>7. ASSUME NEW s \in Pages, Left(s)
      PROVE  WrappersKept'
  BY <1>7, HubAssumption DEF Left, HubTyped, PagesKept, WrappersKept, Fault, Unwinds,
     Unregistered, Owns, Vacates, Broadcast, Drop, Full, Registered, Dead, pageVars,
     wrapperVars, deviceVars, upVars
<1>8. ASSUME NEW s \in Pages, SenderStep(s)
      PROVE  WrappersKept'
  BY <1>8, HubAssumption DEF SenderStep, HubTyped, PagesKept, WrappersKept, Fault,
     Unwinds, Unregistered, Owns, Vacates, Broadcast, Drop, Full, Registered, Dead,
     pageVars, wrapperVars, deviceVars, upVars
<1>9. ASSUME NEW s \in Pages, PageGoes(s)
      PROVE  WrappersKept'
  BY <1>9, HubAssumption DEF PageGoes, HubTyped, PagesKept, WrappersKept, Fault, Unwinds,
     Unregistered, Owns, Vacates, Broadcast, Drop, Full, Registered, Dead, pageVars,
     wrapperVars, deviceVars, upVars
<1>10. ASSUME NEW s \in Pages, GuardFires(s)
      PROVE  WrappersKept'
  BY <1>10, HubAssumption DEF GuardFires, HubTyped, PagesKept, WrappersKept, Fault,
     Unwinds, Unregistered, Owns, Vacates, Broadcast, Drop, Full, Registered, Dead,
     pageVars, wrapperVars, deviceVars, upVars
<1>11. ASSUME NEW w \in Wrappers, WrapperConnects(w)
      PROVE  WrappersKept'
  BY <1>11, HubAssumption DEF WrapperConnects, HubTyped, PagesKept, WrappersKept, Fault,
     Unwinds, Unregistered, Owns, Vacates, Broadcast, Drop, Full, Registered, Dead,
     pageVars, wrapperVars, deviceVars, upVars
<1>12. ASSUME NEW w \in Wrappers, WrapperHello(w)
      PROVE  WrappersKept'
  BY <1>12, HubAssumption DEF WrapperHello, HubTyped, PagesKept, WrappersKept, Fault,
     Unwinds, Unregistered, Owns, Vacates, Broadcast, Drop, Full, Registered, Dead,
     pageVars, wrapperVars, deviceVars, upVars
<1>13. ASSUME NEW w \in Wrappers, Authorize(w)
      PROVE  WrappersKept'
  <2>1. UNCHANGED <<task, clientId, clientSlots, guard, enrolled, revoker, got, uplink,
                    here, sendLock, revoked, newest, swallowed, faults, hellos, liveSent>>
    BY <1>13 DEF Authorize, pageVars, wrapperVars, deviceVars, upVars
  <2>2. \A x \in Registered : x \in Pages /\ clientId[x] # NoSock
    BY HubAssumption DEF Registered, PagesKept, HubTyped
  <2>3. wrapperTask[w] = "checking"
    BY <1>13 DEF Authorize
  <2>4. OnlyCloses /\ toDrop' \in [Wrappers -> SUBSET Pages]
    BY <1>13, Authorizes
  <2>5. \A v \in Wrappers : toDrop'[v] \subseteq toDrop[v] \cup Registered
    BY <1>13, Authorizes DEF Reached, Dead
  <2>6. \A v \in Wrappers : v # w => toDrop'[v] = toDrop[v]
    BY <1>13, Authorizes DEF Reached
  <2>7. \A v \in Wrappers : \A x \in toDrop'[v] : clientId'[x] # NoSock
    BY <2>1, <2>2, <2>5 DEF WrappersKept
  <2>8. CASE /\ enrolled /\ wrapperSlot' = wrapperSlot
             /\ wrapperTask' = [wrapperTask EXCEPT ![w] = "live"]
    BY <2>1, <2>3, <2>4, <2>6, <2>7, <2>8 DEF WrappersKept, HubTyped, OnlyCloses
  <2>9. CASE wrapperSlot' = NoSock /\ wrapperTask' = [wrapperTask EXCEPT ![w] = "gone"]
    BY <2>1, <2>3, <2>4, <2>6, <2>7, <2>9, HubAssumption DEF WrappersKept, HubTyped,
       OnlyCloses
  <2> QED
    BY <1>13, <2>8, <2>9, Authorizes
<1>14. ASSUME NEW w \in Wrappers, LiveFrame(w)
      PROVE  WrappersKept'
  <2>1. UNCHANGED <<task, clientId, clientSlots, guard, enrolled, revoker, got, uplink,
                    here, sendLock, revoked, newest, swallowed, faults, wrapperTask,
                    wrapperSlot, hellos>>
    BY <1>14 DEF LiveFrame, pageVars, wrapperVars, deviceVars, upVars
  <2>2. \A x \in Registered : x \in Pages /\ clientId[x] # NoSock
    BY HubAssumption DEF Registered, PagesKept, HubTyped
  <2>3. wrapperTask[w] = "live"
    BY <1>14 DEF LiveFrame
  <2>4. OnlyCloses /\ toDrop' \in [Wrappers -> SUBSET Pages]
    BY <1>14, LiveFrameReaches
  <2>5. \A v \in Wrappers : toDrop'[v] \subseteq toDrop[v] \cup Registered
    BY <1>14, LiveFrameReaches DEF Reached, Dead
  <2>6. \A v \in Wrappers : v # w => toDrop'[v] = toDrop[v]
    BY <1>14, LiveFrameReaches DEF Reached
  <2>7. \A v \in Wrappers : \A x \in toDrop'[v] : clientId'[x] # NoSock
    BY <2>1, <2>2, <2>5 DEF WrappersKept
  <2> QED
    BY <2>1, <2>3, <2>4, <2>6, <2>7 DEF WrappersKept, HubTyped, OnlyCloses
<1>15. ASSUME NEW w \in Wrappers, RoutedFrame(w)
      PROVE  WrappersKept'
  BY <1>15, HubAssumption DEF RoutedFrame, HubTyped, PagesKept, WrappersKept, Fault,
     Unwinds, Unregistered, Owns, Vacates, Broadcast, Drop, Full, Registered, Dead,
     pageVars, wrapperVars, deviceVars, upVars
<1>16. ASSUME NEW w \in Wrappers, WrapperLost(w)
      PROVE  WrappersKept'
  BY <1>16, HubAssumption DEF WrapperLost, HubTyped, PagesKept, WrappersKept, Fault,
     Unwinds, Unregistered, Owns, Vacates, Broadcast, Drop, Full, Registered, Dead,
     pageVars, wrapperVars, deviceVars, upVars
<1>17. ASSUME NEW w \in Wrappers, WrapperGone(w)
      PROVE  WrappersKept'
  <2>1. UNCHANGED <<task, clientId, clientSlots, guard, enrolled, revoker, got, uplink,
                    here, sendLock, revoked, newest, swallowed, faults, hellos, liveSent>>
    BY <1>17 DEF WrapperGone, pageVars, wrapperVars, deviceVars, upVars
  <2>2. \A x \in Registered : x \in Pages /\ clientId[x] # NoSock
    BY HubAssumption DEF Registered, PagesKept, HubTyped
  <2>3. toDrop[w] = {} /\ wrapperTask[w] \in {"hello", "live"}
    BY <1>17 DEF WrapperGone
  <2>4. OnlyCloses /\ toDrop' \in [Wrappers -> SUBSET Pages]
    BY <1>17, WrapperGoes
  <2>5. \A v \in Wrappers : toDrop'[v] \subseteq toDrop[v] \cup Registered
    BY <1>17, WrapperGoes DEF Reached, Dead
  <2>6. \A v \in Wrappers : v # w => toDrop'[v] = toDrop[v]
    BY <1>17, WrapperGoes DEF Reached
  <2>7. \A v \in Wrappers : \A x \in toDrop'[v] : clientId'[x] # NoSock
    BY <2>1, <2>2, <2>5 DEF WrappersKept
  <2>8. wrapperTask' = [wrapperTask EXCEPT ![w] = "gone"]
    BY <1>17, WrapperGoes
  <2>9. CASE wrapperTask[w] = "hello" /\ UNCHANGED <<wrapperSlot, toDrop>>
    BY <2>1, <2>3, <2>4, <2>6, <2>7, <2>8, <2>9 DEF WrappersKept, HubTyped, OnlyCloses
  <2>10. CASE wrapperTask[w] = "live" /\ wrapperSlot' = NoSock
    BY <2>1, <2>3, <2>4, <2>6, <2>7, <2>8, <2>10, HubAssumption DEF WrappersKept,
       HubTyped, OnlyCloses
  <2> QED
    BY <1>17, <2>3, <2>9, <2>10 DEF WrapperGone, Vacates, WrappersKept
<1>18. ASSUME NEW w \in Wrappers, DropNext(w)
      PROVE  WrappersKept'
  BY <1>18, HubAssumption DEF DropNext, HubTyped, PagesKept, WrappersKept, Fault, Unwinds,
     Unregistered, Owns, Vacates, Broadcast, Drop, Full, Registered, Dead, pageVars,
     wrapperVars, deviceVars, upVars
<1>19. ASSUME EndSession
      PROVE  WrappersKept'
  BY <1>19, HubAssumption DEF EndSession, HubTyped, PagesKept, WrappersKept, Fault,
     Unwinds, Unregistered, Owns, Vacates, Broadcast, Drop, Full, Registered, Dead,
     pageVars, wrapperVars, deviceVars, upVars
<1>20. ASSUME RevokeRow
      PROVE  WrappersKept'
  BY <1>20, HubAssumption DEF RevokeRow, HubTyped, PagesKept, WrappersKept, Fault,
     Unwinds, Unregistered, Owns, Vacates, Broadcast, Drop, Full, Registered, Dead,
     pageVars, wrapperVars, deviceVars, upVars
<1>21. ASSUME DisconnectWrapper
      PROVE  WrappersKept'
  BY <1>21, HubAssumption DEF DisconnectWrapper, HubTyped, PagesKept, WrappersKept, Fault,
     Unwinds, Unregistered, Owns, Vacates, Broadcast, Drop, Full, Registered, Dead,
     pageVars, wrapperVars, deviceVars, upVars
<1> QED
  BY HubNext, <1>1, <1>2, <1>3, <1>4, <1>5, <1>6, <1>7, <1>8, <1>9, <1>10, <1>11, <1>12,
     <1>13, <1>14, <1>15, <1>16, <1>17, <1>18, <1>19, <1>20, <1>21 DEF HubNext

\* What pages were told.
LEMMA HearingSteps ==
    ASSUME HubTyped, HubLimits, QueuesTyped, PagesKept, WrappersKept, PagesTold, PagesLinked, HubNext
    PROVE  PagesTold' /\ PagesLinked'
<1>1. ASSUME NEW s \in Pages, Accept(s)
      PROVE  PagesTold' /\ PagesLinked'
  <2>1. OnlyCloses
    BY <1>1 DEF Accept, OnlyCloses, HubTyped, pageVars, wrapperVars, deviceVars, upVars
  <2>2. UNCHANGED <<clientId, sent, got, toDrop>>
    BY <1>1 DEF Accept, pageVars, wrapperVars, deviceVars, upVars
  <2>3. \A p \in Pages : here'[p] => here[p]
    BY <1>1 DEF Accept, HubTyped
  <2>4. \A v \in Wrappers : (Live(v)' <=> Live(v))
                             /\ (wrapperTask[v] = "gone" => wrapperTask'[v] = "gone")
    BY <1>1 DEF Accept, HubTyped, Live, Fault, pageVars, wrapperVars, deviceVars, upVars
  <2>5. connQueue' = connQueue
    BY <1>1 DEF Accept, pageVars, wrapperVars, deviceVars, upVars
  <2> QED
    BY <2>1, <2>2, <2>3, <2>4, <2>5, HearingQuiet
<1>2. ASSUME NEW s \in Pages, Register(s)
      PROVE  PagesTold' /\ PagesLinked'
  <2>1. UNCHANGED <<connQueue, got, sent, wrapperTask, toDrop, here>>
    BY <1>2 DEF Register, wrapperVars
  <2>2. connQueue[s] = <<>> /\ got[s] = Offline
    BY <1>2 DEF Register, PagesKept
  <2>3. PICK c \in Clients, n \in Elsewhere : HelloEnds(s, c, n)
    BY <1>2, RegisterOutcomes
  <2> USE DEF HelloEnds
  <2>4. \A x \in Pages : x # s /\ Owns(x)' => Owns(x)
    BY <2>3 DEF Owns, HubTyped
  <2>5. \A x \in Pages : x # s => (connClosed[x] => connClosed'[x]) /\ (wsOpen'[x] => wsOpen[x])
    BY <2>3 DEF HubTyped, Closed
  <2>6. \A x \in Pages : x # s /\ Hears(x)' => Hears(x)
    BY <2>1, <2>4, <2>5 DEF Hears
  <2>7. \A x \in Pages : Hears(x)' => GoesOn(x)
    <3>1. GoesOn(s)
      BY <2>1, <2>2 DEF GoesOn
    <3> QED
      BY <2>1, <2>6, <3>1, SameGoesOn
  <2> QED
    BY <2>1, <2>7, HearingKept DEF Live
<1>3. ASSUME NEW s \in Pages, StopPredecessor(s)
      PROVE  PagesTold' /\ PagesLinked'
  <2>1. OnlyCloses
    BY <1>3 DEF StopPredecessor, OnlyCloses, HubTyped, pageVars, wrapperVars,
       deviceVars, upVars
  <2>2. UNCHANGED <<clientId, sent, got, toDrop>>
    BY <1>3 DEF StopPredecessor, pageVars, wrapperVars, deviceVars, upVars
  <2>3. \A p \in Pages : here'[p] => here[p]
    BY <1>3 DEF StopPredecessor, HubTyped
  <2>4. \A v \in Wrappers : (Live(v)' <=> Live(v))
                             /\ (wrapperTask[v] = "gone" => wrapperTask'[v] = "gone")
    BY <1>3 DEF StopPredecessor, HubTyped, Live, Fault, pageVars, wrapperVars,
       deviceVars, upVars
  <2>5. connQueue' = connQueue
    BY <1>3 DEF StopPredecessor, pageVars, wrapperVars, deviceVars, upVars
  <2> QED
    BY <2>1, <2>2, <2>3, <2>4, <2>5, HearingQuiet
<1>4. ASSUME NEW s \in Pages, BeginForward(s)
      PROVE  PagesTold' /\ PagesLinked'
  <2>1. OnlyCloses
    BY <1>4, BeginForwardOutcomes
  <2>2. UNCHANGED <<clientId, sent, got, toDrop>>
    BY <1>4 DEF BeginForward, pageVars, wrapperVars, deviceVars, upVars
  <2>3. \A p \in Pages : here'[p] => here[p]
    BY <1>4 DEF BeginForward, HubTyped
  <2>4. \A v \in Wrappers : (Live(v)' <=> Live(v))
                             /\ (wrapperTask[v] = "gone" => wrapperTask'[v] = "gone")
    BY <1>4 DEF BeginForward, HubTyped, Live, Fault, pageVars, wrapperVars, deviceVars,
       upVars
  <2>5. CASE connQueue' = connQueue
    BY <2>1, <2>2, <2>3, <2>4, <2>5, HearingQuiet
  <2>6. ASSUME NEW r \in Pages, connQueue' = [connQueue EXCEPT ![r] = Append(@, Offline)]
        PROVE  PagesTold' /\ PagesLinked'
    <3>1. \A x \in Pages : x # r => connQueue'[x] = connQueue[x]
      BY <2>6 DEF QueuesTyped
    <3>2. connQueue'[r] = Append(connQueue[r], Offline)
      BY <2>6 DEF QueuesTyped
    <3>3. Hears(r)' => Hears(r)
      BY <2>1, <2>2, <2>3, ClosingDeafens
    <3>4. Hears(r)' => GoesOn(r)
      BY <2>2, <3>2, <3>3, PrivateGoesOn
    <3> QED
      BY <2>1, <2>2, <2>3, <2>4, <3>1, <3>4, HearingQuiet
  <2> QED
    BY <1>4, <2>5, <2>6, BeginForwardOutcomes
<1>5. ASSUME NEW s \in Pages, EndForward(s)
      PROVE  PagesTold' /\ PagesLinked'
  <2>1. OnlyCloses
    BY <1>5, EndForwardOutcomes
  <2>2. UNCHANGED <<clientId, sent, got, toDrop>>
    BY <1>5 DEF EndForward, pageVars, wrapperVars, deviceVars, upVars
  <2>3. \A p \in Pages : here'[p] => here[p]
    BY <1>5 DEF EndForward, HubTyped
  <2>4. \A v \in Wrappers : (Live(v)' <=> Live(v))
                             /\ (wrapperTask[v] = "gone" => wrapperTask'[v] = "gone")
    BY <1>5 DEF EndForward, HubTyped, Live, Fault, pageVars, wrapperVars, deviceVars, upVars
  <2>5. CASE connQueue' = connQueue
    BY <2>1, <2>2, <2>3, <2>4, <2>5, HearingQuiet
  <2>6. ASSUME NEW r \in Pages, connQueue' = [connQueue EXCEPT ![r] = Append(@, Offline)]
        PROVE  PagesTold' /\ PagesLinked'
    <3>1. \A x \in Pages : x # r => connQueue'[x] = connQueue[x]
      BY <2>6 DEF QueuesTyped
    <3>2. connQueue'[r] = Append(connQueue[r], Offline)
      BY <2>6 DEF QueuesTyped
    <3>3. Hears(r)' => Hears(r)
      BY <2>1, <2>2, <2>3, ClosingDeafens
    <3>4. Hears(r)' => GoesOn(r)
      BY <2>2, <3>2, <3>3, PrivateGoesOn
    <3> QED
      BY <2>1, <2>2, <2>3, <2>4, <3>1, <3>4, HearingQuiet
  <2> QED
    BY <1>5, <2>5, <2>6, EndForwardOutcomes
<1>6. ASSUME NEW s \in Pages, Leave(s)
      PROVE  PagesTold' /\ PagesLinked'
  <2>1. OnlyCloses
    BY <1>6, LeaveCloses
  <2>2. UNCHANGED <<clientId, sent, got, toDrop>>
    BY <1>6 DEF Leave, pageVars, wrapperVars, deviceVars, upVars
  <2>3. \A p \in Pages : here'[p] => here[p]
    BY <1>6 DEF Leave, HubTyped
  <2>4. \A v \in Wrappers : (Live(v)' <=> Live(v))
                             /\ (wrapperTask[v] = "gone" => wrapperTask'[v] = "gone")
    BY <1>6 DEF Leave, HubTyped, Live, Fault, pageVars, wrapperVars, deviceVars, upVars
  <2>5. connQueue' = connQueue
    BY <1>6 DEF Leave, pageVars, wrapperVars, deviceVars, upVars
  <2> QED
    BY <2>1, <2>2, <2>3, <2>4, <2>5, HearingQuiet
<1>7. ASSUME NEW s \in Pages, Left(s)
      PROVE  PagesTold' /\ PagesLinked'
  <2>1. OnlyCloses
    BY <1>7 DEF Left, OnlyCloses, HubTyped, pageVars, wrapperVars, deviceVars, upVars
  <2>2. UNCHANGED <<clientId, sent, got, toDrop>>
    BY <1>7 DEF Left, pageVars, wrapperVars, deviceVars, upVars
  <2>3. \A p \in Pages : here'[p] => here[p]
    BY <1>7 DEF Left, HubTyped
  <2>4. \A v \in Wrappers : (Live(v)' <=> Live(v))
                             /\ (wrapperTask[v] = "gone" => wrapperTask'[v] = "gone")
    BY <1>7 DEF Left, HubTyped, Live, Fault, pageVars, wrapperVars, deviceVars, upVars
  <2>5. \A x \in Pages : Hears(x)' => connQueue'[x] = connQueue[x]
    BY <1>7 DEF Left, PagesKept, Hears, QueuesTyped
  <2> QED
    BY <2>1, <2>2, <2>3, <2>4, <2>5, HearingQuiet
<1>8. ASSUME NEW s \in Pages, SenderStep(s)
      PROVE  PagesTold' /\ PagesLinked'
  <2>1. OnlyCloses
    BY <1>8, SenderOutcomes
  <2>2. UNCHANGED <<clientId, sent, toDrop>>
    BY <1>8 DEF SenderStep, pageVars, wrapperVars, deviceVars, upVars
  <2>3. \A p \in Pages : here'[p] => here[p]
    BY <1>8 DEF SenderStep, HubTyped
  <2>4. \A v \in Wrappers : (Live(v)' <=> Live(v))
                             /\ (wrapperTask[v] = "gone" => wrapperTask'[v] = "gone")
    BY <1>8 DEF SenderStep, HubTyped, Live, Fault, pageVars, wrapperVars, deviceVars, upVars
  <2>5. /\ ~connClosed[s] /\ connQueue[s] # <<>> /\ connQueue' = [connQueue EXCEPT ![s] = Tail(@)]
        /\ \/ got' = [got EXCEPT ![s] = IF Head(connQueue[s])[1] \in Broadcasts
                                        THEN Head(connQueue[s]) ELSE @]
           \/ ~(wsOpen[s] /\ here[s]) /\ UNCHANGED got
    BY <1>8, SenderOutcomes
  <2>6. \A x \in Pages : x # s => connQueue'[x] = connQueue[x] /\ got'[x] = got[x]
    BY <2>5 DEF QueuesTyped
  <2>7. Hears(s)' => GoesOn(s)
    <3>1. SUFFICES ASSUME Hears(s)' PROVE GoesOn(s)
      OBVIOUS
    <3>2. Hears(s)
      BY <2>1, <2>2, <2>3, <3>1, ClosingDeafens
    <3>3. /\ connQueue'[s] = Tail(connQueue[s])
          /\ got'[s] = IF Head(connQueue[s])[1] \in Broadcasts THEN Head(connQueue[s]) ELSE got[s]
      BY <2>5, <3>2 DEF QueuesTyped, Hears
    <3>4. connQueue[s] \in Seq(PageFrames(s))
      BY DEF QueuesTyped
    <3>5. Told(connQueue'[s], got'[s]) \subseteq Told(connQueue[s], got[s])
      BY <2>5, <3>3, <3>4, ToldTheSame
    <3>6. \A b \in BOOLEAN : Linked(connQueue[s], got[s], b) => Linked(connQueue'[s], got'[s], b)
      BY <2>5, <3>3, <3>4, LinkedTail
    <3> QED
      BY <2>2, <3>2, <3>5, <3>6 DEF GoesOn
  <2> QED
    BY <2>1, <2>2, <2>3, <2>4, <2>6, <2>7, <2>2, HearingQuiet
<1>9. ASSUME NEW s \in Pages, PageGoes(s)
      PROVE  PagesTold' /\ PagesLinked'
  <2>1. OnlyCloses
    BY <1>9 DEF PageGoes, OnlyCloses, HubTyped, pageVars, wrapperVars, deviceVars, upVars
  <2>2. UNCHANGED <<clientId, sent, got, toDrop>>
    BY <1>9 DEF PageGoes, pageVars, wrapperVars, deviceVars, upVars
  <2>3. \A p \in Pages : here'[p] => here[p]
    BY <1>9 DEF PageGoes, HubTyped
  <2>4. \A v \in Wrappers : (Live(v)' <=> Live(v))
                             /\ (wrapperTask[v] = "gone" => wrapperTask'[v] = "gone")
    BY <1>9 DEF PageGoes, HubTyped, Live, Fault, pageVars, wrapperVars, deviceVars, upVars
  <2>5. connQueue' = connQueue
    BY <1>9 DEF PageGoes, pageVars, wrapperVars, deviceVars, upVars
  <2> QED
    BY <2>1, <2>2, <2>3, <2>4, <2>5, HearingQuiet
<1>10. ASSUME NEW s \in Pages, GuardFires(s)
      PROVE  PagesTold' /\ PagesLinked'
  <2>1. OnlyCloses
    BY <1>10, GuardOutcomes
  <2>2. UNCHANGED <<clientId, sent, got, toDrop>>
    BY <1>10 DEF GuardFires, pageVars, wrapperVars, deviceVars, upVars
  <2>3. \A p \in Pages : here'[p] => here[p]
    BY <1>10 DEF GuardFires, HubTyped
  <2>4. \A v \in Wrappers : (Live(v)' <=> Live(v))
                             /\ (wrapperTask[v] = "gone" => wrapperTask'[v] = "gone")
    BY <1>10 DEF GuardFires, HubTyped, Live, Fault, pageVars, wrapperVars, deviceVars,
       upVars
  <2>5. connQueue' = connQueue
    BY <1>10 DEF GuardFires, pageVars, wrapperVars, deviceVars, upVars
  <2> QED
    BY <2>1, <2>2, <2>3, <2>4, <2>5, HearingQuiet
<1>11. ASSUME NEW w \in Wrappers, WrapperConnects(w)
      PROVE  PagesTold' /\ PagesLinked'
  <2>1. OnlyCloses
    BY <1>11 DEF WrapperConnects, OnlyCloses, HubTyped, pageVars, wrapperVars,
       deviceVars, upVars
  <2>2. UNCHANGED <<clientId, sent, got, toDrop>>
    BY <1>11 DEF WrapperConnects, pageVars, wrapperVars, deviceVars, upVars
  <2>3. \A p \in Pages : here'[p] => here[p]
    BY <1>11 DEF WrapperConnects, HubTyped
  <2>4. \A v \in Wrappers : (Live(v)' <=> Live(v))
                             /\ (wrapperTask[v] = "gone" => wrapperTask'[v] = "gone")
    BY <1>11 DEF WrapperConnects, HubTyped, Live, Fault, pageVars, wrapperVars,
       deviceVars, upVars
  <2>5. connQueue' = connQueue
    BY <1>11 DEF WrapperConnects, pageVars, wrapperVars, deviceVars, upVars
  <2> QED
    BY <2>1, <2>2, <2>3, <2>4, <2>5, HearingQuiet
<1>12. ASSUME NEW w \in Wrappers, WrapperHello(w)
      PROVE  PagesTold' /\ PagesLinked'
  <2>1. OnlyCloses
    BY <1>12 DEF WrapperHello, OnlyCloses, HubTyped, pageVars, wrapperVars, deviceVars,
       upVars
  <2>2. UNCHANGED <<clientId, sent, got, toDrop>>
    BY <1>12 DEF WrapperHello, pageVars, wrapperVars, deviceVars, upVars
  <2>3. \A p \in Pages : here'[p] => here[p]
    BY <1>12 DEF WrapperHello, HubTyped
  <2>4. \A v \in Wrappers : (Live(v)' <=> Live(v))
                             /\ (wrapperTask[v] = "gone" => wrapperTask'[v] = "gone")
    BY <1>12 DEF WrapperHello, HubTyped, Live, Fault, pageVars, wrapperVars, deviceVars,
       upVars
  <2>5. connQueue' = connQueue
    BY <1>12 DEF WrapperHello, pageVars, wrapperVars, deviceVars, upVars
  <2> QED
    BY <2>1, <2>2, <2>3, <2>4, <2>5, HearingQuiet
<1>13. ASSUME NEW w \in Wrappers, Authorize(w)
      PROVE  PagesTold' /\ PagesLinked'
  <2>1. UNCHANGED <<clientId, here, got>>
    BY <1>13 DEF Authorize
  <2>2. wrapperTask[w] = "checking" /\ toDrop[w] = {}
    BY <1>13 DEF Authorize, WrappersKept
  <2>3. OnlyCloses
    BY <1>13, Authorizes
  <2>4. CASE Reached(w, "up") /\ wrapperTask' = [wrapperTask EXCEPT ![w] = "live"]
    BY <2>1, <2>2, <2>3, <2>4, HearingReached DEF Broadcasts
  <2>5. CASE Reached(w, "down") /\ wrapperTask' = [wrapperTask EXCEPT ![w] = "gone"]
    BY <2>1, <2>2, <2>3, <2>5, HearingReached DEF Broadcasts
  <2> QED
    BY <1>13, <2>4, <2>5, Authorizes
<1>14. ASSUME NEW w \in Wrappers, LiveFrame(w)
      PROVE  PagesTold' /\ PagesLinked'
  <2>1. UNCHANGED <<clientId, here, got>>
    BY <1>14 DEF LiveFrame
  <2>2. /\ wrapperTask[w] = "live" /\ toDrop[w] = {} /\ Live(w)
        /\ wrapperTask' = [wrapperTask EXCEPT ![w] = "live"]
    BY <1>14 DEF LiveFrame, HubTyped, Live
  <2> QED
    BY <1>14, <2>1, <2>2, LiveFrameReaches, HearingReached DEF Broadcasts
<1>15. ASSUME NEW w \in Wrappers, RoutedFrame(w)
      PROVE  PagesTold' /\ PagesLinked'
  <2>1. OnlyCloses
    BY <1>15, RoutedFrameGoesHome
  <2>2. UNCHANGED <<clientId, sent, got, toDrop>>
    BY <1>15 DEF RoutedFrame, pageVars, wrapperVars, deviceVars, upVars
  <2>3. \A p \in Pages : here'[p] => here[p]
    BY <1>15 DEF RoutedFrame, HubTyped
  <2>4. \A v \in Wrappers : (Live(v)' <=> Live(v))
                             /\ (wrapperTask[v] = "gone" => wrapperTask'[v] = "gone")
    BY <1>15 DEF RoutedFrame, HubTyped, Live, Fault, pageVars, wrapperVars, deviceVars,
       upVars
  <2>5. CASE connQueue' = connQueue
    BY <2>1, <2>2, <2>3, <2>4, <2>5, HearingQuiet
  <2>6. ASSUME NEW r \in Pages, connQueue' = [connQueue EXCEPT ![r] = Append(@, Answer(r))]
        PROVE  PagesTold' /\ PagesLinked'
    <3>1. \A x \in Pages : x # r => connQueue'[x] = connQueue[x]
      BY <2>6 DEF QueuesTyped
    <3>2. connQueue'[r] = Append(connQueue[r], Answer(r))
      BY <2>6 DEF QueuesTyped
    <3>3. Hears(r)' => Hears(r)
      BY <2>1, <2>2, <2>3, ClosingDeafens
    <3>4. Hears(r)' => GoesOn(r)
      BY <2>2, <3>2, <3>3, PrivateGoesOn
    <3> QED
      BY <2>1, <2>2, <2>3, <2>4, <3>1, <3>4, HearingQuiet
  <2> QED
    BY <1>15, <2>5, <2>6, RoutedFrameGoesHome
<1>16. ASSUME NEW w \in Wrappers, WrapperLost(w)
      PROVE  PagesTold' /\ PagesLinked'
  <2>1. OnlyCloses
    BY <1>16 DEF WrapperLost, OnlyCloses, HubTyped, pageVars, wrapperVars, deviceVars,
       upVars
  <2>2. UNCHANGED <<clientId, sent, got, toDrop>>
    BY <1>16 DEF WrapperLost, pageVars, wrapperVars, deviceVars, upVars
  <2>3. \A p \in Pages : here'[p] => here[p]
    BY <1>16 DEF WrapperLost, HubTyped
  <2>4. \A v \in Wrappers : (Live(v)' <=> Live(v))
                             /\ (wrapperTask[v] = "gone" => wrapperTask'[v] = "gone")
    BY <1>16 DEF WrapperLost, HubTyped, Live, Fault, pageVars, wrapperVars, deviceVars,
       upVars
  <2>5. connQueue' = connQueue
    BY <1>16 DEF WrapperLost, pageVars, wrapperVars, deviceVars, upVars
  <2> QED
    BY <2>1, <2>2, <2>3, <2>4, <2>5, HearingQuiet
<1>17. ASSUME NEW w \in Wrappers, WrapperGone(w)
      PROVE  PagesTold' /\ PagesLinked'
  <2>1. UNCHANGED <<clientId, here, got>> /\ OnlyCloses
    BY <1>17, WrapperGoes DEF WrapperGone
  <2>2. wrapperTask' = [wrapperTask EXCEPT ![w] = "gone"] /\ toDrop[w] = {}
    BY <1>17, WrapperGoes DEF WrapperGone
  <2>3. CASE wrapperTask[w] = "hello" /\ UNCHANGED <<connQueue, toDrop, sent>>
    <3>1. \A v \in Wrappers : (Live(v)' <=> Live(v))
                               /\ (wrapperTask[v] = "gone" => wrapperTask'[v] = "gone")
      BY <2>2, <2>3 DEF HubTyped, Live
    <3> QED
      BY <2>1, <2>3, <3>1, HearingQuiet
  <2>4. CASE wrapperTask[w] = "live" /\ Reached(w, "down")
    BY <2>1, <2>2, <2>4, HearingReached DEF Broadcasts
  <2>5. wrapperTask[w] = "hello" => sent' = sent
    BY <1>17 DEF WrapperGone
  <2>6. Reached(w, "down") => sent' # sent
    BY DEF Reached, HubTyped
  <2> QED
    BY <1>17, <2>3, <2>4, <2>5, <2>6, WrapperGoes DEF WrapperGone
<1>18. ASSUME NEW w \in Wrappers, DropNext(w)
      PROVE  PagesTold' /\ PagesLinked'
  <2>1. OnlyCloses
    BY <1>18, DropNextCloses
  <2>2. UNCHANGED <<clientId, sent, got>>
    BY <1>18 DEF DropNext, pageVars, wrapperVars, deviceVars, upVars
  <2>3. \A p \in Pages : here'[p] => here[p]
    BY <1>18 DEF DropNext, HubTyped
  <2>4. \A v \in Wrappers : (Live(v)' <=> Live(v))
                             /\ (wrapperTask[v] = "gone" => wrapperTask'[v] = "gone")
    BY <1>18 DEF DropNext, HubTyped, Live, Fault, pageVars, wrapperVars, deviceVars, upVars
  <2>5. \A x \in Pages : Hears(x)' => \A v \in Wrappers : x \in toDrop[v] => x \in toDrop'[v]
    BY <1>18, DropNextCloses DEF Hears
  <2>6. connQueue' = connQueue
    BY <1>18 DEF DropNext
  <2> QED
    BY <2>1, <2>2, <2>3, <2>4, <2>5, <2>6, HearingQuiet
<1>19. ASSUME EndSession
      PROVE  PagesTold' /\ PagesLinked'
  <2>1. OnlyCloses
    BY <1>19 DEF EndSession, OnlyCloses, HubTyped, pageVars, wrapperVars, deviceVars, upVars
  <2>2. UNCHANGED <<clientId, sent, got, toDrop>>
    BY <1>19 DEF EndSession, pageVars, wrapperVars, deviceVars, upVars
  <2>3. \A p \in Pages : here'[p] => here[p]
    BY <1>19 DEF EndSession, HubTyped
  <2>4. \A v \in Wrappers : (Live(v)' <=> Live(v))
                             /\ (wrapperTask[v] = "gone" => wrapperTask'[v] = "gone")
    BY <1>19 DEF EndSession, HubTyped, Live, Fault, pageVars, wrapperVars, deviceVars,
       upVars
  <2>5. connQueue' = connQueue
    BY <1>19 DEF EndSession, pageVars, wrapperVars, deviceVars, upVars
  <2> QED
    BY <2>1, <2>2, <2>3, <2>4, <2>5, HearingQuiet
<1>20. ASSUME RevokeRow
      PROVE  PagesTold' /\ PagesLinked'
  <2>1. OnlyCloses
    BY <1>20 DEF RevokeRow, OnlyCloses, HubTyped, pageVars, wrapperVars, deviceVars, upVars
  <2>2. UNCHANGED <<clientId, sent, got, toDrop>>
    BY <1>20 DEF RevokeRow, pageVars, wrapperVars, deviceVars, upVars
  <2>3. \A p \in Pages : here'[p] => here[p]
    BY <1>20 DEF RevokeRow, HubTyped
  <2>4. \A v \in Wrappers : (Live(v)' <=> Live(v))
                             /\ (wrapperTask[v] = "gone" => wrapperTask'[v] = "gone")
    BY <1>20 DEF RevokeRow, HubTyped, Live, Fault, pageVars, wrapperVars, deviceVars, upVars
  <2>5. connQueue' = connQueue
    BY <1>20 DEF RevokeRow, pageVars, wrapperVars, deviceVars, upVars
  <2> QED
    BY <2>1, <2>2, <2>3, <2>4, <2>5, HearingQuiet
<1>21. ASSUME DisconnectWrapper
      PROVE  PagesTold' /\ PagesLinked'
  <2>1. OnlyCloses
    BY <1>21 DEF DisconnectWrapper, OnlyCloses, HubTyped, pageVars, wrapperVars,
       deviceVars, upVars
  <2>2. UNCHANGED <<clientId, sent, got, toDrop>>
    BY <1>21 DEF DisconnectWrapper, pageVars, wrapperVars, deviceVars, upVars
  <2>3. \A p \in Pages : here'[p] => here[p]
    BY <1>21 DEF DisconnectWrapper, HubTyped
  <2>4. \A v \in Wrappers : (Live(v)' <=> Live(v))
                             /\ (wrapperTask[v] = "gone" => wrapperTask'[v] = "gone")
    BY <1>21 DEF DisconnectWrapper, HubTyped, Live, Fault, pageVars, wrapperVars,
       deviceVars, upVars
  <2>5. connQueue' = connQueue
    BY <1>21 DEF DisconnectWrapper, pageVars, wrapperVars, deviceVars, upVars
  <2> QED
    BY <2>1, <2>2, <2>3, <2>4, <2>5, HearingQuiet
<1> QED
  BY HubNext, <1>1, <1>2, <1>3, <1>4, <1>5, <1>6, <1>7, <1>8, <1>9, <1>10, <1>11, <1>12,
     <1>13, <1>14, <1>15, <1>16, <1>17, <1>18, <1>19, <1>20, <1>21 DEF HubNext

\* The hub starts empty.
LEMMA HubStarts == HubInit => HubInv
<1> SUFFICES ASSUME HubInit PROVE HubInv
  OBVIOUS
<1>1. HubTyped
  <2>1. NoSend \in [by : Pages \cup {NoSock}, to : Wrappers \cup {NoSock}]
    BY DEF NoSend
  <2>2. 0 \in 0 .. MaxLive /\ 0 \in 0 .. MaxFaults /\ <<0, NoSock>> \in Nat \X (Pages \cup {NoSock})
    BY HubAssumption
  <2> QED
    BY <2>1, <2>2 DEF HubInit, HubTyped
<1>2. QueuesTyped
  BY HubAssumption DEF HubInit, QueuesTyped
<1>3. HubLimits
  <2>1. Registered = {} /\ clientSlots = {}
    BY DEF HubInit, Registered
  <2> QED
    BY <2>1, NoneAtAll, HubAssumption DEF HubLimits
<1>4. PagesKept
  BY DEF HubInit, PagesKept, Served
<1>5. WrappersKept
  BY DEF HubInit, WrappersKept
<1>6. PagesTold /\ PagesLinked
  <2>1. \A s \in Pages : ~Owns(s)
    BY DEF HubInit, Owns
  <2> QED
    BY <2>1 DEF PagesTold, PagesLinked, Hears
<1> QED
  BY <1>1, <1>2, <1>3, <1>4, <1>5, <1>6 DEF HubInv

\* A step of another component changes nothing.
LEMMA HubRests ==
    ASSUME HubInv, UNCHANGED hubVars
    PROVE  HubInv'
<1> USE DEF HubInv, hubVars, pageVars, wrapperVars, deviceVars, upVars
<1>1. HubTyped'
  BY DEF HubTyped
<1>2. QueuesTyped'
  BY DEF QueuesTyped, PageFrames
<1>3. HubLimits' /\ PagesKept' /\ WrappersKept'
  BY DEF HubLimits, Registered, PagesKept, Served, Owns, WrappersKept
<1>4. PagesTold' /\ PagesLinked'
  BY DEF PagesTold, PagesLinked, Hears, Owns, Live, DropPending
<1> QED
  BY <1>1, <1>2, <1>3, <1>4

\* Who has a frame to get and may still get it hears.
LEMMA SenderHears ==
    ASSUME HubTyped, PagesKept, NEW s \in Pages, ~connClosed[s], connQueue[s] # <<>>,
           wsOpen[s], here[s]
    PROVE  Hears(s)
<1>1. task[s] \notin {"out", "probe", "leaving", "gone"}
  BY DEF PagesKept
<1>2. task[s] \in Served
  BY <1>1 DEF HubTyped, Served
<1> QED
  BY <1>2 DEF PagesKept, Hears

\* Only the sender of a page delivers, to a page that hears.
LEMMA DeliveredToHearers ==
    ASSUME HubTyped, PagesKept, HubNext, NEW x \in Pages, got'[x] # got[x]
    PROVE  /\ Hears(x) /\ connQueue[x] # <<>> /\ ~connClosed[x]
           /\ got'[x] = IF Head(connQueue[x])[1] \in Broadcasts THEN Head(connQueue[x]) ELSE got[x]
<1>1. got' = got \/ \E s \in Pages : SenderStep(s)
  BY DEF HubNext, Accept, Register, StopPredecessor, BeginForward, EndForward, Leave,
     Left, PageGoes, GuardFires, WrapperConnects, WrapperHello, Authorize, LiveFrame,
     RoutedFrame, WrapperLost, WrapperGone, DropNext, EndSession, RevokeRow,
     DisconnectWrapper
<1>2. PICK s \in Pages : SenderStep(s)
  BY <1>1
<1>3. /\ ~connClosed[s] /\ connQueue[s] # <<>> /\ wsOpen[s] /\ here[s]
      /\ got' = [got EXCEPT ![s] = IF Head(connQueue[s])[1] \in Broadcasts
                                   THEN Head(connQueue[s]) ELSE @]
  BY <1>2, SenderOutcomes
<1>4. x = s
  BY <1>3
<1> QED
  BY <1>3, <1>4, SenderHears

\* What one frame more on a connection may be.
NoGap(s) ==
    got'[s] # got[s] =>
        \/ got[s] = Offline
        \/ got'[s][2] = got[s][2] + 1
        \/ DropPending(s) /\ got'[s][1] # "live" /\ got'[s][2] > got[s][2]

\* A page gets what comes next.
LEMMA GapSteps ==
    ASSUME HubTyped, QueuesTyped, PagesKept, PagesLinked, HubNext
    PROVE  \A s \in Pages : NoGap(s)
<1> SUFFICES ASSUME NEW s \in Pages, got'[s] # got[s]
             PROVE  \/ got[s] = Offline
                    \/ got'[s][2] = got[s][2] + 1
                    \/ DropPending(s) /\ got'[s][1] # "live" /\ got'[s][2] > got[s][2]
  BY DEF NoGap
<1>1. /\ Hears(s) /\ connQueue[s] # <<>>
      /\ got'[s] = IF Head(connQueue[s])[1] \in Broadcasts THEN Head(connQueue[s]) ELSE got[s]
  BY DeliveredToHearers
<1>2. connQueue[s] \in Seq(PageFrames(s)) /\ DropPending(s) \in BOOLEAN
  BY DEF QueuesTyped, DropPending
<1>3. Linked(connQueue[s], got[s], DropPending(s))
  BY <1>1 DEF PagesLinked
<1>4. got'[s] = got[s] \/ got[s] = Offline \/ Succeeds(got[s], got'[s], DropPending(s))
  BY <1>1, <1>2, <1>3, LinkedTail
<1> QED
  BY <1>4 DEF Succeeds

\* A frame goes up from whoever is sending, who is the newest of its client id.
LEMMA UplinkSteps ==
    ASSUME HubTyped, PagesKept, HubNext, uplink' # uplink
    PROVE  /\ newest[clientId[uplink'[2]]] = uplink'[2]
           /\ uplink'[2] \in Pages /\ task[uplink'[2]] \in {"helloing", "forwarding"}
<1>1. uplink' = uplink \/ \E s \in Pages : EndForward(s)
  BY DEF HubNext, Accept, Register, StopPredecessor, BeginForward, Leave, Left,
     SenderStep, PageGoes, GuardFires, WrapperConnects, WrapperHello, Authorize,
     LiveFrame, RoutedFrame, WrapperLost, WrapperGone, DropNext, EndSession, RevokeRow,
     DisconnectWrapper, upVars
<1>2. PICK s \in Pages : EndForward(s)
  BY <1>1
<1>3. task[s] \in {"helloing", "forwarding"} /\ uplink' = <<uplink[1] + 1, s>>
  BY <1>2, EndForwardOutcomes
<1> QED
  BY <1>3 DEF PagesKept

\* Who is silenced gets nothing and sends nothing.
Silent(s) ==
    guard[s] = "fired" /\ s \notin swallowed
        => got'[s] = got[s] /\ (uplink' # uplink => uplink'[2] # s)

\* The silenced pages, step by step.
LEMMA SilentSteps ==
    ASSUME HubTyped, PagesKept, HubNext
    PROVE  \A s \in Pages : Silent(s)
BY DeliveredToHearers, UplinkSteps DEF PagesKept, Silent

(* The inductive invariant of the hub: who is registered, who waits for a  *)
(* drop, what every page was told last, and that no queue skips a frame    *)
(* (forward.py, pairing.py).                                               *)
THEOREM HubInvariant == HubSpec => []HubInv
<1>1. HubInit => HubInv
  BY HubStarts
<1>2. HubInv /\ [HubNext]_hubVars => HubInv'
  <2> SUFFICES ASSUME HubInv, [HubNext]_hubVars PROVE HubInv'
    OBVIOUS
  <2>1. CASE HubNext
    BY <2>1, HubTypedSteps, QueuesTypedSteps, HubLimitsSteps, PagesKeptSteps,
       WrappersKeptSteps,
       HearingSteps DEF HubInv
  <2>2. CASE UNCHANGED hubVars
    BY <2>2, HubRests
  <2> QED
    BY <2>1, <2>2
<1> QED
  BY <1>1, <1>2, PTL DEF HubSpec

\* What a page was told last is what the invariant says of it.
LEMMA LastToldIsTold ==
    ASSUME QueuesTyped, NEW s \in Pages
    PROVE  \E x \in Told(connQueue[s], got[s]) : LastTold(s) = x[1]
<1> DEFINE q == connQueue[s]
           told == {i \in 1 .. Len(q) : q[i][1] \in Broadcasts}
<1>1. q \in Seq(PageFrames(s))
  BY DEF QueuesTyped
<1>2. told = {i \in 1 .. Len(q) : BroadcastAt(q, i)}
  BY DEF BroadcastAt
<1>3. CASE told = {}
  <2>1. got[s] \in Told(q, got[s])
    BY <1>2, <1>3, ToldIs
  <2> QED
    BY <1>3, <2>1 DEF LastTold
<1>4. CASE told # {}
  <2>1. PICK k \in 1 .. Len(q) : BroadcastAt(q, k) /\ \A j \in k + 1 .. Len(q) : ~BroadcastAt(q, j)
    BY <1>1, <1>2, <1>4, Lasts
  <2>2. k \in told /\ \A j \in told : j <= k
    BY <1>1, <1>2, <2>1
  <2> DEFINE m == CHOOSE i \in told : \A j \in told : j <= i
  <2>3. m \in told /\ \A j \in told : j <= m
    BY <2>2
  <2>4. m = k
    BY <2>2, <2>3
  <2>5. LastTold(s) = q[m][1]
    BY <1>4 DEF LastTold
  <2>6. q[k] \in Told(q, got[s])
    BY <2>1, ToldIs
  <2> QED
    BY <2>4, <2>5, <2>6
<1> QED
  BY <1>3, <1>4

(* The hub always: types and limits, one served wrapper, answers to the    *)
(* page that asked, true status, no revoked device.                        *)
THEOREM HubIsSafe == HubSpec => []HubSafe
<1>1. HubInv => HubSafe
  <2> SUFFICES ASSUME HubInv PROVE HubSafe
    OBVIOUS
  <2> USE DEF HubInv
  <2>1. HubTypeOK
    <3>1. \A s \in Pages : PageFrames(s) \subseteq Frames
      BY DEF PageFrames, Frames
    <3>2. \A s \in Pages : connQueue[s] \in Seq(Frames) /\ Len(connQueue[s]) <= QueueCap
      BY <3>1 DEF QueuesTyped
    <3>3. connQueue \in [Pages -> Seq(Frames)]
      BY <3>2 DEF QueuesTyped
    <3>4. got \in [Pages -> Frames]
      BY DEF QueuesTyped, Frames
    <3>5. Cardinality(clientSlots) <= MaxClients + 1 /\ Cardinality(Registered) <= MaxClients
      BY DEF HubLimits, AtMost
    <3> QED
      BY <3>2, <3>3, <3>4, <3>5 DEF HubTypeOK, HubTyped
  <2>2. ServedIsRegistered
    <3>1. \A s \in Pages : Owns(s) => s \in Registered
      BY HubAssumption DEF Owns, Registered, HubTyped
    <3> QED
      BY <3>1 DEF ServedIsRegistered, PagesKept, Served
  <2>3. AnswersStayHome
    <3>1. ASSUME NEW s \in Pages, NEW i \in 1 .. Len(connQueue[s]), connQueue[s][i][1] = "answer"
          PROVE  connQueue[s][i] = Answer(s)
      <4>1. connQueue[s][i] \in PageFrames(s)
        BY DEF QueuesTyped
      <4> QED
        BY <3>1, <4>1 DEF PageFrames, Broadcasts, Offline
    <3> QED
      BY <3>1 DEF AnswersStayHome
  <2>4. StatusIsTrue
    <3>1. ASSUME NEW s \in Registered, here[s], wsOpen[s], ~connClosed[s],
                 \A w \in Wrappers : s \notin toDrop[w]
          PROVE  /\ LastTold(s) \in {"up", "live"} => \E w \in Wrappers : wrapperTask[w] = "live"
                 /\ LastTold(s) = "down" => \A w \in Wrappers : wrapperTask[w] # "live"
      <4>1. s \in Pages /\ Owns(s)
        BY HubAssumption DEF Registered, HubTyped, PagesKept, Owns
      <4>2. Hears(s)
        BY <3>1, <4>1 DEF Hears
      <4>3. PICK x \in Told(connQueue[s], got[s]) : LastTold(s) = x[1]
        BY <4>1, LastToldIsTold
      <4>4. x # Offline => /\ x[1] \in {"up", "live"} => \E w \in Wrappers : Live(w)
                           /\ x[1] = "down" => \A w \in Wrappers : ~Live(w)
        BY <3>1, <4>1, <4>2 DEF PagesTold
      <4> QED
        BY <4>3, <4>4 DEF Offline, Live
    <3> QED
      BY <3>1 DEF StatusIsTrue
  <2>5. RevokedDeviceLeaves
    BY DEF WrappersKept, RevokedDeviceLeaves
  <2> QED
    BY <2>1, <2>2, <2>3, <2>4, <2>5 DEF HubSafe
<1> QED
  BY <1>1, HubInvariant, PTL

(* What a step of the hub never does: let a socket that lost its client id *)
(* be heard, skip a frame on a connection, or serve an ended session.      *)
THEOREM HubStepsHold == HubSpec => HubSteps
<1>1. HubInv /\ [HubNext]_hubVars
        => [uplink' # uplink => newest[clientId[uplink'[2]]] = uplink'[2]]_hubVars
  BY UplinkSteps DEF HubInv
<1>2. HubInv /\ [HubNext]_hubVars => [\A s \in Pages : NoGap(s)]_hubVars
  BY GapSteps DEF HubInv
<1>3. HubInv /\ [HubNext]_hubVars => [\A s \in Pages : Silent(s)]_hubVars
  BY SilentSteps DEF HubInv
<1>4. HubSpec => UplinkIsNewest
  BY <1>1, HubInvariant, PTL DEF HubSpec, UplinkIsNewest
<1>5. HubSpec => NoGapOnSocket
  BY <1>2, HubInvariant, PTL DEF HubSpec, NoGapOnSocket, NoGap
<1>6. HubSpec => EndedSessionSilent
  BY <1>3, HubInvariant, PTL DEF HubSpec, EndedSessionSilent, Silent
<1> QED
  BY <1>4, <1>5, <1>6 DEF HubSteps
=============================================================================
