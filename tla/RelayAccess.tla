---------------------------- MODULE RelayAccess ----------------------------
(***************************************************************************)
(* Who may use the relay (relay/server.py, devices.py, client_pairing.py)  *)
(* and whom it notifies (push.py): browser sessions, one-time grants for   *)
(* browsers, one-time codes for machines, and push subscriptions.          *)
(*                                                                         *)
(* Sessions, grants and requests live in the process; codes, devices and   *)
(* subscriptions in SQLite.  A request checks its session first and acts   *)
(* after an await.  What has expired is removed by whoever next looks at   *)
(* it, which is modelled as its removal at once.                           *)
(***************************************************************************)
EXTENDS Naturals, FiniteSets

CONSTANTS
    Sessions,      \* jti values, random and so never used twice
    Subjects,      \* users
    Grants,        \* tokens of browser grants
    Codes,         \* pairing codes of machines
    Devices,       \* machine ids
    Endpoints,     \* push endpoints of browsers
    Nobody,        \* no subject, no row, no code
    SessionCap,    \* cfg.session_registry_cap
    LoginSlots,    \* cfg.login_inflight_cap
    GrantCap,      \* ClientPairingStore.cap
    DeviceCap,     \* devices of one subject
    AccessBudgets  \* bounds: requests of browsers, turns that end, restarts of the relay

ASSUME AccessAssumption ==
    /\ Nobody \notin Sessions \cup Subjects \cup Grants \cup Codes \cup Devices
    /\ SessionCap \in Nat \ {0} /\ LoginSlots \in Nat \ {0}
    /\ GrantCap \in Nat \ {0} /\ DeviceCap \in Nat \ {0}
    /\ AccessBudgets \subseteq [requests : Nat, notices : Nat, restarts : Nat]

VARIABLES
    entries,      \* SessionRegistry._entries
    reading,      \* logins that hold a slot of login_slots
    grants,       \* ClientPairingStore._grants: the subject of a grant
    redeeming,    \* redemptions between the grant and the session
    requests,     \* requests past their session check: <<kind, session>>
    goingOut,     \* logouts between the subscriptions and the session
    codes,        \* pairing_codes: the code of a subject
    devices,      \* devices: the owner of a machine
    rows,         \* push_subscriptions: the session of an endpoint
    deliveries    \* _deliver tasks

VARIABLES
    who,          \* history: the subject of a session that was ever tried
    past,         \* history: sessions whose lifetime has passed
    grantOf,      \* history: the grant a session came from
    issuedTo,     \* history: the subject a grant or a code was issued to
    codeOf,       \* history: the code a machine was enrolled with
    spare         \* history: requests, notices and restarts left

memoryVars == <<entries, reading, grants, redeeming, requests, goingOut, deliveries>>
tableVars == <<codes, devices, rows>>
historyVars == <<who, past, grantOf, issuedTo, codeOf, spare>>
accessVars == <<memoryVars, tableVars, historyVars>>

\* Kinds of requests.
Kinds == {"pairClient", "pairDevice", "closePairing", "subscribe", "unsubscribe"}

AccessInit ==
    /\ entries = {} /\ reading = {} /\ redeeming = {} /\ requests = {} /\ goingOut = {}
    /\ grants = [g \in Grants |-> Nobody]
    /\ codes = [u \in Subjects |-> Nobody]
    /\ devices = [d \in Devices |-> Nobody]
    /\ rows = [e \in Endpoints |-> Nobody]
    /\ deliveries = {}
    /\ who = [s \in Sessions |-> Nobody]
    /\ past = {}
    /\ grantOf = [s \in Sessions |-> Nobody]
    /\ issuedTo = [x \in Grants \cup Codes |-> Nobody]
    /\ codeOf = [d \in Devices |-> Nobody]
    /\ spare \in AccessBudgets

(***************************************************************************)
(* Sessions.                                                               *)
(***************************************************************************)

\* A login takes a slot without an await, or is turned away.
BeginLogin(s) ==
    /\ who[s] = Nobody
    /\ Cardinality(reading) < LoginSlots
    /\ reading' = reading \cup {s}
    /\ \E u \in Subjects : who' = [who EXCEPT ![s] = u]
    /\ UNCHANGED <<entries, grants, redeeming, requests, goingOut, deliveries, tableVars, past,
                   grantOf, issuedTo, codeOf, spare>>

\* register: a session more than the registry holds is refused.
Registers(s) == entries' = IF Cardinality(entries) >= SessionCap THEN entries ELSE entries \cup {s}

\* The body was read: the slot is free, and the password right or wrong.
EndLogin(s) ==
    /\ s \in reading
    /\ reading' = reading \ {s}
    /\ Registers(s) \/ UNCHANGED entries
    /\ UNCHANGED <<grants, redeeming, requests, goingOut, deliveries, tableVars, historyVars>>

\* remove_session: by jti, whoever has it.
WithoutSession(s) == [e \in Endpoints |-> IF rows[e] = s THEN Nobody ELSE rows[e]]

\* logout: the subscriptions go first.
BeginLogout(s) ==
    /\ s \in entries
    /\ s \notin goingOut
    /\ goingOut' = goingOut \cup {s}
    /\ rows' = WithoutSession(s)
    /\ UNCHANGED <<entries, reading, grants, redeeming, requests, deliveries, codes, devices,
                   historyVars>>

EndLogout(s) ==
    /\ s \in goingOut
    /\ goingOut' = goingOut \ {s}
    /\ entries' = entries \ {s}
    /\ UNCHANGED <<reading, grants, redeeming, requests, deliveries, tableVars, historyVars>>

SessionExpires(s) ==
    /\ s \in entries
    /\ entries' = entries \ {s}
    /\ past' = past \cup {s}
    /\ UNCHANGED <<reading, grants, redeeming, requests, goingOut, deliveries, tableVars,
                   who, grantOf, issuedTo, codeOf, spare>>

(***************************************************************************)
(* Requests of a session.                                                  *)
(***************************************************************************)

BeginRequest(s, k) ==
    /\ s \in entries
    /\ spare.requests > 0
    /\ spare' = [spare EXCEPT !.requests = @ - 1]
    /\ requests' = requests \cup {<<k, s>>}
    /\ UNCHANGED <<entries, reading, grants, redeeming, goingOut, deliveries, tableVars, who, past,
                   grantOf, issuedTo, codeOf>>

Done(s, k) == <<k, s>> \in requests /\ requests' = requests \ {<<k, s>>}

\* A grant for a browser, for the subject of the session that asks.
CreateGrant(s) ==
    /\ Done(s, "pairClient")
    /\ \/ /\ Cardinality({g \in Grants : grants[g] # Nobody}) < GrantCap
          /\ \E g \in Grants :
                /\ issuedTo[g] = Nobody
                /\ grants' = [grants EXCEPT ![g] = who[s]]
                /\ issuedTo' = [issuedTo EXCEPT ![g] = who[s]]
       \/ UNCHANGED <<grants, issuedTo>>    \* no room, no wrapper, not allowed
    /\ UNCHANGED <<entries, reading, redeeming, goingOut, deliveries, tableVars, who, past,
                   grantOf, codeOf, spare>>

\* mutant: the grant is kept until the session is registered
ClaimGrantKeeping(g, s) ==
    /\ who[s] = Nobody
    /\ grants[g] # Nobody
    /\ redeeming' = redeeming \cup {s}
    /\ who' = [who EXCEPT ![s] = grants[g]]
    /\ grantOf' = [grantOf EXCEPT ![s] = g]
    /\ UNCHANGED <<grants, entries, reading, requests, goingOut, deliveries, tableVars, past,
                   issuedTo, codeOf, spare>>

\* redeem pops the grant whatever comes of it; a wrong scope only spends it.
ClaimGrant(g, s) ==
    /\ who[s] = Nobody
    /\ grants[g] # Nobody
    /\ grants' = [grants EXCEPT ![g] = Nobody]
    /\ \/ /\ redeeming' = redeeming \cup {s}
          /\ who' = [who EXCEPT ![s] = grants[g]]
          /\ grantOf' = [grantOf EXCEPT ![s] = g]
       \/ UNCHANGED <<redeeming, who, grantOf>>
    /\ UNCHANGED <<entries, reading, requests, goingOut, deliveries, tableVars, past, issuedTo,
                   codeOf, spare>>

IssueSession(s) ==
    /\ s \in redeeming
    /\ redeeming' = redeeming \ {s}
    /\ Registers(s)
    /\ UNCHANGED <<reading, grants, requests, goingOut, deliveries, tableVars, historyVars>>

GrantExpires(g) ==
    /\ grants[g] # Nobody
    /\ grants' = [grants EXCEPT ![g] = Nobody]
    /\ UNCHANGED <<entries, reading, redeeming, requests, goingOut, deliveries, tableVars,
                   historyVars>>

\* create_pairing: a new code replaces the old one of the subject.
CreatePairing(s) ==
    /\ Done(s, "pairDevice")
    /\ \E c \in Codes :
        /\ issuedTo[c] = Nobody
        /\ codes' = [codes EXCEPT ![who[s]] = c]
        /\ issuedTo' = [issuedTo EXCEPT ![c] = who[s]]
    /\ UNCHANGED <<entries, reading, grants, redeeming, goingOut, deliveries, devices, rows, who,
                   past, grantOf, codeOf, spare>>

ClosePairing(s) ==
    /\ Done(s, "closePairing")
    /\ codes' = [codes EXCEPT ![who[s]] = Nobody]
    /\ UNCHANGED <<entries, reading, grants, redeeming, goingOut, deliveries, devices, rows,
                   historyVars>>

CodeExpires(u) ==
    /\ codes[u] # Nobody
    /\ codes' = [codes EXCEPT ![u] = Nobody]
    /\ UNCHANGED <<memoryVars, devices, rows, historyVars>>

Owned(u) == {d \in Devices : devices[d] = u}

\* _redeem: one transaction; a subject with too many devices keeps the code.
Redeem(c) ==
    \E u \in Subjects :
        /\ codes[u] = c
        /\ Cardinality(Owned(u)) < DeviceCap
        /\ codes' = [codes EXCEPT ![u] = Nobody]
        /\ \E d \in Devices :
            /\ codeOf[d] = Nobody
            /\ devices' = [devices EXCEPT ![d] = u]
            /\ codeOf' = [codeOf EXCEPT ![d] = c]
        /\ UNCHANGED <<memoryVars, rows, who, past, grantOf, issuedTo, spare>>

RevokeDevice(d) ==
    /\ \E s \in entries : devices[d] = who[s]
    /\ devices' = [devices EXCEPT ![d] = Nobody]
    /\ UNCHANGED <<memoryVars, codes, rows, historyVars>>

(***************************************************************************)
(* Push notices, for one machine.                                          *)
(***************************************************************************)

\* upsert: an endpoint has one row, that of whoever subscribed last.
Subscribe(s, e) ==
    /\ Done(s, "subscribe")
    /\ rows' = [rows EXCEPT ![e] = s]
    /\ UNCHANGED <<entries, reading, grants, redeeming, goingOut, deliveries, codes, devices,
                   historyVars>>

\* mutant: the endpoint's row is removed whoever it belongs to
UnsubscribeAny(s, e) ==
    /\ Done(s, "unsubscribe")
    /\ rows' = [rows EXCEPT ![e] = Nobody]
    /\ UNCHANGED <<entries, reading, grants, redeeming, goingOut, deliveries, codes, devices,
                   historyVars>>

\* remove_endpoint: by subject and endpoint.
Unsubscribe(s, e) ==
    /\ Done(s, "unsubscribe")
    /\ rows' = [rows EXCEPT ![e] = IF @ # Nobody /\ who[@] = who[s] THEN Nobody ELSE @]
    /\ UNCHANGED <<entries, reading, grants, redeeming, goingOut, deliveries, codes, devices,
                   historyVars>>

\* notify_turn_end: rows that have expired are deleted, the others are read.
Notify ==
    /\ spare.notices > 0
    /\ spare' = [spare EXCEPT !.notices = @ - 1]
    /\ rows' = [e \in Endpoints |-> IF rows[e] \in past THEN Nobody ELSE rows[e]]
    /\ deliveries' = deliveries \cup
        {[notice |-> spare.notices, endpoint |-> e, session |-> rows[e], at |-> "check",
          live |-> rows[e] \in entries] : e \in {f \in Endpoints : rows'[f] # Nobody}}
    /\ UNCHANGED <<entries, reading, grants, redeeming, requests, goingOut, codes, devices, who,
                   past, grantOf, issuedTo, codeOf>>

SessionActive(s) == s \in entries

Moves(d, stage) == deliveries' = (deliveries \ {d}) \cup
                                 (IF stage = "done" THEN {} ELSE {[d EXCEPT !.at = stage]})

Check(d) ==
    /\ d.at = "check"
    /\ Moves(d, IF SessionActive(d.session) THEN "send" ELSE "drop")
    /\ UNCHANGED <<entries, reading, grants, redeeming, requests, goingOut, tableVars, historyVars>>

\* The push service accepts the notice, fails, or says that the endpoint is gone.
SendNotice(d) ==
    /\ d.at = "send"
    /\ Moves(d, "done") \/ Moves(d, "gone")
    /\ UNCHANGED <<entries, reading, grants, redeeming, requests, goingOut, tableVars, historyVars>>

SameRow(d) == rows[d.endpoint] # Nobody /\ who[rows[d.endpoint]] = who[d.session]

\* remove_subscription: by subject, machine and endpoint.
RemoveRow(d) ==
    /\ d.at \in {"drop", "gone"}
    /\ Moves(d, "done")
    /\ rows' = [rows EXCEPT ![d.endpoint] = IF SameRow(d) THEN Nobody ELSE @]
    /\ UNCHANGED <<entries, reading, grants, redeeming, requests, goingOut, codes, devices,
                   historyVars>>

Restart ==
    /\ spare.restarts > 0
    /\ spare' = [spare EXCEPT !.restarts = @ - 1]
    /\ entries' = {} /\ reading' = {} /\ redeeming' = {} /\ requests' = {} /\ goingOut' = {}
    /\ grants' = [g \in Grants |-> Nobody]
    /\ deliveries' = {}
    /\ UNCHANGED <<tableVars, who, past, grantOf, issuedTo, codeOf>>

AccessNext ==
    \/ \E s \in Sessions :
        \/ BeginLogin(s) \/ EndLogin(s) \/ BeginLogout(s) \/ EndLogout(s) \/ SessionExpires(s)
        \/ \E k \in Kinds : BeginRequest(s, k)
        \/ CreateGrant(s) \/ IssueSession(s) \/ CreatePairing(s) \/ ClosePairing(s)
        \/ \E e \in Endpoints : Subscribe(s, e) \/ Unsubscribe(s, e)
        \/ \E g \in Grants : ClaimGrant(g, s)
    \/ \E g \in Grants : GrantExpires(g)
    \/ \E u \in Subjects : CodeExpires(u)
    \/ \E c \in Codes : Redeem(c)
    \/ \E d \in Devices : RevokeDevice(d)
    \/ Notify
    \/ \E d \in deliveries : Check(d) \/ SendNotice(d) \/ RemoveRow(d)
    \/ Restart

AccessSpec == AccessInit /\ [][AccessNext]_accessVars
-----------------------------------------------------------------------------
(* Types, and the limits: sessions, logins that read a body, open grants    *)
(* and devices of a subject.                                                *)
AccessTypeOK ==
    /\ entries \subseteq Sessions /\ Cardinality(entries) <= SessionCap
    /\ reading \subseteq Sessions /\ Cardinality(reading) <= LoginSlots
    /\ grants \in [Grants -> Subjects \cup {Nobody}]
    /\ Cardinality({g \in Grants : grants[g] # Nobody}) <= GrantCap
    /\ redeeming \subseteq Sessions
    /\ requests \subseteq Kinds \X Sessions
    /\ goingOut \subseteq Sessions
    /\ codes \in [Subjects -> Codes \cup {Nobody}]
    /\ devices \in [Devices -> Subjects \cup {Nobody}]
    /\ \A u \in Subjects : Cardinality(Owned(u)) <= DeviceCap
    /\ rows \in [Endpoints -> Sessions \cup {Nobody}]
    /\ \A d \in deliveries : d.endpoint \in Endpoints /\ d.session \in Sessions
    /\ who \in [Sessions -> Subjects \cup {Nobody}]
    /\ past \subseteq Sessions

(* A token that lets in lets in once: two redemptions that overlap never    *)
(* get two sessions out of a grant, nor two machines out of a code, and     *)
(* what they get belongs to whom the token was issued to                    *)
(* (client_pairing.py:1-6, devices.py:191-232).                             *)
TokensWorkOnce ==
    /\ \A s, t \in Sessions : grantOf[s] # Nobody /\ grantOf[s] = grantOf[t] => s = t
    /\ \A d, f \in Devices : codeOf[d] # Nobody /\ codeOf[d] = codeOf[f] => d = f
    /\ \A s \in Sessions : grantOf[s] # Nobody => who[s] = issuedTo[grantOf[s]]
    /\ \A d \in Devices : devices[d] # Nobody => devices[d] = issuedTo[codeOf[d]]

(* A notice is sent to a browser only if its session was still registered   *)
(* when the turn ended, although its row may have been written by a request *)
(* that overlapped the logout, or before a restart (push.py:268-273).       *)
NoticesForTheLive == \A d \in deliveries : d.at = "send" => d.live

\* In this step a request to unsubscribe ends that is of the row's account, and
\* no other endpoint loses its row with it.
UnsubscribedByOwner(e) ==
    /\ \E s \in Sessions : <<"unsubscribe", s>> \in requests \ requests' /\ who[s] = who[rows[e]]
    /\ \A f \in Endpoints \ {e} : rows'[f] = rows[f]

\* In this step a removal ends that was decided for a row of the same account and
\* endpoint: because the push service said that the endpoint is gone, or because
\* the session of that row, an older one than this, had ended.
RemovedByDelivery(e) ==
    \E d \in deliveries \ deliveries' :
        /\ d.endpoint = e /\ who[d.session] = who[rows[e]]
        /\ d.at = "gone" \/ (d.at = "drop" /\ d.session # rows[e])

(* A browser that is logged in keeps its subscription: it is removed by its *)
(* own logout, an unsubscribe of its own account, or the end of its         *)
(* endpoint, and otherwise only by a removal that was decided for an ended  *)
(* session of its account before it subscribed again (push.py:133-164,      *)
(* 270-277: rows are removed by subject and endpoint, not by session).      *)
SubscriptionKept ==
    [][\A e \in Endpoints :
        rows[e] \in entries \ goingOut /\ rows'[e] = Nobody /\ rows[e] \in entries' =>
            \/ rows[e] \in goingOut'
            \/ UnsubscribedByOwner(e)
            \/ RemovedByDelivery(e)]_accessVars

\* Accounts and push always: a token works once, a notice goes to a live session.
AccessSafe ==
    /\ AccessTypeOK
    /\ TokensWorkOnce
    /\ NoticesForTheLive
=============================================================================
