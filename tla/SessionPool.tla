----------------------------- MODULE SessionPool -----------------------------
(* The pool of resident sessions of the wrapper: switching to a session,     *)
(* creating one, the side sessions (/btw) that are forks nobody but their    *)
(* owner may see, deletion, the eviction of idle sessions at the limit, and  *)
(* the change of a session's key when Claude tells its real id.  Commands of *)
(* pages run one after the other; turns, one scheduled run and the listing   *)
(* of sessions run beside them.                                              *)
(*                                                                           *)
(* Source: wrapper/machine.py (_spawn, _spawn_btw, _handle_switch_session,   *)
(* _handle_new_session, _handle_query, _capture_session_id, _ctx_for,        *)
(* _handle_delete_session, _handle_close_btw, _handle_list_sessions,         *)
(* _run_work_schedule, run, the alias and tombstone files).                  *)
(*                                                                           *)
(* A context is a number; a key of the pool is <<"sid", s>> for the native   *)
(* session s, <<"tmp", n>> or <<"btw", n>> for the context n.                *)
EXTENDS Naturals, FiniteSets

CONSTANTS
    MaxResident,    \* max_concurrent_sessions
    MaxTombs,       \* PRIVATE_BTW_CAP
    MaxContexts,    \* bound: contexts made
    PoolBudgets     \* bounds: commands, listings, scheduled runs, faults, crashes

ASSUME PoolBounds ==
    /\ MaxResident \in Nat \ {0} /\ MaxTombs \in Nat \ {0} /\ MaxContexts \in Nat \ {0}
    /\ PoolBudgets \subseteq
          [commands : Nat, lists : Nat, runs : Nat, faults : Nat, crashes : Nat]

VARIABLES
    pool,       \* self.sessions: key -> context
    ctxs,       \* the contexts made: number -> its session, turn and engine process
    focus,      \* focused_sid
    aliases,    \* _session_aliases: provisional key -> native session
    tombs,      \* _private_btw_sessions
    disk,       \* files: aliases, tombs, the transcripts, the session to resume
    act,        \* where the command and the scheduled run are
    listing,    \* a listing: "off", "begun", "read", "filtered"; what it has found
    published,  \* history: what the last listing told the pages
    forks,      \* history: native sessions that are private forks
    sidsUsed,   \* history: native sessions so far
    odd,        \* history: what has gone astray (see the properties)
    poolLeft

poolVars == <<pool, ctxs, focus, aliases, tombs, disk, act, listing, published, forks,
              sidsUsed, odd, poolLeft>>

Actors == {"lane", "runner"}
NoneKey == <<"none", 0>>
Idle == [op |-> "none", at |-> "off", n |-> 0, key |-> NoneKey, victim |-> 0]

Sid(s) == <<"sid", s>>

(* Native session 1 is there, and is resident after the start.               *)
PoolInit ==
    /\ poolLeft \in PoolBudgets
    /\ ctxs = <<[key |-> Sid(1), first |-> Sid(1), sid |-> 1, kind |-> "code", codex |-> FALSE,
                 state |-> "idle", live |-> TRUE, wrote |-> 1, turns |-> 0, told |-> TRUE]>>
    /\ pool = [k \in {Sid(1)} |-> 1] /\ focus = Sid(1)
    /\ aliases = <<>> /\ tombs = {}
    /\ disk = [aliases |-> <<>>, tombs |-> {}, files |-> {1}, saved |-> 1]
    /\ act = [a \in Actors |-> Idle]
    /\ listing = [at |-> "off", found |-> {}, raced |-> FALSE]
    /\ published = {} /\ forks = {} /\ sidsUsed = 1
    /\ odd = [strayed |-> FALSE, orphans |-> {}, doubled |-> {}, exposed |-> {}, unsure |-> FALSE]

SpendsPool(what) == poolLeft[what] > 0 /\ poolLeft' = [poolLeft EXCEPT ![what] = @ - 1]

Less(f, k) == [x \in DOMAIN f \ {k} |-> f[x]]
With(f, k, v) == [x \in DOMAIN f \cup {k} |-> IF x = k THEN v ELSE f[x]]

ActsAt(a, op, at) == act[a].op = op /\ act[a].at = at
Goes(a, at) == act' = [act EXCEPT ![a].at = at]
Done(a) == act' = [act EXCEPT ![a] = Idle]

Resident(n) == \E k \in DOMAIN pool : pool[k] = n
----------------------------------------------------------------------------
(* _ctx_for: an alias, a key, or the id of a resident session; else nothing. *)

Resolved(key) == IF key \in DOMAIN aliases THEN Sid(aliases[key]) ELSE key

(* Mutant: a key that is not resident means the focused session.             *)
CtxOrFocus(key) ==
    IF Resolved(key) \in DOMAIN pool THEN pool[Resolved(key)]
    ELSE IF focus \in DOMAIN pool THEN pool[focus] ELSE 0

CtxFor(key) ==
    LET r == Resolved(key)
        same == {k \in DOMAIN pool : ctxs[pool[k]].kind # "btw" /\ Sid(ctxs[pool[k]].sid) = r}
    IN IF r \in DOMAIN pool THEN pool[r]
       ELSE IF same # {} THEN pool[CHOOSE k \in same : TRUE] ELSE 0
----------------------------------------------------------------------------
(* The command of a page: which one, and of which session it knows.  To open *)
(* a side session from a side session is to open one from its parent.        *)

(* A page knows a session by the key it was told first, by its id, or from a *)
(* listing.                                                                  *)
KnownKeys == LET told == {n \in DOMAIN ctxs : ctxs[n].told} IN
    {NoneKey} \cup {Sid(s) : s \in published}
            \cup {ctxs[n].first : n \in told} \cup {ctxs[n].key : n \in told}

PoolCommands == {"switch", "query", "delete", "close", "open", "new"}

CommandBegins(op, key) ==
    /\ act["lane"] = Idle /\ SpendsPool("commands")
    /\ op = "new" <=> key = NoneKey
    /\ op = "close" => key[1] = "btw"
    /\ op \in {"switch", "delete", "open"} => key[1] # "btw"
    /\ key \notin {Sid(s) : s \in tombs}
    /\ act' = [act EXCEPT !["lane"] =
                  [Idle EXCEPT !.op = op, !.at = IF op = "new" THEN "spawn" ELSE "begin",
                               !.key = key]]
    /\ UNCHANGED <<pool, ctxs, focus, aliases, tombs, disk, listing, published, forks, sidsUsed,
                   odd>>

(* The scheduled run whose lease was claimed.                                *)
RunBegins ==
    /\ act["runner"] = Idle /\ SpendsPool("runs")
    /\ act' = [act EXCEPT !["runner"] = [Idle EXCEPT !.op = "scheduled", !.at = "spawn"]]
    /\ UNCHANGED <<pool, ctxs, focus, aliases, tombs, disk, listing, published, forks, sidsUsed,
                   odd>>

(* A switch to a resident session is a change of focus; a terminal's session *)
(* is asked for its state before.                                            *)
Focuses(n) ==
    /\ focus' = ctxs[n].key
    /\ ctxs' = [ctxs EXCEPT ![n].told = TRUE]
    /\ odd' = [odd EXCEPT !.strayed = ~Resident(n)]

(* The native session is written by a context that has not been told its id. *)
Unknown(s) == s # 0 /\ \E n \in DOMAIN ctxs : ctxs[n].wrote = s /\ ctxs[n].sid = 0

SwitchFinds ==
    LET n == CtxFor(act["lane"].key) IN
    /\ ActsAt("lane", "switch", "begin")
    /\ \/ /\ n = 0
          /\ act' = [act EXCEPT !["lane"].at = "spawn", !["lane"].key = Resolved(@)]
          /\ odd' = [odd EXCEPT !.doubled =
                        @ \cup {s \in published : Resolved(act["lane"].key) = Sid(s) /\ Unknown(s)}]
          /\ UNCHANGED <<ctxs, focus>>
       \/ /\ n # 0 /\ Focuses(n) /\ Done("lane")
       \/ /\ n # 0 /\ ~ctxs[n].codex /\ ctxs[n].kind = "code"
          /\ act' = [act EXCEPT !["lane"].at = "returned", !["lane"].n = n]
          /\ UNCHANGED <<ctxs, focus, odd>>
    /\ UNCHANGED <<pool, aliases, tombs, disk, listing, published, forks, sidsUsed, poolLeft>>
----------------------------------------------------------------------------
(* _spawn and _spawn_btw.                                                    *)

Spares(k) == k # focus /\ ctxs[pool[k]].state = "idle" /\ ctxs[pool[k]].kind # "btw"

Refuses(a) ==
    \/ act[a].op = "switch" /\ act[a].key \in {Sid(s) : s \in tombs}
    \/ act[a].op = "open" /\
          \/ CtxFor(act[a].key) = 0
          \/ ctxs[CtxFor(act[a].key)].sid = 0
          \/ Cardinality(tombs) + Cardinality({k \in DOMAIN pool :
                ctxs[pool[k]].kind = "btw" /\ ~ctxs[pool[k]].codex /\ ctxs[pool[k]].sid = 0})
             >= MaxTombs

(* The limit; an idle session makes room, and is closed in the next step.    *)
(* Of a side session the parent is kept in n.                                *)
Proceeds(a, at, victim) ==
    act' = [act EXCEPT ![a].at = at, ![a].victim = victim,
                       ![a].n = IF act[a].op = "open" THEN CtxFor(act[a].key) ELSE 0]

SpawnChecks(a) ==
    /\ act[a].at = "spawn" \/ ActsAt(a, "open", "begin")
    /\ IF Refuses(a) THEN Done(a) /\ UNCHANGED pool
       ELSE IF Cardinality(DOMAIN pool) < MaxResident
       THEN Proceeds(a, "connect", 0) /\ UNCHANGED pool
       ELSE \/ /\ \A k \in DOMAIN pool : ~Spares(k)
               /\ Done(a) /\ UNCHANGED pool
            \/ \E k \in DOMAIN pool :
                  /\ Spares(k)
                  /\ pool' = Less(pool, k)
                  /\ Proceeds(a, "evict", pool[k])
    /\ UNCHANGED <<ctxs, focus, aliases, tombs, disk, listing, published, forks, sidsUsed, odd,
                   poolLeft>>

EvictedCloses(a) ==
    /\ act[a].at = "evict"
    /\ ctxs' = [ctxs EXCEPT ![act[a].victim].live = FALSE]
    /\ act' = [act EXCEPT ![a].at = "connect", ![a].victim = 0]
    /\ UNCHANGED <<pool, focus, aliases, tombs, disk, listing, published, forks, sidsUsed, odd,
                   poolLeft>>

(* A session that is resumed has its id, one that Codex begins gets it now.  *)
NewCtx(a, codex) ==
    LET n == Cardinality(DOMAIN ctxs) + 1
        sid == IF act[a].op = "switch" THEN act[a].key[2]
               ELSE IF codex /\ act[a].op # "open" THEN sidsUsed + 1 ELSE 0
        key == IF act[a].op = "open" THEN <<"btw", n>>
               ELSE IF sid = 0 THEN <<"tmp", n>> ELSE Sid(sid)
    IN [key |-> key, first |-> key, sid |-> sid, codex |-> codex, state |-> "idle", live |-> TRUE,
        kind |-> CASE act[a].op = "open" -> "btw" [] act[a].op = "scheduled" -> "work"
                   [] OTHER -> "code",
        wrote |-> sid, turns |-> 0, told |-> FALSE]

IsCodex(s) == \E n \in DOMAIN ctxs : ctxs[n].sid = s /\ ctxs[n].codex

(* The engine is that of the parent, that of the session, or any.            *)
Engines(a) ==
    CASE act[a].op = "open" -> {ctxs[act[a].n].codex}
      [] act[a].op = "switch" -> {IsCodex(act[a].key[2])}
      [] OTHER -> BOOLEAN

(* A session that is gone is found to be so after the eviction for it.       *)
Gone(a) == act[a].op = "switch" /\ act[a].key \notin {Sid(s) : s \in disk.files}

SpawnConnects(a) ==
    /\ act[a].at = "connect" /\ Cardinality(DOMAIN ctxs) < MaxContexts /\ ~Gone(a)
    /\ \E codex \in Engines(a) :
          LET c == NewCtx(a, codex)
              n == Cardinality(DOMAIN ctxs) + 1
              fresh == c.sid # 0 /\ act[a].op # "switch"
          IN /\ ctxs' = With(ctxs, n, c)
             /\ pool' = With(pool, c.key, n)
             /\ sidsUsed' = IF fresh THEN sidsUsed + 1 ELSE sidsUsed
             /\ disk' = [disk EXCEPT !.files = IF fresh THEN @ \cup {c.sid} ELSE @,
                                     !.saved = IF act[a].op = "switch" /\ ~codex THEN c.sid ELSE @]
             /\ act' = [act EXCEPT ![a].at = "loading", ![a].n = n]
             /\ listing' = [listing EXCEPT !.raced = @ \/ (c.kind = "btw" /\ listing.at # "off")]
    /\ UNCHANGED <<odd, focus, aliases, tombs, published, forks, poolLeft>>

(* A preflight fails before the eviction, a connect after it.                *)
SpawnFails(a) ==
    /\ act[a].at \in {"spawn", "connect"}
    /\ IF act[a].at = "connect" /\ Gone(a) THEN UNCHANGED poolLeft ELSE SpendsPool("faults")
    /\ Done(a)
    /\ UNCHANGED <<pool, ctxs, focus, aliases, tombs, disk, listing, published, forks, sidsUsed,
                   odd>>

(* The history of a session that was resumed is read; then the caller has it. *)
SpawnReturns(a) ==
    /\ act[a].at = "loading" /\ act[a].op # "open"
    /\ act' = [act EXCEPT ![a].at = "returned", ![a].key = ctxs[act[a].n].key]
    /\ UNCHANGED <<pool, ctxs, focus, aliases, tombs, disk, listing, published, forks, sidsUsed,
                   odd, poolLeft>>

(* Only the page that asked is told of a side session.                       *)
SideOpens ==
    /\ ActsAt("lane", "open", "loading") /\ Done("lane")
    /\ ctxs' = [ctxs EXCEPT ![act["lane"].n].told = TRUE]
    /\ UNCHANGED <<pool, focus, aliases, tombs, disk, listing, published, forks, sidsUsed, odd,
                   poolLeft>>

(* Into view with it; a new one gets its first prompt.                       *)
ComesIntoView ==
    /\ act["lane"].at = "returned"
    /\ Focuses(act["lane"].n)
    /\ IF act["lane"].op = "switch" THEN Done("lane")
       ELSE act' = [act EXCEPT !["lane"].at = "begin", !["lane"].op = "query",
                               !["lane"].key = ctxs[act["lane"].n].key]
    /\ UNCHANGED <<pool, aliases, tombs, disk, listing, published, forks, sidsUsed, poolLeft>>

RunQueries ==
    /\ ActsAt("runner", "scheduled", "returned")
    /\ act' = [act EXCEPT !["runner"].at = "begin", !["runner"].op = "query",
                          !["runner"].key = ctxs[act["runner"].n].key]
    /\ UNCHANGED <<pool, ctxs, focus, aliases, tombs, disk, listing, published, forks, sidsUsed,
                   odd, poolLeft>>
----------------------------------------------------------------------------
(* A prompt: the session is looked up, its owner is asked, then it is refused *)
(* or claimed, whatever has become of it meanwhile.  The turn connects anew     *)
(* where a reload was due, so it may even bring a closed session back.       *)

QueryFinds(a) ==
    LET n == CtxFor(act[a].key) IN
    /\ ActsAt(a, "query", "begin")
    /\ IF n # 0 /\ ctxs[n].state = "idle"
       THEN act' = [act EXCEPT ![a].at = "claim", ![a].n = n]
       ELSE IF a = "runner" THEN Goes(a, "over") ELSE Done(a)
    /\ UNCHANGED <<pool, ctxs, focus, aliases, tombs, disk, listing, published, forks, sidsUsed,
                   odd, poolLeft>>

QueryClaims(a) ==
    LET n == act[a].n IN
    /\ ActsAt(a, "query", "claim")
    /\ \/ UNCHANGED <<ctxs, odd>>
       \/ \E reload \in BOOLEAN :
             /\ reload => ctxs[n].sid # 0 /\ ctxs[n].kind # "btw"
             /\ ctxs' = [ctxs EXCEPT ![n].state = "running", ![n].turns = @ + 1,
                                     ![n].live = @ \/ reload, ![n].told = TRUE]
             /\ odd' = [odd EXCEPT !.orphans = IF Resident(n) THEN @ ELSE @ \cup {n}]
    /\ IF a = "runner" THEN Goes(a, "over") ELSE Done(a)
    /\ UNCHANGED <<pool, focus, aliases, tombs, disk, listing, published, forks, sidsUsed, poolLeft>>

(* The run waits for its turn; a session that has got no id is ended.        *)
RunOver ==
    LET n == act["runner"].n IN
    /\ ActsAt("runner", "query", "over") /\ ctxs[n].turns = 0
    /\ IF ctxs[n].sid # 0 THEN UNCHANGED <<pool, ctxs, odd>>
       ELSE /\ ctxs' = [ctxs EXCEPT ![n].live = FALSE]
            /\ pool' = Less(pool, ctxs[n].key)
            /\ odd' = [odd EXCEPT !.strayed = @ \/ focus = ctxs[n].key]
    /\ Done("runner")
    /\ UNCHANGED <<focus, aliases, tombs, disk, listing, published, forks, sidsUsed, poolLeft>>

(* Claude writes the transcript of a new session before it tells its id.     *)
ClaudeWrites(n) ==
    /\ ctxs[n].turns > 0 /\ ctxs[n].live /\ ctxs[n].wrote = 0 /\ ~ctxs[n].codex
    /\ ctxs' = [ctxs EXCEPT ![n].wrote = sidsUsed + 1]
    /\ sidsUsed' = sidsUsed + 1
    /\ disk' = [disk EXCEPT !.files = @ \cup {sidsUsed + 1}]
    /\ forks' = IF ctxs[n].kind = "btw" THEN forks \cup {sidsUsed + 1} ELSE forks
    /\ UNCHANGED <<pool, focus, aliases, tombs, act, listing, published, odd, poolLeft>>

(* _capture_session_id: of a Work session the registry is told between the   *)
(* id and the change of the key.                                             *)
CanCapture(n) == ctxs[n].turns > 0 /\ ctxs[n].wrote # 0 /\ ctxs[n].sid = 0

LearnsId(n) ==
    /\ CanCapture(n) /\ ctxs[n].kind = "work"
    /\ ctxs' = [ctxs EXCEPT ![n].sid = ctxs[n].wrote]
    /\ UNCHANGED <<pool, focus, aliases, tombs, disk, act, listing, published, forks, sidsUsed,
                   odd, poolLeft>>

Remembered(old, sid) == With(aliases, old, sid)

Rekeys(n) ==
    LET old == ctxs[n].key
        sid == ctxs[n].wrote
    IN /\ old[1] = "tmp" /\ ctxs[n].turns > 0
       /\ IF ctxs[n].kind = "work" THEN ctxs[n].sid # 0 ELSE CanCapture(n)
       /\ aliases' = Remembered(old, sid)
       /\ \E kept \in BOOLEAN :
             /\ IF kept THEN UNCHANGED <<poolLeft, odd>>
                ELSE SpendsPool("faults") /\ odd' = [odd EXCEPT !.unsure = TRUE]
             /\ disk' = [disk EXCEPT !.saved = sid, !.aliases = IF kept THEN aliases' ELSE @]
       /\ pool' = With(Less(pool, old), Sid(sid), n)
       /\ ctxs' = [ctxs EXCEPT ![n].key = Sid(sid), ![n].sid = sid]
       /\ focus' = IF focus = old THEN Sid(sid) ELSE focus
       /\ UNCHANGED <<tombs, act, listing, published, forks, sidsUsed>>

(* The fork of a side session is made secret before its id is used; when     *)
(* that cannot be written the side session is ended.                         *)
ForkHidden(n) ==
    /\ CanCapture(n) /\ ctxs[n].kind = "btw"
    /\ disk' = [disk EXCEPT !.tombs = tombs \cup {ctxs[n].wrote}]
    /\ tombs' = tombs \cup {ctxs[n].wrote}
    /\ ctxs' = [ctxs EXCEPT ![n].sid = ctxs[n].wrote]
    /\ UNCHANGED <<pool, focus, aliases, act, listing, published, forks, sidsUsed, odd, poolLeft>>

(* gone: it is stopped and its transcript removed; retried: the second write *)
(* succeeds.                                                                 *)
ForkNotHidden(n) ==
    /\ CanCapture(n) /\ ctxs[n].kind = "btw" /\ SpendsPool("faults")
    /\ \E gone, retried \in BOOLEAN :
          /\ gone => ~retried
          /\ tombs' = IF gone THEN tombs ELSE tombs \cup {ctxs[n].wrote}
          /\ disk' = [disk EXCEPT !.files = IF gone THEN @ \ {ctxs[n].wrote} ELSE @,
                                  !.tombs = IF retried THEN tombs' ELSE @]
    /\ listing' = [listing EXCEPT !.raced = @ \/ listing.at # "off"]
    /\ pool' = Less(pool, ctxs[n].key)
    /\ ctxs' = [ctxs EXCEPT ![n].sid = ctxs[n].wrote, ![n].live = FALSE, ![n].state = "idle",
                            ![n].turns = 0]
    /\ UNCHANGED <<focus, aliases, act, published, forks, sidsUsed, odd>>

(* A turn whose engine was closed fails, and one may fail before Claude has  *)
(* told its id.                                                              *)
TurnOver(n) ==
    /\ ctxs[n].turns > 0
    /\ IF ~ctxs[n].live \/ ctxs[n].codex \/ (ctxs[n].sid # 0 /\ ctxs[n].key[1] # "tmp")
       THEN UNCHANGED poolLeft ELSE SpendsPool("faults")
    /\ ctxs' = [ctxs EXCEPT ![n].turns = @ - 1, ![n].state = "idle"]
    /\ UNCHANGED <<pool, focus, aliases, tombs, disk, act, listing, published, forks, sidsUsed,
                   odd>>
----------------------------------------------------------------------------
(* Deletion of a session, and the end of a side session.                     *)

(* One that runs, or that is registered nowhere.                             *)
NotDeleted(key, n) ==
    IF n # 0 THEN ctxs[n].state # "idle" \/ (ctxs[n].kind = "work" /\ key[1] # "sid")
    ELSE key \notin {Sid(s) : s \in disk.files}

DeleteFinds ==
    LET key == Resolved(act["lane"].key)
        n == CtxFor(key)
    IN /\ ActsAt("lane", "delete", "begin")
       /\ IF NotDeleted(key, n) THEN Done("lane")
          ELSE act' = [act EXCEPT !["lane"].at = IF n = 0 THEN "remove" ELSE "stop",
                                  !["lane"].key = key, !["lane"].n = n]
       /\ UNCHANGED <<pool, ctxs, focus, aliases, tombs, disk, listing, published, forks, sidsUsed,
                      odd, poolLeft>>

DeleteStops ==
    LET n == act["lane"].n IN
    /\ ActsAt("lane", "delete", "stop")
    /\ \/ /\ ctxs' = [ctxs EXCEPT ![n].live = FALSE]
          /\ pool' = Less(pool, ctxs[n].key)
          /\ Goes("lane", "remove")
          /\ odd' = [odd EXCEPT !.orphans = IF ctxs[n].turns > 0 THEN @ \cup {n} ELSE @]
          /\ UNCHANGED poolLeft
       \/ SpendsPool("faults") /\ Done("lane") /\ UNCHANGED <<ctxs, pool, odd>>
    /\ UNCHANGED <<focus, aliases, tombs, disk, listing, published, forks, sidsUsed>>

(* The native delete; when it fails, as it must before the session has an id, *)
(* the session is closed, and what is in view is gone.                       *)
DeleteRemoves ==
    LET key == act["lane"].key
        inView == focus \in {key} \cup {ctxs[n].key : n \in {act["lane"].n} \ {0}}
    IN /\ ActsAt("lane", "delete", "remove")
       /\ \/ /\ key[1] = "sid"
             /\ disk' = [disk EXCEPT !.files = @ \ {key[2]}]
             /\ focus' = IF inView THEN NoneKey ELSE focus
             /\ UNCHANGED <<odd, poolLeft>>
          \/ /\ IF key[1] = "sid" THEN SpendsPool("faults") ELSE UNCHANGED poolLeft
             /\ odd' = [odd EXCEPT !.strayed = @ \/ inView]
             /\ UNCHANGED <<disk, focus>>
       /\ Done("lane")
       /\ UNCHANGED <<pool, ctxs, aliases, tombs, listing, published, forks, sidsUsed>>

(* The side session is out of the pool at once; its process is stopped, then *)
(* the transcript is deleted if its id is known.                             *)
CloseBegins ==
    LET key == act["lane"].key IN
    /\ ActsAt("lane", "close", "begin")
    /\ IF key \notin DOMAIN pool THEN Done("lane") /\ UNCHANGED <<pool, ctxs, odd>>
       ELSE /\ act' = [act EXCEPT !["lane"].at = "forget", !["lane"].n = pool[key]]
            /\ pool' = Less(pool, key)
            /\ ctxs' = [ctxs EXCEPT ![pool[key]].live = FALSE, ![pool[key]].state = "idle",
                                    ![pool[key]].turns = 0]
            /\ odd' = [odd EXCEPT !.exposed =
                          IF ctxs[pool[key]].sid = 0
                          THEN @ \cup ({ctxs[pool[key]].wrote} \ {0}) ELSE @]
    /\ UNCHANGED <<focus, aliases, tombs, disk, listing, published, forks, sidsUsed, poolLeft>>

(* _delete_private_btw: the tombstone goes after the transcript is gone and  *)
(* when that can be written.                                                 *)
CloseForgets ==
    LET s == ctxs[act["lane"].n].sid IN
    /\ ActsAt("lane", "close", "forget")
    /\ \/ s = 0 /\ UNCHANGED <<disk, tombs, listing, poolLeft>>
       \/ s # 0 /\ SpendsPool("faults") /\ UNCHANGED <<disk, tombs, listing>>
       \/ s # 0 /\ SpendsPool("faults") /\ disk' = [disk EXCEPT !.files = @ \ {s}]
             /\ UNCHANGED <<tombs, listing>>
       \/ /\ s # 0
          /\ disk' = [disk EXCEPT !.files = @ \ {s}, !.tombs = tombs \ {s}]
          /\ tombs' = tombs \ {s}
          /\ listing' = [listing EXCEPT !.raced = @ \/ listing.at # "off"]
          /\ UNCHANGED poolLeft
    /\ Done("lane")
    /\ UNCHANGED <<pool, ctxs, focus, aliases, published, forks, sidsUsed, odd>>
----------------------------------------------------------------------------
(* The listing of Claude's sessions, withheld while the fork of a resident   *)
(* side session has no id yet.                                               *)

Withheld == \E k \in DOMAIN pool :
    ctxs[pool[k]].kind = "btw" /\ ~ctxs[pool[k]].codex /\ ctxs[pool[k]].sid = 0

ListBegins ==
    /\ listing.at = "off" /\ SpendsPool("lists") /\ ~Withheld
    /\ listing' = [at |-> "begun", found |-> {}, raced |-> FALSE]
    /\ UNCHANGED <<pool, ctxs, focus, aliases, tombs, disk, act, published, forks, sidsUsed, odd>>

ListReads ==
    /\ listing.at = "begun"
    /\ listing' = [listing EXCEPT !.at = "read", !.found = disk.files]
    /\ UNCHANGED <<pool, ctxs, focus, aliases, tombs, disk, act, published, forks, sidsUsed, odd,
                   poolLeft>>

ListFilters ==
    /\ listing.at = "read"
    /\ listing' = [listing EXCEPT !.at = "filtered", !.found = @ \ tombs]
    /\ UNCHANGED <<pool, ctxs, focus, aliases, tombs, disk, act, published, forks, sidsUsed, odd,
                   poolLeft>>

ListSends ==
    /\ listing.at = "filtered"
    /\ published' = listing.found
    /\ odd' = [odd EXCEPT !.exposed = IF listing.raced THEN @ \cup listing.found ELSE @]
    /\ listing' = [at |-> "off", found |-> {}, raced |-> FALSE]
    /\ UNCHANGED <<pool, ctxs, focus, aliases, tombs, disk, act, forks, sidsUsed, poolLeft>>
----------------------------------------------------------------------------
(* The wrapper dies and starts: forks that are known are deleted first, then *)
(* the saved session is resumed, or a new one begins, or none does.          *)

Revived(n, sid) ==
    LET key == IF sid = 0 THEN <<"tmp", n>> ELSE Sid(sid) IN
    [key |-> key, first |-> key, sid |-> sid, kind |-> "code", codex |-> FALSE, state |-> "idle",
     live |-> TRUE, wrote |-> sid, turns |-> 0, told |-> TRUE]

(* The files of aliases and of secret forks, and the session to resume.      *)
Loaded == [aliases |-> disk.aliases, tombs |-> disk.tombs]

Resumable(files) == {0} \cup ({disk.saved} \cap files)

Restart ==
    /\ SpendsPool("crashes") /\ Cardinality(DOMAIN ctxs) < MaxContexts
    /\ \E lost \in SUBSET Loaded.tombs, boots \in BOOLEAN :
          LET files == disk.files \ (Loaded.tombs \ lost)
              n == Cardinality(DOMAIN ctxs) + 1
              dead == [m \in DOMAIN ctxs |->
                          [ctxs[m] EXCEPT !.live = FALSE, !.state = "idle", !.turns = 0]]
          IN /\ tombs' = lost
             /\ disk' = [disk EXCEPT !.files = files, !.tombs = lost]
             /\ boots => disk.saved \notin lost
             /\ \/ ~boots /\ ctxs' = dead /\ pool' = <<>> /\ focus' = NoneKey
                \/ \E sid \in Resumable(files) :
                      /\ boots
                      /\ ctxs' = With(dead, n, Revived(n, sid))
                      /\ pool' = [k \in {ctxs'[n].key} |-> n] /\ focus' = ctxs'[n].key
    /\ aliases' = Loaded.aliases
    /\ act' = [a \in Actors |-> Idle]
    /\ listing' = [at |-> "off", found |-> {}, raced |-> FALSE]
    /\ odd' = [odd EXCEPT !.strayed = FALSE,
                  !.exposed = @ \cup ({ctxs[n].wrote : n \in
                     {m \in DOMAIN ctxs : ctxs[m].kind = "btw"}} \ (disk.tombs \cup {0}))]
    /\ UNCHANGED <<published, forks, sidsUsed>>

PoolNext ==
    \/ \E op \in PoolCommands, key \in KnownKeys : CommandBegins(op, key)
    \/ RunBegins \/ SwitchFinds \/ SideOpens \/ ComesIntoView \/ RunQueries \/ RunOver
    \/ \E a \in Actors :
          \/ SpawnChecks(a) \/ EvictedCloses(a) \/ SpawnConnects(a) \/ SpawnFails(a)
          \/ SpawnReturns(a) \/ QueryFinds(a) \/ QueryClaims(a)
    \/ \E n \in DOMAIN ctxs :
          \/ ClaudeWrites(n) \/ LearnsId(n) \/ Rekeys(n) \/ ForkHidden(n) \/ ForkNotHidden(n)
          \/ TurnOver(n)
    \/ DeleteFinds \/ DeleteStops \/ DeleteRemoves \/ CloseBegins \/ CloseForgets
    \/ ListBegins \/ ListReads \/ ListFilters \/ ListSends \/ Restart

PoolSpec == PoolInit /\ [][PoolNext]_poolVars
----------------------------------------------------------------------------
(* Properties.                                                               *)

BeingClosed(n) == \E a \in Actors : act[a].victim = n

(* A context is resident under its own key, and under one key only; the       *)
(* limit is exceeded by one at most, when a command and a scheduled run       *)
(* begin a session at the same time (11816-11827 checks before it awaits).    *)
PoolTypeOK ==
    /\ \A k \in DOMAIN pool : pool[k] \in DOMAIN ctxs /\ ctxs[pool[k]].key = k
    /\ Cardinality(DOMAIN pool) <= MaxResident + 1 + Cardinality(odd.orphans)
    /\ focus = NoneKey \/ focus[1] \in {"sid", "tmp"}
    /\ Cardinality(tombs) <= MaxTombs

(* A native session has one engine process of the pool at a time: but for one *)
(* that is being closed because it was evicted, or one whose turn was claimed *)
(* after its context had left the pool.                                       *)
OneEngine ==
    \A m, n \in DOMAIN ctxs :
       m # n /\ ctxs[m].live /\ ctxs[n].live /\ ctxs[m].sid # 0 =>
          \/ ctxs[m].sid # ctxs[n].sid \/ ctxs[m].sid \in odd.doubled
          \/ BeingClosed(m) \/ BeingClosed(n) \/ {m, n} \cap odd.orphans # {}

(* What is in view is resident, and so is what runs (11817-11823 evicts       *)
(* neither): but for a context that left the pool while a handler that had    *)
(* looked it up was waiting, and while a deletion is under way.               *)
BusyStaysResident ==
    /\ \/ focus = NoneKey \/ focus \in DOMAIN pool \/ odd.strayed
       \/ ActsAt("lane", "delete", "remove")
    /\ \A n \in DOMAIN ctxs : ctxs[n].state = "running" => 
          Resident(n) \/ n \in odd.orphans \/ ctxs[n].sid \in odd.doubled
    /\ \A k \in DOMAIN pool : ctxs[pool[k]].live \/ pool[k] \in odd.orphans
          \/ ActsAt("lane", "delete", "stop")

(* Whatever key a page knows a session by, provisional or of an earlier run   *)
(* of the wrapper, its commands reach that session or none (1667-1683), and   *)
(* reach it while it is resident, if the alias could be written.              *)
KeysReachTheirOwn ==
    \A m \in {n \in DOMAIN ctxs : ctxs[n].wrote \notin odd.doubled} :
       LET n == CtxFor(ctxs[m].first) IN
       /\ n # 0 => n = m \/ (ctxs[n].sid = ctxs[m].sid /\ ctxs[m].sid # 0)
       /\ Resident(m) => n = m
       /\ ~odd.unsure /\ ctxs[m].key[1] = "sid" /\ Sid(ctxs[m].sid) \in DOMAIN pool =>
             n = pool[Sid(ctxs[m].sid)]

(* The fork of a side session is not listed and not resumed (8565-8581,       *)
(* 8585-8597, 11772), and before anything uses its id its tombstone is on     *)
(* disk (8956-9003); it is forgotten after the transcript is gone.  Exposed   *)
(* are the forks whose side session ended before their id was known, and      *)
(* what a listing that overlaps their opening or closing has found.           *)
ForksStayPrivate ==
    /\ published \cap forks \subseteq odd.exposed
    /\ \A n \in DOMAIN ctxs : ctxs[n].kind # "btw" /\ ctxs[n].sid \in forks =>
          ctxs[n].sid \in odd.exposed
    /\ \A k \in DOMAIN pool : ctxs[pool[k]].kind = "btw" /\ ctxs[pool[k]].sid # 0 =>
          ctxs[pool[k]].sid \in disk.tombs
    /\ \A s \in forks \cap disk.files :
          \/ s \in tombs \cup odd.exposed
          \/ \E k \in DOMAIN pool : ctxs[pool[k]].wrote = s /\ ctxs[pool[k]].sid = 0

PoolSafe ==
    /\ PoolTypeOK /\ OneEngine /\ BusyStaysResident /\ KeysReachTheirOwn /\ ForksStayPrivate
=============================================================================
