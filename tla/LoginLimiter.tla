---------------------------- MODULE LoginLimiter ----------------------------
(***************************************************************************)
(* The relay's per-address limit on logins and redemptions                 *)
(* (LoginRateLimiter of relay/server.py): a sliding window per address,    *)
(* limits on addresses and on attempts, and a clean-up now and then.       *)
(***************************************************************************)
EXTENDS Naturals, Sequences, FiniteSets
LOCAL INSTANCE SequencesExt
LOCAL INSTANCE Functions

CONSTANTS
    Ips,
    Window,           \* _LOGIN_WINDOW, in ticks
    MaxPerIp,         \* _LOGIN_MAX
    MaxIps,           \* _LOGIN_MAX_IPS
    MaxTotal,         \* _LOGIN_MAX_TOTAL_ATTEMPTS
    CleanupInterval,  \* _LOGIN_CLEANUP_INTERVAL
    Horizon           \* bound: the clock

ASSUME LimiterAssumption ==
    /\ Window \in Nat \ {0}
    /\ MaxPerIp \in Nat \ {0}
    /\ MaxIps \in Nat \ {0}
    /\ MaxTotal \in Nat \ {0}
    /\ CleanupInterval \in Nat
    /\ Horizon \in Nat

VARIABLES
    clock,           \* time.time(), which the limiter reads
    attempts,        \* _attempts; an address that is no key has none
    totalAttempts,   \* _total_attempts
    lastCleanup,     \* _last_cleanup
    admitted,        \* history: when an address was let through
    refused          \* history: the address the last call has refused at this tick

limiterVars == <<clock, attempts, totalAttempts, lastCleanup, admitted, refused>>

Keys(at) == {ip \in Ips : at[ip] # <<>>}

\* The clock does not begin with the limiter.
LimiterInit ==
    /\ clock = Window
    /\ attempts = [ip \in Ips |-> <<>>]
    /\ totalAttempts = 0
    /\ lastCleanup = 0
    /\ admitted = [ip \in Ips |-> <<>>]
    /\ refused = {}

Tick ==
    /\ clock < Window + Horizon
    /\ clock' = clock + 1
    /\ refused' = {}
    /\ UNCHANGED <<attempts, totalAttempts, lastCleanup, admitted>>

\* mutant: an attempt leaves the window one tick early
FreshEarly(at, t) == SelectSeq(at, LAMBDA a : a > t - Window + 1)

Fresh(at, t) == SelectSeq(at, LAMBDA a : a > t - Window)

\* what a call takes off the total before it decides
Counted(at, total, ip, t) == total - (Len(at[ip]) - Len(Fresh(at[ip], t)))

CleanupDue(t) == t - lastCleanup >= CleanupInterval

SumLen(at) == FoldFunction(LAMBDA q, n : Len(q) + n, 0, at)

\* limited: the clean-up, the window of the address, the three limits.
Limited(ip) ==
    LET swept == IF CleanupDue(clock) THEN [i \in Ips |-> Fresh(attempts[i], clock)] ELSE attempts
        total == IF CleanupDue(clock) THEN SumLen(swept) ELSE totalAttempts
        kept  == [swept EXCEPT ![ip] = Fresh(@, clock)]
        count == Counted(swept, total, ip, clock)
        over  == \/ Len(kept[ip]) >= MaxPerIp
                 \/ kept[ip] = <<>> /\ Cardinality(Keys(kept)) >= MaxIps
                 \/ count >= MaxTotal
    IN
    /\ lastCleanup' = IF CleanupDue(clock) THEN clock ELSE lastCleanup
    /\ refused' = IF over THEN {ip} ELSE {}
    /\ IF over
       THEN attempts' = kept /\ totalAttempts' = count /\ UNCHANGED admitted
       ELSE /\ attempts' = [kept EXCEPT ![ip] = Append(@, clock)]
            /\ totalAttempts' = count + 1
            /\ admitted' = [admitted EXCEPT ![ip] = Append(@, clock)]
    /\ UNCHANGED clock

LimiterNext == Tick \/ \E ip \in Ips : Limited(ip)

LimiterSpec == LimiterInit /\ [][LimiterNext]_limiterVars
-----------------------------------------------------------------------------
(* Types; the running total is exact, and no limit is exceeded.            *)
LimiterTypeOK ==
    /\ clock \in Window .. Window + Horizon
    /\ attempts \in [Ips -> Seq(0 .. clock)]
    /\ totalAttempts = SumLen(attempts)
    /\ totalAttempts <= MaxTotal
    /\ Cardinality(Keys(attempts)) <= MaxIps
    /\ lastCleanup \in 0 .. clock
    /\ admitted \in [Ips -> Seq(0 .. clock)]
    /\ refused \subseteq Ips

(* The limit is a sliding one: no address is let through more than MaxPerIp *)
(* times within any window, whenever the window begins (server.py:176-205). *)
WindowIsSliding ==
    \A ip \in Ips : \A i \in 1 .. Len(admitted[ip]) :
        i + MaxPerIp <= Len(admitted[ip]) => admitted[ip][i + MaxPerIp] - admitted[ip][i] >= Window

\* admissions of the last n ticks, of an address and of all
Recent(ip, n) == Len(SelectSeq(admitted[ip], LAMBDA a : a + n > clock))
RecentAll(n) == FoldFunction(+, 0, [ip \in Ips |-> Recent(ip, n)])

(* Nobody is refused without a reason: either the address has used its own  *)
(* share of the window up, or a limit on all addresses has been reached by  *)
(* admissions not older than the window and one clean-up interval.          *)
RefusalsAreEarned ==
    \A ip \in refused :
        \/ Recent(ip, Window) >= MaxPerIp
        \/ RecentAll(Window + CleanupInterval) >= (IF MaxIps < MaxTotal THEN MaxIps ELSE MaxTotal)

\* The limiter always: a true sliding window, and no refusal without a reason.
LimiterSafe ==
    /\ LimiterTypeOK
    /\ WindowIsSliding
    /\ RefusalsAreEarned
=============================================================================
