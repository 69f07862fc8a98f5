---------------------------- MODULE ForkJournal ----------------------------
(* Persistent forks of one completed turn: the journals codex_forks.py and   *)
(* claude_forks.py, and the handlers and reconcilers of machine.py that use  *)
(* them.  Every request of ForkRequests names the same turn and directory,   *)
(* the case in which the journal makes a request an alias of another.  Fewer *)
(* requests than the journal holds, so that nothing is compacted.            *)
(*                                                                           *)
(* A request is retried by the page until it is acknowledged, so its handler *)
(* may start whenever this process does not remember the answer.  A fork is  *)
(* known by the marker of its canonical request; its n-th child is <<s, n>>. *)
EXTENDS Naturals, FiniteSets

CONSTANTS
    ForkRequests,   \* reliable request ids
    ForkFaults      \* bound: failed saves and crashes of a behaviour

ASSUME ForkAssumption ==
    /\ IsFiniteSet(ForkRequests)
    /\ ForkFaults \in Nat

VARIABLES
    forkEngine,    \* "codex" or "claude": the two journals differ in places
    forkEntries,   \* entries of the journal in memory
    forkDisk,      \* and in its file
    forkPc,        \* where the handler or reconciler holding a request's lock is
    forkSeen,      \* the entry, and later the child, that it works with
    forkVolatile,  \* _uncertain_*_forks
    forkRec,       \* requests with a reconciler running
    forkCall,      \* the fork call carrying each marker
    forkCount,     \* children that exist for each marker
    forkTitle,     \* the title of a Claude child
    forkTold,      \* what each request was ever answered
    forkKnown,     \* requests this process remembers as answered
    forkHurt       \* faults so far

forkVars == <<forkEngine, forkEntries, forkDisk, forkPc, forkSeen, forkVolatile, forkRec,
              forkCall, forkCount, forkTitle, forkTold, forkKnown, forkHurt>>

-----------------------------------------------------------------------------
(* The journal: entries by request; root is the canonical request, whose     *)
(* marker the whole group carries.                                           *)

ForkOpen == {"intent", "alias", "submitted", "uncertain"}
ForkStatuses == ForkOpen \cup {"rejected", "complete"}
Children == ForkRequests \X {1, 2}
NoChild == <<>>
NotVolatile == <<>>
UnknownChild == <<"unknown">>
ErrorAnswer == <<"error">>
GoneAnswer == <<"gone">>
ForkEntry == [status : ForkStatuses, root : ForkRequests, child : Children \cup {NoChild}]

ForkGroup(es, s) == {k \in DOMAIN es : es[k].root = s}

WithStatus(es, keys, status, child) ==
    [k \in DOMAIN es |->
        IF k \in keys THEN [es[k] EXCEPT !.status = status, !.child = child] ELSE es[k]]

OpenRoots(es) == {es[k].root : k \in {j \in DOMAIN es : es[j].status \in ForkOpen}}

(* The entry of a new request: an alias of an unresolved fork of the turn. *)
Beginnings(es, r) ==
    IF OpenRoots(es) = {} THEN {[status |-> "intent", root |-> r, child |-> NoChild]}
    ELSE {[status |-> "alias", root |-> s, child |-> NoChild] : s \in OpenRoots(es)}

(* claim_submission succeeds for one handler of the group only. *)
MayClaim(es, r) == es[es[r].root].status = "intent"

Claimed(es, r) == WithStatus(es, {es[r].root}, "submitted", NoChild)

MayComplete(es, r, c) ==
    /\ r \in DOMAIN es
    /\ es[r].status # "rejected"
    /\ es[r].status = "complete" => es[r].child = c
    /\ forkEngine = "claude" => es[es[r].root].status # "intent"

Completed(es, r, c) == WithStatus(es, ForkGroup(es, es[r].root), "complete", c)

MayDoubt(es, r) ==
    /\ r \in DOMAIN es
    /\ es[es[r].root].status \in
           IF forkEngine = "claude" THEN {"submitted"} ELSE ForkOpen

Doubted(es, r) == WithStatus(es, {es[r].root}, "uncertain", NoChild)

MayReject(es, r) == r \in DOMAIN es /\ es[es[r].root].status # "complete"

AllRejected(es, r) == WithStatus(es, ForkGroup(es, es[r].root), "rejected", NoChild)

(* What _load insists on; a file that fails it keeps the wrapper from starting. *)
AliasesValid(es) == \A k \in DOMAIN es : es[k].root # k =>
    /\ es[k].root \in DOMAIN es
    /\ LET root == es[es[k].root] IN
       /\ root.root = es[k].root
       /\ \/ es[k].status = "alias" /\ root.status \in ForkOpen \ {"alias"}
          \/ es[k].status = "rejected" /\ root.status = "rejected"
          \/ es[k].status = "complete" /\ root.status = "complete" /\ es[k].child = root.child

(* Mutant: the entries are changed in memory only. *)
KeptInMemory(es) == forkEntries' = es /\ UNCHANGED <<forkDisk, forkHurt>>

(* _persist: memory is replaced only after the file; the failure may come    *)
(* before the file is replaced or after it, from the directory's fsync.      *)
JournalSaved(es) == forkEntries' = es /\ forkDisk' = es /\ UNCHANGED forkHurt

SaveFailed(es) ==
    /\ forkHurt < ForkFaults
    /\ forkHurt' = forkHurt + 1
    /\ UNCHANGED forkEntries
    /\ forkDisk' \in {forkDisk, es}

JournalKept == UNCHANGED <<forkEntries, forkDisk, forkHurt>>

-----------------------------------------------------------------------------
(* What survives outside the wrapper. *)

(* find_rollout_fork reads the marker in the rollout; find_claude_fork looks *)
(* for the marker among the titles, and refuses two sessions that carry it.  *)
Findable(s) ==
    {<<s, n>> : n \in {m \in 1..forkCount[s] :
        \/ forkEngine = "codex" /\ m = forkCount[s]
        \/ forkEngine = "claude" /\ forkCount[s] = 1 /\ forkTitle[s] = "marker"}}

SourceOf(r) == IF r \in DOMAIN forkEntries THEN forkEntries[r].root ELSE r

ForkCommits(s) ==
    /\ forkCall[s] = "flight"
    /\ forkCall' = [forkCall EXCEPT ![s] = "committed"]
    /\ forkCount' = [forkCount EXCEPT ![s] = @ + 1]
    /\ forkTitle' = [forkTitle EXCEPT ![s] = "marker"]
    /\ UNCHANGED <<forkEngine, forkEntries, forkDisk, forkPc, forkSeen, forkVolatile, forkRec,
                   forkTold, forkKnown, forkHurt>>

ForkRefused(s) ==
    /\ forkCall[s] = "flight"
    /\ forkCall' = [forkCall EXCEPT ![s] = "refused"]
    /\ UNCHANGED <<forkEngine, forkEntries, forkDisk, forkPc, forkSeen, forkVolatile, forkRec,
                   forkCount, forkTitle, forkTold, forkKnown, forkHurt>>

-----------------------------------------------------------------------------
(* The handler of a request, under the request's lock.                       *)

At(r, pc) == forkPc[r] = pc
Go(r, pc) == forkPc' = [forkPc EXCEPT ![r] = pc]

(* An Error returned by the handler is an answer: the command is remembered  *)
(* and acknowledged. *)
TellError(r, answer) ==
    /\ Go(r, "idle")
    /\ forkTold' = [forkTold EXCEPT ![r] = @ \cup {answer}]
    /\ forkKnown' = forkKnown \cup {r}

(* _ForkOutcomeUncertain: no answer and no acknowledgement; the reconciler   *)
(* works on. *)
LeaveUncertain(r) ==
    /\ Go(r, "idle")
    /\ forkRec' = forkRec \cup {r}

Untold == UNCHANGED <<forkTold, forkKnown>>
OutsideKept == UNCHANGED <<forkEngine, forkCall, forkCount, forkTitle>>

(* The handler reads the source and begins.  The Codex handler needs the     *)
(* source's directory whatever the journal says; the Claude handler only     *)
(* before the mutation.  Its own status counts for Codex, its root's for     *)
(* Claude. *)
SourceGone(r) ==
    /\ At(r, "idle") /\ r \notin forkKnown
    /\ forkEngine = "claude" /\ r \in DOMAIN forkEntries =>
           forkEntries[forkEntries[r].root].status = "intent"
    /\ TellError(r, GoneAnswer)
    /\ JournalKept /\ OutsideKept
    /\ UNCHANGED <<forkSeen, forkVolatile, forkRec>>

HandleFork(r) ==
    /\ At(r, "idle") /\ r \notin forkKnown
    /\ OutsideKept /\ UNCHANGED <<forkVolatile, forkRec>>
    /\ \/ /\ r \in DOMAIN forkEntries
          /\ LET e == forkEntries[r] IN
             forkSeen' = [forkSeen EXCEPT ![r] =
                 IF forkEngine = "claude"
                 THEN [e EXCEPT !.status = forkEntries[e.root].status,
                                !.child = forkEntries[e.root].child]
                 ELSE e]
          /\ Go(r, "begun") /\ JournalKept /\ Untold
       \/ /\ r \notin DOMAIN forkEntries
          /\ \E e \in Beginnings(forkEntries, r) :
             LET new == [k \in DOMAIN forkEntries \cup {r} |->
                            IF k = r THEN e ELSE forkEntries[k]] IN
             \/ /\ JournalSaved(new)
                /\ forkSeen' = [forkSeen EXCEPT ![r] =
                       [e EXCEPT !.status = IF forkEngine = "claude"
                                            THEN new[e.root].status ELSE e.status]]
                /\ Go(r, "begun") /\ Untold
             \/ SaveFailed(new) /\ TellError(r, ErrorAnswer) /\ UNCHANGED forkSeen

Take(r, c) == forkSeen' = [forkSeen EXCEPT ![r].child = c] /\ Go(r, "finish")

(* Recovery by marker; a Claude scan may fail and then counts as not found. *)
RecoverOr(r, s, Otherwise) ==
    \/ \E c \in Findable(s) : Take(r, c) /\ UNCHANGED forkRec
    \/ (forkEngine = "claude" \/ Findable(s) = {}) /\ Otherwise /\ UNCHANGED forkSeen

Decide(r) ==
    LET e == forkSeen[r] IN
    /\ At(r, "begun")
    /\ JournalKept /\ OutsideKept /\ UNCHANGED <<forkVolatile>>
    /\ \/ e.status = "complete" /\ Take(r, e.child) /\ Untold /\ UNCHANGED forkRec
       \/ e.status = "rejected" /\ TellError(r, ErrorAnswer) /\ UNCHANGED <<forkSeen, forkRec>>
       \/ /\ \/ e.status \in {"submitted", "uncertain"}
             \/ e.status \in {"intent", "alias"} /\ forkVolatile[r] # NotVolatile
          /\ IF forkVolatile[r] \in Children
             THEN Take(r, forkVolatile[r]) /\ UNCHANGED forkRec
             ELSE RecoverOr(r, e.root, LeaveUncertain(r))
          /\ Untold
       \/ /\ e.status \in {"intent", "alias"} /\ forkVolatile[r] = NotVolatile
          /\ IF forkEngine = "codex"
             THEN RecoverOr(r, e.root, Go(r, "claim") /\ UNCHANGED forkRec)
             ELSE Go(r, "claim") /\ UNCHANGED <<forkRec, forkSeen>>
          /\ Untold

ClaimFork(r) ==
    /\ At(r, "claim")
    /\ OutsideKept /\ UNCHANGED <<forkVolatile, forkRec, forkSeen>>
    /\ \/ r \notin DOMAIN forkEntries /\ TellError(r, ErrorAnswer) /\ JournalKept
       \/ /\ r \in DOMAIN forkEntries /\ MayClaim(forkEntries, r)
          /\ \/ JournalSaved(Claimed(forkEntries, r)) /\ Go(r, "rpc") /\ Untold
             \/ SaveFailed(Claimed(forkEntries, r)) /\ TellError(r, ErrorAnswer)
       \/ /\ r \in DOMAIN forkEntries /\ ~MayClaim(forkEntries, r)
          /\ Go(r, "refresh") /\ JournalKept /\ Untold

(* Another handler of the group claimed: become one more waiter for its child. *)
Refresh(r) ==
    LET e == forkEntries[r] IN
    /\ At(r, "refresh")
    /\ JournalKept /\ OutsideKept /\ UNCHANGED <<forkVolatile>>
    /\ \/ r \in DOMAIN forkEntries /\ e.status = "complete" /\ Take(r, e.child)
          /\ Untold /\ UNCHANGED forkRec
       \/ r \in DOMAIN forkEntries /\ e.status = "rejected" /\ TellError(r, ErrorAnswer)
          /\ UNCHANGED <<forkSeen, forkRec>>
       \/ /\ r \in DOMAIN forkEntries => e.status \in ForkOpen
          /\ IF forkEngine = "codex"
             THEN RecoverOr(r, forkSeen[r].root, LeaveUncertain(r))
             ELSE LeaveUncertain(r) /\ UNCHANGED forkSeen
          /\ Untold

(* A refusal before the mutation: rejected, whether that could be saved or not. *)
RejectFork(r) ==
    /\ \/ MayReject(forkEntries, r) /\ JournalSaved(AllRejected(forkEntries, r))
       \/ MayReject(forkEntries, r) /\ SaveFailed(AllRejected(forkEntries, r))
       \/ ~MayReject(forkEntries, r) /\ JournalKept
    /\ TellError(r, ErrorAnswer)
    /\ UNCHANGED <<forkEngine, forkSeen, forkVolatile, forkRec, forkCount, forkTitle>>

SendFork(r) ==
    /\ At(r, "rpc") /\ Go(r, "sent")
    /\ forkCall' = [forkCall EXCEPT ![forkSeen[r].root] = "flight"]
    /\ JournalKept /\ Untold
    /\ UNCHANGED <<forkEngine, forkSeen, forkVolatile, forkRec, forkCount, forkTitle>>

NeverSent(r) == At(r, "rpc") /\ RejectFork(r) /\ UNCHANGED forkCall

ForkRejected(r) ==
    /\ At(r, "sent") /\ forkCall[forkSeen[r].root] = "refused"
    /\ RejectFork(r) /\ UNCHANGED forkCall

ForkAnswered(r) ==
    LET s == forkSeen[r].root IN
    /\ At(r, "sent") /\ forkCall[s] = "committed"
    /\ Take(r, <<s, forkCount[s]>>)
    /\ JournalKept /\ Untold /\ OutsideKept
    /\ UNCHANGED <<forkVolatile, forkRec>>

(* mark_uncertain; its failure is only logged. *)
MarkUncertain(es, disk, r, hurt) ==
    \/ /\ MayDoubt(es, r)
       /\ forkEntries' = Doubted(es, r) /\ forkDisk' = Doubted(es, r) /\ forkHurt' = hurt
    \/ /\ MayDoubt(es, r) /\ hurt < ForkFaults
       /\ forkEntries' = es /\ forkDisk' \in {disk, Doubted(es, r)} /\ forkHurt' = hurt + 1
    \/ ~MayDoubt(es, r) /\ forkEntries' = es /\ forkDisk' = disk /\ forkHurt' = hurt

(* Mutant: an unknown outcome is taken for a refusal. *)
UnknownIsRefused(r) == At(r, "sent") /\ RejectFork(r) /\ UNCHANGED forkCall

(* The answer is lost, or names no child: nothing is known of the mutation.  *)
(* A Claude fork runs inside the wrapper and has ended by then. *)
OutcomeUnknown(r) ==
    /\ At(r, "sent")
    /\ forkEngine = "claude" => forkCall[forkSeen[r].root] # "flight"
    /\ MarkUncertain(forkEntries, forkDisk, r, forkHurt)
    /\ \/ /\ forkEngine = "codex"
          /\ forkVolatile' = [forkVolatile EXCEPT ![r] = IF @ = NotVolatile THEN UnknownChild ELSE @]
          /\ Go(r, "lookup") /\ UNCHANGED forkRec
       \/ forkEngine = "claude" /\ LeaveUncertain(r) /\ UNCHANGED forkVolatile
    /\ Untold /\ OutsideKept /\ UNCHANGED <<forkSeen>>

LookAgain(r) ==
    /\ At(r, "lookup")
    /\ RecoverOr(r, forkSeen[r].root, LeaveUncertain(r))
    /\ JournalKept /\ Untold /\ OutsideKept /\ UNCHANGED <<forkVolatile>>

-----------------------------------------------------------------------------
(* The end of every successful path, of the handler or the reconciler.       *)

(* _finish_*_fork: the child is recorded before anyone hears of it. *)
FinishFork(r) ==
    LET c == forkSeen[r].child
        new == Completed(forkEntries, r, c) IN
    /\ At(r, "finish")
    /\ Untold /\ OutsideKept /\ UNCHANGED <<forkSeen>>
    /\ \/ /\ MayComplete(forkEntries, r, c) /\ JournalSaved(new)
          /\ forkVolatile' = [forkVolatile EXCEPT ![r] = NotVolatile]
          /\ Go(r, "tell") /\ UNCHANGED forkRec
       \/ /\ \/ /\ MayComplete(forkEntries, r, c) /\ forkHurt < ForkFaults
                /\ \E disk \in {forkDisk, new} :
                       MarkUncertain(forkEntries, disk, r, forkHurt + 1)
             \/ /\ ~MayComplete(forkEntries, r, c)
                /\ MarkUncertain(forkEntries, forkDisk, r, forkHurt)
          /\ forkVolatile' = [forkVolatile EXCEPT ![r] = IF @ \in Children THEN @ ELSE c]
          /\ LeaveUncertain(r)

(* The marker title gives way to the human one only now; the rename may fail. *)
TellChild(r) ==
    LET c == forkSeen[r].child IN
    /\ At(r, "tell") /\ Go(r, "idle")
    /\ forkTold' = [forkTold EXCEPT ![r] = @ \cup {c}]
    /\ forkKnown' = forkKnown \cup {r}
    /\ forkTitle' \in IF forkEngine = "claude"
                      THEN {forkTitle, [forkTitle EXCEPT ![c[1]] = "human"]}
                      ELSE {forkTitle}
    /\ JournalKept
    /\ UNCHANGED <<forkEngine, forkSeen, forkVolatile, forkRec, forkCall, forkCount>>

(* One attempt of the reconciler, under the request's lock; it may also be   *)
(* its last, which is reported to the page without an acknowledgement. *)
ReconcileFork(r) ==
    LET e == forkEntries[r] IN
    /\ r \in forkRec /\ At(r, "idle")
    /\ JournalKept /\ Untold /\ OutsideKept /\ UNCHANGED <<forkVolatile>>
    /\ \/ r \in forkKnown /\ forkRec' = forkRec \ {r} /\ UNCHANGED <<forkSeen, forkPc>>
       \/ /\ r \notin forkKnown /\ UNCHANGED forkRec
          /\ \E c \in IF forkVolatile[r] \in Children THEN {forkVolatile[r]}
                      ELSE IF r \in DOMAIN forkEntries /\ e.status = "complete" THEN {e.child}
                      ELSE Findable(SourceOf(r)) : Take(r, c)
       \/ r \notin forkKnown /\ forkRec' = forkRec \ {r} /\ UNCHANGED <<forkSeen, forkPc>>

(* A crash: the file is what is left.  A Claude fork dies with the wrapper,  *)
(* a Codex one may still commit. *)
ForkCrash ==
    /\ forkHurt < ForkFaults
    /\ forkHurt' = forkHurt + 1
    /\ forkEntries' = forkDisk
    /\ forkPc' = [r \in ForkRequests |-> "idle"]
    /\ forkVolatile' = [r \in ForkRequests |-> NotVolatile]
    /\ forkRec' = {} /\ forkKnown' = {}
    /\ forkCall' = [s \in ForkRequests |->
           IF forkEngine = "claude" /\ forkCall[s] = "flight" THEN "refused" ELSE forkCall[s]]
    /\ UNCHANGED <<forkEngine, forkDisk, forkSeen, forkCount, forkTitle, forkTold>>

ForkInit ==
    /\ forkEngine \in {"codex", "claude"}
    /\ forkEntries = [k \in {} |-> {}] /\ forkDisk = forkEntries
    /\ forkPc = [r \in ForkRequests |-> "idle"]
    /\ forkSeen = [r \in ForkRequests |-> [status |-> "intent", root |-> r, child |-> NoChild]]
    /\ forkVolatile = [r \in ForkRequests |-> NotVolatile]
    /\ forkRec = {}
    /\ forkCall = [s \in ForkRequests |-> "none"]
    /\ forkCount = [s \in ForkRequests |-> 0]
    /\ forkTitle = [s \in ForkRequests |-> "none"]
    /\ forkTold = [r \in ForkRequests |-> {}]
    /\ forkKnown = {}
    /\ forkHurt = 0

ForkNext ==
    \/ \E r \in ForkRequests :
          \/ SourceGone(r) \/ HandleFork(r) \/ Decide(r) \/ ClaimFork(r) \/ Refresh(r)
          \/ SendFork(r) \/ NeverSent(r) \/ ForkRejected(r) \/ ForkAnswered(r)
          \/ OutcomeUnknown(r) \/ LookAgain(r) \/ FinishFork(r) \/ TellChild(r)
          \/ ReconcileFork(r) \/ ForkCommits(r) \/ ForkRefused(r)
    \/ ForkCrash

ForkSpec == ForkInit /\ [][ForkNext]_forkVars

-----------------------------------------------------------------------------
(* Types of the fork state. *)
ForkTypeOK ==
    /\ forkEngine \in {"codex", "claude"}
    /\ \A es \in {forkEntries, forkDisk} :
           DOMAIN es \subseteq ForkRequests /\ \A k \in DOMAIN es : es[k] \in ForkEntry
    /\ \A r \in ForkRequests :
        /\ forkPc[r] \in {"idle", "begun", "claim", "refresh", "rpc", "sent", "lookup",
                          "finish", "tell"}
        /\ forkSeen[r] \in ForkEntry
        /\ forkVolatile[r] \in {NotVolatile, UnknownChild} \cup Children
        /\ forkCall[r] \in {"none", "flight", "committed", "refused"}
        /\ forkCount[r] \in 0..2
        /\ forkTitle[r] \in {"none", "marker", "human"}
        /\ forkTold[r] \subseteq {ErrorAnswer, GoneAnswer} \cup Children
    /\ forkRec \subseteq ForkRequests /\ forkKnown \subseteq ForkRequests
    /\ forkHurt \in 0..ForkFaults

(* Retries, aliases, lost answers, failed saves and crashes included, one    *)
(* marker never forks twice: the fork is submitted at most once              *)
(* (claim_submission). *)
ForkedOnce == \A s \in ForkRequests :
    forkCount[s] + (IF forkCall[s] = "flight" THEN 1 ELSE 0) <= 1

(* While the fate of a fork of the turn is open, a second request for the    *)
(* turn joins it and starts no fork of its own (_begin). *)
OpenForkShared == Cardinality(OpenRoots(forkEntries)) <= 1

(* Whatever write a crash follows, the journal's file passes the checks of   *)
(* _load, without which the wrapper refuses to start. *)
JournalReadable == AliasesValid(forkDisk)

(* A child the page was told of is in the journal's file under the request,  *)
(* so that no retry is told of another one (_finish_same_cwd_fork). *)
ToldIsDurable == \A r \in ForkRequests : \A c \in forkTold[r] \cap Children :
    r \in DOMAIN forkDisk /\ forkDisk[r].status = "complete" /\ forkDisk[r].child = c

(* An error is final, so it is told only when the request's marker has no    *)
(* child and no call that could still make one; the Codex handler's failure  *)
(* to find the source, which precedes the journal, is the exception. *)
ErrorHidesNoFork == [][\A r \in ForkRequests :
    /\ (forkTold'[r] \ forkTold[r]) \cap {ErrorAnswer, GoneAnswer} # {}
    /\ ~(forkEngine = "codex" /\ GoneAnswer \in forkTold'[r] \ forkTold[r])
    => \A s \in {SourceOf(r)} : forkCount[s] = 0 /\ forkCall[s] # "flight"]_forkVars

(* Until its journal entry is complete, the child of a Claude fork keeps the *)
(* marker title that is the only way back to it (_finish_claude_fork). *)
UnrecordedIsFindable == \A s \in ForkRequests :
    forkEngine = "claude" /\ forkCount[s] = 1 /\ forkTitle[s] # "marker"
    => s \in DOMAIN forkDisk /\ forkDisk[s].status = "complete"

\* The fork journal always: one fork per claim, shared, readable and findable.
ForksSafe ==
    /\ ForkTypeOK
    /\ ForkedOnce
    /\ OpenForkShared
    /\ JournalReadable
    /\ ToldIsDurable
    /\ UnrecordedIsFindable
=============================================================================
