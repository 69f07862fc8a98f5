---------------------------- MODULE WatchProofs -----------------------------
(***************************************************************************)
(* Proofs about sessions that the wrapper shares with other processes: the *)
(* watch, takeover and preflight of a Claude session, the hand-over of a   *)
(* session between the SDK and the terminal broker, and the watch of a     *)
(* Codex session that a terminal, a TUI or a scripted command also writes. *)
(***************************************************************************)
EXTENDS ClaudeWatch, ClaudeHandover, CodexWatch, FiniteSetTheorems, TLAPS

(* ClaudeWatch.  What the variables hold between two steps of the lock.      *)
WatchRows == OurRows \cup CliRows
LockAt == {"free", "scan", "stat", "read", "judged", "stopping", "resuming"}
Reconnecting == {"reloading", "reloading_again", "recovering"}
Probing == {"preflight", "preflight_again"}

WriteStates == {"writable", "read_only", "pending", "failed"}
SdkState == [up : BOOLEAN, known : SUBSET Nat]
Ownership == [size : Nat, holders : SUBSET Clis, external : BOOLEAN, scanned : BOOLEAN,
              file : BOOLEAN, pending : BOOLEAN]
LockState == [by : Actors \cup {NoActor}, at : LockAt, seen : SUBSET Clis, holders : SUBSET Clis,
              complete : BOOLEAN, old : Nat, size : Nat]
ConnectState == [by : Actors \cup {NoActor}, read : SUBSET Nat,
                 at : {"none", "reading", "read", "unresumed"}]

WatchTyped ==
    /\ rows \in Seq(WatchRows) /\ fileUp \in BOOLEAN /\ reload \in BOOLEAN
    /\ sdk \in SdkState /\ owner \in Ownership /\ probe \in LockState /\ connect \in ConnectState
    /\ laneAt \in {"idle", "query", "takeover", "edit", "resync"}
    /\ taskAt \in {"none", "start", "turn", "unwinding"} \cup Reconnecting \cup Probing
    /\ write \in WriteStates

\* What is known of the transcript is in it.
SizesFit ==
    /\ owner.size <= Len(rows) /\ sdk.known \subseteq 1..Len(rows)
    /\ connect.read \subseteq 1..Len(rows)
    /\ probe.at = "read" =>
          probe.old <= owner.size /\ probe.old <= probe.size /\ probe.size <= Len(rows)

\* Who holds the lock, and who reconnects the SDK.
ProbeHeld ==
    /\ probe.by = NoActor <=> probe.at = "free"
    /\ probe.by = NoActor => probe = FreeLock
    /\ probe.by = "lane" => laneAt \in {"query", "takeover"}
    /\ probe.by = "task" => taskAt \in Probing
    /\ probe.at \in {"stopping", "resuming"} => probe.by = "lane" /\ laneAt = "takeover"
    /\ laneAt = "takeover" => taskAt \in {"none", "unwinding"}
    /\ owner.pending => probe.at \in {"stopping", "resuming"}
    /\ connect.by = "task" <=> taskAt \in Reconnecting
    /\ connect.by = "lane" <=> probe.at = "resuming"
    /\ connect.at \in {"reading", "read"} <=> connect.by # NoActor

\* What the owner knows after a stat is what the scan has found.
ScanTold ==
    /\ probe.at \notin {"free", "scan"} /\ probe.complete => probe.seen = probe.holders
    /\ probe.at \in {"read", "judged"} =>
          /\ owner.scanned => probe.complete
          /\ owner.scanned /\ ~owner.external => probe.holders = {}

\* The pages know who has the session, except while growth is read.
PagesKnow ==
    /\ probe.at # "read" /\ write = "writable" =>
          (owner.scanned => ~owner.external) /\ connect.at # "unresumed"
    /\ connect.at = "unresumed" => write = "failed" /\ reload
    /\ probe.at = "resuming" => reload

\* Foreign rows that the watch has passed are known, or excused.
Covered(known) ==
    \A k \in 1..owner.size : rows[k] \in CliRows => k \in known \cup missed

\* The SDK, or the one that connects, knows them, or a reload is owed.
UpToDate ==
    /\ connect.by # NoActor => ~sdk.up
    /\ sdk.up /\ ~reload => Covered(sdk.known)
    /\ connect.at = "read" /\ (~reload \/ connect.by = "lane") => Covered(connect.read)

WatchInv ==
    /\ WatchTyped /\ SizesFit /\ ProbeHeld /\ ScanTold /\ PagesKnow /\ UpToDate
    /\ SentAlone /\ SentUpToDate
----------------------------------------------------------------------------
(* What the parts of an action do.                                           *)

\* A row is added behind the others.
LEMMA RowAdded ==
    ASSUME NEW s \in Seq(WatchRows), NEW r \in WatchRows
    PROVE  /\ Append(s, r) \in Seq(WatchRows) /\ Len(Append(s, r)) = Len(s) + 1 /\ Len(s) \in Nat
           /\ \A k \in 1..Len(s) : Append(s, r)[k] = s[k]
  BY DEF WatchRows

LEMMA SizeIsNat ==
    ASSUME WatchTyped
    PROVE  Len(rows) \in Nat /\ DOMAIN rows = 1..Len(rows)
  BY DEF WatchTyped

LEMMA LockIsFree ==
    /\ FreeLock \in LockState /\ FreeLock.by = NoActor /\ FreeLock.at = "free"
    /\ \A a \in Actors : a # NoActor
  BY DEF FreeLock, LockState, LockAt, Actors, NoActor

LEMMA NobodyConnects ==
    /\ NoConnect \in ConnectState /\ NoConnect.by = NoActor /\ NoConnect.at = "none"
    /\ NoConnect.read = {}
  BY DEF NoConnect, ConnectState

LEMMA AcquireDoes ==
    ASSUME NEW a \in Actors, Acquire(a)
    PROVE  /\ probe = FreeLock /\ probe.at = "free" /\ probe.by = NoActor
           /\ probe' \in LockState /\ probe'.by = a /\ probe'.at = "scan"
  <1>1. probe = FreeLock /\ probe' = [FreeLock EXCEPT !.by = a, !.at = "scan"]
    BY DEF Acquire
  <1>2. QED
    BY <1>1, LockIsFree DEF FreeLock, LockState, LockAt

LEMMA ReconnectDoes ==
    ASSUME NEW a \in Actors, SdkReconnect(a)
    PROVE  /\ sdk' \in SdkState /\ ~sdk'.up /\ sdk'.known = {}
           /\ connect' \in ConnectState /\ connect'.by = a /\ connect'.at = "reading"
           /\ connect'.read = {}
  BY DEF SdkReconnect, NoConnect, SdkState, ConnectState

LEMMA ConnectedDoes ==
    ASSUME WatchTyped, NEW a, SdkConnected(a)
    PROVE  /\ connect.by = a /\ connect.at = "read" /\ connect' = NoConnect
           /\ sdk' \in SdkState /\ sdk'.up /\ sdk'.known = connect.read
  BY DEF WatchTyped, SdkConnected, SdkState, ConnectState

LEMMA FailsDoes ==
    ASSUME NEW a, ConnectFails(a)
    PROVE  /\ connect.by = a /\ sdk' = sdk
           /\ connect' \in ConnectState /\ connect'.by = NoActor /\ connect'.read = {}
           /\ a = "lane" => connect'.at = "unresumed"
           /\ a # "lane" => connect'.at = "none"
  BY DEF ConnectFails, NoConnect, ConnectState

\* The size is taken as it is, and foreign rows up to it are excused.
LEMMA ResyncDoes ==
    ASSUME WatchTyped, SizesFit, owner' = Resynced, missed' = PassedOver
    PROVE  /\ owner' \in Ownership /\ owner'.size >= owner.size /\ owner'.size <= Len(rows)
           /\ owner'.external = owner.external /\ owner'.scanned = owner.scanned
           /\ owner'.pending = owner.pending /\ owner'.holders = owner.holders
           /\ missed \subseteq missed'
           /\ \A k \in (owner.size + 1)..owner'.size : rows[k] \in CliRows => k \in missed'
  <1>1. Len(rows) \in Nat /\ owner \in Ownership /\ owner.size \in Nat /\ owner.size <= Len(rows)
    BY DEF WatchTyped, SizesFit, Ownership
  <1>2. CASE fileUp
    <2>1. owner' = [owner EXCEPT !.size = Len(rows), !.file = TRUE]
      BY <1>2 DEF Resynced
    <2>2. missed' = missed \cup ForeignIn((owner.size + 1)..Len(rows))
      BY <1>2 DEF PassedOver
    <2>3. owner' \in Ownership /\ owner'.size = Len(rows)
      BY <1>1, <2>1 DEF Ownership
    <2>4. QED
      BY <1>1, <2>1, <2>2, <2>3 DEF ForeignIn
  <1>3. CASE ~fileUp
    <2>1. owner' = [owner EXCEPT !.file = FALSE] /\ missed' = missed
      BY <1>3 DEF Resynced, PassedOver
    <2>2. owner' \in Ownership /\ owner'.size = owner.size
      BY <1>1, <2>1 DEF Ownership
    <2>3. QED
      BY <1>1, <2>1, <2>2
  <1>4. QED
    BY <1>2, <1>3

LEMMA ControlDoes ==
    ASSUME NEW o \in Ownership, NEW owed \in BOOLEAN
    PROVE  /\ ControlOf(o, owed) \in WriteStates
           /\ ControlOf(o, owed) = "writable" => ~o.pending /\ ~o.external
           /\ owed /\ write = "failed" => ControlOf(o, owed) = "failed"
  BY DEF ControlOf, ExternalNow, WriteStates, Ownership

\* Rows that grew and are not foreign are the SDK's, or cannot be told.
LEMMA GrowthDoes ==
    ASSUME WatchTyped, SizesFit, probe.at = "read", ~reload', Judge
    PROVE  \A k \in (probe.old + 1)..probe.size : rows[k] \in CliRows => k \in missed'
  <1> DEFINE new == (probe.old + 1)..probe.size
             data == {rows[k] : k \in new}
             foreign == ForeignGrowth(data, probe.holders, OwnWrite)
  <1>1. /\ reload' = (reload \/ foreign)
        /\ missed' = IF Origin(data) = "unknown" /\ ~foreign THEN missed \cup ForeignIn(new) ELSE missed
    BY DEF Judge
  <1>2. probe.old \in Nat /\ probe.size \in Nat /\ probe.size <= Len(rows) /\ Len(rows) \in Nat
        /\ rows \in Seq(WatchRows)
    BY DEF WatchTyped, SizesFit, LockState
  <1>3. ~foreign
    BY <1>1
  <1>4. Origin(data) # "external"
    BY <1>3 DEF ForeignGrowth
  <1>5. CASE Origin(data) = "unknown"
    <2>1. missed' = missed \cup ForeignIn(new)
      BY <1>1, <1>3, <1>5
    <2>2. new \subseteq DOMAIN rows
      BY <1>2
    <2>3. QED
      BY <2>1, <2>2 DEF ForeignIn
  <1>6. CASE Origin(data) # "unknown"
    <2>1. data \subseteq {"sdk"}
      BY <1>4, <1>6 DEF Origin
    <2>2. \A k \in new : rows[k] = "sdk"
      BY <2>1
    <2>3. QED
      BY <2>2 DEF CliRows
  <1>7. QED
    BY <1>5, <1>6

\* A scan tells whom it has seen; one that is incomplete is marked.
LEMMA ScanDoes ==
    ASSUME WatchTyped, Scan
    PROVE  /\ probe.at = "scan" /\ probe' \in LockState /\ probe'.by = probe.by
           /\ probe'.at = "stat" /\ (probe'.complete => probe'.seen = probe'.holders)
  <1> DEFINE alive == {p \in Clis : clis[p] = "on"}
  <1>1. probe \in LockState /\ owner.holders \subseteq Clis
    BY DEF WatchTyped, Ownership
  <1>2. CASE probe' = [probe EXCEPT !.at = "stat", !.seen = alive, !.holders = alive, !.complete = TRUE]
    BY <1>1, <1>2 DEF Scan, LockState, LockAt
  <1>3. ASSUME NEW some \in SUBSET alive,
               probe' = [probe EXCEPT !.at = "stat", !.seen = alive, !.complete = FALSE,
                             !.holders = some \cup owner.holders]
        PROVE  /\ probe' \in LockState /\ probe'.by = probe.by /\ probe'.at = "stat"
               /\ ~probe'.complete
    BY <1>1, <1>3 DEF LockState, LockAt
  <1>4. QED
    BY <1>2, <1>3 DEF Scan

LEMMA ConnectReadsDoes ==
    ASSUME WatchTyped, ConnectReads
    PROVE  /\ connect.at = "reading" /\ connect' \in ConnectState /\ connect'.by = connect.by
           /\ connect'.at = "read" /\ connect'.read = 1..Len(rows) /\ Len(rows) \in Nat
  <1>1. connect \in ConnectState /\ DOMAIN rows = 1..Len(rows) /\ Len(rows) \in Nat
    BY SizeIsNat DEF WatchTyped
  <1>2. 1..Len(rows) \in SUBSET Nat
    BY <1>1
  <1>3. connect.at = "reading" /\ connect' = [connect EXCEPT !.at = "read", !.read = 1..Len(rows)]
    BY <1>1 DEF ConnectReads
  <1>4. QED
    BY <1>1, <1>2, <1>3 DEF ConnectState

LEMMA SdkKnowsMore ==
    ASSUME WatchTyped, SdkWrites
    PROVE  /\ sdk' \in SdkState /\ sdk'.up = sdk.up /\ sdk'.known = sdk.known \cup {Len(rows) + 1}
           /\ sdk.known \subseteq sdk'.known
  <1>1. sdk \in SdkState /\ Len(rows) + 1 \in Nat
    BY SizeIsNat DEF WatchTyped
  <1>2. sdk' = [sdk EXCEPT !.known = @ \cup {Len(rows) + 1}]
    BY DEF SdkWrites
  <1>3. QED
    BY <1>1, <1>2 DEF SdkState

LEMMA CliStartsKeeps ==
    ASSUME WatchInv, NEW p \in Clis, CliStarts(p)
    PROVE  WatchInv'
  <1> USE DEF WatchInv
  <1>1. WatchTyped'
    BY DEF WatchTyped, CliStarts
  <1>2. SizesFit'
    BY DEF SizesFit, CliStarts
  <1>3. ProbeHeld'
    BY DEF ProbeHeld, CliStarts
  <1>4. ScanTold'
    BY DEF ScanTold, CliStarts
  <1>5. PagesKnow'
    BY DEF PagesKnow, CliStarts
  <1>6. UpToDate'
    BY DEF UpToDate, Covered, CliStarts, ghosts
  <1>7. SentAlone'
    BY DEF SentAlone, CliStarts, ghosts
  <1>8. SentUpToDate'
    BY DEF SentUpToDate, CliStarts, ghosts
  <1>9. QED
    BY <1>1, <1>2, <1>3, <1>4, <1>5, <1>6, <1>7, <1>8

LEMMA CliExitsKeeps ==
    ASSUME WatchInv, NEW p \in Clis, CliExits(p)
    PROVE  WatchInv'
  <1> USE DEF WatchInv
  <1>1. WatchTyped'
    BY DEF WatchTyped, CliExits
  <1>2. SizesFit'
    BY DEF SizesFit, CliExits
  <1>3. ProbeHeld'
    BY DEF ProbeHeld, CliExits
  <1>4. ScanTold'
    BY DEF ScanTold, CliExits
  <1>5. PagesKnow'
    BY DEF PagesKnow, CliExits
  <1>6. UpToDate'
    BY DEF UpToDate, Covered, CliExits, ghosts
  <1>7. SentAlone'
    BY DEF SentAlone, CliExits, ghosts
  <1>8. SentUpToDate'
    BY DEF SentUpToDate, CliExits, ghosts
  <1>9. QED
    BY <1>1, <1>2, <1>3, <1>4, <1>5, <1>6, <1>7, <1>8

LEMMA CliWritesKeeps ==
    ASSUME WatchInv, NEW p \in Clis, CliWrites(p)
    PROVE  WatchInv'
  <1> USE DEF WatchInv
  <1>r. PICK r \in WatchRows : rows' = Append(rows, r)
    BY DEF CliWrites, WatchRows, OurRows, CliRows
  <1>a. /\ rows' \in Seq(WatchRows) /\ Len(rows') = Len(rows) + 1 /\ Len(rows) \in Nat
        /\ \A k \in 1..Len(rows) : rows'[k] = rows[k]
    BY <1>r, RowAdded DEF WatchTyped
  <1>1. WatchTyped'
    BY <1>a DEF WatchTyped, CliWrites
  <1>2. SizesFit'
    BY <1>a DEF SizesFit, WatchTyped, Ownership, LockState, CliWrites
  <1>3. ProbeHeld'
    BY <1>a DEF ProbeHeld, CliWrites
  <1>4. ScanTold'
    BY <1>a DEF ScanTold, CliWrites
  <1>5. PagesKnow'
    BY <1>a DEF PagesKnow, CliWrites
  <1>6. UpToDate'
    BY <1>a DEF UpToDate, WatchTyped, SizesFit, Covered, Ownership, CliWrites, ghosts
  <1>7. SentAlone'
    BY <1>a DEF SentAlone, CliWrites, ghosts
  <1>8. SentUpToDate'
    BY <1>a DEF SentUpToDate, CliWrites, ghosts
  <1>9. QED
    BY <1>1, <1>2, <1>3, <1>4, <1>5, <1>6, <1>7, <1>8

LEMMA FileBlinksKeeps ==
    ASSUME WatchInv, FileBlinks
    PROVE  WatchInv'
  <1> USE DEF WatchInv
  <1>1. WatchTyped'
    BY DEF WatchTyped, FileBlinks
  <1>2. SizesFit'
    BY DEF SizesFit, FileBlinks
  <1>3. ProbeHeld'
    BY DEF ProbeHeld, FileBlinks
  <1>4. ScanTold'
    BY DEF ScanTold, FileBlinks
  <1>5. PagesKnow'
    BY DEF PagesKnow, FileBlinks
  <1>6. UpToDate'
    BY DEF UpToDate, Covered, FileBlinks, ghosts
  <1>7. SentAlone'
    BY DEF SentAlone, FileBlinks, ghosts
  <1>8. SentUpToDate'
    BY DEF SentUpToDate, FileBlinks, ghosts
  <1>9. QED
    BY <1>1, <1>2, <1>3, <1>4, <1>5, <1>6, <1>7, <1>8

LEMMA SdkWritesKeeps ==
    ASSUME WatchInv, SdkWrites
    PROVE  WatchInv'
  <1> USE DEF WatchInv
  <1>r. PICK r \in WatchRows : rows' = Append(rows, r)
    BY DEF SdkWrites, WatchRows, OurRows, CliRows
  <1>a. /\ rows' \in Seq(WatchRows) /\ Len(rows') = Len(rows) + 1 /\ Len(rows) \in Nat
        /\ \A k \in 1..Len(rows) : rows'[k] = rows[k]
    BY <1>r, RowAdded DEF WatchTyped
  <1>e. sdk' \in SdkState /\ sdk'.up = sdk.up /\ sdk'.known = sdk.known \cup {Len(rows) + 1}
        /\ sdk.known \subseteq sdk'.known
    BY SdkKnowsMore
  <1>1. WatchTyped'
    BY <1>a, <1>e DEF WatchTyped, SdkWrites
  <1>2. SizesFit'
    BY <1>a, <1>e DEF SizesFit, WatchTyped, Ownership, LockState, SdkWrites
  <1>3. ProbeHeld'
    BY <1>a, <1>e DEF ProbeHeld, SdkWrites
  <1>4. ScanTold'
    BY <1>a, <1>e DEF ScanTold, SdkWrites
  <1>5. PagesKnow'
    BY <1>a, <1>e DEF PagesKnow, SdkWrites
  <1>6. UpToDate'
    BY <1>a, <1>e DEF UpToDate, WatchTyped, SizesFit, Covered, Ownership, SdkWrites, ghosts
  <1>7. SentAlone'
    BY <1>a, <1>e DEF SentAlone, SdkWrites, ghosts
  <1>8. SentUpToDate'
    BY <1>a, <1>e DEF SentUpToDate, SdkWrites, ghosts
  <1>9. QED
    BY <1>1, <1>2, <1>3, <1>4, <1>5, <1>6, <1>7, <1>8

LEMMA PollsKeeps ==
    ASSUME WatchInv, Polls
    PROVE  WatchInv'
  <1> USE DEF WatchInv
  <1>e. probe = FreeLock /\ probe.at = "free" /\ probe.by = NoActor
        /\ probe' \in LockState /\ probe'.by = "loop" /\ probe'.at = "scan"
    BY AcquireDoes DEF Polls, Actors
  <1>1. WatchTyped'
    BY <1>e DEF WatchTyped, Polls, world
  <1>2. SizesFit'
    BY <1>e DEF SizesFit, Polls, world
  <1>3. ProbeHeld'
    BY <1>e, LockIsFree DEF ProbeHeld, Actors, Polls
  <1>4. ScanTold'
    BY <1>e DEF ScanTold
  <1>5. PagesKnow'
    BY <1>e DEF PagesKnow, Polls
  <1>6. UpToDate'
    BY <1>e DEF UpToDate, Covered, Polls, world, ghosts
  <1>7. SentAlone'
    BY <1>e DEF SentAlone, Polls, ghosts
  <1>8. SentUpToDate'
    BY <1>e DEF SentUpToDate, Polls, ghosts
  <1>9. QED
    BY <1>1, <1>2, <1>3, <1>4, <1>5, <1>6, <1>7, <1>8

LEMMA ScanKeeps ==
    ASSUME WatchInv, Scan
    PROVE  WatchInv'
  <1> USE DEF WatchInv
  <1>e. probe.at = "scan" /\ probe' \in LockState /\ probe'.by = probe.by /\ probe'.at = "stat"
        /\ (probe'.complete => probe'.seen = probe'.holders)
    BY ScanDoes
  <1>1. WatchTyped'
    BY <1>e DEF WatchTyped, Scan, world
  <1>2. SizesFit'
    BY <1>e DEF SizesFit, Scan, world
  <1>3. ProbeHeld'
    BY <1>e DEF ProbeHeld, Scan
  <1>4. ScanTold'
    BY <1>e DEF ScanTold
  <1>5. PagesKnow'
    BY <1>e DEF PagesKnow, Scan
  <1>6. UpToDate'
    BY <1>e DEF UpToDate, Covered, Scan, world, ghosts
  <1>7. SentAlone'
    BY <1>e DEF SentAlone, Scan, ghosts
  <1>8. SentUpToDate'
    BY <1>e DEF SentUpToDate, Scan, ghosts
  <1>9. QED
    BY <1>1, <1>2, <1>3, <1>4, <1>5, <1>6, <1>7, <1>8

LEMMA PollDoneKeeps ==
    ASSUME WatchInv, PollDone
    PROVE  WatchInv'
  <1> USE DEF WatchInv
  <1>1. WatchTyped'
    BY LockIsFree DEF WatchTyped, PollDone, world
  <1>2. SizesFit'
    BY LockIsFree DEF SizesFit, PollDone, world
  <1>3. ProbeHeld'
    BY LockIsFree DEF ProbeHeld, Actors, PollDone
  <1>4. ScanTold'
    BY LockIsFree DEF ScanTold, PollDone
  <1>5. PagesKnow'
    BY LockIsFree DEF PagesKnow, PollDone
  <1>6. UpToDate'
    BY DEF UpToDate, Covered, PollDone, world, ghosts
  <1>7. SentAlone'
    BY DEF SentAlone, PollDone, ghosts
  <1>8. SentUpToDate'
    BY DEF SentUpToDate, PollDone, ghosts
  <1>9. QED
    BY <1>1, <1>2, <1>3, <1>4, <1>5, <1>6, <1>7, <1>8

LEMMA ConnectReadsKeeps ==
    ASSUME WatchInv, ConnectReads
    PROVE  WatchInv'
  <1> USE DEF WatchInv
  <1>e. connect.at = "reading" /\ connect' \in ConnectState /\ connect'.by = connect.by
        /\ connect'.at = "read" /\ connect'.read = 1..Len(rows) /\ Len(rows) \in Nat
    BY ConnectReadsDoes
  <1>1. WatchTyped'
    BY <1>e DEF WatchTyped, ConnectReads, world
  <1>2. SizesFit'
    BY <1>e DEF SizesFit, ConnectReads, world
  <1>3. ProbeHeld'
    BY <1>e DEF ProbeHeld, ConnectReads
  <1>4. ScanTold'
    BY <1>e DEF ScanTold, ConnectReads
  <1>5. PagesKnow'
    BY <1>e DEF PagesKnow, ConnectReads
  <1>6. UpToDate'
    BY <1>e DEF UpToDate, WatchTyped, SizesFit, ProbeHeld, Covered, Ownership, ConnectReads
  <1>7. SentAlone'
    BY <1>e DEF SentAlone, ConnectReads, ghosts
  <1>8. SentUpToDate'
    BY <1>e DEF SentUpToDate, ConnectReads, ghosts
  <1>9. QED
    BY <1>1, <1>2, <1>3, <1>4, <1>5, <1>6, <1>7, <1>8

LEMMA CommandKeeps ==
    ASSUME WatchInv, Command
    PROVE  WatchInv'
  <1> USE DEF WatchInv
  <1>1. WatchTyped'
    BY DEF WatchTyped, Command, world
  <1>2. SizesFit'
    BY DEF SizesFit, Command, world
  <1>3. ProbeHeld'
    BY DEF ProbeHeld, Command
  <1>4. ScanTold'
    BY DEF ScanTold, Command
  <1>5. PagesKnow'
    BY DEF PagesKnow, Command
  <1>6. UpToDate'
    BY DEF UpToDate, Covered, Command, world, ghosts
  <1>7. SentAlone'
    BY DEF SentAlone, Command, ghosts
  <1>8. SentUpToDate'
    BY DEF SentUpToDate, Command, ghosts
  <1>9. QED
    BY <1>1, <1>2, <1>3, <1>4, <1>5, <1>6, <1>7, <1>8

LEMMA LaneProbesKeeps ==
    ASSUME WatchInv, LaneProbes
    PROVE  WatchInv'
  <1> USE DEF WatchInv
  <1>e. probe = FreeLock /\ probe.at = "free" /\ probe.by = NoActor
        /\ probe' \in LockState /\ probe'.by = "lane" /\ probe'.at = "scan"
    BY AcquireDoes DEF LaneProbes, Actors
  <1>1. WatchTyped'
    BY <1>e DEF WatchTyped, LaneProbes, world
  <1>2. SizesFit'
    BY <1>e DEF SizesFit, LaneProbes, world
  <1>3. ProbeHeld'
    BY <1>e, LockIsFree DEF ProbeHeld, Actors, LaneProbes
  <1>4. ScanTold'
    BY <1>e DEF ScanTold
  <1>5. PagesKnow'
    BY <1>e DEF PagesKnow, LaneProbes
  <1>6. UpToDate'
    BY <1>e DEF UpToDate, Covered, LaneProbes, world, ghosts
  <1>7. SentAlone'
    BY <1>e DEF SentAlone, LaneProbes, ghosts
  <1>8. SentUpToDate'
    BY <1>e DEF SentUpToDate, LaneProbes, ghosts
  <1>9. QED
    BY <1>1, <1>2, <1>3, <1>4, <1>5, <1>6, <1>7, <1>8

LEMMA QueryJudgedKeeps ==
    ASSUME WatchInv, QueryJudged
    PROVE  WatchInv'
  <1> USE DEF WatchInv
  <1>1. WatchTyped'
    BY LockIsFree DEF WatchTyped, QueryJudged, world
  <1>2. SizesFit'
    BY LockIsFree DEF SizesFit, QueryJudged, world
  <1>3. ProbeHeld'
    BY LockIsFree DEF ProbeHeld, Reconnecting, Actors, QueryJudged
  <1>4. ScanTold'
    BY LockIsFree DEF ScanTold, QueryJudged
  <1>5. PagesKnow'
    BY LockIsFree DEF PagesKnow, QueryJudged
  <1>6. UpToDate'
    BY DEF UpToDate, Covered, QueryJudged, world, ghosts
  <1>7. SentAlone'
    BY DEF SentAlone, QueryJudged, ghosts
  <1>8. SentUpToDate'
    BY DEF SentUpToDate, QueryJudged, ghosts
  <1>9. QED
    BY <1>1, <1>2, <1>3, <1>4, <1>5, <1>6, <1>7, <1>8

LEMMA EditWritesKeeps ==
    ASSUME WatchInv, EditWrites
    PROVE  WatchInv'
  <1> USE DEF WatchInv
  <1>r. PICK r \in WatchRows : rows' = Append(rows, r)
    BY DEF EditWrites, WatchRows, OurRows, CliRows
  <1>a. /\ rows' \in Seq(WatchRows) /\ Len(rows') = Len(rows) + 1 /\ Len(rows) \in Nat
        /\ \A k \in 1..Len(rows) : rows'[k] = rows[k]
    BY <1>r, RowAdded DEF WatchTyped
  <1>1. WatchTyped'
    BY <1>a DEF WatchTyped, EditWrites
  <1>2. SizesFit'
    BY <1>a DEF SizesFit, WatchTyped, Ownership, LockState, EditWrites
  <1>3. ProbeHeld'
    BY <1>a DEF ProbeHeld, EditWrites
  <1>4. ScanTold'
    BY <1>a DEF ScanTold, EditWrites
  <1>5. PagesKnow'
    BY <1>a DEF PagesKnow, EditWrites
  <1>6. UpToDate'
    BY <1>a DEF UpToDate, WatchTyped, SizesFit, Covered, Ownership, EditWrites, ghosts
  <1>7. SentAlone'
    BY <1>a DEF SentAlone, EditWrites, ghosts
  <1>8. SentUpToDate'
    BY <1>a DEF SentUpToDate, EditWrites, ghosts
  <1>9. QED
    BY <1>1, <1>2, <1>3, <1>4, <1>5, <1>6, <1>7, <1>8

LEMMA TaskProbesKeeps ==
    ASSUME WatchInv, TaskProbes
    PROVE  WatchInv'
  <1> USE DEF WatchInv
  <1>e. probe = FreeLock /\ probe.at = "free" /\ probe.by = NoActor
        /\ probe' \in LockState /\ probe'.by = "task" /\ probe'.at = "scan"
    BY AcquireDoes DEF TaskProbes, Actors
  <1>1. WatchTyped'
    BY <1>e DEF WatchTyped, TaskProbes, world
  <1>2. SizesFit'
    BY <1>e DEF SizesFit, TaskProbes, world
  <1>3. ProbeHeld'
    BY <1>e, LockIsFree DEF ProbeHeld, Probing, Actors, TaskProbes
  <1>4. ScanTold'
    BY <1>e DEF ScanTold, TaskProbes
  <1>5. PagesKnow'
    BY <1>e DEF PagesKnow, TaskProbes
  <1>6. UpToDate'
    BY <1>e DEF UpToDate, Covered, TaskProbes, world, ghosts
  <1>7. SentAlone'
    BY <1>e DEF SentAlone, TaskProbes, ghosts
  <1>8. SentUpToDate'
    BY <1>e DEF SentUpToDate, TaskProbes, ghosts
  <1>9. QED
    BY <1>1, <1>2, <1>3, <1>4, <1>5, <1>6, <1>7, <1>8

LEMMA TaskInterruptedKeeps ==
    ASSUME WatchInv, TaskInterrupted
    PROVE  WatchInv'
  <1> USE DEF WatchInv
  <1>1. WatchTyped'
    BY DEF WatchTyped, TaskInterrupted, world
  <1>2. SizesFit'
    BY DEF SizesFit, TaskInterrupted, world
  <1>3. ProbeHeld'
    BY DEF ProbeHeld, Reconnecting, TaskInterrupted
  <1>4. ScanTold'
    BY DEF ScanTold, TaskInterrupted
  <1>5. PagesKnow'
    BY DEF PagesKnow, TaskInterrupted
  <1>6. UpToDate'
    BY DEF UpToDate, Covered, TaskInterrupted, world, ghosts
  <1>7. SentAlone'
    BY DEF SentAlone, TaskInterrupted, ghosts
  <1>8. SentUpToDate'
    BY DEF SentUpToDate, TaskInterrupted, ghosts
  <1>9. QED
    BY <1>1, <1>2, <1>3, <1>4, <1>5, <1>6, <1>7, <1>8

LEMMA StatKeeps ==
    ASSUME WatchInv, Stat
    PROVE  WatchInv'
  <1> USE DEF WatchInv
  <1>1. /\ probe.at = "stat" /\ probe' \in LockState /\ probe'.by = probe.by
        /\ probe'.at \in {"read", "judged"} /\ probe'.complete = probe.complete
        /\ probe'.seen = probe.seen /\ probe'.holders = probe.holders
        /\ probe'.at = "read" => probe'.old = owner.size /\ probe'.size = Len(rows)
                                 /\ owner.size <= Len(rows)
    <2>1. probe \in LockState /\ owner.size \in Nat /\ Len(rows) \in Nat
      BY SizeIsNat DEF WatchTyped, Ownership
    <2>2. PICK where \in {"read", "judged"} :
             /\ where = IF fileUp /\ Len(rows) > owner.size THEN "read" ELSE "judged"
             /\ probe' = [probe EXCEPT !.at = where, !.old = owner.size, !.size = Len(rows)]
      BY DEF Stat
    <2>3. probe.at = "stat"
      BY DEF Stat
    <2>4. where = "read" => owner.size <= Len(rows)
      BY <2>1, <2>2
    <2>5. QED
      BY <2>1, <2>2, <2>3, <2>4 DEF LockState, LockAt
  <1>2. owner.pending = FALSE /\ probe \in LockState /\ owner \in Ownership /\ fileUp \in BOOLEAN
    BY <1>1 DEF ProbeHeld, WatchTyped
  <1>3. /\ owner' \in Ownership /\ owner'.size = owner.size /\ owner'.pending = FALSE
        /\ owner'.scanned => probe.complete /\ owner'.external = (probe.holders # {})
    <2>1. CASE probe.complete
      <3>1. owner' = [owner EXCEPT !.file = fileUp, !.scanned = TRUE, !.holders = probe.holders,
                                   !.pending = FALSE, !.external = (probe.holders # {})]
        BY <1>2, <2>1 DEF Stat, Scanned
      <3>2. QED
        BY <1>2, <2>1, <3>1 DEF LockState, Ownership
    <2>2. CASE ~probe.complete
      <3>1. owner' = [owner EXCEPT !.file = fileUp, !.scanned = FALSE, !.holders = @ \cup probe.holders]
        BY <2>2 DEF Stat, Scanned
      <3>2. QED
        BY <1>2, <3>1 DEF LockState, Ownership
    <2>3. QED
      BY <2>1, <2>2
  <1>4. /\ UNCHANGED <<world, sdk, reload, connect, laneAt, taskAt, ghosts>>
        /\ write' = write \/ write' = ControlOf(owner', reload)
        /\ probe'.at # "read" => write' = ControlOf(owner', reload)
    BY <1>1 DEF Stat
  <1>5. /\ write' \in WriteStates
        /\ probe'.at # "read" /\ write' = "writable" => ~owner'.external
        /\ reload /\ write = "failed" => write' = "failed"
    BY <1>3, <1>4, ControlDoes DEF WatchTyped
  <1>6. WatchTyped'
    BY <1>1, <1>3, <1>4, <1>5 DEF WatchTyped, world
  <1>7. SizesFit' /\ UpToDate'
    BY <1>1, <1>2, <1>3, <1>4, SizeIsNat DEF SizesFit, UpToDate, Covered, world, ghosts, Ownership
  <1>8. ProbeHeld'
    BY <1>1, <1>3, <1>4 DEF ProbeHeld
  <1>9. ScanTold'
    BY <1>1, <1>3 DEF ScanTold
  <1>10. PagesKnow'
    BY <1>1, <1>4, <1>5 DEF PagesKnow
  <1>11. SentAlone' /\ SentUpToDate'
    BY <1>4 DEF SentAlone, SentUpToDate, ghosts
  <1>12. QED
    BY <1>6, <1>7, <1>8, <1>9, <1>10, <1>11

LEMMA JudgeKeeps ==
    ASSUME WatchInv, Judge
    PROVE  WatchInv'
  <1> USE DEF WatchInv
  <1>1. /\ probe.at = "read" /\ probe' \in LockState /\ probe'.by = probe.by
        /\ probe'.at = "judged" /\ probe'.complete = probe.complete
        /\ probe'.seen = probe.seen /\ probe'.holders = probe.holders
    BY DEF Judge, WatchTyped, LockState, LockAt
  <1>2. /\ owner' \in Ownership /\ owner'.size = probe.size /\ owner'.external = owner.external
        /\ owner'.scanned = owner.scanned /\ owner'.pending = owner.pending
        /\ owner.size \in Nat /\ probe.old \in Nat /\ probe.size \in Nat
    BY DEF Judge, WatchTyped, LockState, Ownership
  <1>3. /\ reload' \in BOOLEAN /\ (reload => reload') /\ missed \subseteq missed'
        /\ UNCHANGED <<world, sdk, connect, laneAt, taskAt, sent>>
        /\ write' = ControlOf(owner', reload')
    BY DEF Judge, ForeignGrowth
  <1>4. /\ write' \in WriteStates /\ (write' = "writable" => ~owner'.external)
        /\ reload' /\ write = "failed" => write' = "failed"
    BY <1>2, <1>3, ControlDoes
  <1>5. WatchTyped'
    BY <1>1, <1>2, <1>3, <1>4 DEF WatchTyped, world
  <1>6. SizesFit'
    BY <1>1, <1>2, <1>3 DEF SizesFit, world
  <1>7. ProbeHeld'
    BY <1>1, <1>2, <1>3 DEF ProbeHeld
  <1>8. ScanTold'
    BY <1>1, <1>2 DEF ScanTold
  <1>9. PagesKnow'
    BY <1>1, <1>3, <1>4 DEF PagesKnow
  <1>10. UpToDate'
    <2>1. connect.by # "lane"
      BY <1>1 DEF ProbeHeld
    <2>2. ASSUME NEW s, Covered(s), ~reload'
          PROVE  Covered(s)'
      <3>1. \A k \in (probe.old + 1)..probe.size : rows[k] \in CliRows => k \in missed'
        BY <1>1, <2>2, GrowthDoes
      <3>2. probe.old <= owner.size
        BY <1>1 DEF SizesFit
      <3>3. QED
        BY <1>2, <1>3, <2>2, <3>1, <3>2 DEF Covered, world
    <2>3. QED
      BY <1>3, <2>1, <2>2 DEF UpToDate
  <1>11. SentAlone' /\ SentUpToDate'
    BY <1>3 DEF SentAlone, SentUpToDate
  <1>12. QED
    BY <1>5, <1>6, <1>7, <1>8, <1>9, <1>10, <1>11

\* Taking the size as it is keeps the invariant, whatever ends by it.
LEMMA ResyncKeeps ==
    ASSUME WatchInv, owner' = Resynced, missed' = PassedOver,
           UNCHANGED <<world, sdk, reload, write, probe, connect, sent>>,
           laneAt' \in {"idle", laneAt}, taskAt' \in {"none", taskAt},
           laneAt' # laneAt => laneAt \in {"edit", "resync"},
           taskAt' # taskAt => taskAt = "unwinding"
    PROVE  WatchInv'
  <1> USE DEF WatchInv
  <1>1. /\ owner' \in Ownership /\ owner'.size >= owner.size /\ owner'.size <= Len(rows)
        /\ owner'.external = owner.external /\ owner'.scanned = owner.scanned
        /\ owner'.pending = owner.pending /\ missed \subseteq missed'
        /\ \A k \in (owner.size + 1)..owner'.size : rows[k] \in CliRows => k \in missed'
        /\ owner.size \in Nat /\ owner'.size \in Nat /\ Len(rows) \in Nat
    BY ResyncDoes, SizeIsNat DEF WatchTyped, Ownership
  <1>2. WatchTyped'
    BY <1>1 DEF WatchTyped, world
  <1>3. SizesFit'
    BY <1>1 DEF SizesFit, WatchTyped, LockState, world
  <1>4. ProbeHeld'
    BY <1>1 DEF ProbeHeld, Reconnecting, Probing
  <1>5. ScanTold' /\ PagesKnow'
    BY <1>1 DEF ScanTold, PagesKnow
  <1>6. UpToDate'
    <2>1. ASSUME NEW s, Covered(s)
          PROVE  Covered(s)'
      BY <1>1, <2>1 DEF Covered, world
    <2>2. QED
      BY <2>1 DEF UpToDate
  <1>7. SentAlone' /\ SentUpToDate'
    BY <1>1 DEF SentAlone, SentUpToDate
  <1>8. QED
    BY <1>2, <1>3, <1>4, <1>5, <1>6, <1>7

LEMMA EditDoneKeeps ==
    ASSUME WatchInv, EditDone
    PROVE  WatchInv'
  <1>1. CASE laneAt = "resync" /\ owner' = Resynced /\ missed' = PassedOver
    BY <1>1, ResyncKeeps DEF EditDone
  <1>2. CASE laneAt = "edit" /\ UNCHANGED <<owner, missed>>
    <2>1. /\ laneAt = "edit" /\ laneAt' = "idle"
          /\ UNCHANGED <<rows, fileUp, sdk, owner, reload, write, probe, connect, taskAt, sent, missed>>
      BY <1>2 DEF EditDone, world
    <2>2. WatchTyped' /\ SizesFit' /\ ProbeHeld'
      BY <2>1 DEF WatchInv, WatchTyped, SizesFit, ProbeHeld
    <2>3. ScanTold' /\ PagesKnow' /\ UpToDate' /\ SentAlone' /\ SentUpToDate'
      BY <2>1 DEF WatchInv, ScanTold, PagesKnow, UpToDate, Covered, SentAlone, SentUpToDate
    <2>4. QED
      BY <2>2, <2>3 DEF WatchInv
  <1>3. QED
    BY <1>1, <1>2 DEF EditDone

LEMMA TurnUnwindsKeeps ==
    ASSUME WatchInv, TurnUnwinds
    PROVE  WatchInv'
  BY ResyncKeeps DEF TurnUnwinds

\* The lane of a takeover reconnects the SDK, which owes the reload.
LEMMA LaneReconnectsKeeps ==
    ASSUME WatchInv, laneAt = "takeover", probe.by = "lane", probe.at \in {"judged", "stopping"},
           reload' = TRUE, SdkReconnect("lane"),
           probe' \in LockState, probe'.by = "lane", probe'.at = "resuming",
           probe'.seen = probe.seen, probe'.holders = probe.holders,
           probe'.complete = probe.complete,
           owner' \in Ownership, owner'.size <= Len(rows), owner'.external = owner.external,
           owner'.scanned = owner.scanned,
           UNCHANGED <<rows, fileUp, write, laneAt, taskAt, sent, missed>>
    PROVE  WatchInv'
  <1> USE DEF WatchInv
  <1>1. /\ sdk' \in SdkState /\ ~sdk'.up /\ sdk'.known = {}
        /\ connect' \in ConnectState /\ connect'.by = "lane" /\ connect'.at = "reading"
        /\ connect'.read = {}
    BY ReconnectDoes DEF Actors
  <1>2. WatchTyped' /\ SizesFit'
    BY <1>1 DEF WatchTyped, SizesFit
  <1>3. ProbeHeld'
    BY <1>1 DEF ProbeHeld, Reconnecting
  <1>4. ScanTold'
    BY DEF ScanTold
  <1>5. PagesKnow'
    BY <1>1 DEF PagesKnow
  <1>6. UpToDate'
    BY <1>1 DEF UpToDate
  <1>7. QED
    BY <1>2, <1>3, <1>4, <1>5, <1>6 DEF SentAlone, SentUpToDate

LEMMA TakeoverJudgedKeeps ==
    ASSUME WatchInv, TakeoverJudged
    PROVE  WatchInv'
  <1> USE DEF WatchInv
  <1>1. /\ laneAt = "takeover" /\ probe.by = "lane" /\ probe.at = "judged"
        /\ UNCHANGED <<rows, fileUp, taskAt, sent, missed>>
    BY DEF TakeoverJudged, TakeoverAt, world, ghosts
  <1>2. CASE /\ probe' = FreeLock /\ laneAt' = "idle"
             /\ UNCHANGED <<sdk, owner, reload, write, connect>>
    <2>1. WatchTyped' /\ SizesFit'
      BY <1>1, <1>2, LockIsFree DEF WatchTyped, SizesFit
    <2>2. ProbeHeld'
      BY <1>1, <1>2, LockIsFree DEF ProbeHeld, Actors
    <2>3. ScanTold' /\ PagesKnow' /\ UpToDate'
      BY <1>1, <1>2, LockIsFree DEF ScanTold, PagesKnow, UpToDate, Covered
    <2>4. QED
      BY <1>1, <2>1, <2>2, <2>3 DEF SentAlone, SentUpToDate
  <1>3. CASE /\ owner' = [owner EXCEPT !.pending = TRUE, !.external = TRUE]
             /\ write' = ControlOf(owner', reload)
             /\ probe' = [probe EXCEPT !.at = "stopping"]
             /\ UNCHANGED <<sdk, reload, connect, laneAt>>
    <2>1. /\ owner' \in Ownership /\ owner'.pending /\ owner'.size = owner.size
          /\ probe' \in LockState /\ probe'.by = "lane" /\ probe'.at = "stopping"
          /\ probe'.seen = probe.seen /\ probe'.holders = probe.holders
          /\ probe'.complete = probe.complete
      BY <1>1, <1>3 DEF WatchTyped, Ownership, LockState, LockAt
    <2>2. /\ write' \in WriteStates /\ write' # "writable"
          /\ reload /\ write = "failed" => write' = "failed"
      BY <1>3, <2>1, ControlDoes DEF WatchTyped
    <2>3. WatchTyped' /\ SizesFit'
      BY <1>1, <1>3, <2>1, <2>2 DEF WatchTyped, SizesFit
    <2>4. ProbeHeld'
      BY <1>1, <1>3, <2>1 DEF ProbeHeld
    <2>5. ScanTold' /\ PagesKnow' /\ UpToDate'
      BY <1>1, <1>3, <2>1, <2>2 DEF ScanTold, PagesKnow, UpToDate, Covered
    <2>6. QED
      BY <1>1, <2>3, <2>4, <2>5 DEF SentAlone, SentUpToDate
  <1>4. CASE /\ reload' = TRUE
             /\ SdkReconnect("lane")
             /\ probe' = [probe EXCEPT !.at = "resuming"]
             /\ UNCHANGED <<owner, write, laneAt>>
    <2>1. /\ probe' \in LockState /\ probe'.by = "lane" /\ probe'.at = "resuming"
          /\ probe'.seen = probe.seen /\ probe'.holders = probe.holders
          /\ probe'.complete = probe.complete
      BY <1>1, <1>4 DEF WatchTyped, LockState, LockAt
    <2>2. QED
      BY <1>1, <1>4, <2>1, LaneReconnectsKeeps DEF WatchTyped, SizesFit
  <1>5. QED
    BY <1>2, <1>3, <1>4 DEF TakeoverJudged

LEMMA TakeoverStoppedKeeps ==
    ASSUME WatchInv, TakeoverStopped
    PROVE  WatchInv'
  <1> USE DEF WatchInv
  <1>1. /\ laneAt = "takeover" /\ probe.by = "lane" /\ probe.at = "stopping"
        /\ UNCHANGED <<rows, fileUp, taskAt, sent, missed>>
    BY DEF TakeoverStopped, TakeoverAt, world, ghosts
  <1>2. CASE /\ owner' = [owner EXCEPT !.pending = FALSE, !.external = TRUE]
             /\ write' = ControlOf(owner', reload)
             /\ probe' = FreeLock /\ laneAt' = "idle"
             /\ UNCHANGED <<sdk, reload, connect>>
    <2>1. /\ owner' \in Ownership /\ ~owner'.pending /\ owner'.external /\ owner'.size = owner.size
      BY <1>2 DEF WatchTyped, Ownership
    <2>2. /\ write' \in WriteStates /\ write' # "writable"
          /\ reload /\ write = "failed" => write' = "failed"
      BY <1>2, <2>1, ControlDoes DEF WatchTyped
    <2>3. WatchTyped' /\ SizesFit'
      BY <1>1, <1>2, <2>1, <2>2, LockIsFree DEF WatchTyped, SizesFit
    <2>4. ProbeHeld'
      BY <1>1, <1>2, <2>1, LockIsFree DEF ProbeHeld, Actors
    <2>5. ScanTold' /\ PagesKnow' /\ UpToDate'
      BY <1>1, <1>2, <2>1, <2>2, LockIsFree DEF ScanTold, PagesKnow, UpToDate, Covered
    <2>6. QED
      BY <1>1, <2>3, <2>4, <2>5 DEF SentAlone, SentUpToDate
  <1>3. CASE /\ owner' = IF fileUp THEN [owner EXCEPT !.size = Len(rows), !.file = TRUE] ELSE owner
             /\ reload' = TRUE
             /\ SdkReconnect("lane")
             /\ probe' = [probe EXCEPT !.at = "resuming"]
             /\ UNCHANGED <<write, laneAt>>
    <2>1. /\ owner' \in Ownership /\ owner'.size <= Len(rows) /\ owner'.external = owner.external
          /\ owner'.scanned = owner.scanned
      <3>1. owner \in Ownership /\ owner.size <= Len(rows) /\ Len(rows) \in Nat
        BY SizeIsNat DEF WatchTyped, SizesFit
      <3>2. CASE fileUp
        <4>1. owner' = [owner EXCEPT !.size = Len(rows), !.file = TRUE]
          BY <1>3, <3>2
        <4>2. owner' \in Ownership
          BY <3>1, <4>1 DEF Ownership
        <4>3. QED
          BY <3>1, <4>1, <4>2
      <3>3. CASE ~fileUp
        BY <1>3, <3>1, <3>3
      <3>4. QED
        BY <3>2, <3>3
    <2>2. /\ probe' \in LockState /\ probe'.by = "lane" /\ probe'.at = "resuming"
          /\ probe'.seen = probe.seen /\ probe'.holders = probe.holders
          /\ probe'.complete = probe.complete
      BY <1>1, <1>3 DEF WatchTyped, LockState, LockAt
    <2>3. QED
      BY <1>1, <1>3, <2>1, <2>2, LaneReconnectsKeeps
  <1>4. QED
    BY <1>2, <1>3 DEF TakeoverStopped

LEMMA TakeoverResumedKeeps ==
    ASSUME WatchInv, TakeoverResumed
    PROVE  WatchInv'
  <1> USE DEF WatchInv
  <1>1. /\ laneAt = "takeover" /\ probe.by = "lane" /\ probe.at = "resuming"
        /\ probe' = FreeLock /\ laneAt' = "idle"
        /\ UNCHANGED <<rows, fileUp, taskAt, sent, missed>>
    BY DEF TakeoverResumed, TakeoverAt, world, ghosts
  <1>2. /\ owner' \in Ownership /\ ~owner'.pending /\ ~owner'.external /\ owner'.size = owner.size
        /\ owner'.scanned
    BY DEF TakeoverResumed, TakenOver, WatchTyped, Ownership
  <1>3. ~sdk.up /\ reload
    BY <1>1 DEF ProbeHeld, PagesKnow, UpToDate
  <1>4. CASE /\ SdkConnected("lane")
             /\ reload' = FALSE
             /\ write' = ControlOf(owner', FALSE)
    <2>1. /\ connect.at = "read" /\ connect' = NoConnect
          /\ sdk' \in SdkState /\ sdk'.up /\ sdk'.known = connect.read
      BY <1>4, ConnectedDoes
    <2>2. write' \in WriteStates
      BY <1>2, <1>4, ControlDoes
    <2>3. WatchTyped' /\ SizesFit'
      BY <1>1, <1>2, <1>4, <2>1, <2>2, LockIsFree, NobodyConnects DEF WatchTyped, SizesFit
    <2>4. ProbeHeld'
      BY <1>1, <1>2, <2>1, LockIsFree, NobodyConnects DEF ProbeHeld, Actors
    <2>5. ScanTold' /\ PagesKnow'
      BY <1>1, <1>2, <2>1, LockIsFree, NobodyConnects DEF ScanTold, PagesKnow
    <2>6. Covered(connect.read)
      BY <1>1, <2>1 DEF ProbeHeld, UpToDate
    <2>7. UpToDate'
      BY <1>1, <1>2, <2>1, <2>6, NobodyConnects DEF UpToDate, Covered
    <2>8. QED
      BY <1>1, <2>3, <2>4, <2>5, <2>7 DEF SentAlone, SentUpToDate
  <1>5. CASE /\ ConnectFails("lane")
             /\ write' = "failed"
             /\ UNCHANGED reload
    <2>1. /\ sdk' = sdk /\ connect' \in ConnectState /\ connect'.by = NoActor
          /\ connect'.read = {} /\ connect'.at = "unresumed"
      BY <1>5, FailsDoes
    <2>2. WatchTyped' /\ SizesFit'
      BY <1>1, <1>2, <1>5, <2>1, LockIsFree DEF WatchTyped, SizesFit, WriteStates
    <2>3. ProbeHeld'
      BY <1>1, <1>2, <2>1, LockIsFree DEF ProbeHeld, Actors
    <2>4. ScanTold' /\ PagesKnow' /\ UpToDate'
      BY <1>1, <1>2, <1>3, <1>5, <2>1, LockIsFree DEF ScanTold, PagesKnow, UpToDate
    <2>5. QED
      BY <1>1, <2>2, <2>3, <2>4 DEF SentAlone, SentUpToDate
  <1>6. QED
    BY <1>4, <1>5 DEF TakeoverResumed

\* The task of a turn reconnects the SDK; a reload that was owed is cleared.
LEMMA TaskReconnectsKeeps ==
    ASSUME WatchInv, taskAt \notin Reconnecting, taskAt' \in Reconnecting,
           laneAt # "takeover", SdkReconnect("task"), reload' \in BOOLEAN,
           ~reload' \/ reload' = reload,
           probe' = probe \/ (probe.by = "task" /\ probe' = FreeLock),
           probe.by = "task" => probe' = FreeLock /\ probe.at = "judged",
           UNCHANGED <<rows, fileUp, owner, write, laneAt, sent, missed>>
    PROVE  WatchInv'
  <1> USE DEF WatchInv
  <1>1. /\ sdk' \in SdkState /\ ~sdk'.up /\ sdk'.known = {}
        /\ connect' \in ConnectState /\ connect'.by = "task" /\ connect'.at = "reading"
        /\ connect'.read = {}
    BY ReconnectDoes DEF Actors
  <1>2. /\ probe.by = "lane" => probe' = probe
        /\ probe.at \notin {"stopping", "resuming"} /\ probe'.at \notin {"stopping", "resuming"}
        /\ probe' \in LockState /\ probe'.by \in {probe.by, NoActor} /\ probe'.by # "task"
        /\ probe'.by = NoActor => probe' = FreeLock
        /\ probe'.by = NoActor <=> probe'.at = "free"
    BY LockIsFree DEF ProbeHeld, WatchTyped
  <1>3. WatchTyped'
    BY <1>1, <1>2 DEF WatchTyped
  <1>4. SizesFit'
    BY <1>1, LockIsFree DEF SizesFit
  <1>5. ProbeHeld'
    BY <1>1, <1>2, LockIsFree DEF ProbeHeld, Actors
  <1>6. ScanTold' /\ PagesKnow'
    <2>1. CASE probe' = probe
      BY <1>1, <1>2, <2>1 DEF ScanTold, PagesKnow
    <2>2. CASE probe' = FreeLock /\ probe.at = "judged"
      BY <1>1, <2>2, LockIsFree DEF ScanTold, PagesKnow
    <2>3. QED
      BY <2>1, <2>2
  <1>7. UpToDate'
    BY <1>1 DEF UpToDate
  <1>8. QED
    BY <1>3, <1>4, <1>5, <1>6, <1>7 DEF SentAlone, SentUpToDate

\* A step of the task that only moves it, and may give the lock back.
LEMMA TaskMovesKeeps ==
    ASSUME WatchInv, taskAt \notin Reconnecting,
           taskAt' \in {"none", "preflight", "turn", "unwinding"},
           taskAt' = "preflight" \/ taskAt' = "turn" => laneAt # "takeover",
           probe' = probe \/ (probe.by = "task" /\ probe' = FreeLock),
           probe.by = "task" => probe' = FreeLock /\ probe.at = "judged",
           UNCHANGED <<rows, fileUp, sdk, owner, reload, write, connect, laneAt, missed>>,
           sent'.seen = {}, sent'.stale \subseteq missed
    PROVE  WatchInv'
  <1> USE DEF WatchInv
  <1>1. /\ probe.by = "lane" => probe' = probe
        /\ probe.by = "task" => probe.at \notin {"stopping", "resuming"}
        /\ probe' \in LockState /\ probe'.by # "task"
        /\ probe'.by = NoActor => probe' = FreeLock
        /\ probe'.by = NoActor <=> probe'.at = "free"
    BY LockIsFree DEF ProbeHeld, WatchTyped
  <1>2. WatchTyped'
    BY <1>1 DEF WatchTyped, Probing
  <1>3. SizesFit'
    BY LockIsFree DEF SizesFit
  <1>4. ProbeHeld'
    BY <1>1, LockIsFree DEF ProbeHeld, Actors, Reconnecting
  <1>5. ScanTold' /\ PagesKnow'
    <2>1. CASE probe' = probe
      BY <2>1 DEF ScanTold, PagesKnow
    <2>2. CASE probe' = FreeLock /\ probe.at = "judged"
      BY <2>2, LockIsFree DEF ScanTold, PagesKnow
    <2>3. QED
      BY <2>1, <2>2
  <1>6. UpToDate'
    BY DEF UpToDate, Covered
  <1>7. QED
    BY <1>2, <1>3, <1>4, <1>5, <1>6 DEF SentAlone, SentUpToDate

LEMMA TaskStartsKeeps ==
    ASSUME WatchInv, TaskStarts
    PROVE  WatchInv'
  <1>1. /\ taskAt = "start" /\ laneAt # "takeover" /\ probe.by # "task"
        /\ UNCHANGED <<rows, fileUp, owner, write, probe, laneAt, sent, missed>>
    BY DEF TaskStarts, WatchInv, ProbeHeld, Probing, world, ghosts
  <1>2. CASE SdkReconnect("task") /\ taskAt' = "reloading" /\ (reload' = FALSE \/ UNCHANGED reload)
    BY <1>1, <1>2, TaskReconnectsKeeps DEF Reconnecting, WatchInv, WatchTyped
  <1>3. CASE taskAt' = "preflight" /\ UNCHANGED <<sdk, reload, connect>>
    BY <1>1, <1>3, TaskMovesKeeps DEF Reconnecting, WatchInv, SentAlone, SentUpToDate
  <1>4. QED
    BY <1>2, <1>3 DEF TaskStarts

LEMMA TaskReloadedKeeps ==
    ASSUME WatchInv, TaskReloaded
    PROVE  WatchInv'
  <1> USE DEF WatchInv
  <1>1. /\ taskAt \in Reconnecting /\ taskAt' \in {"none", "preflight", "preflight_again"}
        /\ laneAt # "takeover" /\ probe.by # "task" /\ ~sdk.up
        /\ UNCHANGED <<rows, fileUp, owner, reload, write, probe, laneAt, sent, missed>>
    BY LockIsFree
       DEF TaskReloaded, ProbeHeld, UpToDate, Reconnecting, Probing, Actors, world, ghosts
  <1>2. CASE SdkConnected("task")
    <2>1. /\ connect.at = "read" /\ connect' = NoConnect
          /\ sdk' \in SdkState /\ sdk'.up /\ sdk'.known = connect.read
      BY <1>2, ConnectedDoes
    <2>2. WatchTyped'
      BY <1>1, <2>1, NobodyConnects DEF WatchTyped, Probing
    <2>3. SizesFit'
      BY <1>1, <2>1, NobodyConnects DEF SizesFit
    <2>7. ProbeHeld'
      BY <1>1, <2>1, NobodyConnects, LockIsFree DEF ProbeHeld, Reconnecting, Actors
    <2>4. ScanTold' /\ PagesKnow'
      BY <1>1, <2>1, NobodyConnects DEF ScanTold, PagesKnow
    <2>5. UpToDate'
      BY <1>1, <2>1, NobodyConnects DEF UpToDate, Covered
    <2>6. QED
      BY <1>1, <2>2, <2>3, <2>4, <2>5, <2>7 DEF SentAlone, SentUpToDate
  <1>3. CASE ConnectFails("task") /\ taskAt' = "none"
    <2>1. /\ sdk' = sdk /\ connect' \in ConnectState /\ connect'.by = NoActor
          /\ connect'.read = {} /\ connect'.at = "none"
      BY <1>3, FailsDoes
    <2>2. WatchTyped'
      BY <1>1, <1>3, <2>1 DEF WatchTyped
    <2>6. SizesFit'
      BY <1>1, <2>1 DEF SizesFit
    <2>3. ProbeHeld'
      BY <1>1, <1>3, <2>1, LockIsFree DEF ProbeHeld, Reconnecting, Actors
    <2>4. ScanTold' /\ PagesKnow' /\ UpToDate'
      BY <1>1, <2>1 DEF ScanTold, PagesKnow, UpToDate
    <2>5. QED
      BY <1>1, <2>2, <2>3, <2>4, <2>6 DEF SentAlone, SentUpToDate
  <1>4. QED
    BY <1>2, <1>3 DEF TaskReloaded

LEMMA TaskJudgedKeeps ==
    ASSUME WatchInv, TaskJudged
    PROVE  WatchInv'
  <1> USE DEF WatchInv
  <1>1. /\ probe.by = "task" /\ probe.at = "judged" /\ probe' = FreeLock
        /\ taskAt \in Probing /\ taskAt \notin Reconnecting /\ laneAt # "takeover"
        /\ UNCHANGED <<rows, fileUp, owner, write, laneAt, missed>>
        /\ sent.seen = {} /\ sent.stale \subseteq missed
    BY DEF TaskJudged, ProbeHeld, SentAlone, SentUpToDate, Probing, Reconnecting, world
  <1>2. CASE taskAt' = "none" /\ UNCHANGED <<sdk, reload, connect, sent>>
    BY <1>1, <1>2, TaskMovesKeeps
  <1>3. CASE /\ reload' = FALSE /\ SdkReconnect("task") /\ taskAt' = "reloading_again"
             /\ UNCHANGED sent
    BY <1>1, <1>3, TaskReconnectsKeeps DEF Reconnecting
  <1>4. CASE ~ExternalNow(owner) /\ ~reload /\ Launch /\ UNCHANGED <<sdk, reload, connect>>
    <2>1. owner.scanned /\ ~owner.external
      BY <1>4 DEF ExternalNow
    <2>2. probe.seen = {}
      BY <1>1, <2>1 DEF ScanTold
    <2>3. CASE sdk.up
      <3>1. Covered(sdk.known)
        BY <1>4, <2>3 DEF UpToDate
      <3>2. ForeignIn(1..owner.size) \ sdk.known \subseteq missed
        BY <3>1 DEF Covered, ForeignIn
      <3>3. /\ taskAt' = "turn"
            /\ sent' = [seen |-> probe.seen, stale |-> ForeignIn(1..owner.size) \ sdk.known]
        BY <1>4, <2>3 DEF Launch
      <3>4. sent'.seen = {} /\ sent'.stale \subseteq missed
        BY <2>2, <3>2, <3>3
      <3>5. QED
        BY <1>1, <1>4, <3>3, <3>4, TaskMovesKeeps
    <2>4. CASE ~sdk.up
      BY <1>1, <1>4, <2>4, TaskMovesKeeps DEF Launch
    <2>5. QED
      BY <2>3, <2>4
  <1>5. QED
    BY <1>1, <1>2, <1>3, <1>4 DEF TaskJudged, ReloadStillOwed, Probing

LEMMA TurnStopsKeeps ==
    ASSUME WatchInv, TurnStops
    PROVE  WatchInv'
  <1>1. /\ taskAt = "turn" /\ taskAt \notin Reconnecting /\ probe.by # "task" /\ laneAt # "takeover"
        /\ UNCHANGED <<rows, fileUp, owner, reload, write, probe, laneAt, sent, missed>>
    BY DEF TurnStops, WatchInv, ProbeHeld, Probing, Reconnecting, world, ghosts
  <1>2. CASE taskAt' \in {"none", "unwinding"} /\ UNCHANGED <<sdk, connect>>
    BY <1>1, <1>2, TaskMovesKeeps DEF WatchInv, SentAlone, SentUpToDate
  <1>3. CASE taskAt' = "recovering" /\ SdkReconnect("task")
    BY <1>1, <1>3, TaskReconnectsKeeps DEF Reconnecting, WatchInv, WatchTyped
  <1>4. QED
    BY <1>2, <1>3 DEF TurnStops

LEMMA WatchBegins == WatchInit => WatchInv
  <1> SUFFICES ASSUME WatchInit
               PROVE  WatchInv
    OBVIOUS
  <1>1. PICK early \in {<<>>, <<"cli">>} :
           /\ rows = early /\ missed = DOMAIN early
           /\ owner = [size |-> Len(early), holders |-> {}, external |-> FALSE,
                       scanned |-> FALSE, file |-> TRUE, pending |-> FALSE]
    BY DEF WatchInit
  <1>2. /\ rows \in Seq(WatchRows) /\ Len(rows) \in Nat /\ missed = 1..Len(rows)
    <2>1. CASE rows = <<>>
      BY <1>1, <2>1
    <2>2. CASE rows = <<"cli">>
      <3>1. "cli" \in WatchRows
        BY DEF WatchRows, CliRows
      <3>2. <<"cli">> \in Seq(WatchRows) /\ Len(<<"cli">>) = 1 /\ DOMAIN <<"cli">> = 1..1
        BY <3>1
      <3>3. QED
        BY <1>1, <2>2, <3>2
    <2>3. QED
      BY <1>1, <2>1, <2>2
  <1>3. WatchTyped
    BY <1>1, <1>2, LockIsFree, NobodyConnects
       DEF WatchInit, WatchTyped, Ownership, SdkState, WriteStates
  <1>4. SizesFit /\ ScanTold /\ UpToDate /\ Covered(sdk.known)
    BY <1>1, <1>2 DEF WatchInit, SizesFit, ScanTold, UpToDate, Covered, FreeLock, NoConnect
  <1>5. ProbeHeld
    BY <1>1 DEF WatchInit, ProbeHeld, FreeLock, NoConnect, NoActor, Reconnecting
  <1>6. PagesKnow /\ SentAlone /\ SentUpToDate
    BY <1>1 DEF WatchInit, PagesKnow, SentAlone, SentUpToDate, NoConnect, FreeLock
  <1>7. QED
    BY <1>3, <1>4, <1>5, <1>6 DEF WatchInv

LEMMA WatchStuttersKeeps ==
    ASSUME WatchInv, UNCHANGED watchVars
    PROVE  WatchInv'
  <1>1. UNCHANGED <<rows, fileUp, sdk, owner, reload, write, probe, connect, laneAt, taskAt, sent,
                    missed>>
    BY DEF watchVars
  <1>2. WatchTyped' /\ SizesFit' /\ ProbeHeld' /\ ScanTold'
    BY <1>1 DEF WatchInv, WatchTyped, SizesFit, ProbeHeld, ScanTold
  <1>3. PagesKnow' /\ UpToDate' /\ SentAlone' /\ SentUpToDate'
    BY <1>1 DEF WatchInv, PagesKnow, UpToDate, Covered, SentAlone, SentUpToDate
  <1>4. QED
    BY <1>2, <1>3 DEF WatchInv

LEMMA WatchKeeps == WatchInv /\ [WatchNext]_watchVars => WatchInv'
  <1> SUFFICES ASSUME WatchInv, [WatchNext]_watchVars
               PROVE  WatchInv'
    OBVIOUS
  <1>1. ASSUME NEW p \in Clis, CliStarts(p) \/ CliExits(p) \/ CliWrites(p)
        PROVE  WatchInv'
    BY <1>1, CliStartsKeeps, CliExitsKeeps, CliWritesKeeps
  <1>2. CASE FileBlinks \/ SdkWrites \/ Polls \/ Scan \/ Stat \/ Judge \/ PollDone \/ ConnectReads
    BY <1>2, FileBlinksKeeps, SdkWritesKeeps, PollsKeeps, ScanKeeps, StatKeeps, JudgeKeeps,
       PollDoneKeeps, ConnectReadsKeeps
  <1>3. CASE Command \/ LaneProbes \/ QueryJudged \/ EditWrites \/ EditDone
    BY <1>3, CommandKeeps, LaneProbesKeeps, QueryJudgedKeeps, EditWritesKeeps, EditDoneKeeps
  <1>4. CASE TakeoverJudged \/ TakeoverStopped \/ TakeoverResumed
    BY <1>4, TakeoverJudgedKeeps, TakeoverStoppedKeeps, TakeoverResumedKeeps
  <1>5. CASE TaskStarts \/ TaskReloaded \/ TaskProbes \/ TaskJudged \/ TaskInterrupted
    BY <1>5, TaskStartsKeeps, TaskReloadedKeeps, TaskProbesKeeps, TaskJudgedKeeps,
       TaskInterruptedKeeps
  <1>6. CASE TurnStops \/ TurnUnwinds
    BY <1>6, TurnStopsKeeps, TurnUnwindsKeeps
  <1>7. CASE UNCHANGED watchVars
    BY <1>7, WatchStuttersKeeps
  <1>8. QED
    BY <1>1, <1>2, <1>3, <1>4, <1>5, <1>6, <1>7 DEF WatchNext

(* In every state the lock, the reload that is owed, what the owner was told  *)
(* by the last scan and what the SDK has read fit together.                   *)
THEOREM WatchInvariant == WatchSpec => []WatchInv
  <1>1. QED
    BY WatchBegins, WatchKeeps, PTL DEF WatchSpec

(* A prompt is sent only after a complete scan that found no CLI, and never   *)
(* over rows that the SDK has not read, but for those the code cannot tell;   *)
(* and the pages are told that the session is writable only when it is        *)
(* (_poll_claude_watch, _handle_takeover, _run_turn).                         *)
THEOREM WatchIsSafe == WatchSpec => []WatchSafe
  <1>1. ASSUME WatchInv
        PROVE  WatchSafe
    <2> USE <1>1 DEF WatchInv
    <2>1. WatchTypeOK
      BY LockIsFree, SizeIsNat
         DEF WatchTypeOK, WatchTyped, LockState, Ownership, WriteStates, SizesFit, ProbeHeld,
             TakeoverAt
    <2>2. ControlIsHonest
      BY LockIsFree DEF ControlIsHonest, PagesKnow
    <2>3. QED
      BY <2>1, <2>2 DEF WatchSafe
  <1>2. QED
    BY <1>1, WatchInvariant, PTL

-----------------------------------------------------------------------------
(* ClaudeHandover.  Who holds the handle, the launch lock and the terminal.  *)
Whose == {"terminal", "remote"}
Boundary == [what : {"start", "end"}, by : Whose]

\* Where a mover holds ctx.launch_lock, and where it is about to replace the handle.
Inside == {"adopt_locked", "disconnecting", "restore_locked", "connecting", "final_check",
           "publishing", "launching"}
Replacing == {"disconnecting", "connecting", "final_check", "publishing"}

Restoring == {"refresh", "restore", "restore_wait", "restore_locked", "connecting",
              "final_check", "publishing"}
Adopting == {"discover", "adopt", "adopt_locked", "disconnecting"}
PollingAt == {"poll", "scanned", "settle"}
LoopAt == {"rest"} \cup Restoring \cup Adopting \cup PollingAt
LaneMoves == LoopAt \cup {"capture", "ready", "claimed"}
TurnAt == {"launch", "launching", "draining", "failed", "closing"}
TaskMoves == {"rest", "unwind"} \cup TurnAt \cup Restoring

\* Where a mover goes on when the handle has been looked at.
GoesOn == {"rest", "poll", "settle", "capture", "ready", "unwind"}
MoverState == [at : LaneMoves \cup TaskMoves, h : Nat, g : Nat, kind : {"none", "sdk", "broker"},
               orphan : BOOLEAN, to : GoesOn]

SessionState == [kind : {"sdk", "broker"}, gen : Nat, swaps : Nat, state : {"idle", "running"},
                 task : {"none", "sdk", "broker"}, msg : BOOLEAN, writing : BOOLEAN,
                 away : BOOLEAN]
LocksState == [launch : Movers \cup {"none"}, watch : Movers \cup {"none"}]
MirrorState == [seen : Nat, active : BOOLEAN]

HandoverTyped ==
    /\ broker \in [up : BOOLEAN, gen : Nat, tui : BOOLEAN, life : Nat]
    /\ prompts \in Seq(Whose) /\ doing \in Whose \cup {"none"} /\ bounds \in Seq(Boundary)
    /\ ctx \in SessionState /\ children \subseteq {"published", "spare"}
    /\ locks \in LocksState /\ mirror \in MirrorState
    /\ act \in [Movers -> MoverState]
    /\ turnRead \in [from : Nat, start : BOOLEAN,
                     how : Whose \cup {"none", "unsent", "told_failed", "lost"}]
    /\ proof \in Nat

\* The loop, the lane and the task each run their own part of the code.
MoversPlaced ==
    /\ act["loop"].at \in LoopAt /\ act["loop"].to \in {"rest", "poll", "settle"}
    /\ act["lane"].at \in LaneMoves /\ act["lane"].to \in {"rest", "capture", "ready", "settle"}
    /\ act["task"].at \in TaskMoves /\ act["task"].to \in {"rest", "unwind"}
    /\ act["lane"].at \in PollingAt \cup {"ready", "claimed"} => act["lane"].to \in {"ready", "settle"}
    /\ act["lane"].to \in {"ready", "settle"} => act["lane"].kind # "none"

LaunchLocked == \A m \in Movers : locks.launch = m <=> act[m].at \in Inside

\* A mover that finds the handle it looked at finds it of the kind it had.
HandleFresh(a) ==
    /\ a.h <= ctx.swaps
    /\ a.at \in {"adopt", "adopt_locked"} /\ a.h = ctx.swaps => ctx.kind = "sdk"
    /\ a.at \in {"restore", "restore_wait", "restore_locked"} /\ a.h = ctx.swaps
          => ctx.kind = "broker"
    /\ a.at \in {"connecting", "final_check", "publishing"} => ctx.kind = "broker"
HandlesFresh == \A m \in Movers : HandleFresh(act[m])

\* A TUI that runs was started after the exit that let the SDK in.
ProofStands ==
    /\ proof <= broker.life
    /\ (ctx.kind = "sdk" /\ ctx.swaps > 0) \/ (\E m \in Movers : MoverAt(m, "publishing"))
          => (broker.tui => broker.life > proof)

\* The SDK child that is published is the one installed; a spare one has its mover.
ChildrenFit ==
    /\ ctx.kind = "sdk" <=> "published" \in children
    /\ "spare" \in children => \E m \in Movers : MoverAt(m, "final_check") \/ MoverAt(m, "publishing")

\* The task of a turn is the only one that replaces the handle while it runs.
TaskAlone ==
    /\ act["task"].at # "rest" => act["task"].kind # "none" /\ ctx.task = act["task"].kind
    /\ act["lane"].at # "rest" => act["task"].at = "rest"
    /\ act["task"].at = "draining" => \A m \in Movers : act[m].at \notin Replacing

\* A turn of the terminal's side ends behind its own start.
BoundsPaired ==
    /\ doing # "none" => bounds # <<>> /\ bounds[Len(bounds)] = [what |-> "start", by |-> doing]
    /\ \A k \in 1..Len(bounds) : bounds[k].what = "end" =>
          k > 1 /\ bounds[k - 1] = [what |-> "start", by |-> bounds[k].by]

\* The drain has read the start it waits behind.
ReadFits ==
    /\ mirror.seen <= Len(bounds) /\ turnRead.from <= Len(bounds)
    /\ act["task"].at \in {"launch", "launching", "draining"} => turnRead.how = "none"
    /\ turnRead.start /\ turnRead.how = "none" =>
          /\ turnRead.from >= 1 /\ bounds[turnRead.from].what = "start"
          /\ bounds[turnRead.from].by = "terminal" => "overtaken" \in hist

\* A query is claimed from before its task is made until the turn is closed.
ClaimStands ==
    act["lane"].at = "claimed" \/ act["task"].at \in TurnAt =>
       ctx.msg /\ (ctx.state = "running" \/ "unclaimed" \in hist)

HandoverInv ==
    /\ HandoverTyped /\ MoversPlaced /\ LaunchLocked /\ HandlesFresh /\ ProofStands /\ TaskAlone
    /\ ChildrenFit /\ BoundsPaired /\ ReadFits /\ ClaimStands
    /\ TurnKeepsHandle /\ OwnTurnEnds
----------------------------------------------------------------------------
(* What a step of one mover may do.                                          *)

MovesOnly(m) == act' \in [Movers -> MoverState] /\ \A o \in Movers \ {m} : act'[o] = act[o]

LockWithin(m) ==
    /\ locks' \in LocksState
    /\ \/ locks'.launch = locks.launch /\ (act'[m].at \in Inside <=> act[m].at \in Inside)
       \/ locks.launch = "none" /\ locks'.launch = m /\ act'[m].at \in Inside
       \/ act[m].at \in Inside /\ locks'.launch = "none" /\ act'[m].at \notin Inside

SessionWithin ==
    /\ UNCHANGED terminal /\ ctx' \in SessionState /\ mirror' \in MirrorState
    /\ ctx'.task = ctx.task /\ (ctx.msg => ctx'.msg) /\ hist \subseteq hist'
    /\ ctx'.state \in {"running", ctx.state} \/ (ctx.msg => "unclaimed" \in hist')
    /\ mirror'.seen <= Len(bounds)

HandleWithin(m) ==
    /\ HandleFresh(act[m])'
    /\ \/ ctx'.kind = ctx.kind /\ ctx'.swaps = ctx.swaps
       \/ act[m].at \in Inside /\ ctx'.swaps = ctx.swaps + 1
    /\ ctx'.kind = ctx.kind \/ act[m].at \in Replacing

ProofWithin(m) ==
    /\ proof' = proof \/ (proof' = broker.life /\ ~broker.tui)
    /\ act'[m].at = "publishing" => act[m].at = "publishing" \/ ~broker.tui
    /\ ctx'.kind = "sdk" /\ ctx'.swaps > 0 =>
          (ctx.kind = "sdk" /\ ctx.swaps > 0) \/ act[m].at = "publishing"

ChildrenWithin(m) ==
    /\ children' \subseteq {"published", "spare"} /\ (ctx'.kind = "sdk" <=> "published" \in children')
    /\ "spare" \in children' =>
          \/ act'[m].at \in {"final_check", "publishing"}
          \/ "spare" \in children /\ act[m].at \notin {"final_check", "publishing"}

TurnWithin(m) ==
    /\ UNCHANGED turnRead
    /\ act'[m].at \in Replacing => act[m].at \in Replacing \/ act["task"].at # "draining"
    /\ m = "task" =>
          /\ act'[m].at # "rest" => act[m].at # "rest" /\ act'[m].kind = act[m].kind
          /\ act'[m].at \in TurnAt => act[m].at \in TurnAt
          /\ act'[m].at \in {"launch", "launching", "draining"} =>
                act[m].at \in {"launch", "launching", "draining"}
          /\ act'[m].at = "draining" => act[m].at = "draining"
    /\ m = "lane" =>
          /\ act'[m].at # "rest" => act[m].at # "rest" \/ act["task"].at = "rest"
          /\ act'[m].at = "claimed" =>
                act[m].at = "claimed" \/ (ctx'.msg /\ ctx'.state = "running")

StepWithin(m) ==
    /\ MovesOnly(m) /\ MoversPlaced' /\ LockWithin(m) /\ SessionWithin /\ HandleWithin(m)
    /\ ProofWithin(m) /\ ChildrenWithin(m) /\ TurnWithin(m)

LEMMA Places ==
    /\ "none" \notin Movers /\ "loop" \in Movers /\ "lane" \in Movers /\ "task" \in Movers
    /\ Replacing \subseteq Inside /\ "launching" \in Inside /\ "publishing" \in Inside
    /\ {"connecting", "final_check", "publishing"} \subseteq Inside
    /\ "rest" \notin Inside /\ "draining" \notin Inside /\ "claimed" \notin Inside
  BY DEF Movers, Inside, Replacing

\* One mover at a time has the lock.
LEMMA OneInside ==
    ASSUME HandoverInv, NEW m \in Movers, NEW o \in Movers \ {m}, act[m].at \in Inside
    PROVE  act[o].at \notin Inside
  BY DEF HandoverInv, LaunchLocked

LEMMA StepKeeps ==
    ASSUME HandoverInv, NEW m \in Movers, StepWithin(m)
    PROVE  HandoverInv'
  <1> USE DEF HandoverInv, StepWithin
  <1>1. HandoverTyped'
    <2>1. proof' \in Nat
      BY DEF HandoverTyped, ProofWithin
    <2>2. QED
      BY <2>1
         DEF HandoverTyped, MovesOnly, LockWithin, SessionWithin, ChildrenWithin, TurnWithin,
             terminal
  <1>2. MoversPlaced'
    OBVIOUS
  <1>3. LaunchLocked'
    BY Places DEF LaunchLocked, LockWithin, MovesOnly
  <1>4. HandlesFresh'
    <2>1. ASSUME NEW o \in Movers \ {m}
          PROVE  HandleFresh(act[o])'
      <3>1. act'[o] = act[o] /\ HandleFresh(act[o]) /\ act[o].h \in Nat /\ ctx.swaps \in Nat
        BY DEF MovesOnly, HandlesFresh, HandoverTyped, MoverState, SessionState
      <3>2. CASE ctx'.kind = ctx.kind /\ ctx'.swaps = ctx.swaps
        BY <3>1, <3>2 DEF HandleFresh
      <3>3. CASE act[m].at \in Inside /\ ctx'.swaps = ctx.swaps + 1
        <4>1. act[o].at \notin {"connecting", "final_check", "publishing"}
          BY <3>3, OneInside, Places
        <4>2. QED
          BY <3>1, <3>3, <4>1 DEF HandleFresh
      <3>4. QED
        BY <3>2, <3>3 DEF HandleWithin
    <2>2. QED
      BY <2>1 DEF HandlesFresh, HandleWithin
  <1>5. ProofStands'
    <2>1. broker' = broker /\ broker.life \in Nat /\ proof \in Nat
      BY DEF SessionWithin, terminal, HandoverTyped
    <2>2. proof' <= broker.life
      BY <2>1 DEF ProofStands, ProofWithin
    <2>3. ASSUME broker.tui,
                 (ctx'.kind = "sdk" /\ ctx'.swaps > 0) \/ \E o \in Movers : act'[o].at = "publishing"
          PROVE  broker.life > proof'
      <3>1. proof' = proof
        BY <2>3 DEF ProofWithin
      <3>2. (ctx.kind = "sdk" /\ ctx.swaps > 0) \/ \E o \in Movers : act[o].at = "publishing"
        BY <2>3 DEF ProofWithin, MovesOnly
      <3>3. QED
        BY <2>3, <3>1, <3>2 DEF ProofStands, MoverAt
    <2>4. QED
      BY <2>1, <2>2, <2>3 DEF ProofStands, MoverAt
  <1>6. TaskAlone'
    <2>1. act'["task"].at # "rest" => act'["task"].kind # "none" /\ ctx'.task = act'["task"].kind
      BY Places DEF TaskAlone, MovesOnly, SessionWithin, TurnWithin
    <2>2. act'["lane"].at # "rest" => act'["task"].at = "rest"
      BY Places DEF TaskAlone, MovesOnly, TurnWithin
    <2>3. act'["task"].at = "draining" => \A o \in Movers : act'[o].at \notin Replacing
      BY Places DEF TaskAlone, MovesOnly, TurnWithin
    <2>4. QED
      BY <2>1, <2>2, <2>3 DEF TaskAlone
  <1>7. ChildrenFit'
    BY DEF ChildrenFit, ChildrenWithin, MovesOnly, MoverAt
  <1>8. BoundsPaired'
    BY DEF BoundsPaired, SessionWithin, terminal
  <1>9. ReadFits' /\ OwnTurnEnds'
    <2>1. UNCHANGED <<bounds, turnRead>> /\ hist \subseteq hist' /\ mirror'.seen <= Len(bounds)
      BY DEF SessionWithin, TurnWithin, terminal
    <2>2. act'["task"].at \in {"launch", "launching", "draining"} =>
             act["task"].at \in {"launch", "launching", "draining"}
      BY Places DEF TurnWithin, MovesOnly
    <2>3. QED
      BY <2>1, <2>2 DEF ReadFits, OwnTurnEnds
  <1>10. ClaimStands'
    <2>1. act'["task"].at \in TurnAt => act["task"].at \in TurnAt
      BY Places DEF TurnWithin, MovesOnly
    <2>2. act'["lane"].at = "claimed" =>
             act["lane"].at = "claimed" \/ (ctx'.msg /\ ctx'.state = "running")
      BY Places DEF TurnWithin, MovesOnly
    <2>3. QED
      BY <2>1, <2>2 DEF ClaimStands, SessionWithin
  <1>11. TurnKeepsHandle'
    <2>1. SUFFICES ASSUME act'["task"].at = "draining"
                   PROVE  act'["task"].kind = ctx'.kind
      BY DEF TurnKeepsHandle, MoverAt
    <2>2. act["task"].at = "draining" /\ act'["task"].kind = act["task"].kind
      BY <2>1, Places DEF TurnWithin, MovesOnly
    <2>3. act[m].at \notin Replacing
      BY <2>2 DEF TaskAlone
    <2>4. QED
      BY <2>2, <2>3 DEF HandleWithin, TurnKeepsHandle, MoverAt
  <1>12. QED
    BY <1>1, <1>2, <1>3, <1>4, <1>5, <1>6, <1>7, <1>8, <1>9, <1>10, <1>11
----------------------------------------------------------------------------
(* Where a mover goes.                                                       *)

LEMMA GoDoes ==
    ASSUME HandoverTyped, NEW m \in Movers, NEW where \in LaneMoves \cup TaskMoves, where # "rest",
           Go(m, where)
    PROVE  /\ MovesOnly(m) /\ act'[m].at = where
           /\ act'[m].h = act[m].h /\ act'[m].g = act[m].g /\ act'[m].kind = act[m].kind
           /\ act'[m].orphan = act[m].orphan /\ act'[m].to = act[m].to
  <1>1. act \in [Movers -> MoverState] /\ act' = [act EXCEPT ![m] = [@ EXCEPT !.at = where]]
    BY DEF HandoverTyped, Go
  <1>2. [act[m] EXCEPT !.at = where] \in MoverState
    BY <1>1 DEF MoverState
  <1>3. act'[m] = [act[m] EXCEPT !.at = where] /\ act[m] \in MoverState
    BY <1>1
  <1>4. MovesOnly(m)
    BY <1>1, <1>2 DEF MovesOnly
  <1>5. QED
    BY <1>3, <1>4 DEF MoverState

LEMMA RestDoes ==
    ASSUME HandoverTyped, NEW m \in Movers, act' = [act EXCEPT ![m] = Resting]
    PROVE  /\ MovesOnly(m) /\ act'[m].at = "rest" /\ act'[m].h = 0 /\ act'[m].kind = "none"
           /\ act'[m].to = "rest"
  <1>1. Resting \in MoverState
    BY DEF Resting, MoverState, LaneMoves, LoopAt, GoesOn
  <1>2. act \in [Movers -> MoverState] /\ act'[m] = Resting
    BY DEF HandoverTyped
  <1>3. MovesOnly(m)
    BY <1>1, <1>2 DEF MovesOnly
  <1>4. QED
    BY <1>2, <1>3 DEF Resting

LEMMA GoRests ==
    ASSUME NEW m \in Movers, Go(m, "rest")
    PROVE  act' = [act EXCEPT ![m] = Resting]
  BY DEF Go

\* A mover that has looked at the handle goes on, or gives up.
Returned(m) ==
    /\ MovesOnly(m) /\ MoversPlaced' /\ act'[m].at \in GoesOn
    /\ act'[m].at # "rest" => act'[m].h = act[m].h
    /\ act'[m].at = "rest" => act'[m].h = 0
    /\ m = "task" /\ act'[m].at # "rest" => act'[m].kind = act[m].kind

LEMMA ReturnDoes ==
    ASSUME HandoverTyped, MoversPlaced, NEW m \in Movers, NEW left, Return(m, left),
           act[m].at \in Restoring \cup Adopting
    PROVE  Returned(m)
  <1>1. act \in [Movers -> MoverState] /\ act[m] \in MoverState
    BY DEF HandoverTyped
  <1>2. /\ GoesOn \subseteq LaneMoves \cup TaskMoves
        /\ act[m].to \in GoesOn
    BY <1>1 DEF MoverState, GoesOn, LaneMoves, LoopAt, PollingAt, TaskMoves
  <1>3. CASE act[m].to # "ready" /\ act[m].to # "rest"
    <2>1. Go(m, act[m].to)
      BY <1>3 DEF Return
    <2>2. /\ MovesOnly(m) /\ act'[m].at = act[m].to /\ act'[m].h = act[m].h
          /\ act'[m].kind = act[m].kind /\ act'[m].to = act[m].to
      BY <1>2, <1>3, <2>1, GoDoes
    <2>3. MoversPlaced'
      BY <1>3, <2>2 DEF MoversPlaced, MovesOnly, LoopAt, LaneMoves, PollingAt, TaskMoves, Movers
    <2>4. QED
      BY <1>2, <1>3, <2>2, <2>3 DEF Returned
  <1>4. CASE act' = [act EXCEPT ![m] = Resting]
    <2>1. /\ MovesOnly(m) /\ act'[m].at = "rest" /\ act'[m].h = 0 /\ act'[m].kind = "none"
          /\ act'[m].to = "rest"
      BY <1>4, RestDoes
    <2>2. MoversPlaced'
      BY <2>1 DEF MoversPlaced, MovesOnly, LoopAt, LaneMoves, PollingAt, TaskMoves, Movers
    <2>3. QED
      BY <2>1, <2>2 DEF Returned, GoesOn
  <1>5. CASE act[m].to = "ready" /\ Go(m, "ready")
    <2>1. "ready" \in LaneMoves
      BY DEF LaneMoves
    <2>2. /\ MovesOnly(m) /\ act'[m].at = "ready" /\ act'[m].h = act[m].h
          /\ act'[m].kind = act[m].kind /\ act'[m].to = act[m].to
      BY <1>5, <2>1, GoDoes
    <2>3. MoversPlaced'
      BY <1>5, <2>2 DEF MoversPlaced, MovesOnly, LaneMoves, PollingAt, TaskMoves, Movers
    <2>4. QED
      BY <2>2, <2>3 DEF Returned, GoesOn
  <1>6. CASE act[m].to = "ready" /\ act' = [act EXCEPT ![m].at = "poll", ![m].kind = "sdk"]
    <2>1. act'[m] = [act[m] EXCEPT !.at = "poll", !.kind = "sdk"]
      BY <1>1, <1>6
    <2>2. act'[m] \in MoverState /\ act'[m].at = "poll" /\ act'[m].kind = "sdk"
          /\ act'[m].h = act[m].h /\ act'[m].to = "ready"
      BY <1>1, <1>6, <2>1 DEF MoverState, LaneMoves, LoopAt, PollingAt
    <2>3. MovesOnly(m)
      BY <1>1, <1>6, <2>1, <2>2 DEF MovesOnly
    <2>4. m = "lane"
      BY <1>6 DEF MoversPlaced, Movers
    <2>5. MoversPlaced'
      BY <2>2, <2>3, <2>4
         DEF MoversPlaced, MovesOnly, LoopAt, LaneMoves, PollingAt, TaskMoves, Movers
    <2>6. QED
      BY <2>2, <2>3, <2>4, <2>5 DEF Returned, GoesOn
  <1>7. QED
    BY <1>2, <1>3, <1>4, <1>5, <1>6, GoRests DEF Return, GoesOn

\* One that goes on has left the lock, and takes part in no turn.
LEMMA ReturnedFits ==
    ASSUME HandoverInv, NEW m \in Movers, Returned(m), act[m].at \in Restoring \cup Adopting,
           UNCHANGED turnRead, ctx' \in SessionState, ctx'.swaps >= ctx.swaps
    PROVE  /\ HandleFresh(act[m])' /\ TurnWithin(m) /\ act'[m].at \notin Inside
           /\ act'[m].at \notin {"final_check", "publishing"}
  <1>1. act'[m].at \in GoesOn /\ act'[m].h \in {0, act[m].h} /\ act[m].at # "rest"
    BY DEF Returned, Restoring, Adopting
  <1>2. ctx.swaps \in Nat /\ ctx'.swaps \in Nat /\ act[m].h <= ctx.swaps /\ act[m].h \in Nat
    BY DEF HandoverInv, HandoverTyped, HandlesFresh, HandleFresh, MoverState, SessionState
  <1>3. HandleFresh(act[m])'
    BY <1>1, <1>2 DEF HandleFresh, GoesOn
  <1>4. TurnWithin(m)
    BY <1>1 DEF TurnWithin, GoesOn, TurnAt, Replacing, Returned
  <1>5. QED
    BY <1>1, <1>3, <1>4 DEF GoesOn, Inside

LEMMA LockGiven ==
    ASSUME HandoverInv, NEW m \in Movers, act[m].at \in Inside,
           locks' = [locks EXCEPT !.launch = "none"], act'[m].at \notin Inside
    PROVE  LockWithin(m)
  BY DEF HandoverInv, HandoverTyped, LocksState, LockWithin

LEMMA LockLeft ==
    ASSUME HandoverInv, NEW m \in Movers, UNCHANGED locks,
           act'[m].at \in Inside <=> act[m].at \in Inside
    PROVE  LockWithin(m)
  BY DEF HandoverInv, HandoverTyped, LocksState, LockWithin

\* A step that only moves its mover.
LEMMA MoveKeeps ==
    ASSUME HandoverInv, NEW m \in Movers, MovesOnly(m), MoversPlaced', LockWithin(m), TurnWithin(m),
           UNCHANGED <<terminal, ctx, children, mirror, proof, hist>>, HandleFresh(act[m])',
           act'[m].at \in {"final_check", "publishing"} <=> act[m].at \in {"final_check", "publishing"},
           act'[m].at = "publishing" <=> act[m].at = "publishing"
    PROVE  HandoverInv'
  <1>1. SessionWithin
    BY DEF HandoverInv, HandoverTyped, ReadFits, SessionWithin, terminal
  <1>2. HandleWithin(m) /\ ProofWithin(m)
    BY DEF HandleWithin, ProofWithin
  <1>3. ChildrenWithin(m)
    BY DEF HandoverInv, HandoverTyped, ChildrenFit, ChildrenWithin
  <1>4. QED
    BY <1>1, <1>2, <1>3, StepKeeps DEF StepWithin

LEMMA LockTaken ==
    ASSUME HandoverInv, NEW m \in Movers, NEW from, NEW where \in LaneMoves \cup TaskMoves,
           where # "rest", TakesLock(m, from, where), where \in Inside
    PROVE  /\ act[m].at = from /\ MovesOnly(m) /\ LockWithin(m) /\ act'[m].at = where
           /\ act'[m].h = act[m].h /\ act'[m].kind = act[m].kind /\ act'[m].to = act[m].to
           /\ UNCHANGED <<terminal, ctx, children, mirror, turnRead, proof, hist>>
  <1>1. /\ act[m].at = from /\ Go(m, where) /\ locks.launch = "none"
        /\ locks' = [locks EXCEPT !.launch = m]
        /\ UNCHANGED <<terminal, ctx, children, mirror, turnRead, proof, hist>>
    BY DEF TakesLock, MoverAt
  <1>2. /\ MovesOnly(m) /\ act'[m].at = where /\ act'[m].h = act[m].h /\ act'[m].kind = act[m].kind
        /\ act'[m].to = act[m].to
    BY <1>1, GoDoes DEF HandoverInv
  <1>3. LockWithin(m)
    BY <1>1, <1>2 DEF HandoverInv, HandoverTyped, LocksState, LockWithin
  <1>4. QED
    BY <1>1, <1>2, <1>3
----------------------------------------------------------------------------
(* Adoption of a live TUI.                                                   *)

LEMMA DiscoverKeeps ==
    ASSUME HandoverInv, NEW m \in Movers, Discover(m)
    PROVE  HandoverInv'
  <1>1. /\ act[m].at = "discover"
        /\ UNCHANGED <<terminal, ctx, children, locks, mirror, turnRead, proof, hist>>
    BY DEF Discover, MoverAt
  <1>2. /\ act \in [Movers -> MoverState] /\ act[m] \in MoverState /\ ctx.swaps \in Nat
        /\ broker.gen \in Nat /\ ctx' \in SessionState /\ ctx'.swaps >= ctx.swaps
    BY <1>1 DEF HandoverInv, HandoverTyped, SessionState
  <1>3. CASE /\ ctx.kind = "sdk"
             /\ act' = [act EXCEPT ![m].at = "adopt", ![m].h = ctx.swaps, ![m].g = broker.gen]
    <2>1. act'[m] = [act[m] EXCEPT !.at = "adopt", !.h = ctx.swaps, !.g = broker.gen]
      BY <1>2, <1>3
    <2>2. /\ act'[m] \in MoverState /\ act'[m].at = "adopt" /\ act'[m].h = ctx.swaps
          /\ act'[m].kind = act[m].kind /\ act'[m].to = act[m].to
      BY <1>2, <2>1 DEF MoverState, LaneMoves, LoopAt, Adopting
    <2>3. MovesOnly(m)
      BY <1>2, <1>3, <2>1, <2>2 DEF MovesOnly
    <2>4. m # "task"
      BY <1>1 DEF HandoverInv, MoversPlaced, TaskMoves, TurnAt, Restoring
    <2>5. MoversPlaced'
      BY <2>2, <2>3, <2>4
         DEF HandoverInv, MoversPlaced, MovesOnly, LaneMoves, LoopAt, Adopting, PollingAt, Movers
    <2>6. LockWithin(m)
      BY <1>1, <2>2, LockLeft DEF Inside
    <2>7. TurnWithin(m)
      BY <1>1, <2>2, <2>4 DEF TurnWithin, Replacing
    <2>8. HandleFresh(act[m])'
      BY <1>1, <1>2, <1>3, <2>2 DEF HandleFresh
    <2>9. QED
      BY <1>1, <2>2, <2>3, <2>5, <2>6, <2>7, <2>8, MoveKeeps
  <1>4. CASE Return(m, Left)
    <2>1. Returned(m) /\ act[m].at \in Adopting
      BY <1>1, <1>4, ReturnDoes DEF Adopting, HandoverInv
    <2>2. /\ HandleFresh(act[m])' /\ TurnWithin(m) /\ act'[m].at \notin Inside
          /\ act'[m].at \notin {"final_check", "publishing"}
      BY <1>1, <1>2, <2>1, ReturnedFits
    <2>3. LockWithin(m)
      BY <1>1, <2>2, LockLeft DEF Inside
    <2>4. QED
      BY <1>1, <2>1, <2>2, <2>3, MoveKeeps DEF Returned
  <1>5. QED
    BY <1>3, <1>4 DEF Discover

LEMMA AdoptLockedKeeps ==
    ASSUME HandoverInv, NEW m \in Movers, AdoptLocked(m)
    PROVE  HandoverInv'
  <1>1. TakesLock(m, "adopt", "adopt_locked")
    BY DEF AdoptLocked
  <1>2. "adopt_locked" \in LaneMoves /\ "adopt_locked" \in Inside
    BY DEF LaneMoves, LoopAt, Adopting, Inside
  <1>3. /\ act[m].at = "adopt" /\ MovesOnly(m) /\ LockWithin(m) /\ act'[m].at = "adopt_locked"
        /\ act'[m].h = act[m].h /\ act'[m].kind = act[m].kind /\ act'[m].to = act[m].to
        /\ UNCHANGED <<terminal, ctx, children, mirror, turnRead, proof, hist>>
    BY <1>1, <1>2, LockTaken
  <1>4. m # "task"
    BY <1>3 DEF HandoverInv, MoversPlaced, TaskMoves, TurnAt, Restoring
  <1>5. MoversPlaced'
    BY <1>3, <1>4
       DEF HandoverInv, MoversPlaced, MovesOnly, LaneMoves, LoopAt, Adopting, PollingAt, Movers
  <1>6. TurnWithin(m)
    BY <1>3, <1>4 DEF TurnWithin, Replacing
  <1>7. HandleFresh(act[m])'
    BY <1>3 DEF HandoverInv, HandlesFresh, HandleFresh
  <1>8. QED
    BY <1>3, <1>5, <1>6, <1>7, MoveKeeps

LEMMA AdoptRevalidatesKeeps ==
    ASSUME HandoverInv, NEW m \in Movers, AdoptRevalidates(m)
    PROVE  HandoverInv'
  <1>1. /\ act[m].at = "adopt_locked"
        /\ UNCHANGED <<terminal, ctx, children, mirror, turnRead, proof, hist>>
    BY DEF AdoptRevalidates, MoverAt
  <1>2. ctx' \in SessionState /\ ctx'.swaps >= ctx.swaps /\ ctx.swaps \in Nat
    BY <1>1 DEF HandoverInv, HandoverTyped, SessionState
  <1>3. m # "task"
    BY <1>1 DEF HandoverInv, MoversPlaced, TaskMoves, TurnAt, Restoring
  <1>4. CASE IdleForAdoption /\ Go(m, "disconnecting") /\ UNCHANGED locks
    <2>1. "disconnecting" \in LaneMoves
      BY DEF LaneMoves, LoopAt, Adopting
    <2>2. /\ MovesOnly(m) /\ act'[m].at = "disconnecting" /\ act'[m].h = act[m].h
          /\ act'[m].kind = act[m].kind /\ act'[m].to = act[m].to
      BY <1>4, <2>1, GoDoes DEF HandoverInv
    <2>3. MoversPlaced'
      BY <1>3, <2>2
         DEF HandoverInv, MoversPlaced, MovesOnly, LaneMoves, LoopAt, Adopting, PollingAt, Movers
    <2>4. act["task"].at = "rest"
      BY <1>4 DEF IdleForAdoption, HandoverInv, TaskAlone
    <2>5. TurnWithin(m)
      BY <1>1, <1>3, <2>2, <2>4 DEF TurnWithin
    <2>6. HandleFresh(act[m])'
      BY <1>1, <2>2 DEF HandoverInv, HandlesFresh, HandleFresh
    <2>7. LockWithin(m)
      BY <1>1, <1>4, <2>2, LockLeft DEF Inside
    <2>8. QED
      BY <1>1, <2>2, <2>3, <2>5, <2>6, <2>7, MoveKeeps
  <1>5. CASE Return(m, Left) /\ locks' = [locks EXCEPT !.launch = "none"]
    <2>1. Returned(m) /\ act[m].at \in Adopting /\ act[m].at \in Inside
      BY <1>1, <1>5, ReturnDoes DEF Adopting, Inside, HandoverInv
    <2>2. /\ HandleFresh(act[m])' /\ TurnWithin(m) /\ act'[m].at \notin Inside
          /\ act'[m].at \notin {"final_check", "publishing"}
      BY <1>1, <1>2, <2>1, ReturnedFits
    <2>3. LockWithin(m)
      BY <1>5, <2>1, <2>2, LockGiven
    <2>4. QED
      BY <1>1, <2>1, <2>2, <2>3, MoveKeeps DEF Returned
  <1>6. QED
    BY <1>4, <1>5 DEF AdoptRevalidates

LEMMA AdoptsKeeps ==
    ASSUME HandoverInv, NEW m \in Movers, Adopts(m)
    PROVE  HandoverInv'
  <1>1. /\ act[m].at = "disconnecting" /\ children' = children \ {"published"}
        /\ mirror' = [mirror EXCEPT !.active = TailActive]
        /\ locks' = [locks EXCEPT !.launch = "none"] /\ Return(m, Left)
        /\ UNCHANGED <<terminal, turnRead, proof, hist>>
    BY DEF Adopts, MoverAt
  <1>2. PICK now \in {ctx.state, "running"} :
           ctx' = [ctx EXCEPT !.kind = "broker", !.gen = act[m].g, !.swaps = @ + 1, !.away = FALSE,
                              !.state = now]
    BY DEF Adopts
  <1>3. /\ ctx' \in SessionState /\ ctx'.kind = "broker" /\ ctx'.swaps = ctx.swaps + 1
        /\ ctx'.state = now /\ ctx'.task = ctx.task /\ ctx'.msg = ctx.msg /\ ctx.swaps \in Nat
    <2>1. ctx \in SessionState /\ act[m] \in MoverState
      BY DEF HandoverInv, HandoverTyped
    <2>2. PICK g \in Nat : g = act[m].g
      BY <2>1 DEF MoverState
    <2>3. ctx.swaps \in Nat /\ ctx.swaps + 1 \in Nat /\ now \in {"idle", "running"}
      BY <2>1 DEF SessionState
    <2>4. ctx' = [ctx EXCEPT !.kind = "broker", !.gen = g, !.swaps = ctx.swaps + 1,
                             !.away = FALSE, !.state = now]
      BY <1>2, <2>2
    <2>5. ctx' \in SessionState
      BY <2>1, <2>3, <2>4 DEF SessionState
    <2>6. QED
      BY <2>1, <2>3, <2>4, <2>5
  <1>4. Returned(m) /\ act[m].at \in Adopting /\ act[m].at \in Replacing /\ act[m].at \in Inside
    BY <1>1, ReturnDoes DEF Adopting, Replacing, Inside, HandoverInv
  <1>5. /\ HandleFresh(act[m])' /\ TurnWithin(m) /\ act'[m].at \notin Inside
        /\ act'[m].at \notin {"final_check", "publishing"}
    BY <1>1, <1>3, <1>4, ReturnedFits
  <1>6. LockWithin(m)
    BY <1>1, <1>4, <1>5, LockGiven
  <1>7. SessionWithin
    <2>1. mirror' \in MirrorState /\ mirror'.seen = mirror.seen
      BY <1>1 DEF HandoverInv, HandoverTyped, MirrorState, TailActive
    <2>2. QED
      BY <1>1, <1>2, <1>3, <2>1 DEF HandoverInv, ReadFits, SessionWithin
  <1>8. HandleWithin(m) /\ ProofWithin(m)
    BY <1>1, <1>3, <1>4, <1>5 DEF HandleWithin, ProofWithin
  <1>9. ChildrenWithin(m)
    BY <1>1, <1>3 DEF HandoverInv, HandoverTyped, ChildrenWithin
  <1>10. QED
    BY <1>4, <1>5, <1>6, <1>7, <1>8, <1>9, StepKeeps DEF StepWithin, Returned
----------------------------------------------------------------------------
(* The end of the broker's handle.                                           *)

SameSession ==
    /\ ctx' \in SessionState /\ ctx'.kind = ctx.kind /\ ctx'.swaps = ctx.swaps
    /\ ctx'.task = ctx.task /\ ctx'.msg = ctx.msg /\ ctx'.state = ctx.state

LEMMA SameDoes ==
    ASSUME HandoverTyped
    PROVE  /\ UNCHANGED ctx => SameSession
           /\ \A b \in BOOLEAN : ctx' = [ctx EXCEPT !.away = b] => SameSession
  BY DEF HandoverTyped, SameSession, SessionState

LEMMA UnavailableDoes ==
    ASSUME HandoverInv, NEW m \in Movers, act[m].at \in Restoring, Unavailable(m)
    PROVE  SameSession /\ Returned(m)
  <1>1. SameSession
    <2>1. ctx' = [ctx EXCEPT !.away = TRUE] \/ ctx' = ctx
      BY DEF Unavailable
    <2>2. QED
      BY <2>1, SameDoes DEF HandoverInv
  <1>2. Returned(m)
    BY ReturnDoes DEF Unavailable, HandoverInv
  <1>3. QED
    BY <1>1, <1>2

LEMMA InstallDoes ==
    ASSUME HandoverTyped, NEW g \in Nat, Install("broker", g)
    PROVE  /\ ctx' \in SessionState /\ ctx'.kind = "broker" /\ ctx'.swaps = ctx.swaps + 1
           /\ ctx'.task = ctx.task /\ ctx'.msg = ctx.msg /\ ctx'.state = ctx.state
  <1>1. ctx \in SessionState /\ ctx.swaps + 1 \in Nat
    BY DEF HandoverTyped, SessionState
  <1>2. ctx' = [ctx EXCEPT !.kind = "broker", !.gen = g, !.swaps = ctx.swaps + 1, !.away = FALSE]
    BY DEF Install
  <1>3. ctx' \in SessionState
    BY <1>1, <1>2 DEF SessionState
  <1>4. QED
    BY <1>1, <1>2, <1>3

\* A mover gives up, or goes on, with the handle it found.
LEMMA ReturnKeeps ==
    ASSUME HandoverInv, NEW m \in Movers, Returned(m), act[m].at \in Restoring, SameSession,
           UNCHANGED <<terminal, mirror, turnRead, proof, hist>>,
           \/ UNCHANGED locks /\ act[m].at \notin Inside
           \/ locks' = [locks EXCEPT !.launch = "none"] /\ act[m].at \in Inside,
           \/ UNCHANGED children /\ act[m].at \notin {"final_check", "publishing"}
           \/ children' = children \ {"spare"}
    PROVE  HandoverInv'
  <1>1. /\ HandleFresh(act[m])' /\ TurnWithin(m) /\ act'[m].at \notin Inside
        /\ act'[m].at \notin {"final_check", "publishing"}
    <2>1. ctx.swaps \in Nat
      BY DEF HandoverInv, HandoverTyped, SessionState
    <2>2. QED
      BY <2>1, ReturnedFits DEF SameSession
  <1>2. LockWithin(m)
    BY <1>1, LockGiven, LockLeft
  <1>3. SessionWithin
    BY DEF HandoverInv, HandoverTyped, ReadFits, SessionWithin, SameSession
  <1>4. HandleWithin(m) /\ ProofWithin(m)
    BY <1>1 DEF HandleWithin, ProofWithin, SameSession
  <1>5. ChildrenWithin(m)
    BY DEF HandoverInv, HandoverTyped, ChildrenFit, ChildrenWithin, SameSession
  <1>6. QED
    BY <1>1, <1>2, <1>3, <1>4, <1>5, StepKeeps DEF StepWithin, Returned

LEMMA RefreshKeeps ==
    ASSUME HandoverInv, NEW m \in Movers, Refresh(m)
    PROVE  HandoverInv'
  <1>1. /\ act[m].at = "refresh" /\ act[m].at \in Restoring /\ act[m].at \notin Inside
        /\ UNCHANGED <<terminal, children, locks, mirror, turnRead, proof, hist>>
    BY DEF Refresh, MoverAt, Restoring, Inside
  <1>2. CASE ctx' = [ctx EXCEPT !.away = FALSE] /\ Return(m, ctx.kind)
    <2>1. Returned(m)
      BY <1>1, <1>2, ReturnDoes DEF HandoverInv
    <2>2. SameSession
      BY <1>2, SameDoes DEF HandoverInv
    <2>3. QED
      BY <1>1, <2>1, <2>2, ReturnKeeps
  <1>3. CASE UNCHANGED ctx /\ Return(m, NotRefreshed)
    <2>1. Returned(m)
      BY <1>1, <1>3, ReturnDoes DEF HandoverInv
    <2>2. SameSession
      BY <1>3, SameDoes DEF HandoverInv
    <2>3. QED
      BY <1>1, <2>1, <2>2, ReturnKeeps
  <1>4. CASE Unavailable(m)
    BY <1>1, <1>4, UnavailableDoes, ReturnKeeps
  <1>5. CASE /\ ctx.kind = "broker" /\ UNCHANGED ctx
             /\ act' = [act EXCEPT ![m].at = "restore", ![m].h = ctx.swaps]
    <2>1. act \in [Movers -> MoverState] /\ act[m] \in MoverState /\ ctx.swaps \in Nat
      BY DEF HandoverInv, HandoverTyped, SessionState
    <2>2. act'[m] = [act[m] EXCEPT !.at = "restore", !.h = ctx.swaps]
      BY <1>5, <2>1
    <2>3. /\ act'[m] \in MoverState /\ act'[m].at = "restore" /\ act'[m].h = ctx.swaps
          /\ act'[m].kind = act[m].kind /\ act'[m].to = act[m].to
      BY <2>1, <2>2 DEF MoverState, LaneMoves, LoopAt, Restoring
    <2>4. MovesOnly(m)
      BY <1>5, <2>1, <2>2, <2>3 DEF MovesOnly
    <2>5. MoversPlaced'
      BY <2>3, <2>4
         DEF HandoverInv, MoversPlaced, MovesOnly, LaneMoves, LoopAt, Restoring, PollingAt,
             TaskMoves, Movers
    <2>6. LockWithin(m)
      BY <1>1, <2>3, LockLeft DEF Inside
    <2>7. TurnWithin(m)
      BY <1>1, <2>3 DEF TurnWithin, Replacing, TurnAt
    <2>8. HandleFresh(act[m])'
      BY <1>5, <2>1, <2>3 DEF HandleFresh
    <2>9. QED
      BY <1>1, <1>5, <2>3, <2>4, <2>5, <2>6, <2>7, <2>8, MoveKeeps
  <1>6. QED
    BY <1>2, <1>3, <1>4, <1>5 DEF Refresh

LEMMA RestoreChecksKeeps ==
    ASSUME HandoverInv, NEW m \in Movers, RestoreChecks(m)
    PROVE  HandoverInv'
  <1>1. /\ act[m].at = "restore" /\ act[m].at \in Restoring /\ act[m].at \notin Inside
        /\ UNCHANGED <<terminal, children, locks, mirror, turnRead, hist>>
    BY DEF RestoreChecks, MoverAt, Restoring, Inside
  <1>2. CASE Unavailable(m) /\ UNCHANGED proof
    BY <1>1, <1>2, UnavailableDoes, ReturnKeeps
  <1>3. CASE broker.up
    <2>1. PICK g \in Nat : act' = [act EXCEPT ![m].at = "restore_wait", ![m].g = g]
      <3>1. broker.gen \in Nat
        BY DEF HandoverInv, HandoverTyped
      <3>2. QED
        BY <1>3, <3>1 DEF RestoreChecks
    <2>2. UNCHANGED ctx /\ (proof' = proof \/ (proof' = broker.life /\ ~broker.tui))
      BY <1>3 DEF RestoreChecks
    <2>3. act \in [Movers -> MoverState] /\ act[m] \in MoverState
      BY DEF HandoverInv, HandoverTyped
    <2>4. act'[m] = [act[m] EXCEPT !.at = "restore_wait", !.g = g]
      BY <2>1, <2>3
    <2>5. /\ act'[m] \in MoverState /\ act'[m].at = "restore_wait" /\ act'[m].h = act[m].h
          /\ act'[m].kind = act[m].kind /\ act'[m].to = act[m].to
      BY <2>3, <2>4 DEF MoverState, LaneMoves, LoopAt, Restoring
    <2>6. MovesOnly(m)
      BY <2>1, <2>3, <2>4, <2>5 DEF MovesOnly
    <2>7. MoversPlaced'
      BY <2>5, <2>6
         DEF HandoverInv, MoversPlaced, MovesOnly, LaneMoves, LoopAt, Restoring, PollingAt,
             TaskMoves, Movers
    <2>8. LockWithin(m)
      BY <1>1, <2>5, LockLeft DEF Inside
    <2>9. TurnWithin(m)
      BY <1>1, <2>5 DEF TurnWithin, Replacing, TurnAt
    <2>10. HandleFresh(act[m])'
      BY <1>1, <2>2, <2>5 DEF HandoverInv, HandlesFresh, HandleFresh
    <2>11. SessionWithin
      BY <1>1, <2>2 DEF HandoverInv, HandoverTyped, ReadFits, SessionWithin
    <2>12. HandleWithin(m) /\ ProofWithin(m)
      BY <2>2, <2>5, <2>10 DEF HandleWithin, ProofWithin
    <2>13. ChildrenWithin(m)
      BY <1>1, <2>2 DEF HandoverInv, HandoverTyped, ChildrenFit, ChildrenWithin
    <2>14. QED
      BY <2>6, <2>7, <2>8, <2>9, <2>11, <2>12, <2>13, StepKeeps DEF StepWithin
  <1>4. QED
    BY <1>2, <1>3 DEF RestoreChecks

LEMMA RestoreLockedKeeps ==
    ASSUME HandoverInv, NEW m \in Movers, RestoreLocked(m)
    PROVE  HandoverInv'
  <1>1. TakesLock(m, "restore_wait", "restore_locked")
    BY DEF RestoreLocked
  <1>2. "restore_locked" \in LaneMoves /\ "restore_locked" \in Inside
    BY DEF LaneMoves, LoopAt, Restoring, Inside
  <1>3. /\ act[m].at = "restore_wait" /\ MovesOnly(m) /\ LockWithin(m)
        /\ act'[m].at = "restore_locked"
        /\ act'[m].h = act[m].h /\ act'[m].kind = act[m].kind /\ act'[m].to = act[m].to
        /\ UNCHANGED <<terminal, ctx, children, mirror, turnRead, proof, hist>>
    BY <1>1, <1>2, LockTaken
  <1>4. MoversPlaced'
    BY <1>3
       DEF HandoverInv, MoversPlaced, MovesOnly, LaneMoves, LoopAt, Restoring, PollingAt,
           TaskMoves, Movers
  <1>5. TurnWithin(m)
    BY <1>3 DEF TurnWithin, Replacing, TurnAt
  <1>6. HandleFresh(act[m])'
    BY <1>3 DEF HandoverInv, HandlesFresh, HandleFresh
  <1>7. QED
    BY <1>3, <1>4, <1>5, <1>6, MoveKeeps

\* A handle of the broker is installed in place of another.
LEMMA InstallKeeps ==
    ASSUME HandoverInv, NEW m \in Movers, NEW g \in Nat, Install("broker", g), Returned(m),
           act[m].at \in Restoring, act[m].at \in Inside, ctx.kind = "broker",
           locks' = [locks EXCEPT !.launch = "none"],
           UNCHANGED <<terminal, mirror, turnRead, proof, hist>>,
           \/ UNCHANGED children /\ act[m].at \notin {"final_check", "publishing"}
           \/ children' = children \ {"spare"}
    PROVE  HandoverInv'
  <1>1. /\ ctx' \in SessionState /\ ctx'.kind = "broker" /\ ctx'.swaps = ctx.swaps + 1
        /\ ctx'.task = ctx.task /\ ctx'.msg = ctx.msg /\ ctx'.state = ctx.state
        /\ ctx.swaps \in Nat
    BY InstallDoes DEF HandoverInv, HandoverTyped, SessionState
  <1>2. /\ HandleFresh(act[m])' /\ TurnWithin(m) /\ act'[m].at \notin Inside
        /\ act'[m].at \notin {"final_check", "publishing"}
    BY <1>1, ReturnedFits
  <1>3. LockWithin(m)
    BY <1>2, LockGiven
  <1>4. SessionWithin
    BY <1>1 DEF HandoverInv, HandoverTyped, ReadFits, SessionWithin
  <1>5. HandleWithin(m) /\ ProofWithin(m)
    BY <1>1, <1>2 DEF HandleWithin, ProofWithin
  <1>6. ChildrenWithin(m)
    BY <1>1 DEF HandoverInv, HandoverTyped, ChildrenFit, ChildrenWithin
  <1>7. QED
    BY <1>2, <1>3, <1>4, <1>5, <1>6, StepKeeps DEF StepWithin, Returned

LEMMA RestoreDecidesKeeps ==
    ASSUME HandoverInv, NEW m \in Movers, RestoreDecides(m)
    PROVE  HandoverInv'
  <1>1. /\ act[m].at = "restore_locked" /\ act[m].at \in Restoring /\ act[m].at \in Inside
        /\ act[m].at \notin {"final_check", "publishing"}
        /\ UNCHANGED <<terminal, children, mirror, turnRead, proof, hist>>
    BY DEF RestoreDecides, MoverAt, Restoring, Inside
  <1>2. act \in [Movers -> MoverState] /\ act[m] \in MoverState
    BY DEF HandoverInv, HandoverTyped
  <1>3. CASE ctx.swaps # act[m].h \/ ~MayRestore(m)
    <2>1. PICK left : Return(m, left)
      BY <1>3 DEF RestoreDecides
    <2>2. UNCHANGED ctx /\ locks' = [locks EXCEPT !.launch = "none"]
      BY <1>3 DEF RestoreDecides
    <2>3. SameSession /\ Returned(m)
      BY <1>1, <2>1, <2>2, SameDoes, ReturnDoes DEF HandoverInv
    <2>4. QED
      BY <1>1, <2>2, <2>3, ReturnKeeps
  <1>4. CASE ctx.swaps = act[m].h /\ MayRestore(m)
    <2>1. ctx.kind = "broker"
      BY <1>1, <1>4 DEF HandoverInv, HandlesFresh, HandleFresh
    <2>2. CASE act[m].g # 0
      <3>1. /\ Install("broker", act[m].g) /\ Return(m, "broker")
            /\ locks' = [locks EXCEPT !.launch = "none"]
        BY <1>4, <2>2 DEF RestoreDecides
      <3>2. act[m].g \in Nat /\ Returned(m)
        BY <1>1, <1>2, <3>1, ReturnDoes DEF MoverState, HandoverInv
      <3>3. QED
        BY <1>1, <2>1, <3>1, <3>2, InstallKeeps
    <2>3. CASE act[m].g = 0
      <3>1. PICK o \in BOOLEAN : act' = [act EXCEPT ![m].at = "connecting", ![m].orphan = o]
        BY <1>4, <2>3 DEF RestoreDecides, Orphaned
      <3>2. UNCHANGED <<ctx, locks>>
        BY <1>4, <2>3 DEF RestoreDecides
      <3>3. act'[m] = [act[m] EXCEPT !.at = "connecting", !.orphan = o]
        BY <1>2, <3>1
      <3>4. /\ act'[m] \in MoverState /\ act'[m].at = "connecting" /\ act'[m].h = act[m].h
            /\ act'[m].kind = act[m].kind /\ act'[m].to = act[m].to
        BY <1>2, <3>3 DEF MoverState, LaneMoves, LoopAt, Restoring
      <3>5. MovesOnly(m)
        BY <1>2, <3>1, <3>3, <3>4 DEF MovesOnly
      <3>6. MoversPlaced'
        BY <3>4, <3>5
           DEF HandoverInv, MoversPlaced, MovesOnly, LaneMoves, LoopAt, Restoring, PollingAt,
               TaskMoves, Movers
      <3>7. LockWithin(m)
        BY <1>1, <3>2, <3>4, LockLeft DEF Inside
      <3>8. act["task"].at # "draining"
        BY <1>1, <1>4 DEF MayRestore, HandoverInv, TaskAlone
      <3>9. TurnWithin(m)
        BY <1>1, <3>4, <3>8 DEF TurnWithin, TurnAt
      <3>10. HandleFresh(act[m])'
        BY <1>1, <2>1, <3>2, <3>4 DEF HandoverInv, HandlesFresh, HandleFresh
      <3>11. QED
        BY <1>1, <3>2, <3>4, <3>5, <3>6, <3>7, <3>9, <3>10, MoveKeeps
    <2>4. QED
      BY <2>2, <2>3
  <1>5. QED
    BY <1>3, <1>4

LEMMA SdkConnectsKeeps ==
    ASSUME HandoverInv, NEW m \in Movers, SdkConnects(m)
    PROVE  HandoverInv'
  <1>1. /\ act[m].at = "connecting" /\ act[m].at \in Restoring /\ act[m].at \in Inside
        /\ act[m].at \in Replacing
        /\ UNCHANGED <<terminal, mirror, turnRead, proof, hist>>
    BY DEF SdkConnects, MoverAt, Restoring, Inside, Replacing
  <1>2. CASE /\ children' = children \cup {"spare"} /\ Go(m, "final_check")
             /\ UNCHANGED <<ctx, locks, handoverLeft>>
    <2>1. "final_check" \in LaneMoves
      BY DEF LaneMoves, LoopAt, Restoring
    <2>2. /\ MovesOnly(m) /\ act'[m].at = "final_check" /\ act'[m].h = act[m].h
          /\ act'[m].kind = act[m].kind /\ act'[m].to = act[m].to
      BY <1>2, <2>1, GoDoes DEF HandoverInv
    <2>3. MoversPlaced'
      BY <2>2
         DEF HandoverInv, MoversPlaced, MovesOnly, LaneMoves, LoopAt, Restoring, PollingAt,
             TaskMoves, Movers
    <2>4. LockWithin(m)
      BY <1>1, <1>2, <2>2, LockLeft DEF Inside
    <2>5. TurnWithin(m)
      BY <1>1, <2>2 DEF TurnWithin, TurnAt
    <2>6. HandleFresh(act[m])'
      BY <1>1, <1>2, <2>2 DEF HandoverInv, HandlesFresh, HandleFresh
    <2>7. SessionWithin
      BY <1>1, <1>2 DEF HandoverInv, HandoverTyped, ReadFits, SessionWithin
    <2>8. HandleWithin(m) /\ ProofWithin(m)
      BY <1>1, <1>2, <2>2, <2>6 DEF HandleWithin, ProofWithin
    <2>9. ChildrenWithin(m)
      BY <1>2, <2>2 DEF HandoverInv, HandoverTyped, ChildrenFit, ChildrenWithin
    <2>10. QED
      BY <2>2, <2>3, <2>4, <2>5, <2>7, <2>8, <2>9, StepKeeps DEF StepWithin
  <1>3. CASE Unavailable(m) /\ locks' = [locks EXCEPT !.launch = "none"] /\ UNCHANGED children
    BY <1>1, <1>3, UnavailableDoes, ReturnKeeps
  <1>4. QED
    BY <1>2, <1>3 DEF SdkConnects

LEMMA FinalCheckKeeps ==
    ASSUME HandoverInv, NEW m \in Movers, FinalCheck(m)
    PROVE  HandoverInv'
  <1>1. /\ act[m].at = "final_check" /\ act[m].at \in Restoring /\ act[m].at \in Inside
        /\ act[m].at \in Replacing
        /\ UNCHANGED <<terminal, turnRead>>
    BY DEF FinalCheck, MoverAt, Restoring, Inside, Replacing
  <1>2. ctx.kind = "broker"
    BY <1>1 DEF HandoverInv, HandlesFresh, HandleFresh
  <1>3. CASE AskedAgain = "gone"
    <2>1. /\ proof' = broker.life /\ ~broker.tui /\ Go(m, "publishing")
          /\ UNCHANGED <<children, locks>> /\ hist' = Overridden(ctx')
          /\ ctx' = IF act[m].orphan THEN [ctx EXCEPT !.state = "idle"] ELSE ctx
          /\ mirror' = IF act[m].orphan THEN [mirror EXCEPT !.active = FALSE] ELSE mirror
      BY <1>3 DEF FinalCheck, AskedAgain
    <2>2. "publishing" \in LaneMoves
      BY DEF LaneMoves, LoopAt, Restoring
    <2>3. /\ MovesOnly(m) /\ act'[m].at = "publishing" /\ act'[m].h = act[m].h
          /\ act'[m].kind = act[m].kind /\ act'[m].to = act[m].to
      BY <2>1, <2>2, GoDoes DEF HandoverInv
    <2>4. MoversPlaced'
      BY <2>3
         DEF HandoverInv, MoversPlaced, MovesOnly, LaneMoves, LoopAt, Restoring, PollingAt,
             TaskMoves, Movers
    <2>5. LockWithin(m)
      BY <1>1, <2>1, <2>3, LockLeft DEF Inside
    <2>6. TurnWithin(m)
      BY <1>1, <2>3 DEF TurnWithin, TurnAt
    <2>7. /\ ctx' \in SessionState /\ ctx'.kind = ctx.kind /\ ctx'.swaps = ctx.swaps
          /\ ctx'.task = ctx.task /\ ctx'.msg = ctx.msg /\ ctx'.state \in {ctx.state, "idle"}
      BY <2>1 DEF HandoverInv, HandoverTyped, SessionState
    <2>8. HandleFresh(act[m])'
      BY <1>1, <2>3, <2>7 DEF HandoverInv, HandlesFresh, HandleFresh
    <2>9. mirror' \in MirrorState /\ mirror'.seen = mirror.seen
      BY <2>1 DEF HandoverInv, HandoverTyped, MirrorState
    <2>10. SessionWithin
      BY <1>1, <2>1, <2>7, <2>9 DEF HandoverInv, ReadFits, SessionWithin, Overridden
    <2>11. HandleWithin(m) /\ ProofWithin(m)
      BY <2>1, <2>7, <2>8 DEF HandleWithin, ProofWithin
    <2>12. ChildrenWithin(m)
      BY <2>1, <2>3, <2>7 DEF HandoverInv, HandoverTyped, ChildrenFit, ChildrenWithin
    <2>13. QED
      BY <2>3, <2>4, <2>5, <2>6, <2>10, <2>11, <2>12, StepKeeps DEF StepWithin
  <1>4. CASE AskedAgain = "running"
    <2>1. /\ children' = children \ {"spare"} /\ Install("broker", broker.gen) /\ Return(m, "broker")
          /\ locks' = [locks EXCEPT !.launch = "none"] /\ UNCHANGED <<proof, mirror, hist>>
      BY <1>4 DEF FinalCheck
    <2>2. broker.gen \in Nat /\ Returned(m)
      BY <1>1, <2>1, ReturnDoes DEF HandoverInv, HandoverTyped
    <2>3. QED
      BY <1>1, <1>2, <2>1, <2>2, InstallKeeps
  <1>5. CASE AskedAgain = "unavailable"
    <2>1. /\ children' = children \ {"spare"} /\ Unavailable(m)
          /\ locks' = [locks EXCEPT !.launch = "none"] /\ UNCHANGED <<proof, mirror, hist>>
      BY <1>5 DEF FinalCheck
    <2>2. QED
      BY <1>1, <2>1, UnavailableDoes, ReturnKeeps
  <1>6. QED
    BY <1>3, <1>4, <1>5 DEF AskedAgain

LEMMA PublishesSdkKeeps ==
    ASSUME HandoverInv, NEW m \in Movers, PublishesSdk(m)
    PROVE  HandoverInv'
  <1>1. /\ act[m].at = "publishing" /\ act[m].at \in Restoring /\ act[m].at \in Inside
        /\ act[m].at \in Replacing
        /\ children' = {"published"} /\ mirror' = [mirror EXCEPT !.active = FALSE]
        /\ locks' = [locks EXCEPT !.launch = "none"] /\ Return(m, "sdk")
        /\ UNCHANGED <<terminal, turnRead, proof, hist>>
    BY DEF PublishesSdk, MoverAt, Restoring, Inside, Replacing
  <1>2. /\ ctx' \in SessionState /\ ctx'.kind = "sdk" /\ ctx'.swaps = ctx.swaps + 1
        /\ ctx'.task = ctx.task /\ ctx'.msg = ctx.msg /\ ctx'.state = ctx.state
        /\ ctx.swaps \in Nat
    <2>1. ctx \in SessionState /\ ctx.swaps \in Nat /\ ctx.swaps + 1 \in Nat
      BY DEF HandoverInv, HandoverTyped, SessionState
    <2>2. ctx' = [ctx EXCEPT !.kind = "sdk", !.gen = 0, !.swaps = ctx.swaps + 1, !.away = FALSE,
                             !.writing = FALSE]
      BY DEF PublishesSdk
    <2>3. ctx' \in SessionState
      BY <2>1, <2>2 DEF SessionState
    <2>4. QED
      BY <2>1, <2>2, <2>3
  <1>3. Returned(m)
    BY <1>1, ReturnDoes DEF HandoverInv
  <1>4. /\ HandleFresh(act[m])' /\ TurnWithin(m) /\ act'[m].at \notin Inside
        /\ act'[m].at \notin {"final_check", "publishing"}
    BY <1>1, <1>2, <1>3, ReturnedFits
  <1>5. LockWithin(m)
    BY <1>1, <1>4, LockGiven
  <1>6. SessionWithin
    <2>1. mirror' \in MirrorState /\ mirror'.seen = mirror.seen
      BY <1>1 DEF HandoverInv, HandoverTyped, MirrorState
    <2>2. QED
      BY <1>1, <1>2, <2>1 DEF HandoverInv, ReadFits, SessionWithin
  <1>7. HandleWithin(m) /\ ProofWithin(m)
    BY <1>1, <1>2, <1>4 DEF HandleWithin, ProofWithin
  <1>8. ChildrenWithin(m)
    BY <1>1, <1>2 DEF ChildrenWithin
  <1>9. QED
    BY <1>3, <1>4, <1>5, <1>6, <1>7, <1>8, StepKeeps DEF StepWithin, Returned
----------------------------------------------------------------------------
(* The watch loop and the lane.                                              *)

LEMMA LoopAdoptsKeeps ==
    ASSUME HandoverInv, LoopAdopts
    PROVE  HandoverInv'
  <1>1. /\ act["loop"].at = "rest"
        /\ act' = [act EXCEPT !["loop"].at = "discover", !["loop"].to = "poll"]
        /\ UNCHANGED <<terminal, ctx, children, locks, mirror, turnRead, proof, hist>>
    BY DEF LoopAdopts, MoverAt
  <1>2. act \in [Movers -> MoverState] /\ act["loop"] \in MoverState /\ "loop" \in Movers
    BY Places DEF HandoverInv, HandoverTyped
  <1>3. act'["loop"] = [act["loop"] EXCEPT !.at = "discover", !.to = "poll"]
    BY <1>1, <1>2
  <1>4. /\ act'["loop"] \in MoverState /\ act'["loop"].at = "discover"
        /\ act'["loop"].h = act["loop"].h /\ act'["loop"].to = "poll"
    BY <1>2, <1>3 DEF MoverState, LaneMoves, LoopAt, Adopting, GoesOn
  <1>5. MovesOnly("loop")
    BY <1>1, <1>2, <1>3, <1>4 DEF MovesOnly
  <1>6. MoversPlaced'
    BY <1>4, <1>5 DEF HandoverInv, MoversPlaced, MovesOnly, LoopAt, Adopting, Movers
  <1>7. LockWithin("loop")
    BY <1>1, <1>2, <1>4, LockLeft DEF Inside
  <1>8. TurnWithin("loop")
    BY <1>1, <1>4 DEF TurnWithin, Replacing
  <1>9. HandleFresh(act["loop"])'
    BY <1>1, <1>2, <1>4 DEF HandoverInv, HandlesFresh, HandleFresh
  <1>10. QED
    BY <1>1, <1>2, <1>4, <1>5, <1>6, <1>7, <1>8, <1>9, MoveKeeps

LEMMA PollStartsKeeps ==
    ASSUME HandoverInv, NEW m \in Movers, PollStarts(m)
    PROVE  HandoverInv'
  <1>1. /\ m \in {"loop", "lane"} /\ (act[m].at = "poll" \/ (m = "loop" /\ act[m].at = "rest"))
        /\ locks' = [locks EXCEPT !.watch = m] /\ Go(m, "scanned")
        /\ UNCHANGED <<terminal, ctx, children, mirror, turnRead, proof, hist>>
    BY DEF PollStarts, MoverAt
  <1>2. "scanned" \in LaneMoves
    BY DEF LaneMoves, LoopAt, PollingAt
  <1>3. /\ MovesOnly(m) /\ act'[m].at = "scanned" /\ act'[m].h = act[m].h
        /\ act'[m].kind = act[m].kind /\ act'[m].to = act[m].to
    BY <1>1, <1>2, GoDoes DEF HandoverInv
  <1>4. MoversPlaced'
    BY <1>1, <1>3 DEF HandoverInv, MoversPlaced, MovesOnly, LaneMoves, LoopAt, PollingAt, Movers
  <1>5. LockWithin(m)
    <2>1. locks' \in LocksState /\ locks'.launch = locks.launch
      BY <1>1 DEF HandoverInv, HandoverTyped, LocksState
    <2>2. QED
      BY <1>1, <1>3, <2>1 DEF LockWithin, Inside
  <1>6. TurnWithin(m)
    BY <1>1, <1>3 DEF TurnWithin, Replacing
  <1>7. HandleFresh(act[m])'
    BY <1>1, <1>3 DEF HandoverInv, HandlesFresh, HandleFresh
  <1>8. QED
    BY <1>1, <1>3, <1>4, <1>5, <1>6, <1>7, MoveKeeps

\* The end of a poll: the loop rests, the lane has claimed the session.
LEMMA PollEndsKeeps ==
    ASSUME HandoverInv, NEW m \in {"loop", "lane"}, NEW c \in SessionState, PollEnds(m, c),
           act[m].at \in {"scanned", "settle"},
           c.kind = ctx.kind, c.swaps = ctx.swaps, c.task = ctx.task, c.msg = ctx.msg,
           c.state \in {"running", ctx.state} \/ (ctx.msg => "unclaimed" \in hist'),
           hist \subseteq hist',
           UNCHANGED <<terminal, children, mirror, turnRead, proof>>
    PROVE  HandoverInv'
  <1>1. m \in Movers /\ locks' = [locks EXCEPT !.watch = "none"]
    BY DEF Movers, PollEnds
  <1>2. locks' \in LocksState /\ locks'.launch = locks.launch
    BY <1>1 DEF HandoverInv, HandoverTyped, LocksState
  <1>3. /\ ctx' \in SessionState /\ ctx'.kind = ctx.kind /\ ctx'.swaps = ctx.swaps
        /\ ctx'.task = ctx.task /\ (ctx.msg => ctx'.msg) /\ ctx'.state \in {c.state, "running"}
        /\ m = "lane" => ctx'.msg /\ ctx'.state = "running"
    <2>1. ctx' = IF m = "loop" THEN c ELSE [c EXCEPT !.state = "running", !.msg = TRUE]
      BY DEF PollEnds, QueryClaimed
    <2>2. QED
      BY <2>1 DEF SessionState
  <1>4. SessionWithin
    BY <1>3 DEF HandoverInv, HandoverTyped, ReadFits, SessionWithin
  <1>5. CASE m = "loop"
    <2>1. act' = [act EXCEPT !["loop"] = Resting]
      BY <1>1, <1>5, GoRests DEF PollEnds
    <2>2. /\ MovesOnly(m) /\ act'[m].at = "rest" /\ act'[m].h = 0 /\ act'[m].to = "rest"
      BY <1>1, <1>5, <2>1, RestDoes DEF HandoverInv
    <2>3. MoversPlaced'
      BY <1>5, <2>2 DEF HandoverInv, MoversPlaced, MovesOnly, LoopAt, Movers
    <2>4. LockWithin(m)
      BY <1>2, <2>2 DEF LockWithin, Inside
    <2>5. TurnWithin(m)
      BY <1>5, <2>2 DEF TurnWithin, Replacing
    <2>6. HandleFresh(act[m])'
      BY <1>3, <2>2 DEF HandleFresh, SessionState
    <2>7. HandleWithin(m) /\ ProofWithin(m)
      BY <1>3, <2>2, <2>6 DEF HandleWithin, ProofWithin
    <2>8. ChildrenWithin(m)
      BY <1>3 DEF HandoverInv, HandoverTyped, ChildrenFit, ChildrenWithin
    <2>9. QED
      BY <1>1, <1>4, <2>2, <2>3, <2>4, <2>5, <2>7, <2>8, StepKeeps DEF StepWithin
  <1>6. CASE m = "lane"
    <2>1. Go(m, "claimed") /\ "claimed" \in LaneMoves
      BY <1>6 DEF PollEnds, LaneMoves
    <2>2. /\ MovesOnly(m) /\ act'[m].at = "claimed" /\ act'[m].h = act[m].h
          /\ act'[m].kind = act[m].kind /\ act'[m].to = act[m].to
      BY <1>1, <2>1, GoDoes DEF HandoverInv
    <2>3. MoversPlaced'
      BY <1>6, <2>2 DEF HandoverInv, MoversPlaced, MovesOnly, LaneMoves, PollingAt, Movers
    <2>4. LockWithin(m)
      BY <1>2, <2>2 DEF LockWithin, Inside
    <2>5. TurnWithin(m)
      BY <1>3, <1>6, <2>2 DEF TurnWithin, Replacing
    <2>6. HandleFresh(act[m])'
      BY <1>1, <1>3, <2>2 DEF HandoverInv, HandlesFresh, HandleFresh
    <2>7. HandleWithin(m) /\ ProofWithin(m)
      BY <1>3, <2>2, <2>6 DEF HandleWithin, ProofWithin
    <2>8. ChildrenWithin(m)
      BY <1>3 DEF HandoverInv, HandoverTyped, ChildrenFit, ChildrenWithin
    <2>9. QED
      BY <1>1, <1>4, <2>2, <2>3, <2>4, <2>5, <2>7, <2>8, StepKeeps DEF StepWithin
  <1>7. QED
    BY <1>5, <1>6

LEMMA PollSeesKeeps ==
    ASSUME HandoverInv, NEW m \in Movers, PollSees(m)
    PROVE  HandoverInv'
  <1>1. /\ act[m].at = "scanned"
        /\ UNCHANGED <<terminal, children, turnRead, proof, hist>>
    BY DEF PollSees, MoverAt
  <1>2. m \in {"loop", "lane"}
    BY <1>1 DEF HandoverInv, MoversPlaced, TaskMoves, TurnAt, Restoring, Movers
  <1>3. CASE ctx.kind = "broker"
    <2>1. /\ act' = [act EXCEPT ![m].at = "refresh", ![m].to = "settle"]
          /\ UNCHANGED <<ctx, locks>>
      BY <1>3 DEF PollSees
    <2>2. mirror' \in MirrorState /\ mirror'.seen <= Len(bounds)
      <3>1. PICK a \in BOOLEAN : mirror' = [seen |-> Len(bounds), active |-> a]
        BY <1>3 DEF PollSees, TailActive, HandoverInv, HandoverTyped, MirrorState
      <3>2. Len(bounds) \in Nat
        BY DEF HandoverTyped
      <3>3. QED
        BY <3>1, <3>2 DEF MirrorState
    <2>3. act \in [Movers -> MoverState] /\ act[m] \in MoverState
      BY DEF HandoverInv, HandoverTyped
    <2>4. act'[m] = [act[m] EXCEPT !.at = "refresh", !.to = "settle"]
      BY <2>1, <2>3
    <2>5. /\ act'[m] \in MoverState /\ act'[m].at = "refresh" /\ act'[m].h = act[m].h
          /\ act'[m].kind = act[m].kind /\ act'[m].to = "settle"
      BY <2>3, <2>4 DEF MoverState, LaneMoves, LoopAt, Restoring, GoesOn
    <2>6. MovesOnly(m)
      BY <2>1, <2>3, <2>4, <2>5 DEF MovesOnly
    <2>7. MoversPlaced'
      BY <1>1, <1>2, <2>5, <2>6
         DEF HandoverInv, MoversPlaced, MovesOnly, LaneMoves, LoopAt, Restoring, PollingAt, Movers
    <2>8. LockWithin(m)
      BY <1>1, <2>1, <2>5, LockLeft DEF Inside
    <2>9. TurnWithin(m)
      BY <1>1, <1>2, <2>5 DEF TurnWithin, Replacing
    <2>10. HandleFresh(act[m])'
      BY <2>1, <2>5 DEF HandoverInv, HandlesFresh, HandleFresh
    <2>11. SessionWithin
      BY <1>1, <2>1, <2>2 DEF HandoverInv, HandoverTyped, SessionWithin
    <2>12. HandleWithin(m) /\ ProofWithin(m)
      BY <1>1, <2>1, <2>5, <2>10 DEF HandleWithin, ProofWithin
    <2>13. ChildrenWithin(m)
      BY <1>1, <2>1 DEF HandoverInv, HandoverTyped, ChildrenFit, ChildrenWithin
    <2>14. QED
      BY <2>6, <2>7, <2>8, <2>9, <2>11, <2>12, <2>13, StepKeeps DEF StepWithin
  <1>4. CASE ctx.kind # "broker"
    <2>1. PollEnds(m, ctx) /\ UNCHANGED mirror /\ ctx \in SessionState
      BY <1>4 DEF PollSees, HandoverInv, HandoverTyped
    <2>2. QED
      BY <1>1, <1>2, <2>1, PollEndsKeeps
  <1>5. QED
    BY <1>3, <1>4

LEMMA SettlesKeeps ==
    ASSUME HandoverInv, NEW m \in Movers, Settles(m)
    PROVE  HandoverInv'
  <1>1. /\ act[m].at = "settle" /\ PollEnds(m, Settled) /\ hist' = Overridden(Settled)
        /\ UNCHANGED <<terminal, children, mirror, turnRead, proof>>
    BY DEF Settles, MoverAt
  <1>2. m \in {"loop", "lane"}
    BY <1>1 DEF HandoverInv, MoversPlaced, TaskMoves, TurnAt, Restoring, Movers
  <1>3. /\ Settled \in SessionState /\ Settled.kind = ctx.kind /\ Settled.swaps = ctx.swaps
        /\ Settled.task = ctx.task /\ Settled.msg = ctx.msg
        /\ Settled.state \in {"running", "idle", ctx.state}
    <2>1. PICK now \in {"running", "idle"} : Settled = [ctx EXCEPT !.state = now]
      BY DEF Settled, HandoverInv, HandoverTyped, SessionState
    <2>2. QED
      BY <2>1 DEF HandoverInv, HandoverTyped, SessionState
  <1>4. /\ hist \subseteq hist'
        /\ Settled.state \in {"running", ctx.state} \/ (ctx.msg => "unclaimed" \in hist')
    BY <1>1, <1>3 DEF Overridden
  <1>5. QED
    BY <1>1, <1>2, <1>3, <1>4, PollEndsKeeps

LEMMA QueryKeeps ==
    ASSUME HandoverInv, Query
    PROVE  HandoverInv'
  <1>1. /\ act["lane"].at = "rest" /\ act["task"].at = "rest"
        /\ UNCHANGED <<terminal, ctx, children, locks, mirror, turnRead, proof, hist>>
    BY DEF Query, MoverAt
  <1>2. act \in [Movers -> MoverState] /\ act["lane"] \in MoverState /\ "lane" \in Movers
    BY Places DEF HandoverInv, HandoverTyped
  <1>3. PICK where \in {"refresh", "discover", "capture"} :
           act' = [act EXCEPT !["lane"].to = "capture", !["lane"].at = where]
    BY DEF Query
  <1>4. act'["lane"] = [act["lane"] EXCEPT !.to = "capture", !.at = where]
    BY <1>2, <1>3
  <1>5. /\ act'["lane"] \in MoverState /\ act'["lane"].at = where
        /\ act'["lane"].h = act["lane"].h /\ act'["lane"].to = "capture"
        /\ where \in LaneMoves
    BY <1>2, <1>3, <1>4 DEF MoverState, LaneMoves, LoopAt, Adopting, Restoring, GoesOn
  <1>6. MovesOnly("lane")
    BY <1>2, <1>3, <1>4, <1>5 DEF MovesOnly
  <1>7. MoversPlaced'
    BY <1>3, <1>5, <1>6 DEF HandoverInv, MoversPlaced, MovesOnly, PollingAt, Movers
  <1>8. LockWithin("lane")
    BY <1>1, <1>2, <1>5, LockLeft DEF Inside
  <1>9. TurnWithin("lane")
    BY <1>1, <1>5 DEF TurnWithin, Replacing
  <1>10. HandleFresh(act["lane"])'
    BY <1>1, <1>2, <1>5 DEF HandoverInv, HandlesFresh, HandleFresh
  <1>11. QED
    BY <1>1, <1>2, <1>5, <1>6, <1>7, <1>8, <1>9, <1>10, MoveKeeps

LEMMA CapturesKeeps ==
    ASSUME HandoverInv, Captures
    PROVE  HandoverInv'
  <1>1. /\ act["lane"].at = "capture"
        /\ UNCHANGED <<terminal, ctx, children, locks, mirror, turnRead, proof, hist>>
    BY DEF Captures, MoverAt
  <1>2. /\ act \in [Movers -> MoverState] /\ act["lane"] \in MoverState /\ "lane" \in Movers
        /\ ctx.kind \in {"sdk", "broker"} /\ ctx.swaps \in Nat
    BY Places DEF HandoverInv, HandoverTyped, SessionState
  <1>3. CASE act' = [act EXCEPT !["lane"] = Resting]
    <2>1. /\ MovesOnly("lane") /\ act'["lane"].at = "rest" /\ act'["lane"].h = 0
          /\ act'["lane"].to = "rest"
      BY <1>2, <1>3, RestDoes DEF HandoverInv
    <2>2. MoversPlaced'
      BY <2>1 DEF HandoverInv, MoversPlaced, MovesOnly, LaneMoves, LoopAt, PollingAt, Movers
    <2>3. LockWithin("lane")
      BY <1>1, <1>2, <2>1, LockLeft DEF Inside
    <2>4. TurnWithin("lane")
      BY <1>1, <2>1 DEF TurnWithin, Replacing
    <2>5. HandleFresh(act["lane"])'
      BY <1>1, <1>2, <2>1 DEF HandleFresh
    <2>6. QED
      BY <1>1, <1>2, <2>1, <2>2, <2>3, <2>4, <2>5, MoveKeeps
  <1>4. ASSUME NEW where \in {"refresh", "poll"},
               act' = [act EXCEPT !["lane"].kind = ctx.kind, !["lane"].to = "ready",
                                  !["lane"].at = where]
        PROVE  HandoverInv'
    <2>1. act'["lane"] = [act["lane"] EXCEPT !.kind = ctx.kind, !.to = "ready", !.at = where]
      BY <1>2, <1>4
    <2>2. /\ act'["lane"] \in MoverState /\ act'["lane"].at = where
          /\ act'["lane"].h = act["lane"].h /\ act'["lane"].to = "ready"
          /\ act'["lane"].kind = ctx.kind /\ where \in LaneMoves
      BY <1>2, <1>4, <2>1 DEF MoverState, LaneMoves, LoopAt, PollingAt, Restoring, GoesOn
    <2>3. MovesOnly("lane")
      BY <1>2, <1>4, <2>1, <2>2 DEF MovesOnly
    <2>4. MoversPlaced'
      BY <1>2, <2>2, <2>3 DEF HandoverInv, MoversPlaced, MovesOnly, Movers
    <2>5. LockWithin("lane")
      BY <1>1, <1>2, <2>2, LockLeft DEF Inside
    <2>6. TurnWithin("lane")
      BY <1>1, <2>2 DEF TurnWithin, Replacing
    <2>7. HandleFresh(act["lane"])'
      BY <1>1, <1>2, <2>2 DEF HandoverInv, HandlesFresh, HandleFresh
    <2>8. QED
      BY <1>1, <1>2, <2>2, <2>3, <2>4, <2>5, <2>6, <2>7, MoveKeeps
  <1>5. QED
    BY <1>3, <1>4 DEF Captures

LEMMA ClaimsKeeps ==
    ASSUME HandoverInv, Claims
    PROVE  HandoverInv'
  <1>1. /\ act["lane"].at = "ready" /\ ctx' = [ctx EXCEPT !.state = "running", !.msg = TRUE]
        /\ Go("lane", "claimed") /\ "lane" \in Movers /\ "claimed" \in LaneMoves
        /\ UNCHANGED <<terminal, children, locks, mirror, turnRead, proof, hist>>
    BY Places DEF Claims, MoverAt, QueryClaimed, LaneMoves
  <1>2. /\ ctx' \in SessionState /\ ctx'.kind = ctx.kind /\ ctx'.swaps = ctx.swaps
        /\ ctx'.task = ctx.task /\ ctx'.msg /\ ctx'.state = "running"
    BY <1>1 DEF HandoverInv, HandoverTyped, SessionState
  <1>3. /\ MovesOnly("lane") /\ act'["lane"].at = "claimed" /\ act'["lane"].h = act["lane"].h
        /\ act'["lane"].kind = act["lane"].kind /\ act'["lane"].to = act["lane"].to
    BY <1>1, GoDoes DEF HandoverInv
  <1>4. MoversPlaced'
    BY <1>1, <1>3 DEF HandoverInv, MoversPlaced, MovesOnly, Movers
  <1>5. LockWithin("lane")
    BY <1>1, <1>3, LockLeft DEF Inside
  <1>6. TurnWithin("lane")
    BY <1>1, <1>2, <1>3 DEF TurnWithin, Replacing
  <1>7. HandleFresh(act["lane"])'
    BY <1>1, <1>2, <1>3 DEF HandoverInv, HandlesFresh, HandleFresh
  <1>8. SessionWithin
    BY <1>1, <1>2 DEF HandoverInv, HandoverTyped, ReadFits, SessionWithin
  <1>9. HandleWithin("lane") /\ ProofWithin("lane")
    BY <1>1, <1>2, <1>3, <1>7 DEF HandleWithin, ProofWithin
  <1>10. ChildrenWithin("lane")
    BY <1>1, <1>2 DEF HandoverInv, HandoverTyped, ChildrenFit, ChildrenWithin
  <1>11. QED
    BY <1>1, <1>3, <1>4, <1>5, <1>6, <1>8, <1>9, <1>10, StepKeeps DEF StepWithin
----------------------------------------------------------------------------
(* The task of a turn.                                                       *)

LEMMA TaskLockedKeeps ==
    ASSUME HandoverInv, TaskLocked
    PROVE  HandoverInv'
  <1>1. TakesLock("task", "launch", "launching") /\ "task" \in Movers
    BY Places DEF TaskLocked
  <1>2. "launching" \in LaneMoves \cup TaskMoves /\ "launching" \in Inside
    BY DEF TaskMoves, TurnAt, Inside
  <1>3. /\ act["task"].at = "launch" /\ MovesOnly("task") /\ LockWithin("task")
        /\ act'["task"].at = "launching" /\ act'["task"].h = act["task"].h
        /\ act'["task"].kind = act["task"].kind /\ act'["task"].to = act["task"].to
        /\ UNCHANGED <<terminal, ctx, children, mirror, turnRead, proof, hist>>
    BY <1>1, <1>2, LockTaken
  <1>4. MoversPlaced'
    BY <1>3 DEF HandoverInv, MoversPlaced, MovesOnly, TaskMoves, TurnAt, Movers
  <1>5. TurnWithin("task")
    BY <1>3 DEF TurnWithin, Replacing, TurnAt
  <1>6. HandleFresh(act["task"])'
    BY <1>1, <1>3 DEF HandoverInv, HandlesFresh, HandleFresh
  <1>7. QED
    BY <1>1, <1>3, <1>4, <1>5, <1>6, MoveKeeps

LEMMA SdkTurnEndsKeeps ==
    ASSUME HandoverInv, SdkTurnEnds
    PROVE  HandoverInv'
  <1>1. /\ act["task"].at = "draining" /\ Go("task", "closing") /\ "task" \in Movers
        /\ "closing" \in TaskMoves
        /\ UNCHANGED <<terminal, ctx, children, locks, mirror, turnRead, proof, hist>>
    BY Places DEF SdkTurnEnds, MoverAt, TaskMoves, TurnAt
  <1>2. /\ MovesOnly("task") /\ act'["task"].at = "closing" /\ act'["task"].h = act["task"].h
        /\ act'["task"].kind = act["task"].kind /\ act'["task"].to = act["task"].to
    BY <1>1, GoDoes DEF HandoverInv
  <1>3. MoversPlaced'
    BY <1>1, <1>2 DEF HandoverInv, MoversPlaced, MovesOnly, Movers
  <1>4. TurnWithin("task")
    BY <1>1, <1>2 DEF TurnWithin, Replacing, TurnAt
  <1>5. HandleFresh(act["task"])'
    BY <1>1, <1>2 DEF HandoverInv, HandlesFresh, HandleFresh
  <1>6. LockWithin("task")
    BY <1>1, <1>2, LockLeft DEF Inside
  <1>7. QED
    BY <1>1, <1>2, <1>3, <1>4, <1>5, <1>6, MoveKeeps

\* A step of the turn leaves the handle where it is.
Quiet == {"rest", "unwind", "refresh", "claimed"} \cup TurnAt

LEMMA TurnStepKeeps ==
    ASSUME HandoverInv, prompts' \in Seq(Whose),
           UNCHANGED <<broker, doing, bounds, children, mirror, proof>>,
           ctx' \in SessionState, ctx'.kind = ctx.kind, ctx'.swaps = ctx.swaps,
           turnRead' \in [from : Nat, start : BOOLEAN,
                          how : Whose \cup {"none", "unsent", "told_failed", "lost"}],
           act' \in [Movers -> MoverState], act'["loop"] = act["loop"], MoversPlaced',
           LockWithin("task"),
           act["task"].at \in Quiet, act'["task"].at \in Quiet, act'["task"].h <= ctx.swaps,
           act'["lane"] = act["lane"] \/ (act'["lane"] = Resting /\ act["lane"].at = "claimed"),
           TaskAlone', ReadFits', ClaimStands', TurnKeepsHandle', OwnTurnEnds'
    PROVE  HandoverInv'
  <1> USE DEF HandoverInv
  <1>1. HandoverTyped'
    BY DEF HandoverTyped, LockWithin
  <1>2. \A m \in Movers : \/ act'[m] = act[m]
                          \/ /\ m \in {"task", "lane"} /\ act[m].at \in Quiet /\ act'[m].at \in Quiet
                             /\ act'[m].h <= ctx.swaps
    <2>1. ctx.swaps \in Nat
      BY DEF SessionState
    <2>2. QED
      BY <2>1 DEF Movers, Resting, Quiet
  <1>3. LaunchLocked'
    <2>1. act'["lane"].at \in Inside <=> act["lane"].at \in Inside
      BY Places DEF Resting
    <2>2. QED
      BY <2>1 DEF LaunchLocked, LockWithin, Movers
  <1>4. HandlesFresh'
    BY <1>2 DEF HandlesFresh, HandleFresh, Quiet, TurnAt
  <1>5. \A m \in Movers : act'[m].at \in {"final_check", "publishing"} \/ act[m].at \in {"final_check", "publishing"}
           => act'[m].at = act[m].at
    BY <1>2 DEF Quiet, TurnAt
  <1>6. ProofStands' /\ ChildrenFit'
    BY <1>5 DEF ProofStands, ChildrenFit, MoverAt
  <1>7. BoundsPaired'
    BY DEF BoundsPaired
  <1>8. QED
    BY <1>1, <1>3, <1>4, <1>6, <1>7

LEMMA CreatesTaskKeeps ==
    ASSUME HandoverInv, CreatesTask
    PROVE  HandoverInv'
  <1> USE DEF HandoverInv
  <1>1. /\ act["lane"].at = "claimed" /\ ctx' = [ctx EXCEPT !.task = act["lane"].kind]
        /\ act' = [act EXCEPT !["lane"] = Resting, !["task"].at = "launch",
                              !["task"].kind = act["lane"].kind]
        /\ turnRead' = [NoRead EXCEPT !.from = Len(bounds)]
        /\ UNCHANGED <<terminal, children, locks, mirror, proof, hist>>
    BY DEF CreatesTask, MoverAt
  <1>2. /\ act \in [Movers -> MoverState] /\ act["lane"] \in MoverState /\ act["task"] \in MoverState
        /\ Len(bounds) \in Nat /\ ctx.swaps \in Nat
    BY Places DEF HandoverTyped, SessionState
  <1>3. PICK kind \in {"sdk", "broker"} : kind = act["lane"].kind
    BY <1>1, <1>2 DEF MoversPlaced, PollingAt, MoverState
  <1>4. act["task"].at = "rest"
    BY <1>1 DEF TaskAlone
  <1>5. /\ ctx' \in SessionState /\ ctx'.kind = ctx.kind /\ ctx'.swaps = ctx.swaps /\ ctx'.task = kind
        /\ ctx'.msg = ctx.msg /\ ctx'.state = ctx.state
    BY <1>1, <1>3 DEF HandoverTyped, SessionState
  <1>6. turnRead' = [from |-> Len(bounds), start |-> FALSE, how |-> "none"]
    BY <1>1 DEF NoRead
  <1>7. /\ act'["lane"] = Resting /\ act'["loop"] = act["loop"]
        /\ act'["task"] = [act["task"] EXCEPT !.at = "launch", !.kind = kind]
        /\ DOMAIN act' = Movers
    BY <1>1, <1>2, <1>3, Places
  <1>8. /\ act'["task"] \in MoverState /\ act'["task"].at = "launch" /\ act'["task"].kind = kind
        /\ act'["task"].h = act["task"].h /\ act'["task"].to = act["task"].to
    BY <1>2, <1>7 DEF MoverState, TaskMoves, TurnAt
  <1>9. act' \in [Movers -> MoverState]
    <2>1. Resting \in MoverState
      BY DEF Resting, MoverState, LaneMoves, LoopAt, GoesOn
    <2>2. act' = [x \in Movers |-> act'[x]]
      BY <1>1, <1>2
    <2>3. \A x \in Movers : act'[x] \in MoverState
      BY <1>2, <1>7, <1>8, <2>1 DEF Movers
    <2>4. QED
      BY <2>2, <2>3
  <1>10. MoversPlaced'
    BY <1>7, <1>8 DEF MoversPlaced, TaskMoves, TurnAt, Resting, LaneMoves, LoopAt, PollingAt
  <1>11. LockWithin("task")
    BY <1>1, <1>4, <1>8, Places, LockLeft DEF Inside
  <1>12. act["task"].h <= ctx.swaps
    BY Places DEF HandlesFresh, HandleFresh
  <1>13. TaskAlone'
    BY <1>3, <1>5, <1>7, <1>8 DEF TaskAlone, Resting
  <1>14. ReadFits' /\ OwnTurnEnds'
    BY <1>1, <1>2, <1>6 DEF ReadFits, OwnTurnEnds, terminal
  <1>15. ClaimStands'
    BY <1>1, <1>5, <1>7 DEF ClaimStands, Resting
  <1>16. TurnKeepsHandle'
    BY <1>8 DEF TurnKeepsHandle, MoverAt
  <1>17. prompts' \in Seq(Whose) /\ UNCHANGED <<broker, doing, bounds>>
    BY <1>1 DEF HandoverTyped, terminal
  <1>18. turnRead' \in [from : Nat, start : BOOLEAN,
                        how : Whose \cup {"none", "unsent", "told_failed", "lost"}]
    BY <1>2, <1>6
  <1>19. QED
    BY <1>1, <1>4, <1>5, <1>7, <1>8, <1>9, <1>10, <1>11, <1>12, <1>13, <1>14, <1>15, <1>16, <1>17,
       <1>18, TurnStepKeeps
       DEF Quiet, TurnAt

\* The task moves on with its turn.
LEMMA TurnMoves ==
    ASSUME HandoverInv, NEW where \in TurnAt, Go("task", where), act["task"].at \in TurnAt
    PROVE  /\ act' \in [Movers -> MoverState] /\ act'["loop"] = act["loop"]
           /\ act'["lane"] = act["lane"] /\ act["lane"].at = "rest" /\ act'["task"].at = where
           /\ act'["task"].h = act["task"].h /\ act["task"].h <= ctx.swaps
           /\ act'["task"].kind = act["task"].kind
           /\ MoversPlaced' /\ act'["task"].at \in Quiet /\ act["task"].at \in Quiet
           /\ ctx.task = act["task"].kind /\ act["task"].kind # "none"
  <1>1. MovesOnly("task") /\ act'["task"].at = where /\ act'["task"].h = act["task"].h
        /\ act'["task"].kind = act["task"].kind /\ act'["task"].to = act["task"].to
    BY GoDoes, Places DEF HandoverInv, TaskMoves, TurnAt
  <1>2. act["task"].at # "rest"
    BY DEF TurnAt
  <1>3. MoversPlaced'
    BY <1>1 DEF HandoverInv, MoversPlaced, MovesOnly, TaskMoves, Movers
  <1>4. QED
    BY <1>1, <1>2, <1>3
       DEF MovesOnly, HandoverInv, HandlesFresh, HandleFresh, TaskAlone, Quiet, Movers

LEMMA SubmitsKeeps ==
    ASSUME HandoverInv, Submits
    PROVE  HandoverInv'
  <1> USE DEF HandoverInv
  <1>1. /\ act["task"].at = "launching" /\ locks' = [locks EXCEPT !.launch = "none"]
        /\ UNCHANGED <<broker, doing, bounds, children, mirror, proof, hist>>
    BY DEF Submits, MoverAt
  <1>2. PICK where \in {"draining", "failed"} :
           /\ Go("task", where)
           /\ where = "draining" => UNCHANGED turnRead /\ act["task"].kind = ctx.kind
           /\ where = "failed" => \E h \in {"told_failed", "unsent"} :
                                     turnRead' = [turnRead EXCEPT !.how = h]
    BY DEF Submits
  <1>3. prompts' \in Seq(Whose)
    <2>1. prompts' = prompts \/ prompts' = Append(prompts, "remote")
      BY DEF Submits
    <2>2. prompts \in Seq(Whose) /\ "remote" \in Whose
      BY DEF HandoverTyped, Whose
    <2>3. QED
      BY <2>1, <2>2
  <1>4. /\ ctx' \in SessionState /\ ctx'.kind = ctx.kind /\ ctx'.swaps = ctx.swaps
        /\ ctx'.task = ctx.task /\ ctx'.msg = ctx.msg /\ ctx'.state = ctx.state
    <2>1. ctx' = ctx \/ ctx' = [ctx EXCEPT !.writing = TRUE]
      BY DEF Submits
    <2>2. QED
      BY <2>1 DEF HandoverTyped, SessionState
  <1>5. /\ turnRead' \in [from : Nat, start : BOOLEAN,
                          how : Whose \cup {"none", "unsent", "told_failed", "lost"}]
        /\ turnRead'.from = turnRead.from /\ turnRead'.start = turnRead.start
        /\ turnRead'.how # "terminal"
        /\ turnRead'.how = "none" \/ where = "failed"
        /\ turnRead'.how = "none" => turnRead.how = "none"
    <2>1. turnRead.how = "none"
      BY <1>1 DEF ReadFits
    <2>2. QED
      BY <1>2, <2>1 DEF HandoverTyped
  <1>6. where \in TurnAt /\ act["task"].at \in TurnAt
    BY <1>1 DEF TurnAt
  <1>7. /\ act' \in [Movers -> MoverState] /\ act'["loop"] = act["loop"]
        /\ act'["lane"] = act["lane"] /\ act["lane"].at = "rest" /\ act'["task"].at = where
        /\ act'["task"].h = act["task"].h /\ act["task"].h <= ctx.swaps
        /\ act'["task"].kind = act["task"].kind
        /\ MoversPlaced' /\ act'["task"].at \in Quiet /\ act["task"].at \in Quiet
        /\ ctx.task = act["task"].kind /\ act["task"].kind # "none"
    BY <1>2, <1>6, TurnMoves
  <1>8. LockWithin("task")
    BY <1>1, <1>7, LockGiven, Places DEF Inside
  <1>9. TaskAlone'
    <2>1. \A m \in Movers \ {"task"} : act[m].at \notin Inside
      BY <1>1, OneInside, Places
    <2>2. \A m \in Movers : act'[m].at \notin Replacing
      BY <1>7, <2>1, Places DEF Movers, Replacing
    <2>3. QED
      BY <1>4, <1>7, <2>2 DEF TaskAlone
  <1>10. ReadFits' /\ OwnTurnEnds'
    BY <1>1, <1>5, <1>7 DEF ReadFits, OwnTurnEnds
  <1>11. ClaimStands'
    BY <1>1, <1>4, <1>6, <1>7 DEF ClaimStands
  <1>12. TurnKeepsHandle'
    BY <1>2, <1>4, <1>7 DEF TurnKeepsHandle, MoverAt
  <1>13. QED
    BY <1>1, <1>3, <1>4, <1>5, <1>7, <1>8, <1>9, <1>10, <1>11, <1>12, TurnStepKeeps

LEMMA DrainFailsKeeps ==
    ASSUME HandoverInv, DrainFails
    PROVE  HandoverInv'
  <1> USE DEF HandoverInv
  <1>1. /\ act["task"].at = "draining" /\ turnRead' = [turnRead EXCEPT !.how = "lost"]
        /\ Go("task", "failed") /\ "failed" \in TurnAt /\ act["task"].at \in TurnAt
        /\ UNCHANGED <<terminal, ctx, children, locks, mirror, proof, hist>>
    BY DEF DrainFails, MoverAt, TurnAt
  <1>2. /\ turnRead' \in [from : Nat, start : BOOLEAN,
                          how : Whose \cup {"none", "unsent", "told_failed", "lost"}]
        /\ turnRead'.from = turnRead.from /\ turnRead'.how = "lost"
    BY <1>1 DEF HandoverTyped
  <1>3. /\ act' \in [Movers -> MoverState] /\ act'["loop"] = act["loop"]
        /\ act'["lane"] = act["lane"] /\ act["lane"].at = "rest" /\ act'["task"].at = "failed"
        /\ act'["task"].h = act["task"].h /\ act["task"].h <= ctx.swaps
        /\ act'["task"].kind = act["task"].kind
        /\ MoversPlaced' /\ act'["task"].at \in Quiet /\ act["task"].at \in Quiet
        /\ ctx.task = act["task"].kind /\ act["task"].kind # "none"
    BY <1>1, TurnMoves
  <1>4. LockWithin("task")
    BY <1>1, <1>3, LockLeft, Places DEF Inside
  <1>5. TaskAlone'
    BY <1>1, <1>3 DEF TaskAlone
  <1>6. ReadFits' /\ OwnTurnEnds'
    BY <1>1, <1>2, <1>3 DEF ReadFits, OwnTurnEnds, terminal
  <1>7. ClaimStands' /\ TurnKeepsHandle'
    BY <1>1, <1>3 DEF ClaimStands, TurnKeepsHandle, MoverAt
  <1>8. ctx' \in SessionState /\ prompts' \in Seq(Whose) /\ UNCHANGED <<broker, doing, bounds>>
    BY <1>1 DEF HandoverTyped, terminal
  <1>9. QED
    BY <1>1, <1>2, <1>3, <1>4, <1>5, <1>6, <1>7, <1>8, TurnStepKeeps

\* An end that the drain takes for its turn's comes behind the start it has read.
LEMMA DrainReadsKeeps ==
    ASSUME HandoverInv, DrainReads
    PROVE  HandoverInv'
  <1> USE DEF HandoverInv
  <1>1. /\ act["task"].at = "draining" /\ act["task"].at \in TurnAt
        /\ turnRead.from < Len(bounds)
        /\ UNCHANGED <<terminal, ctx, children, locks, mirror, proof>>
    BY DEF DrainReads, MoverAt, TurnAt
  <1>2. /\ turnRead.from \in Nat /\ Len(bounds) \in Nat /\ turnRead.from + 1 \in 1..Len(bounds)
        /\ turnRead.start \in BOOLEAN /\ turnRead.how = "none"
    BY <1>1 DEF HandoverTyped, ReadFits
  <1>3. PICK b \in Boundary : b = bounds[turnRead.from + 1]
    BY <1>2 DEF HandoverTyped
  <1>4. PICK how \in Whose \cup {"none"} : how = IF EndsIt(b, turnRead.start) THEN b.by ELSE "none"
    BY <1>3 DEF Boundary
  <1>5. /\ turnRead' = [from |-> turnRead.from + 1, start |-> (turnRead.start \/ b.what = "start"),
                        how |-> how]
        /\ hist' = IF b.what = "start" /\ b.by = "terminal" THEN hist \cup {"overtaken"} ELSE hist
        /\ IF how # "none" THEN Go("task", "closing") ELSE UNCHANGED act
    BY <1>3, <1>4 DEF DrainReads
  <1>6. /\ turnRead' \in [from : Nat, start : BOOLEAN,
                          how : Whose \cup {"none", "unsent", "told_failed", "lost"}]
        /\ turnRead'.from = turnRead.from + 1 /\ turnRead'.how = how
        /\ turnRead'.start = (turnRead.start \/ b.what = "start")
    BY <1>2, <1>5
  <1>7. /\ act' \in [Movers -> MoverState] /\ act'["loop"] = act["loop"]
        /\ act'["lane"] = act["lane"] /\ act["lane"].at = "rest"
        /\ act'["task"].at = IF how # "none" THEN "closing" ELSE "draining"
        /\ act'["task"].h = act["task"].h /\ act["task"].h <= ctx.swaps
        /\ act'["task"].kind = act["task"].kind
        /\ MoversPlaced' /\ act'["task"].at \in Quiet /\ act["task"].at \in Quiet
        /\ ctx.task = act["task"].kind /\ act["task"].kind # "none"
    <2>1. CASE how # "none"
      <3>1. Go("task", "closing") /\ "closing" \in TurnAt
        BY <1>5, <2>1 DEF TurnAt
      <3>2. QED
        BY <1>1, <2>1, <3>1, TurnMoves
    <2>2. CASE how = "none"
      <3>1. UNCHANGED act
        BY <1>5, <2>2
      <3>2. act["task"].at # "rest"
        BY <1>1
      <3>3. QED
        BY <1>1, <2>2, <3>1, <3>2, Places
           DEF HandoverTyped, MoversPlaced, HandlesFresh, HandleFresh, TaskAlone, Quiet
    <2>3. QED
      BY <2>1, <2>2
  <1>8. LockWithin("task")
    BY <1>1, <1>7, LockLeft, Places DEF Inside
  <1>9. TaskAlone'
    BY <1>1, <1>7 DEF TaskAlone, Movers, Replacing
  <1>10. bounds' = bounds /\ hist \subseteq hist'
    BY <1>1, <1>5 DEF terminal
  <1>11. ReadFits'
    <2>1. turnRead'.from <= Len(bounds) /\ turnRead'.from >= 1
      BY <1>2, <1>6
    <2>2. ASSUME turnRead'.start, how = "none"
          PROVE  b.what = "start" /\ (b.by = "terminal" => "overtaken" \in hist')
      <3>1. b.what # "end"
        <4>1. CASE turnRead.start
          BY <1>3, <1>4, <2>2, <4>1 DEF EndsIt, Boundary, Whose
        <4>2. CASE ~turnRead.start
          BY <1>6, <2>2, <4>2
        <4>3. QED
          BY <4>1, <4>2
      <3>2. b.what = "start"
        BY <3>1 DEF Boundary
      <3>3. QED
        BY <1>5, <3>2
    <2>3. act'["task"].at \in {"launch", "launching", "draining"} => how = "none"
      BY <1>7
    <2>4. QED
      BY <1>1, <1>3, <1>6, <1>10, <2>1, <2>2, <2>3 DEF ReadFits
  <1>12. OwnTurnEnds'
    <2>1. SUFFICES ASSUME how = "terminal"
                   PROVE  "overtaken" \in hist'
      BY <1>6 DEF OwnTurnEnds
    <2>2. b.what = "end" /\ turnRead.start /\ b.by = "terminal"
      BY <1>4, <2>1 DEF EndsIt
    <2>3. bounds[turnRead.from] = [what |-> "start", by |-> "terminal"]
      BY <1>2, <1>3, <2>2 DEF BoundsPaired
    <2>4. "overtaken" \in hist
      BY <1>2, <2>2, <2>3 DEF ReadFits
    <2>5. QED
      BY <1>10, <2>4
  <1>13. ClaimStands'
    BY <1>1, <1>7, <1>10 DEF ClaimStands
  <1>14. TurnKeepsHandle'
    BY <1>1, <1>7 DEF TurnKeepsHandle, MoverAt
  <1>15. ctx' \in SessionState /\ prompts' \in Seq(Whose) /\ UNCHANGED <<broker, doing, bounds>>
    BY <1>1 DEF HandoverTyped, terminal
  <1>16. QED
    BY <1>1, <1>6, <1>7, <1>8, <1>9, <1>11, <1>12, <1>13, <1>14, <1>15, TurnStepKeeps

LEMMA ClosesKeeps ==
    ASSUME HandoverInv, Closes
    PROVE  HandoverInv'
  <1> USE DEF HandoverInv
  <1>1. /\ act["task"].at \in {"failed", "closing"} /\ ctx' = [ctx EXCEPT !.state = "idle"]
        /\ UNCHANGED <<terminal, children, locks, mirror, turnRead, proof, hist>>
    BY DEF Closes, MoverAt
  <1>2. PICK where \in {"refresh", "unwind"} :
           act' = [act EXCEPT !["task"].to = "unwind", !["task"].at = where]
    BY DEF Closes
  <1>3. act \in [Movers -> MoverState] /\ act["task"] \in MoverState
    BY Places DEF HandoverTyped
  <1>4. /\ act'["task"] = [act["task"] EXCEPT !.to = "unwind", !.at = where]
        /\ act'["loop"] = act["loop"] /\ act'["lane"] = act["lane"]
    BY <1>2, <1>3 DEF Movers
  <1>5. /\ act'["task"] \in MoverState /\ act'["task"].at = where /\ act'["task"].to = "unwind"
        /\ act'["task"].h = act["task"].h /\ act'["task"].kind = act["task"].kind
    <2>1. where \in TaskMoves /\ "unwind" \in GoesOn
      BY <1>2 DEF TaskMoves, Restoring, GoesOn
    <2>2. QED
      BY <1>3, <1>4, <2>1 DEF MoverState
  <1>6. act' \in [Movers -> MoverState]
    BY <1>2, <1>3, <1>4, <1>5
  <1>7. /\ ctx' \in SessionState /\ ctx'.kind = ctx.kind /\ ctx'.swaps = ctx.swaps
        /\ ctx'.task = ctx.task
    BY <1>1 DEF HandoverTyped, SessionState
  <1>8. MoversPlaced'
    BY <1>4, <1>5 DEF MoversPlaced, TaskMoves, Restoring
  <1>9. LockWithin("task")
    BY <1>1, <1>5, LockLeft, Places DEF Inside
  <1>10. act["task"].h <= ctx.swaps
    BY Places DEF HandlesFresh, HandleFresh
  <1>11. TaskAlone'
    BY <1>1, <1>4, <1>5, <1>7 DEF TaskAlone
  <1>12. ReadFits' /\ OwnTurnEnds'
    BY <1>1, <1>5 DEF ReadFits, OwnTurnEnds, terminal
  <1>13. ClaimStands'
    <2>1. act["lane"].at = "rest"
      BY <1>1 DEF TaskAlone
    <2>2. QED
      BY <1>4, <1>5, <2>1 DEF ClaimStands, TurnAt
  <1>14. TurnKeepsHandle'
    BY <1>5 DEF TurnKeepsHandle, MoverAt
  <1>15. prompts' \in Seq(Whose) /\ UNCHANGED <<broker, doing, bounds>>
    BY <1>1 DEF HandoverTyped, terminal
  <1>16. turnRead' \in [from : Nat, start : BOOLEAN,
                        how : Whose \cup {"none", "unsent", "told_failed", "lost"}]
    BY <1>1 DEF HandoverTyped
  <1>17. act["task"].at \in Quiet /\ act'["task"].at \in Quiet
    BY <1>1, <1>5 DEF Quiet, TurnAt
  <1>18. QED
    BY <1>1, <1>4, <1>5, <1>6, <1>7, <1>8, <1>9, <1>10, <1>11, <1>12, <1>13, <1>14, <1>15, <1>16,
       <1>17, TurnStepKeeps

LEMMA UnwindsKeeps ==
    ASSUME HandoverInv, Unwinds
    PROVE  HandoverInv'
  <1> USE DEF HandoverInv
  <1>1. /\ act["task"].at = "unwind" /\ act' = [act EXCEPT !["task"] = Resting]
        /\ ctx' = [ctx EXCEPT !.task = "none", !.msg = FALSE, !.writing = FALSE]
        /\ turnRead' = NoRead
        /\ UNCHANGED <<terminal, children, locks, mirror, proof, hist>>
    BY DEF Unwinds, MoverAt
  <1>2. /\ MovesOnly("task") /\ act'["task"].at = "rest" /\ act'["task"].h = 0
        /\ act'["task"].to = "rest"
    BY <1>1, RestDoes, Places
  <1>3. act' \in [Movers -> MoverState] /\ act'["loop"] = act["loop"] /\ act'["lane"] = act["lane"]
    BY <1>2 DEF MovesOnly, Movers
  <1>4. /\ ctx' \in SessionState /\ ctx'.kind = ctx.kind /\ ctx'.swaps = ctx.swaps
        /\ ctx.swaps \in Nat
    BY <1>1 DEF HandoverTyped, SessionState
  <1>5. act["lane"].at = "rest"
    BY <1>1 DEF TaskAlone
  <1>6. MoversPlaced'
    BY <1>2, <1>3 DEF MoversPlaced, TaskMoves
  <1>7. LockWithin("task")
    BY <1>1, <1>2, LockLeft, Places DEF Inside
  <1>8. TaskAlone' /\ ClaimStands' /\ TurnKeepsHandle'
    BY <1>2, <1>3, <1>5 DEF TaskAlone, ClaimStands, TurnKeepsHandle, MoverAt, TurnAt
  <1>9. turnRead' = [from |-> 0, start |-> FALSE, how |-> "none"]
    BY <1>1 DEF NoRead
  <1>10. Len(bounds) \in Nat /\ UNCHANGED <<broker, prompts, doing, bounds>>
    BY <1>1 DEF terminal
  <1>11. ReadFits' /\ OwnTurnEnds'
    BY <1>1, <1>9, <1>10 DEF ReadFits, OwnTurnEnds
  <1>12. turnRead' \in [from : Nat, start : BOOLEAN,
                        how : Whose \cup {"none", "unsent", "told_failed", "lost"}]
    BY <1>9
  <1>13. prompts' \in Seq(Whose)
    BY <1>10 DEF HandoverTyped
  <1>14. act["task"].at \in Quiet /\ act'["task"].at \in Quiet
    BY <1>1, <1>2 DEF Quiet
  <1>15. QED
    BY <1>1, <1>2, <1>3, <1>4, <1>6, <1>7, <1>8, <1>10, <1>11, <1>12, <1>13, <1>14, TurnStepKeeps
----------------------------------------------------------------------------
(* The terminal's side.                                                      *)

sessionSide == <<ctx, children, locks, mirror, act, turnRead, proof, hist>>

\* A step of the broker or its TUI leaves the session as it is.
LEMMA TerminalKeeps ==
    ASSUME HandoverInv, UNCHANGED sessionSide,
           broker' \in [up : BOOLEAN, gen : Nat, tui : BOOLEAN, life : Nat],
           prompts' \in Seq(Whose), doing' \in Whose \cup {"none"}, bounds' \in Seq(Boundary),
           proof <= broker'.life,
           broker'.tui => broker'.life > proof \/ (broker.tui /\ broker'.life = broker.life),
           Len(bounds) <= Len(bounds'), \A k \in 1..Len(bounds) : bounds'[k] = bounds[k],
           BoundsPaired'
    PROVE  HandoverInv'
  <1> USE DEF HandoverInv
  <1>1. UNCHANGED <<ctx, children, locks, mirror, act, turnRead, proof, hist>>
    BY DEF sessionSide
  <1>2. HandoverTyped'
    BY <1>1 DEF HandoverTyped
  <1>3. MoversPlaced' /\ LaunchLocked' /\ HandlesFresh' /\ TaskAlone' /\ ClaimStands'
    BY <1>1 DEF MoversPlaced, LaunchLocked, HandlesFresh, HandleFresh, TaskAlone, ClaimStands
  <1>4. ChildrenFit' /\ TurnKeepsHandle' /\ OwnTurnEnds'
    BY <1>1 DEF ChildrenFit, TurnKeepsHandle, OwnTurnEnds, MoverAt
  <1>5. ProofStands'
    BY <1>1 DEF ProofStands, MoverAt
  <1>6. ReadFits'
    <2>1. /\ mirror.seen \in Nat /\ turnRead.from \in Nat /\ Len(bounds) \in Nat /\ Len(bounds') \in Nat
      BY DEF HandoverTyped, MirrorState
    <2>2. turnRead.from >= 1 => bounds'[turnRead.from] = bounds[turnRead.from]
      BY <2>1 DEF ReadFits
    <2>3. QED
      BY <1>1, <2>1, <2>2 DEF ReadFits
  <1>7. QED
    BY <1>2, <1>3, <1>4, <1>5, <1>6

\* A boundary is added behind the others.
LEMMA BoundAdded ==
    ASSUME HandoverTyped, NEW b \in Boundary, bounds' = Append(bounds, b)
    PROVE  /\ bounds' \in Seq(Boundary) /\ Len(bounds') = Len(bounds) + 1 /\ Len(bounds) \in Nat
           /\ \A k \in 1..Len(bounds) : bounds'[k] = bounds[k]
           /\ bounds'[Len(bounds) + 1] = b
  BY DEF HandoverTyped

LEMMA TuiKeeps ==
    ASSUME HandoverInv, TuiOpens \/ TuiCloses \/ BrokerDies \/ BrokerStarts \/ UserTypes
    PROVE  HandoverInv'
  <1>1. /\ broker \in [up : BOOLEAN, gen : Nat, tui : BOOLEAN, life : Nat]
        /\ prompts \in Seq(Whose) /\ doing \in Whose \cup {"none"} /\ bounds \in Seq(Boundary)
        /\ proof \in Nat /\ proof <= broker.life /\ BoundsPaired
    BY DEF HandoverInv, HandoverTyped, ProofStands
  <1>2. UNCHANGED sessionSide /\ UNCHANGED bounds
    BY DEF TuiOpens, TuiCloses, BrokerDies, BrokerStarts, UserTypes, sessionSide
  <1>3. CASE TuiOpens
    <2>1. broker' = [broker EXCEPT !.tui = TRUE, !.life = broker.life + 1] /\ broker.life + 1 \in Nat
          /\ UNCHANGED <<prompts, doing>>
      BY <1>1, <1>3 DEF TuiOpens
    <2>2. broker' \in [up : BOOLEAN, gen : Nat, tui : BOOLEAN, life : Nat]
          /\ broker'.life = broker.life + 1
      BY <1>1, <2>1
    <2>3. BoundsPaired'
      BY <1>1, <1>2, <2>1 DEF BoundsPaired
    <2>4. proof <= broker'.life /\ broker'.life > proof
      BY <1>1, <2>2
    <2>5. QED
      BY <1>1, <1>2, <2>1, <2>2, <2>3, <2>4, TerminalKeeps
  <1>4. CASE TuiCloses \/ BrokerDies
    <2>1. /\ prompts' = <<>> /\ doing' = "none"
          /\ \/ broker' = [broker EXCEPT !.tui = FALSE]
             \/ broker' = [broker EXCEPT !.up = FALSE, !.tui = FALSE]
      BY <1>4 DEF TuiCloses, BrokerDies
    <2>2. broker' \in [up : BOOLEAN, gen : Nat, tui : BOOLEAN, life : Nat]
          /\ broker'.life = broker.life /\ ~broker'.tui
      BY <1>1, <2>1
    <2>3. BoundsPaired'
      BY <1>1, <1>2, <2>1 DEF BoundsPaired
    <2>4. prompts' \in Seq(Whose) /\ doing' \in Whose \cup {"none"}
      BY <2>1
    <2>5. QED
      BY <1>1, <1>2, <2>2, <2>3, <2>4, TerminalKeeps
  <1>5. CASE BrokerStarts
    <2>1. broker' = [broker EXCEPT !.up = TRUE, !.gen = broker.gen + 1] /\ broker.gen + 1 \in Nat
          /\ UNCHANGED <<prompts, doing>>
      BY <1>1, <1>5 DEF BrokerStarts
    <2>2. broker' \in [up : BOOLEAN, gen : Nat, tui : BOOLEAN, life : Nat]
          /\ broker'.life = broker.life /\ broker'.tui = broker.tui
      BY <1>1, <2>1
    <2>3. BoundsPaired'
      BY <1>1, <1>2, <2>1 DEF BoundsPaired
    <2>4. QED
      BY <1>1, <1>2, <2>1, <2>2, <2>3, TerminalKeeps
  <1>6. CASE UserTypes
    <2>1. prompts' = Append(prompts, "terminal") /\ "terminal" \in Whose /\ UNCHANGED <<broker, doing>>
      BY <1>6 DEF UserTypes, Whose
    <2>2. prompts' \in Seq(Whose)
      BY <1>1, <2>1
    <2>3. BoundsPaired'
      BY <1>1, <1>2, <2>1 DEF BoundsPaired
    <2>4. QED
      BY <1>1, <1>2, <2>1, <2>2, <2>3, TerminalKeeps
  <1>7. QED
    BY <1>3, <1>4, <1>5, <1>6

LEMMA TuiBeginsKeeps ==
    ASSUME HandoverInv, TuiBegins
    PROVE  HandoverInv'
  <1>1. /\ prompts # <<>> /\ doing' = Head(prompts) /\ prompts' = Tail(prompts)
        /\ UNCHANGED broker /\ UNCHANGED sessionSide
    BY DEF TuiBegins, sessionSide
  <1>2. PICK b \in Boundary : bounds' = Append(bounds, b) /\ b = [what |-> "start", by |-> doing']
    <2>1. Head(prompts) \in Whose
      BY <1>1 DEF HandoverInv, HandoverTyped
    <2>2. QED
      BY <1>1, <2>1 DEF TuiBegins, Boundary
  <1>3. prompts' \in Seq(Whose) /\ doing' \in Whose
    BY <1>1 DEF HandoverInv, HandoverTyped
  <1>4. /\ bounds' \in Seq(Boundary) /\ Len(bounds') = Len(bounds) + 1 /\ Len(bounds) \in Nat
        /\ \A k \in 1..Len(bounds) : bounds'[k] = bounds[k]
        /\ bounds'[Len(bounds) + 1] = b
    BY <1>2, BoundAdded DEF HandoverInv
  <1>5. BoundsPaired'
    <2>1. bounds' # <<>>
      BY <1>4
    <2>2. ASSUME NEW k \in 1..Len(bounds'), bounds'[k].what = "end"
          PROVE  k > 1 /\ bounds'[k - 1] = [what |-> "start", by |-> bounds'[k].by]
      <3>1. k \in 1..Len(bounds)
        BY <1>2, <1>4, <2>2
      <3>2. k > 1 /\ bounds[k - 1] = [what |-> "start", by |-> bounds[k].by]
        BY <1>4, <2>2, <3>1 DEF HandoverInv, BoundsPaired
      <3>3. k - 1 \in 1..Len(bounds)
        BY <1>4, <3>1, <3>2
      <3>4. QED
        BY <1>4, <3>1, <3>2, <3>3
    <2>3. QED
      BY <1>2, <1>4, <2>1, <2>2 DEF BoundsPaired
  <1>6. /\ broker' \in [up : BOOLEAN, gen : Nat, tui : BOOLEAN, life : Nat]
        /\ proof <= broker'.life /\ broker' = broker /\ Len(bounds) <= Len(bounds')
    BY <1>1, <1>4 DEF HandoverInv, HandoverTyped, ProofStands
  <1>7. QED
    BY <1>1, <1>3, <1>4, <1>5, <1>6, TerminalKeeps

LEMMA TuiFinishesKeeps ==
    ASSUME HandoverInv, TuiFinishes
    PROVE  HandoverInv'
  <1>1. doing # "none" /\ doing' = "none" /\ UNCHANGED <<broker, prompts>> /\ UNCHANGED sessionSide
    BY DEF TuiFinishes, sessionSide
  <1>2. doing \in Whose
    BY <1>1 DEF HandoverInv, HandoverTyped
  <1>3. PICK b \in Boundary : bounds' = Append(bounds, b) /\ b = [what |-> "end", by |-> doing]
    BY <1>2 DEF TuiFinishes, Boundary
  <1>4. /\ bounds' \in Seq(Boundary) /\ Len(bounds') = Len(bounds) + 1 /\ Len(bounds) \in Nat
        /\ \A k \in 1..Len(bounds) : bounds'[k] = bounds[k]
        /\ bounds'[Len(bounds) + 1] = b
    BY <1>3, BoundAdded DEF HandoverInv
  <1>5. /\ Len(bounds) >= 1 /\ bounds[Len(bounds)] = [what |-> "start", by |-> doing]
    <2>1. bounds # <<>> /\ bounds[Len(bounds)] = [what |-> "start", by |-> doing]
      BY <1>1 DEF HandoverInv, BoundsPaired
    <2>2. bounds \in Seq(Boundary)
      BY DEF HandoverInv, HandoverTyped
    <2>3. QED
      BY <1>4, <2>1, <2>2
  <1>6. BoundsPaired'
    <2>1. ASSUME NEW k \in 1..Len(bounds'), bounds'[k].what = "end"
          PROVE  k > 1 /\ bounds'[k - 1] = [what |-> "start", by |-> bounds'[k].by]
      <3>1. CASE k = Len(bounds) + 1
        <4>1. k - 1 = Len(bounds) /\ k - 1 \in 1..Len(bounds)
          BY <1>4, <1>5, <3>1
        <4>2. QED
          BY <1>3, <1>4, <1>5, <3>1, <4>1
      <3>2. CASE k \in 1..Len(bounds)
        <4>1. k > 1 /\ bounds[k - 1] = [what |-> "start", by |-> bounds[k].by]
          BY <1>4, <2>1, <3>2 DEF HandoverInv, BoundsPaired
        <4>2. k - 1 \in 1..Len(bounds)
          BY <1>4, <3>2, <4>1
        <4>3. QED
          BY <1>4, <3>2, <4>1, <4>2
      <3>3. QED
        BY <1>4, <2>1, <3>1, <3>2
    <2>2. QED
      BY <1>1, <2>1 DEF BoundsPaired
  <1>7. /\ broker' \in [up : BOOLEAN, gen : Nat, tui : BOOLEAN, life : Nat]
        /\ prompts' \in Seq(Whose)
        /\ proof <= broker'.life /\ broker' = broker /\ Len(bounds) <= Len(bounds')
    BY <1>1, <1>4 DEF HandoverInv, HandoverTyped, ProofStands
  <1>8. QED
    BY <1>1, <1>4, <1>6, <1>7, TerminalKeeps
----------------------------------------------------------------------------

LEMMA HandoverBegins == HandoverInit => HandoverInv
  <1> SUFFICES ASSUME HandoverInit
               PROVE  HandoverInv
    OBVIOUS
  <1>1. Resting \in MoverState /\ \A m \in Movers : act[m] = Resting
    BY DEF HandoverInit, Resting, MoverState, LaneMoves, LoopAt, GoesOn
  <1>2. HandoverTyped
    BY <1>1 DEF HandoverInit, HandoverTyped, SessionState, LocksState, MirrorState, NoRead
  <1>3. MoversPlaced
    BY <1>1, Places DEF MoversPlaced, Resting, LoopAt, LaneMoves, TaskMoves, PollingAt
  <1>4. LaunchLocked /\ TurnKeepsHandle /\ ClaimStands
    BY <1>1, Places
       DEF HandoverInit, LaunchLocked, TurnKeepsHandle, ClaimStands, MoverAt, Resting, TurnAt
  <1>5. HandlesFresh /\ TaskAlone
    BY <1>1, Places DEF HandoverInit, HandlesFresh, HandleFresh, TaskAlone, Resting
  <1>6. ProofStands /\ ChildrenFit
    BY <1>1 DEF HandoverInit, ProofStands, ChildrenFit, Resting
  <1>7. BoundsPaired /\ ReadFits /\ OwnTurnEnds
    BY <1>1 DEF HandoverInit, BoundsPaired, ReadFits, OwnTurnEnds, NoRead, Resting
  <1>8. QED
    BY <1>2, <1>3, <1>4, <1>5, <1>6, <1>7 DEF HandoverInv

LEMMA HandoverStuttersKeeps ==
    ASSUME HandoverInv, UNCHANGED handoverVars
    PROVE  HandoverInv'
  <1>1. UNCHANGED <<broker, prompts, doing, bounds>> /\ UNCHANGED sessionSide
    BY DEF handoverVars, sessionSide
  <1>2. BoundsPaired'
    BY <1>1 DEF HandoverInv, BoundsPaired
  <1>3. QED
    BY <1>1, <1>2, TerminalKeeps DEF HandoverInv, HandoverTyped, ProofStands

LEMMA HandoverKeeps == HandoverInv /\ [HandoverNext]_handoverVars => HandoverInv'
  <1> SUFFICES ASSUME HandoverInv, [HandoverNext]_handoverVars
               PROVE  HandoverInv'
    OBVIOUS
  <1>1. CASE TuiOpens \/ TuiCloses \/ BrokerDies \/ BrokerStarts \/ UserTypes \/ TuiBegins
             \/ TuiFinishes
    BY <1>1, TuiKeeps, TuiBeginsKeeps, TuiFinishesKeeps
  <1>2. ASSUME NEW m \in Movers,
               \/ Discover(m) \/ AdoptLocked(m) \/ AdoptRevalidates(m) \/ Adopts(m)
               \/ Refresh(m) \/ RestoreChecks(m) \/ RestoreLocked(m) \/ RestoreDecides(m)
               \/ SdkConnects(m) \/ FinalCheck(m) \/ PublishesSdk(m)
        PROVE  HandoverInv'
    BY <1>2, DiscoverKeeps, AdoptLockedKeeps, AdoptRevalidatesKeeps, AdoptsKeeps, RefreshKeeps,
       RestoreChecksKeeps, RestoreLockedKeeps, RestoreDecidesKeeps, SdkConnectsKeeps,
       FinalCheckKeeps, PublishesSdkKeeps
  <1>3. ASSUME NEW m \in Movers, PollStarts(m) \/ PollSees(m) \/ Settles(m)
        PROVE  HandoverInv'
    BY <1>3, PollStartsKeeps, PollSeesKeeps, SettlesKeeps
  <1>4. CASE LoopAdopts \/ Query \/ Captures \/ Claims \/ CreatesTask
    BY <1>4, LoopAdoptsKeeps, QueryKeeps, CapturesKeeps, ClaimsKeeps, CreatesTaskKeeps
  <1>5. CASE TaskLocked \/ Submits \/ DrainFails \/ DrainReads \/ SdkTurnEnds \/ Closes \/ Unwinds
    BY <1>5, TaskLockedKeeps, SubmitsKeeps, DrainFailsKeeps, DrainReadsKeeps, SdkTurnEndsKeeps,
       ClosesKeeps, UnwindsKeeps
  <1>6. CASE UNCHANGED handoverVars
    BY <1>6, HandoverStuttersKeeps
  <1>7. QED
    BY <1>1, <1>2, <1>3, <1>4, <1>5, <1>6 DEF HandoverNext

(* In every state the launch lock, the places of the loop, the lane and the   *)
(* task, the handle each has looked at, the SDK children and the boundaries   *)
(* that were read fit together, however many TUIs, restarts and queries there *)
(* are (_adopt_claude_broker_handle, _restore_sdk_after_claude_broker_exit,   *)
(* _run_claude_broker_turn).                                                  *)
THEOREM HandoverInvariant == HandoverSpec => []HandoverInv
  <1>1. QED
    BY HandoverBegins, HandoverKeeps, PTL DEF HandoverSpec

(* A session has one writer, whose handle is not replaced while a turn is     *)
(* drained; an end that is told as the turn's is not that of a turn typed in  *)
(* the terminal, and the session is busy while its turn is drained, but for   *)
(* the two races that HandoverSafe names.                                     *)
THEOREM HandoverIsSafe == HandoverSpec => []HandoverSafe
  <1>1. ASSUME HandoverInv
        PROVE  HandoverSafe
    <2> USE <1>1 DEF HandoverInv
    <2>1. HandoverTypeOK
      BY DEF HandoverTypeOK, HandoverTyped, SessionState, LocksState, ReadFits, LaunchLocked,
         Inside
    <2>2. OneWriter
      BY DEF OneWriter, ChildrenFit, ProofStands
    <2>3. DrainedIsBusy
      BY DEF DrainedIsBusy, ClaimStands, TurnAt, MoverAt
    <2>4. QED
      BY <2>1, <2>2, <2>3 DEF HandoverSafe
  <1>2. QED
    BY <1>1, HandoverInvariant, PTL

-----------------------------------------------------------------------------
(* CodexWatch.  What the variables hold between two steps of the lock.       *)
Marks == [what : {"start", "end"}, id : Int]
Record == [id : Int, done : BOOLEAN, rpc : BOOLEAN]
Wishes == [on : BOOLEAN, writers : SUBSET Writers, tuis : SUBSET Writers, turns : SUBSET Int]
CodexOwnership ==
    [size : Nat, holders : SUBSET Writers, writers : SUBSET Writers, active : SUBSET Int,
     seeded : SUBSET Int, pending : SUBSET Record, external : BOOLEAN, kept : SUBSET Writers,
     keptTuis : SUBSET Writers, wish : Wishes]
Gates ==
    [by : {"free", "loop", "lane", "task"}, at : {"free", "scan", "stat", "read", "judged"},
     holders : SUBSET Writers, writers : SUBSET Writers, private : SUBSET Writers,
     full : BOOLEAN, size : Nat]
RunPlaces == {"none", "start", "reloading", "reloading_again", "preflight", "preflight_again",
              "turn"}
Processes == [st : {"off", "on", "gone"}, kind : ProcKinds, turn : Nat]
Servers == [up : BOOLEAN, known : SUBSET Nat, ids : SUBSET Int, pending : BOOLEAN,
            active : BOOLEAN]
Resumes == [at : {"none", "reading", "read"}, read : SUBSET Nat]
CodexLefts == [procs : SUBSET Writers, turns : Nat, alone : Nat, commands : Nat, faults : Nat]
Turns == [id : Int, at : {"none", "sent", "running"}, due : Seq(Marks)]

CodexTyped ==
    /\ procs \in [Writers -> Processes] /\ codexLeft \in CodexLefts /\ resume \in Resumes
    /\ rollout \in Seq(Marks) /\ appServer \in Servers /\ mine \in Turns
    /\ cw \in CodexOwnership /\ gate \in Gates /\ runAt \in RunPlaces
    /\ stale \in BOOLEAN /\ lost \subseteq Int /\ quiet \subseteq Int

\* Who holds the lock; what was measured is in the rollout.
GateFits ==
    /\ gate.by = "free" <=> gate.at = "free"
    /\ gate.by = "free" => gate = NoGate
    /\ gate.by = "lane" => runAt = "none"
    /\ gate.by = "task" => runAt \in {"preflight", "preflight_again"}
    /\ cw.size <= Len(rollout) /\ gate.size <= Len(rollout)
    /\ gate.at = "read" => cw.size <= gate.size

\* Processes that are known have started, and the TUIs among them are known as such.
Tuis(ps) == {p \in ps : procs[p].kind = "tui"}
Ran(ps) == \A p \in ps : procs[p].st # "off"
HoldersFit ==
    /\ cw.holders = Tuis(cw.writers) /\ cw.keptTuis = Tuis(cw.kept)
    /\ cw.wish.tuis = Tuis(cw.wish.writers) /\ gate.holders = Tuis(gate.writers)
    /\ Ran(cw.writers) /\ Ran(cw.kept) /\ Ran(cw.wish.writers) /\ Ran(gate.writers)
    /\ \A p \in codexLeft.procs : procs[p].st = "off"
    /\ cw.kept \subseteq clicked /\ cw.wish.writers \subseteq clicked

\* A turn starts once, and a foreign one ends once and later; foreign turns are
\* numbered without a gap, and no two processes run the same.
MarkedIds(what, upTo) == {rollout[k].id : k \in {i \in 1..upTo : rollout[i].what = what}}
StartsIn(upTo) == MarkedIds("start", upTo)
EndsIn(upTo) == MarkedIds("end", upTo)
RolloutFits ==
    /\ \A k, l \in DOMAIN rollout :
          rollout[l] = rollout[k] /\ (rollout[k].what = "start" \/ rollout[k].id > 0) => k = l
    /\ \A k \in DOMAIN rollout : rollout[k].what = "end" /\ rollout[k].id > 0 =>
          \E l \in DOMAIN rollout : l < k /\ rollout[l] = StartOf(rollout[k].id)
    /\ \E n \in Nat : TurnsOf(ForeignMarks(DOMAIN rollout)) = 1..n
    /\ \A p \in Writers : procs[p].turn # 0 =>
          /\ procs[p].turn \in StartsIn(Len(rollout)) \ EndsIn(Len(rollout))
          /\ \A o \in Writers : procs[o].turn = procs[p].turn => o = p

\* The ids of our turns that leave a trace, and those still to be written.
Traced == {i \in TurnsOf(DOMAIN rollout) : i < 0} \cup appServer.ids \cup quiet
DueFits ==
    /\ \E n \in Nat : /\ Traced = (0 - n)..(0 - 1)
                      /\ mine.at = "running" => mine.id \in Traced \cup {0 - n - 1}
    /\ \A k \in DOMAIN mine.due :
          /\ mine.due[k].id \in Traced \/ (mine.at = "running" /\ mine.due[k].id = mine.id)
          /\ mine.due[k].what = "start" =>
                /\ mine.due[k].id \notin StartsIn(Len(rollout))
                /\ \A l \in DOMAIN mine.due : mine.due[l] = mine.due[k] => l = k

\* A turn of ours is announced, excused, or the one that the wrapper waits for.
Asked == runAt = "turn" /\ appServer.pending /\ appServer.active
Expected ==
    appServer.ids \cup quiet
    \cup (IF mine.at = "running" /\ Asked THEN {mine.id} ELSE {})
OursAwaited ==
    /\ \A k \in DOMAIN rollout : rollout[k].id > 0 \/ rollout[k].id \in Expected
    /\ \A k \in DOMAIN mine.due : mine.due[k].id \in Expected
    /\ mine.at = "running" => mine.id \in Expected
    /\ mine.at = "sent" => Asked
    /\ runAt = "turn" /\ appServer.pending => mine.at # "none"
    /\ \A r \in cw.pending : r.id > 0 \/ r.rpc \/ r.id \in appServer.ids \cup quiet

\* Every foreign turn that has been read and not ended is followed, or given up.
Unsure == {r.id : r \in cw.pending}
Followed ==
    /\ cw.active \cup Unsure \subseteq StartsIn(cw.size)
    /\ cw.active \cap Unsure = {}
    /\ \A r, s \in cw.pending : r.id = s.id => r = s
    /\ \A r \in cw.pending : r.done => r.id \in EndsIn(cw.size)
    /\ \A i \in StartsIn(cw.size) \ EndsIn(cw.size) : i > 0 => i \in cw.active \cup Unsure \cup lost
    /\ cw.seeded \subseteq lost

\* The app-server has read what is not followed, or a reload is owed.
ServerKnows ==
    /\ appServer.up /\ ~stale =>
          TurnsOf(ForeignMarks(1..cw.size) \ appServer.known) \subseteq Unsure \cup lost
    /\ ~cw.external => cw.active = {}
    /\ gate.by = "task" /\ gate.at = "judged" /\ ~stale /\ ~cw.external => gate.holders = {}

CodexInv ==
    /\ CodexTyped /\ GateFits /\ HoldersFit /\ RolloutFits /\ DueFits /\ OursAwaited
    /\ Followed /\ ServerKnows
    /\ LaunchedAlone /\ LaunchedUpToDate /\ OursIsOurs
----------------------------------------------------------------------------
(* The rollout grows by one marker.                                          *)

LEMMA MarkAdded ==
    ASSUME rollout \in Seq(Marks), NEW m \in Marks, Logs(m)
    PROVE  /\ rollout' \in Seq(Marks) /\ Len(rollout) \in Nat /\ Len(rollout)' = Len(rollout) + 1
           /\ DOMAIN rollout = 1..Len(rollout) /\ (DOMAIN rollout)' = 1..(Len(rollout) + 1)
           /\ \A k \in 1..Len(rollout) : rollout'[k] = rollout[k]
           /\ rollout'[Len(rollout) + 1] = m
  <1>1. QED
    BY DEF Logs

LEMMA MarkOf ==
    ASSUME NEW i \in Int
    PROVE  /\ StartOf(i) \in Marks /\ StartOf(i).id = i /\ StartOf(i).what = "start"
           /\ EndOf(i) \in Marks /\ EndOf(i).id = i /\ EndOf(i).what = "end"
  <1>1. QED
    BY DEF StartOf, EndOf, Marks

LEMMA RolloutDomain ==
    ASSUME rollout \in Seq(Marks)
    PROVE  /\ Len(rollout) \in Nat /\ DOMAIN rollout = 1..Len(rollout)
           /\ \A k \in 1..Len(rollout) : /\ rollout[k] \in Marks /\ rollout[k].id \in Int
                                        /\ rollout[k].what \in {"start", "end"}
  <1>1. \A m \in Marks : m.id \in Int /\ m.what \in {"start", "end"}
    BY DEF Marks
  <1>2. Len(rollout) \in Nat /\ \A k \in 1..Len(rollout) : rollout[k] \in Marks
    OBVIOUS
  <1>3. QED
    BY <1>1, <1>2

LEMMA MarkedIn ==
    ASSUME NEW what, NEW upTo, NEW i
    PROVE  /\ i \in MarkedIds(what, upTo) <=>
                 \E k \in 1..upTo : rollout[k].what = what /\ rollout[k].id = i
           /\ i \in MarkedIds(what, upTo)' <=>
                 \E k \in 1..upTo : rollout'[k].what = what /\ rollout'[k].id = i
  <1>1. QED
    BY DEF MarkedIds

LEMMA ReadStays ==
    ASSUME rollout \in Seq(Marks), NEW m \in Marks, Logs(m), NEW u \in 0..Len(rollout)
    PROVE  /\ \A what : MarkedIds(what, u)' = MarkedIds(what, u)
           /\ \A known : TurnsOf(ForeignMarks(1..u) \ known)' = TurnsOf(ForeignMarks(1..u) \ known)
  <1>1. /\ \A k \in 1..u : rollout'[k] = rollout[k]
        /\ 1..u \cap DOMAIN rollout = 1..u /\ 1..u \cap DOMAIN rollout' = 1..u
    BY MarkAdded
  <1>2. ASSUME NEW what
        PROVE  MarkedIds(what, u)' = MarkedIds(what, u)
    BY <1>1 DEF MarkedIds
  <1>3. ASSUME NEW known
        PROVE  TurnsOf(ForeignMarks(1..u) \ known)' = TurnsOf(ForeignMarks(1..u) \ known)
    <2>1. ForeignMarks(1..u)' = ForeignMarks(1..u) /\ ForeignMarks(1..u) \subseteq 1..u
      BY <1>1 DEF ForeignMarks
    <2>2. QED
      BY <1>1, <2>1 DEF TurnsOf
  <1>4. QED
    BY <1>2, <1>3

LEMMA NewMark ==
    ASSUME rollout \in Seq(Marks), NEW m \in Marks, Logs(m)
    PROVE  /\ StartsIn(Len(rollout))' =
                 StartsIn(Len(rollout)) \cup (IF m.what = "start" THEN {m.id} ELSE {})
           /\ EndsIn(Len(rollout))' =
                 EndsIn(Len(rollout)) \cup (IF m.what = "end" THEN {m.id} ELSE {})
           /\ TurnsOf(DOMAIN rollout)' = TurnsOf(DOMAIN rollout) \cup {m.id}
           /\ TurnsOf(ForeignMarks(DOMAIN rollout))' =
                 TurnsOf(ForeignMarks(DOMAIN rollout)) \cup (IF m.id > 0 THEN {m.id} ELSE {})
  <1> DEFINE n == Len(rollout)
  <1>1. /\ n \in Nat /\ Len(rollout)' = n + 1 /\ DOMAIN rollout = 1..n
        /\ (DOMAIN rollout)' = 1..(n + 1)
        /\ \A k \in 1..n : rollout'[k] = rollout[k]
        /\ rollout'[n + 1] = m
    BY MarkAdded
  <1> HIDE DEF n
  <1>2. 1..(n + 1) = 1..n \cup {n + 1}
    BY <1>1
  <1>3. /\ StartsIn(Len(rollout))' =
              StartsIn(Len(rollout)) \cup (IF m.what = "start" THEN {m.id} ELSE {})
        /\ EndsIn(Len(rollout))' =
              EndsIn(Len(rollout)) \cup (IF m.what = "end" THEN {m.id} ELSE {})
    BY <1>1, <1>2 DEF MarkedIds, StartsIn, EndsIn, n
  <1>4. TurnsOf(DOMAIN rollout)' = TurnsOf(DOMAIN rollout) \cup {m.id}
    BY <1>1, <1>2 DEF TurnsOf
  <1>5. TurnsOf(ForeignMarks(DOMAIN rollout))' =
           TurnsOf(ForeignMarks(DOMAIN rollout)) \cup (IF m.id > 0 THEN {m.id} ELSE {})
    <2>1. ForeignMarks(DOMAIN rollout)' =
             ForeignMarks(DOMAIN rollout) \cup (IF m.id > 0 THEN {n + 1} ELSE {})
      BY <1>1, <1>2 DEF ForeignMarks
    <2>2. ForeignMarks(DOMAIN rollout) \subseteq 1..n
      BY <1>1 DEF ForeignMarks
    <2>3. QED
      BY <1>1, <2>1, <2>2 DEF TurnsOf
  <1>6. QED
    BY <1>3, <1>4, <1>5
----------------------------------------------------------------------------
(* What is not touched stays true.                                           *)

LEMMA TurnsStay ==
    ASSUME RolloutFits, UNCHANGED rollout, \A p \in Writers : procs'[p].turn \in {procs[p].turn, 0}
    PROVE  RolloutFits'
  <1>1. /\ StartsIn(Len(rollout))' = StartsIn(Len(rollout))
        /\ EndsIn(Len(rollout))' = EndsIn(Len(rollout))
    BY DEF StartsIn, EndsIn, MarkedIds
  <1>2. TurnsOf(ForeignMarks(DOMAIN rollout))' = TurnsOf(ForeignMarks(DOMAIN rollout))
    BY DEF TurnsOf, ForeignMarks
  <1>3. ASSUME NEW p \in Writers, procs'[p].turn # 0
        PROVE  /\ procs'[p].turn \in (StartsIn(Len(rollout)) \ EndsIn(Len(rollout)))'
               /\ \A o \in Writers : procs'[o].turn = procs'[p].turn => o = p
    BY <1>1, <1>3 DEF RolloutFits
  <1>4. /\ \A k, l \in DOMAIN rollout' : rollout'[l] = rollout'[k]
                 /\ (rollout'[k].what = "start" \/ rollout'[k].id > 0) => k = l
        /\ \A k \in DOMAIN rollout' : rollout'[k].what = "end" /\ rollout'[k].id > 0 =>
              \E l \in DOMAIN rollout' : l < k /\ rollout'[l] = StartOf(rollout'[k].id)
    BY DEF RolloutFits
  <1>5. QED
    BY <1>2, <1>3, <1>4 DEF RolloutFits, StartOf

LEMMA HoldersStay ==
    ASSUME CodexInv, UNCHANGED <<cw, gate, clicked>>, codexLeft'.procs \subseteq codexLeft.procs,
           \A p \in Writers : procs[p].st # "off" =>
               procs'[p].kind = procs[p].kind /\ procs'[p].st # "off",
           \A p \in codexLeft'.procs : procs'[p].st = "off"
    PROVE  HoldersFit'
  <1>1. ASSUME NEW ps \in SUBSET Writers, Ran(ps)
        PROVE  Ran(ps)' /\ Tuis(ps)' = Tuis(ps)
    BY <1>1 DEF Ran, Tuis
  <1>2. PICK a, b, c, d \in SUBSET Writers :
            a = cw.writers /\ b = cw.kept /\ c = cw.wish.writers /\ d = gate.writers
    BY DEF CodexInv, CodexTyped, CodexOwnership, Wishes, Gates
  <1>3. Ran(a) /\ Ran(b) /\ Ran(c) /\ Ran(d)
    BY <1>2 DEF CodexInv, HoldersFit
  <1>4. /\ Ran(a)' /\ Ran(b)' /\ Ran(c)' /\ Ran(d)'
        /\ Tuis(a)' = Tuis(a) /\ Tuis(b)' = Tuis(b) /\ Tuis(c)' = Tuis(c) /\ Tuis(d)' = Tuis(d)
    BY <1>1, <1>3
  <1>5. a = cw'.writers /\ b = cw'.kept /\ c = cw'.wish.writers /\ d = gate'.writers
    BY <1>2
  <1>6. QED
    BY <1>2, <1>4, <1>5 DEF CodexInv, HoldersFit

LEMMA CodexFrame ==
    ASSUME CodexInv
    PROVE  /\ UNCHANGED <<rollout, procs>> => RolloutFits'
           /\ UNCHANGED <<rollout, mine, quiet>> /\ appServer.ids' = appServer.ids => DueFits'
           /\ /\ UNCHANGED <<rollout, mine, quiet, runAt>> /\ cw.pending' = cw.pending
              /\ appServer.ids' = appServer.ids /\ appServer.pending' = appServer.pending
              /\ appServer.active' = appServer.active
              => OursAwaited'
           /\ UNCHANGED <<rollout, cw, lost>> => Followed'
           /\ /\ UNCHANGED <<rollout, cw, lost, stale>>
              /\ appServer'.up => appServer.up /\ appServer'.known = appServer.known
              /\ gate'.by = "task" /\ gate'.at = "judged" =>
                    gate.by = "task" /\ gate.at = "judged" /\ gate'.holders = gate.holders
              => ServerKnows'
           /\ UNCHANGED <<cw, gate, procs, clicked>> /\ codexLeft'.procs = codexLeft.procs
              => HoldersFit'
           /\ UNCHANGED <<rollout, cw, gate, runAt>> => GateFits'
           /\ UNCHANGED launched => LaunchedAlone'
           /\ UNCHANGED launched /\ lost \subseteq lost' => LaunchedUpToDate'
           /\ UNCHANGED <<cw, quiet>> => OursIsOurs'
  <1> USE DEF CodexInv
  <1>1. UNCHANGED <<rollout, procs>> => RolloutFits'
    BY TurnsStay DEF CodexTyped, Processes
  <1>2. UNCHANGED <<rollout, mine, quiet>> /\ appServer.ids' = appServer.ids => DueFits'
    BY DEF DueFits, Traced, StartsIn, MarkedIds, TurnsOf
  <1>3. /\ UNCHANGED <<rollout, mine, quiet, runAt>> /\ cw.pending' = cw.pending
        /\ appServer.ids' = appServer.ids /\ appServer.pending' = appServer.pending
        /\ appServer.active' = appServer.active
        => OursAwaited'
    BY DEF OursAwaited, Expected, Asked
  <1>4. UNCHANGED <<rollout, cw, lost>> => Followed'
    BY DEF Followed, Unsure, StartsIn, EndsIn, MarkedIds
  <1>5. /\ UNCHANGED <<rollout, cw, lost, stale>>
        /\ appServer'.up => appServer.up /\ appServer'.known = appServer.known
        /\ gate'.by = "task" /\ gate'.at = "judged" =>
              gate.by = "task" /\ gate.at = "judged" /\ gate'.holders = gate.holders
        => ServerKnows'
    BY DEF ServerKnows, Unsure, TurnsOf, ForeignMarks
  <1>6. UNCHANGED <<cw, gate, procs, clicked>> /\ codexLeft'.procs = codexLeft.procs => HoldersFit'
    BY DEF HoldersFit, Tuis, Ran
  <1>7. UNCHANGED <<rollout, cw, gate, runAt>> => GateFits'
    BY DEF GateFits
  <1>8. UNCHANGED launched => LaunchedAlone'
    BY DEF LaunchedAlone
  <1>9. UNCHANGED launched /\ lost \subseteq lost' => LaunchedUpToDate'
    BY DEF LaunchedUpToDate
  <1>10. UNCHANGED <<cw, quiet>> => OursIsOurs'
    BY DEF OursIsOurs
  <1>11. QED
    BY <1>1, <1>2, <1>3, <1>4, <1>5, <1>6, <1>7, <1>8, <1>9, <1>10

LEMMA OursGrow ==
    ASSUME CodexInv, UNCHANGED rollout, cw'.pending = cw.pending, Expected \subseteq Expected',
           \A k \in DOMAIN mine'.due : mine'.due[k].id \in Expected',
           mine'.at = "running" => mine'.id \in Expected', mine'.at = "sent" => Asked',
           runAt' = "turn" /\ appServer'.pending => mine'.at # "none",
           appServer.ids \subseteq appServer'.ids, quiet \subseteq quiet'
    PROVE  OursAwaited'
  <1>1. \A k \in DOMAIN rollout' : rollout'[k].id > 0 \/ rollout'[k].id \in Expected'
    BY DEF CodexInv, OursAwaited
  <1>2. \A r \in cw'.pending : r.id > 0 \/ r.rpc \/ r.id \in appServer'.ids \cup quiet'
    BY DEF CodexInv, OursAwaited
  <1>3. QED
    BY <1>1, <1>2 DEF OursAwaited

----------------------------------------------------------------------------
(* Foreign processes and their turns.                                        *)

LEMMA SpendsDoes ==
    ASSUME codexLeft \in CodexLefts, NEW what \in {"turns", "alone", "commands", "faults"},
           Spends(what)
    PROVE  codexLeft' \in CodexLefts /\ codexLeft'.procs = codexLeft.procs
  <1>1. codexLeft[what] \in Nat /\ codexLeft[what] - 1 \in Nat
    BY DEF Spends, CodexLefts
  <1>2. codexLeft' = [codexLeft EXCEPT ![what] = codexLeft[what] - 1]
    BY DEF Spends
  <1>3. QED
    BY <1>1, <1>2 DEF CodexLefts

LEMMA ProcBecomes ==
    ASSUME procs \in [Writers -> Processes], NEW p \in Writers, NEW r \in Processes,
           procs' = [procs EXCEPT ![p] = r]
    PROVE  /\ procs' \in [Writers -> Processes] /\ procs'[p] = r
           /\ \A o \in Writers : o # p => procs'[o] = procs[o]
  <1>1. QED
    OBVIOUS

LEMMA ProcStartsKeeps ==
    ASSUME CodexInv, NEW p \in Writers, ProcStarts(p)
    PROVE  CodexInv'
  <1> USE DEF CodexInv
  <1>1. /\ p \in codexLeft.procs /\ codexLeft' = [codexLeft EXCEPT !.procs = codexLeft.procs \ {p}]
        /\ UNCHANGED <<rollout, appServer, mine, cw, stale, gate, resume, cmdAt, runAt, launched,
                       clicked, lost, quiet>>
    BY DEF ProcStarts
  <1>2. PICK k \in ProcKinds : procs' = [procs EXCEPT ![p] = [procs[p] EXCEPT !.st = "on", !.kind = k]]
    BY DEF ProcStarts
  <1>3. /\ [procs[p] EXCEPT !.st = "on", !.kind = k] \in Processes
        /\ [procs[p] EXCEPT !.st = "on", !.kind = k].turn = procs[p].turn
        /\ procs[p].st = "off"
    BY <1>1 DEF CodexTyped, Processes, HoldersFit
  <1>4. /\ procs' \in [Writers -> Processes] /\ procs'[p].turn = procs[p].turn
        /\ \A o \in Writers : o # p => procs'[o] = procs[o]
    BY <1>2, <1>3, ProcBecomes DEF CodexTyped
  <1>5. codexLeft' \in CodexLefts /\ codexLeft'.procs = codexLeft.procs \ {p}
    BY <1>1 DEF CodexTyped, CodexLefts
  <1>6. CodexTyped'
    BY <1>1, <1>4, <1>5 DEF CodexTyped
  <1>7. HoldersFit'
    BY <1>1, <1>3, <1>4, <1>5, HoldersStay DEF HoldersFit, CodexTyped, CodexLefts
  <1>8. RolloutFits'
    BY <1>1, <1>4, TurnsStay
  <1>9. QED
    BY <1>1, <1>5, <1>6, <1>7, <1>8, CodexFrame

LEMMA ProcExitsKeeps ==
    ASSUME CodexInv, NEW p \in Writers, ProcExits(p)
    PROVE  CodexInv'
  <1> USE DEF CodexInv
  <1>1. /\ procs[p].st = "on" /\ procs' = [procs EXCEPT ![p] = [procs[p] EXCEPT !.st = "gone", !.turn = 0]]
        /\ UNCHANGED <<rollout, appServer, mine, cw, stale, gate, resume, cmdAt, runAt, launched,
                       clicked, lost, quiet, codexLeft>>
    BY DEF ProcExits, Alive, CodexTyped
  <1>2. /\ [procs[p] EXCEPT !.st = "gone", !.turn = 0] \in Processes
        /\ [procs[p] EXCEPT !.st = "gone", !.turn = 0].turn = 0
        /\ [procs[p] EXCEPT !.st = "gone", !.turn = 0].st = "gone"
        /\ [procs[p] EXCEPT !.st = "gone", !.turn = 0].kind = procs[p].kind
    BY DEF CodexTyped, Processes
  <1>3. /\ procs' \in [Writers -> Processes] /\ procs'[p].turn = 0
        /\ procs'[p].st = "gone" /\ procs'[p].kind = procs[p].kind
        /\ \A o \in Writers : o # p => procs'[o] = procs[o]
    BY <1>1, <1>2, ProcBecomes DEF CodexTyped
  <1>4. CodexTyped'
    BY <1>1, <1>3 DEF CodexTyped
  <1>5. HoldersFit'
    BY <1>1, <1>3, HoldersStay DEF HoldersFit, CodexTyped, CodexLefts
  <1>6. RolloutFits'
    BY <1>1, <1>3, TurnsStay
  <1>7. QED
    BY <1>1, <1>4, <1>5, <1>6, CodexFrame

LEMMA GrowthKeeps ==
    ASSUME CodexInv, NEW m \in Marks, Logs(m)
    PROVE  /\ UNCHANGED <<cw, lost>> => Followed'
           /\ /\ UNCHANGED <<cw, lost, stale, gate>> /\ appServer'.up = appServer.up
              /\ appServer.known \subseteq appServer'.known
              => ServerKnows'
           /\ UNCHANGED <<cw, gate, runAt>> => GateFits'
  <1> USE DEF CodexInv
  <1>1. PICK u \in 0..Len(rollout) : u = cw.size
    BY DEF GateFits, CodexTyped, CodexOwnership
  <1>2. rollout \in Seq(Marks)
    BY DEF CodexTyped
  <1>3. /\ StartsIn(u)' = StartsIn(u) /\ EndsIn(u)' = EndsIn(u)
        /\ \A known : TurnsOf(ForeignMarks(1..u) \ known)' = TurnsOf(ForeignMarks(1..u) \ known)
    BY <1>2, ReadStays DEF StartsIn, EndsIn
  <1>4. UNCHANGED <<cw, lost>> => Followed'
    <2>1. ASSUME UNCHANGED <<cw, lost>>
          PROVE  Followed'
      <3>1. StartsIn(cw.size)' = StartsIn(cw.size) /\ EndsIn(cw.size)' = EndsIn(cw.size)
        BY <1>1, <1>3, <2>1
      <3>2. QED
        BY <2>1, <3>1 DEF Followed, Unsure
    <2>2. QED
      BY <2>1
  <1>5. /\ UNCHANGED <<cw, lost, stale, gate>> /\ appServer'.up = appServer.up
        /\ appServer.known \subseteq appServer'.known
        => ServerKnows'
    <2>1. ASSUME UNCHANGED <<cw, lost, stale, gate>>, appServer'.up = appServer.up,
                 appServer.known \subseteq appServer'.known
          PROVE  ServerKnows'
      <3>1. PICK known : known = appServer'.known
        OBVIOUS
      <3>2. TurnsOf(ForeignMarks(1..cw.size) \ appServer.known)'
               \subseteq TurnsOf(ForeignMarks(1..cw.size) \ appServer.known)
        <4>1. TurnsOf(ForeignMarks(1..cw.size) \ appServer.known)' = TurnsOf(ForeignMarks(1..u) \ known)
          <5>1. TurnsOf(ForeignMarks(1..cw.size) \ appServer.known)'
                   = TurnsOf(ForeignMarks(1..u) \ known)'
            BY <1>1, <2>1, <3>1
          <5>2. QED
            BY <1>3, <5>1
        <4>2. QED
          BY <1>1, <2>1, <3>1, <4>1 DEF TurnsOf
      <3>3. QED
        BY <2>1, <3>2 DEF ServerKnows, Unsure
    <2>2. QED
      BY <2>1
  <1>6. UNCHANGED <<cw, gate, runAt>> => GateFits'
    BY <1>2, MarkAdded DEF GateFits, CodexTyped, CodexOwnership, Gates
  <1>7. QED
    BY <1>4, <1>5, <1>6

LEMMA ForeignLogs ==
    ASSUME CodexInv, NEW m \in Marks, m.id > 0, Logs(m),
           UNCHANGED <<appServer, mine, cw, stale, gate, runAt, lost, quiet>>
    PROVE  DueFits' /\ OursAwaited' /\ Followed' /\ ServerKnows' /\ GateFits'
  <1> USE DEF CodexInv
  <1>1. rollout \in Seq(Marks) /\ m.id \in Int
    BY DEF CodexTyped, Marks
  <1>2. /\ StartsIn(Len(rollout))' \subseteq StartsIn(Len(rollout)) \cup {m.id}
        /\ TurnsOf(DOMAIN rollout)' = TurnsOf(DOMAIN rollout) \cup {m.id}
    BY <1>1, NewMark
  <1>3. Traced' = Traced
    BY <1>1, <1>2 DEF Traced
  <1>4. DueFits'
    <2>1. PICK n \in Nat : Traced = (0 - n)..(0 - 1) /\ (mine.at = "running" => mine.id \in Traced \cup {0 - n - 1})
      BY DEF DueFits
    <2>2. \A k \in DOMAIN mine.due : mine.due[k].id < 0
      BY <2>1 DEF DueFits
    <2>3. \A k \in DOMAIN mine.due : mine.due[k].what = "start" =>
                mine.due[k].id \notin StartsIn(Len(rollout))'
      BY <1>1, <1>2, <2>2 DEF DueFits
    <2>4. \E k \in Nat : /\ Traced' = (0 - k)..(0 - 1)
                         /\ mine'.at = "running" => mine'.id \in Traced' \cup {0 - k - 1}
      BY <1>3, <2>1
    <2>5. QED
      BY <1>3, <2>3, <2>4 DEF DueFits
  <1>5. OursAwaited'
    <2>1. \A k \in DOMAIN rollout' : rollout'[k].id > 0 \/ (k \in DOMAIN rollout /\ rollout'[k] = rollout[k])
      BY <1>1, MarkAdded
    <2>2. QED
      BY <2>1 DEF OursAwaited, Expected, Asked
  <1>6. QED
    BY <1>4, <1>5, GrowthKeeps

LEMMA ForeignStartsKeeps ==
    ASSUME CodexInv, NEW p \in Writers, ForeignStarts(p)
    PROVE  CodexInv'
  <1> USE DEF CodexInv
  <1> DEFINE id == 1 + Cardinality(TurnsOf(ForeignMarks(DOMAIN rollout)))
  <1>1. PICK n \in Nat : TurnsOf(ForeignMarks(DOMAIN rollout)) = 1..n
    BY DEF RolloutFits
  <1>2. PICK i \in Nat : i = id /\ i = n + 1
    <2>1. Cardinality(1..n) = n
      BY FS_Interval
    <2>2. QED
      BY <1>1, <2>1
  <1>3. /\ Logs(StartOf(i)) /\ procs[p].turn = 0
        /\ codexLeft' \in CodexLefts /\ codexLeft'.procs = codexLeft.procs
        /\ UNCHANGED <<appServer, mine, cw, stale, gate, resume, cmdAt, runAt, launched, clicked,
                       lost, quiet>>
    BY <1>2, SpendsDoes DEF ForeignStarts, CodexTyped
  <1>4. procs' = [procs EXCEPT ![p] = [procs[p] EXCEPT !.turn = i]]
    BY <1>2 DEF ForeignStarts, CodexTyped
  <1>5. PICK m \in Marks : m = StartOf(i) /\ m.id = i /\ m.what = "start" /\ m.id > 0
    BY <1>2, MarkOf
  <1>6. /\ [procs[p] EXCEPT !.turn = i] \in Processes /\ [procs[p] EXCEPT !.turn = i].turn = i
        /\ [procs[p] EXCEPT !.turn = i].st = procs[p].st
        /\ [procs[p] EXCEPT !.turn = i].kind = procs[p].kind
    BY DEF CodexTyped, Processes
  <1>7. /\ procs' \in [Writers -> Processes] /\ procs'[p].turn = i
        /\ procs'[p].st = procs[p].st /\ procs'[p].kind = procs[p].kind
        /\ \A o \in Writers : o # p => procs'[o] = procs[o]
    BY <1>4, <1>6, ProcBecomes DEF CodexTyped
  <1>8. rollout \in Seq(Marks) /\ Logs(m)
    BY <1>3, <1>5 DEF CodexTyped
  <1>9. /\ rollout' \in Seq(Marks) /\ Len(rollout) \in Nat /\ DOMAIN rollout = 1..Len(rollout)
        /\ (DOMAIN rollout)' = 1..(Len(rollout) + 1)
        /\ \A k \in 1..Len(rollout) : rollout'[k] = rollout[k]
        /\ rollout'[Len(rollout) + 1] = m
    BY <1>8, MarkAdded
  <1>10. CodexTyped'
    BY <1>3, <1>7, <1>9 DEF CodexTyped
  <1>11. HoldersFit'
    BY <1>3, <1>7, HoldersStay DEF HoldersFit, CodexTyped, CodexLefts
  <1>12. \A k \in 1..Len(rollout) : rollout[k].id # i
    <2>1. ASSUME NEW k \in 1..Len(rollout), rollout[k].id = i
          PROVE  FALSE
      <3>1. k \in ForeignMarks(DOMAIN rollout)
        BY <1>2, <1>9, <2>1 DEF ForeignMarks
      <3>2. i \in TurnsOf(ForeignMarks(DOMAIN rollout))
        BY <2>1, <3>1 DEF TurnsOf
      <3>3. QED
        BY <1>1, <1>2, <3>2
    <2>2. QED
      BY <2>1
  <1>13. RolloutFits'
    <2>1. /\ \A k, l \in DOMAIN rollout' : rollout'[l] = rollout'[k]
                 /\ (rollout'[k].what = "start" \/ rollout'[k].id > 0) => k = l
          /\ \A k \in DOMAIN rollout' : rollout'[k].what = "end" /\ rollout'[k].id > 0 =>
                \E l \in DOMAIN rollout' : l < k /\ rollout'[l] = StartOf(rollout'[k].id)
      <3>1. \A k \in DOMAIN rollout' : k = Len(rollout) + 1 \/ k \in DOMAIN rollout
        BY <1>9
      <3>2. ASSUME NEW k \in DOMAIN rollout', NEW l \in DOMAIN rollout', rollout'[l] = rollout'[k],
                   rollout'[k].what = "start" \/ rollout'[k].id > 0
            PROVE  k = l
        BY <1>5, <1>9, <1>12, <3>1, <3>2 DEF RolloutFits
      <3>3. ASSUME NEW k \in DOMAIN rollout', rollout'[k].what = "end", rollout'[k].id > 0
            PROVE  \E l \in DOMAIN rollout' : l < k /\ rollout'[l] = StartOf(rollout'[k].id)
        <4>1. k \in DOMAIN rollout /\ rollout'[k] = rollout[k]
          BY <1>5, <1>9, <3>1, <3>3
        <4>2. PICK l \in DOMAIN rollout : l < k /\ rollout[l] = StartOf(rollout[k].id)
          BY <3>3, <4>1 DEF RolloutFits
        <4>3. QED
          BY <1>9, <4>1, <4>2
      <3>4. QED
        BY <3>2, <3>3
    <2>2. \E k \in Nat : TurnsOf(ForeignMarks(DOMAIN rollout))' = 1..k
      <3>1. TurnsOf(ForeignMarks(DOMAIN rollout))' = 1..n \cup {i}
        BY <1>1, <1>5, <1>8, NewMark
      <3>2. n + 1 \in Nat /\ 1..n \cup {i} = 1..(n + 1)
        BY <1>2
      <3>3. QED
        BY <3>1, <3>2
    <2>3. /\ StartsIn(Len(rollout))' = StartsIn(Len(rollout)) \cup {i}
          /\ EndsIn(Len(rollout))' = EndsIn(Len(rollout))
      BY <1>5, <1>8, NewMark
    <2>4. i \notin StartsIn(Len(rollout)) /\ i \notin EndsIn(Len(rollout))
      BY <1>12, MarkedIn DEF StartsIn, EndsIn
    <2>5. ASSUME NEW q \in Writers, procs'[q].turn # 0
          PROVE  /\ procs'[q].turn \in (StartsIn(Len(rollout)) \ EndsIn(Len(rollout)))'
                 /\ \A o \in Writers : procs'[o].turn = procs'[q].turn => o = q
      <3>1. CASE q = p
        <4>1. \A o \in Writers : o # p => procs[o].turn # i
          BY <1>2, <2>4 DEF RolloutFits
        <4>2. QED
          BY <1>7, <2>3, <2>4, <3>1, <4>1
      <3>2. CASE q # p
        <4>1. procs[q].turn \in StartsIn(Len(rollout)) \ EndsIn(Len(rollout))
              /\ procs[q].turn # i /\ procs'[q] = procs[q]
              /\ \A o \in Writers : procs[o].turn = procs[q].turn => o = q
          BY <1>7, <2>4, <2>5, <3>2 DEF RolloutFits
        <4>2. QED
          BY <1>7, <2>3, <4>1
      <3>3. QED
        BY <3>1, <3>2
    <2>6. QED
      BY <2>1, <2>2, <2>5 DEF RolloutFits, StartOf
  <1>14. DueFits' /\ OursAwaited' /\ Followed' /\ ServerKnows' /\ GateFits'
    BY <1>3, <1>5, <1>8, ForeignLogs
  <1>15. QED
    BY <1>3, <1>10, <1>11, <1>13, <1>14, CodexFrame

LEMMA ForeignEndsKeeps ==
    ASSUME CodexInv, NEW p \in Writers, ForeignEnds(p)
    PROVE  CodexInv'
  <1> USE DEF CodexInv
  <1>1. PICK i \in Nat : i = procs[p].turn /\ i # 0
    BY DEF ForeignEnds, CodexTyped, Processes
  <1>2. /\ Logs(EndOf(i)) /\ procs' = [procs EXCEPT ![p] = [procs[p] EXCEPT !.turn = 0]]
        /\ UNCHANGED <<appServer, mine, cw, stale, gate, resume, cmdAt, runAt, launched, clicked,
                       lost, quiet, codexLeft>>
    BY <1>1 DEF ForeignEnds, CodexTyped
  <1>3. PICK m \in Marks : m = EndOf(i) /\ m.id = i /\ m.what = "end" /\ m.id > 0
    BY <1>1, MarkOf
  <1>4. /\ [procs[p] EXCEPT !.turn = 0] \in Processes /\ [procs[p] EXCEPT !.turn = 0].turn = 0
        /\ [procs[p] EXCEPT !.turn = 0].st = procs[p].st
        /\ [procs[p] EXCEPT !.turn = 0].kind = procs[p].kind
    BY DEF CodexTyped, Processes
  <1>5. /\ procs' \in [Writers -> Processes] /\ procs'[p].turn = 0
        /\ procs'[p].st = procs[p].st /\ procs'[p].kind = procs[p].kind
        /\ \A o \in Writers : o # p => procs'[o] = procs[o]
    BY <1>2, <1>4, ProcBecomes DEF CodexTyped
  <1>6. rollout \in Seq(Marks) /\ Logs(m)
    BY <1>2, <1>3 DEF CodexTyped
  <1>7. /\ rollout' \in Seq(Marks) /\ Len(rollout) \in Nat /\ DOMAIN rollout = 1..Len(rollout)
        /\ (DOMAIN rollout)' = 1..(Len(rollout) + 1)
        /\ \A k \in 1..Len(rollout) : rollout'[k] = rollout[k]
        /\ rollout'[Len(rollout) + 1] = m
    BY <1>6, MarkAdded
  <1>8. CodexTyped'
    BY <1>2, <1>5, <1>7 DEF CodexTyped
  <1>9. HoldersFit'
    BY <1>2, <1>5, HoldersStay DEF HoldersFit, CodexTyped, CodexLefts
  <1>10. i \in StartsIn(Len(rollout)) /\ i \notin EndsIn(Len(rollout))
    BY <1>1 DEF RolloutFits
  <1>11. PICK s \in 1..Len(rollout) : rollout[s] = StartOf(i)
    <2>1. PICK s \in 1..Len(rollout) : rollout[s].what = "start" /\ rollout[s].id = i
      BY <1>10, MarkedIn DEF StartsIn
    <2>2. rollout[s] \in Marks
      BY <1>6, <1>7
    <2>3. rollout[s] = [what |-> rollout[s].what, id |-> rollout[s].id]
      BY <2>2 DEF Marks
    <2>4. QED
      BY <2>1, <2>3 DEF StartOf
  <1>12. \A k \in 1..Len(rollout) : rollout[k] # m
    BY <1>3, <1>10, MarkedIn DEF EndsIn
  <1>13. RolloutFits'
    <2>1. /\ \A k, l \in DOMAIN rollout' : rollout'[l] = rollout'[k]
                 /\ (rollout'[k].what = "start" \/ rollout'[k].id > 0) => k = l
          /\ \A k \in DOMAIN rollout' : rollout'[k].what = "end" /\ rollout'[k].id > 0 =>
                \E l \in DOMAIN rollout' : l < k /\ rollout'[l] = StartOf(rollout'[k].id)
      <3>1. \A k \in DOMAIN rollout' : k = Len(rollout) + 1 \/ k \in DOMAIN rollout
        BY <1>7
      <3>2. ASSUME NEW k \in DOMAIN rollout', NEW l \in DOMAIN rollout', rollout'[l] = rollout'[k],
                   rollout'[k].what = "start" \/ rollout'[k].id > 0
            PROVE  k = l
        BY <1>7, <1>12, <3>1, <3>2 DEF RolloutFits
      <3>3. ASSUME NEW k \in DOMAIN rollout', rollout'[k].what = "end", rollout'[k].id > 0
            PROVE  \E l \in DOMAIN rollout' : l < k /\ rollout'[l] = StartOf(rollout'[k].id)
        <4>1. CASE k = Len(rollout) + 1
          BY <1>3, <1>7, <1>11, <4>1
        <4>2. CASE k \in DOMAIN rollout
          <5>1. PICK l \in DOMAIN rollout : l < k /\ rollout[l] = StartOf(rollout[k].id)
            BY <1>7, <3>3, <4>2 DEF RolloutFits
          <5>2. QED
            BY <1>7, <4>2, <5>1
        <4>3. QED
          BY <3>1, <4>1, <4>2
      <3>4. QED
        BY <3>2, <3>3
    <2>2. \E k \in Nat : TurnsOf(ForeignMarks(DOMAIN rollout))' = 1..k
      <3>1. PICK n \in Nat : TurnsOf(ForeignMarks(DOMAIN rollout)) = 1..n
        BY DEF RolloutFits
      <3>2. i \in TurnsOf(ForeignMarks(DOMAIN rollout))
        <4>1. rollout[s].id = i /\ s \in ForeignMarks(DOMAIN rollout)
          BY <1>1, <1>7, <1>11 DEF StartOf, ForeignMarks
        <4>2. QED
          BY <4>1 DEF TurnsOf
      <3>3. TurnsOf(ForeignMarks(DOMAIN rollout))' = 1..n \cup {i}
        BY <1>3, <1>6, <3>1, NewMark
      <3>4. QED
        BY <3>1, <3>2, <3>3
    <2>3. /\ StartsIn(Len(rollout))' = StartsIn(Len(rollout))
          /\ EndsIn(Len(rollout))' = EndsIn(Len(rollout)) \cup {i}
      BY <1>3, <1>6, NewMark
    <2>4. ASSUME NEW q \in Writers, procs'[q].turn # 0
          PROVE  /\ procs'[q].turn \in (StartsIn(Len(rollout)) \ EndsIn(Len(rollout)))'
                 /\ \A o \in Writers : procs'[o].turn = procs'[q].turn => o = q
      <3>1. q # p /\ procs'[q] = procs[q] /\ procs[q].turn # i
        BY <1>1, <1>5, <2>4 DEF RolloutFits
      <3>2. /\ procs[q].turn \in StartsIn(Len(rollout)) \ EndsIn(Len(rollout))
            /\ \A o \in Writers : procs[o].turn = procs[q].turn => o = q
        BY <2>4, <3>1 DEF RolloutFits
      <3>3. QED
        BY <1>5, <2>3, <2>4, <3>1, <3>2
    <2>5. QED
      BY <2>1, <2>2, <2>4 DEF RolloutFits, StartOf
  <1>14. DueFits' /\ OursAwaited' /\ Followed' /\ ServerKnows' /\ GateFits'
    BY <1>2, <1>3, <1>6, ForeignLogs
  <1>15. QED
    BY <1>2, <1>8, <1>9, <1>13, <1>14, CodexFrame

----------------------------------------------------------------------------
(* Our app-server.                                                           *)

LEMMA DueAdded ==
    ASSUME mine \in Turns, NEW m \in Marks
    PROVE  /\ Append(mine.due, m) \in Seq(Marks)
           /\ Len(mine.due) \in Nat /\ DOMAIN mine.due = 1..Len(mine.due)
           /\ DOMAIN Append(mine.due, m) = 1..(Len(mine.due) + 1)
           /\ \A k \in 1..Len(mine.due) : Append(mine.due, m)[k] = mine.due[k]
           /\ Append(mine.due, m)[Len(mine.due) + 1] = m
  <1>1. mine.due \in Seq(Marks)
    BY DEF Turns
  <1>2. QED
    BY <1>1

LEMMA NextIsFree ==
    ASSUME CodexInv, mine.at # "running"
    PROVE  \E n \in Nat : /\ Traced = (0 - n)..(0 - 1) /\ NextMine = 0 - n - 1
                          /\ \A k \in DOMAIN mine.due : mine.due[k].id \in Traced
  <1> USE DEF CodexInv
  <1>1. PICK n \in Nat : Traced = (0 - n)..(0 - 1)
    BY DEF DueFits
  <1>2. \A k \in DOMAIN mine.due : mine.due[k].id \in Traced
    BY DEF DueFits
  <1>3. OurIds = Traced
    BY <1>2 DEF OurIds, Traced
  <1>4. Cardinality((0 - n)..(0 - 1)) = n
    <2>1. 0 - n \in Int /\ 0 - 1 \in Int
      OBVIOUS
    <2>2. Cardinality((0 - n)..(0 - 1)) = IF 0 - n > 0 - 1 THEN 0 ELSE (0 - 1) - (0 - n) + 1
      BY <2>1, FS_Interval
    <2>3. QED
      BY <2>2
  <1>5. NextMine = 0 - n - 1
    <2>1. NextMine = 0 - 1 - n
      BY <1>1, <1>3, <1>4 DEF NextMine
    <2>2. 0 - 1 - n = 0 - n - 1
      OBVIOUS
    <2>3. QED
      BY <2>1, <2>2
  <1>6. QED
    BY <1>1, <1>2, <1>5, Zenon

LEMMA BegunFits ==
    ASSUME CodexInv, mine.at # "running", mine' = Begun, UNCHANGED <<rollout, appServer>>,
           quiet' \in {quiet, quiet \cup {NextMine}}
    PROVE  /\ mine' \in Turns /\ quiet' \subseteq Int /\ DueFits' /\ NextMine < 0
           /\ mine'.at = "running" /\ mine'.id = NextMine
           /\ \A k \in DOMAIN mine'.due : \/ k \in DOMAIN mine.due /\ mine'.due[k] = mine.due[k]
                                          \/ mine'.due[k].id = NextMine
  <1> USE DEF CodexInv
  <1>1. PICK n \in Nat : /\ Traced = (0 - n)..(0 - 1) /\ NextMine = 0 - n - 1
                         /\ \A k \in DOMAIN mine.due : mine.due[k].id \in Traced
    BY NextIsFree
  <1>2. PICK i \in Int : i = NextMine /\ i = 0 - n - 1
    BY <1>1
  <1>3. PICK m \in Marks : m = StartOf(i) /\ m.id = i /\ m.what = "start"
    BY MarkOf
  <1>4. mine' = [id |-> i, at |-> "running", due |-> Append(mine.due, m)]
    BY <1>2, <1>3 DEF Begun
  <1>5. /\ mine' \in Turns /\ mine'.at = "running" /\ mine'.id = i
        /\ mine'.due = Append(mine.due, m)
    BY <1>4, DueAdded DEF CodexTyped, Turns
  <1>6. /\ Len(mine.due) \in Nat /\ DOMAIN mine.due = 1..Len(mine.due)
        /\ DOMAIN mine'.due = 1..(Len(mine.due) + 1)
        /\ \A k \in 1..Len(mine.due) : mine'.due[k] = mine.due[k]
        /\ mine'.due[Len(mine.due) + 1] = m
    BY <1>5, DueAdded DEF CodexTyped
  <1>7. Traced' = Traced \/ Traced' = Traced \cup {i}
    <2>1. TurnsOf(DOMAIN rollout)' = TurnsOf(DOMAIN rollout)
      BY DEF TurnsOf
    <2>2. quiet' = quiet \/ quiet' = quiet \cup {i}
      BY <1>2
    <2>3. QED
      BY <2>1, <2>2 DEF Traced
  <1>8. PICK k \in Nat : /\ Traced' = (0 - k)..(0 - 1)
                         /\ i \in Traced' \cup {0 - k - 1}
    <2>1. CASE Traced' = Traced
      BY <1>1, <1>2, <2>1
    <2>2. CASE Traced' = Traced \cup {i}
      <3>1. n + 1 \in Nat /\ Traced' = (0 - (n + 1))..(0 - 1)
        BY <1>1, <1>2, <2>2
      <3>2. QED
        BY <2>2, <3>1
    <2>3. QED
      BY <1>7, <2>1, <2>2
  <1>9. Traced \subseteq Traced' /\ StartsIn(Len(rollout))' = StartsIn(Len(rollout))
    BY <1>7 DEF StartsIn, MarkedIds
  <1>10. i \notin StartsIn(Len(rollout))
    <2>1. \A j \in StartsIn(Len(rollout)) : j < 0 => j \in Traced
      <3>1. StartsIn(Len(rollout)) \subseteq TurnsOf(DOMAIN rollout)
        BY RolloutDomain DEF CodexTyped, StartsIn, MarkedIds, TurnsOf
      <3>2. QED
        BY <3>1 DEF Traced
    <2>2. QED
      BY <1>1, <1>2, <2>1
  <1>11. ASSUME NEW d \in DOMAIN mine'.due
         PROVE  /\ mine'.due[d].id \in Traced' \/ mine'.due[d].id = i
                /\ mine'.due[d].what = "start" =>
                      /\ mine'.due[d].id \notin StartsIn(Len(rollout))'
                      /\ \A l \in DOMAIN mine'.due : mine'.due[l] = mine'.due[d] => l = d
    <2>1. \A l \in 1..Len(mine.due) : mine.due[l].id # i
      BY <1>1, <1>2, <1>6
    <2>2. CASE d = Len(mine.due) + 1
      <3>1. \A l \in DOMAIN mine'.due : mine'.due[l] = m => l = d
        BY <1>3, <1>6, <2>1, <2>2
      <3>2. QED
        BY <1>3, <1>6, <1>9, <1>10, <2>2, <3>1
    <2>3. CASE d \in 1..Len(mine.due)
      <3>1. mine'.due[d] = mine.due[d] /\ mine.due[d].id \in Traced /\ mine.due[d] # m
        BY <1>1, <1>3, <1>6, <2>1, <2>3
      <3>2. mine.due[d].what = "start" =>
               /\ mine.due[d].id \notin StartsIn(Len(rollout))
               /\ \A l \in DOMAIN mine.due : mine.due[l] = mine.due[d] => l = d
        BY <1>6, <2>3 DEF DueFits
      <3>3. \A l \in DOMAIN mine'.due : l \in DOMAIN mine.due \/ l = Len(mine.due) + 1
        BY <1>6
      <3>4. QED
        BY <1>6, <1>9, <3>1, <3>2, <3>3
    <2>4. QED
      BY <1>6, <2>2, <2>3
  <1>12. DueFits'
    BY <1>5, <1>8, <1>11 DEF DueFits
  <1>13. \A d \in DOMAIN mine'.due : \/ d \in DOMAIN mine.due /\ mine'.due[d] = mine.due[d]
                                     \/ mine'.due[d].id = i
    <2>1. \A d \in DOMAIN mine'.due : d \in DOMAIN mine.due \/ d = Len(mine.due) + 1
      BY <1>6
    <2>2. QED
      BY <1>3, <1>6, <2>1
  <1>14. quiet' \subseteq Int
    BY <1>2 DEF CodexTyped
  <1>15. QED
    BY <1>1, <1>2, <1>5, <1>12, <1>13, <1>14

LEMMA ServerBeginsKeeps ==
    ASSUME CodexInv, ServerBegins
    PROVE  CodexInv'
  <1> USE DEF CodexInv
  <1>1. /\ mine.at = "sent" /\ mine' = Begun
        /\ UNCHANGED <<procs, rollout, appServer, cw, stale, gate, resume, cmdAt, runAt, launched,
                       clicked, lost, quiet, codexLeft>>
    BY DEF ServerBegins
  <1>2. /\ mine' \in Turns /\ DueFits' /\ mine'.at = "running"
        /\ \A k \in DOMAIN mine'.due : \/ k \in DOMAIN mine.due /\ mine'.due[k] = mine.due[k]
                                       \/ mine'.due[k].id = mine'.id
    BY <1>1, BegunFits
  <1>3. CodexTyped'
    BY <1>1, <1>2 DEF CodexTyped
  <1>4. OursAwaited'
    <2>1. Asked /\ Asked' /\ Expected = appServer.ids \cup quiet
      BY <1>1 DEF OursAwaited, Expected, Asked
    <2>2. Expected' = Expected \cup {mine'.id}
      BY <1>1, <1>2, <2>1 DEF Expected
    <2>3. \A k \in DOMAIN mine'.due : mine'.due[k].id \in Expected'
      BY <1>2, <2>2 DEF OursAwaited
    <2>4. QED
      BY <1>1, <1>2, <2>2, <2>3, OursGrow
  <1>5. QED
    BY <1>1, <1>2, <1>3, <1>4, CodexFrame

LEMMA ServerBeginsAloneKeeps ==
    ASSUME CodexInv, ServerBeginsAlone
    PROVE  CodexInv'
  <1> USE DEF CodexInv
  <1>1. /\ mine.at = "none" /\ mine' = Begun /\ quiet' = quiet \cup {NextMine}
        /\ codexLeft' \in CodexLefts /\ codexLeft'.procs = codexLeft.procs
        /\ UNCHANGED <<procs, rollout, appServer, cw, stale, gate, resume, cmdAt, runAt, launched,
                       clicked, lost>>
    BY SpendsDoes DEF ServerBeginsAlone, CodexTyped
  <1>2. /\ mine' \in Turns /\ quiet' \subseteq Int /\ DueFits'
        /\ mine'.at = "running" /\ mine'.id = NextMine
        /\ \A k \in DOMAIN mine'.due : \/ k \in DOMAIN mine.due /\ mine'.due[k] = mine.due[k]
                                       \/ mine'.due[k].id = NextMine
    BY <1>1, BegunFits
  <1>3. CodexTyped'
    BY <1>1, <1>2 DEF CodexTyped
  <1>4. OursAwaited'
    <2>1. Expected = appServer.ids \cup quiet /\ Expected \cup {NextMine} \subseteq Expected'
      BY <1>1, <1>2 DEF Expected
    <2>2. \A k \in DOMAIN mine'.due : mine'.due[k].id \in Expected'
      BY <1>2, <2>1 DEF OursAwaited
    <2>3. QED
      BY <1>1, <1>2, <2>1, <2>2, OursGrow
  <1>5. OursIsOurs'
    BY <1>1 DEF OursIsOurs
  <1>6. QED
    BY <1>1, <1>2, <1>3, <1>4, <1>5, CodexFrame

LEMMA ServerLogsKeeps ==
    ASSUME CodexInv, ServerLogs
    PROVE  CodexInv'
  <1> USE DEF CodexInv
  <1>1. /\ mine.due # <<>> /\ Logs(Head(mine.due))
        /\ mine' = [mine EXCEPT !.due = Tail(mine.due)]
        /\ appServer' = [appServer EXCEPT !.known = appServer.known \cup {Len(rollout) + 1}]
        /\ UNCHANGED <<procs, cw, stale, gate, resume, cmdAt, runAt, launched, clicked, lost,
                       quiet, codexLeft>>
    BY DEF ServerLogs
  <1>2. mine.due \in Seq(Marks) /\ rollout \in Seq(Marks) /\ Len(mine.due) \in Nat
    BY DEF CodexTyped, Turns
  <1>3. /\ Head(mine.due) \in Marks /\ Head(mine.due) = mine.due[1] /\ 1 \in DOMAIN mine.due
        /\ Tail(mine.due) \in Seq(Marks) /\ DOMAIN Tail(mine.due) = 1..(Len(mine.due) - 1)
        /\ \A k \in 1..(Len(mine.due) - 1) : Tail(mine.due)[k] = mine.due[k + 1]
        /\ DOMAIN mine.due = 1..Len(mine.due)
    BY <1>1, <1>2
  <1>4. PICK m \in Marks : m = Head(mine.due) /\ m = mine.due[1] /\ m.id \in Int
    BY <1>3 DEF Marks
  <1>5. /\ mine' \in Turns /\ mine'.id = mine.id /\ mine'.at = mine.at
        /\ mine'.due = Tail(mine.due)
    BY <1>1, <1>3 DEF CodexTyped, Turns
  <1>6. Logs(m)
    BY <1>1, <1>4
  <1>7. /\ rollout' \in Seq(Marks) /\ Len(rollout) \in Nat /\ Len(rollout) + 1 \in Nat
        /\ DOMAIN rollout = 1..Len(rollout)
        /\ (DOMAIN rollout)' = 1..(Len(rollout) + 1)
        /\ \A k \in 1..Len(rollout) : rollout'[k] = rollout[k]
        /\ rollout'[Len(rollout) + 1] = m
    BY <1>2, <1>6, MarkAdded
  <1>8. /\ appServer' \in Servers /\ appServer'.up = appServer.up /\ appServer'.ids = appServer.ids
        /\ appServer'.pending = appServer.pending /\ appServer'.active = appServer.active
        /\ appServer.known \subseteq appServer'.known
    BY <1>1, <1>7 DEF CodexTyped, Servers
  <1>9. CodexTyped'
    BY <1>1, <1>5, <1>7, <1>8 DEF CodexTyped
  <1>10. /\ StartsIn(Len(rollout))' =
               StartsIn(Len(rollout)) \cup (IF m.what = "start" THEN {m.id} ELSE {})
         /\ EndsIn(Len(rollout))' =
               EndsIn(Len(rollout)) \cup (IF m.what = "end" THEN {m.id} ELSE {})
         /\ TurnsOf(DOMAIN rollout)' = TurnsOf(DOMAIN rollout) \cup {m.id}
         /\ TurnsOf(ForeignMarks(DOMAIN rollout))' =
               TurnsOf(ForeignMarks(DOMAIN rollout)) \cup (IF m.id > 0 THEN {m.id} ELSE {})
    BY <1>2, <1>6, NewMark
  <1>11. PICK n \in Nat : /\ Traced = (0 - n)..(0 - 1)
                          /\ mine.at = "running" => mine.id \in Traced \cup {0 - n - 1}
    BY DEF DueFits
  <1>12. m.id < 0 /\ (m.id \in Traced \/ (mine.at = "running" /\ m.id = mine.id /\ m.id = 0 - n - 1))
    BY <1>3, <1>4, <1>11 DEF DueFits
  <1>13. m.what = "start" => m.id \notin StartsIn(Len(rollout))
    BY <1>3, <1>4 DEF DueFits
  <1>14. DueFits'
    <2>1. Traced' = Traced \cup {m.id}
      BY <1>1, <1>8, <1>10, <1>12 DEF Traced
    <2>2. \E k \in Nat : /\ Traced' = (0 - k)..(0 - 1)
                         /\ mine'.at = "running" => mine'.id \in Traced' \cup {0 - k - 1}
      <3>1. CASE m.id \in Traced
        <4>1. Traced' = Traced
          BY <2>1, <3>1
        <4>2. QED
          BY <1>5, <1>11, <4>1
      <3>2. CASE m.id \notin Traced
        <4>1. n + 1 \in Nat /\ Traced' = (0 - (n + 1))..(0 - 1) /\ mine'.id \in Traced'
          BY <1>5, <1>11, <1>12, <2>1, <3>2
        <4>2. QED
          BY <4>1
      <3>3. QED
        BY <3>1, <3>2
    <2>3. ASSUME NEW k \in DOMAIN mine'.due
          PROVE  /\ mine'.due[k].id \in Traced' \/ (mine'.at = "running" /\ mine'.due[k].id = mine'.id)
                 /\ mine'.due[k].what = "start" =>
                       /\ mine'.due[k].id \notin StartsIn(Len(rollout))'
                       /\ \A l \in DOMAIN mine'.due : mine'.due[l] = mine'.due[k] => l = k
      <3>1. /\ k + 1 \in DOMAIN mine.due /\ mine'.due[k] = mine.due[k + 1] /\ k + 1 # 1
        BY <1>2, <1>3, <1>5, <2>3
      <3>2. mine'.due[k].what = "start" => \A l \in DOMAIN mine.due : mine.due[l] = mine'.due[k] => l = k + 1
        BY <3>1 DEF DueFits
      <3>3. mine'.due[k].what = "start" => \A l \in DOMAIN mine'.due : mine'.due[l] = mine'.due[k] => l = k
        <4>1. \A l \in DOMAIN mine'.due : l + 1 \in DOMAIN mine.due /\ mine'.due[l] = mine.due[l + 1] /\ l \in Nat
          BY <1>2, <1>3, <1>5
        <4>2. \A l \in Nat : l + 1 = k + 1 => l = k
          BY <4>1
        <4>3. QED
          BY <3>2, <4>1, <4>2
      <3>4. mine'.due[k].what = "start" =>
               mine'.due[k].id \notin StartsIn(Len(rollout)) /\ mine'.due[k] # m
        BY <1>3, <1>4, <3>1, <3>2 DEF DueFits
      <3>5. mine'.due[k].what = "start" /\ m.what = "start" => mine'.due[k].id # m.id
        <4>1. mine'.due[k] \in Marks
          BY <1>2, <1>3, <3>1
        <4>2. QED
          BY <3>4, <4>1 DEF Marks
      <3>6. mine'.due[k].what = "start" => mine'.due[k].id \notin StartsIn(Len(rollout))'
        BY <1>10, <3>4, <3>5
      <3>7. mine'.due[k].id \in Traced' \/ (mine'.at = "running" /\ mine'.due[k].id = mine'.id)
        BY <1>5, <2>1, <3>1 DEF DueFits
      <3>8. QED
        BY <3>3, <3>6, <3>7
    <2>4. QED
      BY <2>2, <2>3 DEF DueFits
  <1>15. OursAwaited'
    <2>1. Expected' = Expected
      BY <1>1, <1>5, <1>8 DEF Expected, Asked
    <2>2. m.id \in Expected
      BY <1>3, <1>4 DEF OursAwaited
    <2>3. \A k \in DOMAIN rollout' : rollout'[k].id > 0 \/ rollout'[k].id \in Expected
      <3>1. ASSUME NEW k \in DOMAIN rollout'
            PROVE  rollout'[k].id > 0 \/ rollout'[k].id \in Expected
        <4>1. k = Len(rollout) + 1 \/ k \in DOMAIN rollout
          BY <1>7
        <4>2. QED
          BY <1>7, <2>2, <4>1 DEF OursAwaited
      <3>2. QED
        BY <3>1
    <2>4. \A k \in DOMAIN mine'.due : mine'.due[k].id \in Expected
      BY <1>2, <1>3, <1>5 DEF OursAwaited
    <2>5. QED
      BY <1>1, <1>5, <1>8, <2>1, <2>3, <2>4 DEF OursAwaited, Asked
  <1>16. RolloutFits'
    <2>1. ASSUME NEW k \in DOMAIN rollout', NEW l \in DOMAIN rollout', rollout'[l] = rollout'[k],
                 rollout'[k].what = "start" \/ rollout'[k].id > 0
          PROVE  k = l
      <3>1. /\ k = Len(rollout) + 1 \/ (k \in DOMAIN rollout /\ rollout'[k] = rollout[k])
            /\ l = Len(rollout) + 1 \/ (l \in DOMAIN rollout /\ rollout'[l] = rollout[l])
        BY <1>7
      <3>2. ASSUME NEW j \in DOMAIN rollout, rollout[j] = m
            PROVE  m.what # "start"
        BY <1>7, <1>13, <3>2, MarkedIn DEF StartsIn
      <3>3. QED
        BY <1>4, <1>7, <1>12, <2>1, <3>1, <3>2 DEF RolloutFits
    <2>2. ASSUME NEW k \in DOMAIN rollout', rollout'[k].what = "end", rollout'[k].id > 0
          PROVE  \E l \in DOMAIN rollout' : l < k /\ rollout'[l] = StartOf(rollout'[k].id)
      <3>1. k \in DOMAIN rollout /\ rollout'[k] = rollout[k]
        BY <1>4, <1>7, <1>12, <2>2
      <3>2. PICK l \in DOMAIN rollout : l < k /\ rollout[l] = StartOf(rollout[k].id)
        BY <2>2, <3>1 DEF RolloutFits
      <3>3. QED
        BY <1>7, <3>1, <3>2
    <2>3. \E k \in Nat : TurnsOf(ForeignMarks(DOMAIN rollout))' = 1..k
      <3>1. TurnsOf(ForeignMarks(DOMAIN rollout))' = TurnsOf(ForeignMarks(DOMAIN rollout))
        <4>1. ~(m.id > 0)
          BY <1>4, <1>12
        <4>2. QED
          BY <1>10, <4>1
      <3>2. QED
        BY <3>1 DEF RolloutFits
    <2>4. ASSUME NEW p \in Writers, procs'[p].turn # 0
          PROVE  /\ procs'[p].turn \in (StartsIn(Len(rollout)) \ EndsIn(Len(rollout)))'
                 /\ \A o \in Writers : procs'[o].turn = procs'[p].turn => o = p
      <3>1. procs' = procs /\ procs[p].turn \in Nat
        BY <1>1 DEF CodexTyped, Processes
      <3>2. procs[p].turn # m.id
        BY <1>4, <1>12, <3>1
      <3>3. QED
        BY <1>10, <2>4, <3>1, <3>2 DEF RolloutFits
    <2>5. QED
      BY <2>1, <2>2, <2>3, <2>4 DEF RolloutFits, StartOf
  <1>17. Followed' /\ ServerKnows' /\ GateFits'
    BY <1>1, <1>6, <1>8, GrowthKeeps
  <1>18. QED
    BY <1>1, <1>9, <1>14, <1>15, <1>16, <1>17, CodexFrame

LEMMA TracedStays ==
    ASSUME CodexInv, UNCHANGED rollout, Traced' = Traced, mine'.due = mine.due,
           mine'.at = "running" => mine.at = "running" /\ mine'.id = mine.id,
           \A k \in DOMAIN mine.due : mine.due[k].id \in Traced \/ mine'.at = "running"
    PROVE  DueFits'
  <1> USE DEF CodexInv
  <1>1. StartsIn(Len(rollout))' = StartsIn(Len(rollout))
    BY DEF StartsIn, MarkedIds
  <1>2. \E n \in Nat : /\ Traced' = (0 - n)..(0 - 1)
                       /\ mine'.at = "running" => mine'.id \in Traced' \cup {0 - n - 1}
    BY DEF DueFits
  <1>3. \A k \in DOMAIN mine'.due :
           /\ mine'.due[k].id \in Traced' \/ (mine'.at = "running" /\ mine'.due[k].id = mine'.id)
           /\ mine'.due[k].what = "start" =>
                 /\ mine'.due[k].id \notin StartsIn(Len(rollout))'
                 /\ \A l \in DOMAIN mine'.due : mine'.due[l] = mine'.due[k] => l = k
    BY <1>1 DEF DueFits
  <1>4. QED
    BY <1>2, <1>3 DEF DueFits

LEMMA IdTraced ==
    ASSUME CodexInv, mine.at = "running", UNCHANGED rollout, Traced' = Traced \cup {mine.id},
           mine'.due = mine.due,
           mine'.at = "running" => mine'.id = mine.id
    PROVE  DueFits'
  <1> USE DEF CodexInv
  <1>1. StartsIn(Len(rollout))' = StartsIn(Len(rollout))
    BY DEF StartsIn, MarkedIds
  <1>2. \E k \in Nat : /\ Traced' = (0 - k)..(0 - 1)
                       /\ mine'.at = "running" => mine'.id \in Traced' \cup {0 - k - 1}
    <2>1. PICK n \in Nat : Traced = (0 - n)..(0 - 1) /\ mine.id \in Traced \cup {0 - n - 1}
      BY DEF DueFits
    <2>2. CASE mine.id \in Traced
      BY <2>1, <2>2
    <2>3. CASE mine.id = 0 - n - 1
      <3>1. n + 1 \in Nat /\ Traced' = (0 - (n + 1))..(0 - 1)
        BY <2>1, <2>3
      <3>2. QED
        BY <3>1
    <2>4. QED
      BY <2>1, <2>2, <2>3
  <1>3. \A k \in DOMAIN mine'.due :
           /\ mine'.due[k].id \in Traced' \/ (mine'.at = "running" /\ mine'.due[k].id = mine'.id)
           /\ mine'.due[k].what = "start" =>
                 /\ mine'.due[k].id \notin StartsIn(Len(rollout))'
                 /\ \A l \in DOMAIN mine'.due : mine'.due[l] = mine'.due[k] => l = k
    BY <1>1 DEF DueFits
  <1>4. QED
    BY <1>2, <1>3 DEF DueFits

LEMMA AnnouncedKeeps ==
    ASSUME CodexInv, Announced
    PROVE  CodexInv'
  <1> USE DEF CodexInv
  <1>1. /\ mine.at = "running"
        /\ appServer' = [appServer EXCEPT !.ids = appServer.ids \cup {mine.id}, !.active = TRUE,
                             !.pending = FALSE]
        /\ UNCHANGED <<procs, rollout, mine, cw, stale, gate, resume, cmdAt, runAt, launched,
                       clicked, lost, quiet, codexLeft>>
    BY DEF Announced
  <1>2. /\ appServer' \in Servers /\ appServer'.ids = appServer.ids \cup {mine.id}
        /\ appServer'.up = appServer.up /\ appServer'.known = appServer.known
        /\ ~appServer'.pending
    BY <1>1 DEF CodexTyped, Servers, Turns
  <1>3. CodexTyped'
    BY <1>1, <1>2 DEF CodexTyped
  <1>4. DueFits'
    <2>1. Traced' = Traced \cup {mine.id}
      <3>1. TurnsOf(DOMAIN rollout)' = TurnsOf(DOMAIN rollout)
        BY <1>1 DEF TurnsOf
      <3>2. QED
        BY <1>1, <1>2, <3>1 DEF Traced
    <2>2. QED
      BY <1>1, <2>1, IdTraced
  <1>5. OursAwaited'
    <2>1. Expected \subseteq Expected' /\ mine.id \in Expected'
      BY <1>1, <1>2 DEF Expected
    <2>2. \A k \in DOMAIN mine'.due : mine'.due[k].id \in Expected'
      BY <1>1, <2>1 DEF OursAwaited
    <2>3. QED
      BY <1>1, <1>2, <2>1, <2>2, OursGrow
  <1>6. QED
    BY <1>1, <1>2, <1>3, <1>4, <1>5, CodexFrame

LEMMA StartFailsKeeps ==
    ASSUME CodexInv, StartFails
    PROVE  CodexInv'
  <1> USE DEF CodexInv
  <1>1. /\ runAt = "turn" /\ appServer.pending /\ runAt' = "none"
        /\ appServer' = [appServer EXCEPT !.pending = FALSE, !.active = FALSE]
        /\ codexLeft' \in CodexLefts /\ codexLeft'.procs = codexLeft.procs
        /\ UNCHANGED <<procs, rollout, cw, stale, gate, resume, cmdAt, launched, clicked, lost>>
    BY SpendsDoes DEF StartFails, CodexTyped
  <1>2. /\ appServer' \in Servers /\ appServer'.ids = appServer.ids
        /\ appServer'.up = appServer.up /\ appServer'.known = appServer.known
        /\ ~appServer'.pending
    BY <1>1 DEF CodexTyped, Servers
  <1>3. mine.at # "none" /\ TurnsOf(DOMAIN rollout)' = TurnsOf(DOMAIN rollout)
    BY <1>1 DEF OursAwaited, TurnsOf
  <1>4. /\ mine' \in Turns /\ mine'.due = mine.due /\ mine'.at # "sent"
        /\ quiet' \subseteq Int /\ quiet \subseteq quiet'
        /\ \/ /\ mine.at = "sent" /\ mine'.at = "none" /\ quiet' = quiet
           \/ /\ mine.at = "running" /\ mine' = mine /\ quiet' = quiet \cup {mine.id}
    <2>1. CASE mine.at = "sent"
      BY <1>1, <2>1 DEF StartFails, CodexTyped, Turns
    <2>2. CASE mine.at = "running"
      BY <1>1, <2>2 DEF StartFails, CodexTyped, Turns
    <2>3. QED
      BY <1>3, <2>1, <2>2 DEF CodexTyped, Turns
  <1>5. CodexTyped'
    BY <1>1, <1>2, <1>4 DEF CodexTyped, RunPlaces
  <1>6. DueFits'
    <2>1. CASE mine.at = "sent"
      <3>1. Traced' = Traced /\ \A k \in DOMAIN mine.due : mine.due[k].id \in Traced
        BY <1>1, <1>2, <1>3, <1>4, <2>1 DEF Traced, DueFits
      <3>2. QED
        BY <1>1, <1>4, <2>1, <3>1, TracedStays
    <2>2. CASE mine.at = "running"
      <3>1. Traced' = Traced \cup {mine.id}
        BY <1>1, <1>2, <1>3, <1>4, <2>2 DEF Traced
      <3>2. QED
        BY <1>1, <1>4, <2>2, <3>1, IdTraced
    <2>3. QED
      BY <1>4, <2>1, <2>2
  <1>7. OursAwaited'
    <2>1. Expected \subseteq Expected' /\ (mine'.at = "running" => mine'.id \in Expected')
      BY <1>1, <1>2, <1>4 DEF Expected
    <2>2. \A k \in DOMAIN mine'.due : mine'.due[k].id \in Expected'
      BY <1>4, <2>1 DEF OursAwaited
    <2>3. QED
      BY <1>1, <1>2, <1>4, <2>1, <2>2, OursGrow
  <1>8. GateFits'
    <2>1. gate.by # "task" /\ gate.by # "lane"
      BY <1>1 DEF GateFits
    <2>2. QED
      BY <1>1, <2>1 DEF GateFits
  <1>9. OursIsOurs'
    BY <1>1, <1>4 DEF OursIsOurs
  <1>10. QED
    BY <1>1, <1>2, <1>5, <1>6, <1>7, <1>8, <1>9, CodexFrame

LEMMA ServerEndsKeeps ==
    ASSUME CodexInv, ServerEnds
    PROVE  CodexInv'
  <1> USE DEF CodexInv
  <1>1. /\ mine.at = "running" /\ mine.id \in appServer.ids
        /\ mine' = [mine EXCEPT !.at = "none", !.due = Append(mine.due, EndOf(mine.id))]
        /\ appServer' = [appServer EXCEPT !.active = FALSE]
        /\ runAt' = IF runAt = "turn" THEN "none" ELSE runAt
        /\ UNCHANGED <<procs, rollout, cw, stale, gate, resume, cmdAt, launched, clicked, lost,
                       quiet, codexLeft>>
    BY DEF ServerEnds
  <1>2. /\ appServer' \in Servers /\ appServer'.ids = appServer.ids
        /\ appServer'.up = appServer.up /\ appServer'.known = appServer.known
        /\ appServer'.pending = appServer.pending
    BY <1>1 DEF CodexTyped, Servers
  <1>3. PICK m \in Marks : m = EndOf(mine.id) /\ m.id = mine.id /\ m.what = "end"
    BY MarkOf DEF CodexTyped, Turns
  <1>4. /\ mine' \in Turns /\ mine'.at = "none" /\ mine'.id = mine.id
        /\ mine'.due = Append(mine.due, m)
    BY <1>1, <1>3, DueAdded DEF CodexTyped, Turns
  <1>5. /\ Len(mine.due) \in Nat /\ DOMAIN mine.due = 1..Len(mine.due)
        /\ DOMAIN mine'.due = 1..(Len(mine.due) + 1)
        /\ \A k \in 1..Len(mine.due) : mine'.due[k] = mine.due[k]
        /\ mine'.due[Len(mine.due) + 1] = m
    BY <1>4, DueAdded DEF CodexTyped
  <1>6. runAt' \in RunPlaces /\ runAt' # "turn" /\ (runAt # "turn" => runAt' = runAt)
    BY <1>1 DEF CodexTyped, RunPlaces
  <1>7. CodexTyped'
    BY <1>1, <1>2, <1>4, <1>6 DEF CodexTyped
  <1>8. \A k \in DOMAIN mine'.due : (k \in DOMAIN mine.due /\ mine'.due[k] = mine.due[k]) \/ mine'.due[k] = m
    <2>1. \A k \in DOMAIN mine'.due : k \in DOMAIN mine.due \/ k = Len(mine.due) + 1
      BY <1>5
    <2>2. QED
      BY <1>5, <2>1
  <1>9. DueFits'
    <2>1. TurnsOf(DOMAIN rollout)' = TurnsOf(DOMAIN rollout)
          /\ StartsIn(Len(rollout))' = StartsIn(Len(rollout))
      BY <1>1 DEF TurnsOf, StartsIn, MarkedIds
    <2>2. Traced' = Traced /\ mine.id \in Traced
      BY <1>1, <1>2, <2>1 DEF Traced
    <2>3. \E n \in Nat : /\ Traced' = (0 - n)..(0 - 1)
                         /\ mine'.at = "running" => mine'.id \in Traced' \cup {0 - n - 1}
      BY <1>4, <2>2 DEF DueFits
    <2>4. ASSUME NEW k \in DOMAIN mine'.due
          PROVE  /\ mine'.due[k].id \in Traced' \/ (mine'.at = "running" /\ mine'.due[k].id = mine'.id)
                 /\ mine'.due[k].what = "start" =>
                       /\ mine'.due[k].id \notin StartsIn(Len(rollout))'
                       /\ \A l \in DOMAIN mine'.due : mine'.due[l] = mine'.due[k] => l = k
      <3>1. CASE mine'.due[k] = m
        BY <1>3, <2>2, <3>1
      <3>2. CASE k \in DOMAIN mine.due /\ mine'.due[k] = mine.due[k]
        <4>1. mine.due[k].id \in Traced
          BY <2>2, <3>2 DEF DueFits
        <4>2. mine.due[k].what = "start" =>
                 /\ mine.due[k].id \notin StartsIn(Len(rollout))
                 /\ mine.due[k] # m
                 /\ \A l \in DOMAIN mine.due : mine.due[l] = mine.due[k] => l = k
          BY <1>3, <3>2 DEF DueFits
        <4>3. QED
          BY <1>8, <2>1, <2>2, <3>2, <4>1, <4>2
      <3>3. QED
        BY <1>8, <3>1, <3>2
    <2>5. QED
      BY <2>3, <2>4 DEF DueFits
  <1>10. OursAwaited'
    <2>1. Expected \subseteq Expected' /\ mine.id \in Expected'
      BY <1>1, <1>2 DEF Expected
    <2>2. \A k \in DOMAIN mine'.due : mine'.due[k].id \in Expected'
      BY <1>3, <1>8, <2>1 DEF OursAwaited
    <2>3. QED
      BY <1>1, <1>2, <1>4, <1>6, <2>1, <2>2, OursGrow
  <1>11. GateFits'
    BY <1>1, <1>6 DEF GateFits
  <1>12. QED
    BY <1>1, <1>2, <1>7, <1>9, <1>10, <1>11, CodexFrame

----------------------------------------------------------------------------
(* The lock, and the steps that only move.                                   *)

LEMMA GateMoves ==
    ASSUME CodexInv,
           UNCHANGED <<procs, rollout, appServer, mine, cw, stale, launched, clicked, lost, quiet>>,
           codexLeft' \in CodexLefts, codexLeft'.procs = codexLeft.procs, resume' \in Resumes,
           gate' \in Gates, runAt' \in RunPlaces,
           (gate'.by = "free") <=> (gate'.at = "free"), gate'.by = "free" => gate' = NoGate,
           gate'.by = "lane" => runAt' = "none",
           gate'.by = "task" => runAt' \in {"preflight", "preflight_again"},
           gate'.size <= Len(rollout), gate'.at = "read" => cw.size <= gate'.size,
           \/ gate'.holders = gate.holders /\ gate'.writers = gate.writers
           \/ gate'.holders = {} /\ gate'.writers = {},
           gate'.by = "task" /\ gate'.at = "judged" => gate' = gate,
           (runAt' = "turn") <=> (runAt = "turn")
    PROVE  CodexInv'
  <1> USE DEF CodexInv
  <1>1. CodexTyped'
    BY DEF CodexTyped
  <1>2. GateFits'
    BY DEF GateFits
  <1>3. HoldersFit'
    <2>1. \A ps : Ran(ps)' = Ran(ps) /\ Tuis(ps)' = Tuis(ps)
      BY DEF Ran, Tuis
    <2>2. gate'.holders = Tuis(gate'.writers) /\ Ran(gate'.writers)
      BY DEF HoldersFit, Tuis, Ran
    <2>3. Tuis(gate.writers)' = Tuis(gate'.writers) /\ Ran(gate.writers)' = Ran(gate'.writers)
      BY DEF Ran, Tuis
    <2>4. QED
      BY <2>1, <2>2, <2>3 DEF HoldersFit, Tuis, Ran
  <1>4. OursAwaited'
    BY OursGrow DEF Expected, Asked, OursAwaited
  <1>5. QED
    BY <1>1, <1>2, <1>3, <1>4, CodexFrame

LEMMA EntersDoes ==
    ASSUME CodexInv, NEW m \in {"loop", "lane", "task"}, Enters(m)
    PROVE  /\ gate = NoGate /\ gate' \in Gates /\ gate'.by = m /\ gate'.at = "scan"
           /\ gate'.holders = gate.holders /\ gate'.writers = gate.writers /\ gate'.size <= Len(rollout)
  <1>1. gate' = [gate EXCEPT !.by = m, !.at = "scan"] /\ gate = NoGate
    BY DEF Enters
  <1>2. QED
    BY <1>1 DEF CodexInv, CodexTyped, Gates, GateFits

LEMMA NoGateFits == /\ NoGate \in Gates /\ NoGate.by = "free" /\ NoGate.at = "free"
                    /\ NoGate.holders = {} /\ NoGate.writers = {} /\ NoGate.size = 0
  <1>1. QED
    BY DEF NoGate, Gates

LEMMA EnterKeeps ==
    ASSUME CodexInv, LoopPolls \/ LaneEnters \/ RunEnters
    PROVE  CodexInv'
  <1> USE DEF CodexInv
  <1>1. /\ UNCHANGED <<procs, rollout, appServer, mine, cw, stale, resume, cmdAt, runAt, launched,
                       clicked, lost, quiet, codexLeft>>
    BY DEF LoopPolls, LaneEnters, RunEnters
  <1>2. PICK m \in {"loop", "lane", "task"} :
            /\ Enters(m) /\ (m = "lane" => runAt = "none")
            /\ m = "task" => runAt \in {"preflight", "preflight_again"}
    BY DEF LoopPolls, LaneEnters, RunEnters
  <1>3. /\ gate' \in Gates /\ gate'.by = m /\ gate'.at = "scan"
        /\ gate'.holders = gate.holders /\ gate'.writers = gate.writers
        /\ gate'.size <= Len(rollout)
    BY <1>2, EntersDoes
  <1>4. codexLeft' \in CodexLefts /\ resume' \in Resumes /\ runAt' \in RunPlaces
    BY <1>1 DEF CodexTyped
  <1>5. QED
    BY <1>1, <1>2, <1>3, <1>4, GateMoves

LEMMA LeaveKeeps ==
    ASSUME CodexInv, LoopDone \/ PromptJudged \/ TakeoverUnsure
    PROVE  CodexInv'
  <1> USE DEF CodexInv
  <1>1. /\ UNCHANGED <<procs, rollout, appServer, mine, cw, stale, resume, launched, clicked, lost,
                       quiet, codexLeft>>
        /\ gate' = NoGate
        /\ runAt' = runAt \/ (runAt' \in {"none", "start"} /\ gate.by = "lane")
    BY DEF LoopDone, PromptJudged, TakeoverUnsure
  <1>2. runAt' \in RunPlaces /\ (runAt' = "turn" <=> runAt = "turn")
    BY <1>1 DEF CodexTyped, RunPlaces, GateFits
  <1>3. 0 <= Len(rollout)
    BY RolloutDomain DEF CodexTyped
  <1>4. QED
    BY <1>1, <1>2, <1>3, NoGateFits, GateMoves DEF CodexTyped

LEMMA StatRolloutKeeps ==
    ASSUME CodexInv, StatRollout
    PROVE  CodexInv'
  <1> USE DEF CodexInv
  <1>1. /\ gate.at = "stat" /\ gate' = [gate EXCEPT !.at = "read", !.size = Len(rollout)]
        /\ UNCHANGED <<procs, rollout, appServer, mine, cw, stale, resume, cmdAt, runAt, launched,
                       clicked, lost, quiet, codexLeft>>
    BY DEF StatRollout
  <1>2. Len(rollout) \in Nat /\ Len(rollout) <= Len(rollout)
    BY RolloutDomain DEF CodexTyped
  <1>3. /\ gate' \in Gates /\ gate'.at = "read" /\ gate'.size = Len(rollout)
        /\ gate'.by = gate.by /\ gate'.holders = gate.holders /\ gate'.writers = gate.writers
    BY <1>1, <1>2 DEF CodexTyped, Gates
  <1>4. /\ gate'.by # "free" /\ (gate'.by = "lane" => runAt' = "none")
        /\ gate'.by = "task" => runAt' \in {"preflight", "preflight_again"}
        /\ cw.size <= gate'.size
    BY <1>1, <1>3 DEF GateFits
  <1>5. codexLeft' \in CodexLefts /\ resume' \in Resumes /\ runAt' \in RunPlaces
    BY <1>1 DEF CodexTyped
  <1>6. QED
    BY <1>1, <1>2, <1>3, <1>4, <1>5, GateMoves

LEMMA ArriveKeeps ==
    ASSUME CodexInv, CommandArrives \/ ReloadReads
    PROVE  CodexInv'
  <1> USE DEF CodexInv
  <1>1. UNCHANGED <<procs, rollout, appServer, mine, cw, stale, gate, runAt, launched, clicked,
                    lost, quiet>>
    BY DEF CommandArrives, ReloadReads
  <1>2. codexLeft' \in CodexLefts /\ codexLeft'.procs = codexLeft.procs /\ resume' \in Resumes
    <2>1. CASE CommandArrives
      BY <2>1, SpendsDoes DEF CommandArrives, CodexTyped
    <2>2. CASE ReloadReads
      <3>1. DOMAIN rollout \subseteq Nat
        BY RolloutDomain DEF CodexTyped
      <3>2. QED
        BY <2>2, <3>1 DEF ReloadReads, CodexTyped, Resumes
    <2>3. QED
      BY <2>1, <2>2
  <1>3. /\ gate' \in Gates /\ runAt' \in RunPlaces /\ gate'.size <= Len(rollout)
        /\ (gate'.by = "free") <=> (gate'.at = "free")
        /\ gate'.by = "free" => gate' = NoGate
        /\ gate'.by = "lane" => runAt' = "none"
        /\ gate'.by = "task" => runAt' \in {"preflight", "preflight_again"}
        /\ gate'.at = "read" => cw.size <= gate'.size
    BY <1>1 DEF CodexTyped, GateFits
  <1>4. QED
    BY <1>1, <1>2, <1>3, GateMoves

LEMMA HolderSetsDoes ==
    ASSUME CodexInv, NEW raw \in SUBSET Writers, NEW full \in BOOLEAN, HolderSets(raw, full)
    PROVE  /\ cw' \in CodexOwnership /\ gate' \in Gates
           /\ cw'.size = cw.size /\ cw'.pending = cw.pending /\ cw'.external = cw.external
           /\ cw'.wish = cw.wish
           /\ gate'.at = "stat" /\ gate'.by = gate.by /\ gate'.size = gate.size
           /\ gate'.holders = cw'.holders /\ gate'.writers = cw'.writers
           /\ cw'.writers \subseteq raw \cup cw.writers
           /\ cw'.active = cw.active \/ cw'.active = cw.active \ cw.seeded
           /\ cw'.seeded = cw.seeded \/ cw'.seeded = {}
           /\ cw'.kept \subseteq cw.kept
           /\ cw'.holders = Tuis(cw'.writers) /\ cw'.keptTuis = Tuis(cw'.kept)
  <1> USE DEF CodexInv
  <1> DEFINE kept == IF full THEN cw.kept \cap raw ELSE cw.kept
             writers == (raw \ kept) \cup (IF full THEN {} ELSE cw.writers)
             tuis == {p \in raw \ kept : procs[p].kind = "tui"}
                        \cup (IF full THEN {} ELSE cw.holders)
             keptTuis == IF full THEN cw.keptTuis \cap raw ELSE cw.keptTuis
             active == IF full /\ raw = {} THEN cw.active \ cw.seeded ELSE cw.active
             seeded == IF full THEN {} ELSE cw.seeded
             private == {p \in writers : procs[p].kind = "app"}
  <1>1. /\ cw' = [cw EXCEPT !.kept = kept, !.keptTuis = keptTuis, !.active = active,
                      !.seeded = seeded, !.holders = tuis, !.writers = writers]
        /\ gate' = [gate EXCEPT !.at = "stat", !.full = full, !.holders = tuis, !.writers = writers,
                        !.private = private]
    BY DEF HolderSets
  <1>2. /\ cw.kept \subseteq Writers /\ cw.writers \subseteq Writers /\ cw.holders \subseteq Writers
        /\ cw.keptTuis \subseteq Writers /\ cw.active \subseteq Int /\ cw.seeded \subseteq Int
    BY DEF CodexTyped, CodexOwnership
  <1>3. /\ kept \subseteq cw.kept /\ writers \subseteq raw \cup cw.writers
        /\ tuis = Tuis(writers) /\ keptTuis = Tuis(kept)
    BY DEF HoldersFit, Tuis
  <1>4. /\ kept \subseteq Writers /\ writers \subseteq Writers /\ tuis \subseteq Writers
        /\ keptTuis \subseteq Writers /\ active \subseteq Int /\ seeded \subseteq Int
        /\ private \subseteq Writers
        /\ active = cw.active \/ active = cw.active \ cw.seeded
        /\ seeded = cw.seeded \/ seeded = {}
    BY <1>2
  <1> HIDE DEF kept, writers, tuis, keptTuis, active, seeded, private
  <1>5. /\ cw' \in CodexOwnership
        /\ cw'.size = cw.size /\ cw'.pending = cw.pending /\ cw'.external = cw.external
        /\ cw'.wish = cw.wish /\ cw'.kept = kept /\ cw'.keptTuis = keptTuis
        /\ cw'.active = active /\ cw'.seeded = seeded /\ cw'.holders = tuis /\ cw'.writers = writers
    BY <1>1, <1>4 DEF CodexTyped, CodexOwnership
  <1>6. /\ gate' \in Gates /\ gate'.at = "stat" /\ gate'.by = gate.by /\ gate'.size = gate.size
        /\ gate'.holders = tuis /\ gate'.writers = writers
    BY <1>1, <1>4 DEF CodexTyped, Gates
  <1>7. QED
    BY <1>3, <1>4, <1>5, <1>6

LEMMA ScanRolloutKeeps ==
    ASSUME CodexInv, ScanRollout
    PROVE  CodexInv'
  <1> USE DEF CodexInv
  <1>1. /\ gate.at = "scan"
        /\ UNCHANGED <<procs, rollout, appServer, mine, stale, resume, cmdAt, runAt, launched,
                       clicked, lost, quiet>>
        /\ codexLeft' \in CodexLefts /\ codexLeft'.procs = codexLeft.procs
    BY SpendsDoes DEF ScanRollout, CodexTyped
  <1>2. PICK raw \in SUBSET Writers, full \in BOOLEAN :
            HolderSets(raw, full) /\ \A p \in raw : procs[p].st = "on"
    <2> DEFINE seen == {p \in Writers : Seen(p)}
    <2>1. seen \subseteq Writers /\ \A p \in seen : procs[p].st = "on"
      BY DEF Seen, Alive
    <2>2. CASE HolderSets(seen, TRUE)
      BY <2>1, <2>2
    <2>3. CASE \E some \in SUBSET seen : HolderSets(some, FALSE)
      BY <2>1, <2>3
    <2>4. QED
      BY <2>2, <2>3 DEF ScanRollout
  <1>3. /\ cw' \in CodexOwnership /\ gate' \in Gates
        /\ cw'.size = cw.size /\ cw'.pending = cw.pending /\ cw'.external = cw.external
        /\ cw'.wish = cw.wish
        /\ gate'.at = "stat" /\ gate'.by = gate.by /\ gate'.size = gate.size
        /\ gate'.holders = cw'.holders /\ gate'.writers = cw'.writers
        /\ cw'.writers \subseteq raw \cup cw.writers
        /\ cw'.active = cw.active \/ cw'.active = cw.active \ cw.seeded
        /\ cw'.seeded = cw.seeded \/ cw'.seeded = {}
        /\ cw'.kept \subseteq cw.kept
        /\ cw'.holders = Tuis(cw'.writers) /\ cw'.keptTuis = Tuis(cw'.kept)
    BY <1>2, HolderSetsDoes
  <1>4. CodexTyped'
    BY <1>1, <1>3 DEF CodexTyped
  <1>5. GateFits'
    BY <1>1, <1>3 DEF GateFits
  <1>6. HoldersFit'
    <2>1. \A p \in cw'.writers : procs[p].st # "off"
      BY <1>2, <1>3 DEF HoldersFit, Ran
    <2>2. \A p \in cw'.kept : procs[p].st # "off"
      BY <1>3 DEF HoldersFit, Ran
    <2>3. /\ cw'.holders = {p \in cw'.writers : procs'[p].kind = "tui"}
          /\ cw'.keptTuis = {p \in cw'.kept : procs'[p].kind = "tui"}
          /\ cw'.wish.tuis = {p \in cw'.wish.writers : procs'[p].kind = "tui"}
      BY <1>1, <1>3 DEF HoldersFit, Tuis
    <2>4. QED
      BY <1>1, <1>3, <2>1, <2>2, <2>3 DEF HoldersFit, Tuis, Ran
  <1>7. OursAwaited'
    BY <1>1, <1>3, OursGrow DEF Expected, Asked, OursAwaited
  <1>8. StartsIn(cw.size)' = StartsIn(cw.size) /\ EndsIn(cw.size)' = EndsIn(cw.size)
        /\ Unsure' = Unsure
    BY <1>1, <1>3 DEF StartsIn, EndsIn, MarkedIds, Unsure
  <1>9. Followed'
    BY <1>1, <1>3, <1>8 DEF Followed
  <1>10. ServerKnows'
    <2>1. TurnsOf(ForeignMarks(1..cw.size) \ appServer.known)'
             = TurnsOf(ForeignMarks(1..cw.size) \ appServer.known)
      BY <1>1, <1>3 DEF TurnsOf, ForeignMarks
    <2>2. QED
      BY <1>1, <1>3, <1>8, <2>1 DEF ServerKnows
  <1>11. OursIsOurs'
    BY <1>1, <1>3 DEF OursIsOurs
  <1>12. QED
    BY <1>1, <1>4, <1>5, <1>6, <1>7, <1>9, <1>10, <1>11, CodexFrame

LEMMA TakeoverWaitsKeeps ==
    ASSUME CodexInv, gate' = NoGate,
           UNCHANGED <<procs, rollout, appServer, mine, resume, runAt, launched, quiet, codexLeft,
                       stale, lost>>,
           cw' = [cw EXCEPT !.wish = [on |-> TRUE, writers |-> cw.writers, tuis |-> cw.holders,
                                      turns |-> cw.active]],
           clicked' = clicked \cup {p \in Writers : procs[p].st # "off"}
    PROVE  CodexInv'
  <1> USE DEF CodexInv
  <1>1. [on |-> TRUE, writers |-> cw.writers, tuis |-> cw.holders, turns |-> cw.active] \in Wishes
    BY DEF CodexTyped, CodexOwnership, Wishes
  <1>2. /\ cw' \in CodexOwnership /\ cw'.size = cw.size /\ cw'.pending = cw.pending
        /\ cw'.external = cw.external /\ cw'.kept = cw.kept /\ cw'.keptTuis = cw.keptTuis
        /\ cw'.active = cw.active /\ cw'.seeded = cw.seeded /\ cw'.holders = cw.holders
        /\ cw'.writers = cw.writers /\ cw'.wish.writers = cw.writers /\ cw'.wish.tuis = cw.holders
    BY <1>1 DEF CodexTyped, CodexOwnership
  <1>3. CodexTyped'
    BY <1>2, NoGateFits DEF CodexTyped
  <1>4. GateFits'
    BY <1>2, NoGateFits, RolloutDomain DEF GateFits, CodexTyped
  <1>5. HoldersFit'
    <2>1. \A p \in cw.writers : p \in clicked'
      BY DEF HoldersFit, Ran, CodexTyped, CodexOwnership
    <2>2. QED
      BY <1>2, <2>1, NoGateFits DEF HoldersFit, Tuis, Ran
  <1>6. OursAwaited'
    BY <1>2, OursGrow DEF Expected, Asked, OursAwaited
  <1>7. StartsIn(cw.size)' = StartsIn(cw.size) /\ EndsIn(cw.size)' = EndsIn(cw.size)
        /\ Unsure' = Unsure
    BY <1>2 DEF StartsIn, EndsIn, MarkedIds, Unsure
  <1>8. Followed'
    BY <1>2, <1>7 DEF Followed
  <1>9. ServerKnows'
    <2>1. TurnsOf(ForeignMarks(1..cw.size) \ appServer.known)'
             = TurnsOf(ForeignMarks(1..cw.size) \ appServer.known)
      BY <1>2 DEF TurnsOf, ForeignMarks
    <2>2. QED
      BY <1>2, <1>7, <2>1, NoGateFits DEF ServerKnows
  <1>10. OursIsOurs'
    BY <1>2 DEF OursIsOurs
  <1>11. QED
    BY <1>3, <1>4, <1>5, <1>6, <1>8, <1>9, <1>10, CodexFrame

LEMMA TakeoverGrantedKeeps ==
    ASSUME CodexInv, gate' = NoGate, cw.active = {},
           UNCHANGED <<procs, rollout, appServer, mine, resume, runAt, launched, quiet, codexLeft>>,
           cw' = [cw EXCEPT !.kept = cw.kept \cup cw.writers,
                      !.keptTuis = cw.keptTuis \cup cw.holders,
                      !.holders = {}, !.writers = {}, !.pending = {}, !.external = FALSE,
                      !.wish = NoWish],
           stale' = TRUE, clicked' = clicked \cup {p \in Writers : procs[p].st # "off"},
           lost' = lost \cup {r.id : r \in cw.pending}
    PROVE  CodexInv'
  <1> USE DEF CodexInv
  <1>1. NoWish \in Wishes /\ NoWish.writers = {} /\ NoWish.tuis = {}
    BY DEF NoWish, Wishes
  <1>2. /\ cw' \in CodexOwnership /\ cw'.size = cw.size /\ cw'.pending = {}
        /\ cw'.external = FALSE /\ cw'.kept = cw.kept \cup cw.writers
        /\ cw'.keptTuis = cw.keptTuis \cup cw.holders
        /\ cw'.active = {} /\ cw'.seeded = cw.seeded /\ cw'.holders = {} /\ cw'.writers = {}
        /\ cw'.wish = NoWish
    <2>1. /\ cw.kept \cup cw.writers \subseteq Writers
          /\ cw.keptTuis \cup cw.holders \subseteq Writers
          /\ {} \subseteq Writers /\ {} \subseteq Record
      BY DEF CodexTyped, CodexOwnership
    <2>2. QED
      BY <1>1, <2>1 DEF CodexTyped, CodexOwnership
  <1>3. lost' \subseteq Int /\ lost' = lost \cup Unsure /\ Unsure' = {}
    BY <1>2 DEF CodexTyped, CodexOwnership, Record, Unsure
  <1>4. CodexTyped'
    BY <1>2, <1>3, NoGateFits DEF CodexTyped
  <1>5. GateFits'
    BY <1>2, NoGateFits, RolloutDomain DEF GateFits, CodexTyped
  <1>6. HoldersFit'
    <2>1. \A p \in cw.writers : p \in clicked' /\ procs[p].st # "off"
      BY DEF HoldersFit, Ran, CodexTyped, CodexOwnership
    <2>2. cw'.keptTuis = {p \in cw'.kept : procs'[p].kind = "tui"}
      BY <1>2 DEF HoldersFit, Tuis
    <2>3. QED
      BY <1>1, <1>2, <2>1, <2>2, NoGateFits DEF HoldersFit, Tuis, Ran
  <1>7. OursAwaited'
    <2>1. Expected' = Expected /\ Asked' = Asked
      BY <1>2 DEF Expected, Asked
    <2>2. QED
      BY <1>2, <2>1 DEF OursAwaited
  <1>8. StartsIn(cw.size)' = StartsIn(cw.size) /\ EndsIn(cw.size)' = EndsIn(cw.size)
    BY <1>2 DEF StartsIn, EndsIn, MarkedIds
  <1>9. Followed'
    BY <1>2, <1>3, <1>8 DEF Followed
  <1>10. ServerKnows'
    BY <1>2, NoGateFits DEF ServerKnows
  <1>11. OursIsOurs'
    BY <1>2 DEF OursIsOurs
  <1>12. QED
    BY <1>3, <1>4, <1>5, <1>6, <1>7, <1>9, <1>10, <1>11, CodexFrame

LEMMA TakeoverDecidedKeeps ==
    ASSUME CodexInv, TakeoverDecided
    PROVE  CodexInv'
  <1> USE DEF CodexInv
  <1>1. /\ gate' = NoGate
        /\ UNCHANGED <<procs, rollout, appServer, mine, resume, runAt, launched, quiet, codexLeft>>
    BY DEF TakeoverDecided
  <1>2. CASE UNCHANGED <<cw, stale, clicked, lost>>
    <2>1. codexLeft' \in CodexLefts /\ resume' \in Resumes /\ runAt' \in RunPlaces /\ 0 <= Len(rollout)
      BY <1>1, RolloutDomain DEF CodexTyped
    <2>2. QED
      BY <1>1, <1>2, <2>1, NoGateFits, GateMoves
  <1>3. CASE /\ cw' = [cw EXCEPT !.wish = [on |-> TRUE, writers |-> cw.writers,
                                           tuis |-> cw.holders, turns |-> cw.active]]
             /\ clicked' = clicked \cup {p \in Writers : procs[p].st # "off"}
             /\ UNCHANGED <<stale, lost>>
    BY <1>1, <1>3, TakeoverWaitsKeeps
  <1>4. CASE /\ cw.active = {}
             /\ cw' = [cw EXCEPT !.kept = @ \cup cw.writers, !.keptTuis = @ \cup cw.holders,
                          !.holders = {}, !.writers = {}, !.pending = {}, !.external = FALSE,
                          !.wish = NoWish]
             /\ stale' = TRUE
             /\ clicked' = clicked \cup {p \in Writers : procs[p].st # "off"}
             /\ lost' = lost \cup {r.id : r \in cw.pending}
    BY <1>1, <1>4, TakeoverGrantedKeeps
  <1>5. QED
    BY <1>2, <1>3, <1>4 DEF TakeoverDecided
----------------------------------------------------------------------------
(* The task of a turn.                                                       *)

LEMMA ReloadsDoes ==
    ASSUME CodexInv, Reloads
    PROVE  /\ resume' \in Resumes /\ appServer' \in Servers /\ mine' \in Turns /\ mine' = NoMine
           /\ appServer'.ids = appServer.ids /\ appServer'.known = appServer.known
           /\ ~appServer'.up /\ ~appServer'.pending
           /\ mine'.at = "none" /\ mine'.due = <<>>
  <1>1. resume' \in Resumes
    BY DEF Reloads, NoResume, Resumes
  <1>2. /\ appServer' \in Servers /\ appServer'.ids = appServer.ids
        /\ appServer'.known = appServer.known /\ ~appServer'.up /\ ~appServer'.pending
    BY DEF Reloads, CodexInv, CodexTyped, Servers
  <1>3. mine' \in Turns /\ mine' = NoMine /\ mine'.at = "none" /\ mine'.due = <<>>
    BY DEF Reloads, NoMine, Turns
  <1>4. QED
    BY <1>1, <1>2, <1>3

LEMMA ReloadKeeps ==
    ASSUME CodexInv, Reloads, runAt # "turn", runAt' \in {"reloading", "reloading_again"},
           UNCHANGED <<procs, rollout, cw, stale, launched, clicked, lost, quiet, codexLeft>>,
           gate' = NoGate \/ (gate' = gate /\ gate.by \notin {"lane", "task"})
    PROVE  CodexInv'
  <1> USE DEF CodexInv
  <1>1. /\ resume' \in Resumes /\ appServer' \in Servers /\ mine' \in Turns /\ mine' = NoMine
        /\ appServer'.ids = appServer.ids /\ appServer'.known = appServer.known
        /\ ~appServer'.up /\ ~appServer'.pending
        /\ mine'.at = "none" /\ mine'.due = <<>>
    BY ReloadsDoes
  <1>2. CodexTyped'
    BY <1>1, NoGateFits DEF CodexTyped, RunPlaces
  <1>3. GateFits'
    BY <1>1, NoGateFits, RolloutDomain DEF GateFits, CodexTyped
  <1>4. HoldersFit'
    <2>1. CASE gate' = gate
      BY <2>1 DEF HoldersFit, Tuis, Ran
    <2>2. CASE gate' = NoGate
      BY <2>2, NoGateFits DEF HoldersFit, Tuis, Ran
    <2>3. QED
      BY <2>1, <2>2
  <1>5. DueFits'
    <2>1. Traced' = Traced
      <3>1. TurnsOf(DOMAIN rollout)' = TurnsOf(DOMAIN rollout)
        BY DEF TurnsOf
      <3>2. QED
        BY <1>1, <3>1 DEF Traced
    <2>2. DOMAIN mine'.due = {}
      BY <1>1
    <2>3. QED
      BY <1>1, <2>1, <2>2 DEF DueFits
  <1>6. OursAwaited'
    <2>1. Expected = appServer.ids \cup quiet /\ Expected' = Expected
      BY <1>1 DEF Expected, Asked
    <2>2. DOMAIN mine'.due = {}
      BY <1>1
    <2>3. QED
      BY <1>1, <2>1, <2>2, OursGrow
  <1>7. ServerKnows'
    BY <1>1, NoGateFits DEF ServerKnows
  <1>8. QED
    BY <1>1, <1>2, <1>3, <1>4, <1>5, <1>6, <1>7, CodexFrame

LEMMA RunStartsKeeps ==
    ASSUME CodexInv, RunStarts
    PROVE  CodexInv'
  <1> USE DEF CodexInv
  <1>1. /\ runAt = "start"
        /\ UNCHANGED <<procs, rollout, cw, stale, gate, cmdAt, launched, clicked, lost, quiet,
                       codexLeft>>
        /\ gate.by \notin {"lane", "task"}
    BY DEF RunStarts, GateFits
  <1>2. CASE stale
    BY <1>1, <1>2, ReloadKeeps DEF RunStarts
  <1>3. CASE ~stale
    <2>1. runAt' = "preflight" /\ UNCHANGED <<appServer, mine, resume>>
      BY <1>3 DEF RunStarts
    <2>2. codexLeft' \in CodexLefts /\ resume' \in Resumes /\ gate' \in Gates
          /\ runAt' \in RunPlaces /\ gate'.size <= Len(rollout)
          /\ ((gate'.by = "free") <=> (gate'.at = "free"))
          /\ (gate'.by = "free" => gate' = NoGate)
          /\ (gate'.at = "read" => cw.size <= gate'.size)
      BY <1>1, <2>1 DEF CodexTyped, RunPlaces, GateFits
    <2>3. QED
      BY <1>1, <2>1, <2>2, GateMoves
  <1>4. QED
    BY <1>2, <1>3

LEMMA ReloadedKeeps ==
    ASSUME CodexInv, Reloaded
    PROVE  CodexInv'
  <1> USE DEF CodexInv
  <1>1. /\ runAt \in {"reloading", "reloading_again"} /\ resume' = NoResume
        /\ UNCHANGED <<procs, rollout, mine, cw, gate, cmdAt, launched, clicked, quiet>>
        /\ gate.by \notin {"lane", "task"} /\ resume' \in Resumes
    BY DEF Reloaded, GateFits, NoResume, Resumes
  <1>2. CASE /\ resume.at = "read"
             /\ appServer' = [appServer EXCEPT !.up = TRUE, !.known = resume.read]
             /\ stale' = FALSE
             /\ lost' = lost \cup TurnsOf(ForeignMarks(1..cw.size) \ resume.read)
             /\ runAt' = IF runAt = "reloading" THEN "preflight" ELSE "preflight_again"
             /\ UNCHANGED codexLeft
    <2>1. /\ appServer' \in Servers /\ appServer'.ids = appServer.ids
          /\ appServer'.pending = appServer.pending /\ appServer'.active = appServer.active
          /\ appServer'.known = resume.read
      BY <1>2 DEF CodexTyped, Servers, Resumes
    <2>2. lost' \subseteq Int /\ lost \subseteq lost'
      <3>1. TurnsOf(ForeignMarks(1..cw.size) \ resume.read) \subseteq Int
        BY RolloutDomain DEF TurnsOf, ForeignMarks, CodexTyped
      <3>2. QED
        BY <1>2, <3>1 DEF CodexTyped
    <2>3. runAt' \in {"preflight", "preflight_again"}
      BY <1>2
    <2>4. CodexTyped'
      BY <1>1, <1>2, <2>1, <2>2, <2>3 DEF CodexTyped, RunPlaces
    <2>5. GateFits'
      BY <1>1, <2>3 DEF GateFits
    <2>6. OursAwaited'
      BY <1>1, <2>1, <2>3, OursGrow DEF Expected, Asked, OursAwaited
    <2>7. /\ StartsIn(cw.size)' = StartsIn(cw.size) /\ EndsIn(cw.size)' = EndsIn(cw.size)
          /\ Unsure' = Unsure
      BY <1>1 DEF StartsIn, EndsIn, MarkedIds, Unsure
    <2>8. Followed'
      BY <1>1, <2>2, <2>7 DEF Followed
    <2>9. ServerKnows'
      <3>1. TurnsOf(ForeignMarks(1..cw.size) \ appServer.known)'
               = TurnsOf(ForeignMarks(1..cw.size) \ resume.read)
        BY <1>1, <2>1 DEF TurnsOf, ForeignMarks
      <3>2. QED
        BY <1>1, <1>2, <2>7, <3>1 DEF ServerKnows
    <2>10. QED
      BY <1>1, <1>2, <2>1, <2>2, <2>4, <2>5, <2>6, <2>8, <2>9, CodexFrame
  <1>3. CASE Spends("faults") /\ runAt' = "none" /\ UNCHANGED <<appServer, stale, lost>>
    <2>1. codexLeft' \in CodexLefts /\ codexLeft'.procs = codexLeft.procs
      BY <1>3, SpendsDoes DEF CodexTyped
    <2>2. /\ gate' \in Gates /\ runAt' \in RunPlaces /\ gate'.size <= Len(rollout)
          /\ ((gate'.by = "free") <=> (gate'.at = "free"))
          /\ (gate'.by = "free" => gate' = NoGate)
          /\ (gate'.at = "read" => cw.size <= gate'.size)
      BY <1>1, <1>3 DEF CodexTyped, RunPlaces, GateFits
    <2>3. QED
      BY <1>1, <1>3, <2>1, <2>2, GateMoves
  <1>4. QED
    BY <1>1, <1>2, <1>3 DEF Reloaded

LEMMA LaunchIsSafe ==
    ASSUME CodexInv, gate.by = "task", gate.at = "judged", ~stale, ~cw.external, appServer.up,
           NEW unsure, unsure = Unsure, NEW read, read = ForeignMarks(1..cw.size)
    PROVE  /\ gate.holders = {}
           /\ TurnsOf(read \ appServer.known) \ unsure \subseteq lost
           /\ {p \in gate.writers : procs[p].turn \in TurnsOf(read) \ (unsure \cup lost)} = {}
  <1> USE DEF CodexInv
  <1>1. gate.holders = {} /\ cw.active = {}
    BY DEF ServerKnows
  <1>2. TurnsOf(read \ appServer.known) \ unsure \subseteq lost
    BY DEF ServerKnows
  <1>3. ASSUME NEW p \in gate.writers, procs[p].turn \in TurnsOf(read) \ (unsure \cup lost)
        PROVE  FALSE
    <2>1. PICK i \in Nat : i = procs[p].turn
      BY DEF CodexTyped, Processes, Gates
    <2>2. PICK k \in read : rollout[k].id = i
      BY <1>3, <2>1 DEF TurnsOf
    <2>3. k \in 1..cw.size /\ k \in DOMAIN rollout /\ i > 0
      BY <2>2 DEF ForeignMarks
    <2>4. i \in StartsIn(Len(rollout)) \ EndsIn(Len(rollout))
      BY <2>1, <2>3 DEF RolloutFits, CodexTyped, Gates
    <2>5. rollout[k].what = "start"
      <3>1. rollout[k].what \in {"start", "end"} /\ k \in 1..Len(rollout)
        BY <2>3, RolloutDomain DEF CodexTyped
      <3>2. rollout[k].what # "end"
        BY <2>2, <2>4, <3>1, MarkedIn DEF EndsIn
      <3>3. QED
        BY <3>1, <3>2
    <2>6. i \in StartsIn(cw.size)
      BY <2>2, <2>3, <2>5, MarkedIn DEF StartsIn
    <2>7. i \notin EndsIn(cw.size)
      <3>1. cw.size \in Nat /\ Len(rollout) \in Nat /\ cw.size <= Len(rollout)
        BY RolloutDomain DEF CodexTyped, CodexOwnership, GateFits
      <3>2. EndsIn(cw.size) \subseteq EndsIn(Len(rollout))
        BY <3>1 DEF EndsIn, MarkedIds
      <3>3. QED
        BY <2>4, <3>2
    <2>8. QED
      BY <1>1, <1>3, <2>1, <2>3, <2>6, <2>7 DEF Followed
  <1>4. QED
    BY <1>1, <1>2, <1>3

LEMMA StartsTurnKeeps ==
    ASSUME CodexInv, gate.by = "task", gate.at = "judged", ~stale, ~cw.external, gate' = NoGate,
           StartsTurn,
           UNCHANGED <<procs, rollout, cw, stale, resume, cmdAt, clicked, lost, quiet, codexLeft>>
    PROVE  CodexInv'
  <1> USE DEF CodexInv
  <1>1. runAt \in {"preflight", "preflight_again"} /\ 0 <= Len(rollout)
    BY RolloutDomain DEF GateFits, CodexTyped
  <1>2. CASE appServer.up /\ mine.at = "none"
    <2>1. PICK unsure, read : unsure = Unsure /\ read = ForeignMarks(1..cw.size)
      OBVIOUS
    <2>2. /\ runAt' = "turn" /\ appServer' = [appServer EXCEPT !.pending = TRUE, !.active = TRUE]
          /\ mine' = [mine EXCEPT !.at = "sent"]
          /\ launched' = [over |-> TurnsOf(read \ appServer.known) \ unsure,
                          beside |-> gate.holders,
                          busy |-> {p \in gate.writers :
                                       procs[p].turn \in TurnsOf(read) \ (unsure \cup lost)}]
      BY <1>2, <2>1 DEF StartsTurn, Unsure
    <2>3. /\ appServer' \in Servers /\ appServer'.ids = appServer.ids
          /\ appServer'.up = appServer.up /\ appServer'.known = appServer.known
          /\ appServer'.pending /\ appServer'.active
      BY <2>2 DEF CodexTyped, Servers
    <2>4. mine' \in Turns /\ mine'.at = "sent" /\ mine'.due = mine.due
      BY <2>2 DEF CodexTyped, Turns
    <2>5. launched'.over \subseteq lost /\ launched'.beside = {} /\ launched'.busy = {}
      BY <1>2, <2>1, <2>2, LaunchIsSafe
    <2>6. CodexTyped'
      BY <2>2, <2>3, <2>4, NoGateFits DEF CodexTyped, RunPlaces
    <2>7. GateFits'
      BY <1>1, NoGateFits DEF GateFits
    <2>8. HoldersFit'
      BY NoGateFits DEF HoldersFit, Tuis, Ran
    <2>9. DueFits'
      <3>1. Traced' = Traced
        <4>1. TurnsOf(DOMAIN rollout)' = TurnsOf(DOMAIN rollout)
          BY DEF TurnsOf
        <4>2. QED
          BY <2>3, <4>1 DEF Traced
      <3>2. \A k \in DOMAIN mine.due : mine.due[k].id \in Traced
        BY <1>2 DEF DueFits
      <3>3. QED
        BY <2>4, <3>1, <3>2, TracedStays
    <2>10. OursAwaited'
      <3>1. Asked' /\ Expected = appServer.ids \cup quiet /\ Expected' = Expected
        BY <1>2, <2>2, <2>3, <2>4 DEF Expected, Asked
      <3>2. QED
        BY <2>3, <2>4, <3>1, OursGrow DEF OursAwaited
    <2>11. ServerKnows'
      BY <2>3, NoGateFits DEF ServerKnows, Unsure, TurnsOf, ForeignMarks
    <2>12. LaunchedAlone' /\ LaunchedUpToDate'
      BY <2>5 DEF LaunchedAlone, LaunchedUpToDate
    <2>13. QED
      BY <2>3, <2>6, <2>7, <2>8, <2>9, <2>10, <2>11, <2>12, CodexFrame
  <1>3. CASE ~(appServer.up /\ mine.at = "none")
    <2>1. runAt' = "none" /\ UNCHANGED <<appServer, mine, launched>>
      BY <1>3 DEF StartsTurn
    <2>2. codexLeft' \in CodexLefts /\ resume' \in Resumes /\ runAt' \in RunPlaces
      BY <2>1 DEF CodexTyped, RunPlaces
    <2>3. QED
      BY <1>1, <2>1, <2>2, NoGateFits, GateMoves
  <1>4. QED
    BY <1>2, <1>3

LEMMA RunJudgedKeeps ==
    ASSUME CodexInv, RunJudged
    PROVE  CodexInv'
  <1> USE DEF CodexInv
  <1>1. /\ gate.by = "task" /\ gate.at = "judged" /\ gate' = NoGate
        /\ UNCHANGED <<procs, rollout, cw, stale, cmdAt, clicked, lost, quiet, codexLeft>>
        /\ runAt \in {"preflight", "preflight_again"} /\ 0 <= Len(rollout)
    BY RolloutDomain DEF RunJudged, GateFits, CodexTyped
  <1>2. CASE cw.external \/ (runAt = "preflight_again" /\ stale)
    <2>1. runAt' = "none" /\ UNCHANGED <<appServer, mine, resume, launched>>
      BY <1>2 DEF RunJudged
    <2>2. codexLeft' \in CodexLefts /\ resume' \in Resumes /\ runAt' \in RunPlaces
      BY <1>1, <2>1 DEF CodexTyped, RunPlaces
    <2>3. QED
      BY <1>1, <2>1, <2>2, NoGateFits, GateMoves
  <1>3. CASE ~cw.external /\ runAt = "preflight" /\ stale
    BY <1>1, <1>3, ReloadKeeps DEF RunJudged
  <1>4. CASE ~cw.external /\ ~stale
    BY <1>1, <1>4, StartsTurnKeeps DEF RunJudged
  <1>5. QED
    BY <1>1, <1>2, <1>3, <1>4

----------------------------------------------------------------------------
(* The classification of the markers that are new, and of those that wait.   *)

WaitIds(late) == {r.id : r \in Waiting(late)}

LEMMA ReadMore ==
    ASSUME CodexInv, gate.at = "read"
    PROVE  /\ StartsIn(gate.size) = StartsIn(cw.size) \cup NewIds("start")
           /\ EndsIn(gate.size) = EndsIn(cw.size) \cup NewIds("end")
           /\ NewIds("start") \cap StartsIn(cw.size) = {}
           /\ NewIds("start") \cup NewIds("end") \cup StartsIn(gate.size) \subseteq Int
  <1> USE DEF CodexInv
  <1>1. PICK u \in Nat, v \in Nat : u = cw.size /\ v = gate.size /\ u <= v /\ v <= Len(rollout)
    BY DEF CodexTyped, CodexOwnership, Gates, GateFits
  <1>2. /\ Len(rollout) \in Nat /\ DOMAIN rollout = 1..Len(rollout)
        /\ \A k \in 1..Len(rollout) : rollout[k].id \in Int
    BY RolloutDomain DEF CodexTyped
  <1>3. 1..v = 1..u \cup (u + 1)..v /\ 1..v \subseteq DOMAIN rollout /\ (u + 1)..v \subseteq 1..v
    BY <1>1, <1>2
  <1>4. \A what : MarkedIds(what, v) = MarkedIds(what, u) \cup NewIds(what)
    BY <1>1, <1>3 DEF MarkedIds, NewIds
  <1>5. ASSUME NEW i \in NewIds("start"), i \in StartsIn(u)
        PROVE  FALSE
    <2>1. PICK k \in (u + 1)..v : rollout[k].what = "start" /\ rollout[k].id = i
      BY <1>1, <1>5 DEF NewIds
    <2>2. PICK l \in 1..u : rollout[l].what = "start" /\ rollout[l].id = i
      BY <1>5, MarkedIn DEF StartsIn
    <2>3. rollout[k] = rollout[l]
      <3>1. rollout[k] \in Marks /\ rollout[l] \in Marks
        BY <1>1, <1>2, <1>3, RolloutDomain DEF CodexTyped
      <3>2. rollout[k] = StartOf(i) /\ rollout[l] = StartOf(i)
        BY <2>1, <2>2, <3>1 DEF Marks, StartOf
      <3>3. QED
        BY <3>2
    <2>4. k # l /\ k \in DOMAIN rollout /\ l \in DOMAIN rollout
      BY <1>1, <1>3
    <2>5. QED
      BY <2>1, <2>3, <2>4 DEF RolloutFits
  <1>6. NewIds("start") \cup NewIds("end") \cup StartsIn(v) \subseteq Int
    BY <1>1, <1>2, <1>3 DEF NewIds, StartsIn, MarkedIds
  <1>7. QED
    BY <1>1, <1>4, <1>5, <1>6 DEF StartsIn, EndsIn

LEMMA OursNegative ==
    ASSUME CodexInv
    PROVE  \A i \in appServer.ids \cup quiet \cup Expected : i < 0
  <1>1. PICK n \in Nat : /\ Traced = (0 - n)..(0 - 1)
                         /\ mine.at = "running" => mine.id \in Traced \cup {0 - n - 1}
    BY DEF CodexInv, DueFits
  <1>2. appServer.ids \cup quiet \subseteq Traced
    BY DEF Traced
  <1>3. \A i \in Expected : i \in appServer.ids \cup quiet \/ (mine.at = "running" /\ i = mine.id)
    BY DEF Expected
  <1>4. \A i \in Traced \cup {0 - n - 1} : i < 0
    BY <1>1
  <1>5. QED
    BY <1>1, <1>2, <1>3, <1>4

LEMMA WaitingDoes ==
    ASSUME CodexInv, gate.at = "read", NEW late \in BOOLEAN
    PROVE  /\ Waiting(late) \subseteq Record
           /\ WaitIds(late) = {r.id : r \in Unresolved \ Overdues(late)}
                                 \cup (NewStarts \ Strangers(late))
           /\ \A r, s \in Waiting(late) : r.id = s.id => r = s
           /\ \A r \in Waiting(late) :
                 \/ r \in Unresolved \ Overdues(late)
                 \/ ~r.done /\ r.rpc = appServer.pending /\ r.id \in NewStarts \ Strangers(late)
  <1> USE DEF CodexInv
  <1> DEFINE still == Unresolved \ Overdues(late)
             stillIds == {r.id : r \in still}
             fresh == (NewStarts \ Strangers(late)) \ stillIds
             Fresh(i) == [id |-> i, done |-> FALSE, rpc |-> appServer.pending]
             new == {Fresh(i) : i \in fresh}
  <1>1. Waiting(late) = still \cup new
    BY DEF Waiting
  <1>2. still \subseteq cw.pending /\ cw.pending \subseteq Record /\ fresh \subseteq Int
        /\ appServer.pending \in BOOLEAN
    BY ReadMore DEF Unresolved, CodexTyped, CodexOwnership, NewStarts, Servers
  <1>3. \A i \in fresh : /\ Fresh(i) \in Record /\ Fresh(i).id = i
                          /\ ~Fresh(i).done /\ Fresh(i).rpc = appServer.pending
    BY <1>2 DEF Record
  <1> HIDE DEF Fresh, fresh
  <1>4. /\ \A r \in new : /\ r \in Record /\ ~r.done /\ r.rpc = appServer.pending
                          /\ r.id \in fresh /\ r = Fresh(r.id)
        /\ \A i \in fresh : \E r \in new : r.id = i
    BY <1>3
  <1>5. {r.id : r \in Waiting(late)} = stillIds \cup fresh
    BY <1>1, <1>4
  <1>6. ASSUME NEW r \in Waiting(late), NEW s \in Waiting(late), r.id = s.id
        PROVE  r = s
    <2>1. CASE r \in still /\ s \in still
      BY <1>2, <1>6, <2>1 DEF Followed
    <2>2. CASE r \in new /\ s \in new
      BY <1>4, <1>6, <2>2
    <2>3. CASE r \in still /\ s \in new
      BY <1>4, <1>6, <2>3 DEF fresh
    <2>4. CASE r \in new /\ s \in still
      BY <1>4, <1>6, <2>4 DEF fresh
    <2>5. QED
      BY <1>1, <2>1, <2>2, <2>3, <2>4
  <1>7. Waiting(late) \subseteq Record
    BY <1>1, <1>2, <1>4
  <1>8. \A r \in Waiting(late) :
           \/ r \in still
           \/ ~r.done /\ r.rpc = appServer.pending /\ r.id \in NewStarts \ Strangers(late)
    BY <1>1, <1>4 DEF fresh
  <1>9. stillIds \cup fresh = stillIds \cup (NewStarts \ Strangers(late))
    BY DEF fresh
  <1>10. WaitIds(late) = stillIds \cup (NewStarts \ Strangers(late))
    BY <1>5, <1>9 DEF WaitIds
  <1>11. QED
    BY <1>6, <1>7, <1>8, <1>10

LEMMA PendingNowDoes ==
    ASSUME CodexInv, gate.at = "read", NEW late \in BOOLEAN
    PROVE  /\ PendingNow(late) \subseteq Record
           /\ {r.id : r \in PendingNow(late)} = WaitIds(late)
           /\ \A r, s \in PendingNow(late) : r.id = s.id => r = s
           /\ \A r \in PendingNow(late) : r.done => r.id \in EndsIn(gate.size)
           /\ \A r \in PendingNow(late) :
                 \/ \E w \in cw.pending : w.id = r.id /\ w.rpc = r.rpc
                 \/ r.rpc = appServer.pending /\ r.id \in NewStarts /\ Waits(TuisBefore(late))
  <1> USE DEF CodexInv
  <1> DEFINE Now(r) == [r EXCEPT !.done = @ \/ r.id \in NewIds("end")]
  <1>1. /\ Waiting(late) \subseteq Record
        /\ \A r, s \in Waiting(late) : r.id = s.id => r = s
        /\ \A r \in Waiting(late) :
              \/ r \in Unresolved \ Overdues(late)
              \/ ~r.done /\ r.rpc = appServer.pending /\ r.id \in NewStarts \ Strangers(late)
    BY WaitingDoes
  <1>2. \A r \in Record : /\ Now(r) \in Record /\ Now(r).id = r.id /\ Now(r).rpc = r.rpc
                          /\ Now(r).done => r.done \/ r.id \in NewIds("end")
    BY DEF Record
  <1>3. PendingNow(late) = {Now(r) : r \in Waiting(late)}
    BY DEF PendingNow
  <1> HIDE DEF Now
  <1>4. PendingNow(late) \subseteq Record
    BY <1>1, <1>2, <1>3
  <1>5. {r.id : r \in PendingNow(late)} = WaitIds(late)
    BY <1>1, <1>2, <1>3 DEF WaitIds
  <1>6. ASSUME NEW r \in PendingNow(late), NEW s \in PendingNow(late), r.id = s.id
        PROVE  r = s
    BY <1>1, <1>2, <1>3, <1>6
  <1>7. ASSUME NEW r \in PendingNow(late)
        PROVE  /\ r.done => r.id \in EndsIn(gate.size)
               /\ \/ \E w \in cw.pending : w.id = r.id /\ w.rpc = r.rpc
                  \/ r.rpc = appServer.pending /\ r.id \in NewStarts /\ Waits(TuisBefore(late))
    <2>1. PICK w \in Waiting(late) : r = Now(w)
      BY <1>3
    <2>2. w.id = r.id /\ w.rpc = r.rpc /\ (r.done => w.done \/ w.id \in NewIds("end"))
      BY <1>1, <1>2, <2>1
    <2>3. CASE w \in Unresolved \ Overdues(late)
      <3>1. w \in cw.pending
        BY <2>3 DEF Unresolved
      <3>2. w.done => w.id \in EndsIn(cw.size)
        BY <3>1 DEF Followed
      <3>3. QED
        BY <2>2, <3>1, <3>2, ReadMore
    <2>4. CASE ~w.done /\ w.rpc = appServer.pending /\ w.id \in NewStarts \ Strangers(late)
      <3>1. Waits(TuisBefore(late))
        BY <2>4 DEF Strangers
      <3>2. QED
        BY <2>2, <2>4, <3>1, ReadMore
    <2>5. QED
      BY <1>1, <2>3, <2>4
  <1>8. QED
    BY <1>4, <1>5, <1>6, <1>7

LEMMA AttributedDoes ==
    ASSUME CodexInv, gate.at = "read", NEW late \in BOOLEAN
    PROVE  /\ Attributed(late) \subseteq StartsIn(gate.size)
           /\ Attributed(late) \cap WaitIds(late) = {}
           /\ WaitIds(late) \subseteq StartsIn(gate.size)
           /\ Unended(late) = Attributed(late) \ NewIds("end")
  <1> USE DEF CodexInv
  <1> DEFINE still == Unresolved \ Overdues(late)
  <1>1. WaitIds(late) = {r.id : r \in still} \cup (NewStarts \ Strangers(late))
    BY WaitingDoes
  <1>2. /\ Overdues(late) \subseteq cw.pending /\ still \subseteq cw.pending
        /\ Overdues(late) \cap still = {} /\ NewStarts \subseteq NewIds("start")
        /\ Strangers(late) \subseteq NewStarts
    BY DEF Overdues, Unresolved, NewStarts, Strangers
  <1>3. /\ cw.active \subseteq StartsIn(cw.size) /\ \A r \in cw.pending : r.id \in StartsIn(cw.size)
        /\ \A r \in cw.pending : r.id \notin cw.active
        /\ \A r, s \in cw.pending : r.id = s.id => r = s
    BY DEF Followed, Unsure
  <1>4. \A i \in Attributed(late) :
           \/ i \in cw.active \/ i \in Strangers(late) \/ \E r \in Overdues(late) : i = r.id
    BY DEF Attributed
  <1>5. Attributed(late) \subseteq StartsIn(gate.size) /\ WaitIds(late) \subseteq StartsIn(gate.size)
    BY <1>1, <1>2, <1>3, <1>4, ReadMore
  <1>6. Attributed(late) \cap WaitIds(late) = {}
    <2>1. ASSUME NEW i \in Attributed(late), i \in WaitIds(late)
          PROVE  FALSE
      <3>1. CASE i \in NewStarts \ Strangers(late)
        <4>1. i \notin StartsIn(cw.size) /\ i \notin Strangers(late)
          BY <1>2, <3>1, ReadMore
        <4>2. QED
          BY <1>2, <1>3, <1>4, <4>1
      <3>2. CASE \E r \in still : i = r.id
        <4>1. PICK r \in still : i = r.id
          BY <3>2
        <4>2. i \in StartsIn(cw.size) /\ i \notin cw.active /\ i \notin Strangers(late)
          BY <1>2, <1>3, <4>1, ReadMore
        <4>3. QED
          BY <1>2, <1>3, <1>4, <4>1, <4>2
      <3>3. QED
        BY <1>1, <2>1, <3>1, <3>2
    <2>2. QED
      BY <2>1
  <1>7. QED
    BY <1>5, <1>6 DEF Unended, WaitIds

LEMMA OursJudged ==
    ASSUME CodexInv, gate.at = "read", NEW late \in BOOLEAN, TuisBefore(late) = {}
    PROVE  \A i \in Attributed(late) : i > 0 \/ i \in quiet
  <1> USE DEF CodexInv
  <1>1. gate.holders = {} /\ (Strangers(late) # {} => ~MayBeOurs)
    BY DEF TuisBefore, Strangers, Waits
  <1>2. \A i \in Expected : i \in appServer.ids \cup quiet \/ (MayBeOurs /\ appServer.pending)
    BY DEF Expected, Asked, MayBeOurs
  <1>3. \A i \in StartsIn(gate.size) : i > 0 \/ i \in Expected
    <2>1. PICK v \in Nat : v = gate.size /\ v <= Len(rollout)
      BY DEF CodexTyped, Gates, GateFits
    <2>2. ASSUME NEW i \in StartsIn(v)
          PROVE  i > 0 \/ i \in Expected
      <3>1. PICK k \in 1..v : rollout[k].id = i
        BY MarkedIn DEF StartsIn
      <3>2. k \in DOMAIN rollout
        BY <2>1, RolloutDomain DEF CodexTyped
      <3>3. QED
        BY <3>1, <3>2 DEF OursAwaited
    <2>3. QED
      BY <2>1, <2>2
  <1> HIDE DEF CodexInv
  <1>8. late => ~Recalls
    <2>1. SUFFICES ASSUME late, Recalls
                   PROVE  FALSE
      OBVIOUS
    <2>2. PICK o \in Unresolved : ~o.rpc
      BY <2>1 DEF Recalls
    <2>3. o \in Overdues(late)
      BY <2>1, <2>2 DEF Overdues, Overdue
    <2>4. Revived(Overdues(late), cw.keptTuis) = cw.keptTuis /\ cw.keptTuis # {}
      BY <2>1, <2>3 DEF Revived, Recalls
    <2>5. QED
      BY <2>4 DEF TuisBefore
  <1> USE DEF CodexInv
  <1>4. ASSUME NEW r \in Overdues(late)
        PROVE  r.id > 0 \/ r.id \in quiet
    <2>1. r \in cw.pending /\ r.id \notin appServer.ids /\ Overdue(r, late)
      BY DEF Overdues, Unresolved
    <2>2. r.id \in StartsIn(gate.size)
      BY <2>1, ReadMore DEF Followed, Unsure
    <2>3. r.id > 0 \/ r.rpc \/ r.id \in appServer.ids \cup quiet
      BY <2>1 DEF OursAwaited
    <2>4. QED
      BY <1>1, <1>2, <1>3, <1>8, <2>1, <2>2, <2>3 DEF Overdue
  <1>5. ASSUME NEW i \in Strangers(late)
        PROVE  i > 0 \/ i \in quiet
    <2>1. i \in NewIds("start") /\ i \notin appServer.ids /\ ~MayBeOurs
      BY <1>1 DEF Strangers, NewStarts
    <2>2. QED
      BY <1>2, <1>3, <2>1, ReadMore
  <1>6. \A i \in cw.active : i > 0 \/ i \in quiet
    BY DEF OursIsOurs
  <1>7. QED
    BY <1>4, <1>5, <1>6 DEF Attributed

LEMMA AllJudged ==
    ASSUME CodexInv, gate.at = "read", NEW late \in BOOLEAN,
           NEW i \in StartsIn(gate.size), i > 0, i \notin EndsIn(cw.size)
    PROVE  /\ i \in Attributed(late) \cup WaitIds(late) \cup lost
           /\ News(late) = {} => i \in cw.active \cup WaitIds(late) \cup lost
  <1> USE DEF CodexInv
  <1>1. i \notin appServer.ids /\ i \in Int
    <2>1. i \in Int
      BY ReadMore
    <2>2. QED
      BY <2>1, OursNegative
  <1>2. WaitIds(late) = {r.id : r \in Unresolved \ Overdues(late)} \cup (NewStarts \ Strangers(late))
    BY WaitingDoes
  <1>3. CASE i \in NewIds("start")
    <2>1. i \in NewStarts
      BY <1>1, <1>3 DEF NewStarts
    <2>2. QED
      BY <1>2, <2>1 DEF Attributed, News
  <1>4. CASE i \in StartsIn(cw.size)
    <2>1. i \in cw.active \cup Unsure \cup lost
      BY <1>4 DEF Followed
    <2>2. CASE i \in cw.active
      BY <1>1, <2>2 DEF Attributed
    <2>3. CASE i \in Unsure
      <3>1. PICK r \in cw.pending : r.id = i
        BY <2>3 DEF Unsure
      <3>2. r \in Unresolved /\ ~r.done
        BY <1>1, <3>1 DEF Unresolved, Followed
      <3>3. CASE r \in Overdues(late)
        BY <3>1, <3>2, <3>3 DEF Attributed, News
      <3>4. CASE r \notin Overdues(late)
        BY <1>2, <3>1, <3>2, <3>4
      <3>5. QED
        BY <3>3, <3>4
    <2>4. QED
      BY <2>1, <2>2, <2>3
  <1>5. QED
    BY <1>3, <1>4, ReadMore

LEMMA ReadIsKnown ==
    ASSUME CodexInv, gate.at = "read", NEW late \in BOOLEAN, ~Growth(late), appServer.up, ~stale
    PROVE  TurnsOf(ForeignMarks(1..gate.size) \ appServer.known) \subseteq WaitIds(late) \cup lost
  <1> USE DEF CodexInv
  <1>1. News(late) = {} /\ Attributed(late) = Unended(late)
    BY DEF Growth
  <1>2. PICK u \in Nat, v \in Nat : u = cw.size /\ v = gate.size /\ u <= v /\ v <= Len(rollout)
    BY DEF CodexTyped, CodexOwnership, Gates, GateFits
  <1>3. SUFFICES ASSUME NEW k \in ForeignMarks(1..v), k \notin appServer.known
                 PROVE  rollout[k].id \in WaitIds(late) \cup lost
    BY <1>2 DEF TurnsOf
  <1>4. /\ k \in 1..v /\ k \in DOMAIN rollout /\ k \in 1..Len(rollout) /\ rollout[k].id > 0
        /\ rollout[k] \in Marks
    BY <1>2, <1>3, RolloutDomain DEF ForeignMarks, CodexTyped
  <1>5. PICK i \in Int : i = rollout[k].id
    BY <1>4 DEF Marks
  <1>6. i \notin appServer.ids
    BY <1>4, <1>5, OursNegative
  <1>7. WaitIds(late) = {r.id : r \in Unresolved \ Overdues(late)} \cup (NewStarts \ Strangers(late))
    BY WaitingDoes
  <1>8. CASE k \in 1..u
    <2>1. i \in TurnsOf(ForeignMarks(1..u) \ appServer.known)
      BY <1>3, <1>4, <1>5, <1>8 DEF TurnsOf, ForeignMarks
    <2>2. i \in Unsure \cup lost
      BY <1>2, <2>1 DEF ServerKnows
    <2>3. CASE i \in Unsure
      <3>1. PICK r \in cw.pending : r.id = i
        BY <2>3 DEF Unsure
      <3>2. r \in Unresolved /\ r \notin Overdues(late)
        BY <1>1, <1>6, <3>1 DEF Unresolved, News
      <3>3. QED
        BY <1>5, <1>7, <3>1, <3>2
    <2>4. QED
      BY <1>5, <2>2, <2>3
  <1>9. CASE k \in (u + 1)..v /\ rollout[k].what = "start"
    <2>1. i \in NewIds("start")
      BY <1>2, <1>5, <1>9 DEF NewIds
    <2>2. i \in NewStarts \ Strangers(late)
      BY <1>1, <1>6, <2>1 DEF NewStarts, News
    <2>3. QED
      BY <1>5, <1>7, <2>2
  <1>10. CASE k \in (u + 1)..v /\ rollout[k].what = "end"
    <2>1. i \in NewIds("end")
      BY <1>2, <1>5, <1>10 DEF NewIds
    <2>2. PICK l \in DOMAIN rollout : l < k /\ rollout[l] = StartOf(i)
      BY <1>4, <1>5, <1>10 DEF RolloutFits
    <2>3. i \in StartsIn(v)
      <3>1. l \in 1..v /\ rollout[l].what = "start" /\ rollout[l].id = i
        BY <1>2, <1>4, <2>2, RolloutDomain, MarkOf DEF CodexTyped
      <3>2. QED
        BY <3>1, MarkedIn DEF StartsIn
    <2>4. i \notin EndsIn(u)
      <3>1. SUFFICES ASSUME NEW j \in 1..u, rollout[j].what = "end", rollout[j].id = i
                     PROVE  FALSE
        BY MarkedIn DEF EndsIn
      <3>2. j \in DOMAIN rollout /\ j # k /\ rollout[j] \in Marks
        BY <1>2, <1>10, RolloutDomain DEF CodexTyped
      <3>3. rollout[j] = rollout[k]
        BY <1>4, <1>5, <1>10, <3>1, <3>2 DEF Marks
      <3>4. QED
        BY <1>4, <3>2, <3>3 DEF RolloutFits
    <2>5. i \in Attributed(late) \cup WaitIds(late) \cup lost
      BY <1>2, <1>4, <1>5, <2>3, <2>4, AllJudged
    <2>6. i \notin Attributed(late)
      BY <1>1, <2>1, AttributedDoes
    <2>7. QED
      BY <1>5, <2>5, <2>6
  <1>11. QED
    <2>1. k \in 1..u \/ k \in (u + 1)..v
      BY <1>2, <1>4
    <2>2. rollout[k].what \in {"start", "end"}
      BY <1>4 DEF Marks
    <2>3. QED
      BY <1>8, <1>9, <1>10, <2>1, <2>2

LEMMA HoldersNow ==
    ASSUME CodexInv, NEW late \in BOOLEAN
    PROVE  /\ TuisNow(late) = Tuis(WritersNow(late)) /\ Ran(WritersNow(late))
           /\ TuisNow(late) \subseteq Writers /\ WritersNow(late) \subseteq Writers
           /\ WishNow(late) \in Wishes /\ WishNow(late).tuis = Tuis(WishNow(late).writers)
           /\ Ran(WishNow(late).writers) /\ WishNow(late).writers \subseteq clicked
  <1> USE DEF CodexInv
  <1>1. /\ gate.holders = Tuis(gate.writers) /\ Ran(gate.writers)
        /\ cw.keptTuis = Tuis(cw.kept) /\ Ran(cw.kept)
        /\ gate.writers \subseteq Writers /\ cw.kept \subseteq Writers
    BY DEF HoldersFit, CodexTyped, Gates, CodexOwnership
  <1>2. \/ TuisNow(late) = gate.holders \cup cw.keptTuis /\ WritersNow(late) = gate.writers \cup cw.kept
        \/ TuisNow(late) = gate.holders /\ WritersNow(late) = gate.writers
    BY DEF TuisNow, WritersNow, Revived
  <1>3. TuisNow(late) = Tuis(WritersNow(late)) /\ Ran(WritersNow(late))
    BY <1>1, <1>2 DEF Tuis, Ran
  <1>4. TuisNow(late) \subseteq Writers /\ WritersNow(late) \subseteq Writers
    BY <1>1, <1>2 DEF Tuis
  <1>5. NoWish \in Wishes /\ NoWish.writers = {} /\ NoWish.tuis = {} /\ Tuis({}) = {} /\ Ran({})
    BY DEF NoWish, Wishes, Tuis, Ran
  <1>6. cw.wish \in Wishes /\ cw.wish.tuis = Tuis(cw.wish.writers) /\ Ran(cw.wish.writers)
        /\ cw.wish.writers \subseteq clicked
    BY DEF CodexTyped, CodexOwnership, HoldersFit
  <1>7. WishNow(late) = cw.wish \/ WishNow(late) = NoWish
    BY DEF WishNow
  <1>8. QED
    BY <1>3, <1>4, <1>5, <1>6, <1>7

LEMMA OutcomeDoes ==
    ASSUME CodexInv, gate.at = "read", NEW late \in BOOLEAN, NEW expired \in BOOLEAN,
           cw' = Outcome(late, expired)
    PROVE  /\ cw' \in CodexOwnership /\ cw'.size = gate.size
           /\ cw'.active = ActiveNow(late, expired) /\ cw'.pending = PendingNow(late)
           /\ cw'.seeded = cw.seeded
           /\ cw'.holders = Tuis(cw'.writers) /\ cw'.keptTuis = Tuis(cw'.kept)
           /\ cw'.wish.tuis = Tuis(cw'.wish.writers)
           /\ Ran(cw'.writers) /\ Ran(cw'.kept) /\ Ran(cw'.wish.writers)
           /\ cw'.kept \subseteq clicked /\ cw'.wish.writers \subseteq clicked
           /\ ~cw'.external => cw'.active = {}
           /\ ~cw'.external /\ ~GrantNow(late, expired) => gate.holders = {}
  <1> USE DEF CodexInv
  <1> DEFINE grant == GrantNow(late, expired)
             wish0 == WishNow(late)
             keep == IF grant THEN WritersNow(late) \cap wish0.writers ELSE {}
             keepTuis == IF grant THEN TuisNow(late) \cap wish0.tuis ELSE {}
             wish == IF grant THEN NoWish ELSE wish0
             kept == (IF News(late) # {} THEN {} ELSE cw.kept) \cup keep
             keptTuis == (IF News(late) # {} THEN {} ELSE cw.keptTuis) \cup keepTuis
             active == ActiveNow(late, expired)
             tuis == TuisNow(late) \ keepTuis
             external == tuis # {} \/ active # {} \/ wish.on
  <1>1. /\ TuisNow(late) = Tuis(WritersNow(late)) /\ Ran(WritersNow(late))
        /\ TuisNow(late) \subseteq Writers /\ WritersNow(late) \subseteq Writers
        /\ wish0 \in Wishes /\ wish0.tuis = Tuis(wish0.writers)
        /\ Ran(wish0.writers) /\ wish0.writers \subseteq clicked
    BY HoldersNow
  <1>2. cw' = [cw EXCEPT !.size = gate.size, !.active = active, !.pending = PendingNow(late),
                   !.wish = wish, !.holders = tuis, !.writers = WritersNow(late) \ keep,
                   !.kept = kept, !.keptTuis = keptTuis, !.external = external]
    BY DEF Outcome, Granted
  <1>3. keep \subseteq WritersNow(late) /\ keep \subseteq wish0.writers /\ keepTuis = Tuis(keep)
        /\ (~grant => keepTuis = {}) /\ gate.holders \subseteq TuisNow(late)
    BY <1>1 DEF Tuis, TuisNow
  <1>4. wish \in Wishes /\ wish.tuis = Tuis(wish.writers) /\ Ran(wish.writers)
        /\ wish.writers \subseteq clicked
    <2>1. NoWish \in Wishes /\ NoWish.writers = {} /\ NoWish.tuis = {} /\ Tuis({}) = {} /\ Ran({})
      BY DEF NoWish, Wishes, Tuis, Ran
    <2>2. QED
      BY <1>1, <2>1
  <1>5. /\ cw.kept \subseteq Writers /\ cw.keptTuis = Tuis(cw.kept) /\ Ran(cw.kept)
        /\ cw.kept \subseteq clicked
    BY DEF CodexTyped, CodexOwnership, HoldersFit
  <1>6. active \subseteq Int /\ gate.size \in Nat /\ PendingNow(late) \subseteq Record
    <2>1. active \subseteq Attributed(late)
      BY DEF ActiveNow, Unended
    <2>2. QED
      BY <2>1, AttributedDoes, ReadMore, PendingNowDoes DEF CodexTyped, Gates
  <1> HIDE DEF keep, keepTuis, wish, wish0, grant, active
  <1>7. /\ kept \subseteq Writers /\ keptTuis = Tuis(kept) /\ Ran(kept) /\ kept \subseteq clicked
        /\ keptTuis \subseteq Writers
    BY <1>1, <1>3, <1>5 DEF Tuis, Ran
  <1>8. /\ tuis = Tuis(WritersNow(late) \ keep) /\ Ran(WritersNow(late) \ keep)
        /\ tuis \subseteq Writers /\ WritersNow(late) \ keep \subseteq Writers
    BY <1>1, <1>3 DEF Tuis, Ran
  <1>9. external \in BOOLEAN /\ (~external => tuis = {} /\ active = {})
    BY <1>4 DEF Wishes
  <1>10. ~external /\ ~grant => gate.holders = {}
    BY <1>3, <1>9
  <1> HIDE DEF kept, keptTuis, tuis, external
  <1>11. /\ cw' \in CodexOwnership /\ cw'.size = gate.size
         /\ cw'.active = active /\ cw'.pending = PendingNow(late)
         /\ cw'.seeded = cw.seeded /\ cw'.wish = wish /\ cw'.holders = tuis
         /\ cw'.writers = WritersNow(late) \ keep /\ cw'.kept = kept /\ cw'.keptTuis = keptTuis
         /\ cw'.external = external
    <2> DEFINE writers == WritersNow(late) \ keep
               pending == PendingNow(late)
    <2>1. writers \subseteq Writers /\ pending \subseteq Record /\ cw.seeded \subseteq Int
      BY <1>6, <1>8 DEF CodexTyped, CodexOwnership
    <2> HIDE DEF writers, pending
    <2>2. cw' = [size |-> gate.size, holders |-> tuis, writers |-> writers, active |-> active,
                 seeded |-> cw.seeded, pending |-> pending, external |-> external, kept |-> kept,
                 keptTuis |-> keptTuis, wish |-> wish]
      <3>1. cw' = [cw EXCEPT !.size = gate.size, !.active = active, !.pending = pending,
                      !.wish = wish, !.holders = tuis, !.writers = writers,
                      !.kept = kept, !.keptTuis = keptTuis, !.external = external]
        BY <1>2 DEF writers, pending
      <3>2. QED
        BY <3>1 DEF CodexTyped, CodexOwnership
    <2>3. cw' \in CodexOwnership
      <3>1. /\ gate.size \in Nat /\ tuis \in SUBSET Writers /\ writers \in SUBSET Writers
            /\ active \in SUBSET Int /\ cw.seeded \in SUBSET Int /\ pending \in SUBSET Record
            /\ kept \in SUBSET Writers /\ keptTuis \in SUBSET Writers /\ wish \in Wishes
        BY <1>4, <1>6, <1>7, <1>8, <2>1
      <3>2. external \in BOOLEAN
        BY <1>9
      <3>3. QED
        BY <2>2, <3>1, <3>2 DEF CodexOwnership
    <2>4. QED
      BY <2>2, <2>3 DEF writers, pending
  <1>12. QED
    BY <1>4, <1>7, <1>8, <1>9, <1>10, <1>11 DEF grant, active

LEMMA ClassifyKeeps ==
    ASSUME CodexInv, Classify
    PROVE  CodexInv'
  <1> USE DEF CodexInv
  <1>1. /\ gate.at = "read" /\ gate' = [gate EXCEPT !.at = "judged"]
        /\ lost' = lost \cup Forgotten
        /\ UNCHANGED <<procs, rollout, appServer, mine, resume, cmdAt, runAt, launched, clicked,
                       codexLeft>>
    BY DEF Classify
  <1>2. PICK late \in BOOLEAN, expired \in BOOLEAN : ClassifyWith(late, expired)
    BY DEF Classify
  <1>3. /\ cw' = Outcome(late, expired)
        /\ stale' = (\/ stale \/ Growth(late) \/ GrantNow(late, expired)
                     \/ cw'.external /\ ~cw.external)
        /\ quiet' = IF TuisBefore(late) = {} THEN quiet ELSE quiet \cup {i \in cw'.active : i < 0}
    BY <1>2 DEF ClassifyWith
  <1>4. /\ cw' \in CodexOwnership /\ cw'.size = gate.size
        /\ cw'.active = ActiveNow(late, expired) /\ cw'.pending = PendingNow(late)
        /\ cw'.seeded = cw.seeded
        /\ cw'.holders = Tuis(cw'.writers) /\ cw'.keptTuis = Tuis(cw'.kept)
        /\ cw'.wish.tuis = Tuis(cw'.wish.writers)
        /\ Ran(cw'.writers) /\ Ran(cw'.kept) /\ Ran(cw'.wish.writers)
        /\ cw'.kept \subseteq clicked /\ cw'.wish.writers \subseteq clicked
        /\ ~cw'.external => cw'.active = {}
        /\ ~cw'.external /\ ~GrantNow(late, expired) => gate.holders = {}
    BY <1>1, <1>3, OutcomeDoes
  <1>5. /\ gate' \in Gates /\ gate'.at = "judged" /\ gate'.by = gate.by /\ gate'.size = gate.size
        /\ gate'.holders = gate.holders /\ gate'.writers = gate.writers
    BY <1>1 DEF CodexTyped, Gates
  <1>6. /\ cw'.active \subseteq Attributed(late) \ NewIds("end")
        /\ Attributed(late) \subseteq StartsIn(gate.size)
        /\ Attributed(late) \cap WaitIds(late) = {}
        /\ WaitIds(late) \subseteq StartsIn(gate.size)
        /\ Unended(late) = Attributed(late) \ NewIds("end")
        /\ News(late) # {} => cw'.active = Unended(late)
    BY <1>1, <1>4, AttributedDoes DEF ActiveNow, Growth
  <1>7. /\ Unsure' = WaitIds(late)
        /\ \A r, s \in cw'.pending : r.id = s.id => r = s
        /\ \A r \in cw'.pending : r.done => r.id \in EndsIn(gate.size)
        /\ \A r \in cw'.pending :
              \/ \E w \in cw.pending : w.id = r.id /\ w.rpc = r.rpc
              \/ r.rpc = appServer.pending /\ r.id \in NewStarts /\ Waits(TuisBefore(late))
    BY <1>1, <1>4, PendingNowDoes DEF Unsure
  <1>8. lost' \subseteq Int /\ quiet' \subseteq Int /\ stale' \in BOOLEAN /\ lost \subseteq lost'
        /\ quiet \subseteq quiet'
    BY <1>1, <1>3, <1>4 DEF CodexTyped, CodexOwnership, Forgotten
  <1>9. CodexTyped'
    BY <1>1, <1>4, <1>5, <1>8 DEF CodexTyped
  <1>10. GateFits'
    BY <1>1, <1>4, <1>5 DEF GateFits
  <1>11. HoldersFit'
    BY <1>1, <1>4, <1>5 DEF HoldersFit, Tuis, Ran
  <1>12. Traced' = Traced
    <2>1. TurnsOf(DOMAIN rollout)' = TurnsOf(DOMAIN rollout)
      BY <1>1 DEF TurnsOf
    <2>2. StartsIn(gate.size) \subseteq TurnsOf(DOMAIN rollout)
      <3>1. gate.size \in Nat /\ gate.size <= Len(rollout)
        BY DEF CodexTyped, Gates, GateFits
      <3>2. QED
        BY <3>1, RolloutDomain DEF CodexTyped, StartsIn, MarkedIds, TurnsOf
    <2>3. quiet' \subseteq Traced
      BY <1>3, <1>6, <2>2 DEF Traced
    <2>4. QED
      BY <1>1, <1>8, <2>1, <2>3 DEF Traced
  <1>13. DueFits'
    <2>1. \A k \in DOMAIN mine.due : mine.due[k].id \in Traced \/ mine.at = "running"
      BY DEF DueFits
    <2>2. QED
      BY <1>1, <1>12, <2>1, TracedStays
  <1>14. \A i \in Expected : i \in appServer.ids \cup quiet \/ (MayBeOurs /\ appServer.pending)
    BY DEF Expected, Asked, MayBeOurs
  <1>15. \A i \in StartsIn(gate.size) : i > 0 \/ i \in Expected
    <2>1. PICK v \in Nat : v = gate.size /\ v <= Len(rollout)
      BY DEF CodexTyped, Gates, GateFits
    <2>2. ASSUME NEW i \in StartsIn(v)
          PROVE  i > 0 \/ i \in Expected
      <3>1. PICK k \in 1..v : rollout[k].id = i
        BY MarkedIn DEF StartsIn
      <3>2. k \in DOMAIN rollout
        BY <2>1, RolloutDomain DEF CodexTyped
      <3>3. QED
        BY <3>1, <3>2 DEF OursAwaited
    <2>3. QED
      BY <2>1, <2>2
  <1>16. OursAwaited'
    <2>1. Expected \subseteq Expected' /\ Asked' = Asked
      BY <1>1, <1>8 DEF Expected, Asked
    <2>2. ASSUME NEW r \in cw'.pending
          PROVE  r.id > 0 \/ r.rpc \/ r.id \in appServer.ids \cup quiet
      <3>1. CASE \E w \in cw.pending : w.id = r.id /\ w.rpc = r.rpc
        BY <3>1 DEF OursAwaited
      <3>2. CASE r.rpc = appServer.pending /\ r.id \in NewStarts
        <4>1. r.id \in StartsIn(gate.size)
          BY <1>1, <3>2, ReadMore DEF NewStarts
        <4>2. QED
          BY <1>14, <1>15, <3>2, <4>1
      <3>3. QED
        BY <1>7, <3>1, <3>2
    <2>3. QED
      BY <1>1, <1>8, <2>1, <2>2 DEF OursAwaited
  <1>17. /\ StartsIn(cw.size)' = StartsIn(gate.size) /\ EndsIn(cw.size)' = EndsIn(gate.size)
    BY <1>1, <1>4 DEF StartsIn, EndsIn, MarkedIds
  <1>18. Followed'
    <2>1. cw'.active \cup Unsure' \subseteq StartsIn(gate.size) /\ cw'.active \cap Unsure' = {}
      BY <1>6, <1>7
    <2>2. ASSUME NEW i \in StartsIn(gate.size) \ EndsIn(gate.size), i > 0
          PROVE  i \in cw'.active \cup Unsure' \cup lost'
      <3>1. i \notin EndsIn(cw.size) /\ i \notin NewIds("end")
        BY <1>1, <2>2, ReadMore
      <3>2. /\ i \in Attributed(late) \cup WaitIds(late) \cup lost
            /\ News(late) = {} => i \in cw.active \cup WaitIds(late) \cup lost
        BY <1>1, <2>2, <3>1, AllJudged
      <3>3. CASE News(late) = {}
        <4>1. i \in cw.active /\ i \notin cw'.active => i \in lost'
          BY <1>1, <3>1 DEF Forgotten
        <4>2. QED
          BY <1>7, <1>8, <3>2, <3>3, <4>1
      <3>4. CASE News(late) # {}
        BY <1>6, <1>7, <1>8, <3>1, <3>2, <3>4
      <3>5. QED
        BY <3>3, <3>4
    <2>3. cw'.seeded \subseteq lost'
      BY <1>4, <1>8 DEF Followed
    <2>4. QED
      BY <1>7, <1>17, <2>1, <2>2, <2>3 DEF Followed
  <1>19. ServerKnows'
    <2>1. ASSUME appServer'.up, ~stale'
          PROVE  TurnsOf(ForeignMarks(1..cw.size) \ appServer.known)' \subseteq Unsure' \cup lost'
      <3>1. ~Growth(late) /\ ~stale /\ appServer.up
        BY <1>1, <1>3, <2>1
      <3>2. TurnsOf(ForeignMarks(1..gate.size) \ appServer.known) \subseteq WaitIds(late) \cup lost
        BY <1>1, <3>1, ReadIsKnown
      <3>3. TurnsOf(ForeignMarks(1..cw.size) \ appServer.known)'
               = TurnsOf(ForeignMarks(1..gate.size) \ appServer.known)
        BY <1>1, <1>4 DEF TurnsOf, ForeignMarks
      <3>4. QED
        BY <1>7, <1>8, <3>2, <3>3
    <2>2. ~stale' => ~GrantNow(late, expired)
      BY <1>3
    <2>3. QED
      BY <1>4, <1>5, <2>1, <2>2 DEF ServerKnows
  <1>20. OursIsOurs'
    <2>1. CASE TuisBefore(late) = {}
      <3>1. \A i \in Attributed(late) : i > 0 \/ i \in quiet
        BY <1>1, <2>1, OursJudged
      <3>2. QED
        BY <1>6, <1>8, <3>1 DEF OursIsOurs
    <2>2. CASE TuisBefore(late) # {}
      <3>1. \A i \in cw'.active : i > 0 \/ i < 0
        BY <1>6, <1>15, OursNegative
      <3>2. QED
        BY <1>3, <2>2, <3>1 DEF OursIsOurs
    <2>3. QED
      BY <2>1, <2>2
  <1>21. QED
    BY <1>1, <1>8, <1>9, <1>10, <1>11, <1>13, <1>16, <1>18, <1>19, <1>20, CodexFrame
----------------------------------------------------------------------------

LEMMA CodexWatchBegins == CodexWatchInit => CodexInv
  <1> SUFFICES ASSUME CodexWatchInit
               PROVE  CodexInv
    OBVIOUS
  <1>1. PICK tail : /\ rollout = tail /\ lost = {tail[k].id : k \in DOMAIN tail}
                    /\ tail \in {<<>>, <<[what |-> "start", id |-> 1]>>}
                    /\ cw = [size |-> Len(tail), holders |-> {}, writers |-> {}, active |-> lost,
                             seeded |-> lost, pending |-> {}, external |-> lost # {},
                             kept |-> {}, keptTuis |-> {}, wish |-> NoWish]
    BY DEF CodexWatchInit
  <1>2. /\ codexLeft \in CodexBudgets
        /\ procs = [p \in Writers |-> [st |-> "off", kind |-> "tui", turn |-> 0]]
        /\ appServer = [up |-> TRUE, known |-> {}, ids |-> {}, pending |-> FALSE, active |-> FALSE]
        /\ mine = NoMine /\ stale = FALSE /\ gate = NoGate /\ resume = NoResume
        /\ cmdAt = "idle" /\ runAt = "none"
        /\ launched = [over |-> {}, beside |-> {}, busy |-> {}]
        /\ clicked = {} /\ quiet = {}
    BY DEF CodexWatchInit
  <1>3. /\ rollout \in Seq(Marks) /\ lost \subseteq Int
        /\ \A k \in DOMAIN rollout : rollout[k] = StartOf(1) /\ k = 1 /\ rollout[k].id = 1
                                     /\ rollout[k].what = "start"
        /\ lost = {rollout[k].id : k \in DOMAIN rollout}
        /\ Len(rollout) \in Nat /\ DOMAIN rollout = 1..Len(rollout)
    <2>1. CASE tail = <<>>
      BY <1>1, <2>1
    <2>2. CASE tail = <<[what |-> "start", id |-> 1]>>
      <3>1. [what |-> "start", id |-> 1] \in Marks
        BY DEF Marks
      <3>2. rollout \in Seq(Marks) /\ DOMAIN rollout = {1} /\ rollout[1] = StartOf(1)
            /\ Len(rollout) = 1
        BY <1>1, <2>2, <3>1 DEF StartOf
      <3>3. lost = {1} /\ StartOf(1).id = 1 /\ StartOf(1).what = "start"
        BY <1>1, <3>2 DEF StartOf
      <3>4. QED
        BY <1>1, <3>2, <3>3
    <2>3. QED
      BY <1>1, <2>1, <2>2
  <1>4. NoWish \in Wishes /\ NoWish.writers = {} /\ NoWish.tuis = {}
    BY DEF NoWish, Wishes
  <1>5. /\ cw.size = Len(rollout) /\ cw.holders = {} /\ cw.writers = {} /\ cw.active = lost
        /\ cw.seeded = lost /\ cw.pending = {} /\ (~cw.external => lost = {}) /\ cw.kept = {}
        /\ cw.keptTuis = {} /\ cw.wish = NoWish
    BY <1>1
  <1>6. CodexTyped
    <2>1. cw \in CodexOwnership
      BY <1>1, <1>3, <1>4 DEF CodexOwnership
    <2>2. procs \in [Writers -> Processes]
      BY <1>2 DEF Processes, ProcKinds
    <2>3. codexLeft \in CodexLefts /\ resume \in Resumes
      BY <1>2, CodexWatchBounds DEF CodexLefts, NoResume, Resumes
    <2>4. appServer \in Servers /\ mine \in Turns
      BY <1>2 DEF Servers, NoMine, Turns
    <2>5. QED
      BY <1>2, <1>3, <2>1, <2>2, <2>3, <2>4, NoGateFits DEF CodexTyped, RunPlaces
  <1>7. GateFits
    BY <1>2, <1>3, <1>5, NoGateFits DEF GateFits
  <1>8. HoldersFit
    BY <1>2, <1>4, <1>5, <1>6, NoGateFits DEF HoldersFit, Tuis, Ran, CodexTyped, CodexLefts
  <1>9. StartsIn(Len(rollout)) = lost /\ TurnsOf(DOMAIN rollout) = lost
    BY <1>3 DEF StartsIn, MarkedIds, TurnsOf
  <1>10. lost = {} \/ lost = {1}
    BY <1>3
  <1>11. RolloutFits
    <2>1. \E n \in Nat : TurnsOf(ForeignMarks(DOMAIN rollout)) = 1..n
      <3>1. TurnsOf(ForeignMarks(DOMAIN rollout)) = lost
        BY <1>3 DEF TurnsOf, ForeignMarks
      <3>2. lost = 1..0 \/ lost = 1..1
        BY <1>10
      <3>3. QED
        BY <3>1, <3>2
    <2>2. QED
      BY <1>2, <1>3, <2>1 DEF RolloutFits
  <1>12. DueFits
    <2>1. Traced = {}
      BY <1>2, <1>9, <1>10 DEF Traced
    <2>2. Traced = (0 - 0)..(0 - 1) /\ 0 \in Nat
      BY <2>1
    <2>3. mine.at = "none" /\ DOMAIN mine.due = {}
      BY <1>2 DEF NoMine
    <2>4. QED
      BY <2>2, <2>3 DEF DueFits
  <1>13. OursAwaited
    <2>1. mine.at = "none" /\ DOMAIN mine.due = {}
      BY <1>2 DEF NoMine
    <2>2. QED
      BY <1>2, <1>3, <1>5, <2>1 DEF OursAwaited
  <1>14. Followed
    BY <1>5, <1>9 DEF Followed, Unsure
  <1>15. ServerKnows
    <2>1. TurnsOf(ForeignMarks(1..cw.size) \ appServer.known) \subseteq lost
      BY <1>3, <1>5 DEF TurnsOf, ForeignMarks
    <2>2. QED
      BY <1>2, <1>5, <2>1, NoGateFits DEF ServerKnows
  <1>16. LaunchedAlone /\ LaunchedUpToDate /\ OursIsOurs
    BY <1>2, <1>5, <1>10 DEF LaunchedAlone, LaunchedUpToDate, OursIsOurs
  <1>17. QED
    BY <1>6, <1>7, <1>8, <1>11, <1>12, <1>13, <1>14, <1>15, <1>16 DEF CodexInv

LEMMA CodexWatchStuttersKeeps ==
    ASSUME CodexInv, UNCHANGED codexVars
    PROVE  CodexInv'
  <1>1. UNCHANGED <<procs, rollout, appServer, mine, cw, stale, gate, resume, runAt, launched,
                    clicked, lost, quiet, codexLeft>>
    BY DEF codexVars
  <1>2. CodexTyped'
    BY <1>1 DEF CodexInv, CodexTyped
  <1>3. QED
    BY <1>1, <1>2, CodexFrame DEF CodexInv

LEMMA CodexWatchKeeps == CodexInv /\ [CodexWatchNext]_codexVars => CodexInv'
  <1> SUFFICES ASSUME CodexInv, [CodexWatchNext]_codexVars
               PROVE  CodexInv'
    OBVIOUS
  <1>1. ASSUME NEW p \in Writers,
               ProcStarts(p) \/ ProcExits(p) \/ ForeignStarts(p) \/ ForeignEnds(p)
        PROVE  CodexInv'
    BY <1>1, ProcStartsKeeps, ProcExitsKeeps, ForeignStartsKeeps, ForeignEndsKeeps
  <1>2. CASE ServerBegins \/ ServerBeginsAlone \/ ServerLogs \/ Announced \/ StartFails \/ ServerEnds
    BY <1>2, ServerBeginsKeeps, ServerBeginsAloneKeeps, ServerLogsKeeps, AnnouncedKeeps,
       StartFailsKeeps, ServerEndsKeeps
  <1>3. CASE LoopPolls \/ LaneEnters \/ RunEnters
    BY <1>3, EnterKeeps
  <1>4. CASE LoopDone \/ PromptJudged \/ TakeoverUnsure
    BY <1>4, LeaveKeeps
  <1>5. CASE ScanRollout \/ StatRollout \/ Classify \/ CommandArrives \/ ReloadReads
    BY <1>5, ScanRolloutKeeps, StatRolloutKeeps, ClassifyKeeps, ArriveKeeps
  <1>6. CASE TakeoverDecided \/ RunStarts \/ Reloaded \/ RunJudged
    BY <1>6, TakeoverDecidedKeeps, RunStartsKeeps, ReloadedKeeps, RunJudgedKeeps
  <1>7. CASE UNCHANGED codexVars
    BY <1>7, CodexWatchStuttersKeeps
  <1>8. QED
    BY <1>1, <1>2, <1>3, <1>4, <1>5, <1>6, <1>7 DEF CodexWatchNext

(* In every state the processes known to the watch, the markers of the        *)
(* rollout, the turns that are followed or wait to be attributed, and what    *)
(* the app-server has read fit together, however many processes, turns,       *)
(* commands and faults there are (_poll_codex_watch, _grant_codex_takeover,   *)
(* _run_turn).                                                                *)
THEOREM CodexWatchInvariant == CodexWatchSpec => []CodexInv
  <1>1. QED
    BY CodexWatchBegins, CodexWatchKeeps, PTL DEF CodexWatchSpec

(* A turn of ours is started beside no TUI that was not taken over and beside *)
(* no known writer in a turn that was read; no prompt goes over a foreign     *)
(* turn that the app-server has not read, a takeover keeps out only processes *)
(* that were there, and no turn of ours is held to be foreign, outside the    *)
(* windows that the properties name (_poll_codex_watch, _handle_takeover,     *)
(* _run_turn).                                                                *)
THEOREM CodexWatchIsSafe == CodexWatchSpec => []CodexWatchSafe
  <1>1. ASSUME CodexInv
        PROVE  CodexWatchSafe
    <2> USE <1>1 DEF CodexInv
    <2>1. CodexWatchTypeOK
      <3>1. cw.size \in 0..Len(rollout)
        BY RolloutDomain DEF CodexTyped, CodexOwnership, GateFits
      <3>2. cw.keptTuis \subseteq cw.kept /\ cw.kept \subseteq Writers
        BY DEF CodexTyped, CodexOwnership, HoldersFit, Tuis
      <3>3. cw.active \cap {r.id : r \in cw.pending} = {}
        BY DEF Followed, Unsure
      <3>4. gate = NoGate <=> gate.by = "free"
        BY NoGateFits DEF GateFits
      <3>5. QED
        BY <3>1, <3>2, <3>3, <3>4 DEF CodexWatchTypeOK
    <2>2. TakeoverIsExact
      BY DEF TakeoverIsExact, HoldersFit
    <2>3. QED
      BY <2>1, <2>2 DEF CodexWatchSafe
  <1>2. QED
    BY <1>1, CodexWatchInvariant, PTL
=============================================================================
