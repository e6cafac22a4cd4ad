----------------------------- MODULE LibraryFiles ------------------------------
(***************************************************************************)
(* internal/modules/adminsources: what one scan of a music directory does  *)
(* to the local_music_sources rows of its root, while files come, go and   *)
(* move under it.                                                          *)
(*                                                                         *)
(* A scan takes a snapshot of the rows, visits the files in any order      *)
(* (prepare and commit workers), remembers unchanged sources in memory,    *)
(* stores new and changed ones, recognises a moved file by its checksum,   *)
(* records failures, then flushes what it saw and deletes the rows it did  *)
(* not see.  Nothing of this is fenced by the lease of the run: module     *)
(* LibraryScan shows that one scan walks a root at a time as long as no    *)
(* worker outlives its lease, which is the case of one scanner here.       *)
(*                                                                         *)
(* A content stands for the checksum, size and modification time of a      *)
(* file.  A row id stands for the row and for the track mapped to it, with *)
(* the playlists and favourites that hang on it.  A directory that cannot  *)
(* be read fails the scan before it touches a row (os.Stat, WalkDir).      *)
(***************************************************************************)
EXTENDS Naturals, FiniteSets

CONSTANTS
    Scanners,      \* scans that may run at the same time
    Paths,         \* relative paths of audio files
    Contents,      \* file contents
    Absent,        \* no file at a path
    MaxScans,      \* bound: scans started
    MaxIds,        \* bound: rows inserted
    MaxChanges,    \* bound: changes of the directory
    MaxFailures    \* bound: files that fail for a reason of their own

VARIABLES
    disk,      \* the content at each path
    rows,      \* the local_music_sources row of each path
    scan,      \* what each scan is doing
    clock,     \* scans started so far; the time a scan stamps on rows
    ids,       \* rows inserted so far
    changes,   \* changes of the directory so far
    failures   \* failures so far

vars == <<disk, rows, scan, clock, ids, changes, failures>>

-----------------------------------------------------------------------------
NoRow == [id |-> 0, content |-> Absent, ready |-> FALSE, seen |-> 0]
Exists(row) == row.id # 0

IdleScan ==
    [phase |-> "idle", cutoff |-> 0, before |-> [p \in Paths |-> NoRow], todo |-> {},
     seen |-> {}, claimed |-> {}, disturbed |-> {}, failed |-> FALSE, lost |-> {}]

OnDisk(p) == disk[p] # Absent

(* The rows that hold row id i: the one path it is at, or none. *)
PathsOf(i) == {p \in Paths : rows[p].id = i}

Visiting(s, p) == scan[s].phase = "walk" /\ p \in scan[s].todo

Visited(s, p, seen, claimed, failed) ==
    scan' = [scan EXCEPT ![s].todo = @ \ {p}, ![s].seen = @ \cup seen,
                         ![s].claimed = @ \cup claimed, ![s].failed = @ \/ failed]

Row(i, content, s) == [id |-> i, content |-> content, ready |-> TRUE, seen |-> scan[s].cutoff]

(* The row id i, wherever it was, is now at p. *)
MovesRow(i, p, row) ==
    rows' = [q \in Paths |-> IF q = p THEN row ELSE IF rows[q].id = i THEN NoRow ELSE rows[q]]

(* The unique index on (root_id, normalized_source_path). *)
PathIsFree(i, p) == ~Exists(rows[p]) \/ rows[p].id = i

UnchangedDisk == UNCHANGED <<disk, changes>>

-----------------------------------------------------------------------------
Init ==
    /\ disk = [p \in Paths |-> Absent]
    /\ rows = [p \in Paths |-> NoRow]
    /\ scan = [s \in Scanners |-> IdleScan]
    /\ clock = 0
    /\ ids = 0
    /\ changes = 0
    /\ failures = 0

-----------------------------------------------------------------------------
(* The directory *)

ChangesDisk(d, paths) ==
    /\ changes < MaxChanges
    /\ changes' = changes + 1
    /\ disk' = d
    /\ scan' = [s \in Scanners |->
                   IF scan[s].phase # "idle"
                   THEN [scan[s] EXCEPT !.disturbed = @ \cup paths] ELSE scan[s]]
    /\ UNCHANGED <<rows, clock, ids, failures>>

Write(p, c) == disk[p] # c /\ ChangesDisk([disk EXCEPT ![p] = c], {p})

Remove(p) == OnDisk(p) /\ ChangesDisk([disk EXCEPT ![p] = Absent], {p})

Move(p, q) ==
    /\ OnDisk(p) /\ ~OnDisk(q)
    /\ ChangesDisk([disk EXCEPT ![q] = disk[p], ![p] = Absent], {p, q})

-----------------------------------------------------------------------------
(* FilesystemScanner.Scan *)

(* startedAt, then PrepareScan loads the rows of the root. *)
StartScan(s) ==
    /\ scan[s].phase = "idle" /\ clock < MaxScans
    /\ clock' = clock + 1
    /\ scan' = [scan EXCEPT ![s] =
           [IdleScan EXCEPT !.phase = "walk", !.cutoff = clock + 1, !.before = rows, !.todo = Paths]]
    /\ UnchangedDisk /\ UNCHANGED <<rows, ids, failures>>

(* Known, unchanged and READY: only the memory of the scan changes. *)
MarksSeen(s, p) ==
    /\ Visiting(s, p) /\ OnDisk(p)
    /\ LET known == scan[s].before[p] IN
           /\ Exists(known) /\ known.ready /\ known.content = disk[p]
           /\ Visited(s, p, {known.id}, {}, FALSE)
    /\ UnchangedDisk /\ UNCHANGED <<rows, clock, ids, failures>>

(* Known but changed (or its artwork is wanting): the row is locked by its  *)
(* id and takes the path, the content and the time of this visit.           *)
StoresKnown(s, p) ==
    /\ Visiting(s, p) /\ OnDisk(p)
    /\ LET known == scan[s].before[p] IN
           /\ Exists(known) /\ PathsOf(known.id) # {} /\ PathIsFree(known.id, p)
           /\ MovesRow(known.id, p, Row(known.id, disk[p], s))
    /\ Visited(s, p, {}, {}, FALSE)
    /\ UnchangedDisk /\ UNCHANGED <<clock, ids, failures>>

(* Mutant of Candidates: only rows this scan stamped are offered. *)
CandidatesOfThisScan(s, p) ==
    LET before == scan[s].before
    IN  {before[q].id : q \in {q \in Paths : /\ before[q].ready
                                             /\ before[q].content = disk[p]
                                             /\ before[q].seen = scan[s].cutoff}}

(* findRenameCandidates: READY rows of the snapshot with the same content. *)
Candidates(s, p) ==
    LET before == scan[s].before
    IN  {before[q].id : q \in {q \in Paths : /\ before[q].ready
                                             /\ before[q].content = disk[p]
                                             /\ before[q].seen # scan[s].cutoff}}

(* claimRenameCandidate: neither claimed nor seen at its own path. *)
MayClaim(s, i) == i \notin scan[s].claimed /\ i \notin scan[s].seen

IsRename(s, p) ==
    /\ ~Exists(scan[s].before[p])
    /\ \E i \in Candidates(s, p) : Candidates(s, p) = {i} /\ MayClaim(s, i)

(* A path without a row and a single row with its content: the row moves.   *)
Renames(s, p) ==
    /\ Visiting(s, p) /\ OnDisk(p) /\ IsRename(s, p)
    /\ \E i \in Candidates(s, p), q \in Paths :
           /\ rows[q].id = i /\ rows[q].ready /\ rows[q].content = disk[p]
           /\ PathIsFree(i, p)
           /\ MovesRow(i, p, Row(i, disk[p], s))
           /\ Visited(s, p, {}, {i}, FALSE)
    /\ UnchangedDisk /\ UNCHANGED <<clock, ids, failures>>

(* A new file, or one whose row appeared after the snapshot. *)
StoresNew(s, p) ==
    /\ Visiting(s, p) /\ OnDisk(p)
    /\ ~Exists(scan[s].before[p]) /\ ~IsRename(s, p)
    /\ IF Exists(rows[p])
       THEN MovesRow(rows[p].id, p, Row(rows[p].id, disk[p], s)) /\ UNCHANGED ids
       ELSE /\ ids < MaxIds
            /\ ids' = ids + 1
            /\ MovesRow(ids + 1, p, Row(ids + 1, disk[p], s))
    /\ Visited(s, p, {}, {}, FALSE)
    /\ UnchangedDisk /\ UNCHANGED <<clock, failures>>

(* markSourceFailed: the row at the path, or a new one, was seen but is not *)
(* READY.                                                                   *)
RecordsFailure(s, p) ==
    IF Exists(rows[p])
    THEN /\ rows' = [rows EXCEPT ![p] = [@ EXCEPT !.ready = FALSE, !.seen = scan[s].cutoff]]
         /\ UNCHANGED ids
    ELSE /\ ids < MaxIds
         /\ ids' = ids + 1
         /\ rows' = [rows EXCEPT ![p] = [id |-> ids + 1, content |-> Absent, ready |-> FALSE,
                                         seen |-> scan[s].cutoff]]

(* The store cannot succeed: the row is gone, its content is no longer the  *)
(* one that was matched, or another row has the path.                       *)
StoreConflicts(s, p) ==
    LET known == scan[s].before[p] IN
    \/ Exists(known) /\ (PathsOf(known.id) = {} \/ ~PathIsFree(known.id, p))
    \/ /\ IsRename(s, p)
       /\ \A i \in Candidates(s, p) :
              \/ ~PathIsFree(i, p)
              \/ ~\E q \in PathsOf(i) : rows[q].ready /\ rows[q].content = disk[p]

FailsOnConflict(s, p) ==
    /\ Visiting(s, p) /\ OnDisk(p) /\ StoreConflicts(s, p)
    /\ RecordsFailure(s, p)
    /\ Visited(s, p, {}, {}, TRUE)
    /\ UnchangedDisk /\ UNCHANGED <<clock, failures>>

Fails(s, p) ==
    /\ Visiting(s, p) /\ failures < MaxFailures
    /\ OnDisk(p) \/ p \in scan[s].disturbed
    /\ failures' = failures + 1
    /\ UnchangedDisk /\ UNCHANGED clock

(* The file cannot be read or probed, or the database refuses it; a file    *)
(* that was listed may be gone when it is opened.                           *)
FileFails(s, p) ==
    /\ Fails(s, p)
    /\ RecordsFailure(s, p)
    /\ Visited(s, p, {}, {}, TRUE)

(* Recording that it failed fails too: the error is dropped, the scan goes on. *)
FailureIsLost(s, p) ==
    /\ Fails(s, p)
    /\ scan' = [scan EXCEPT ![s].todo = @ \ {p}, ![s].failed = TRUE, ![s].lost = @ \cup {p}]
    /\ UNCHANGED <<rows, ids>>

(* Not there, or not yet there when its directory was listed. *)
Skips(s, p) ==
    /\ Visiting(s, p) /\ (~OnDisk(p) \/ p \in scan[s].disturbed)
    /\ Visited(s, p, {}, {}, FALSE)
    /\ UnchangedDisk /\ UNCHANGED <<rows, clock, ids, failures>>

(* Mutant of FlushScan: what was remembered in memory is forgotten. *)
FlushNothing(s) ==
    /\ scan[s].phase = "walk" /\ scan[s].todo = {}
    /\ scan' = [scan EXCEPT ![s].phase = "delete"]
    /\ UnchangedDisk /\ UNCHANGED <<rows, clock, ids, failures>>

(* FlushScan: the sources remembered in memory are stamped. *)
FlushScan(s) ==
    /\ scan[s].phase = "walk" /\ scan[s].todo = {}
    /\ rows' = [p \in Paths |->
                   IF rows[p].id \in scan[s].seen /\ rows[p].seen < scan[s].cutoff
                   THEN [rows[p] EXCEPT !.seen = scan[s].cutoff] ELSE rows[p]]
    /\ scan' = [scan EXCEPT ![s].phase = "delete"]
    /\ UnchangedDisk /\ UNCHANGED <<clock, ids, failures>>

Unseen(s) == {p \in Paths : Exists(rows[p]) /\ rows[p].seen < scan[s].cutoff}

(* Rows another transaction has locked at this moment are skipped. *)
DeleteMissing(s) ==
    /\ scan[s].phase = "delete"
    /\ \E locked \in SUBSET Unseen(s) :
           rows' = [p \in Paths |-> IF p \in Unseen(s) \ locked THEN NoRow ELSE rows[p]]
    /\ scan' = [scan EXCEPT ![s] = IdleScan]
    /\ UnchangedDisk /\ UNCHANGED <<clock, ids, failures>>

(* Cancelled, failed, interrupted or crashed. *)
Abandon(s) ==
    /\ scan[s].phase # "idle"
    /\ scan' = [scan EXCEPT ![s] = IdleScan]
    /\ UnchangedDisk /\ UNCHANGED <<rows, clock, ids, failures>>

-----------------------------------------------------------------------------
Visit(s, p) ==
    \/ MarksSeen(s, p) \/ StoresKnown(s, p) \/ Renames(s, p) \/ StoresNew(s, p)
    \/ FailsOnConflict(s, p) \/ FileFails(s, p) \/ FailureIsLost(s, p)
    \/ Skips(s, p)

Next ==
    \/ \E p \in Paths, c \in Contents : Write(p, c)
    \/ \E p \in Paths : Remove(p)
    \/ \E p, q \in Paths : Move(p, q)
    \/ \E s \in Scanners :
          \/ StartScan(s) \/ FlushScan(s) \/ DeleteMissing(s) \/ Abandon(s)
          \/ \E p \in Paths : Visit(s, p)

Spec == Init /\ [][Next]_vars

-----------------------------------------------------------------------------
Rows == [id : 0..ids, content : Contents \cup {Absent}, ready : BOOLEAN, seen : 0..clock]

TypeOK ==
    /\ disk \in [Paths -> Contents \cup {Absent}]
    /\ rows \in [Paths -> Rows]
    /\ scan \in [Scanners ->
          [phase : {"idle", "walk", "delete"}, cutoff : 0..clock, before : [Paths -> Rows],
           todo : SUBSET Paths, seen : SUBSET (1..ids), claimed : SUBSET (1..ids),
           disturbed : SUBSET Paths, failed : BOOLEAN, lost : SUBSET Paths]]
    /\ {clock, ids, changes, failures} \subseteq Nat

(* "DeleteMissing removes database records for files that were not seen": a *)
(* file that lay untouched in the directory during the whole scan keeps the *)
(* source and the track it has, unless its failure could not be recorded.   *)
SeenSourcesKept ==
    [][\A s \in Scanners : DeleteMissing(s) =>
          \A p \in Paths :
              OnDisk(p) /\ p \notin scan[s].disturbed \cup scan[s].lost /\ Exists(rows[p])
              => rows'[p] = rows[p]]_vars

Untouched(s) == scan[s].disturbed = {}

(* A file moved before the scan keeps its track: the one row with its       *)
(* content, alone in the snapshot and on disk, follows it.                  *)
MovedFileKeepsTrack ==
    [][\A s \in Scanners : DeleteMissing(s) /\ Untouched(s) /\ ~scan[s].failed =>
          \A old, new \in Paths :
              /\ ~OnDisk(old) /\ OnDisk(new)
              /\ scan[s].before[old].ready /\ scan[s].before[old].content = disk[new]
              /\ ~Exists(scan[s].before[new])
              /\ \A p \in Paths \ {new} : disk[p] # disk[new]
              /\ \A p \in Paths \ {old} : scan[s].before[p].content # disk[new]
              => rows'[new].id = scan[s].before[old].id]_vars
=============================================================================
