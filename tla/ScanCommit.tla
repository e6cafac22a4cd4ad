------------------------------ MODULE ScanCommit -------------------------------
(***************************************************************************)
(* internal/modules/adminsources: the commit workers of a scan              *)
(* (scanner.go runPipelineStream, production_sync_batch.go).                *)
(*                                                                         *)
(* A worker takes prepared files off a channel and puts them into one       *)
(* database transaction, a savepoint each.  A changed or new file is        *)
(* stored in that transaction and keeps the lock of its source row until    *)
(* the batch commits.  A moved file is not: syncStandardFileWithOptions     *)
(* begins a transaction of its own for it, on a second connection of the    *)
(* pool, while the batch stays open.  PostgreSQL sees two sessions here     *)
(* and cannot know that one goroutine is behind both.                       *)
(*                                                                         *)
(* A row is named by the path it has in the snapshot.  What the files mean  *)
(* for the catalogue is in module LibraryFiles; here only the row locks     *)
(* and the connections matter.                                              *)
(***************************************************************************)
EXTENDS Naturals, FiniteSets, Sequences

CONSTANTS
    Paths,        \* audio files of the root, on disk or in the snapshot
    Contents,     \* file contents
    Absent,       \* no file, or no row
    Workers,      \* commit workers
    NoWorker,     \* a row nobody has locked
    BatchSize,    \* LOCAL_MUSIC_SCAN_COMMIT_BATCH_SIZE
    Connections,  \* connections the pool has for this scan
    Reoccupied    \* a moved file may have left its old path to another file

ASSUME CommitAssumption ==
    /\ Absent \notin Contents /\ NoWorker \notin Workers /\ IsFiniteSet(Workers)
    /\ BatchSize \in Nat \ {0} /\ Connections \in Nat
    /\ Reoccupied \in BOOLEAN

VARIABLES
    rows,     \* the content of each row of the snapshot
    disk,     \* the content of each file that was found
    found,    \* files not yet prepared
    ready,    \* prepared files no worker has taken
    batch,    \* the files each worker still has to commit
    phase,    \* what each worker is doing
    target,   \* the rows a worker's own transaction is to lock
    claimed,  \* rows claimed for a renamed file
    lock,     \* the worker whose batch transaction has locked a row
    free      \* connections in the pool

vars == <<rows, disk, found, ready, batch, phase, target, claimed, lock, free>>

-----------------------------------------------------------------------------
Known(p) == rows[p] # Absent
UnchangedFile(p) == Known(p) /\ rows[p] = disk[p]

Candidates(p) == {q \in Paths : rows[q] = disk[p]}

(* markSourceSeen, when PrepareFile meets the file in its place. *)
Seen(q) == UnchangedFile(q) /\ q \notin found

(* Mutant of RenamedFrom: also for a file that has a row of its own. *)
RenamedFromAnyFile(p) ==
    {q \in Paths \ {p} : Candidates(p) = {q} /\ q \notin claimed /\ ~Seen(q)}

(* findRenameCandidates and claimRenameCandidate: one row has the content,  *)
(* and neither the file at its own path nor another rename has taken it.    *)
RenamedFrom(p) ==
    {q \in Paths : ~Known(p) /\ Candidates(p) = {q} /\ q \notin claimed /\ ~Seen(q)}

(* A moved file whose old path holds a file with other content. *)
MovedAndReplaced(r, d) ==
    \E p, q \in Paths :
        /\ r[p] = Absent /\ d[p] # Absent
        /\ r[q] = d[p] /\ d[q] \notin {Absent, r[q]}

Init ==
    /\ rows \in [Paths -> Contents \cup {Absent}]
    /\ disk \in [Paths -> Contents \cup {Absent}]
    /\ ~Reoccupied => ~MovedAndReplaced(rows, disk)
    /\ found = {p \in Paths : disk[p] # Absent}
    /\ ready = {}
    /\ target = [w \in Workers |-> {}]
    /\ batch = [w \in Workers |-> <<>>]
    /\ phase = [w \in Workers |-> "idle"]
    /\ claimed = {}
    /\ lock = [p \in Paths |-> NoWorker]
    /\ free = Connections

Goes(w, from, to) == phase[w] = from /\ phase' = [phase EXCEPT ![w] = to]

Drops(w) == batch' = [batch EXCEPT ![w] = Tail(@)]

Wants(w, paths) == target' = [target EXCEPT ![w] = paths]

SameFiles == UNCHANGED <<rows, disk, found>>

-----------------------------------------------------------------------------
PrepareFile(p) ==
    /\ p \in found
    /\ found' = found \ {p}
    /\ ready' = ready \cup {p}
    /\ UNCHANGED <<rows, disk, batch, phase, target, claimed, lock, free>>

Batches == UNION {[1..n -> ready] : n \in 1..BatchSize}

(* The batch is what the channel held, or what came before the timer fired. *)
TakeBatch(w) ==
    /\ Goes(w, "idle", "taken")
    /\ \E files \in Batches :
           /\ \A i, j \in DOMAIN files : files[i] = files[j] => i = j
           /\ batch' = [batch EXCEPT ![w] = files]
           /\ ready' = ready \ {files[i] : i \in DOMAIN files}
    /\ SameFiles /\ UNCHANGED <<target, claimed, lock, free>>

(* An unchanged file sends its whole batch down the one-by-one path, and so *)
(* does a file that changed since it was prepared, or a failed Begin.       *)
GoOneByOne(w) ==
    /\ Goes(w, "taken", "alone")
    /\ SameFiles /\ UNCHANGED <<ready, batch, target, claimed, lock, free>>

BeginBatch(w) ==
    /\ \A i \in DOMAIN batch[w] : ~UnchangedFile(batch[w][i])
    /\ free > 0
    /\ Goes(w, "taken", "batch")
    /\ free' = free - 1
    /\ SameFiles /\ UNCHANGED <<ready, batch, target, claimed, lock>>

(* storeStandardFileInTransaction, in the transaction of the batch; when    *)
(* the file fails its savepoint is rolled back and the batch goes on.       *)
StoreInBatch(w) ==
    /\ phase[w] = "batch" /\ batch[w] # <<>> /\ RenamedFrom(Head(batch[w])) = {}
    /\ LET stored == {q \in {Head(batch[w])} : Known(q)} IN
           /\ \A q \in stored : lock[q] = NoWorker
           /\ lock' \in {lock, [q \in Paths |-> IF q \in stored THEN w ELSE lock[q]]}
    /\ Drops(w)
    /\ SameFiles /\ UNCHANGED <<ready, phase, target, claimed, free>>

(* The unchanged rename: a second transaction while the batch is open. *)
BeginRename(w) ==
    /\ batch[w] # <<>> /\ RenamedFrom(Head(batch[w])) # {} /\ free > 0
    /\ Goes(w, "batch", "rename")
    /\ Wants(w, RenamedFrom(Head(batch[w])))
    /\ claimed' = claimed \cup RenamedFrom(Head(batch[w]))
    /\ free' = free - 1
    /\ SameFiles /\ UNCHANGED <<ready, batch, lock>>

(* It is moving a row to the path of another file. *)
Renaming(w) ==
    phase[w] \in {"rename", "own"} /\ target[w] \notin {{}, {Head(batch[w])}}

(* SELECT ... FOR UPDATE has its row, the transaction ends one way or the   *)
(* other; a rename that did not commit gives up its claim.                  *)
EndOwn(w, from, to) ==
    /\ \A q \in target[w] : lock[q] = NoWorker
    /\ Goes(w, from, to)
    /\ claimed' \in {claimed, IF Renaming(w) THEN claimed \ target[w] ELSE claimed}
    /\ Wants(w, {})
    /\ free' = free + 1
    /\ Drops(w)
    /\ SameFiles /\ UNCHANGED <<ready, lock>>

EndRename(w) == EndOwn(w, "rename", "batch")

(* Mutant of CommitBatch: the deferred rollback returns it once more. *)
CommitBatchTwice(w) ==
    /\ batch[w] = <<>>
    /\ Goes(w, "batch", "idle")
    /\ lock' = [q \in Paths |-> IF lock[q] = w THEN NoWorker ELSE lock[q]]
    /\ free' = free + 2
    /\ SameFiles /\ UNCHANGED <<ready, batch, target, claimed>>

CommitBatch(w) ==
    /\ batch[w] = <<>>
    /\ Goes(w, "batch", "idle")
    /\ lock' = [q \in Paths |-> IF lock[q] = w THEN NoWorker ELSE lock[q]]
    /\ free' = free + 1
    /\ SameFiles /\ UNCHANGED <<ready, batch, target, claimed>>

(* One file in a transaction of its own, no other one open. *)
BeginAlone(w) ==
    /\ batch[w] # <<>> /\ free > 0
    /\ Goes(w, "alone", "own")
    /\ LET p == Head(batch[w]) IN
           /\ Wants(w, IF Known(p) THEN {p} ELSE RenamedFrom(p))
           /\ claimed' = claimed \cup RenamedFrom(p)
    /\ free' = free - 1
    /\ SameFiles /\ UNCHANGED <<ready, batch, lock>>

EndAlone(w) == EndOwn(w, "own", "alone")

EndAll(w) ==
    /\ batch[w] = <<>>
    /\ Goes(w, "alone", "idle")
    /\ SameFiles /\ UNCHANGED <<ready, batch, target, claimed, lock, free>>

Step(w) ==
    \/ TakeBatch(w) \/ GoOneByOne(w) \/ BeginBatch(w) \/ StoreInBatch(w)
    \/ BeginRename(w) \/ EndRename(w) \/ CommitBatch(w)
    \/ BeginAlone(w) \/ EndAlone(w) \/ EndAll(w)

Over == found \cup ready = {} /\ \A w \in Workers : phase[w] = "idle"

Next ==
    \/ \E p \in Paths : PrepareFile(p)
    \/ \E w \in Workers : Step(w)
    \/ Over /\ UNCHANGED vars

Spec == Init /\ [][Next]_vars

-----------------------------------------------------------------------------
TypeOK ==
    /\ {rows, disk} \subseteq [Paths -> Contents \cup {Absent}]
    /\ found \subseteq Paths /\ ready \subseteq Paths
    /\ batch \in [Workers -> Seq(Paths)]
    /\ phase \in [Workers -> {"idle", "taken", "batch", "rename", "alone", "own"}]
    /\ target \in [Workers -> SUBSET Paths]
    /\ claimed \subseteq Paths
    /\ lock \in [Paths -> Workers \cup {NoWorker}]
    /\ free \in 0..Connections

(* Two files with the same new content never move the same row at once, on   *)
(* whichever path their batches went: a claim is not given twice.            *)
OneRename ==
    \A v, w \in Workers :
        v # w /\ Renaming(v) /\ Renaming(w) => target[v] \cap target[w] = {}

(* "Only the stable, non-reusable standard-file path is safe to place in a  *)
(* shared transaction": no file of a batch waits for a lock its own batch   *)
(* holds, which nothing would ever release.                                 *)
NeverWaitsForOwnBatch ==
    \A w \in Workers : phase[w] = "rename" => \A q \in target[w] : lock[q] # w
=============================================================================
