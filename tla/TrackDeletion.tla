--------------------------- MODULE TrackDeletion ---------------------------
(* Permanent deletion of tracks and the batches of it (modules/adminmutation):*)
(* the files of a track are renamed out of sight inside the transaction that  *)
(* deletes its rows, and removed after the commit.  Administrators delete     *)
(* single tracks, batch workers the items of a batch, one at a time per job.  *)
EXTENDS Integers, FiniteSets, FiniteSetsExt

CONSTANTS Tracks,
          Sources,     \* files of the library
          TracksOf,    \* the tracks cut from each file
          Admins,      \* administrators that delete single tracks
          Workers,     \* batch workers
          DeleteJobs,  \* numbers of the batches, in the order of created_at
          DeleteItems, \* numbers of the items, in the order of position
          BatchOf, TrackOf,
          None, Gone,
          MaxVersion,  \* bound: edits of one track
          MaxMishaps   \* bound: crashes, stops, lapsed leases, failed renames

Callers == Admins \union Workers

VARIABLES track,      \* status and version of each row, "GONE" without one
          writeback,  \* the active writeback of each track
          scanning,   \* a scan of the music root is PENDING or RUNNING
          file,       \* is the file in place, hidden or removed
          lock,       \* the row lock of each track
          call,       \* the deletion each caller executes
          dJob, dItem,
          mishaps

deletionVars == <<track, writeback, scanning, file, lock, call, dJob, dItem, mishaps>>
rowVars == <<track, writeback, file, lock>>
queueVars == <<dJob, dItem>>

Answers == {"done", "missing", "conflict", "failed"}
Phases == {"idle", "claimed", "read", "hiding", "deleting", "restoring", "committed"}
NoCall == [phase |-> "idle", track |-> None, version |-> 0, item |-> None,
           files |-> {}, hidden |-> {}]
NewDeleteItem == [status |-> "ABSENT", expected |-> 0, due |-> TRUE,
                  owner |-> None, live |-> FALSE]
NewDeleteJob == [status |-> "ABSENT", processed |-> 0, failed |-> 0]

TypeOK ==
    /\ track \in [Tracks -> [status : {"READY", "ARCHIVED", "GONE"}, version : 1..MaxVersion]]
    /\ writeback \in [Tracks -> {"none", "queued", "running", "cancelling"}]
    /\ scanning \in BOOLEAN
    /\ file \in [Sources -> {"there", "hidden", "removed"}]
    /\ lock \in [Tracks -> Callers \union {None}]
    /\ call \in [Callers -> [phase : Phases \union Answers, track : Tracks \union {None},
                   version : 0..MaxVersion, item : DeleteItems \union {None},
                   files : SUBSET Sources, hidden : SUBSET Sources]]
    /\ dItem \in [DeleteItems ->
                   [status : {"ABSENT", "PENDING", "RUNNING", "SUCCEEDED", "FAILED"},
                    expected : 0..MaxVersion, due : BOOLEAN,
                    owner : Workers \union {None, Gone}, live : BOOLEAN]]
    /\ dJob \in [DeleteJobs -> [status : {"ABSENT", "PENDING", "RUNNING", "COMPLETED", "FAILED"},
                                processed : Nat, failed : Nat]]
    /\ mishaps \in 0..MaxMishaps

Init ==
    /\ track = [t \in Tracks |-> [status |-> "READY", version |-> 1]]
    /\ writeback \in [Tracks -> {"none", "queued", "running"}]
    /\ scanning = FALSE
    /\ file = [s \in Sources |-> "there"]
    /\ lock = [t \in Tracks |-> None]
    /\ call = [c \in Callers |-> NoCall]
    /\ dJob = [j \in DeleteJobs |-> NewDeleteJob]
    /\ dItem = [i \in DeleteItems |-> NewDeleteItem]
    /\ mishaps = 0

SourcesOf(t) == {s \in Sources : t \in TracksOf[s]}
TrackCount(s) == Cardinality({t \in TracksOf[s] : track[t].status # "GONE"})

\* Whose files go: a file that other tracks are cut from stays.
OwnSourcesUnchecked(t) == SourcesOf(t)
OwnSources(t) == {s \in SourcesOf(t) : TrackCount(s) <= 1}

CanDeleteTrackPermanently(t) == track[t].status = "ARCHIVED"
CheckTrackVersion(t, v) == track[t].version = v
Deletable(t, v) == CheckTrackVersion(t, v) /\ CanDeleteTrackPermanently(t)
Answered(c, answer) == call' = [call EXCEPT ![c].phase = answer]

---------------------------------------------------------------------------
(* One deletion *)

Request(c, t) ==
    /\ c \in Admins /\ call[c].phase = "idle"
    /\ call' = [call EXCEPT ![c] = [NoCall EXCEPT !.phase = "claimed", !.track = t,
                                                  !.version = track[t].version]]
    /\ UNCHANGED <<rowVars, scanning, queueVars, mishaps>>

\* The row, the sources and the scans are read one after the other, before
\* the transaction and without a lock.
Read(c) ==
    LET t == call[c].track
    IN  /\ call[c].phase = "claimed"
        /\ \/ track[t].status = "GONE" /\ Answered(c, "missing")
           \/ /\ track[t].status # "GONE" /\ ~Deletable(t, call[c].version)
              /\ Answered(c, "failed")
           \/ /\ Deletable(t, call[c].version) /\ scanning /\ SourcesOf(t) # {}
              /\ Answered(c, "failed")
           \/ /\ Deletable(t, call[c].version)
              /\ scanning => SourcesOf(t) = {}
              /\ call' = [call EXCEPT ![c].phase = "read", ![c].files = OwnSources(t)]
        /\ UNCHANGED <<rowVars, scanning, queueVars, mishaps>>

versionFailureMissing(t) == "missing"
versionFailure(t) == IF track[t].status = "GONE" THEN "missing" ELSE "failed"

DeletionWritebackConflict(t) == writeback[t] \in {"running", "cancelling"}
CancelledForDeletion(t) ==
    [writeback EXCEPT ![t] = IF DeletionWritebackConflict(t) THEN "cancelling" ELSE "none"]

\* A writeback in progress is told to stop, and the deletion refused.
Lock(c) ==
    LET t == call[c].track
    IN  /\ call[c].phase = "read" /\ lock[t] = None
        /\ \/ /\ ~(CheckTrackVersion(t, call[c].version) /\ CanDeleteTrackPermanently(t))
              /\ Answered(c, versionFailure(t))
              /\ UNCHANGED <<writeback, lock>>
           \/ /\ Deletable(t, call[c].version)
              /\ writeback' = CancelledForDeletion(t)
              /\ \/ DeletionWritebackConflict(t) /\ Answered(c, "conflict") /\ UNCHANGED lock
                 \/ /\ ~DeletionWritebackConflict(t)
                    /\ Answered(c, "hiding")
                    /\ lock' = [lock EXCEPT ![t] = c]
        /\ UNCHANGED <<track, file, scanning, queueVars, mishaps>>

\* A file that is not there is passed over.
Hide(c, s) ==
    /\ call[c].phase = "hiding" /\ s \in call[c].files
    /\ IF file[s] = "there"
       THEN /\ file' = [file EXCEPT ![s] = "hidden"]
            /\ call' = [call EXCEPT ![c].files = @ \ {s}, ![c].hidden = @ \union {s}]
       ELSE /\ call' = [call EXCEPT ![c].files = @ \ {s}]
            /\ UNCHANGED file
    /\ UNCHANGED <<track, writeback, lock, scanning, queueVars, mishaps>>

Hidden(c) ==
    /\ call[c].phase = "hiding" /\ call[c].files = {}
    /\ Answered(c, "deleting")
    /\ UNCHANGED <<rowVars, scanning, queueVars, mishaps>>

\* Every hidden file goes back, except those whose rename fails.
RestoreStagedSourceFiles(c, kept) ==
    /\ kept \subseteq call[c].hidden
    /\ mishaps + Cardinality(kept) <= MaxMishaps
    /\ mishaps' = mishaps + Cardinality(kept)
    /\ file' = [s \in Sources |-> IF s \in call[c].hidden \ kept THEN "there" ELSE file[s]]
    /\ call' = [call EXCEPT ![c].phase = "failed", ![c].files = {}, ![c].hidden = {}]

\* A file that cannot be hidden: the others go back while the row is locked.
HideFails(c, kept) ==
    /\ call[c].phase = "hiding" /\ call[c].files # {}
    /\ RestoreStagedSourceFiles(c, kept)
    /\ lock' = [lock EXCEPT ![call[c].track] = None]
    /\ UNCHANGED <<track, writeback, scanning, queueVars>>

\* The rows of the track go in one transaction: its playlist entries, a new
\* first track for the sources it shares, the row with all that hangs on it,
\* albums and artists left empty, assets nothing refers to any longer.
DeleteRows(c) ==
    /\ call[c].phase = "deleting"
    /\ track' = [track EXCEPT ![call[c].track].status = "GONE"]
    /\ lock' = [lock EXCEPT ![call[c].track] = None]
    /\ writeback' = [writeback EXCEPT ![call[c].track] = "none"]
    /\ Answered(c, "committed")
    /\ UNCHANGED <<file, scanning, queueVars, mishaps>>

\* A statement fails, or the answer of the commit is lost and the rows may be
\* gone; either way the lock is released before the files go back.
DeleteFails(c) ==
    /\ call[c].phase = "deleting"
    /\ Answered(c, "restoring")
    /\ lock' = [lock EXCEPT ![call[c].track] = None]
    /\ \/ UNCHANGED <<track, writeback, mishaps>>
       \/ /\ mishaps < MaxMishaps /\ mishaps' = mishaps + 1
          /\ track' = [track EXCEPT ![call[c].track].status = "GONE"]
          /\ writeback' = [writeback EXCEPT ![call[c].track] = "none"]
    /\ UNCHANGED <<file, scanning, queueVars>>

RestoreUnhidden(c, kept) ==
    /\ call[c].phase = "restoring" /\ kept = {}
    /\ call' = [call EXCEPT ![c].phase = "failed", ![c].files = {}, ![c].hidden = {}]
    /\ UNCHANGED <<rowVars, scanning, queueVars, mishaps>>
Restore(c, kept) ==
    /\ call[c].phase = "restoring"
    /\ RestoreStagedSourceFiles(c, kept)
    /\ UNCHANGED <<track, writeback, lock, scanning, queueVars>>

\* A file that cannot be removed stays hidden and is reported as quarantined.
Finalize(c, quarantined) ==
    /\ call[c].phase = "committed" /\ quarantined \subseteq call[c].hidden
    /\ file' = [s \in Sources |-> IF s \in call[c].hidden \ quarantined THEN "removed" ELSE file[s]]
    /\ call' = [call EXCEPT ![c].phase = "done", ![c].hidden = {}]
    /\ UNCHANGED <<track, writeback, lock, scanning, queueVars, mishaps>>

\* The administrator reads the answer.
Reply(c) ==
    /\ c \in Admins /\ call[c].phase \in Answers
    /\ call' = [call EXCEPT ![c] = NoCall]
    /\ UNCHANGED <<rowVars, scanning, queueVars, mishaps>>

---------------------------------------------------------------------------
(* Batches *)

ItemsOfBatch(j) == {i \in DeleteItems : BatchOf[i] = j}
ActiveBatch(j) == dJob[j].status \in {"PENDING", "RUNNING"}
Requeued(record) == [record EXCEPT !.status = "PENDING", !.owner = None, !.live = FALSE]
Lapsed(record) == record.status = "RUNNING" /\ ~record.live
Recovered(items) ==
    [i \in DeleteItems |->
       IF Lapsed(items[i]) THEN [Requeued(items[i]) EXCEPT !.due = TRUE] ELSE items[i]]

CreatePermanentDeleteBatch(j) ==
    /\ dJob[j].status = "ABSENT"
    /\ \A k \in DeleteJobs : k < j => dJob[k].status # "ABSENT"
    /\ \A i \in ItemsOfBatch(j) : /\ lock[TrackOf[i]] = None
                                  /\ CanDeleteTrackPermanently(TrackOf[i])
    /\ dJob' = [dJob EXCEPT ![j].status = "PENDING"]
    /\ dItem' = [i \in DeleteItems |->
                   IF BatchOf[i] = j
                   THEN [dItem[i] EXCEPT !.status = "PENDING", !.expected = track[TrackOf[i]].version]
                   ELSE dItem[i]]
    /\ UNCHANGED <<rowVars, scanning, call, mishaps>>

\* The first item that waits must be due, and only one item of a job runs.
FirstPending(items, j) == Min({i \in ItemsOfBatch(j) : items[i].status = "PENDING"})
ClaimableBatches(items) ==
    {j \in DeleteJobs :
       /\ ActiveBatch(j)
       /\ \A i \in ItemsOfBatch(j) : items[i].status # "RUNNING"
       /\ \E i \in ItemsOfBatch(j) : items[i].status = "PENDING"
       /\ items[FirstPending(items, j)].due}

ClaimPermanentDeleteBatchItem(w) ==
    LET items == Recovered(dItem)
        j == Min(ClaimableBatches(items))
        i == FirstPending(items, j)
    IN  /\ call[w].phase = "idle" /\ ClaimableBatches(items) # {}
        /\ dItem' = [items EXCEPT ![i].status = "RUNNING", ![i].owner = w, ![i].live = TRUE]
        /\ dJob' = [dJob EXCEPT ![j].status = "RUNNING"]
        /\ call' = [call EXCEPT ![w] = [NoCall EXCEPT !.phase = "claimed", !.item = i,
                      !.track = TrackOf[i], !.version = items[i].expected]]
        /\ UNCHANGED <<rowVars, scanning, mishaps>>

\* A new process puts back what lapsed; so does every claim.
InitializePermanentDeleteBatches ==
    /\ Recovered(dItem) # dItem
    /\ dItem' = Recovered(dItem)
    /\ UNCHANGED <<rowVars, scanning, call, dJob, mishaps>>

Owned(w) == /\ call[w].item # None
            /\ dItem[call[w].item].status = "RUNNING" /\ dItem[call[w].item].owner = w

\* The renewal does not look at the expiry it replaces.
RenewPermanentDeleteBatchItem(w) ==
    /\ Owned(w) /\ ~dItem[call[w].item].live
    /\ dItem' = [dItem EXCEPT ![call[w].item].live = TRUE]
    /\ UNCHANGED <<rowVars, scanning, call, dJob, mishaps>>

\* Outcome of an item: a writeback in progress puts it off, a missing track
\* counts as deleted, anything else is final.  A lost lease records nothing.
Postponed(i) == [dItem EXCEPT ![i] = [Requeued(@) EXCEPT !.due = FALSE]]
ItemOutcome(answer) == IF answer \in {"done", "missing"} THEN "SUCCEEDED" ELSE "FAILED"
CompletePermanentDeleteBatchItem(i, outcome) ==
    LET j == BatchOf[i]
        failed == dJob[j].failed + (IF outcome = "FAILED" THEN 1 ELSE 0)
        total == Cardinality(ItemsOfBatch(j))
    IN  /\ dItem' = [dItem EXCEPT ![i] = [Requeued(@) EXCEPT !.status = outcome]]
        /\ dJob' = [dJob EXCEPT ![j] =
             [status |-> IF dJob[j].processed + 1 # total THEN "RUNNING"
                         ELSE IF failed > 0 THEN "FAILED" ELSE "COMPLETED",
              processed |-> dJob[j].processed + 1, failed |-> failed]]

CompleteUnfenced(w) ==
    /\ w \in Workers /\ call[w].phase \in Answers
    /\ CompletePermanentDeleteBatchItem(call[w].item, ItemOutcome(call[w].phase))
    /\ call' = [call EXCEPT ![w] = NoCall]
    /\ UNCHANGED <<rowVars, scanning, mishaps>>

Complete(w) ==
    /\ w \in Workers /\ call[w].phase \in Answers
    /\ \/ ~Owned(w) /\ UNCHANGED queueVars
       \/ Owned(w) /\ call[w].phase = "conflict" /\ dItem' = Postponed(call[w].item) /\ UNCHANGED dJob
       \/ /\ Owned(w) /\ call[w].phase # "conflict"
          /\ CompletePermanentDeleteBatchItem(call[w].item, ItemOutcome(call[w].phase))
    /\ call' = [call EXCEPT ![w] = NoCall]
    /\ UNCHANGED <<rowVars, scanning, mishaps>>

\* A process that stops, or cannot renew, gives the item back whatever the
\* deletion came to.
ReleasePermanentDeleteBatchItem(w) ==
    /\ w \in Workers /\ call[w].phase \in Answers /\ mishaps < MaxMishaps
    /\ dItem' = IF Owned(w) THEN [dItem EXCEPT ![call[w].item] = [Requeued(@) EXCEPT !.due = TRUE]]
                ELSE dItem
    /\ call' = [call EXCEPT ![w] = NoCall]
    /\ mishaps' = mishaps + 1
    /\ UNCHANGED <<rowVars, scanning, dJob>>

\* The delay before the next attempt passes.
Due(i) ==
    /\ ~dItem[i].due
    /\ dItem' = [dItem EXCEPT ![i].due = TRUE]
    /\ UNCHANGED <<rowVars, scanning, call, dJob, mishaps>>

---------------------------------------------------------------------------
(* Around the deletions *)

\* The process of a caller dies: its locks go, the files it hid stay hidden.
Crash(c) ==
    /\ call[c].phase # "idle" /\ mishaps < MaxMishaps
    /\ mishaps' = mishaps + 1
    /\ lock' = [t \in Tracks |-> IF lock[t] = c THEN None ELSE lock[t]]
    /\ dItem' = IF Owned(c) THEN [dItem EXCEPT ![call[c].item].owner = Gone, ![call[c].item].live = FALSE]
                ELSE dItem
    /\ call' = [call EXCEPT ![c] = NoCall]
    /\ UNCHANGED <<track, writeback, file, scanning, dJob>>

\* A process is suspended past the expiry of its lease.
LeaseLapses(w) ==
    /\ Owned(w) /\ dItem[call[w].item].live /\ mishaps < MaxMishaps
    /\ dItem' = [dItem EXCEPT ![call[w].item].live = FALSE]
    /\ mishaps' = mishaps + 1
    /\ UNCHANGED <<rowVars, scanning, call, dJob>>

ArchiveTrack(t) ==
    /\ lock[t] = None /\ track[t].status = "READY" /\ track[t].version < MaxVersion
    /\ track' = [track EXCEPT ![t] = [status |-> "ARCHIVED", version |-> @.version + 1]]
    /\ writeback' = [writeback EXCEPT ![t] = IF @ \in {"running", "cancelling"}
                                             THEN "cancelling" ELSE "none"]
    /\ UNCHANGED <<file, lock, scanning, call, queueVars, mishaps>>

RestoreTrack(t) ==
    /\ lock[t] = None /\ track[t].status = "ARCHIVED" /\ track[t].version < MaxVersion
    /\ track' = [track EXCEPT ![t] = [status |-> "READY", version |-> @.version + 1]]
    /\ UNCHANGED <<writeback, file, lock, scanning, call, queueVars, mishaps>>

WritebackRuns(t) ==
    /\ writeback[t] = "queued" /\ lock[t] = None
    /\ writeback' = [writeback EXCEPT ![t] = "running"]
    /\ UNCHANGED <<track, file, lock, scanning, call, queueVars, mishaps>>
WritebackEnds(t) ==
    /\ DeletionWritebackConflict(t) /\ lock[t] = None
    /\ writeback' = [writeback EXCEPT ![t] = "none"]
    /\ UNCHANGED <<track, file, lock, scanning, call, queueVars, mishaps>>

ScanStartsOrEnds ==
    /\ scanning' = ~scanning
    /\ UNCHANGED <<rowVars, call, queueVars, mishaps>>

---------------------------------------------------------------------------
Step(c) ==
    \/ Read(c) \/ Lock(c) \/ Hidden(c) \/ DeleteRows(c) \/ DeleteFails(c)
    \/ \E s \in Sources : Hide(c, s)
    \/ \E kept \in SUBSET Sources : HideFails(c, kept) \/ Restore(c, kept) \/ Finalize(c, kept)
    \/ Reply(c) \/ Complete(c)

Next ==
    \/ \E c \in Callers : Step(c) \/ Crash(c)
    \/ \E a \in Admins, t \in Tracks : Request(a, t)
    \/ \E w \in Workers : \/ ClaimPermanentDeleteBatchItem(w) \/ RenewPermanentDeleteBatchItem(w)
                          \/ ReleasePermanentDeleteBatchItem(w) \/ LeaseLapses(w)
    \/ \E j \in DeleteJobs : CreatePermanentDeleteBatch(j)
    \/ \E i \in DeleteItems : Due(i)
    \/ InitializePermanentDeleteBatches
    \/ \E t \in Tracks : ArchiveTrack(t) \/ RestoreTrack(t) \/ WritebackRuns(t) \/ WritebackEnds(t)
    \/ ScanStartsOrEnds

Spec == Init /\ [][Next]_deletionVars

---------------------------------------------------------------------------
(* Properties *)

\* A file is removed only when no track is left that is cut from it, whatever
\* the deletions of the tracks that share it do meanwhile.
FilesGoWithTheirTracks ==
    \A s \in Sources : file[s] = "removed" => \A t \in TracksOf[s] : track[t].status = "GONE"

\* Unless a process died or a rename failed, a file is out of sight only while
\* its deletion is in progress or after the rows of its tracks are gone: a
\* deletion that fails leaves the library as it found it.
NothingStaysHidden ==
    \A s \in Sources :
        file[s] = "hidden" /\ mishaps = 0 =>
            \/ \E c \in Callers : s \in call[c].hidden
            \/ \A t \in TracksOf[s] : track[t].status = "GONE"

\* The counters of a batch are those of its items, and it has ended exactly
\* when all of them have: no attempt is counted twice, none is forgotten.
DeleteCountersAgree ==
    \A j \in DeleteJobs :
        LET ended == {i \in ItemsOfBatch(j) : dItem[i].status \in {"SUCCEEDED", "FAILED"}}
        IN  /\ dJob[j].processed = Cardinality(ended)
            /\ dJob[j].failed = Cardinality({i \in ended : dItem[i].status = "FAILED"})
            /\ dJob[j].status \in {"COMPLETED", "FAILED"} <=> ended = ItemsOfBatch(j)

\* An item reported as deleted is of a track that is gone, also when the
\* attempt that deleted it could not report it.
ReportedIsDeleted ==
    \A i \in DeleteItems : dItem[i].status = "SUCCEEDED" => track[TrackOf[i]].status = "GONE"
============================================================================
