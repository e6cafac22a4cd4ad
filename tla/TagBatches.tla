---------------------------- MODULE TagBatches ----------------------------
(* Tag scraping batches (internal/modules/admintagscraping): an              *)
(* administrator starts a batch over tracks; processes claim windows of      *)
(* items, search the music platforms, write the tags of the track and queue  *)
(* a writeback, then complete, put off or release the items.  Every          *)
(* transaction of the repository is one step.                                *)
EXTENDS BatchQueue

VARIABLES job,     \* tag_scraping_jobs
          item,    \* tag_scraping_job_items
          track,   \* tags of an item's track, against its expected version
          claim,   \* claim[w][i]: what process w holds of item i
          finish,  \* finish[w]: the job w is about to finish
          up,      \* processes that accept work
          stops

tagVars == <<job, item, track, claim, finish, up, stops>>

TypeOK ==
    /\ job \in [Jobs -> JobRecords]
    /\ item \in [Items -> ItemRecords]
    /\ track \in [Items -> {"expected", "scraped", "edited"}]
    /\ claim \in [Workers -> [Items -> Claims]]
    /\ finish \in [Workers -> Jobs \union {None}]
    /\ up \in [Workers -> BOOLEAN]
    /\ stops \in 0..MaxStops

Init ==
    /\ job = [j \in Jobs |-> NewJob]
    /\ item = [i \in Items |-> NewItem]
    /\ track = [i \in Items |-> "expected"]
    /\ claim = [w \in Workers |-> NoClaims]
    /\ finish = [w \in Workers |-> None]
    /\ up = [w \in Workers |-> TRUE]
    /\ stops = 0

Processed(items, j) == CountOf(items, j, Outcomes)

recountBatch(record, items, j) ==
    [record EXCEPT !.processed = Processed(items, j),
                   !.succeeded = CountOf(items, j, {"SUCCEEDED"}),
                   !.failed = CountOf(items, j, {"FAILED"})]

\* The version of every track must still be the expected one.
ValidVersions(j) == \A i \in ItemsOf(j) : track[i] = "expected"

CreateBatch(j, chosen) ==
    /\ job' = [job EXCEPT ![j].status = "PENDING"]
    /\ item' = [i \in Items |->
                  IF i \in chosen THEN [item[i] EXCEPT !.status = "PENDING"] ELSE item[i]]

\* The chosen items are those that miss a field asked for; a track may be
\* edited right after the check.
Create(j, chosen) ==
    /\ job[j].status = "ABSENT"
    /\ \A k \in Jobs : k < j => job[k].status # "ABSENT"
    /\ chosen \subseteq ItemsOf(j) /\ chosen # {}
    /\ ValidVersions(j)
    /\ CreateBatch(j, chosen)
    /\ UNCHANGED <<track, claim, finish, up, stops>>

\* Somebody else changes the tags: the version is no longer the expected one.
EditTrack(i) ==
    /\ track[i] = "expected"
    /\ track' = [track EXCEPT ![i] = "edited"]
    /\ UNCHANGED <<job, item, claim, finish, up, stops>>

RequestBatchCancel(j) ==
    /\ Active(job[j]) /\ ~job[j].cancel
    /\ job' = [job EXCEPT ![j].cancel = TRUE]
    /\ UNCHANGED <<item, track, claim, finish, up, stops>>

RetryBatchUncounted(j) ==
    LET reset == [i \in Items |->
            IF JobOf[i] = j /\ item[i].status = "FAILED"
            THEN [Requeued(item[i]) EXCEPT !.attempts = 0] ELSE item[i]]
    IN  /\ job[j].status \in {"FAILED", "COMPLETED"} /\ reset # item
        /\ item' = reset
        /\ job' = [job EXCEPT ![j].status = "PENDING", ![j].cancel = FALSE]
        /\ UNCHANGED <<track, claim, finish, up, stops>>

RetryBatch(j) ==
    LET reset == [i \in Items |->
            IF JobOf[i] = j /\ item[i].status = "FAILED"
            THEN [Requeued(item[i]) EXCEPT !.attempts = 0] ELSE item[i]]
    IN  /\ job[j].status \in {"FAILED", "COMPLETED"}
        /\ reset # item
        /\ item' = reset
        /\ job' = [job EXCEPT ![j] = [recountBatch(job[j], reset, j) EXCEPT
                                        !.status = "PENDING", !.cancel = FALSE]]
        /\ UNCHANGED <<track, claim, finish, up, stops>>

---------------------------------------------------------------------------
(* Claiming *)

Expired(record) == record.status = "RUNNING" /\ ~record.live
Exhausted(record) == record.attempts >= MaxAttempts
Claimable(record) == record.status = "PENDING" /\ record.due /\ ~Exhausted(record)

\* An item whose lease lapsed goes back to the queue, is skipped with its
\* cancelled job, or fails when it was its last attempt.
recoverExpiredBatchItems(items, jobs) ==
    [i \in Items |->
       IF ~(i \in Items /\ JobOf[i] \in jobs /\ Active(job[JobOf[i]])
            /\ (Expired(items[i]) \/ (items[i].status = "PENDING" /\ Exhausted(items[i]))))
       THEN items[i]
       ELSE IF job[JobOf[i]].cancel THEN Ended(items[i], "SKIPPED")
       ELSE IF Exhausted(items[i]) THEN Ended(items[i], "FAILED")
       ELSE Requeued(items[i])]

ClaimableJobsWithItems ==
    {j \in Jobs : /\ Active(job[j])
                  /\ \E i \in ItemsOf(j) : Claimable(item[i]) \/ Expired(item[i])}

\* Jobs a claim looks at, cancelled ones even when nothing of them is free.
ClaimableJobs ==
    {j \in Jobs :
       /\ Active(job[j])
       /\ \/ job[j].cancel
          \/ \E i \in ItemsOf(j) :
               \/ Claimable(item[i])
               \/ Expired(item[i]) \/ (item[i].status = "PENDING" /\ Exhausted(item[i]))
          \/ \A i \in ItemsOf(j) : ~Active(item[i])}

skipCancelledItems(items, j) ==
    [i \in Items |->
       IF JobOf[i] = j /\ (items[i].status = "PENDING" \/ Expired(items[i]))
       THEN Ended(items[i], "SKIPPED") ELSE items[i]]

\* The oldest job with something to do: its lapsed items are recovered, then
\* a window of items is taken, or the job is handed to FinishBatch.
ClaimBatchItems(w) ==
    /\ up[w] /\ finish[w] = None /\ claim[w] = NoClaims
    /\ ClaimableJobs # {}
    /\ LET j == Min(ClaimableJobs)
           recovered == recoverExpiredBatchItems(item, {j})
           counted == IF recovered = item THEN job[j] ELSE recountBatch(job[j], recovered, j)
           taken == IF job[j].cancel THEN {}
                    ELSE Earliest({i \in ItemsOf(j) : Claimable(recovered[i])})
       IN  /\ IF taken = {}
              THEN /\ finish' = [finish EXCEPT ![w] = j]
                   /\ item' = IF job[j].cancel THEN skipCancelledItems(recovered, j) ELSE recovered
                   /\ job' = [job EXCEPT ![j] = counted]
                   /\ UNCHANGED claim
              ELSE /\ Outstanding(claim) + Cardinality(taken) <= MaxClaims
                   /\ item' = [i \in Items |->
                        IF i \in taken
                        THEN [recovered[i] EXCEPT !.status = "RUNNING", !.attempts = @ + 1,
                                                  !.owner = w, !.live = TRUE]
                        ELSE recovered[i]]
                   /\ job' = [job EXCEPT ![j] = [counted EXCEPT !.status = "RUNNING"]]
                   /\ claim' = [claim EXCEPT ![w] =
                        [i \in Items |-> IF i \in taken THEN "queued" ELSE "none"]]
                   /\ UNCHANGED finish
    /\ UNCHANGED <<track, up, stops>>

FinishBatchUnchecked(w) ==
    /\ finish[w] # None
    /\ finish' = [finish EXCEPT ![w] = None]
    /\ job' = [job EXCEPT ![finish[w]].status = IF @ \in EndStatuses THEN @ ELSE "COMPLETED"]
    /\ UNCHANGED <<item, track, claim, up, stops>>

FinishBatch(w) ==
    LET j == finish[w] IN
    /\ j # None
    /\ finish' = [finish EXCEPT ![w] = None]
    /\ IF up[w] /\ Active(job[j]) /\ \A i \in ItemsOf(j) : ~Active(item[i])
       THEN job' = [job EXCEPT ![j] =
              [recountBatch(job[j], item, j) EXCEPT !.status =
                 IF job[j].cancel THEN "CANCELLED"
                 ELSE IF CountOf(item, j, {"FAILED"}) > 0 THEN "FAILED" ELSE "COMPLETED"]]
       ELSE UNCHANGED job
    /\ UNCHANGED <<item, track, claim, up, stops>>

\* The clock: a lease lapses when nobody renews it in time, a put-off item
\* becomes due.
LeaseLapses(i) ==
    /\ item[i].status = "RUNNING" /\ item[i].live
    /\ item' = [item EXCEPT ![i].live = FALSE]
    /\ UNCHANGED <<job, track, claim, finish, up, stops>>

RetryIsDue(i) ==
    /\ item[i].status = "PENDING" /\ ~item[i].due
    /\ item' = [item EXCEPT ![i].due = TRUE]
    /\ UNCHANGED <<job, track, claim, finish, up, stops>>

---------------------------------------------------------------------------
(* Executing one item *)

Owned(w, i) ==
    item[i].status = "RUNNING" /\ item[i].owner = w /\ item[i].live

\* What every transaction on a held item checks first: job and item are locked,
\* the job is not over, the attempt is the current one and its lease runs.
FenceHolds(w, i) == Active(job[JobOf[i]]) /\ Owned(w, i)

\* The fence of the transactions that write tags or queue a writeback.
LockAfterCancel(w, i) == FenceHolds(w, i)
Lock(w, i) == FenceHolds(w, i) /\ ~job[JobOf[i]].cancel

Now(w, i, value) == claim' = [claim EXCEPT ![w][i] = value]

\* A failure is worth a retry when a platform failed in a way that may pass,
\* then or earlier in the same attempt.
Fails(w, i) ==
    Now(w, i, IF claim[w][i] \in {"doubted", "kept"} THEN "RETRY" ELSE "FAILED")

\* executeItem up to the match.  Archived tracks and tracks that miss nothing
\* are skipped, a job without its administrator fails.  The sources are asked
\* one after the other; a match of one makes up for the error of another.  The
\* cancellation is read afresh when the search is over.
SearchSources(w, i) ==
    /\ up[w] /\ claim[w][i] = "queued"
    /\ Cardinality({k \in Items : claim[w][k] \in Executing}) < Parallel
    /\ \/ Now(w, i, "SKIPPED") \/ Now(w, i, "FAILED")
       \/ /\ ~job[JobOf[i]].cancel
          /\ Now(w, i, "found") \/ Now(w, i, "doubted") \/ Now(w, i, "RETRY")
    /\ UNCHANGED <<job, item, track, finish, up, stops>>

\* Lyrics and cover are fetched before anything is written: a platform that
\* fails there puts the item off.
FetchLyricsAndCover(w, i) ==
    /\ up[w] /\ claim[w][i] \in {"found", "doubted"}
    /\ Now(w, i, "RETRY")
    /\ UNCHANGED <<job, item, track, finish, up, stops>>

Written(w, i) == IF claim[w][i] = "doubted" THEN "kept" ELSE "applied"

\* The transaction that writes the tags, under the fence and if the version is
\* still the expected one; otherwise the item fails, and it may fail after the
\* commit.  A track archived meanwhile and a cancelled job skip it.
UpdateMetadata(w, i) ==
    /\ up[w] /\ claim[w][i] \in {"found", "doubted"}
    /\ \/ /\ Fails(w, i) \/ Now(w, i, "SKIPPED")
          /\ UNCHANGED track
       \/ /\ ~FenceHolds(w, i)
          /\ Now(w, i, "none") /\ UNCHANGED track
       \/ /\ Lock(w, i) /\ track[i] = "expected"
          /\ track' = [track EXCEPT ![i] = "scraped"]
          /\ Now(w, i, Written(w, i)) \/ Fails(w, i)
    /\ UNCHANGED <<job, item, finish, up, stops>>

\* The candidate says nothing new: there is no transaction.
NothingToChange(w, i) ==
    /\ up[w] /\ claim[w][i] \in {"found", "doubted"} /\ track[i] = "expected"
    /\ Now(w, i, Written(w, i))
    /\ UNCHANGED <<job, item, track, finish, up, stops>>

\* The writeback is queued in a transaction of its own, after the tags and under
\* the same fence, unless the batch asks for none; a scan or another writeback
\* of the file refuses it.
EnqueueWriteback(w, i) ==
    /\ up[w] /\ claim[w][i] \in {"applied", "kept"}
    /\ \/ Now(w, i, "SUCCEEDED") \/ Fails(w, i)
       \/ job[JobOf[i]].cancel /\ Now(w, i, "SKIPPED")
       \/ ~FenceHolds(w, i) /\ Now(w, i, "none")
    /\ UNCHANGED <<job, item, track, finish, up, stops>>

\* A renewal moves the lease of the current attempt, unless the job is cancelled.
RenewBatchItemLease(w, i) == [owned |-> FenceHolds(w, i), cancel |-> job[JobOf[i]].cancel]

\* The heartbeat, only while the item is executed: a lost lease (or a failed
\* renewal) drops the attempt, a cancelled job skips the item.
Heartbeat(w, i) ==
    /\ claim[w][i] \in Executing
    /\ \/ Now(w, i, "none")
       \/ RenewBatchItemLease(w, i) = [owned |-> TRUE, cancel |-> TRUE] /\ Now(w, i, "SKIPPED")
    /\ UNCHANGED <<job, item, track, finish, up, stops>>

\* The process is asked to stop: whatever it was doing is released, the tags
\* written or not.
StopItem(w, i) ==
    /\ ~up[w] /\ claim[w][i] \in Executing \union {"queued"}
    /\ Now(w, i, "RELEASE")
    /\ UNCHANGED <<job, item, track, finish, up, stops>>

---------------------------------------------------------------------------
(* The end of a window: releases and retries first, then one completion.     *)

Held(w) == {i \in Items : claim[w][i] # "none"}
WindowDone(w) == \A i \in Held(w) : claim[w][i] \in Decisions
ToRetry(w, i) == claim[w][i] = "RETRY" /\ ~Exhausted(item[i])
Outcome(w, i) ==
    IF job[JobOf[i]].cancel THEN "SKIPPED"
    ELSE IF claim[w][i] = "RETRY" THEN "FAILED" ELSE claim[w][i]

ReleaseBatchItemUnchecked(w, i) ==
    /\ WindowDone(w) /\ claim[w][i] = "RELEASE"
    /\ item' = [item EXCEPT ![i] = [Requeued(item[i]) EXCEPT !.attempts = @ - 1]]
    /\ Now(w, i, "none")
    /\ UNCHANGED <<job, track, finish, up, stops>>

ReleaseBatchItem(w, i) ==
    /\ WindowDone(w) /\ claim[w][i] = "RELEASE"
    /\ item' = IF item[i].status = "RUNNING" /\ item[i].owner = w
               THEN [item EXCEPT ![i] = [Requeued(item[i]) EXCEPT !.attempts = @ - 1]]
               ELSE item
    /\ Now(w, i, "none")
    /\ UNCHANGED <<job, track, finish, up, stops>>

\* A retry leaves the counters alone; a cancelled job turns it into a skip.
RetryBatchItem(w, i) ==
    /\ WindowDone(w) /\ ToRetry(w, i)
    /\ IF FenceHolds(w, i) /\ job[JobOf[i]].cancel
       THEN Now(w, i, "SKIPPED") /\ UNCHANGED item
       ELSE /\ item' = IF FenceHolds(w, i)
                       THEN [item EXCEPT ![i] = [Ended(item[i], "PENDING") EXCEPT !.due = FALSE]]
                       ELSE item
            /\ Now(w, i, "none")
    /\ UNCHANGED <<job, track, finish, up, stops>>

\* The outcomes of a set of items, of which those whose attempt is still the
\* current one count.
Complete(w, j, done) ==
    LET kept == {i \in done : FenceHolds(w, i)}
        Reached(result) == Cardinality({i \in kept : Outcome(w, i) = result})
    IN  /\ item' = [i \in Items |-> IF i \in kept THEN Ended(item[i], Outcome(w, i)) ELSE item[i]]
        /\ job' = [job EXCEPT ![j].processed = @ + Cardinality(kept),
                              ![j].succeeded = @ + Reached("SUCCEEDED"),
                              ![j].failed = @ + Reached("FAILED")]
        /\ claim' = [claim EXCEPT ![w] = [i \in Items |-> IF i \in done THEN "none" ELSE @[i]]]

ReadyToComplete(w) ==
    /\ WindowDone(w) /\ Held(w) # {}
    /\ \A i \in Held(w) : ~ToRetry(w, i) /\ claim[w][i] # "RELEASE"

CompleteBatchItems(w) ==
    /\ ReadyToComplete(w)
    /\ \E j \in Jobs : Held(w) \subseteq ItemsOf(j) /\ Complete(w, j, Held(w))
    /\ UNCHANGED <<track, finish, up, stops>>

\* When that transaction fails the items are completed one by one.
CompleteBatchItem(w, i) ==
    /\ ReadyToComplete(w) /\ i \in Held(w)
    /\ Complete(w, JobOf[i], {i})
    /\ UNCHANGED <<track, finish, up, stops>>

\* A transaction that fails for good leaves the item to its lease.
OutcomeLost(w, i) ==
    /\ WindowDone(w) /\ i \in Held(w)
    /\ Now(w, i, "none")
    /\ UNCHANGED <<job, item, track, finish, up, stops>>

---------------------------------------------------------------------------
(* Processes *)

Close(w) ==
    /\ up[w] /\ stops < MaxStops
    /\ up' = [up EXCEPT ![w] = FALSE] /\ stops' = stops + 1
    /\ UNCHANGED <<job, item, track, claim, finish>>

Crash(w) ==
    /\ stops < MaxStops /\ stops' = stops + 1
    /\ up' = [up EXCEPT ![w] = FALSE]
    /\ claim' = [claim EXCEPT ![w] = NoClaims]
    /\ finish' = [finish EXCEPT ![w] = None]
    /\ item' = [i \in Items |->
                  IF item[i].owner = w THEN [item[i] EXCEPT !.owner = Dead] ELSE item[i]]
    /\ UNCHANGED <<job, track>>

\* Start recovers what lapsed while the process was away.
Start(w) ==
    LET recovered == recoverExpiredBatchItems(item, Jobs) IN
    /\ ~up[w] /\ claim[w] = NoClaims /\ finish[w] = None
    /\ up' = [up EXCEPT ![w] = TRUE]
    /\ item' = [i \in Items |-> IF recovered[i].owner = w
                                THEN [recovered[i] EXCEPT !.owner = Dead] ELSE recovered[i]]
    /\ job' = [j \in Jobs |->
                 IF \E i \in ItemsOf(j) : recovered[i] # item[i]
                 THEN recountBatch(job[j], recovered, j) ELSE job[j]]
    /\ UNCHANGED <<track, claim, finish, stops>>

---------------------------------------------------------------------------
Work(w) ==
    \/ ClaimBatchItems(w)
    \/ FinishBatch(w)
    \/ CompleteBatchItems(w)
    \/ Start(w)

Execute(w, i) ==
    \/ SearchSources(w, i)
    \/ FetchLyricsAndCover(w, i)
    \/ UpdateMetadata(w, i)
    \/ NothingToChange(w, i)
    \/ EnqueueWriteback(w, i)
    \/ StopItem(w, i)
    \/ ReleaseBatchItem(w, i)
    \/ RetryBatchItem(w, i)

Next ==
    \/ \E j \in Jobs : \/ \E chosen \in SUBSET ItemsOf(j) : Create(j, chosen)
                       \/ RequestBatchCancel(j)
                       \/ RetryBatch(j)
    \/ \E i \in Items : EditTrack(i) \/ LeaseLapses(i) \/ RetryIsDue(i)
    \/ \E w \in Workers : \/ Work(w) \/ Close(w) \/ Crash(w)
                          \/ \E i \in Items : \/ Execute(w, i)
                                              \/ Heartbeat(w, i)
                                              \/ CompleteBatchItem(w, i)
                                              \/ OutcomeLost(w, i)

Spec == Init /\ [][Next]_tagVars

---------------------------------------------------------------------------
(* Properties *)

\* The counters an administrator sees are those of the items, whichever of
\* the statements (completion of a window or of one item, recovery, retry,
\* finish) moved the items; a cancelled job is counted again when it ends.
CountersAgree ==
    \A j \in Jobs :
        ~(job[j].cancel /\ Active(job[j])) =>
            job[j] = recountBatch(job[j], item, j)

\* Once the cancellation of a job is committed no attempt of it changes the
\* tags of a track, whatever it had already looked up.
CancelledBatchWritesNothing ==
    [][\A i \in Items : track'[i] = "scraped" /\ track[i] # "scraped"
                           => ~job[JobOf[i]].cancel]_tagVars

\* A job ends only when no item of it can still be worked on: no attempt of an
\* ended job writes, completes or releases anything.
EndedBatchIsQuiet ==
    \A j \in Jobs : job[j].status \in EndStatuses =>
        \A i \in ItemsOf(j) : ~Active(item[i]) /\ item[i].owner = None
===========================================================================
