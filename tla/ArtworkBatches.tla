-------------------------- MODULE ArtworkBatches --------------------------
(* Batches that look for the pictures of artists (admintagscraping/artist_   *)
(* artwork_batch_*.go).  The queue is built like that of the tags, but an    *)
(* item succeeds in the very transaction that attaches the picture, a        *)
(* cancellation takes the waiting items out at once, and every claim first   *)
(* recovers what lapsed in any job.                                          *)
EXTENDS BatchQueue

VARIABLES artJob,     \* artist_artwork_scraping_jobs
          artItem,    \* artist_artwork_scraping_job_items
          picture,    \* of an item's artist: missing, from the batch, or changed
          artClaim,   \* artClaim[w][i]: what process w holds of item i
          artFinish,  \* the job w is about to finish
          artUp,      \* processes that accept work
          artStops

artVars == <<artJob, artItem, picture, artClaim, artFinish, artUp, artStops>>

TypeOK ==
    /\ artJob \in [Jobs -> JobRecords]
    /\ artItem \in [Items -> ItemRecords]
    /\ picture \in [Items -> {"missing", "scraped", "changed"}]
    /\ artClaim \in [Workers -> [Items -> Claims]]
    /\ artFinish \in [Workers -> Jobs \union {None}]
    /\ artUp \in [Workers -> BOOLEAN]
    /\ artStops \in 0..MaxStops

Init ==
    /\ artJob = [j \in Jobs |-> NewJob]
    /\ artItem = [i \in Items |-> NewItem]
    /\ picture = [i \in Items |-> "missing"]
    /\ artClaim = [w \in Workers |-> NoClaims]
    /\ artFinish = [w \in Workers |-> None]
    /\ artUp = [w \in Workers |-> TRUE]
    /\ artStops = 0

recount(record, items, j) ==
    [record EXCEPT !.processed = CountOf(items, j, Outcomes),
                   !.succeeded = CountOf(items, j, {"SUCCEEDED"}),
                   !.failed = CountOf(items, j, {"FAILED"})]

\* One transaction takes the artists that have no picture and whose version is
\* the expected one; without any there is no job.
Create(j, chosen) ==
    /\ artJob[j].status = "ABSENT"
    /\ \A k \in Jobs : k < j => artJob[k].status # "ABSENT"
    /\ chosen \subseteq {i \in ItemsOf(j) : picture[i] = "missing"} /\ chosen # {}
    /\ artJob' = [artJob EXCEPT ![j].status = "PENDING"]
    /\ artItem' = [i \in Items |->
            IF i \in chosen THEN [artItem[i] EXCEPT !.status = "PENDING"] ELSE artItem[i]]
    /\ UNCHANGED <<picture, artClaim, artFinish, artUp, artStops>>

\* Somebody else edits the artist or uploads a picture.
EditArtist(i) ==
    /\ picture[i] = "missing"
    /\ picture' = [picture EXCEPT ![i] = "changed"]
    /\ UNCHANGED <<artJob, artItem, artClaim, artFinish, artUp, artStops>>

SkipPending(items, j) ==
    [i \in Items |-> IF JobOf[i] = j /\ items[i].status = "PENDING"
                     THEN Ended(items[i], "SKIPPED") ELSE items[i]]

RequestCancel(j) ==
    /\ Active(artJob[j]) /\ ~artJob[j].cancel
    /\ artItem' = SkipPending(artItem, j)
    /\ artJob' = [artJob EXCEPT ![j] = [recount(artJob[j], artItem', j) EXCEPT !.cancel = TRUE]]
    /\ UNCHANGED <<picture, artClaim, artFinish, artUp, artStops>>

RetryBatch(j) ==
    LET reset == [i \in Items |->
            IF JobOf[i] = j /\ artItem[i].status = "FAILED"
            THEN [Requeued(artItem[i]) EXCEPT !.attempts = 0] ELSE artItem[i]]
    IN  /\ artJob[j].status \in {"FAILED", "COMPLETED"}
        /\ reset # artItem
        /\ artItem' = reset
        /\ artJob' = [artJob EXCEPT ![j] = [recount(artJob[j], reset, j) EXCEPT
                                              !.status = "PENDING", !.cancel = FALSE]]
        /\ UNCHANGED <<picture, artClaim, artFinish, artUp, artStops>>

---------------------------------------------------------------------------
(* Claiming *)

\* Every lapsed item of every job: the last attempt decides, other items go
\* back to the queue, also those of a cancelled job.
recoverExpired ==
    [i \in Items |->
       IF ~(artItem[i].status = "RUNNING" /\ ~artItem[i].live) THEN artItem[i]
       ELSE IF artItem[i].attempts < MaxAttempts THEN Requeued(artItem[i])
       ELSE Ended(artItem[i], IF artJob[JobOf[i]].cancel THEN "SKIPPED" ELSE "FAILED")]

recountAffectedNever(items) == artJob

\* Only jobs that lost an item for good are counted again.
recountAffected(items) ==
    [j \in Jobs |->
       IF \E i \in ItemsOf(j) : Active(artItem[i]) /\ ~Active(items[i])
       THEN recount(artJob[j], items, j) ELSE artJob[j]]

Claimable(record) ==
    record.status = "PENDING" /\ record.due /\ record.attempts < MaxAttempts

JobsToClaimWithItems(items) ==
    {j \in Jobs : Active(artJob[j]) /\ \E i \in ItemsOf(j) : Claimable(items[i])}

JobsToClaim(items) ==
    {j \in Jobs : /\ Active(artJob[j])
                  /\ \/ \E i \in ItemsOf(j) : Claimable(items[i])
                     \/ \A i \in ItemsOf(j) : ~Active(items[i])}

Take(items, taken, w) ==
    [i \in Items |-> IF i \in taken
                     THEN [items[i] EXCEPT !.status = "RUNNING", !.attempts = @ + 1,
                                           !.owner = w, !.live = TRUE]
                     ELSE items[i]]

ClaimItems(w) ==
    LET items == recoverExpired
        jobs == recountAffected(items)
        j == Min(JobsToClaim(items))
        taken == Earliest({i \in ItemsOf(j) : Claimable(items[i])})
    IN  /\ artUp[w] /\ artFinish[w] = None /\ artClaim[w] = NoClaims
        /\ \/ /\ JobsToClaim(items) = {} /\ items # artItem
              /\ artItem' = items /\ artJob' = jobs
              /\ UNCHANGED <<artClaim, artFinish>>
           \/ /\ JobsToClaim(items) # {} /\ artJob[j].cancel
              /\ artItem' = SkipPending(items, j)
              /\ artJob' = [jobs EXCEPT ![j] = recount(artJob[j], artItem', j)]
              /\ artFinish' = [artFinish EXCEPT ![w] = j]
              /\ UNCHANGED artClaim
           \/ /\ JobsToClaim(items) # {} /\ ~artJob[j].cancel /\ taken = {}
              /\ artItem' = items /\ artJob' = jobs
              /\ artFinish' = [artFinish EXCEPT ![w] = j]
              /\ UNCHANGED artClaim
           \/ /\ JobsToClaim(items) # {} /\ ~artJob[j].cancel /\ taken # {}
              /\ Outstanding(artClaim) + Cardinality(taken) <= MaxClaims
              /\ artItem' = Take(items, taken, w)
              /\ artJob' = [jobs EXCEPT ![j].status = "RUNNING"]
              /\ artClaim' = [artClaim EXCEPT ![w] =
                    [i \in Items |-> IF i \in taken THEN "queued" ELSE "none"]]
              /\ UNCHANGED artFinish
    /\ UNCHANGED <<picture, artUp, artStops>>

FinishBatch(w) ==
    LET j == artFinish[w] IN
    /\ j # None
    /\ artFinish' = [artFinish EXCEPT ![w] = None]
    /\ IF artUp[w] /\ Active(artJob[j]) /\ \A i \in ItemsOf(j) : ~Active(artItem[i])
       THEN artJob' = [artJob EXCEPT ![j] =
              [recount(artJob[j], artItem, j) EXCEPT !.status =
                 IF artJob[j].cancel THEN "CANCELLED"
                 ELSE IF CountOf(artItem, j, {"FAILED"}) > 0 THEN "FAILED" ELSE "COMPLETED"]]
       ELSE UNCHANGED artJob
    /\ UNCHANGED <<artItem, picture, artClaim, artUp, artStops>>

LeaseLapses(i) ==
    /\ artItem[i].status = "RUNNING" /\ artItem[i].live
    /\ artItem' = [artItem EXCEPT ![i].live = FALSE]
    /\ UNCHANGED <<artJob, picture, artClaim, artFinish, artUp, artStops>>

RetryIsDue(i) ==
    /\ artItem[i].status = "PENDING" /\ ~artItem[i].due
    /\ artItem' = [artItem EXCEPT ![i].due = TRUE]
    /\ UNCHANGED <<artJob, picture, artClaim, artFinish, artUp, artStops>>

---------------------------------------------------------------------------
(* Executing one item *)

ItemOwned(w, i) ==
    artItem[i].status = "RUNNING" /\ artItem[i].owner = w /\ artItem[i].live

\* The fence inside the transaction that attaches the picture.
Lock(w, i) ==
    /\ ~artJob[JobOf[i]].cancel /\ Active(artJob[JobOf[i]])
    /\ ItemOwned(w, i)

Now(w, i, value) == artClaim' = [artClaim EXCEPT ![w][i] = value]

\* The sources are asked for the artist's name.  Without a match an error that
\* may pass puts the item off; with one it does not matter.  The snapshot taken
\* with the claim skips artists that changed before.
SearchArtists(w, i) ==
    /\ artUp[w] /\ artClaim[w][i] = "queued"
    /\ Cardinality({k \in Items : artClaim[w][k] \in Executing}) < Parallel
    /\ \/ Now(w, i, "SKIPPED") \/ Now(w, i, "FAILED")
       \/ ~artJob[JobOf[i]].cancel /\ (Now(w, i, "found") \/ Now(w, i, "RETRY"))
    /\ UNCHANGED <<artJob, artItem, picture, artFinish, artUp, artStops>>

\* The download and the upload that come before: they fail, for good or not, or
\* find the artist gone; nothing is attached.
DownloadFails(w, i) ==
    /\ artUp[w] /\ artClaim[w][i] = "found"
    /\ Now(w, i, "FAILED") \/ Now(w, i, "RETRY") \/ Now(w, i, "SKIPPED")
    /\ UNCHANGED <<artJob, artItem, picture, artFinish, artUp, artStops>>

CommitSuccessLater(i) == UNCHANGED <<artItem, artJob>>

CommitSuccess(i) ==
    /\ artItem' = [artItem EXCEPT ![i] = Ended(@, "SUCCEEDED")]
    /\ artJob' = [artJob EXCEPT ![JobOf[i]].processed = @ + 1,
                                ![JobOf[i]].succeeded = @ + 1]

\* The completion of the upload: fence, version of the artist, picture and
\* outcome of the item in one transaction.  Its answer may be lost.
ApplyArtistArtwork(w, i) ==
    /\ artUp[w] /\ artClaim[w][i] = "found"
    /\ IF Lock(w, i) /\ picture[i] = "missing"
       THEN /\ CommitSuccess(i)
            /\ picture' = [picture EXCEPT ![i] = "scraped"]
            /\ Now(w, i, "SUCCEEDED") \/ Now(w, i, "RETRY")
       ELSE /\ IF Lock(w, i) \/ artJob[JobOf[i]].cancel
               THEN Now(w, i, "SKIPPED") ELSE Now(w, i, "none")
            /\ UNCHANGED <<artJob, artItem, picture>>
    /\ UNCHANGED <<artFinish, artUp, artStops>>

\* The heartbeat: a lost lease drops the attempt, a cancelled job skips it.
RenewItemLease(w, i) ==
    /\ artClaim[w][i] = "found"
    /\ \/ Now(w, i, "none")
       \/ /\ artJob[JobOf[i]].cancel /\ Active(artJob[JobOf[i]]) /\ ItemOwned(w, i)
          /\ Now(w, i, "SKIPPED")
    /\ UNCHANGED <<artJob, artItem, picture, artFinish, artUp, artStops>>

\* A stopping process gives back what has not succeeded.
ReleaseItem(w, i) ==
    /\ ~artUp[w] /\ artClaim[w][i] \in {"queued", "found"}
    /\ artItem' = IF artItem[i].status = "RUNNING" /\ artItem[i].owner = w
                  THEN [artItem EXCEPT ![i] = [Requeued(artItem[i]) EXCEPT !.attempts = @ - 1]]
                  ELSE artItem
    /\ Now(w, i, "none")
    /\ UNCHANGED <<artJob, picture, artFinish, artUp, artStops>>

\* As soon as the item is executed: put off while attempts are left, failed
\* with the last one, skipped when the job was cancelled.
RetryItem(w, i) ==
    /\ artClaim[w][i] = "RETRY"
    /\ \/ /\ artItem[i].attempts >= MaxAttempts
          /\ Now(w, i, "FAILED") /\ UNCHANGED artItem
       \/ /\ artItem[i].attempts < MaxAttempts
          /\ IF Active(artJob[JobOf[i]]) /\ ItemOwned(w, i)
             THEN IF artJob[JobOf[i]].cancel
                  THEN Now(w, i, "SKIPPED") /\ UNCHANGED artItem
                  ELSE /\ artItem' = [artItem EXCEPT ![i] = [Ended(artItem[i], "PENDING") EXCEPT !.due = FALSE]]
                       /\ Now(w, i, "none")
             ELSE Now(w, i, "none") /\ UNCHANGED artItem
    /\ UNCHANGED <<artJob, picture, artFinish, artUp, artStops>>

---------------------------------------------------------------------------
(* The end of a window *)

Held(w) == {i \in Items : artClaim[w][i] # "none"}
WindowDone(w) == Held(w) # {} /\ \A i \in Held(w) : artClaim[w][i] \in Outcomes

Outcome(w, i) ==
    IF artJob[JobOf[i]].cancel /\ artClaim[w][i] # "SUCCEEDED" THEN "SKIPPED" ELSE artClaim[w][i]

Complete(w, j, done) ==
    LET kept == {i \in done : Active(artJob[j]) /\ ItemOwned(w, i)}
        Reached(result) == Cardinality({i \in kept : Outcome(w, i) = result})
    IN  /\ artItem' = [i \in Items |->
                IF i \in kept THEN Ended(artItem[i], Outcome(w, i)) ELSE artItem[i]]
        /\ artJob' = [artJob EXCEPT ![j].processed = @ + Cardinality(kept),
                                    ![j].succeeded = @ + Reached("SUCCEEDED"),
                                    ![j].failed = @ + Reached("FAILED")]
        /\ artClaim' = [artClaim EXCEPT ![w] = [i \in Items |-> IF i \in done THEN "none" ELSE @[i]]]

CompleteItems(w) ==
    /\ WindowDone(w)
    /\ \E j \in Jobs : Held(w) \subseteq ItemsOf(j) /\ Complete(w, j, Held(w))
    /\ UNCHANGED <<picture, artFinish, artUp, artStops>>

\* When that transaction fails the items are completed one by one.
CompleteItem(w, i) ==
    /\ WindowDone(w) /\ i \in Held(w)
    /\ Complete(w, JobOf[i], {i})
    /\ UNCHANGED <<picture, artFinish, artUp, artStops>>

\* A transaction that fails for good leaves the item to its lease.
OutcomeLost(w, i) ==
    /\ artClaim[w][i] = "RETRY" \/ (WindowDone(w) /\ i \in Held(w))
    /\ Now(w, i, "none")
    /\ UNCHANGED <<artJob, artItem, picture, artFinish, artUp, artStops>>

---------------------------------------------------------------------------
(* Processes *)

Close(w) ==
    /\ artUp[w] /\ artStops < MaxStops
    /\ artUp' = [artUp EXCEPT ![w] = FALSE] /\ artStops' = artStops + 1
    /\ UNCHANGED <<artJob, artItem, picture, artClaim, artFinish>>

Crash(w) ==
    /\ artStops < MaxStops /\ artStops' = artStops + 1
    /\ artUp' = [artUp EXCEPT ![w] = FALSE]
    /\ artClaim' = [artClaim EXCEPT ![w] = NoClaims]
    /\ artFinish' = [artFinish EXCEPT ![w] = None]
    /\ artItem' = [i \in Items |->
            IF artItem[i].owner = w THEN [artItem[i] EXCEPT !.owner = Dead] ELSE artItem[i]]
    /\ UNCHANGED <<artJob, picture>>

\* A new process has a name of its own; it recovers what lapsed meanwhile.
Start(w) ==
    LET items == recoverExpired IN
    /\ ~artUp[w] /\ artClaim[w] = NoClaims /\ artFinish[w] = None
    /\ artUp' = [artUp EXCEPT ![w] = TRUE]
    /\ artItem' = [i \in Items |->
            IF items[i].owner = w THEN [items[i] EXCEPT !.owner = Dead] ELSE items[i]]
    /\ artJob' = recountAffected(items)
    /\ UNCHANGED <<picture, artClaim, artFinish, artStops>>

---------------------------------------------------------------------------
Work(w) == ClaimItems(w) \/ FinishBatch(w) \/ CompleteItems(w) \/ Start(w)

Execute(w, i) ==
    \/ SearchArtists(w, i)
    \/ DownloadFails(w, i)
    \/ ApplyArtistArtwork(w, i)
    \/ ReleaseItem(w, i)
    \/ RetryItem(w, i)

Next ==
    \/ \E j \in Jobs : \/ \E chosen \in SUBSET ItemsOf(j) : Create(j, chosen)
                       \/ RequestCancel(j)
                       \/ RetryBatch(j)
    \/ \E i \in Items : EditArtist(i) \/ LeaseLapses(i) \/ RetryIsDue(i)
    \/ \E w \in Workers : \/ Work(w) \/ Close(w) \/ Crash(w)
                          \/ \E i \in Items : \/ Execute(w, i)
                                              \/ RenewItemLease(w, i)
                                              \/ CompleteItem(w, i)
                                              \/ OutcomeLost(w, i)

Spec == Init /\ [][Next]_artVars

---------------------------------------------------------------------------
(* Properties *)

\* The counters always agree with the items, whichever of the six statements
\* that count moved the items.
CountersAgree ==
    \A j \in Jobs : artJob[j] = recount(artJob[j], artItem, j)

\* An artist has a picture of the batch exactly when its item says so: neither
\* a lost answer nor a cancellation, a lapsed lease or a second attempt can
\* separate the two.
PictureIffSucceeded ==
    \A i \in Items : picture[i] = "scraped" <=> artItem[i].status = "SUCCEEDED"
===========================================================================
