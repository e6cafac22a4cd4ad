------------------------------ MODULE MCLiveness ------------------------------
(* What must come to an end, in eight parts that share no state, of which a    *)
(* behaviour chooses one at its start: the writeback of a file and the scan   *)
(* of a root, the batches of tags, of pictures and of deletions, and the      *)
(* runtimes, the configuration file and the worker of a server.               *)
(* The fairness of a part is that of its module, while the part is chosen.    *)
EXTENDS Integers, TLC

CONSTANTS MaxRetries, None, w1, w2, t1, t2, s1, s2, r1, r2, r3, Torn, Gone

VARIABLES part,
          retries,   \* retries of batches so far
          job, catalog, metadata, writable, source, temporary, rollback, writer, nextAttempt,
          edits, overwritten, faults,
          root, run, scanner, frozen, claims, writebacks, disturbances,
          tagJob, item, track, claim, finish, up, stops,
          artJob, artItem, picture, artClaim, artFinish, artUp, artStops,
          row, writeback, scanning, file, lock, call, dJob, dItem, mishaps,
          rt, active, phase, generation, transition, request, retry, failures,
          config, server, setup, database, follower, overlap, bound,
          stage, open, task, service, left, failed

fileVars == <<job, catalog, metadata, writable, source, temporary, rollback, writer, nextAttempt,
              edits, overwritten, faults>>
scanVars == <<root, run, scanner, frozen, claims, writebacks, disturbances>>
tagVars == <<tagJob, item, track, claim, finish, up, stops>>
artVars == <<artJob, artItem, picture, artClaim, artFinish, artUp, artStops>>
deletionVars == <<row, writeback, scanning, file, lock, call, dJob, dItem, mishaps>>
managerVars == <<rt, active, phase, generation, transition, request, retry, failures>>
installVars == <<config, server, setup, database, follower, overlap, bound>>
lifecycleVars == <<stage, open, task, service, left, failed>>

Files == INSTANCE MetadataWriteback
    WITH worker <- writer, disturbances <- faults, Workers <- {w1, w2}, NoWorker <- None,
         MaxAttempts <- 1, MaxAttemptIds <- 2, MaxDisturbances <- 1, MaxEdits <- 0, MayStall <- FALSE

Scans == INSTANCE LibraryScan
    WITH worker <- scanner, writeback <- frozen, Workers <- {w1, w2}, NoWorker <- None,
         MaxRuns <- 1, MaxClaims <- 2, MaxVersion <- 2, MaxWritebacks <- 1, MaxDisturbances <- 1,
         MayStall <- FALSE

\* Two batches of one item each, and a batch of two deletions.
Tags == INSTANCE TagBatches
    WITH job <- tagJob, Jobs <- {1, 2}, Items <- {1, 2}, JobOf <- 1 :> 1 @@ 2 :> 2, Workers <- {w1},
         Dead <- Gone, ClaimWindow <- 2, Parallel <- 1, MaxAttempts <- 1, MaxStops <- 1, MaxClaims <- 2
Pictures == INSTANCE ArtworkBatches
    WITH Jobs <- {1, 2}, Items <- {1, 2}, JobOf <- 1 :> 1 @@ 2 :> 2, Workers <- {w1},
         Dead <- Gone, ClaimWindow <- 2, Parallel <- 1, MaxAttempts <- 1, MaxStops <- 1, MaxClaims <- 2
Deletions == INSTANCE TrackDeletion
    WITH track <- row, Tracks <- {t1, t2}, Sources <- {s1, s2}, TracksOf <- s1 :> {t1} @@ s2 :> {t1, t2},
         Admins <- {}, Workers <- {w1}, DeleteJobs <- {1}, DeleteItems <- {1, 2},
         BatchOf <- 1 :> 1 @@ 2 :> 1, TrackOf <- 1 :> t1 @@ 2 :> t2, MaxVersion <- 3, MaxMishaps <- 1

Runtimes == INSTANCE RuntimeManager
    WITH call <- transition, Runtimes <- {r1, r2, r3}, Requests <- {w1}, MaxFailures <- 2
Install == INSTANCE Installation
    WITH call <- setup, file <- config, worker <- follower, Configs <- {r1, r2}, Callers <- {w1},
         MaxFailures <- 2, MaxCrashes <- 1, MaxCalls <- 3
Lifecycle == INSTANCE WorkerLifecycle
    WITH failures <- failed, Tasks <- {"scan", "writeback"}, MaxFailures <- 2

MCInit ==
    /\ retries = 0
    /\ part \in {"writeback", "scan", "tags", "pictures", "deletion", "runtimes", "install",
                 "worker"}
    /\ Files!Init /\ Scans!Init /\ Tags!Init /\ Pictures!Init /\ Deletions!Init
    /\ Runtimes!Init /\ Install!Init /\ Lifecycle!Init
    \* A part that is not chosen starts in one state.
    /\ part # "scan" => root.enabled /\ root.managed
    /\ part # "deletion" => writeback = [t \in {t1, t2} |-> "none"]
    /\ part # "runtimes" => phase = "STARTING"
    /\ part # "install" => database = [migrated |-> FALSE, administrator |-> "none",
                                       data |-> FALSE, assets |-> FALSE]

every == <<part, retries, fileVars, scanVars, tagVars, artVars, deletionVars,
           managerVars, installVars, lifecycleVars>>

\* What the other parts keep.
OnlyFiles == UNCHANGED <<part, scanVars, tagVars, artVars, deletionVars, managerVars, installVars, lifecycleVars>>
OnlyScans == UNCHANGED <<part, fileVars, tagVars, artVars, deletionVars, managerVars, installVars, lifecycleVars>>
OnlyTags == UNCHANGED <<part, fileVars, scanVars, artVars, deletionVars, managerVars, installVars, lifecycleVars>>
OnlyPictures == UNCHANGED <<part, fileVars, scanVars, tagVars, deletionVars, managerVars, installVars, lifecycleVars>>
OnlyDeletions == UNCHANGED <<part, fileVars, scanVars, tagVars, artVars, managerVars, installVars, lifecycleVars>>
OnlyRuntimes == UNCHANGED <<part, fileVars, scanVars, tagVars, artVars, deletionVars, installVars, lifecycleVars>>
OnlyInstall == UNCHANGED <<part, fileVars, scanVars, tagVars, artVars, deletionVars, managerVars, lifecycleVars>>
OnlyLifecycle == UNCHANGED <<part, fileVars, scanVars, tagVars, artVars, deletionVars, managerVars, installVars>>

\* Whoever retries a batch for ever makes the younger ones wait for ever: the
\* queue serves the oldest.
Counted(again) == retries' = (IF again THEN retries + 1 ELSE retries) /\ retries' <= MaxRetries
MCNext ==
    \/ part = "writeback" /\ Files!Next /\ OnlyFiles /\ UNCHANGED retries
    \/ part = "scan" /\ Scans!Next /\ OnlyScans /\ UNCHANGED retries
    \/ part = "tags" /\ Tags!Next /\ OnlyTags /\ Counted(\E j \in {1, 2} : Tags!RetryBatch(j))
    \/ part = "pictures" /\ Pictures!Next /\ OnlyPictures /\ Counted(\E j \in {1, 2} : Pictures!RetryBatch(j))
    \/ part = "deletion" /\ Deletions!Next /\ OnlyDeletions /\ UNCHANGED retries
    \/ part = "runtimes" /\ Runtimes!Next /\ OnlyRuntimes /\ UNCHANGED retries
    \/ part = "install" /\ Install!Next /\ OnlyInstall /\ UNCHANGED retries
    \/ part = "worker" /\ Lifecycle!Next /\ OnlyLifecycle /\ UNCHANGED retries

\* The actions each part is fair to; only the chosen part moves, so those with
\* one number share a condition. Processes poll and goroutines run; a lease that
\* nobody renews lapses, a delay passes, a writeback in the way of a scan or of
\* a deletion ends (the first part shows it), and a request returns. Nobody
\* has to ask for anything, and nothing has to fail.
FairStep(k) ==
    \/ /\ part = "writeback"
       /\ \/ k = 1 /\ Files!Claim
          \/ k = 2 /\ Files!LeaseLapses /\ ~\E w \in {w1, w2} : Files!Executing(w)
          \/ k = 3 /\ Files!Process(w1)
          \/ k = 4 /\ Files!Process(w2)
       /\ OnlyFiles
    \/ /\ part = "scan"
       /\ \/ k = 1 /\ Scans!SettleWriteback
          \/ k = 2 /\ Scans!LeaseExpires
          \/ k = 3 /\ Scans!Start(w1)
          \/ k = 4 /\ Scans!Start(w2)
          \/ k = 5 /\ (Scans!EnqueueScheduledScan(w1) \/ Scans!Claim(w1))
          \/ k = 6 /\ (Scans!EnqueueScheduledScan(w2) \/ Scans!Claim(w2))
          \/ k = 7 /\ Scans!Scan(w1)
          \/ k = 8 /\ Scans!Scan(w2)
       /\ OnlyScans
    \/ /\ part = "tags"
       /\ \/ k = 1 /\ Tags!Work(w1)
          \/ k \in {2, 3} /\ Tags!Execute(w1, k - 1)
          \/ k \in {4, 5} /\ Tags!LeaseLapses(k - 3) /\ claim[w1][k - 3] = "none"
          \/ k \in {6, 7} /\ Tags!RetryIsDue(k - 5)
       /\ OnlyTags
    \/ /\ part = "pictures"
       /\ \/ k = 1 /\ Pictures!Work(w1)
          \/ k \in {2, 3} /\ Pictures!Execute(w1, k - 1)
          \/ k \in {4, 5} /\ Pictures!LeaseLapses(k - 3) /\ artClaim[w1][k - 3] = "none"
          \/ k \in {6, 7} /\ Pictures!RetryIsDue(k - 5)
       /\ OnlyPictures
    \/ /\ part = "deletion"
       /\ \/ k = 1 /\ Deletions!Step(w1)
          \/ k = 2 /\ Deletions!ClaimPermanentDeleteBatchItem(w1)
          \/ k \in {3, 4} /\ Deletions!Due(k - 2)
          \/ k = 5 /\ Deletions!WritebackEnds(t1)
          \/ k = 6 /\ Deletions!WritebackEnds(t2)
       /\ OnlyDeletions
    \/ /\ part = "runtimes"
       /\ \/ k = 1 /\ Runtimes!Progress
          \/ k = 2 /\ Runtimes!Start
          \/ k = 3 /\ Runtimes!RetryRuntime
          \/ k = 4 /\ Runtimes!Retirement(r1)
          \/ k = 5 /\ Runtimes!Retirement(r2)
          \/ k = 6 /\ Runtimes!Retirement(r3)
          \/ k = 7 /\ Runtimes!release(w1)
       /\ OnlyRuntimes
    \/ /\ part = "install"
       /\ \/ k = 1 /\ Install!Server
          \/ k = 2 /\ Install!Worker
          \/ k = 3 /\ (Install!Setup(w1) \/ Install!Settings(w1) \/ Install!Save(w1))
       /\ OnlyInstall
    \/ /\ part = "worker"
       /\ \/ k = 1 /\ Lifecycle!Starting
          \/ k = 2 /\ Lifecycle!Ending
          \/ k = 3 /\ Lifecycle!runBackgroundPoller("scan")
          \/ k = 4 /\ Lifecycle!runBackgroundPoller("writeback")
          \/ k = 5 /\ Lifecycle!runBatchWorkers("tags")
          \/ k = 6 /\ Lifecycle!runBatchWorkers("artwork")
       /\ OnlyLifecycle

MCSpec == MCInit /\ [][MCNext]_every /\ \A k \in 1..8 : WF_every(FairStep(k) /\ UNCHANGED retries)

\* What is under way, two things at a time: two batches of a kind, a runtime that
\* does not serve and the first start of one, the start and the end of a worker.
UnderWay(k) ==
    CASE part = "writeback" -> job.status = "PROCESSING"
      [] part = "scan"      -> Scans!IsActive(run)
      [] part = "tags"      -> Tags!Active(tagJob[k])
      [] part = "pictures"  -> Pictures!Active(artJob[k])
      [] part = "deletion"  -> Deletions!ActiveBatch(1)
      [] part = "runtimes"  -> IF k = 1 THEN rt[r1].open /\ active # r1 ELSE retry # "off"
      [] part = "install"   -> overlap = {} /\ follower.config # config.path
      [] part = "worker"    -> stage = IF k = 1 THEN "open" ELSE "waitTasks"
Over(k) ==
    CASE part = "tags"     -> tagJob[k].status \in Tags!EndStatuses
      [] part = "pictures" -> artJob[k].status \in Pictures!EndStatuses
      [] part = "worker"   -> stage \in IF k = 1 THEN {"up", "failed"} ELSE {"closed"}
      [] OTHER             -> ~UnderWay(k)

(* Whatever crashes, shutdowns, lost leases and failures come between: a      *)
(* writeback and a scan that were started end, so that their source can be    *)
(* edited again; a batch ends; a runtime that is built and does not serve is  *)
(* closed, and the first start is retried until it succeeds or the server     *)
(* stops; the worker process follows the saved configuration; a worker that   *)
(* starts comes up or fails, and one that ends is closed.                     *)
EverythingEnds == \A k \in {1, 2} : UnderWay(k) ~> Over(k)
==============================================================================
