------------------------------ MODULE LibraryScan ------------------------------
(***************************************************************************)
(* internal/modules/adminsources: the scan runs of one music source (a     *)
(* library_roots row), the workers that claim them under a lease, and the  *)
(* root status kept beside them by a database trigger and by              *)
(* reconcileRootScanState.  What a scan does to the catalogue is module    *)
(* LibraryFiles; the tag writebacks a scan must exclude are module         *)
(* MetadataWriteback, of which one bit per root is visible here.           *)
(*                                                                         *)
(* Roots do not interact (a claim locks one run and its root), so one is   *)
(* modelled, and `run` is its latest row: the partial unique index allows  *)
(* one active run per root, and nothing writes to an older row.            *)
(* last_scan_at is abstracted to never / due / recent with respect to the  *)
(* scan interval.  Since CompleteScan always dates the root, the fallback  *)
(* of the schedule on completed runs is never reached and is left out.     *)
(***************************************************************************)
EXTENDS Naturals

CONSTANTS
    Workers,          \* scan workers, over all processes
    NoWorker,         \* locked_by is null
    MaxRuns,          \* bound: runs created
    MaxClaims,        \* bound: attempt ids handed out
    MaxVersion,       \* bound: edits of the root
    MaxWritebacks,    \* bound: writebacks queued
    MaxDisturbances,  \* bound: crashes, shutdowns, failed scans and failed calls
    MayStall          \* a running worker may outlive its lease unnoticed

ASSUME ScanAssumption ==
    /\ NoWorker \notin Workers
    /\ {MaxRuns, MaxClaims, MaxVersion, MaxWritebacks, MaxDisturbances} \subseteq Nat
    /\ MayStall \in BOOLEAN

VARIABLES
    root,          \* the library_roots row
    run,           \* the latest library_scan_runs row
    worker,        \* what each worker is doing
    writeback,     \* the path a PENDING or PROCESSING writeback froze
    claims,        \* attempt ids handed out
    writebacks,    \* writebacks queued so far
    disturbances   \* disturbances so far

vars == <<root, run, worker, writeback, claims, writebacks, disturbances>>

-----------------------------------------------------------------------------
RunStatuses  == {"NONE", "PENDING", "RUNNING", "COMPLETED", "FAILED", "CANCELLED"}
RootStatuses == {"UNKNOWN", "SCANNING", "READY", "ERROR", "DISABLED"}
Ages         == {"never", "due", "recent"}

NoPath == 0

NoRun ==
    [id |-> 0, version |-> 0, status |-> "NONE", attempt |-> 0, owner |-> NoWorker,
     live |-> FALSE, cancel |-> FALSE]

IdleFrame ==
    [pc |-> "idle", run |-> 0, path |-> NoPath, attempt |-> 0,
     lost |-> FALSE, seen |-> FALSE, outcome |-> "NONE", stopping |-> FALSE]

DownFrame == [IdleFrame EXCEPT !.pc = "down"]

IsActive(r) == r.status \in {"PENDING", "RUNNING"}

(* What blocks a new writeback: a running scan whose lease has not expired. *)
HoldsRoot(r) == r.status = "RUNNING" /\ r.live

At(w, pc) == worker[w].pc = pc
Executing(w) == worker[w].pc \in {"scan", "finish"}

OwnsById(w) == run.id = worker[w].run

(* The row condition of every statement a worker makes about its run. *)
Owns(w) ==
    /\ run.id = worker[w].run
    /\ run.status = "RUNNING"
    /\ run.attempt = worker[w].attempt
    /\ run.owner = w

Becomes(w, frame) == worker' = [worker EXCEPT ![w] = frame]
Goto(w, pc) == Becomes(w, [worker[w] EXCEPT !.pc = pc])

Disturb == disturbances < MaxDisturbances /\ disturbances' = disturbances + 1
Calm == UNCHANGED disturbances

-----------------------------------------------------------------------------
(* The root row follows its runs *)

StatusForAnyRoot(r, version, status, active) ==
    IF active THEN "SCANNING"
    ELSE IF r.version # version THEN "UNKNOWN"
    ELSE IF status = "COMPLETED" THEN "READY"
    ELSE IF status = "FAILED" THEN "ERROR"
    ELSE "UNKNOWN"

(* The status of a root of row `r` after a run of `version` reached `status`. *)
StatusFor(r, version, status, active) ==
    IF ~r.enabled THEN "DISABLED"
    ELSE IF active THEN "SCANNING"
    ELSE IF r.version # version THEN "UNKNOWN"
    ELSE IF status = "COMPLETED" THEN "READY"
    ELSE IF status = "FAILED" \/ r.failed THEN "ERROR"
    ELSE IF r.scanned # "never" THEN "READY"
    ELSE "UNKNOWN"

ScannedFor(r, version, status) ==
    IF status \in {"COMPLETED", "FAILED"} /\ (r.version = version \/ r.scanned = "never")
    THEN "recent" ELSE r.scanned

(* xymusic_sync_library_root_scan_state: the trigger on a status change. *)
Trigger(r, new) ==
    IF IsActive(new)
    THEN [r EXCEPT !.status = IF r.enabled THEN "SCANNING" ELSE "DISABLED",
                   !.failed = r.failed /\ ~r.enabled]
    ELSE [r EXCEPT !.status = StatusFor(r, new.version, new.status, FALSE),
                   !.scanned = ScannedFor(r, new.version, new.status),
                   !.failed = /\ r.version = new.version
                              /\ new.status # "COMPLETED"
                              /\ new.status = "FAILED" \/ r.failed]

Reconcile(r, new) ==
    [r EXCEPT !.status = StatusFor(r, new.version, new.status, IsActive(new)),
              !.scanned = ScannedFor(r, new.version, new.status),
              !.failed = r.version = new.version /\ new.status = "FAILED"]

(* A transaction that moves the run to a new status: trigger, then          *)
(* reconcileRootScanState.                                                  *)
MovesRun(new) ==
    /\ run' = new
    /\ root' = Reconcile(Trigger(root, new), new)

Ended(status) == [run EXCEPT !.status = status, !.owner = NoWorker, !.live = FALSE]

-----------------------------------------------------------------------------
Init ==
    /\ \E enabled, managed \in BOOLEAN :
           root = [exists |-> TRUE, enabled |-> enabled, managed |-> managed, version |-> 1,
                   path |-> 1, status |-> IF enabled THEN "UNKNOWN" ELSE "DISABLED",
                   scanned |-> "never", failed |-> FALSE]
    /\ run = NoRun
    /\ worker = [w \in Workers |-> DownFrame]
    /\ writeback = NoPath
    /\ claims = 0
    /\ writebacks = 0
    /\ disturbances = 0

-----------------------------------------------------------------------------
(* The administrator *)

NewRun ==
    [NoRun EXCEPT !.id = run.id + 1, !.version = root.version, !.status = "PENDING"]

Queues ==
    /\ root.exists /\ root.enabled
    /\ ~IsActive(run) /\ run.id < MaxRuns
    /\ MovesRun(NewRun)

EnqueueScan ==
    /\ Queues
    /\ UNCHANGED <<worker, writeback, claims, writebacks, disturbances>>

CancelPendingScan ==
    /\ run.status = "PENDING"
    /\ MovesRun([Ended("CANCELLED") EXCEPT !.cancel = TRUE])
    /\ UNCHANGED <<worker, writeback, claims, writebacks, disturbances>>

CancelRunningScan ==
    /\ run.status = "RUNNING"
    /\ run' = [run EXCEPT !.cancel = TRUE]
    /\ root' = Reconcile(root, run')
    /\ UNCHANGED <<worker, writeback, claims, writebacks, disturbances>>

RunKeptOnUpdate ==
    IF run.status = "PENDING" THEN [Ended("CANCELLED") EXCEPT !.cancel = TRUE] ELSE run

RunAfterUpdate ==
    CASE run.status = "PENDING" -> [Ended("CANCELLED") EXCEPT !.cancel = TRUE]
      [] run.status = "RUNNING" -> [run EXCEPT !.cancel = TRUE]
      [] OTHER                  -> run

(* UpdateRoot: the path is frozen under a writeback, an enabled root cannot *)
(* change under a scan, and disabling it cancels the scan.                  *)
UpdateRoot ==
    /\ root.exists /\ root.version < MaxVersion
    /\ \E enabled, moved \in BOOLEAN :
           /\ moved => writeback = NoPath
           /\ ~(IsActive(run) /\ enabled)
           /\ run' = RunAfterUpdate
           /\ LET before == IF run.status = "PENDING" THEN Trigger(root, run') ELSE root
              IN  root' = [before EXCEPT
                     !.managed = FALSE, !.enabled = enabled, !.version = root.version + 1,
                     !.path = IF moved THEN root.path + 1 ELSE root.path,
                     !.status = IF ~enabled THEN "DISABLED"
                                ELSE IF root.status = "DISABLED" THEN "UNKNOWN" ELSE root.status]
    /\ UNCHANGED <<worker, writeback, claims, writebacks, disturbances>>

(* Deleting the root deletes its runs with it. *)
DeleteRoot ==
    /\ root.exists /\ ~IsActive(run) /\ writeback = NoPath
    /\ root' = [root EXCEPT !.exists = FALSE]
    /\ run' = [NoRun EXCEPT !.id = run.id]
    /\ UNCHANGED <<worker, writeback, claims, writebacks, disturbances>>

(* adminmetadata: a writeback is refused while a scan holds the root. *)
QueueWriteback ==
    /\ root.exists /\ root.enabled
    /\ ~HoldsRoot(run) /\ writeback = NoPath /\ writebacks < MaxWritebacks
    /\ writeback' = root.path
    /\ writebacks' = writebacks + 1
    /\ UNCHANGED <<root, run, worker, claims, disturbances>>

SettleWriteback ==
    /\ writeback # NoPath
    /\ writeback' = NoPath
    /\ UNCHANGED <<root, run, worker, claims, writebacks, disturbances>>

-----------------------------------------------------------------------------
(* A process starts: Worker.Initialize, one statement after the other *)

(* InitializeScans, first statement: a run whose lease expired has failed. *)
RecoverExpired(w) ==
    /\ At(w, "down")
    /\ IF run.status = "RUNNING" /\ ~run.live
       THEN run' = Ended("FAILED") /\ root' = Trigger(root, run')
       ELSE UNCHANGED <<run, root>>
    /\ Goto(w, "reconcile")
    /\ UNCHANGED <<writeback, claims, writebacks, disturbances>>

(* InitializeScans, second statement: the root follows its latest run. *)
ReconcileLatest(w) ==
    /\ At(w, "reconcile")
    /\ IF run.status # "NONE"
       THEN root' = [root EXCEPT
                !.status = StatusFor(root, run.version, run.status, IsActive(run)),
                !.failed = /\ root.version = run.version
                           /\ run.status # "COMPLETED"
                           /\ run.status = "FAILED" \/ root.failed]
       ELSE UNCHANGED root
    /\ Goto(w, "configure")
    /\ UNCHANGED <<run, writeback, claims, writebacks, disturbances>>

(* A root managed by the configuration file takes the file's values. *)
EnsureDefaultRoot(w) ==
    /\ At(w, "configure")
    /\ \/ UNCHANGED root
       \/ /\ root.exists /\ root.managed /\ root.version < MaxVersion
          /\ \E enabled \in BOOLEAN :
                root' = [root EXCEPT
                    !.enabled = enabled, !.version = root.version + 1,
                    !.status = IF ~enabled THEN "DISABLED"
                               ELSE IF ~root.enabled THEN "UNKNOWN" ELSE root.status]
    /\ Goto(w, "startup")
    /\ UNCHANGED <<run, writeback, claims, writebacks, disturbances>>

(* scan_on_startup: a scan is queued, or the active one is taken for it. *)
EnqueueStartupScan(w) ==
    /\ At(w, "startup")
    /\ \/ Queues
       \/ /\ root.exists /\ root.enabled /\ IsActive(run)
          /\ root' = Reconcile(root, run) /\ UNCHANGED run
       \/ UNCHANGED <<root, run>>
    /\ Goto(w, "idle")
    /\ UNCHANGED <<writeback, claims, writebacks, disturbances>>

-----------------------------------------------------------------------------
(* Worker.RunNextScan *)

(* The insert of a scheduled run fires the trigger and nothing else. *)
EnqueueScheduledScan(w) ==
    /\ At(w, "idle")
    /\ \/ /\ root.exists /\ root.enabled /\ root.scanned \in {"never", "due"}
          /\ ~IsActive(run) /\ run.id < MaxRuns
          /\ run' = NewRun
          /\ root' = Trigger(root, NewRun)
       \/ UNCHANGED <<root, run>>
    /\ Goto(w, "claim")
    /\ UNCHANGED <<writeback, claims, writebacks, disturbances>>

ClaimableWhenPending == run.status = "PENDING"
ClaimableAnyLease == IsActive(run)
Claimable == run.status = "PENDING" \/ (run.status = "RUNNING" /\ ~run.live)
StillValid == root.exists /\ root.enabled /\ root.version = run.version /\ ~run.cancel

ClaimNothing(w) ==
    /\ At(w, "claim")
    /\ ~Claimable \/ writeback # NoPath
    /\ Goto(w, "idle")
    /\ UNCHANGED <<root, run, writeback, claims, writebacks, disturbances>>

ClaimCancels(w) ==
    /\ At(w, "claim")
    /\ Claimable /\ writeback = NoPath /\ ~StillValid
    /\ MovesRun([Ended("CANCELLED") EXCEPT !.cancel = TRUE])
    /\ Goto(w, "idle")
    /\ UNCHANGED <<writeback, claims, writebacks, disturbances>>

ClaimStartsUnderWriteback(w) ==
    /\ At(w, "claim")
    /\ Claimable /\ StillValid /\ claims < MaxClaims
    /\ claims' = claims + 1
    /\ MovesRun([run EXCEPT !.status = "RUNNING", !.attempt = claims + 1, !.owner = w, !.live = TRUE])
    /\ Becomes(w, [IdleFrame EXCEPT !.pc = "scan", !.run = run.id, !.path = root.path,
                                    !.attempt = claims + 1])
    /\ UNCHANGED <<writeback, writebacks, disturbances>>

ClaimStarts(w) ==
    /\ At(w, "claim")
    /\ Claimable /\ writeback = NoPath /\ StillValid /\ claims < MaxClaims
    /\ claims' = claims + 1
    /\ MovesRun([run EXCEPT !.status = "RUNNING", !.attempt = claims + 1, !.owner = w, !.live = TRUE])
    /\ Becomes(w, [IdleFrame EXCEPT !.pc = "scan", !.run = run.id, !.path = root.path,
                                    !.attempt = claims + 1])
    /\ UNCHANGED <<writeback, writebacks, disturbances>>

(* The heartbeat goroutine, until the run is known to be lost.  It renews   *)
(* an expired lease as well as a live one.                                  *)
Heartbeat(w) ==
    /\ Executing(w) /\ ~worker[w].lost
    /\ IF Owns(w)
       THEN run' = [run EXCEPT !.live = TRUE] /\ UNCHANGED worker
       ELSE Becomes(w, [worker[w] EXCEPT !.lost = TRUE]) /\ UNCHANGED run
    /\ UNCHANGED <<root, writeback, claims, writebacks, disturbances>>

HeartbeatFails(w) ==
    /\ Executing(w) /\ ~worker[w].lost /\ Disturb
    /\ Becomes(w, [worker[w] EXCEPT !.lost = TRUE])
    /\ UNCHANGED <<root, run, writeback, claims, writebacks>>

(* ScanInput.IsCancelled, polled while the scan goes on. *)
IsCancelled(w) ==
    /\ At(w, "scan") /\ ~worker[w].lost
    /\ Becomes(w, [worker[w] EXCEPT !.lost = ~Owns(w), !.seen = @ \/ (Owns(w) /\ run.cancel)])
    /\ UNCHANGED <<root, run, writeback, claims, writebacks, disturbances>>

Returns(w, outcome) == Becomes(w, [worker[w] EXCEPT !.pc = "finish", !.outcome = outcome])

(* The scanner returns: interrupted before cancelled before failed. *)
ScanSucceeds(w) ==
    /\ At(w, "scan") /\ ~worker[w].lost /\ ~worker[w].seen
    /\ Returns(w, "COMPLETED")
    /\ UNCHANGED <<root, run, writeback, claims, writebacks, disturbances>>

ScanStops(w) ==
    /\ At(w, "scan")
    /\ worker[w].lost \/ worker[w].seen
    /\ Returns(w, IF worker[w].lost THEN "PENDING" ELSE "CANCELLED")
    /\ UNCHANGED <<root, run, writeback, claims, writebacks, disturbances>>

ScanFails(w) ==
    /\ At(w, "scan") /\ ~worker[w].lost /\ ~worker[w].seen /\ Disturb
    /\ Returns(w, "FAILED")
    /\ UNCHANGED <<root, run, writeback, claims, writebacks>>

ShutdownStopped(w) ==
    /\ At(w, "scan") /\ Disturb
    /\ Becomes(w, [worker[w] EXCEPT !.pc = "finish", !.outcome = "STOPPED", !.stopping = TRUE])
    /\ UNCHANGED <<root, run, writeback, claims, writebacks>>

(* The process shuts down in good order and hands the run back. *)
Shutdown(w) ==
    /\ At(w, "scan") /\ Disturb
    /\ Becomes(w, [worker[w] EXCEPT !.pc = "finish", !.outcome = "PENDING", !.stopping = TRUE])
    /\ UNCHANGED <<root, run, writeback, claims, writebacks>>

Leaves(w) == Becomes(w, IF worker[w].stopping THEN DownFrame ELSE IdleFrame)

(* CompleteScan and FinalizeScanFailure; the latter keeps cancel_requested  *)
(* when it hands the run back.                                              *)
Finalize(w) ==
    /\ At(w, "finish")
    /\ IF Owns(w)
       THEN MovesRun(Ended(worker[w].outcome))
       ELSE UNCHANGED <<root, run>>
    /\ Leaves(w)
    /\ UNCHANGED <<writeback, claims, writebacks, disturbances>>

FinalizeFails(w) ==
    /\ At(w, "finish") /\ Disturb
    /\ Leaves(w)
    /\ UNCHANGED <<root, run, writeback, claims, writebacks>>

Crash(w) ==
    /\ ~At(w, "down") /\ Disturb
    /\ Becomes(w, DownFrame)
    /\ UNCHANGED <<root, run, writeback, claims, writebacks>>

(* Time passes: the lease of a run nobody renews expires, the interval of   *)
(* the schedule elapses.                                                    *)
LeaseExpires ==
    /\ run.status = "RUNNING" /\ run.live
    /\ MayStall \/ ~(\E w \in Workers : Executing(w) /\ Owns(w))
    /\ run' = [run EXCEPT !.live = FALSE]
    /\ UNCHANGED <<root, worker, writeback, claims, writebacks, disturbances>>

IntervalElapses ==
    /\ root.scanned = "recent"
    /\ root' = [root EXCEPT !.scanned = "due"]
    /\ UNCHANGED <<run, worker, writeback, claims, writebacks, disturbances>>

-----------------------------------------------------------------------------
Start(w) ==
    \/ RecoverExpired(w) \/ ReconcileLatest(w) \/ EnsureDefaultRoot(w) \/ EnqueueStartupScan(w)

Claim(w) == ClaimNothing(w) \/ ClaimCancels(w) \/ ClaimStarts(w)
Scan(w) == ScanSucceeds(w) \/ ScanStops(w) \/ Finalize(w)

Worker(w) ==
    \/ Start(w) \/ EnqueueScheduledScan(w) \/ Claim(w) \/ Scan(w)
    \/ Heartbeat(w) \/ HeartbeatFails(w) \/ IsCancelled(w)
    \/ ScanFails(w) \/ Shutdown(w) \/ FinalizeFails(w) \/ Crash(w)

Environment ==
    \/ EnqueueScan \/ CancelPendingScan \/ CancelRunningScan \/ UpdateRoot \/ DeleteRoot
    \/ QueueWriteback \/ SettleWriteback \/ LeaseExpires \/ IntervalElapses

Next == Environment \/ \E w \in Workers : Worker(w)

Spec == Init /\ [][Next]_vars

-----------------------------------------------------------------------------
TypeOK ==
    /\ root \in [exists : BOOLEAN, enabled : BOOLEAN, managed : BOOLEAN,
                 version : Nat \ {0}, path : Nat \ {0}, status : RootStatuses,
                 scanned : Ages, failed : BOOLEAN]
    /\ run \in [id : Nat, version : Nat, status : RunStatuses, attempt : Nat,
                owner : Workers \cup {NoWorker}, live : BOOLEAN, cancel : BOOLEAN]
    /\ worker \in [Workers ->
          [pc : {"down", "reconcile", "configure", "startup", "idle", "claim", "scan", "finish"},
           run : Nat, path : Nat, attempt : Nat, lost : BOOLEAN, seen : BOOLEAN,
           outcome : RunStatuses, stopping : BOOLEAN]]
    /\ {writeback, claims, writebacks, disturbances} \subseteq Nat

(* The root row never lags behind its runs for good: it shows SCANNING only *)
(* while a run is active, READY only after some run has dated it, and a     *)
(* root edited by the administrator shows every active run.  The status is  *)
(* computed in four places (trigger, reconcileRootScanState,                *)
(* InitializeScans, UpdateRoot).                                            *)
RootStatusAgrees ==
    root.exists =>
        /\ root.status = "DISABLED" <=> ~root.enabled
        /\ root.status = "SCANNING" => IsActive(run)
        /\ root.enabled /\ ~root.managed /\ IsActive(run) => root.status = "SCANNING"
        /\ root.status = "READY" => root.scanned # "never"

(* "Otherwise a root whose version changed during a scan can be scheduled   *)
(* forever": whichever version it scanned, a run that ended has dated the   *)
(* root, so that the schedule waits for its interval.                       *)
EndedScanIsDated ==
    root.exists /\ run.status \in {"COMPLETED", "FAILED"} => root.scanned # "never"

(* "A stale worker must not make a root look ready": a scan of an older     *)
(* version of the root never turns it READY, whoever reconciles it.         *)
StaleScanNeverReady ==
    [][root.status # "READY" /\ root'.status = "READY" => run'.version = root'.version]_vars

(* One process at a time walks the directory of a root. *)
OneScanner ==
    \A v, w \in Workers : Executing(v) /\ Executing(w) => v = w

(* No file of the root is scanned while a writeback may be replacing one,   *)
(* although the two queues only look at each other's rows.                  *)
ScanExcludesWriteback ==
    (\E w \in Workers : Executing(w)) => writeback = NoPath

(* The directory does not move under a writeback, and a scan that walks a   *)
(* directory the root no longer has was asked to stop.                      *)
PathsAgree ==
    /\ writeback # NoPath => writeback = root.path
    /\ \A w \in Workers : Executing(w) /\ Owns(w) /\ worker[w].path # root.path => run.cancel

(* A run that ended is never written to again, however late a worker that   *)
(* once held it comes back.                                                 *)
EndedScanIsFinal ==
    [][run.status \in {"COMPLETED", "FAILED", "CANCELLED"} /\ run'.id = run.id /\ root'.exists
          => run' = run]_vars

(* A cancellation survives shutdowns, crashes and lost leases: the run is   *)
(* never started again.                                                     *)
CancelledNeverRestarts ==
    [][run.cancel /\ run'.id = run.id /\ run'.status # "NONE" =>
          run'.cancel /\ run'.attempt = run.attempt]_vars
=============================================================================
