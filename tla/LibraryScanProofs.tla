--------------------------- MODULE LibraryScanProofs ---------------------------
(***************************************************************************)
(* What holds of the scan runs of a source for any number of workers, runs, *)
(* claims, edits, writebacks and faults.                                    *)
(***************************************************************************)
EXTENDS MCLibraryScan, TLAPS

Pcs == {"down", "reconcile", "configure", "startup", "idle", "claim", "scan", "finish"}

RootRows ==
    [exists : BOOLEAN, enabled : BOOLEAN, managed : BOOLEAN,
     version : Nat \ {0}, path : Nat \ {0}, status : RootStatuses,
     scanned : Ages, failed : BOOLEAN]
RunRows ==
    [id : Nat, version : Nat, status : RunStatuses, attempt : Nat,
     owner : Workers \cup {NoWorker}, live : BOOLEAN, cancel : BOOLEAN]
Frames ==
    [pc : Pcs, run : Nat, path : Nat, attempt : Nat, lost : BOOLEAN, seen : BOOLEAN,
     outcome : RunStatuses, stopping : BOOLEAN]

-----------------------------------------------------------------------------
LEMMA TypeParts ==
    TypeOK <=> /\ root \in RootRows
               /\ run \in RunRows
               /\ worker \in [Workers -> Frames]
               /\ writeback \in Nat /\ claims \in Nat /\ writebacks \in Nat
               /\ disturbances \in Nat
BY DEF TypeOK, RootRows, RunRows, Frames, Pcs

(* The trigger and the reconciliation give a root row. *)
LEMMA StatusForType ==
    ASSUME NEW r \in RootRows, NEW version \in Nat, NEW status \in RunStatuses,
           NEW active \in BOOLEAN
    PROVE  /\ StatusFor(r, version, status, active) \in RootStatuses
           /\ ScannedFor(r, version, status) \in Ages
BY DEF StatusFor, ScannedFor, RootRows, RootStatuses, Ages

LEMMA RootFollowsRunType ==
    ASSUME NEW r \in RootRows, NEW new \in RunRows
    PROVE  Trigger(r, new) \in RootRows /\ Reconcile(r, new) \in RootRows
<1>1. IsActive(new) \in BOOLEAN /\ new.version \in Nat /\ new.status \in RunStatuses
  BY DEF IsActive, RunRows
<1>2. /\ StatusFor(r, new.version, new.status, IsActive(new)) \in RootStatuses
      /\ StatusFor(r, new.version, new.status, FALSE) \in RootStatuses
      /\ ScannedFor(r, new.version, new.status) \in Ages
  BY <1>1, StatusForType
<1> QED
  BY <1>1, <1>2 DEF Trigger, Reconcile, RootRows, RootStatuses

LEMMA InitTypes == Init => TypeOK
<1> SUFFICES ASSUME Init PROVE TypeOK
  OBVIOUS
<1>1. root \in RootRows
  <2>1. PICK enabled, managed \in BOOLEAN :
            root = [exists |-> TRUE, enabled |-> enabled, managed |-> managed, version |-> 1,
                    path |-> 1, status |-> IF enabled THEN "UNKNOWN" ELSE "DISABLED",
                    scanned |-> "never", failed |-> FALSE]
    BY DEF Init
  <2>2. (IF enabled THEN "UNKNOWN" ELSE "DISABLED") \in RootStatuses
    BY DEF RootStatuses
  <2> QED
    BY <2>1, <2>2 DEF RootRows, Ages
<1>2. run \in RunRows
  BY DEF Init, NoRun, RunRows, RunStatuses
<1>3. DownFrame \in Frames
  BY DEF DownFrame, IdleFrame, Frames, Pcs, NoPath, RunStatuses
<1>4. worker \in [Workers -> Frames]
  BY <1>3 DEF Init
<1> QED
  BY <1>1, <1>2, <1>4, TypeParts DEF Init, NoPath

(* A step that ends or starts a run, by MovesRun. *)
LEMMA MovesRunType ==
    ASSUME TypeOK, NEW new \in RunRows, MovesRun(new)
    PROVE  root' \in RootRows /\ run' \in RunRows
<1>1. root \in RootRows
  BY TypeParts
<1>2. Trigger(root, new) \in RootRows
  BY <1>1, RootFollowsRunType
<1> QED
  BY <1>2, RootFollowsRunType DEF MovesRun

LEMMA NewRunType == TypeOK => NewRun \in RunRows
<1> SUFFICES ASSUME TypeOK PROVE NewRun \in RunRows
  OBVIOUS
<1> DEFINE id == run.id + 1
<1>1. id \in Nat /\ root.version \in Nat
  BY TypeParts DEF RunRows, RootRows
<1> HIDE DEF id
<1>2. [NoRun EXCEPT !.id = id, !.version = root.version, !.status = "PENDING"] \in RunRows
  BY <1>1 DEF NoRun, RunRows, RunStatuses
<1> QED
  BY <1>2 DEF NewRun, id

LEMMA EndedType ==
    ASSUME TypeOK, NEW status \in RunStatuses
    PROVE  /\ Ended(status) \in RunRows
           /\ [Ended(status) EXCEPT !.cancel = TRUE] \in RunRows
BY TypeParts DEF Ended, RunRows

LEMMA BecomesType ==
    ASSUME TypeOK, NEW w \in Workers, NEW frame \in Frames, Becomes(w, frame)
    PROVE  worker' \in [Workers -> Frames]
BY TypeParts DEF Becomes

LEMMA GotoType ==
    ASSUME TypeOK, NEW w \in Workers, NEW pc \in Pcs, Goto(w, pc)
    PROVE  worker' \in [Workers -> Frames]
<1>1. [worker[w] EXCEPT !.pc = pc] \in Frames
  BY TypeParts DEF Frames
<1> QED
  BY <1>1, BecomesType DEF Goto

LEMMA EnvironmentTypes == TypeOK /\ Environment => TypeOK'
<1> SUFFICES ASSUME TypeOK, Environment PROVE TypeOK'
  OBVIOUS
<1>0. /\ root \in RootRows /\ run \in RunRows /\ worker \in [Workers -> Frames]
      /\ writeback \in Nat /\ claims \in Nat /\ writebacks \in Nat /\ disturbances \in Nat
  BY TypeParts
<1>1. SUFFICES /\ root' \in RootRows /\ run' \in RunRows /\ worker' \in [Workers -> Frames]
               /\ writeback' \in Nat /\ claims' \in Nat /\ writebacks' \in Nat
               /\ disturbances' \in Nat
  BY DEF TypeOK, RootRows, RunRows, Frames, Pcs
<1>2. CASE EnqueueScan
  BY <1>0, <1>2, NewRunType, MovesRunType DEF EnqueueScan, Queues
<1>3. CASE CancelPendingScan
  BY <1>0, <1>3, EndedType, MovesRunType DEF CancelPendingScan, RunStatuses
<1>4. CASE CancelRunningScan
  <2>1. run' \in RunRows
    BY <1>0, <1>4 DEF CancelRunningScan, RunRows
  <2> QED
    BY <1>0, <1>4, <2>1, RootFollowsRunType DEF CancelRunningScan
<1>5. CASE UpdateRoot
  <2>1. RunAfterUpdate \in RunRows
    <3>1. [Ended("CANCELLED") EXCEPT !.cancel = TRUE] \in RunRows
      BY EndedType DEF RunStatuses
    <3> QED
      BY <1>0, <3>1 DEF RunAfterUpdate, RunRows
  <2>2. Trigger(root, RunAfterUpdate) \in RootRows
    BY <1>0, <2>1, RootFollowsRunType
  <2>3. /\ UNCHANGED <<worker, writeback, claims, writebacks, disturbances>>
        /\ run' = RunAfterUpdate
    BY <1>5 DEF UpdateRoot
  <2>4. PICK enabled, moved \in BOOLEAN :
            root' = [(IF run.status = "PENDING" THEN Trigger(root, RunAfterUpdate) ELSE root) EXCEPT
                !.managed = FALSE, !.enabled = enabled, !.version = root.version + 1,
                !.path = IF moved THEN root.path + 1 ELSE root.path,
                !.status = IF ~enabled THEN "DISABLED"
                           ELSE IF root.status = "DISABLED" THEN "UNKNOWN" ELSE root.status]
    BY <1>5 DEF UpdateRoot
  <2> DEFINE before == IF run.status = "PENDING" THEN Trigger(root, RunAfterUpdate) ELSE root
             version == root.version + 1
             path == IF moved THEN root.path + 1 ELSE root.path
             status == IF ~enabled THEN "DISABLED"
                       ELSE IF root.status = "DISABLED" THEN "UNKNOWN" ELSE root.status
  <2>5. version \in Nat \ {0} /\ path \in Nat \ {0}
    BY <1>0 DEF RootRows
  <2>6. before \in RootRows /\ status \in RootStatuses
    BY <1>0, <2>2 DEF RootRows, RootStatuses
  <2>7. root' = [before EXCEPT !.managed = FALSE, !.enabled = enabled, !.version = version,
                               !.path = path, !.status = status]
    BY <2>4
  <2> HIDE DEF before, version, path, status
  <2>8. root' \in RootRows
    BY <2>5, <2>6, <2>7 DEF RootRows
  <2> QED
    BY <1>0, <2>1, <2>3, <2>8
<1>6. CASE DeleteRoot
  BY <1>0, <1>6 DEF DeleteRoot, RootRows, RunRows, NoRun, RunStatuses
<1>7. CASE QueueWriteback
  BY <1>0, <1>7 DEF QueueWriteback, RootRows
<1>8. CASE SettleWriteback
  BY <1>0, <1>8 DEF SettleWriteback, NoPath
<1>9. CASE LeaseExpires
  BY <1>0, <1>9 DEF LeaseExpires, RunRows
<1>10. CASE IntervalElapses
  BY <1>0, <1>10 DEF IntervalElapses, RootRows, Ages
<1> QED
  BY <1>2, <1>3, <1>4, <1>5, <1>6, <1>7, <1>8, <1>9, <1>10 DEF Environment

LEMMA WorkerTypes == ASSUME NEW w \in Workers PROVE TypeOK /\ Worker(w) => TypeOK'
<1> SUFFICES ASSUME TypeOK, Worker(w) PROVE TypeOK'
  OBVIOUS
<1>0. /\ root \in RootRows /\ run \in RunRows /\ worker \in [Workers -> Frames]
      /\ writeback \in Nat /\ claims \in Nat /\ writebacks \in Nat /\ disturbances \in Nat
  BY TypeParts
<1>1. SUFFICES /\ root' \in RootRows /\ run' \in RunRows /\ worker' \in [Workers -> Frames]
               /\ writeback' \in Nat /\ claims' \in Nat /\ writebacks' \in Nat
               /\ disturbances' \in Nat
  BY DEF TypeOK, RootRows, RunRows, Frames, Pcs
<1>2. DownFrame \in Frames /\ IdleFrame \in Frames
  BY DEF DownFrame, IdleFrame, Frames, Pcs, NoPath, RunStatuses
<1>3. CASE RecoverExpired(w)
  <2>1. Ended("FAILED") \in RunRows
    BY EndedType DEF RunStatuses
  <2>2. worker' \in [Workers -> Frames]
    BY <1>3, GotoType DEF RecoverExpired, Pcs
  <2> QED
    BY <1>0, <1>3, <2>1, <2>2, RootFollowsRunType DEF RecoverExpired
<1>4. CASE ReconcileLatest(w)
  <2>1. StatusFor(root, run.version, run.status, IsActive(run)) \in RootStatuses
    <3>1. run.version \in Nat /\ run.status \in RunStatuses /\ IsActive(run) \in BOOLEAN
      BY <1>0 DEF RunRows, IsActive
    <3> QED
      BY <1>0, <3>1, StatusForType
  <2>2. root' \in RootRows
    BY <1>0, <1>4, <2>1 DEF ReconcileLatest, RootRows
  <2>3. worker' \in [Workers -> Frames]
    BY <1>4, GotoType DEF ReconcileLatest, Pcs
  <2> QED
    BY <1>0, <1>4, <2>2, <2>3 DEF ReconcileLatest
<1>5. CASE EnsureDefaultRoot(w)
  <2>1. worker' \in [Workers -> Frames]
    BY <1>5, GotoType DEF EnsureDefaultRoot, Pcs
  <2>2. root' \in RootRows
    <3> SUFFICES ASSUME root' # root PROVE root' \in RootRows
      BY <1>0
    <3>1. PICK enabled \in BOOLEAN :
              root' = [root EXCEPT
                  !.enabled = enabled, !.version = root.version + 1,
                  !.status = IF ~enabled THEN "DISABLED"
                             ELSE IF ~root.enabled THEN "UNKNOWN" ELSE root.status]
      BY <1>5 DEF EnsureDefaultRoot
    <3> DEFINE version == root.version + 1
               status == IF ~enabled THEN "DISABLED"
                         ELSE IF ~root.enabled THEN "UNKNOWN" ELSE root.status
    <3>2. version \in Nat \ {0} /\ status \in RootStatuses
      BY <1>0 DEF RootRows, RootStatuses
    <3>3. root' = [root EXCEPT !.enabled = enabled, !.version = version, !.status = status]
      BY <3>1
    <3> HIDE DEF version, status
    <3> QED
      BY <1>0, <3>2, <3>3 DEF RootRows
  <2> QED
    BY <1>0, <1>5, <2>1, <2>2 DEF EnsureDefaultRoot
<1>6. CASE EnqueueStartupScan(w)
  <2>1. worker' \in [Workers -> Frames]
    BY <1>6, GotoType DEF EnqueueStartupScan, Pcs
  <2> QED
    BY <1>0, <1>6, <2>1, NewRunType, MovesRunType, RootFollowsRunType
       DEF EnqueueStartupScan, Queues
<1>7. CASE EnqueueScheduledScan(w)
  <2>1. worker' \in [Workers -> Frames]
    BY <1>7, GotoType DEF EnqueueScheduledScan, Pcs
  <2> QED
    BY <1>0, <1>7, <2>1, NewRunType, RootFollowsRunType DEF EnqueueScheduledScan
<1>8. CASE ClaimNothing(w)
  BY <1>0, <1>8, GotoType DEF ClaimNothing, Pcs
<1>9. CASE ClaimCancels(w)
  <2>1. worker' \in [Workers -> Frames]
    BY <1>9, GotoType DEF ClaimCancels, Pcs
  <2>2. [Ended("CANCELLED") EXCEPT !.cancel = TRUE] \in RunRows
    BY EndedType DEF RunStatuses
  <2> QED
    BY <1>0, <1>9, <2>1, <2>2, MovesRunType DEF ClaimCancels
<1>10. CASE ClaimStarts(w)
  <2> DEFINE attempt == claims + 1
             frame == [IdleFrame EXCEPT !.pc = "scan", !.run = run.id, !.path = root.path,
                                        !.attempt = attempt]
             new == [run EXCEPT !.status = "RUNNING", !.attempt = attempt, !.owner = w,
                                !.live = TRUE]
  <2>3. Becomes(w, frame) /\ MovesRun(new)
    BY <1>10 DEF ClaimStarts
  <2>0. attempt \in Nat /\ run.id \in Nat /\ root.path \in Nat
    BY <1>0 DEF RunRows, RootRows
  <2> HIDE DEF attempt
  <2>1. frame \in Frames
    BY <2>0, <1>2 DEF IdleFrame, Frames, Pcs
  <2>2. new \in RunRows
    BY <1>0, <2>0 DEF RunRows, RunStatuses
  <2> HIDE DEF frame, new
  <2>4. worker' \in [Workers -> Frames] /\ root' \in RootRows /\ run' \in RunRows
    BY <2>1, <2>2, <2>3, BecomesType, MovesRunType
  <2> QED
    BY <1>0, <1>10, <2>4 DEF ClaimStarts
<1>11. CASE Heartbeat(w) \/ HeartbeatFails(w) \/ IsCancelled(w)
  <2>1. run' \in RunRows
    BY <1>0, <1>11 DEF Heartbeat, HeartbeatFails, IsCancelled, RunRows
  <2>2. \A lost, seen \in BOOLEAN : [worker[w] EXCEPT !.lost = lost, !.seen = seen] \in Frames
    BY <1>0 DEF Frames
  <2>3. \/ worker' = worker
        \/ \E lost, seen \in BOOLEAN : Becomes(w, [worker[w] EXCEPT !.lost = lost, !.seen = seen])
    <3>1. worker[w].lost \in BOOLEAN /\ worker[w].seen \in BOOLEAN /\ run.cancel \in BOOLEAN
      BY <1>0 DEF Frames, RunRows
    <3>2. [worker[w] EXCEPT !.lost = TRUE] = [worker[w] EXCEPT !.lost = TRUE, !.seen = worker[w].seen]
      BY <1>0 DEF Frames
    <3>3. CASE Heartbeat(w) \/ HeartbeatFails(w)
      BY <3>1, <3>2, <3>3 DEF Heartbeat, HeartbeatFails
    <3>4. CASE IsCancelled(w)
      BY <3>1, <3>4 DEF IsCancelled, Owns
    <3> QED
      BY <1>11, <3>3, <3>4
  <2>4. worker' \in [Workers -> Frames]
    BY <1>0, <2>2, <2>3, BecomesType
  <2>5. disturbances' \in Nat /\ UNCHANGED <<root, writeback, claims, writebacks>>
    BY <1>0, <1>11 DEF Heartbeat, HeartbeatFails, IsCancelled, Disturb
  <2> QED
    BY <1>0, <2>1, <2>4, <2>5
<1>12. CASE ScanSucceeds(w) \/ ScanStops(w) \/ ScanFails(w) \/ Shutdown(w)
  <2>1. \A outcome \in RunStatuses, stopping \in BOOLEAN :
            /\ [worker[w] EXCEPT !.pc = "finish", !.outcome = outcome] \in Frames
            /\ [worker[w] EXCEPT !.pc = "finish", !.outcome = outcome, !.stopping = stopping] \in Frames
    BY <1>0 DEF Frames, Pcs
  <2>2. \E frame \in Frames : Becomes(w, frame)
    BY <1>12, <2>1 DEF ScanSucceeds, ScanStops, ScanFails, Shutdown, Returns, RunStatuses
  <2>3. worker' \in [Workers -> Frames]
    BY <2>2, BecomesType
  <2>4. disturbances' \in Nat /\ UNCHANGED <<root, run, writeback, claims, writebacks>>
    BY <1>0, <1>12 DEF ScanSucceeds, ScanStops, ScanFails, Shutdown, Disturb
  <2> QED
    BY <1>0, <2>3, <2>4
<1>13. CASE Finalize(w)
  <2>1. worker' \in [Workers -> Frames]
    BY <1>2, <1>13, BecomesType DEF Finalize, Leaves
  <2>2. Ended(worker[w].outcome) \in RunRows
    <3>1. worker[w].outcome \in RunStatuses
      BY <1>0 DEF Frames
    <3> QED
      BY <3>1, EndedType
  <2> QED
    BY <1>0, <1>13, <2>1, <2>2, MovesRunType DEF Finalize
<1>14. CASE FinalizeFails(w) \/ Crash(w)
  <2>1. worker' \in [Workers -> Frames]
    BY <1>2, <1>14, BecomesType DEF FinalizeFails, Crash, Leaves
  <2> QED
    BY <1>0, <1>14, <2>1 DEF FinalizeFails, Crash, Disturb
<1> QED
  BY <1>3, <1>4, <1>5, <1>6, <1>7, <1>8, <1>9, <1>10, <1>11, <1>12, <1>13, <1>14
     DEF Worker, Start, Claim, Scan

LEMMA NextTypes == TypeOK /\ [Next]_vars => TypeOK'
<1>1. TypeOK /\ UNCHANGED vars => TypeOK'
  BY DEF vars, TypeOK
<1> QED
  BY <1>1, EnvironmentTypes, WorkerTypes DEF Next

(* Every variable keeps its range. *)
THEOREM ScanTypeCorrect == Spec => []TypeOK
BY InitTypes, NextTypes, PTL DEF Spec

-----------------------------------------------------------------------------
(* A root row agrees with its latest run: RootStatusAgrees and              *)
(* EndedScanIsDated, which the former needs (InitializeScans makes a root    *)
(* READY from a completed run without dating it).                            *)
Agrees(r, new) ==
    r.exists =>
        /\ r.status = "DISABLED" <=> ~r.enabled
        /\ r.status = "SCANNING" => IsActive(new)
        /\ r.enabled /\ ~r.managed /\ IsActive(new) => r.status = "SCANNING"
        /\ r.status = "READY" => r.scanned # "never"
        /\ new.status \in {"COMPLETED", "FAILED"} => r.scanned # "never"

(* Whatever the row was before, it agrees after the trigger and after        *)
(* reconcileRootScanState.                                                   *)
LEMMA RootFollowsRun ==
    ASSUME NEW r \in RootRows, NEW new \in RunRows
    PROVE  Agrees(Trigger(r, new), new) /\ Agrees(Reconcile(r, new), new)
<1>1. Agrees(Trigger(r, new), new)
  <2>1. CASE IsActive(new)
    BY <2>1 DEF Agrees, Trigger, IsActive, RootRows
  <2>2. CASE ~IsActive(new)
    <3>1. /\ Trigger(r, new).status = StatusFor(r, new.version, new.status, FALSE)
          /\ Trigger(r, new).scanned = ScannedFor(r, new.version, new.status)
          /\ Trigger(r, new).enabled = r.enabled
      BY <2>2 DEF Trigger, RootRows
    <3> QED
      BY <2>2, <3>1 DEF Agrees, StatusFor, ScannedFor, RootRows, IsActive
  <2> QED
    BY <2>1, <2>2
<1>2. Agrees(Reconcile(r, new), new)
  <2>1. /\ Reconcile(r, new).status = StatusFor(r, new.version, new.status, IsActive(new))
        /\ Reconcile(r, new).scanned = ScannedFor(r, new.version, new.status)
        /\ Reconcile(r, new).enabled = r.enabled
    BY DEF Reconcile, RootRows
  <2> QED
    BY <2>1 DEF Agrees, StatusFor, ScannedFor, RootRows, IsActive
<1> QED
  BY <1>1, <1>2

LEMMA MovesRunAgrees ==
    ASSUME TypeOK, NEW new \in RunRows, MovesRun(new)
    PROVE  Agrees(root', run')
<1>1. Trigger(root, new) \in RootRows
  BY TypeParts, RootFollowsRunType
<1> QED
  BY <1>1, RootFollowsRun DEF MovesRun

LEMMA EnvironmentAgrees == TypeOK /\ Agrees(root, run) /\ Environment => Agrees(root', run')
<1> SUFFICES ASSUME TypeOK, Agrees(root, run), Environment PROVE Agrees(root', run')
  OBVIOUS
<1>0. root \in RootRows /\ run \in RunRows
  BY TypeParts
<1>1. CASE EnqueueScan
  BY <1>1, NewRunType, MovesRunAgrees DEF EnqueueScan, Queues
<1>2. CASE CancelPendingScan
  BY <1>2, EndedType, MovesRunAgrees DEF CancelPendingScan, RunStatuses
<1>3. CASE CancelRunningScan
  <2>1. run' \in RunRows
    BY <1>0, <1>3 DEF CancelRunningScan, RunRows
  <2> QED
    BY <1>0, <1>3, <2>1, RootFollowsRun DEF CancelRunningScan
<1>4. CASE UpdateRoot
  <2> DEFINE before == IF run.status = "PENDING" THEN Trigger(root, RunAfterUpdate) ELSE root
  <2>1. RunAfterUpdate \in RunRows
    <3>1. [Ended("CANCELLED") EXCEPT !.cancel = TRUE] \in RunRows
      BY EndedType DEF RunStatuses
    <3> QED
      BY <1>0, <3>1 DEF RunAfterUpdate, RunRows
  <2>2. before \in RootRows
    BY <1>0, <2>1, RootFollowsRunType
  <2>3. Agrees(before, RunAfterUpdate)
    <3>1. CASE run.status = "PENDING"
      BY <1>0, <2>1, <3>1, RootFollowsRun
    <3>2. CASE run.status # "PENDING"
      <4>1. RunAfterUpdate.status = run.status
        BY <1>0, <3>2 DEF RunAfterUpdate, RunRows
      <4> QED
        BY <3>2, <4>1 DEF Agrees, IsActive
    <3> QED
      BY <3>1, <3>2
  <2>4. PICK enabled, moved \in BOOLEAN :
            /\ ~(IsActive(run) /\ enabled)
            /\ root' = [before EXCEPT
                   !.managed = FALSE, !.enabled = enabled, !.version = root.version + 1,
                   !.path = IF moved THEN root.path + 1 ELSE root.path,
                   !.status = IF ~enabled THEN "DISABLED"
                              ELSE IF root.status = "DISABLED" THEN "UNKNOWN" ELSE root.status]
    BY <1>4 DEF UpdateRoot
  <2>5. run' = RunAfterUpdate /\ root.exists
    BY <1>4 DEF UpdateRoot
  <2>6. enabled => before = root
    BY <2>4 DEF IsActive
  <2>7. /\ root'.enabled = enabled /\ root'.scanned = before.scanned /\ ~root'.managed
        /\ root'.status = IF ~enabled THEN "DISABLED"
                          ELSE IF root.status = "DISABLED" THEN "UNKNOWN" ELSE root.status
    <3> HIDE DEF before
    <3> QED
      BY <2>2, <2>4 DEF RootRows
  <2>8. before.exists
    BY <1>0, <2>5 DEF Trigger, RootRows
  <2>9. IsActive(RunAfterUpdate) => IsActive(run)
    BY <1>0 DEF RunAfterUpdate, Ended, IsActive, RunRows
  <2> HIDE DEF before
  <2>10. CASE enabled
    BY <1>0, <2>3, <2>4, <2>5, <2>6, <2>7, <2>8, <2>9, <2>10 DEF Agrees, RootRows
  <2>11. CASE ~enabled
    BY <1>0, <2>3, <2>5, <2>7, <2>8, <2>11 DEF Agrees
  <2> QED
    BY <2>10, <2>11
<1>5. CASE DeleteRoot
  BY <1>0, <1>5 DEF DeleteRoot, Agrees, RootRows
<1>6. CASE QueueWriteback \/ SettleWriteback
  BY <1>6 DEF QueueWriteback, SettleWriteback
<1>7. CASE LeaseExpires
  <2>1. root' = root /\ run'.status = run.status
    BY <1>0, <1>7 DEF LeaseExpires, RunRows
  <2> QED
    BY <2>1 DEF Agrees, IsActive
<1>8. CASE IntervalElapses
  <2>1. /\ run' = run /\ root'.scanned = "due"
        /\ root'.status = root.status /\ root'.enabled = root.enabled
        /\ root'.managed = root.managed /\ root'.exists = root.exists
    BY <1>0, <1>8 DEF IntervalElapses, RootRows
  <2> QED
    BY <2>1 DEF Agrees
<1> QED
  BY <1>1, <1>2, <1>3, <1>4, <1>5, <1>6, <1>7, <1>8 DEF Environment

LEMMA WorkerAgrees ==
    ASSUME NEW w \in Workers
    PROVE  TypeOK /\ Agrees(root, run) /\ Worker(w) => Agrees(root', run')
<1> SUFFICES ASSUME TypeOK, Agrees(root, run), Worker(w) PROVE Agrees(root', run')
  OBVIOUS
<1>0. root \in RootRows /\ run \in RunRows /\ worker \in [Workers -> Frames]
  BY TypeParts
<1>1. CASE RecoverExpired(w)
  BY <1>0, <1>1, EndedType, RootFollowsRun DEF RecoverExpired, RunStatuses
<1>2. CASE ReconcileLatest(w)
  <2>1. CASE run.status = "NONE"
    BY <1>2, <2>1 DEF ReconcileLatest
  <2>2. CASE run.status # "NONE"
    <3>1. /\ run' = run
          /\ root'.status = StatusFor(root, run.version, run.status, IsActive(run))
          /\ root'.enabled = root.enabled /\ root'.scanned = root.scanned
          /\ root'.managed = root.managed /\ root'.exists = root.exists
      BY <1>0, <1>2, <2>2 DEF ReconcileLatest, RootRows
    <3> QED
      BY <1>0, <3>1 DEF Agrees, StatusFor, IsActive, RootRows
  <2> QED
    BY <2>1, <2>2
<1>3. CASE EnsureDefaultRoot(w)
  <2>1. run' = run
    BY <1>3 DEF EnsureDefaultRoot
  <2> SUFFICES ASSUME root' # root PROVE Agrees(root', run')
    BY <2>1
  <2>2. PICK enabled \in BOOLEAN :
            /\ root.exists /\ root.managed
            /\ root' = [root EXCEPT
                   !.enabled = enabled, !.version = root.version + 1,
                   !.status = IF ~enabled THEN "DISABLED"
                              ELSE IF ~root.enabled THEN "UNKNOWN" ELSE root.status]
    BY <1>3 DEF EnsureDefaultRoot
  <2>3. /\ root'.enabled = enabled /\ root'.managed /\ root'.scanned = root.scanned
        /\ root'.status = IF ~enabled THEN "DISABLED"
                          ELSE IF ~root.enabled THEN "UNKNOWN" ELSE root.status
    BY <1>0, <2>2 DEF RootRows
  <2> QED
    BY <2>1, <2>2, <2>3 DEF Agrees
<1>4. CASE EnqueueStartupScan(w)
  BY <1>0, <1>4, NewRunType, MovesRunAgrees, RootFollowsRun DEF EnqueueStartupScan, Queues
<1>5. CASE EnqueueScheduledScan(w)
  BY <1>0, <1>5, NewRunType, RootFollowsRun DEF EnqueueScheduledScan
<1>6. CASE ClaimCancels(w)
  BY <1>6, EndedType, MovesRunAgrees DEF ClaimCancels, RunStatuses
<1>7. CASE ClaimStarts(w)
  <2> DEFINE attempt == claims + 1
             new == [run EXCEPT !.status = "RUNNING", !.attempt = attempt, !.owner = w,
                                !.live = TRUE]
  <2>1. MovesRun(new)
    BY <1>7 DEF ClaimStarts
  <2>2. attempt \in Nat
    BY TypeParts
  <2> HIDE DEF attempt
  <2>3. new \in RunRows
    BY <1>0, <2>2 DEF RunRows, RunStatuses
  <2> HIDE DEF new
  <2> QED
    BY <2>1, <2>3, MovesRunAgrees
<1>8. CASE Heartbeat(w)
  <2>1. root' = root /\ run'.status = run.status
    BY <1>0, <1>8 DEF Heartbeat, RunRows
  <2> QED
    BY <2>1 DEF Agrees, IsActive
<1>9. CASE Finalize(w)
  <2>1. Ended(worker[w].outcome) \in RunRows
    <3>1. worker[w].outcome \in RunStatuses
      BY <1>0 DEF Frames
    <3> QED
      BY <3>1, EndedType
  <2> QED
    BY <1>9, <2>1, MovesRunAgrees DEF Finalize
<1>10. CASE \/ ClaimNothing(w) \/ HeartbeatFails(w) \/ IsCancelled(w) \/ ScanSucceeds(w)
            \/ ScanStops(w) \/ ScanFails(w) \/ Shutdown(w) \/ FinalizeFails(w) \/ Crash(w)
  BY <1>10 DEF ClaimNothing, HeartbeatFails, IsCancelled, ScanSucceeds, ScanStops, ScanFails,
               Shutdown, FinalizeFails, Crash
<1> QED
  BY <1>1, <1>2, <1>3, <1>4, <1>5, <1>6, <1>7, <1>8, <1>9, <1>10
     DEF Worker, Start, Claim, Scan

LEMMA RootAgrees == Spec => [](Agrees(root, run))
<1>1. Init => Agrees(root, run)
  BY DEF Init, NoRun, Agrees, IsActive
<1>2. TypeOK /\ Agrees(root, run) /\ [Next]_vars => Agrees(root, run)'
  BY EnvironmentAgrees, WorkerAgrees DEF Next, vars
<1> QED
  BY <1>1, <1>2, ScanTypeCorrect, PTL DEF Spec

(* The status of a source agrees with its latest scan, in whatever order the *)
(* trigger, the reconciliation, a start-up and an edit have written it.      *)
THEOREM RootFollowsScans == Spec => []RootStatusAgrees
<1>1. Agrees(root, run) => RootStatusAgrees
  BY DEF Agrees, RootStatusAgrees
<1> QED
  BY <1>1, RootAgrees, PTL

(* A scan that ended has dated the source, whichever version it scanned: the *)
(* schedule never starts it again before its interval.                       *)
THEOREM EndedScansAreDated == Spec => []EndedScanIsDated
<1>1. Agrees(root, run) => EndedScanIsDated
  BY DEF Agrees, EndedScanIsDated
<1> QED
  BY <1>1, RootAgrees, PTL

-----------------------------------------------------------------------------
(* The trigger and the reconciliation show READY only for a run of the       *)
(* version the row has, and leave the version alone.                         *)
LEMMA ReadyNeedsVersion ==
    ASSUME NEW r \in RootRows, NEW new \in RunRows
    PROVE  /\ Trigger(r, new).status = "READY" => new.version = Trigger(r, new).version
           /\ Reconcile(r, new).status = "READY" => new.version = Reconcile(r, new).version
<1>1. Trigger(r, new).status = "READY" => new.version = Trigger(r, new).version
  <2>1. CASE IsActive(new)
    BY <2>1 DEF Trigger, RootRows
  <2>2. CASE ~IsActive(new)
    <3>1. /\ Trigger(r, new).status = StatusFor(r, new.version, new.status, FALSE)
          /\ Trigger(r, new).version = r.version
      BY <2>2 DEF Trigger, RootRows
    <3> QED
      BY <3>1 DEF StatusFor
  <2> QED
    BY <2>1, <2>2
<1>2. /\ Reconcile(r, new).status = StatusFor(r, new.version, new.status, IsActive(new))
      /\ Reconcile(r, new).version = r.version
  BY DEF Reconcile, RootRows
<1> QED
  BY <1>1, <1>2 DEF StatusFor

LEMMA MovesRunReady ==
    ASSUME TypeOK, NEW new \in RunRows, MovesRun(new)
    PROVE  root'.status = "READY" => run'.version = root'.version
<1>1. Trigger(root, new) \in RootRows
  BY TypeParts, RootFollowsRunType
<1> QED
  BY <1>1, ReadyNeedsVersion DEF MovesRun

(* The run a claim starts. *)
LEMMA ClaimedRunType ==
    ASSUME TypeOK, NEW w \in Workers
    PROVE  [run EXCEPT !.status = "RUNNING", !.attempt = claims + 1, !.owner = w, !.live = TRUE]
               \in RunRows
<1> DEFINE attempt == claims + 1
<1>1. attempt \in Nat /\ run \in RunRows
  BY TypeParts
<1> HIDE DEF attempt
<1>2. [run EXCEPT !.status = "RUNNING", !.attempt = attempt, !.owner = w, !.live = TRUE] \in RunRows
  BY <1>1 DEF RunRows, RunStatuses
<1> QED
  BY <1>2 DEF attempt

ReadyStep == root.status # "READY" /\ root'.status = "READY" => run'.version = root'.version

LEMMA EnvironmentReady == TypeOK /\ Environment => ReadyStep
<1> SUFFICES ASSUME TypeOK, Environment PROVE ReadyStep
  OBVIOUS
<1> USE DEF ReadyStep
<1>0. root \in RootRows /\ run \in RunRows
  BY TypeParts
<1>1. CASE EnqueueScan
  BY <1>1, NewRunType, MovesRunReady DEF EnqueueScan, Queues
<1>2. CASE CancelPendingScan
  BY <1>2, EndedType, MovesRunReady DEF CancelPendingScan, RunStatuses
<1>3. CASE CancelRunningScan
  <2>1. run' \in RunRows
    BY <1>0, <1>3 DEF CancelRunningScan, RunRows
  <2> QED
    BY <1>0, <1>3, <2>1, ReadyNeedsVersion DEF CancelRunningScan
<1>4. CASE UpdateRoot
  <2>1. RunAfterUpdate \in RunRows
    <3>1. [Ended("CANCELLED") EXCEPT !.cancel = TRUE] \in RunRows
      BY EndedType DEF RunStatuses
    <3> QED
      BY <1>0, <3>1 DEF RunAfterUpdate, RunRows
  <2> DEFINE before == IF run.status = "PENDING" THEN Trigger(root, RunAfterUpdate) ELSE root
  <2>2. before \in RootRows
    BY <1>0, <2>1, RootFollowsRunType
  <2>3. \E enabled, moved \in BOOLEAN :
            root' = [before EXCEPT
                   !.managed = FALSE, !.enabled = enabled, !.version = root.version + 1,
                   !.path = IF moved THEN root.path + 1 ELSE root.path,
                   !.status = IF ~enabled THEN "DISABLED"
                              ELSE IF root.status = "DISABLED" THEN "UNKNOWN" ELSE root.status]
    BY <1>4 DEF UpdateRoot
  <2> HIDE DEF before
  <2>4. root'.status \in {"DISABLED", "UNKNOWN", root.status}
    BY <2>2, <2>3 DEF RootRows
  <2> QED
    BY <2>4
<1>5. CASE DeleteRoot
  BY <1>0, <1>5 DEF DeleteRoot, RootRows
<1>6. CASE QueueWriteback \/ SettleWriteback \/ LeaseExpires
  BY <1>6 DEF QueueWriteback, SettleWriteback, LeaseExpires
<1>7. CASE IntervalElapses
  BY <1>0, <1>7 DEF IntervalElapses, RootRows
<1> QED
  BY <1>1, <1>2, <1>3, <1>4, <1>5, <1>6, <1>7 DEF Environment

LEMMA WorkerReady == ASSUME NEW w \in Workers PROVE TypeOK /\ Worker(w) => ReadyStep
<1> SUFFICES ASSUME TypeOK, Worker(w) PROVE ReadyStep
  OBVIOUS
<1> USE DEF ReadyStep
<1>0. root \in RootRows /\ run \in RunRows /\ worker \in [Workers -> Frames]
  BY TypeParts
<1>1. CASE RecoverExpired(w)
  BY <1>0, <1>1, EndedType, ReadyNeedsVersion DEF RecoverExpired, RunStatuses
<1>2. CASE ReconcileLatest(w)
  <2>1. run.status # "NONE" =>
            /\ root'.status = StatusFor(root, run.version, run.status, IsActive(run))
            /\ root'.version = root.version
    BY <1>0, <1>2 DEF ReconcileLatest, RootRows
  <2> QED
    BY <1>2, <2>1 DEF ReconcileLatest, StatusFor
<1>3. CASE EnsureDefaultRoot(w)
  BY <1>0, <1>3 DEF EnsureDefaultRoot, RootRows
<1>4. CASE EnqueueStartupScan(w)
  BY <1>0, <1>4, NewRunType, MovesRunReady, ReadyNeedsVersion DEF EnqueueStartupScan, Queues
<1>5. CASE EnqueueScheduledScan(w)
  BY <1>0, <1>5, NewRunType, ReadyNeedsVersion DEF EnqueueScheduledScan
<1>6. CASE ClaimCancels(w)
  BY <1>6, EndedType, MovesRunReady DEF ClaimCancels, RunStatuses
<1>7. CASE ClaimStarts(w)
  BY <1>7, ClaimedRunType, MovesRunReady DEF ClaimStarts
<1>8. CASE Finalize(w)
  <2>1. worker[w].outcome \in RunStatuses
    BY <1>0 DEF Frames
  <2> QED
    BY <1>8, <2>1, EndedType, MovesRunReady DEF Finalize
<1>9. CASE \/ ClaimNothing(w) \/ Heartbeat(w) \/ HeartbeatFails(w) \/ IsCancelled(w)
           \/ ScanSucceeds(w) \/ ScanStops(w) \/ ScanFails(w) \/ Shutdown(w)
           \/ FinalizeFails(w) \/ Crash(w)
  BY <1>9 DEF ClaimNothing, Heartbeat, HeartbeatFails, IsCancelled, ScanSucceeds, ScanStops,
              ScanFails, Shutdown, FinalizeFails, Crash
<1> QED
  BY <1>1, <1>2, <1>3, <1>4, <1>5, <1>6, <1>7, <1>8, <1>9
     DEF Worker, Start, Claim, Scan

(* A scan of an older version of a source never turns it READY, whoever      *)
(* writes its status and in whatever order.                                  *)
THEOREM StaleScansNeverReady == Spec => StaleScanNeverReady
<1>1. TypeOK /\ [Next]_vars => [ReadyStep]_vars
  BY EnvironmentReady, WorkerReady DEF Next
<1> QED
  BY <1>1, ScanTypeCorrect, PTL DEF Spec, StaleScanNeverReady, ReadyStep

-----------------------------------------------------------------------------
(* What a step may do to a run: a new id, or the same run under these rules. *)
FinalStep ==
    run.status \in {"COMPLETED", "FAILED", "CANCELLED"} /\ run'.id = run.id /\ root'.exists
        => run' = run
CancelStep ==
    run.cancel /\ run'.id = run.id /\ run'.status # "NONE" =>
        run'.cancel /\ run'.attempt = run.attempt

LEMMA NextRun == TypeOK /\ Next => FinalStep /\ CancelStep
<1> SUFFICES ASSUME TypeOK, Next PROVE FinalStep /\ CancelStep
  OBVIOUS
<1>0. run \in RunRows /\ worker \in [Workers -> Frames]
  BY TypeParts
<1>1. CASE run' = run
  BY <1>1 DEF FinalStep, CancelStep
<1>2. CASE run' = NewRun
  <2>1. run'.id = run.id + 1 /\ run.id \in Nat
    BY <1>0, <1>2 DEF NewRun, NoRun, RunRows
  <2>2. run'.id # run.id
    BY <2>1
  <2> QED
    BY <2>2 DEF FinalStep, CancelStep
<1>3. ASSUME NEW status \in RunStatuses, IsActive(run),
             \/ run' = Ended(status)
             \/ run' = [Ended(status) EXCEPT !.cancel = TRUE]
      PROVE  FinalStep /\ CancelStep
  BY <1>0, <1>3 DEF FinalStep, CancelStep, Ended, IsActive, RunRows
<1>4. ASSUME run.status = "RUNNING",
             \/ run' = [run EXCEPT !.cancel = TRUE]
             \/ \E live \in BOOLEAN : run' = [run EXCEPT !.live = live]
      PROVE  FinalStep /\ CancelStep
  BY <1>0, <1>4 DEF FinalStep, CancelStep, RunRows
<1>5. CASE Environment
  <2>1. CASE EnqueueScan
    BY <1>2, <2>1 DEF EnqueueScan, Queues, MovesRun
  <2>2. CASE CancelPendingScan
    BY <1>3, <2>2 DEF CancelPendingScan, MovesRun, IsActive, RunStatuses
  <2>3. CASE CancelRunningScan
    BY <1>4, <2>3 DEF CancelRunningScan
  <2>4. CASE UpdateRoot
    <3>1. run' = RunAfterUpdate
      BY <2>4 DEF UpdateRoot
    <3> QED
      BY <1>1, <1>3, <1>4, <3>1 DEF RunAfterUpdate, IsActive, RunStatuses
  <2>5. CASE DeleteRoot
    <3>1. ~root'.exists /\ run'.status = "NONE"
      BY <2>5, TypeParts DEF DeleteRoot, NoRun, RootRows
    <3> QED
      BY <3>1 DEF FinalStep, CancelStep
  <2>6. CASE QueueWriteback \/ SettleWriteback \/ IntervalElapses
    BY <1>1, <2>6 DEF QueueWriteback, SettleWriteback, IntervalElapses
  <2>7. CASE LeaseExpires
    BY <1>4, <2>7 DEF LeaseExpires
  <2> QED
    BY <1>5, <2>1, <2>2, <2>3, <2>4, <2>5, <2>6, <2>7 DEF Environment
<1>6. ASSUME NEW w \in Workers, Worker(w) PROVE FinalStep /\ CancelStep
  <2>1. CASE RecoverExpired(w)
    BY <1>1, <1>3, <2>1 DEF RecoverExpired, IsActive, RunStatuses
  <2>2. CASE EnqueueStartupScan(w) \/ EnqueueScheduledScan(w)
    BY <1>1, <1>2, <2>2 DEF EnqueueStartupScan, EnqueueScheduledScan, Queues, MovesRun
  <2>3. CASE ClaimCancels(w)
    BY <1>3, <2>3 DEF ClaimCancels, Claimable, MovesRun, IsActive, RunStatuses
  <2>4. CASE ClaimStarts(w)
    BY <2>4 DEF ClaimStarts, Claimable, StillValid, FinalStep, CancelStep
  <2>5. CASE Heartbeat(w)
    BY <1>1, <1>4, <2>5 DEF Heartbeat, Owns
  <2>6. CASE Finalize(w)
    <3>1. worker[w].outcome \in RunStatuses
      BY <1>0 DEF Frames
    <3> QED
      BY <1>1, <1>3, <2>6, <3>1 DEF Finalize, Owns, MovesRun, IsActive
  <2>7. CASE \/ ReconcileLatest(w) \/ EnsureDefaultRoot(w) \/ ClaimNothing(w)
             \/ HeartbeatFails(w) \/ IsCancelled(w) \/ ScanSucceeds(w) \/ ScanStops(w)
             \/ ScanFails(w) \/ Shutdown(w) \/ FinalizeFails(w) \/ Crash(w)
    BY <1>1, <2>7 DEF ReconcileLatest, EnsureDefaultRoot, ClaimNothing, HeartbeatFails,
           IsCancelled, ScanSucceeds, ScanStops, ScanFails, Shutdown, FinalizeFails, Crash
  <2> QED
    BY <1>6, <2>1, <2>2, <2>3, <2>4, <2>5, <2>6, <2>7 DEF Worker, Start, Claim, Scan
<1> QED
  BY <1>5, <1>6 DEF Next

(* A scan that ended is never written to again, also by workers that         *)
(* outlived their leases.                                                    *)
THEOREM EndedScansAreFinal == Spec => EndedScanIsFinal
<1>1. TypeOK /\ [Next]_vars => [FinalStep]_vars
  BY NextRun
<1> QED
  BY <1>1, ScanTypeCorrect, PTL DEF Spec, EndedScanIsFinal, FinalStep

(* A cancelled scan is never claimed again, whatever crashes in between.     *)
THEOREM CancelledScansStayCancelled == Spec => CancelledNeverRestarts
<1>1. TypeOK /\ [Next]_vars => [CancelStep]_vars
  BY NextRun
<1> QED
  BY <1>1, ScanTypeCorrect, PTL DEF Spec, CancelledNeverRestarts, CancelStep

-----------------------------------------------------------------------------
(* Exclusion.  As long as no worker outlives its lease, a worker that walks  *)
(* the directory owns the run and its lease is live; and what the claim      *)
(* refuses (a writeback on the root) the writeback refuses in turn.  Neither *)
(* OneScanner nor ScanExcludesWriteback is inductive alone: both need that   *)
(* the row still says what the worker believes.                              *)
Held == \A w \in Workers : Executing(w) => Owns(w) /\ run.live

Exclusion == Held /\ (HoldsRoot(run) => writeback = NoPath)

(* Steps of other workers that leave the run row alone. *)
LEMMA HeldByOthers ==
    ASSUME TypeOK, Exclusion, run' = run, writeback' = writeback,
           NEW w \in Workers, NEW frame, Becomes(w, frame),
           frame.pc \notin {"scan", "finish"}
    PROVE  Exclusion'
<1>1. worker \in [Workers -> Frames]
  BY TypeParts
<1>2. \A v \in Workers : Executing(v)' => Executing(v) /\ worker'[v] = worker[v]
  BY <1>1 DEF Becomes, Executing
<1> QED
  BY <1>2 DEF Exclusion, Held, Owns, HoldsRoot

(* Steps that keep the status, the owner and the attempt of the run. *)
LEMMA HeldAlong ==
    ASSUME TypeOK, Exclusion, UNCHANGED <<writeback, worker>>,
           run'.id = run.id, run'.status = run.status, run'.attempt = run.attempt,
           run'.owner = run.owner, run'.live = run.live
    PROVE  Exclusion'
BY DEF Exclusion, Held, Owns, Executing, HoldsRoot

(* Nobody walks the directory when the run has no live lease. *)
LEMMA NobodyExecutes ==
    ASSUME Exclusion, ~(run.status = "RUNNING" /\ run.live)
    PROVE  \A w \in Workers : ~Executing(w)
BY DEF Exclusion, Held, Owns

LEMMA EnvironmentExcludes ==
    ASSUME ~MayStall
    PROVE  TypeOK /\ Exclusion /\ Environment => Exclusion'
<1> SUFFICES ASSUME TypeOK, Exclusion, Environment PROVE Exclusion'
  OBVIOUS
<1>0. run \in RunRows /\ worker \in [Workers -> Frames]
  BY TypeParts
<1>1. CASE EnqueueScan \/ CancelPendingScan \/ DeleteRoot
  <2>1. ~(run.status = "RUNNING" /\ run.live)
    BY <1>1 DEF EnqueueScan, Queues, CancelPendingScan, DeleteRoot, IsActive
  <2>2. UNCHANGED <<worker, writeback>>
    BY <1>1 DEF EnqueueScan, CancelPendingScan, DeleteRoot
  <2>3. run'.status # "RUNNING"
    <3>1. CASE EnqueueScan
      BY <3>1 DEF EnqueueScan, Queues, MovesRun, NewRun, NoRun
    <3>2. CASE CancelPendingScan
      BY <1>0, <3>2 DEF CancelPendingScan, MovesRun, Ended, RunRows
    <3>3. CASE DeleteRoot
      BY <3>3 DEF DeleteRoot, NoRun
    <3> QED
      BY <1>1, <3>1, <3>2, <3>3
  <2> QED
    BY <2>1, <2>2, <2>3, NobodyExecutes DEF Exclusion, Held, Executing, HoldsRoot
<1>2. CASE CancelRunningScan
  BY <1>0, <1>2, HeldAlong DEF CancelRunningScan, RunRows
<1>3. CASE UpdateRoot
  <2>1. run' = RunAfterUpdate /\ UNCHANGED <<worker, writeback>>
    BY <1>3 DEF UpdateRoot
  <2>2. CASE run.status = "PENDING"
    <3>1. run'.status # "RUNNING"
      BY <1>0, <2>1, <2>2 DEF RunAfterUpdate, Ended, RunRows
    <3> QED
      BY <2>1, <2>2, <3>1, NobodyExecutes DEF Exclusion, Held, Executing, HoldsRoot
  <2>3. CASE run.status # "PENDING"
    <3>1. /\ run'.id = run.id /\ run'.status = run.status /\ run'.attempt = run.attempt
          /\ run'.owner = run.owner /\ run'.live = run.live
      BY <1>0, <2>1, <2>3 DEF RunAfterUpdate, RunRows
    <3> QED
      BY <2>1, <3>1, HeldAlong
  <2> QED
    BY <2>2, <2>3
<1>4. CASE QueueWriteback \/ SettleWriteback \/ IntervalElapses
  BY <1>4 DEF QueueWriteback, SettleWriteback, IntervalElapses, Exclusion, Held, Owns,
              Executing, HoldsRoot
<1>5. CASE LeaseExpires
  <2>1. ~(\E w \in Workers : Executing(w) /\ Owns(w)) /\ UNCHANGED <<worker, writeback>>
    BY <1>5 DEF LeaseExpires
  <2>2. ~run'.live
    BY <1>0, <1>5 DEF LeaseExpires, RunRows
  <2> QED
    BY <2>1, <2>2 DEF Exclusion, Held, Executing, HoldsRoot
<1> QED
  BY <1>1, <1>2, <1>3, <1>4, <1>5 DEF Environment

LEMMA WorkerExcludes ==
    ASSUME NEW w \in Workers
    PROVE  TypeOK /\ Exclusion /\ Worker(w) => Exclusion'
<1> SUFFICES ASSUME TypeOK, Exclusion, Worker(w) PROVE Exclusion'
  OBVIOUS
<1>0. run \in RunRows /\ worker \in [Workers -> Frames]
  BY TypeParts
<1>1. ASSUME ~(run.status = "RUNNING" /\ run.live), run'.status # "RUNNING",
             NEW frame, Becomes(w, frame), frame.pc \notin {"scan", "finish"}
      PROVE  Exclusion'
  <2>1. \A v \in Workers : ~Executing(v)'
    BY <1>0, <1>1, NobodyExecutes DEF Becomes, Executing
  <2> QED
    BY <1>1, <2>1 DEF Exclusion, Held, HoldsRoot
<1>2. \A pc : [worker[w] EXCEPT !.pc = pc].pc = pc
  BY <1>0 DEF Frames
<1>3. CASE RecoverExpired(w)
  <2>1. Becomes(w, [worker[w] EXCEPT !.pc = "reconcile"])
    BY <1>3 DEF RecoverExpired, Goto
  <2>2. CASE run.status = "RUNNING" /\ ~run.live
    <3>1. run'.status # "RUNNING"
      BY <1>0, <1>3, <2>2 DEF RecoverExpired, Ended, RunRows
    <3> QED
      BY <1>1, <1>2, <2>1, <2>2, <3>1
  <2>3. CASE ~(run.status = "RUNNING" /\ ~run.live)
    BY <1>2, <1>3, <2>1, <2>3, HeldByOthers DEF RecoverExpired
  <2> QED
    BY <2>2, <2>3
<1>4. CASE ReconcileLatest(w)
  BY <1>2, <1>4, HeldByOthers DEF ReconcileLatest, Goto
<1>5. CASE EnsureDefaultRoot(w)
  BY <1>2, <1>5, HeldByOthers DEF EnsureDefaultRoot, Goto
<1>6. CASE EnqueueStartupScan(w) \/ EnqueueScheduledScan(w)
  <2>1. PICK pc \in {"idle", "claim"} : Becomes(w, [worker[w] EXCEPT !.pc = pc])
    BY <1>6 DEF EnqueueStartupScan, EnqueueScheduledScan, Goto
  <2>2. writeback' = writeback
    BY <1>6 DEF EnqueueStartupScan, EnqueueScheduledScan
  <2>3. CASE run' = run
    BY <1>2, <2>1, <2>2, <2>3, HeldByOthers
  <2>4. CASE run' = NewRun /\ ~IsActive(run)
    <3>1. run'.status # "RUNNING" /\ run.status # "RUNNING"
      BY <2>4 DEF NewRun, NoRun, IsActive
    <3> QED
      BY <1>1, <1>2, <2>1, <3>1
  <2> QED
    BY <1>6, <2>3, <2>4 DEF EnqueueStartupScan, EnqueueScheduledScan, Queues, MovesRun
<1>7. CASE ClaimNothing(w)
  BY <1>2, <1>7, HeldByOthers DEF ClaimNothing, Goto
<1>8. CASE ClaimCancels(w)
  <2>1. Becomes(w, [worker[w] EXCEPT !.pc = "idle"])
    BY <1>8 DEF ClaimCancels, Goto
  <2>2. ~(run.status = "RUNNING" /\ run.live) /\ run'.status # "RUNNING"
    BY <1>0, <1>8 DEF ClaimCancels, Claimable, MovesRun, Ended, RunRows
  <2> QED
    BY <1>1, <1>2, <2>1, <2>2
<1>9. CASE ClaimStarts(w)
  <2>1. ~(run.status = "RUNNING" /\ run.live)
    BY <1>9 DEF ClaimStarts, Claimable
  <2>2. \A v \in Workers \ {w} : ~Executing(v)'
    BY <1>0, <1>9, <2>1, NobodyExecutes DEF ClaimStarts, Becomes, Executing
  <2>3. /\ run'.id = run.id /\ run'.status = "RUNNING" /\ run'.attempt = claims + 1
        /\ run'.owner = w /\ run'.live
    BY <1>0, <1>9 DEF ClaimStarts, MovesRun, RunRows
  <2>4. worker'[w].run = run.id /\ worker'[w].attempt = claims + 1
    BY <1>0, <1>9 DEF ClaimStarts, Becomes, IdleFrame
  <2>5. writeback' = NoPath
    BY <1>9 DEF ClaimStarts
  <2> QED
    BY <2>2, <2>3, <2>4, <2>5 DEF Exclusion, Held, Owns
<1>10. ASSUME Executing(w), run' = run, writeback' = writeback,
              NEW frame, Becomes(w, frame),
              frame.run = worker[w].run, frame.attempt = worker[w].attempt
       PROVE  Exclusion'
  <2>1. /\ worker'[w].run = worker[w].run /\ worker'[w].attempt = worker[w].attempt
        /\ \A v \in Workers \ {w} : worker'[v] = worker[v]
    BY <1>0, <1>10 DEF Becomes
  <2> QED
    BY <1>10, <2>1 DEF Exclusion, Held, Owns, Executing, HoldsRoot
<1>11. CASE Heartbeat(w)
  <2>1. Owns(w) /\ run.live
    BY <1>11 DEF Heartbeat, Exclusion, Held
  <2>2. run' = run /\ UNCHANGED <<worker, writeback>>
    BY <1>0, <1>11, <2>1 DEF Heartbeat, RunRows
  <2> QED
    BY <2>2, HeldAlong
<1>12. CASE HeartbeatFails(w)
  <2> DEFINE frame == [worker[w] EXCEPT !.lost = TRUE]
  <2>1. frame.run = worker[w].run /\ frame.attempt = worker[w].attempt
    BY <1>0 DEF Frames
  <2> QED
    BY <1>10, <1>12, <2>1 DEF HeartbeatFails
<1>13. CASE IsCancelled(w)
  <2> DEFINE frame == [worker[w] EXCEPT !.lost = ~Owns(w), !.seen = @ \/ (Owns(w) /\ run.cancel)]
  <2>1. frame.run = worker[w].run /\ frame.attempt = worker[w].attempt
    BY <1>0 DEF Frames
  <2>2. Becomes(w, frame) /\ Executing(w) /\ run' = run /\ writeback' = writeback
    BY <1>13 DEF IsCancelled, At, Executing
  <2> HIDE DEF frame
  <2> QED
    BY <1>10, <2>1, <2>2
<1>14. CASE ScanSucceeds(w) \/ ScanStops(w) \/ ScanFails(w) \/ Shutdown(w)
  <2>1. ASSUME NEW outcome, NEW stopping
        PROVE  LET frame == [worker[w] EXCEPT !.pc = "finish", !.outcome = outcome,
                                              !.stopping = stopping]
               IN  frame.run = worker[w].run /\ frame.attempt = worker[w].attempt
    BY <1>0 DEF Frames
  <2>2. ASSUME NEW outcome
        PROVE  LET frame == [worker[w] EXCEPT !.pc = "finish", !.outcome = outcome]
               IN  frame.run = worker[w].run /\ frame.attempt = worker[w].attempt
    BY <1>0 DEF Frames
  <2>3. Executing(w) /\ run' = run /\ writeback' = writeback
    BY <1>14 DEF ScanSucceeds, ScanStops, ScanFails, Shutdown, At, Executing
  <2>4. ASSUME NEW outcome, Returns(w, outcome) PROVE Exclusion'
    <3> DEFINE frame == [worker[w] EXCEPT !.pc = "finish", !.outcome = outcome]
    <3>1. Becomes(w, frame) /\ frame.run = worker[w].run /\ frame.attempt = worker[w].attempt
      BY <2>2, <2>4 DEF Returns
    <3> HIDE DEF frame
    <3> QED
      BY <1>10, <2>3, <3>1
  <2>5. CASE Shutdown(w)
    <3> DEFINE frame == [worker[w] EXCEPT !.pc = "finish", !.outcome = "PENDING",
                                          !.stopping = TRUE]
    <3>1. Becomes(w, frame) /\ frame.run = worker[w].run /\ frame.attempt = worker[w].attempt
      BY <2>1, <2>5 DEF Shutdown
    <3> HIDE DEF frame
    <3> QED
      BY <1>10, <2>3, <3>1
  <2> QED
    BY <1>14, <2>4, <2>5 DEF ScanSucceeds, ScanStops, ScanFails
<1>15. CASE Finalize(w)
  <2>1. PICK frame \in {DownFrame, IdleFrame} : Becomes(w, frame)
    BY <1>15 DEF Finalize, Leaves
  <2>2. frame.pc \notin {"scan", "finish"}
    BY <2>1 DEF DownFrame, IdleFrame
  <2>3. Owns(w)
    BY <1>15 DEF Finalize, Exclusion, Held, At, Executing
  <2>4. run' = Ended(worker[w].outcome) /\ writeback' = writeback
    BY <1>15, <2>3 DEF Finalize, MovesRun
  <2>5. \A v \in Workers \ {w} : ~Executing(v)
    BY <2>3 DEF Exclusion, Held, Owns
  <2>6. \A v \in Workers : ~Executing(v)'
    BY <1>0, <2>1, <2>2, <2>5 DEF Becomes, Executing
  <2>7. ~run'.live
    BY <1>0, <2>4 DEF Ended, RunRows
  <2> QED
    BY <2>6, <2>7 DEF Exclusion, Held, HoldsRoot
<1>16. CASE FinalizeFails(w) \/ Crash(w)
  <2>1. PICK frame \in {DownFrame, IdleFrame} : Becomes(w, frame)
    BY <1>16 DEF FinalizeFails, Crash, Leaves
  <2>2. frame.pc \notin {"scan", "finish"}
    BY <2>1 DEF DownFrame, IdleFrame
  <2>3. run' = run /\ writeback' = writeback
    BY <1>16 DEF FinalizeFails, Crash
  <2> QED
    BY <2>1, <2>2, <2>3, HeldByOthers
<1> QED
  BY <1>3, <1>4, <1>5, <1>6, <1>7, <1>8, <1>9, <1>11, <1>12, <1>13, <1>14, <1>15, <1>16
     DEF Worker, Start, Claim, Scan

LEMMA NextExcludes == ASSUME ~MayStall PROVE TypeOK /\ Exclusion /\ [Next]_vars => Exclusion'
<1>1. TypeOK /\ Exclusion /\ UNCHANGED vars => Exclusion'
  BY DEF vars, Exclusion, Held, Owns, Executing, HoldsRoot
<1> QED
  BY <1>1, EnvironmentExcludes, WorkerExcludes DEF Next

LEMMA ExclusionHolds == ASSUME ~MayStall PROVE Spec => []Exclusion
<1>1. Init => Exclusion
  BY DEF Init, Exclusion, Held, Executing, DownFrame, IdleFrame
<1> QED
  BY <1>1, NextExcludes, ScanTypeCorrect, PTL DEF Spec

(* Without stalls, however many processes, crashes, restarts and lost calls: *)
(* at most one worker walks the directory of a source.                       *)
THEOREM ScannersExclude == ASSUME ~MayStall PROVE Spec => []OneScanner
<1>1. Exclusion => OneScanner
  BY DEF Exclusion, Held, Owns, OneScanner
<1> QED
  BY <1>1, ExclusionHolds, PTL

(* And no writeback may touch the files of the source meanwhile.             *)
THEOREM ScansExcludeWritebacks == ASSUME ~MayStall PROVE Spec => []ScanExcludesWriteback
<1>1. Exclusion => ScanExcludesWriteback
  BY DEF Exclusion, Held, Owns, HoldsRoot, ScanExcludesWriteback
<1> QED
  BY <1>1, ExclusionHolds, PTL

(* The same of MCSpec, whose behaviours choose at their start whether workers *)
(* outlive their leases: the two kinds do not mix.                           *)
LEMMA ChosenExclusionHolds == ASSUME ~MayStall PROVE MCSpec => [](stalling \/ Exclusion)
<1> DEFINE Chosen == stalling \/ (TypeOK /\ Exclusion)
<1>1. MCInit => Chosen
  BY InitTypes DEF MCInit, Init, Exclusion, Held, Executing, DownFrame, IdleFrame
<1>2. Chosen /\ [MCNext]_<<vars, stalling>> => Chosen'
  <2> SUFFICES ASSUME Chosen, [MCNext]_<<vars, stalling>> PROVE Chosen'
    OBVIOUS
  <2>1. stalling' = stalling /\ (stalling \/ [Next]_vars)
    BY DEF MCNext
  <2>2. TypeOK /\ Exclusion /\ [Next]_vars => TypeOK' /\ Exclusion'
    BY NextTypes, NextExcludes
  <2> QED
    BY <2>1, <2>2
<1> QED
  BY <1>1, <1>2, PTL DEF MCSpec

(* Behaviours without stalls never have two workers on the directory.        *)
THEOREM ScannersExcludeUnlessStalled ==
    ASSUME ~MayStall PROVE MCSpec => []OneScannerUnlessStalled
<1>1. (stalling \/ Exclusion) => OneScannerUnlessStalled
  BY DEF Exclusion, Held, Owns, OneScanner, OneScannerUnlessStalled
<1> QED
  BY <1>1, ChosenExclusionHolds, PTL

(* And they never scan a file while a writeback holds the source.            *)
THEOREM ScansExcludeWritebacksUnlessStalled ==
    ASSUME ~MayStall PROVE MCSpec => []NoWritebackBesideScanUnlessStalled
<1>1. (stalling \/ Exclusion) => NoWritebackBesideScanUnlessStalled
  BY DEF Exclusion, Held, Owns, HoldsRoot, ScanExcludesWriteback, NoWritebackBesideScanUnlessStalled
<1> QED
  BY <1>1, ChosenExclusionHolds, PTL

-----------------------------------------------------------------------------
(* Paths.  The argument needs no assumption about stalls: only UpdateRoot    *)
(* changes the path, it is refused under a writeback, and it cancels the run *)
(* of whoever walks the old directory; CancelStep keeps that so.             *)
PathStep ==
    /\ root'.path # root.path => /\ writeback = NoPath /\ writeback' = NoPath
                                 /\ worker' = worker /\ run' = RunAfterUpdate
    /\ writeback' \in {writeback, NoPath, root.path}

(* Nobody comes to own a run but by claiming it, in the directory of then. *)
OwnerStep ==
    \A w \in Workers : Executing(w)' /\ Owns(w)' =>
        \/ /\ Executing(w) /\ Owns(w)
           /\ worker'[w].run = worker[w].run /\ worker'[w].path = worker[w].path
        \/ worker'[w].path = root.path /\ root'.path = root.path

LEMMA MovesRunPath ==
    ASSUME TypeOK, NEW new, MovesRun(new) PROVE root'.path = root.path
BY TypeParts DEF MovesRun, Trigger, Reconcile, RootRows

LEMMA EnvironmentPaths == TypeOK /\ Environment => PathStep
<1> SUFFICES ASSUME TypeOK, Environment PROVE PathStep
  OBVIOUS
<1>0. root \in RootRows
  BY TypeParts
<1>1. CASE EnqueueScan \/ CancelPendingScan
  BY <1>1, MovesRunPath DEF EnqueueScan, Queues, CancelPendingScan, PathStep
<1>2. CASE CancelRunningScan
  BY <1>0, <1>2 DEF CancelRunningScan, Reconcile, RootRows, PathStep
<1>3. CASE UpdateRoot
  <2>1. PICK enabled, moved \in BOOLEAN :
           /\ moved => writeback = NoPath
           /\ run' = RunAfterUpdate
           /\ LET before == IF run.status = "PENDING" THEN Trigger(root, run') ELSE root
              IN  root' = [before EXCEPT
                     !.managed = FALSE, !.enabled = enabled, !.version = root.version + 1,
                     !.path = IF moved THEN root.path + 1 ELSE root.path,
                     !.status = IF ~enabled THEN "DISABLED"
                                ELSE IF root.status = "DISABLED" THEN "UNKNOWN" ELSE root.status]
    BY <1>3 DEF UpdateRoot
  <2> DEFINE before == IF run.status = "PENDING" THEN Trigger(root, run') ELSE root
             status == IF ~enabled THEN "DISABLED"
                       ELSE IF root.status = "DISABLED" THEN "UNKNOWN" ELSE root.status
             version == root.version + 1
             path == IF moved THEN root.path + 1 ELSE root.path
  <2>2. before \in [exists : BOOLEAN, enabled : BOOLEAN, managed : BOOLEAN, version : Nat \ {0},
                    path : Nat \ {0}, status : RootStatuses, scanned : Ages, failed : BOOLEAN]
    <3>1. run' \in RunRows
      BY <1>3, EnvironmentTypes, TypeParts DEF TypeOK, RunRows
    <3> QED
      BY <1>0, <3>1, RootFollowsRunType DEF RootRows
  <2>3. root' = [before EXCEPT !.managed = FALSE, !.enabled = enabled, !.version = version,
                               !.path = path, !.status = status]
    BY <2>1
  <2>4. moved \/ path = root.path
    OBVIOUS
  <2> HIDE DEF before, status, version, path
  <2>5. root'.path = path
    BY <2>2, <2>3
  <2> QED
    BY <1>3, <2>1, <2>4, <2>5 DEF UpdateRoot, PathStep
<1>4. CASE DeleteRoot \/ QueueWriteback \/ SettleWriteback \/ LeaseExpires \/ IntervalElapses
  BY <1>0, <1>4 DEF DeleteRoot, QueueWriteback, SettleWriteback, LeaseExpires,
                    IntervalElapses, RootRows, PathStep
<1> QED
  BY <1>1, <1>2, <1>3, <1>4 DEF Environment

LEMMA WorkerPaths == ASSUME NEW w \in Workers PROVE TypeOK /\ Worker(w) => PathStep
<1> SUFFICES ASSUME TypeOK, Worker(w) PROVE PathStep
  OBVIOUS
<1>0. root \in RootRows
  BY TypeParts
<1>1. writeback' = writeback
  BY DEF Worker, Start, RecoverExpired, ReconcileLatest, EnsureDefaultRoot,
         EnqueueStartupScan, EnqueueScheduledScan, Claim, ClaimNothing, ClaimCancels,
         ClaimStarts, Scan, ScanSucceeds, ScanStops, Finalize, Heartbeat, HeartbeatFails,
         IsCancelled, ScanFails, Shutdown, FinalizeFails, Crash
<1>2. ASSUME NEW new, root' = Trigger(root, new) \/ root' = Reconcile(root, new)
      PROVE  root'.path = root.path
  BY <1>0, <1>2 DEF Trigger, Reconcile, RootRows
<1>3. CASE root' = root
  BY <1>1, <1>3 DEF PathStep
<1>4. CASE RecoverExpired(w)
  BY <1>1, <1>2, <1>4 DEF RecoverExpired, PathStep
<1>5. CASE ReconcileLatest(w) \/ EnsureDefaultRoot(w)
  BY <1>0, <1>1, <1>5 DEF ReconcileLatest, EnsureDefaultRoot, RootRows, PathStep
<1>6. CASE EnqueueStartupScan(w) \/ EnqueueScheduledScan(w)
  BY <1>1, <1>2, <1>6, MovesRunPath
     DEF EnqueueStartupScan, EnqueueScheduledScan, Queues, PathStep
<1>7. CASE ClaimCancels(w) \/ ClaimStarts(w) \/ Finalize(w)
  BY <1>1, <1>7, MovesRunPath DEF ClaimCancels, ClaimStarts, Finalize, PathStep
<1>8. CASE \/ ClaimNothing(w) \/ ScanSucceeds(w) \/ ScanStops(w) \/ Heartbeat(w)
           \/ HeartbeatFails(w) \/ IsCancelled(w) \/ ScanFails(w) \/ Shutdown(w)
           \/ FinalizeFails(w) \/ Crash(w)
  BY <1>3, <1>8 DEF ClaimNothing, ScanSucceeds, ScanStops, Heartbeat, HeartbeatFails,
                    IsCancelled, ScanFails, Shutdown, FinalizeFails, Crash
<1> QED
  BY <1>4, <1>5, <1>6, <1>7, <1>8 DEF Worker, Start, Claim, Scan

(* Steps that leave the workers alone make nobody an owner. *)
LEMMA EnvironmentOwners == TypeOK /\ Environment => OwnerStep
<1> SUFFICES ASSUME TypeOK, Environment PROVE OwnerStep
  OBVIOUS
<1>0. run \in RunRows
  BY TypeParts
<1>1. worker' = worker
  BY DEF Environment, EnqueueScan, CancelPendingScan, CancelRunningScan, UpdateRoot,
         DeleteRoot, QueueWriteback, SettleWriteback, LeaseExpires, IntervalElapses
<1>2. run'.status = "RUNNING" =>
          /\ run.status = "RUNNING" /\ run'.id = run.id
          /\ run'.attempt = run.attempt /\ run'.owner = run.owner
  <2>1. CASE EnqueueScan
    BY <2>1 DEF EnqueueScan, Queues, MovesRun, NewRun, NoRun
  <2>2. CASE CancelPendingScan
    BY <1>0, <2>2 DEF CancelPendingScan, MovesRun, Ended, RunRows
  <2>3. CASE CancelRunningScan
    BY <1>0, <2>3 DEF CancelRunningScan, RunRows
  <2>4. CASE UpdateRoot
    <3>1. run' = RunAfterUpdate
      BY <2>4 DEF UpdateRoot
    <3> QED
      BY <1>0, <3>1 DEF RunAfterUpdate, Ended, RunRows
  <2>5. CASE DeleteRoot
    BY <2>5 DEF DeleteRoot, NoRun
  <2>6. CASE QueueWriteback \/ SettleWriteback \/ IntervalElapses
    BY <2>6 DEF QueueWriteback, SettleWriteback, IntervalElapses
  <2>7. CASE LeaseExpires
    BY <1>0, <2>7 DEF LeaseExpires, RunRows
  <2> QED
    BY <2>1, <2>2, <2>3, <2>4, <2>5, <2>6, <2>7 DEF Environment
<1> QED
  BY <1>1, <1>2 DEF OwnerStep, Owns, Executing

LEMMA WorkerOwners == ASSUME NEW w \in Workers PROVE TypeOK /\ Worker(w) => OwnerStep
<1> SUFFICES ASSUME TypeOK, Worker(w) PROVE OwnerStep
  OBVIOUS
<1>0. run \in RunRows /\ worker \in [Workers -> Frames]
  BY TypeParts
<1>1. ASSUME run'.status # "RUNNING" \/ run'.owner = NoWorker PROVE OwnerStep
  BY <1>1, ScanAssumption DEF OwnerStep, Owns
<1>2. ASSUME run' = run, NEW frame, Becomes(w, frame),
             \/ frame.pc \notin {"scan", "finish"}
             \/ /\ Executing(w)
                /\ frame.run = worker[w].run /\ frame.path = worker[w].path
                /\ frame.attempt = worker[w].attempt
      PROVE  OwnerStep
  <2>1. worker'[w] = frame /\ \A v \in Workers \ {w} : worker'[v] = worker[v]
    BY <1>0, <1>2 DEF Becomes
  <2> QED
    BY <1>2, <2>1 DEF OwnerStep, Owns, Executing
<1>3. \A pc : [worker[w] EXCEPT !.pc = pc].pc = pc
  BY <1>0 DEF Frames
<1>4. CASE RecoverExpired(w)
  <2>1. CASE run' = run
    BY <1>2, <1>3, <1>4, <2>1 DEF RecoverExpired, Goto
  <2>2. CASE run' = Ended("FAILED")
    <3>1. run'.status # "RUNNING"
      BY <1>0, <2>2 DEF Ended, RunRows
    <3> QED
      BY <1>1, <3>1
  <2> QED
    BY <1>4, <2>1, <2>2 DEF RecoverExpired
<1>5. CASE ReconcileLatest(w)
  BY <1>2, <1>3, <1>5 DEF ReconcileLatest, Goto
<1>6. CASE EnsureDefaultRoot(w) \/ ClaimNothing(w)
  BY <1>2, <1>3, <1>6 DEF EnsureDefaultRoot, ClaimNothing, Goto
<1>7. CASE EnqueueStartupScan(w) \/ EnqueueScheduledScan(w)
  <2>1. CASE run' = run
    <3>1. PICK pc \in {"idle", "claim"} : Becomes(w, [worker[w] EXCEPT !.pc = pc])
      BY <1>7 DEF EnqueueStartupScan, EnqueueScheduledScan, Goto
    <3> QED
      BY <1>2, <1>3, <2>1, <3>1
  <2>2. CASE run' = NewRun
    <3>1. run'.status # "RUNNING"
      BY <2>2 DEF NewRun, NoRun
    <3> QED
      BY <1>1, <3>1
  <2> QED
    BY <1>7, <2>1, <2>2 DEF EnqueueStartupScan, EnqueueScheduledScan, Queues, MovesRun
<1>8. CASE ClaimCancels(w)
  <2>1. run'.status # "RUNNING"
    BY <1>0, <1>8 DEF ClaimCancels, MovesRun, Ended, RunRows
  <2> QED
    BY <1>1, <2>1
<1>9. CASE ClaimStarts(w)
  <2>1. worker'[w].path = root.path
    BY <1>0, <1>9 DEF ClaimStarts, Becomes, IdleFrame
  <2>2. root'.path = root.path
    BY <1>9, MovesRunPath DEF ClaimStarts
  <2>3. run'.owner = w
    BY <1>0, <1>9 DEF ClaimStarts, MovesRun, RunRows
  <2> QED
    BY <2>1, <2>2, <2>3 DEF OwnerStep, Owns
<1>10. CASE Heartbeat(w)
  <2>1. CASE Owns(w)
    <3>1. worker' = worker /\ run' = [run EXCEPT !.live = TRUE]
      BY <1>10, <2>1 DEF Heartbeat
    <3>2. /\ run'.id = run.id /\ run'.status = run.status
          /\ run'.attempt = run.attempt /\ run'.owner = run.owner
      BY <1>0, <3>1 DEF RunRows
    <3> QED
      BY <3>1, <3>2 DEF OwnerStep, Owns, Executing
  <2>2. CASE ~Owns(w)
    <3> DEFINE frame == [worker[w] EXCEPT !.lost = TRUE]
    <3>1. /\ frame.run = worker[w].run /\ frame.path = worker[w].path
          /\ frame.attempt = worker[w].attempt
      BY <1>0 DEF Frames
    <3>2. run' = run /\ Becomes(w, frame) /\ Executing(w)
      BY <1>10, <2>2 DEF Heartbeat
    <3> HIDE DEF frame
    <3> QED
      BY <1>2, <3>1, <3>2
  <2> QED
    BY <2>1, <2>2
<1>11. CASE HeartbeatFails(w)
  <2> DEFINE frame == [worker[w] EXCEPT !.lost = TRUE]
  <2>1. /\ frame.run = worker[w].run /\ frame.path = worker[w].path
        /\ frame.attempt = worker[w].attempt
    BY <1>0 DEF Frames
  <2>2. run' = run /\ Becomes(w, frame) /\ Executing(w)
    BY <1>11 DEF HeartbeatFails
  <2> HIDE DEF frame
  <2> QED
    BY <1>2, <2>1, <2>2
<1>12. CASE IsCancelled(w)
  <2> DEFINE frame == [worker[w] EXCEPT !.lost = ~Owns(w), !.seen = @ \/ (Owns(w) /\ run.cancel)]
  <2>1. /\ frame.run = worker[w].run /\ frame.path = worker[w].path
        /\ frame.attempt = worker[w].attempt
    BY <1>0 DEF Frames
  <2>2. run' = run /\ Becomes(w, frame) /\ Executing(w)
    BY <1>12 DEF IsCancelled, At, Executing
  <2> HIDE DEF frame
  <2> QED
    BY <1>2, <2>1, <2>2
<1>13. CASE ScanSucceeds(w) \/ ScanStops(w) \/ ScanFails(w) \/ Shutdown(w)
  <2>1. Executing(w) /\ run' = run
    BY <1>13 DEF ScanSucceeds, ScanStops, ScanFails, Shutdown, At, Executing
  <2>2. ASSUME NEW outcome, Returns(w, outcome) PROVE OwnerStep
    <3> DEFINE frame == [worker[w] EXCEPT !.pc = "finish", !.outcome = outcome]
    <3>1. /\ frame.run = worker[w].run /\ frame.path = worker[w].path
          /\ frame.attempt = worker[w].attempt
      BY <1>0 DEF Frames
    <3>2. Becomes(w, frame)
      BY <2>2 DEF Returns
    <3> HIDE DEF frame
    <3> QED
      BY <1>2, <2>1, <3>1, <3>2
  <2>3. CASE Shutdown(w)
    <3> DEFINE frame == [worker[w] EXCEPT !.pc = "finish", !.outcome = "PENDING",
                                          !.stopping = TRUE]
    <3>1. /\ frame.run = worker[w].run /\ frame.path = worker[w].path
          /\ frame.attempt = worker[w].attempt
      BY <1>0 DEF Frames
    <3>2. Becomes(w, frame)
      BY <2>3 DEF Shutdown
    <3> HIDE DEF frame
    <3> QED
      BY <1>2, <2>1, <3>1, <3>2
  <2> QED
    BY <1>13, <2>2, <2>3 DEF ScanSucceeds, ScanStops, ScanFails
<1>14. CASE Finalize(w) \/ FinalizeFails(w) \/ Crash(w)
  <2>1. PICK frame \in {DownFrame, IdleFrame} : Becomes(w, frame)
    BY <1>14 DEF Finalize, FinalizeFails, Crash, Leaves
  <2>2. frame.pc \notin {"scan", "finish"}
    BY <2>1 DEF DownFrame, IdleFrame
  <2>3. CASE run' = run
    BY <1>2, <2>1, <2>2, <2>3
  <2>4. CASE run' = Ended(worker[w].outcome)
    <3>1. run'.owner = NoWorker
      BY <1>0, <2>4 DEF Ended, RunRows
    <3> QED
      BY <1>1, <3>1
  <2> QED
    BY <1>14, <2>3, <2>4 DEF Finalize, FinalizeFails, Crash, MovesRun
<1> QED
  BY <1>4, <1>5, <1>6, <1>7, <1>8, <1>9, <1>10, <1>11, <1>12, <1>13, <1>14
     DEF Worker, Start, Claim, Scan

(* The directory never moves under a writeback, and whoever still walks the  *)
(* old directory of a source has been asked to stop; also with stalls.       *)
THEOREM DirectoriesAgree == Spec => []PathsAgree
<1>1. Init => PathsAgree
  BY DEF Init, PathsAgree, Executing, DownFrame, IdleFrame
<1>2. TypeOK /\ PathsAgree /\ Next => PathsAgree'
  <2> SUFFICES ASSUME TypeOK, PathsAgree, Next PROVE PathsAgree'
    OBVIOUS
  <2>1. PathStep /\ OwnerStep /\ FinalStep /\ CancelStep
    BY EnvironmentPaths, WorkerPaths, EnvironmentOwners, WorkerOwners, NextRun DEF Next
  <2>2. writeback' # NoPath => writeback' = root'.path
    BY <2>1 DEF PathStep, PathsAgree
  <2>3. ASSUME NEW w \in Workers, Executing(w)', Owns(w)', worker'[w].path # root'.path
        PROVE  run'.cancel
    <3>1. Executing(w) /\ Owns(w) /\ worker'[w].run = worker[w].run
          /\ worker'[w].path = worker[w].path
      BY <2>1, <2>3 DEF OwnerStep
    <3>2. CASE root'.path = root.path
      <4>1. run.cancel
        BY <2>3, <3>1, <3>2 DEF PathsAgree
      <4>2. run'.id = run.id /\ run'.status = "RUNNING"
        BY <2>3, <3>1 DEF Owns
      <4> QED
        BY <2>1, <4>1, <4>2 DEF CancelStep
    <3>3. CASE root'.path # root.path
      <4>1. run' = [run EXCEPT !.cancel = TRUE]
        BY <2>1, <3>1, <3>3 DEF PathStep, Owns, RunAfterUpdate
      <4> QED
        BY <4>1, TypeParts DEF RunRows
    <3> QED
      BY <3>2, <3>3
  <2> QED
    BY <2>2, <2>3 DEF PathsAgree
<1>3. PathsAgree /\ UNCHANGED vars => PathsAgree'
  BY DEF vars, PathsAgree, Executing, Owns
<1> QED
  BY <1>1, <1>2, <1>3, ScanTypeCorrect, PTL DEF Spec
=============================================================================
