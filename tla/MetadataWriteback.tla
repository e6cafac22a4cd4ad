--------------------------- MODULE MetadataWriteback ---------------------------
(***************************************************************************)
(* internal/modules/adminmetadata: writing edited tags back into the audio *)
(* file of one local music source.                                         *)
(*                                                                         *)
(* A job row (metadata_writeback_jobs) is claimed by background workers    *)
(* under a lease.  A fresh attempt remuxes the file beside the source,     *)
(* records PREPARED, swaps the files by no-replace renames (source ->      *)
(* rollback, temporary -> source), records FILE_REPLACED, commits the new  *)
(* checksum and metadata, and removes the rollback.  Any error, crash or   *)
(* lost lease in between is undone by the deferred handler of the attempt  *)
(* or by the next worker that claims the row.  Every database transaction  *)
(* and every file operation is a step of its own.                          *)
(*                                                                         *)
(* One source file is modelled, and `job` is the latest row for it: the    *)
(* partial unique index allows one active row per source, and the claim    *)
(* skips locked rows, so sources do not interact.  File contents are       *)
(* abstract values; a checksum identifies a content.  next_attempt_at only *)
(* delays a claim and is left out (a claim may always come later).         *)
(***************************************************************************)
EXTENDS Naturals

CONSTANTS
    Workers,          \* metadata-writeback pollers, over all processes
    NoWorker,         \* locked_by is null
    MaxAttempts,      \* max_attempts of the row (5 by default)
    MaxAttemptIds,    \* bound: attempt ids handed out in a behaviour
    MaxDisturbances,  \* bound: crashes, failed calls, stops, admin interference
    MaxEdits,         \* bound: external rewrites of the source file
    MayStall          \* a running worker may outlive its 120 s lease unnoticed

ASSUME WritebackAssumption ==
    /\ NoWorker \notin Workers
    /\ MaxAttempts \in Nat \ {0}
    /\ MaxAttemptIds \in Nat
    /\ MaxDisturbances \in Nat
    /\ MaxEdits \in Nat
    /\ MayStall \in BOOLEAN

VARIABLES
    job,          \* the metadata_writeback_jobs row
    catalog,      \* local_music_sources.checksum_sha256
    metadata,     \* track_metadata.version
    writable,     \* the root is READ_WRITE and enabled, no scan holds it, source READY, track active
    source,       \* content at the managed path
    temporary,    \* content of each attempt's temporary file
    rollback,     \* content of each attempt's rollback file
    worker,       \* the call frame of every worker
    nextAttempt,  \* the next fresh attempt id
    edits,        \* external rewrites so far
    overwritten,  \* history: contents destroyed by an external rewrite in place
    disturbances  \* disturbances so far

dbVars   == <<job, catalog, metadata>>
fileVars == <<source, temporary, rollback>>
envVars  == <<writable, nextAttempt, edits, overwritten>>
vars == <<job, catalog, metadata, writable, source, temporary, rollback,
          worker, nextAttempt, edits, overwritten, disturbances>>

-----------------------------------------------------------------------------
(* Contents, rows and frames *)

AttemptIds == 1..MaxAttemptIds

Absent    == <<"absent", 0>>
UserFile(n) == <<"user", n>>      \* the n-th content put there from outside
Output(a) == <<"output", a>>      \* what attempt a remuxed
Content   == {Absent} \cup {UserFile(n) : n \in 0..MaxEdits} \cup {Output(a) : a \in AttemptIds}

Statuses == {"NONE", "PENDING", "PROCESSING", "READY", "FAILED", "CANCELLED"}
Stages   == {"QUEUED", "PREPARING", "PREPARED", "FILE_REPLACED", "COMMITTED"}

(* The error codes the code tells apart: ROLLBACK_FAILED, cancellation, the *)
(* other terminalWritebackCodes, WORKER_LEASE_EXPIRED, everything else.     *)
Codes == {"none", "rollbackFailed", "cancelled", "terminal", "leaseExpired", "retryable"}

Active == {"PENDING", "PROCESSING"}

NoJob ==
    [status |-> "NONE", stage |-> "QUEUED", attempts |-> 0, attempt |-> 0,
     output |-> Absent, owner |-> NoWorker, lease |-> "none", cancel |-> FALSE,
     expected |-> Absent, version |-> 0, error |-> "none"]

IdleFrame ==
    [pc |-> "idle", mode |-> "none", attempt |-> 0, original |-> Absent,
     output |-> Absent, armed |-> FALSE, code |-> "none", stopped |-> FALSE]

NeedsReconciliation(j) ==
    /\ j.status = "PROCESSING"
    /\ j.attempt # 0
    /\ j.output # Absent
    /\ j.stage \in {"PREPARED", "FILE_REPLACED", "COMMITTED"}

NeedsTransientRecovery(j) ==
    NeedsReconciliation(j) /\ j.stage \in {"PREPARED", "FILE_REPLACED"}

(* The row condition of every statement a worker makes about its job. *)
Owns(w) ==
    /\ job.status = "PROCESSING"
    /\ job.owner = w
    /\ job.attempt = worker[w].attempt

(* A step that uses the attempt's context waits for nobody once the        *)
(* context is cancelled; the deferred handler has a context of its own.    *)
At(w, pc) == worker[w].pc = pc
Calls(w, pc) == At(w, pc) /\ (worker[w].stopped => worker[w].mode = "deferred")

Becomes(w, frame) == worker' = [worker EXCEPT ![w] = frame]
Goto(w, pc) == Becomes(w, [worker[w] EXCEPT !.pc = pc])
Ends(w) == Becomes(w, IdleFrame)

(* An error return: a fresh attempt runs its deferred handler first. *)
Fails(w, code) ==
    Becomes(w, [worker[w] EXCEPT
        !.pc = IF worker[w].mode = "fresh" THEN "unwind" ELSE "settle", !.code = code])

Disturb == disturbances < MaxDisturbances /\ disturbances' = disturbances + 1
Calm == UNCHANGED disturbances

(* The database did what it was asked, and then either the worker goes on  *)
(* at pc or the answer is lost and the call looks like a failed one.       *)
Answers(w, pc) ==
    \/ Goto(w, pc) /\ Calm
    \/ Fails(w, "retryable") /\ Disturb

-----------------------------------------------------------------------------
Init ==
    /\ job = NoJob
    /\ catalog = UserFile(0)
    /\ metadata = 1
    /\ writable = TRUE
    /\ source = UserFile(0)
    /\ temporary = [a \in AttemptIds |-> Absent]
    /\ rollback = [a \in AttemptIds |-> Absent]
    /\ worker = [w \in Workers |-> IdleFrame]
    /\ nextAttempt = 1
    /\ edits = 0
    /\ overwritten = {}
    /\ disturbances = 0

-----------------------------------------------------------------------------
(* Administrator requests (repository.go) *)

(* EvaluateWritebackEligibility holds and no row is active for the source;  *)
(* the row snapshots the recorded checksum and the metadata version.  The   *)
(* id bound leaves every queued job all of its attempts.                    *)
QueuedRow ==
    [NoJob EXCEPT !.status = "PENDING", !.expected = catalog, !.version = metadata]

Queues ==
    /\ writable
    /\ nextAttempt + MaxAttempts <= MaxAttemptIds + 1
    /\ job' = QueuedRow
    /\ Calm /\ UNCHANGED <<catalog, metadata, fileVars, worker, envVars>>

EnqueueWriteback == job.status \notin Active /\ Queues

RetryWriteback == job.status \in {"FAILED", "CANCELLED"} /\ Queues

CancelWriteback ==
    /\ job.status \in Active
    /\ job.stage # "COMMITTED"
    /\ ~job.cancel
    /\ job' = IF job.status = "PENDING"
              THEN [job EXCEPT !.cancel = TRUE, !.status = "CANCELLED", !.owner = NoWorker,
                               !.lease = "none", !.stage = "QUEUED", !.output = Absent]
              ELSE [job EXCEPT !.cancel = TRUE]
    /\ Calm /\ UNCHANGED <<catalog, metadata, fileVars, worker, envVars>>

(* Editing the tags is not blocked by an active writeback. *)
UpdateMetadata ==
    /\ job.status \in Active
    /\ metadata' = metadata + 1
    /\ Disturb
    /\ UNCHANGED <<job, catalog, fileVars, worker, envVars>>

-----------------------------------------------------------------------------
(* ClaimWriteback: one transaction, four outcomes *)

\* Mutant of Unclaimed: the files of an expired attempt are not considered.
UnclaimedIgnoringFiles ==
    \/ job.status = "PENDING"
    \/ job.status = "PROCESSING" /\ job.lease # "live"

(* A row no worker holds and whose files need no repair. *)
Unclaimed ==
    \/ job.status = "PENDING"
    \/ job.status = "PROCESSING" /\ job.lease # "live" /\ ~NeedsReconciliation(job)

ClaimCancels ==
    /\ Unclaimed /\ job.cancel
    /\ job' = [job EXCEPT !.status = "CANCELLED", !.owner = NoWorker, !.lease = "none",
                          !.error = "none", !.stage = "QUEUED", !.output = Absent]
    /\ Calm /\ UNCHANGED <<catalog, metadata, fileVars, worker, envVars>>

ClaimExhausts ==
    /\ Unclaimed /\ ~job.cancel /\ job.attempts >= MaxAttempts
    /\ job' = [job EXCEPT !.status = "FAILED", !.owner = NoWorker, !.lease = "none",
                          !.error = "leaseExpired", !.stage = "QUEUED", !.output = Absent]
    /\ Calm /\ UNCHANGED <<catalog, metadata, fileVars, worker, envVars>>

ClaimStarts(w) ==
    /\ At(w, "idle") /\ Unclaimed /\ ~job.cancel
    /\ job.attempts < MaxAttempts
    /\ nextAttempt \in AttemptIds
    /\ job' = [job EXCEPT !.status = "PROCESSING", !.attempts = @ + 1, !.attempt = nextAttempt,
                          !.stage = "PREPARING", !.output = Absent,
                          !.owner = w, !.lease = "live"]
    /\ nextAttempt' = nextAttempt + 1
    /\ Becomes(w, [IdleFrame EXCEPT !.pc = "load", !.mode = "fresh", !.attempt = nextAttempt])
    /\ Calm /\ UNCHANGED <<catalog, metadata, fileVars, writable, edits, overwritten>>

(* A row whose files may be mid-swap keeps its attempt id, whose paths the  *)
(* next owner must repair, and is claimed even when its attempts are spent. *)
RecoveryFrame ==
    [IdleFrame EXCEPT !.pc = "load", !.attempt = job.attempt,
                      !.mode = IF job.stage = "COMMITTED" THEN "committed" ELSE "transient"]

TakesOver(w, row) ==
    /\ job' = [row EXCEPT !.owner = w, !.lease = "live"]
    /\ Becomes(w, RecoveryFrame)
    /\ Calm /\ UNCHANGED <<catalog, metadata, fileVars, envVars>>

\* Mutants of ClaimRecovers: a recovery counts as an attempt; locked_until is
\* not looked at; a row whose attempts are spent is not claimed.
ClaimRecoversCounting(w) ==
    /\ At(w, "idle") /\ NeedsReconciliation(job) /\ job.lease # "live"
    /\ TakesOver(w, [job EXCEPT !.attempts = @ + 1])
ClaimRecoversLive(w) ==
    At(w, "idle") /\ NeedsReconciliation(job) /\ TakesOver(w, job)
ClaimRecoversUnspent(w) ==
    /\ At(w, "idle") /\ NeedsReconciliation(job) /\ job.lease # "live"
    /\ job.attempts < MaxAttempts /\ TakesOver(w, job)

ClaimRecovers(w) ==
    /\ At(w, "idle") /\ NeedsReconciliation(job) /\ job.lease # "live"
    /\ TakesOver(w, job)

-----------------------------------------------------------------------------
(* process(): a fresh attempt, up to the file replacement *)

(* What every context load and cancellation check can find wrong first. *)
Refusal(w) ==
    IF ~Owns(w) THEN "terminal"        \* WRITEBACK_LEASE_LOST
    ELSE IF job.cancel THEN "cancelled"
    ELSE "none"

ReadOnlyStep == Calm /\ UNCHANGED <<dbVars, fileVars, envVars>>

(* A chain of reads: the first check that fails decides the error. *)
Checks(w, code, pc) ==
    /\ IF code = "none" THEN Goto(w, pc) ELSE Fails(w, code)
    /\ ReadOnlyStep

SourceCode(w) ==
    IF source = Absent THEN "retryable"                       \* FILESYSTEM_*
    ELSE IF source # worker[w].original THEN "terminal"       \* SOURCE_CHANGED
    ELSE "none"

LoadWritebackContext(w) ==
    /\ Calls(w, "load")
    /\ IF ~Owns(w) THEN Fails(w, "terminal")
       ELSE LET loaded(pc) == Becomes(w, [worker[w] EXCEPT
                                    !.pc = pc, !.original = job.expected, !.output = job.output])
            IN  CASE worker[w].mode = "committed" -> loaded("renewCleanup")
                  [] worker[w].mode = "transient" -> loaded("renewRecovery")
                  [] OTHER ->
                       IF job.cancel THEN Fails(w, "cancelled")
                       ELSE IF ~writable \/ catalog # job.expected THEN Fails(w, "terminal")
                       ELSE loaded("checksum")
    /\ ReadOnlyStep

ChecksumSource(w) ==
    /\ Calls(w, "checksum")
    /\ Checks(w, IF Refusal(w) # "none" THEN Refusal(w) ELSE SourceCode(w), "remux")

(* ffmpeg writes the temporary file, which is probed, verified and hashed;  *)
(* a verification failure is terminal, any other failure is retryable.      *)
RemuxMetadata(w) ==
    /\ Calls(w, "remux")
    /\ \/ /\ temporary' = [temporary EXCEPT ![worker[w].attempt] = Output(worker[w].attempt)]
          /\ Becomes(w, [worker[w] EXCEPT !.pc = "recheck", !.output = Output(worker[w].attempt)])
          /\ Calm
       \/ \E code \in {"terminal", "retryable"} : Fails(w, code) /\ Disturb /\ UNCHANGED temporary
    /\ UNCHANGED <<dbVars, source, rollback, envVars>>

RecheckSource(w) ==
    /\ Calls(w, "recheck")
    /\ Checks(w, IF Refusal(w) # "none" THEN Refusal(w) ELSE SourceCode(w), "markPrepared")

MarkWritebackPrepared(w) ==
    /\ Calls(w, "markPrepared")
    /\ IF Owns(w)
       THEN /\ job' = [job EXCEPT !.stage = "PREPARED", !.output = worker[w].output]
            /\ Answers(w, "renew")
       ELSE Fails(w, "terminal") /\ Calm /\ UNCHANGED job
    /\ UNCHANGED <<catalog, metadata, fileVars, envVars>>

(* RenewWritebackLease, wherever the code calls it: the guard looks at the  *)
(* owner and the attempt, never at whether the lease has lapsed.            *)
AfterRenewal ==
    [renew |-> "validate", renewRecovery |-> "inspectRecovery",
     renewRestore |-> "inspectRestore", renewCleanup |-> "inspectCleanup"]

RenewWritebackLease(w) ==
    /\ \E pc \in DOMAIN AfterRenewal :
         /\ Calls(w, pc)
         /\ IF Owns(w)
            THEN job' = [job EXCEPT !.lease = "live"] /\ Answers(w, AfterRenewal[pc])
            ELSE Fails(w, IF pc = "renewRestore" THEN worker[w].code ELSE "terminal")
                 /\ Calm /\ UNCHANGED job
    /\ UNCHANGED <<catalog, metadata, fileVars, envVars>>

\* Mutant of ContextCode: a tag edit made since the job was queued goes unnoticed.
ContextCodeIgnoringVersion(w) ==
    IF ~writable \/ catalog # worker[w].original \/ job.expected # worker[w].original
    THEN "terminal" ELSE "none"

(* assertWritebackContextUnchanged on the row, catalog and metadata. *)
ContextCode(w) ==
    IF \/ ~writable
       \/ catalog # worker[w].original
       \/ job.expected # worker[w].original
       \/ metadata # job.version
    THEN "terminal" ELSE "none"

ValidateBeforeReplacement(w) ==
    /\ Calls(w, "validate")
    /\ Checks(w, IF Refusal(w) # "none" THEN Refusal(w)
                 ELSE IF ContextCode(w) # "none" THEN ContextCode(w)
                 ELSE SourceCode(w), "moveAside")

-----------------------------------------------------------------------------
(* replaceSourceFile: renames never replace an existing destination *)

DatabaseUntouched == UNCHANGED <<dbVars, envVars>>

Temporary(w) == temporary[worker[w].attempt]
Rollback(w)  == rollback[worker[w].attempt]
SetTemporary(w, content) == temporary' = [temporary EXCEPT ![worker[w].attempt] = content]
SetRollback(w, content)  == rollback' = [rollback EXCEPT ![worker[w].attempt] = content]

(* The stale rollback of this attempt is removed, then source -> rollback. *)
MoveSourceAside(w) ==
    /\ At(w, "moveAside")
    /\ \/ /\ source # Absent
          /\ source' = Absent /\ SetRollback(w, source)
          /\ Goto(w, "verifyAside") /\ Calm
       \/ /\ SetRollback(w, Absent) /\ Fails(w, "retryable")
          /\ IF source = Absent THEN Calm ELSE Disturb
          /\ UNCHANGED source
    /\ UNCHANGED temporary /\ DatabaseUntouched

PutsBack(w) == Becomes(w, [worker[w] EXCEPT !.pc = "putBack", !.code = "retryable"])

(* The content moved aside must be the one that was remuxed; a different    *)
(* one is put back, and a path recreated meanwhile is left alone.           *)
VerifyAside(w) ==
    /\ At(w, "verifyAside")
    /\ \/ /\ IF Rollback(w) = worker[w].original /\ source = Absent
             THEN Goto(w, "install")
             ELSE Becomes(w, [worker[w] EXCEPT
                      !.pc = IF Rollback(w) = worker[w].original THEN "unwind" ELSE "putBackOrFail",
                      !.code = "terminal", !.armed = (Rollback(w) = worker[w].original)])
          /\ Calm
       \/ PutsBack(w) /\ Disturb
    /\ UNCHANGED fileVars /\ DatabaseUntouched

InstallOutput(w) ==
    /\ At(w, "install")
    /\ \/ /\ source = Absent /\ Temporary(w) # Absent
          /\ source' = Temporary(w) /\ SetTemporary(w, Absent)
          /\ Goto(w, "syncInstalled") /\ Calm
       \/ /\ PutsBack(w)
          /\ IF source = Absent /\ Temporary(w) # Absent THEN Disturb ELSE Calm
          /\ UNCHANGED <<source, temporary>>
    /\ UNCHANGED rollback /\ DatabaseUntouched

(* From here on the deferred handler owns the undo (rollbackActive). *)
SyncInstalled(w) ==
    /\ At(w, "syncInstalled")
    /\ \/ Becomes(w, [worker[w] EXCEPT !.pc = "verifyInstalled", !.armed = TRUE]) /\ Calm
       \/ Becomes(w, [worker[w] EXCEPT !.pc = "discard", !.code = "retryable"]) /\ Disturb
    /\ UNCHANGED fileVars /\ DatabaseUntouched

(* A failed fsync: os.Remove(sourcePath), whatever is there by now. *)
DiscardInstalled(w) ==
    /\ At(w, "discard")
    /\ source' = Absent
    /\ Goto(w, "putBackOrFail")
    /\ Calm /\ UNCHANGED <<temporary, rollback>> /\ DatabaseUntouched

(* rollback -> source; a rollback still there arms the deferred handler. *)
PutBack(w) ==
    /\ \/ At(w, "putBack")
       \/ At(w, "putBackOrFail")
    /\ \/ /\ Rollback(w) # Absent /\ source = Absent
          /\ source' = Rollback(w) /\ SetRollback(w, Absent)
          /\ Becomes(w, [worker[w] EXCEPT !.pc = "unwind", !.armed = FALSE])
          /\ Calm
       \/ /\ Becomes(w, [worker[w] EXCEPT !.pc = "unwind", !.armed = (Rollback(w) # Absent),
                 !.code = IF At(w, "putBackOrFail") THEN "rollbackFailed" ELSE @])
          /\ IF Rollback(w) # Absent /\ source = Absent THEN Disturb ELSE Calm
          /\ UNCHANGED <<source, rollback>>
    /\ UNCHANGED temporary /\ DatabaseUntouched

VerifyInstalled(w) ==
    /\ At(w, "verifyInstalled")
    /\ Checks(w, IF source = Absent THEN "retryable"
                 ELSE IF source # worker[w].output THEN "terminal"
                 ELSE "none", "markReplaced")

-----------------------------------------------------------------------------
(* Commit and completion *)

MarkWritebackFileReplaced(w) ==
    /\ Calls(w, "markReplaced")
    /\ IF Owns(w) /\ job.output = worker[w].output
       THEN job' = [job EXCEPT !.stage = "FILE_REPLACED"] /\ Answers(w, "commit")
       ELSE Fails(w, "terminal") /\ Calm /\ UNCHANGED job
    /\ UNCHANGED <<catalog, metadata, fileVars, envVars>>

CommitRefusal(w) ==
    IF \/ ~Owns(w)
       \/ job.stage # "FILE_REPLACED"
       \/ job.output # worker[w].output
    THEN "terminal"
    ELSE IF job.cancel THEN "cancelled"
    ELSE ContextCode(w)

(* Source row, metadata row and job row change in one transaction. *)
CommitWriteback(w) ==
    /\ Calls(w, "commit")
    /\ IF CommitRefusal(w) = "none"
       THEN /\ catalog' = worker[w].output
            /\ metadata' = metadata + 1
            /\ job' = [job EXCEPT !.stage = "COMMITTED", !.lease = "live", !.error = "none"]
            /\ Answers(w, "removeRollback")
       ELSE Fails(w, CommitRefusal(w)) /\ Calm /\ UNCHANGED dbVars
    /\ UNCHANGED <<fileVars, envVars>>

RemoveReplacementRollback(w) ==
    /\ At(w, "removeRollback")
    /\ SetRollback(w, Absent)
    /\ Goto(w, IF worker[w].mode = "fresh" THEN "completeCommitted" ELSE "dropTemporaryCommitted")
    /\ Calm /\ UNCHANGED <<source, temporary>> /\ DatabaseUntouched

CompleteCommittedRollback(w) ==
    /\ Calls(w, "completeCommitted")
    /\ IF Owns(w) /\ job.stage = "COMMITTED"
       THEN /\ job' = [job EXCEPT !.status = "READY", !.attempt = 0, !.owner = NoWorker,
                                  !.lease = "none", !.cancel = FALSE, !.error = "none"]
            /\ \/ Ends(w) /\ Calm
               \/ Fails(w, "retryable") /\ Disturb
       ELSE Fails(w, "terminal") /\ Calm /\ UNCHANGED job
    /\ UNCHANGED <<catalog, metadata, fileVars, envVars>>

-----------------------------------------------------------------------------
(* The deferred handler of a fresh attempt *)

Unwinds(w) ==
    Becomes(w, [worker[w] EXCEPT !.pc = IF worker[w].armed THEN "findState" ELSE "settle",
                                 !.mode = "deferred"])

\* Mutant of UnwindAttempt: every artifact of the attempt is removed.
UnwindDroppingRollback(w) ==
    /\ At(w, "unwind")
    /\ SetTemporary(w, Absent) /\ SetRollback(w, Absent)
    /\ Unwinds(w)
    /\ Calm /\ UNCHANGED source /\ DatabaseUntouched

UnwindAttempt(w) ==
    /\ At(w, "unwind")
    /\ SetTemporary(w, Absent)
    /\ Unwinds(w)
    /\ Calm /\ UNCHANGED <<source, rollback>> /\ DatabaseUntouched

FindWriteback(w) ==
    /\ At(w, "findState")
    /\ Goto(w, IF ~Owns(w) THEN "settle"
               ELSE IF job.stage = "COMMITTED" /\ job.output = worker[w].output THEN "renewCleanup"
               ELSE IF NeedsTransientRecovery(job) THEN "renewRestore"
               ELSE "settle")
    /\ ReadOnlyStep

-----------------------------------------------------------------------------
(* restoreReplacementRollback: source -> temporary, rollback -> source *)

InspectRestore(w) ==
    /\ At(w, "inspectRestore")
    /\ IF Rollback(w) = worker[w].original /\ source \in {Absent, worker[w].output}
       THEN Goto(w, IF source = Absent THEN "restoreMissing" ELSE "stageOutput")
       ELSE Fails(w, "rollbackFailed")
    /\ ReadOnlyStep

(* rollback -> source when the source path is empty; a recovering worker    *)
(* then hashes what it restored, the deferred handler does not.             *)
RestoreMissing(w) ==
    /\ \/ At(w, "restoreMissing")
       \/ At(w, "recoverMissing")
    /\ \/ /\ Rollback(w) # Absent /\ source = Absent
          /\ source' = Rollback(w) /\ SetRollback(w, Absent)
          /\ Goto(w, IF At(w, "restoreMissing") THEN "dropTemporary" ELSE "verifyMissing")
          /\ Calm
       \/ /\ Fails(w, "rollbackFailed")
          /\ IF Rollback(w) # Absent /\ source = Absent THEN Disturb ELSE Calm
          /\ UNCHANGED <<source, rollback>>
    /\ UNCHANGED temporary /\ DatabaseUntouched

(* The replaced file is staged at the (removed) temporary path. *)
StageOutput(w) ==
    /\ At(w, "stageOutput")
    /\ \/ /\ source # Absent
          /\ source' = Absent /\ SetTemporary(w, source)
          /\ Goto(w, "restoreOriginal") /\ Calm
       \/ /\ SetTemporary(w, Absent) /\ Fails(w, "rollbackFailed")
          /\ IF source # Absent THEN Disturb ELSE Calm
          /\ UNCHANGED source
    /\ UNCHANGED rollback /\ DatabaseUntouched

RestoreOriginal(w) ==
    /\ At(w, "restoreOriginal")
    /\ \/ /\ Rollback(w) # Absent /\ source = Absent
          /\ source' = Rollback(w) /\ SetRollback(w, Absent)
          /\ Goto(w, "verifyRestored") /\ Calm
       \/ /\ Goto(w, "restoreOutput")
          /\ IF Rollback(w) # Absent /\ source = Absent THEN Disturb ELSE Calm
          /\ UNCHANGED <<source, rollback>>
    /\ UNCHANGED temporary /\ DatabaseUntouched

VerifyRestored(w) ==
    /\ At(w, "verifyRestored")
    /\ IF source = worker[w].original
       THEN Goto(w, "dropTemporary") /\ UNCHANGED <<source, rollback>>
       ELSE IF source # Absent /\ Rollback(w) = Absent
       THEN /\ source' = Absent /\ SetRollback(w, source)
            /\ Goto(w, "restoreOutput")
       ELSE Fails(w, "rollbackFailed") /\ UNCHANGED <<source, rollback>>
    /\ Calm /\ UNCHANGED temporary /\ DatabaseUntouched

RestoreOutput(w) ==
    /\ At(w, "restoreOutput")
    /\ IF Temporary(w) # Absent /\ source = Absent
       THEN source' = Temporary(w) /\ SetTemporary(w, Absent)
       ELSE UNCHANGED <<source, temporary>>
    /\ Fails(w, "rollbackFailed")
    /\ Calm /\ UNCHANGED rollback /\ DatabaseUntouched

(* The staged output, or what is left of the attempt, is removed. *)
DropTemporary(w) ==
    /\ \/ At(w, "dropTemporary")
       \/ At(w, "dropTemporaryCommitted")
    /\ SetTemporary(w, Absent)
    /\ Goto(w, IF At(w, "dropTemporary") THEN "completeTransient" ELSE "completeCommitted")
    /\ Calm /\ UNCHANGED <<source, rollback>> /\ DatabaseUntouched

(* The source is original again: the row goes back to the queue or ends. *)
CompleteTransientRollback(w) ==
    /\ Calls(w, "completeTransient")
    /\ IF Owns(w) /\ NeedsTransientRecovery(job)
       THEN /\ job' = [job EXCEPT
                  !.status = IF job.cancel THEN "CANCELLED"
                             ELSE IF job.attempts >= MaxAttempts THEN "FAILED"
                             ELSE "PENDING",
                  !.error = IF job.cancel THEN "cancelled" ELSE "leaseExpired",
                  !.attempt = 0, !.stage = "QUEUED", !.output = Absent,
                  !.owner = NoWorker, !.lease = "none"]
            /\ \/ Ends(w) /\ Calm
               \/ Fails(w, "retryable") /\ Disturb
       ELSE Fails(w, "terminal") /\ Calm /\ UNCHANGED job
    /\ UNCHANGED <<catalog, metadata, fileVars, envVars>>

-----------------------------------------------------------------------------
(* recoverTransientRollback and cleanupCommittedRollback *)

(* What the files of the attempt look like decides the repair. *)
RecoveryStep(w) ==
    IF Rollback(w) = Absent /\ source = worker[w].original THEN "dropTemporary"
    ELSE IF Rollback(w) # worker[w].original THEN "settle"
    ELSE IF source = Absent THEN "recoverMissing"
    ELSE IF source = worker[w].original THEN "dropRollback"
    ELSE IF source = worker[w].output THEN "inspectRestore"
    ELSE "settle"

InspectRecovery(w) ==
    /\ At(w, "inspectRecovery")
    /\ IF RecoveryStep(w) = "settle" THEN Fails(w, "rollbackFailed") ELSE Goto(w, RecoveryStep(w))
    /\ ReadOnlyStep

VerifyMissing(w) ==
    /\ At(w, "verifyMissing")
    /\ Checks(w, IF source = worker[w].original THEN "none" ELSE "rollbackFailed", "dropTemporary")

DropRollback(w) ==
    /\ At(w, "dropRollback")
    /\ SetRollback(w, Absent)
    /\ Goto(w, "dropTemporary")
    /\ Calm /\ UNCHANGED <<source, temporary>> /\ DatabaseUntouched

(* A committed attempt only has files to remove, if they are what it left. *)
InspectCleanup(w) ==
    /\ At(w, "inspectCleanup")
    /\ Checks(w, IF source = worker[w].output /\ Rollback(w) \in {Absent, worker[w].original}
                 THEN "none" ELSE "rollbackFailed",
              IF Rollback(w) = Absent THEN "dropTemporaryCommitted" ELSE "removeRollback")

-----------------------------------------------------------------------------
(* RunNext after process() returned an error *)

Unlocked(code) == [job EXCEPT !.owner = NoWorker, !.lease = "none", !.error = code]

(* resolveWritebackFailure: a requested cancellation wins over every error  *)
(* but ROLLBACK_FAILED.                                                     *)
FailureCode(w) ==
    IF job.cancel /\ worker[w].code # "rollbackFailed" THEN "cancelled" ELSE worker[w].code

ClosedRow(w) ==
    LET code == FailureCode(w)
        next == IF code = "cancelled" THEN "CANCELLED"
                ELSE IF code \in {"terminal", "rollbackFailed"} \/ job.attempts >= MaxAttempts THEN "FAILED"
                ELSE "PENDING"
    IN  [Unlocked(code) EXCEPT !.status = next, !.stage = "QUEUED", !.output = Absent,
                               !.attempt = IF next = "PENDING" THEN 0 ELSE @]

(* A row whose files may be mid-swap only loses its owner. *)
FailedRow(w) == IF NeedsReconciliation(job) THEN Unlocked(FailureCode(w)) ELSE ClosedRow(w)

FailWriteback(w) ==
    /\ At(w, "settle") /\ worker[w].mode = "deferred"
    /\ job' = IF Owns(w) THEN FailedRow(w) ELSE job
    /\ Ends(w)
    /\ Calm /\ UNCHANGED <<catalog, metadata, fileVars, envVars>>

ReleaseTransientRollback(w) ==
    /\ At(w, "settle") /\ worker[w].mode = "transient"
    /\ job' = IF Owns(w) /\ NeedsTransientRecovery(job) THEN Unlocked(worker[w].code) ELSE job
    /\ Ends(w)
    /\ Calm /\ UNCHANGED <<catalog, metadata, fileVars, envVars>>

ReleaseCommittedRollback(w) ==
    /\ At(w, "settle") /\ worker[w].mode = "committed"
    /\ job' = IF Owns(w) /\ job.stage = "COMMITTED" THEN Unlocked(worker[w].code) ELSE job
    /\ Ends(w)
    /\ Calm /\ UNCHANGED <<catalog, metadata, fileVars, envVars>>

-----------------------------------------------------------------------------
(* Time, failures and everybody else *)

ContextSteps == {"load", "checksum", "remux", "recheck", "markPrepared", "renew", "validate",
                 "markReplaced", "commit", "completeCommitted", "completeTransient",
                 "renewRecovery", "renewRestore", "renewCleanup"}
FileSteps    == {"verifyInstalled", "removeRollback", "inspectRecovery", "verifyMissing",
                 "dropRollback", "dropTemporary", "dropTemporaryCommitted", "inspectCleanup"}

Running(w) == worker[w].pc \notin {"idle", "settle"}

(* A database or file call fails without having done anything. *)
CallFails(w) ==
    /\ \/ worker[w].pc \in FileSteps
       \/ \E pc \in ContextSteps : Calls(w, pc)
    /\ Fails(w, IF At(w, "renewRestore") THEN worker[w].code ELSE "retryable")
    /\ Disturb /\ UNCHANGED <<dbVars, fileVars, envVars>>

FindWritebackFails(w) ==
    /\ At(w, "findState")
    /\ Goto(w, "settle")
    /\ Disturb /\ UNCHANGED <<dbVars, fileVars, envVars>>

(* The failure cannot be saved either: the row waits for its lease. *)
SettleFails(w) ==
    /\ At(w, "settle")
    /\ Ends(w)
    /\ Disturb /\ UNCHANGED <<dbVars, fileVars, envVars>>

(* The attempt's context is cancelled: the next call that uses it fails. *)
StopContext(w) ==
    /\ ~worker[w].stopped
    /\ Becomes(w, [worker[w] EXCEPT !.stopped = TRUE])
    /\ UNCHANGED <<dbVars, fileVars, envVars>>

WorkerStops(w) == Running(w) /\ StopContext(w) /\ Disturb

(* Not polled while recovering. *)
CancellationPoll(w) ==
    Running(w) /\ worker[w].mode = "fresh" /\ Owns(w) /\ job.cancel /\ StopContext(w) /\ Calm

HeartbeatLosesLease(w) == Running(w) /\ ~Owns(w) /\ StopContext(w) /\ Calm

HeartbeatRenews(w) ==
    /\ Running(w) /\ ~worker[w].stopped /\ Owns(w) /\ job.lease # "live"
    /\ job' = [job EXCEPT !.lease = "live"]
    /\ Calm /\ UNCHANGED <<catalog, metadata, fileVars, worker, envVars>>

StoppedCall(w) ==
    /\ worker[w].stopped /\ worker[w].mode # "deferred" /\ worker[w].pc \in ContextSteps
    /\ Fails(w, IF job.cancel THEN "cancelled" ELSE "retryable")
    /\ ReadOnlyStep

(* The process dies; files and rows stay. *)
Crash(w) == worker[w].pc # "idle" /\ Ends(w) /\ Disturb /\ UNCHANGED <<dbVars, fileVars, envVars>>

Executing(w) == Running(w) /\ Owns(w)

LeaseLapses ==
    /\ job.status = "PROCESSING" /\ job.lease = "live"
    /\ MayStall \/ ~\E w \in Workers : Executing(w)
    /\ job' = [job EXCEPT !.lease = "lapsed"]
    /\ Calm /\ UNCHANGED <<catalog, metadata, fileVars, worker, envVars>>

(* The root is disabled or made read-only, the track archived, and back. *)
ToggleWritable ==
    /\ writable' = ~writable
    /\ Disturb /\ UNCHANGED <<dbVars, fileVars, worker, nextAttempt, edits, overwritten>>

(* A user's own tool writes the file at the managed path: something new, or *)
(* the first recording, from a backup.                                      *)
ExternalEdit ==
    /\ edits < MaxEdits
    /\ edits' = edits + 1
    /\ \E content \in {UserFile(0), UserFile(edits + 1)} \ {source} : source' = content
    /\ overwritten' = overwritten \cup ({source} \ {Absent})
    /\ Calm /\ UNCHANGED <<dbVars, temporary, rollback, worker, writable, nextAttempt>>

Records(content) ==
    /\ content # Absent /\ content # catalog
    /\ catalog' = content
    /\ Calm /\ UNCHANGED <<job, metadata, fileVars, worker, envVars>>

\* Mutant of ScanRecordsSource: scans run while a writeback is active.
ScanRecordsSourceAnytime == Records(source)

(* A library scan, excluded while a row is active, records what it finds. *)
ScanRecordsSource == job.status \notin Active /\ Records(source)

-----------------------------------------------------------------------------
Process(w) ==
    \/ LoadWritebackContext(w) \/ ChecksumSource(w) \/ RemuxMetadata(w) \/ RecheckSource(w)
    \/ MarkWritebackPrepared(w) \/ RenewWritebackLease(w) \/ ValidateBeforeReplacement(w)
    \/ MoveSourceAside(w) \/ VerifyAside(w) \/ InstallOutput(w) \/ SyncInstalled(w)
    \/ DiscardInstalled(w) \/ PutBack(w) \/ VerifyInstalled(w)
    \/ MarkWritebackFileReplaced(w) \/ CommitWriteback(w)
    \/ RemoveReplacementRollback(w) \/ CompleteCommittedRollback(w)
    \/ UnwindAttempt(w) \/ FindWriteback(w)
    \/ InspectRestore(w) \/ RestoreMissing(w) \/ StageOutput(w) \/ RestoreOriginal(w)
    \/ VerifyRestored(w) \/ RestoreOutput(w) \/ DropTemporary(w) \/ CompleteTransientRollback(w)
    \/ InspectRecovery(w) \/ VerifyMissing(w) \/ DropRollback(w) \/ InspectCleanup(w)
    \/ FailWriteback(w) \/ ReleaseTransientRollback(w) \/ ReleaseCommittedRollback(w)
    \/ StoppedCall(w)

Interference(w) ==
    \/ CallFails(w) \/ FindWritebackFails(w) \/ SettleFails(w) \/ WorkerStops(w)
    \/ CancellationPoll(w) \/ HeartbeatLosesLease(w) \/ HeartbeatRenews(w) \/ Crash(w)

Claim == ClaimCancels \/ ClaimExhausts \/ \E w \in Workers : ClaimStarts(w) \/ ClaimRecovers(w)

Administrator == EnqueueWriteback \/ RetryWriteback \/ CancelWriteback \/ UpdateMetadata

Environment == LeaseLapses \/ ToggleWritable \/ ExternalEdit \/ ScanRecordsSource

Next ==
    \/ Administrator
    \/ Claim
    \/ \E w \in Workers : Process(w) \/ Interference(w)
    \/ Environment

Spec == Init /\ [][Next]_vars

(* Workers keep polling and running; a lease nobody renews runs out. *)
Fairness ==
    /\ WF_vars(Claim)
    /\ \A w \in Workers : WF_vars(Process(w))
    /\ WF_vars(LeaseLapses /\ ~\E w \in Workers : Executing(w))

FairSpec == Spec /\ Fairness

-----------------------------------------------------------------------------
(* Properties *)

Steps ==
    {"idle", "recheck", "moveAside", "verifyAside", "install", "syncInstalled", "discard",
     "putBack", "putBackOrFail", "unwind", "findState", "restoreMissing", "recoverMissing",
     "stageOutput", "restoreOriginal", "verifyRestored", "restoreOutput", "inspectRestore",
     "settle"} \cup ContextSteps \cup FileSteps

FrameType ==
    [pc : Steps,
     mode : {"none", "fresh", "deferred", "transient", "committed"},
     attempt : {0} \cup AttemptIds, original : Content, output : Content,
     armed : BOOLEAN, code : Codes, stopped : BOOLEAN]

JobType ==
    [status : Statuses, stage : Stages, attempts : 0..MaxAttempts,
     attempt : {0} \cup AttemptIds, output : Content, owner : Workers \cup {NoWorker},
     lease : {"none", "live", "lapsed"}, cancel : BOOLEAN, expected : Content,
     version : Nat, error : Codes]

(* Every variable keeps its range; attempts never exceeds max_attempts. *)
TypeOK ==
    /\ job \in JobType
    /\ catalog \in Content \ {Absent}
    /\ metadata \in Nat
    /\ writable \in BOOLEAN
    /\ source \in Content
    /\ temporary \in [AttemptIds -> Content]
    /\ rollback \in [AttemptIds -> Content]
    /\ worker \in [Workers -> FrameType]
    /\ nextAttempt \in 1..MaxAttemptIds + 1
    /\ edits \in 0..MaxEdits
    /\ overwritten \subseteq Content
    /\ disturbances \in 0..MaxDisturbances

Held == {source} \cup {temporary[a] : a \in AttemptIds} \cup {rollback[a] : a \in AttemptIds}

(* The recording the catalogue knows is never lost by the program: at every *)
(* point of every attempt, undo and recovery its bytes are under one of the *)
(* three names, unless a user's own tool overwrote them in place.           *)
RecordedContentKept == catalog \in Held \cup overwritten

External(content) == edits > 0 /\ content \in {UserFile(n) : n \in 0..MaxEdits}

(* When no attempt is open the managed path holds exactly the content the   *)
(* catalogue records, or something a user put there: never an output that   *)
(* was not committed and never nothing.                                     *)
SettledSource ==
    job.status # "PROCESSING" => source = catalog \/ External(source)

(* A rollback file is never orphaned: it belongs to the attempt of a row    *)
(* that the next claim will repair, under the attempt id that names it.     *)
RollbackReachable ==
    \A a \in AttemptIds :
        rollback[a] # Absent => NeedsReconciliation(job) /\ job.attempt = a

(* A committed row, the catalogue and the file agree on the checksum until  *)
(* the cleanup is finished, whatever crashes in between.                    *)
CommittedAgreement ==
    job.status = "PROCESSING" /\ job.stage = "COMMITTED" =>
        /\ catalog = job.output
        /\ source = catalog \/ External(source)

(* The catalogue changes under an active row by its commit only: until then *)
(* it is what the row was queued with, from then on what the row wrote.     *)
CatalogFollowsJob ==
    /\ job.status \in Active /\ job.stage # "COMMITTED" => catalog = job.expected
    /\ job.status = "PROCESSING" /\ job.stage = "COMMITTED" => catalog = job.output

(* A committed attempt is never cancelled, failed, requeued or run again:   *)
(* all that is left of it is its completion.                                *)
CommittedIsFinal ==
    [][job.status = "PROCESSING" /\ job.stage = "COMMITTED" =>
          /\ job'.stage = "COMMITTED" /\ job'.status \in {"PROCESSING", "READY"}
          /\ job'.output = job.output]_vars

SwapSteps ==
    {"moveAside", "verifyAside", "install", "syncInstalled", "discard", "putBack", "putBackOrFail",
     "verifyInstalled", "inspectRestore", "restoreMissing", "recoverMissing", "verifyMissing",
     "stageOutput", "restoreOriginal", "verifyRestored", "restoreOutput", "dropRollback",
     "removeRollback"}

(* Two workers are never both renaming files of the source. *)
ExclusiveSwap ==
    \A v, w \in Workers : worker[v].pc \in SwapSteps /\ worker[w].pc \in SwapSteps => v = w

Phase ==
    CASE job.status = "PENDING"                                -> "queued"
      [] job.status = "PROCESSING" /\ job.stage # "COMMITTED" -> "open"
      [] job.status = "PROCESSING" /\ job.stage = "COMMITTED" -> "committed"
      [] OTHER                                                 -> "closed"

Contract == INSTANCE WritebackContract WITH
    Contents <- Content,
    phase    <- Phase,
    recorded <- catalog,
    version  <- metadata,
    asked    <- [recorded |-> job.expected, version |-> job.version]

(* The catalogue sees an atomic writeback: one commit per request, from the *)
(* state it was queued with, however many attempts and workers it takes.    *)
ImplementsContract == Contract!Spec
=============================================================================
