----------------------- MODULE MetadataWritebackProofs -----------------------
(***************************************************************************)
(* Proofs about tag writebacks for every number of workers, attempts,      *)
(* disturbances and edits, and also when workers outlive their leases.     *)
(***************************************************************************)
EXTENDS MCMetadataWriteback, TLAPS

(* Steps of an attempt that come before its commit. *)
EarlySteps ==
    {"checksum", "remux", "recheck", "markPrepared", "renew", "validate", "moveAside",
     "verifyAside", "install", "syncInstalled", "verifyInstalled", "markReplaced"}

(* Of them, those that come after the remux. *)
Remuxed == EarlySteps \ {"checksum", "remux"}

Early(f) == f.pc \in EarlySteps \/ (f.pc = "load" /\ f.mode \notin {"committed", "transient"})

(* An open row names its attempt and, once files may move, its output. *)
OpenRow ==
    job.status = "PROCESSING" =>
        /\ job.attempt # 0
        /\ job.stage \in {"PREPARED", "FILE_REPLACED", "COMMITTED"} => job.output # Absent

(* The owner of a row that is still before its commit finds it so, and a    *)
(* remuxed output exists when it is recorded.                               *)
OwnerIsCurrent ==
    \A w \in Workers :
        /\ worker[w].pc # "idle" => worker[w].attempt # 0
        /\ worker[w].pc \in Remuxed => worker[w].output # Absent
        /\ Early(worker[w]) /\ Owns(w) => job.stage # "COMMITTED"

IInv == TypeOK /\ OpenRow /\ OwnerIsCurrent

Frames == [Workers -> FrameType]

LEMMA ContentFacts ==
    /\ Absent \in Content /\ UserFile(0) \in Content /\ UserFile(0) # Absent
    /\ \A a \in AttemptIds : Output(a) \in Content /\ Output(a) # Absent
    /\ \A n \in 0..MaxEdits : UserFile(n) \in Content /\ UserFile(n) # Absent
  BY WritebackAssumption, SMT DEF Absent, UserFile, Output, Content, AttemptIds

LEMMA IdleTyped == IdleFrame \in FrameType
  BY ContentFacts DEF IdleFrame, FrameType, Steps, Codes

(* g is a later frame of the attempt whose frame was f. *)
Follows(f, g) ==
    /\ f.pc # "idle" /\ g \in FrameType /\ g.attempt = f.attempt
    /\ g.pc \in Remuxed => g.output # Absent
    /\ Early(g) => Early(f)

LEMMA FrameOf ==
    ASSUME worker \in Frames, NEW w \in Workers, NEW f \in FrameType, Becomes(w, f)
    PROVE  worker' \in Frames /\ worker'[w] = f
           /\ \A v \in Workers \ {w} : worker'[v] = worker[v]
  BY DEF Becomes, Frames

LEMMA FailsFollows ==
    ASSUME worker \in Frames, NEW w \in Workers, NEW code \in Codes, Fails(w, code),
           worker[w].pc # "idle"
    PROVE  \E g \in FrameType : Becomes(w, g) /\ Follows(worker[w], g) /\ g.pc \in {"unwind", "settle"}
  <1> DEFINE g == [worker[w] EXCEPT !.pc = IF worker[w].mode = "fresh" THEN "unwind" ELSE "settle",
                                    !.code = code]
  <1>1. g \in FrameType
    BY DEF Frames, FrameType, Steps
  <1>2. Follows(worker[w], g) /\ g.pc \in {"unwind", "settle"}
    BY <1>1 DEF Follows, Early, EarlySteps, Remuxed, Frames, FrameType
  <1>3. Becomes(w, g)
    BY DEF Fails
  <1> QED
    BY <1>1, <1>2, <1>3

LEMMA GotoFollows ==
    ASSUME worker \in Frames, NEW w \in Workers, NEW pc \in Steps, Goto(w, pc),
           pc \in Remuxed => worker[w].output # Absent,
           pc \in EarlySteps => Early(worker[w]), pc # "load", worker[w].pc # "idle"
    PROVE  \E g \in FrameType : Becomes(w, g) /\ Follows(worker[w], g) /\ g.pc = pc
  <1> DEFINE g == [worker[w] EXCEPT !.pc = pc]
  <1>1. g \in FrameType
    BY DEF Frames, FrameType
  <1>2. Follows(worker[w], g) /\ g.pc = pc
    BY <1>1 DEF Follows, Early, EarlySteps, Remuxed, Frames, FrameType
  <1>3. Becomes(w, g)
    BY DEF Goto
  <1> QED
    BY <1>1, <1>2, <1>3

LEMMA WritebackInit == Init => IInv
  <1> SUFFICES ASSUME Init PROVE IInv
    OBVIOUS
  <1> USE WritebackAssumption DEF Init
  <1>1. job \in JobType
    BY ContentFacts DEF NoJob, JobType, Statuses, Stages, Codes
  <1>2. worker \in [Workers -> FrameType]
    BY IdleTyped
  <1>3. /\ temporary \in [AttemptIds -> Content] /\ rollback \in [AttemptIds -> Content]
        /\ catalog \in Content \ {Absent} /\ source \in Content
    BY ContentFacts
  <1>4. TypeOK
    BY <1>1, <1>2, <1>3, SMT DEF TypeOK
  <1>5. OpenRow
    BY DEF OpenRow, NoJob
  <1>6. OwnerIsCurrent
    BY DEF OwnerIsCurrent, Owns, NoJob, IdleFrame, Early, EarlySteps, Remuxed
  <1> QED
    BY <1>4, <1>5, <1>6 DEF IInv

FilesTyped ==
    /\ source \in Content
    /\ temporary \in [AttemptIds -> Content]
    /\ rollback \in [AttemptIds -> Content]

LEMMA CountTyped ==
    ASSUME TypeOK, Calm \/ Disturb
    PROVE  disturbances' \in 0..MaxDisturbances
  BY WritebackAssumption, SMT DEF TypeOK, Calm, Disturb

(* A step that leaves rows and environment alone and continues an attempt. *)
LEMMA QuietStep ==
    ASSUME IInv, NEW w \in Workers, NEW g \in FrameType, Becomes(w, g), Follows(worker[w], g),
           UNCHANGED <<dbVars, envVars>>, FilesTyped', Calm \/ Disturb
    PROVE  IInv'
  <1> USE DEF IInv
  <1>1. worker' \in Frames /\ worker'[w] = g /\ \A v \in Workers \ {w} : worker'[v] = worker[v]
    BY FrameOf DEF TypeOK, Frames
  <1>2. disturbances' \in 0..MaxDisturbances
    BY CountTyped
  <1>3. TypeOK'
    BY <1>1, <1>2 DEF TypeOK, FilesTyped, Frames, dbVars, envVars
  <1>4. OpenRow'
    BY DEF OpenRow, dbVars
  <1>5. OwnerIsCurrent'
    BY <1>1 DEF OwnerIsCurrent, Follows, Owns, dbVars
  <1> QED
    BY <1>3, <1>4, <1>5

LEMMA QuietGoto ==
    ASSUME IInv, NEW w \in Workers, NEW pc \in Steps, Goto(w, pc),
           pc \in Remuxed => worker[w].output # Absent,
           pc \in EarlySteps => Early(worker[w]), pc # "load", worker[w].pc # "idle",
           UNCHANGED <<dbVars, envVars>>, FilesTyped', Calm \/ Disturb
    PROVE  IInv'
  BY GotoFollows, QuietStep DEF IInv, TypeOK, Frames

LEMMA QuietFails ==
    ASSUME IInv, NEW w \in Workers, NEW code \in Codes, Fails(w, code), worker[w].pc # "idle",
           UNCHANGED <<dbVars, envVars>>, FilesTyped', Calm \/ Disturb
    PROVE  IInv'
  BY FailsFollows, QuietStep DEF IInv, TypeOK, Frames

LEMMA CodeFacts ==
    ASSUME TypeOK, NEW w \in Workers
    PROVE  /\ Refusal(w) \in Codes /\ SourceCode(w) \in Codes /\ ContextCode(w) \in Codes
           /\ worker[w].code \in Codes /\ CommitRefusal(w) \in Codes /\ FailureCode(w) \in Codes
           /\ {"none", "rollbackFailed", "cancelled", "terminal", "leaseExpired", "retryable"} \subseteq Codes
  BY DEF Refusal, SourceCode, ContextCode, CommitRefusal, FailureCode, Codes, TypeOK, FrameType

LEMMA QuietChecks ==
    ASSUME IInv, NEW w \in Workers, NEW code \in Codes, NEW pc \in Steps, Checks(w, code, pc),
           pc \in Remuxed => worker[w].output # Absent,
           pc \in EarlySteps => Early(worker[w]), pc # "load", worker[w].pc # "idle"
    PROVE  IInv'
  <1>1. FilesTyped' /\ UNCHANGED <<dbVars, envVars>> /\ Calm
    BY DEF Checks, ReadOnlyStep, FilesTyped, IInv, TypeOK, fileVars
  <1> QED
    BY <1>1, QuietGoto, QuietFails DEF Checks

(* The steps that only read and check, then go on or fail. *)
LEMMA ReadingSteps ==
    ASSUME IInv, NEW w \in Workers,
           \/ ChecksumSource(w) \/ RecheckSource(w) \/ ValidateBeforeReplacement(w)
           \/ VerifyInstalled(w) \/ VerifyMissing(w) \/ InspectCleanup(w)
    PROVE  IInv'
  <1> USE DEF IInv
  <1>0. {"remux", "markPrepared", "moveAside", "markReplaced", "dropTemporary",
         "dropTemporaryCommitted", "removeRollback"} \subseteq Steps
    BY DEF Steps, ContextSteps, FileSteps
  <1>1. CASE ChecksumSource(w)
    <2> DEFINE code == IF Refusal(w) # "none" THEN Refusal(w) ELSE SourceCode(w)
    <2>1. Checks(w, code, "remux") /\ worker[w].pc = "checksum"
      BY <1>1 DEF ChecksumSource, Calls, At
    <2>2. code \in Codes /\ Early(worker[w]) /\ (worker[w].pc \in Remuxed => worker[w].output # Absent)
      BY <2>1, CodeFacts DEF Early, EarlySteps, Remuxed, OwnerIsCurrent
    <2> HIDE DEF code
    <2> QED
      BY <1>0, <2>1, <2>2, QuietChecks DEF EarlySteps, Remuxed
  <1>2. CASE RecheckSource(w)
    <2> DEFINE code == IF Refusal(w) # "none" THEN Refusal(w) ELSE SourceCode(w)
    <2>1. Checks(w, code, "markPrepared") /\ worker[w].pc = "recheck"
      BY <1>2 DEF RecheckSource, Calls, At
    <2>2. code \in Codes /\ Early(worker[w]) /\ (worker[w].pc \in Remuxed => worker[w].output # Absent)
      BY <2>1, CodeFacts DEF Early, EarlySteps, Remuxed, OwnerIsCurrent
    <2> HIDE DEF code
    <2> QED
      BY <1>0, <2>1, <2>2, QuietChecks DEF EarlySteps, Remuxed
  <1>3. CASE ValidateBeforeReplacement(w)
    <2> DEFINE code == IF Refusal(w) # "none" THEN Refusal(w)
                       ELSE IF ContextCode(w) # "none" THEN ContextCode(w) ELSE SourceCode(w)
    <2>1. Checks(w, code, "moveAside") /\ worker[w].pc = "validate"
      BY <1>3 DEF ValidateBeforeReplacement, Calls, At
    <2>2. code \in Codes /\ Early(worker[w]) /\ (worker[w].pc \in Remuxed => worker[w].output # Absent)
      BY <2>1, CodeFacts DEF Early, EarlySteps, Remuxed, OwnerIsCurrent
    <2> HIDE DEF code
    <2> QED
      BY <1>0, <2>1, <2>2, QuietChecks DEF EarlySteps, Remuxed
  <1>4. CASE VerifyInstalled(w)
    <2> DEFINE code == IF source = Absent THEN "retryable"
                       ELSE IF source # worker[w].output THEN "terminal"
                       ELSE "none"
    <2>1. Checks(w, code, "markReplaced") /\ worker[w].pc = "verifyInstalled"
      BY <1>4 DEF VerifyInstalled, At
    <2>2. code \in Codes /\ Early(worker[w]) /\ (worker[w].pc \in Remuxed => worker[w].output # Absent)
      BY <2>1, CodeFacts DEF Early, EarlySteps, Remuxed, OwnerIsCurrent
    <2> HIDE DEF code
    <2> QED
      BY <1>0, <2>1, <2>2, QuietChecks DEF EarlySteps, Remuxed
  <1>5. CASE VerifyMissing(w)
    <2> DEFINE code == IF source = worker[w].original THEN "none" ELSE "rollbackFailed"
    <2>1. Checks(w, code, "dropTemporary") /\ worker[w].pc = "verifyMissing"
      BY <1>5 DEF VerifyMissing, At
    <2>2. code \in Codes /\ "dropTemporary" \notin EarlySteps
      BY CodeFacts DEF EarlySteps, Remuxed
    <2> HIDE DEF code
    <2> QED
      BY <1>0, <2>1, <2>2, QuietChecks DEF EarlySteps, Remuxed
  <1>6. CASE InspectCleanup(w)
    <2> DEFINE code == IF source = worker[w].output /\ Rollback(w) \in {Absent, worker[w].original}
                       THEN "none" ELSE "rollbackFailed"
               next == IF Rollback(w) = Absent THEN "dropTemporaryCommitted" ELSE "removeRollback"
    <2>1. Checks(w, code, next) /\ worker[w].pc = "inspectCleanup"
      BY <1>6 DEF InspectCleanup, At
    <2>2. code \in Codes /\ next \in Steps /\ next \notin EarlySteps
          /\ next # "load"
      BY <1>0, CodeFacts DEF EarlySteps, Remuxed
    <2> HIDE DEF code, next
    <2> QED
      BY <2>1, <2>2, QuietChecks DEF Remuxed
  <1> QED
    BY <1>1, <1>2, <1>3, <1>4, <1>5, <1>6
LEMMA FileFacts ==
    ASSUME IInv, NEW w \in Workers, worker[w].pc # "idle"
    PROVE  /\ Absent \in Content /\ source \in Content
           /\ Temporary(w) \in Content /\ Rollback(w) \in Content
           /\ \A c \in Content : SetTemporary(w, c) => temporary' \in [AttemptIds -> Content]
           /\ \A c \in Content : SetRollback(w, c) => rollback' \in [AttemptIds -> Content]
           /\ temporary \in [AttemptIds -> Content] /\ rollback \in [AttemptIds -> Content]
  <1>1. worker[w].attempt \in AttemptIds
    BY DEF IInv, TypeOK, FrameType, OwnerIsCurrent
  <1> QED
    BY <1>1, ContentFacts DEF IInv, TypeOK, Temporary, Rollback, SetTemporary, SetRollback

(* Moves and removals: rows and environment are left alone. *)
LEMMA MovingSteps ==
    ASSUME IInv, NEW w \in Workers,
           \/ MoveSourceAside(w) \/ InstallOutput(w) \/ PutBack(w) \/ DiscardInstalled(w)
           \/ RemoveReplacementRollback(w) \/ RestoreMissing(w) \/ StageOutput(w)
           \/ RestoreOriginal(w) \/ VerifyRestored(w) \/ RestoreOutput(w)
           \/ DropTemporary(w) \/ DropRollback(w)
    PROVE  /\ worker[w].pc # "idle" /\ FilesTyped' /\ UNCHANGED <<dbVars, envVars>>
           /\ Calm \/ Disturb
  <1>1. worker[w].pc # "idle"
    BY DEF MoveSourceAside, InstallOutput, PutBack, DiscardInstalled, RemoveReplacementRollback,
           RestoreMissing, StageOutput, RestoreOriginal, VerifyRestored, RestoreOutput,
           DropTemporary, DropRollback, At
  <1> USE <1>1, FileFacts DEF FilesTyped, DatabaseUntouched
  <1>2. CASE MoveSourceAside(w)
    BY <1>2 DEF MoveSourceAside
  <1>3. CASE InstallOutput(w)
    BY <1>3 DEF InstallOutput
  <1>4. CASE PutBack(w)
    BY <1>4 DEF PutBack
  <1>5. CASE DiscardInstalled(w) \/ RemoveReplacementRollback(w)
    BY <1>5 DEF DiscardInstalled, RemoveReplacementRollback
  <1>6. CASE RestoreMissing(w) \/ StageOutput(w)
    BY <1>6 DEF RestoreMissing, StageOutput
  <1>7. CASE RestoreOriginal(w)
    BY <1>7 DEF RestoreOriginal
  <1>8. CASE VerifyRestored(w)
    BY <1>8 DEF VerifyRestored
  <1>9. CASE RestoreOutput(w)
    BY <1>9 DEF RestoreOutput
  <1>10. CASE DropTemporary(w) \/ DropRollback(w)
    BY <1>10 DEF DropTemporary, DropRollback
  <1> QED
    BY <1>2, <1>3, <1>4, <1>5, <1>6, <1>7, <1>8, <1>9, <1>10
LEMMA QuietBecomes ==
    ASSUME IInv, NEW w \in Workers, NEW g \in FrameType, Becomes(w, g), worker[w].pc # "idle",
           g.attempt = worker[w].attempt, g.pc # "load",
           g.pc \in Remuxed => g.output # Absent,
           g.pc \in EarlySteps => Early(worker[w]),
           UNCHANGED <<dbVars, envVars>>, FilesTyped', Calm \/ Disturb
    PROVE  IInv'
  <1>1. Follows(worker[w], g)
    BY DEF Follows, Early
  <1> QED
    BY <1>1, QuietStep

LEMMA MovingStepsKeep ==
    ASSUME IInv, NEW w \in Workers,
           \/ MoveSourceAside(w) \/ InstallOutput(w) \/ PutBack(w) \/ DiscardInstalled(w)
           \/ RemoveReplacementRollback(w) \/ RestoreMissing(w) \/ StageOutput(w)
           \/ RestoreOriginal(w) \/ VerifyRestored(w) \/ RestoreOutput(w)
           \/ DropTemporary(w) \/ DropRollback(w)
    PROVE  IInv'
  <1>1. /\ worker[w].pc # "idle" /\ FilesTyped' /\ UNCHANGED <<dbVars, envVars>>
        /\ Calm \/ Disturb
    BY MovingSteps
  <1>2. {"retryable", "rollbackFailed"} \subseteq Codes
    BY DEF Codes
  <1>3. {"verifyAside", "syncInstalled", "putBack", "putBackOrFail", "unwind", "completeCommitted",
         "dropTemporaryCommitted", "completeTransient", "dropTemporary", "verifyMissing",
         "restoreOriginal", "restoreOutput", "verifyRestored"} \subseteq Steps
    BY DEF Steps, ContextSteps, FileSteps
  <1>4. worker[w] \in FrameType /\ (worker[w].pc \in Remuxed => worker[w].output # Absent)
    BY DEF IInv, TypeOK, OwnerIsCurrent
  <1>5. ASSUME NEW pc \in Steps, Goto(w, pc), pc # "load", pc \in Remuxed => worker[w].output # Absent,
               pc \in EarlySteps => Early(worker[w])
        PROVE  IInv'
    BY <1>1, <1>5, QuietGoto
  <1>6. ASSUME NEW code \in Codes, Fails(w, code) PROVE IInv'
    BY <1>1, <1>6, QuietFails
  <1>7. CASE MoveSourceAside(w)
    BY <1>2, <1>3, <1>4, <1>5, <1>6, <1>7 DEF MoveSourceAside, Early, EarlySteps, Remuxed, At
  <1>8. CASE InstallOutput(w)
    <2>1. CASE Goto(w, "syncInstalled")
      BY <1>3, <1>4, <1>5, <1>8, <2>1 DEF InstallOutput, Early, EarlySteps, Remuxed, At
    <2>2. CASE PutsBack(w)
      <3> DEFINE g == [worker[w] EXCEPT !.pc = "putBack", !.code = "retryable"]
      <3>1. /\ g \in FrameType /\ g.attempt = worker[w].attempt
            /\ g.pc \notin EarlySteps \cup {"load"}
        BY <1>2, <1>3, <1>4 DEF FrameType, EarlySteps, Remuxed
      <3> QED
        BY <1>1, <2>2, <3>1, QuietBecomes DEF PutsBack, Remuxed
    <2> QED
      BY <1>8, <2>1, <2>2 DEF InstallOutput
  <1>9. CASE PutBack(w)
    <2> DEFINE f == [worker[w] EXCEPT !.pc = "unwind", !.armed = FALSE]
               g == [worker[w] EXCEPT !.pc = "unwind", !.armed = (Rollback(w) # Absent),
                        !.code = IF At(w, "putBackOrFail") THEN "rollbackFailed" ELSE @]
    <2>1. Becomes(w, f) \/ Becomes(w, g)
      BY <1>9 DEF PutBack
    <2>2. /\ f \in FrameType /\ f.attempt = worker[w].attempt
          /\ f.pc \notin EarlySteps \cup {"load"}
      BY <1>3, <1>4 DEF FrameType, EarlySteps, Remuxed
    <2>3. /\ g \in FrameType /\ g.attempt = worker[w].attempt
          /\ g.pc \notin EarlySteps \cup {"load"}
      BY <1>2, <1>3, <1>4 DEF FrameType, EarlySteps, Remuxed
    <2> QED
      BY <1>1, <2>1, <2>2, <2>3, QuietBecomes DEF Remuxed
  <1>10. CASE DiscardInstalled(w) \/ RemoveReplacementRollback(w) \/ DropTemporary(w) \/ DropRollback(w)
    BY <1>3, <1>5, <1>10
       DEF DiscardInstalled, RemoveReplacementRollback, DropTemporary, DropRollback, EarlySteps, Remuxed
  <1>11. CASE RestoreMissing(w) \/ StageOutput(w) \/ RestoreOriginal(w) \/ VerifyRestored(w) \/ RestoreOutput(w)
    BY <1>2, <1>3, <1>5, <1>6, <1>11
       DEF RestoreMissing, StageOutput, RestoreOriginal, VerifyRestored, RestoreOutput, EarlySteps, Remuxed
  <1> QED
    BY <1>7, <1>8, <1>9, <1>10, <1>11
LEMMA QuietEnds ==
    ASSUME IInv, NEW w \in Workers, Ends(w), UNCHANGED <<dbVars, envVars>>, FilesTyped', Calm \/ Disturb
    PROVE  IInv'
  <1>1. worker' \in Frames /\ worker'[w] = IdleFrame /\ \A v \in Workers \ {w} : worker'[v] = worker[v]
    BY IdleTyped, FrameOf DEF IInv, TypeOK, Frames, Ends
  <1>2. TypeOK'
    BY <1>1, CountTyped DEF IInv, TypeOK, FilesTyped, Frames, dbVars, envVars
  <1>3. OpenRow'
    BY DEF IInv, OpenRow, dbVars
  <1>4. OwnerIsCurrent'
    BY <1>1 DEF IInv, OwnerIsCurrent, Owns, dbVars, IdleFrame, Early, EarlySteps, Remuxed
  <1> QED
    BY <1>2, <1>3, <1>4 DEF IInv

LEMMA FramingStepsKeep ==
    ASSUME IInv, NEW w \in Workers,
           \/ VerifyAside(w) \/ SyncInstalled(w) \/ UnwindAttempt(w) \/ FindWriteback(w)
           \/ InspectRestore(w) \/ InspectRecovery(w) \/ CallFails(w) \/ FindWritebackFails(w)
           \/ StoppedCall(w)
    PROVE  IInv'
  <1>1. /\ worker[w].pc # "idle" /\ FilesTyped' /\ UNCHANGED <<dbVars, envVars>>
        /\ Calm \/ Disturb
    <2>1. worker[w].pc # "idle"
      BY DEF VerifyAside, SyncInstalled, UnwindAttempt, FindWriteback, InspectRestore, InspectRecovery,
             CallFails, FindWritebackFails, StoppedCall, At, Calls, FileSteps, ContextSteps
    <2>2. UNCHANGED <<dbVars, envVars>> /\ (Calm \/ Disturb)
      BY DEF VerifyAside, SyncInstalled, UnwindAttempt, FindWriteback, InspectRestore, InspectRecovery,
             CallFails, FindWritebackFails, StoppedCall, ReadOnlyStep, DatabaseUntouched
    <2>3. ASSUME UnwindAttempt(w) PROVE FilesTyped'
      BY <2>1, <2>3, FileFacts DEF UnwindAttempt, FilesTyped
    <2>4. ASSUME ~UnwindAttempt(w) PROVE FilesTyped'
      <3>1. UNCHANGED fileVars
        BY <2>4 DEF VerifyAside, SyncInstalled, FindWriteback, InspectRestore, InspectRecovery,
             CallFails, FindWritebackFails, StoppedCall, ReadOnlyStep
      <3> QED
        BY <3>1 DEF fileVars, FilesTyped, IInv, TypeOK
    <2> QED
      BY <2>1, <2>2, <2>3, <2>4
  <1>2. {"retryable", "rollbackFailed", "cancelled", "terminal"} \subseteq Codes /\ worker[w].code \in Codes
    BY DEF Codes, IInv, TypeOK, FrameType
  <1>3. {"install", "unwind", "putBackOrFail", "putBack", "verifyInstalled", "discard", "findState",
         "settle", "renewCleanup", "renewRestore", "restoreMissing", "stageOutput", "dropTemporary",
         "recoverMissing", "dropRollback", "inspectRestore"} \subseteq Steps
    BY DEF Steps, ContextSteps, FileSteps
  <1>4. worker[w] \in FrameType /\ (worker[w].pc \in Remuxed => worker[w].output # Absent)
    BY DEF IInv, TypeOK, OwnerIsCurrent
  <1>5. ASSUME NEW pc \in Steps, Goto(w, pc), pc # "load", pc \in Remuxed => worker[w].output # Absent,
               pc \in EarlySteps => Early(worker[w])
        PROVE  IInv'
    BY <1>1, <1>5, QuietGoto
  <1>6. ASSUME NEW code \in Codes, Fails(w, code) PROVE IInv'
    BY <1>1, <1>6, QuietFails
  <1>7. ASSUME NEW g \in FrameType, Becomes(w, g), g.attempt = worker[w].attempt,
               g.pc # "load", g.pc \in Remuxed => g.output # Absent, g.pc \in EarlySteps => Early(worker[w])
        PROVE  IInv'
    BY <1>1, <1>7, QuietBecomes
  <1>8. CASE VerifyAside(w)
    <2>1. CASE Goto(w, "install")
      BY <1>3, <1>4, <1>5, <1>8, <2>1 DEF VerifyAside, At, Early, EarlySteps, Remuxed
    <2>2. CASE PutsBack(w)
      <3> DEFINE g == [worker[w] EXCEPT !.pc = "putBack", !.code = "retryable"]
      <3>1. /\ g \in FrameType /\ g.attempt = worker[w].attempt
            /\ g.pc \notin EarlySteps \cup {"load"}
        BY <1>2, <1>3, <1>4 DEF FrameType, EarlySteps, Remuxed
      <3> QED
        BY <2>2, <3>1, <1>7 DEF PutsBack, Remuxed
    <2>3. CASE ~Goto(w, "install") /\ ~PutsBack(w)
      <3> DEFINE g == [worker[w] EXCEPT
                      !.pc = IF Rollback(w) = worker[w].original THEN "unwind" ELSE "putBackOrFail",
                      !.code = "terminal", !.armed = (Rollback(w) = worker[w].original)]
      <3>1. /\ g \in FrameType /\ g.attempt = worker[w].attempt
            /\ g.pc \notin EarlySteps \cup {"load"}
        BY <1>2, <1>3, <1>4 DEF FrameType, EarlySteps, Remuxed
      <3>2. Becomes(w, g)
        BY <1>8, <2>3 DEF VerifyAside
      <3> QED
        BY <3>1, <3>2, <1>7 DEF Remuxed
    <2> QED
      BY <2>1, <2>2, <2>3
  <1>9. CASE SyncInstalled(w)
    <2> DEFINE f == [worker[w] EXCEPT !.pc = "verifyInstalled", !.armed = TRUE]
               g == [worker[w] EXCEPT !.pc = "discard", !.code = "retryable"]
    <2>1. Becomes(w, f) \/ Becomes(w, g)
      BY <1>9 DEF SyncInstalled
    <2>2. /\ f \in FrameType /\ f.attempt = worker[w].attempt
          /\ f.pc # "load" /\ Early(worker[w]) /\ f.output # Absent
      BY <1>3, <1>4, <1>9 DEF FrameType, EarlySteps, Remuxed, Early, SyncInstalled, At
    <2>3. /\ g \in FrameType /\ g.attempt = worker[w].attempt
          /\ g.pc \notin EarlySteps \cup {"load"}
      BY <1>2, <1>3, <1>4 DEF FrameType, EarlySteps, Remuxed
    <2> QED
      BY <2>1, <2>2, <2>3, <1>7 DEF Remuxed
  <1>10. CASE UnwindAttempt(w)
    <2> DEFINE g == [worker[w] EXCEPT !.pc = IF worker[w].armed THEN "findState" ELSE "settle",
                                      !.mode = "deferred"]
    <2>1. Becomes(w, g)
      BY <1>10 DEF UnwindAttempt, Unwinds
    <2>2. /\ g \in FrameType /\ g.attempt = worker[w].attempt
          /\ g.pc \notin EarlySteps \cup {"load"}
      BY <1>3, <1>4 DEF FrameType, EarlySteps, Remuxed
    <2> QED
      BY <2>1, <2>2, <1>7 DEF Remuxed
  <1>11. CASE FindWriteback(w) \/ FindWritebackFails(w)
    BY <1>3, <1>5, <1>11 DEF FindWriteback, FindWritebackFails, EarlySteps, Remuxed
  <1>12. CASE InspectRestore(w)
    BY <1>2, <1>3, <1>5, <1>6, <1>12 DEF InspectRestore, EarlySteps, Remuxed
  <1>13. CASE InspectRecovery(w)
    BY <1>2, <1>3, <1>5, <1>6, <1>13 DEF InspectRecovery, RecoveryStep, EarlySteps, Remuxed
  <1>14. CASE CallFails(w) \/ StoppedCall(w)
    BY <1>2, <1>6, <1>14 DEF CallFails, StoppedCall
  <1> QED
    BY <1>8, <1>9, <1>10, <1>11, <1>12, <1>13, <1>14
LEMMA EndingStepsKeep ==
    ASSUME IInv, NEW w \in Workers, SettleFails(w) \/ Crash(w)
    PROVE  IInv'
  <1>1. Ends(w) /\ Disturb /\ UNCHANGED <<dbVars, envVars>> /\ UNCHANGED fileVars
    BY DEF SettleFails, Crash
  <1>2. FilesTyped'
    BY <1>1 DEF fileVars, FilesTyped, IInv, TypeOK
  <1> QED
    BY <1>1, <1>2, QuietEnds

LEMMA StoppingStepsKeep ==
    ASSUME IInv, NEW w \in Workers,
           WorkerStops(w) \/ CancellationPoll(w) \/ HeartbeatLosesLease(w)
    PROVE  IInv'
  <1> DEFINE g == [worker[w] EXCEPT !.stopped = TRUE]
  <1>1. /\ Becomes(w, g) /\ UNCHANGED <<dbVars, envVars>> /\ UNCHANGED fileVars
        /\ (Calm \/ Disturb) /\ Running(w)
    BY DEF WorkerStops, CancellationPoll, HeartbeatLosesLease, StopContext
  <1>2. FilesTyped'
    BY <1>1 DEF fileVars, FilesTyped, IInv, TypeOK
  <1>3. g \in FrameType
    BY DEF IInv, TypeOK, FrameType
  <1>4. Follows(worker[w], g)
    BY <1>1, <1>3 DEF Follows, Running, IInv, TypeOK, FrameType, OwnerIsCurrent, Early, EarlySteps, Remuxed
  <1> QED
    BY <1>1, <1>2, <1>3, <1>4, QuietStep

LEMMA LoadKeeps ==
    ASSUME IInv, NEW w \in Workers, LoadWritebackContext(w)
    PROVE  IInv'
  <1>1. /\ worker[w].pc = "load" /\ UNCHANGED <<dbVars, envVars>> /\ UNCHANGED fileVars /\ Calm
    BY DEF LoadWritebackContext, Calls, At, ReadOnlyStep
  <1>2. FilesTyped'
    BY <1>1 DEF fileVars, FilesTyped, IInv, TypeOK
  <1>3. {"terminal", "cancelled"} \subseteq Codes
        /\ {"renewCleanup", "renewRecovery", "checksum"} \subseteq Steps
    BY DEF Codes, Steps, ContextSteps, FileSteps
  <1>4. CASE \E code \in {"terminal", "cancelled"} : Fails(w, code)
    BY <1>1, <1>2, <1>3, <1>4, QuietFails
  <1>5. ASSUME NEW pc \in {"renewCleanup", "renewRecovery", "checksum"},
               Becomes(w, [worker[w] EXCEPT !.pc = pc, !.original = job.expected, !.output = job.output]),
               pc = "checksum" => Early(worker[w])
        PROVE  IInv'
    <2> DEFINE g == [worker[w] EXCEPT !.pc = pc, !.original = job.expected, !.output = job.output]
    <2>1. g \in FrameType
      <3>1. pc \in Steps
        BY <1>3
      <3>2. worker[w] \in FrameType /\ job.expected \in Content /\ job.output \in Content
        BY DEF IInv, TypeOK, JobType
      <3> QED
        BY ONLY <3>1, <3>2 DEF FrameType
    <2>2. g.attempt = worker[w].attempt /\ g.pc = pc
      BY DEF IInv, TypeOK, FrameType
    <2> HIDE DEF g
    <2>3. /\ g.pc # "load" /\ g.pc \notin Remuxed
          /\ g.pc \in EarlySteps => Early(worker[w])
      BY <1>5, <2>2 DEF EarlySteps, Remuxed
    <2>4. Becomes(w, g)
      BY <1>5 DEF g
    <2> QED
      BY <1>1, <1>2, <2>1, <2>2, <2>3, <2>4, QuietBecomes
  <1> QED
    BY <1>1, <1>4, <1>5 DEF LoadWritebackContext, Early

LEMMA RemuxKeeps ==
    ASSUME IInv, NEW w \in Workers, RemuxMetadata(w)
    PROVE  IInv'
  <1>1. /\ worker[w].pc = "remux" /\ UNCHANGED <<dbVars, envVars>> /\ UNCHANGED <<source, rollback>>
        /\ Calm \/ Disturb
    BY DEF RemuxMetadata, Calls, At
  <1>2. worker[w].attempt \in AttemptIds
    BY <1>1 DEF IInv, TypeOK, FrameType, OwnerIsCurrent
  <1>3. FilesTyped'
    BY <1>2, ContentFacts DEF RemuxMetadata, FilesTyped, IInv, TypeOK
  <1>4. CASE \E code \in {"terminal", "retryable"} : Fails(w, code)
    <2>1. {"terminal", "retryable"} \subseteq Codes
      BY DEF Codes
    <2> QED
      BY <1>1, <1>3, <1>4, <2>1, QuietFails
  <1>5. CASE Becomes(w, [worker[w] EXCEPT !.pc = "recheck", !.output = Output(worker[w].attempt)])
    <2> DEFINE g == [worker[w] EXCEPT !.pc = "recheck", !.output = Output(worker[w].attempt)]
    <2>1. /\ g \in FrameType /\ g.attempt = worker[w].attempt /\ g.pc = "recheck" /\ g.output # Absent
      BY <1>2, ContentFacts DEF IInv, TypeOK, FrameType, Steps
    <2>2. Early(worker[w])
      BY <1>1 DEF Early, EarlySteps, Remuxed
    <2> QED
      BY <1>1, <1>3, <1>5, <2>1, <2>2, QuietBecomes
  <1> QED
    BY <1>4, <1>5 DEF RemuxMetadata
(* How a step on the row keeps the invariant: it leaves the files alone, and *)
(* a committed row belongs to nobody who is still before the commit.        *)
Settles(w, g) ==
    job'.stage = "COMMITTED" /\ job'.status = "PROCESSING" =>
        \/ /\ job.stage = "COMMITTED" /\ job.status = "PROCESSING"
           /\ job'.owner = job.owner /\ job'.attempt = job.attempt
        \/ job'.owner = w /\ ~Early(g)
        \/ job'.owner = NoWorker

LEMMA RowStep ==
    ASSUME IInv, NEW w \in Workers, NEW g \in FrameType, Becomes(w, g),
           Follows(worker[w], g) \/ g = IdleFrame, Settles(w, g),
           job' \in JobType, OpenRow', catalog' \in Content \ {Absent}, metadata' \in Nat,
           UNCHANGED <<fileVars, envVars>>, Calm \/ Disturb
    PROVE  IInv'
  <1>1. worker' \in Frames /\ worker'[w] = g /\ \A v \in Workers \ {w} : worker'[v] = worker[v]
    BY FrameOf DEF IInv, TypeOK, Frames
  <1>2. TypeOK'
    BY <1>1, CountTyped DEF IInv, TypeOK, Frames, fileVars, envVars
  <1>3. ASSUME NEW v \in Workers
        PROVE  /\ (worker[v].pc # "idle" => worker[v].attempt # 0)'
               /\ (worker[v].pc \in Remuxed => worker[v].output # Absent)'
               /\ (Early(worker[v]) /\ Owns(v) => job.stage # "COMMITTED")'
    <2>1. CASE v # w
      BY <1>1, <2>1, WritebackAssumption DEF IInv, OwnerIsCurrent, Owns, Settles
    <2>2. CASE v = w /\ Follows(worker[w], g)
      BY <1>1, <2>2, WritebackAssumption DEF IInv, OwnerIsCurrent, Owns, Settles, Follows
    <2>3. CASE v = w /\ g = IdleFrame
      BY <1>1, <2>3, WritebackAssumption DEF IdleFrame, Early, EarlySteps, Remuxed
    <2> QED
      BY <2>1, <2>2, <2>3
  <1>4. OwnerIsCurrent'
    BY <1>3 DEF OwnerIsCurrent
  <1> QED
    BY <1>2, <1>4 DEF IInv

(* Whatever Answers or Fails make of the frame, the attempt goes on. *)
LEMMA AnswersFollows ==
    ASSUME IInv, NEW w \in Workers, NEW pc \in Steps, Answers(w, pc), worker[w].pc # "idle",
           pc # "load", pc \in Remuxed => worker[w].output # Absent, pc \in EarlySteps => Early(worker[w])
    PROVE  \E g \in FrameType : /\ Becomes(w, g) /\ Follows(worker[w], g)
                                /\ g.pc \in {pc, "unwind", "settle"}
  <1>1. "retryable" \in Codes /\ worker \in Frames
    BY DEF Codes, IInv, TypeOK, Frames
  <1>2. CASE Goto(w, pc)
    BY <1>1, <1>2, GotoFollows
  <1>3. CASE Fails(w, "retryable")
    BY <1>1, <1>3, FailsFollows
  <1> QED
    BY <1>2, <1>3 DEF Answers

LEMMA MarkPreparedKeeps ==
    ASSUME IInv, NEW w \in Workers, MarkWritebackPrepared(w)
    PROVE  IInv'
  <1>1. /\ worker[w].pc = "markPrepared" /\ UNCHANGED <<catalog, metadata, fileVars, envVars>>
        /\ Early(worker[w]) /\ worker[w].output # Absent
    BY DEF MarkWritebackPrepared, Calls, At, Early, EarlySteps, Remuxed, IInv, OwnerIsCurrent
  <1>2. CASE ~Owns(w)
    <2>1. Fails(w, "terminal") /\ Calm /\ UNCHANGED job
      BY <1>2 DEF MarkWritebackPrepared
    <2>2. FilesTyped' /\ "terminal" \in Codes
      BY <1>1 DEF fileVars, FilesTyped, IInv, TypeOK, Codes
    <2> QED
      BY <1>1, <2>1, <2>2, QuietFails DEF dbVars
  <1>3. CASE Owns(w)
    <2>1. job' = [job EXCEPT !.stage = "PREPARED", !.output = worker[w].output] /\ Answers(w, "renew")
      BY <1>3 DEF MarkWritebackPrepared
    <2>2. job' \in JobType /\ OpenRow' /\ job'.stage # "COMMITTED"
      BY <1>1, <1>3, <2>1 DEF IInv, TypeOK, JobType, FrameType, OpenRow, OwnerIsCurrent, Owns, Stages, EarlySteps, Remuxed
    <2>3. "renew" \in Steps
      BY DEF Steps, ContextSteps
    <2>4. PICK g \in FrameType : Becomes(w, g) /\ Follows(worker[w], g)
      BY <1>1, <2>1, <2>3, AnswersFollows
    <2>5. Calm \/ Disturb
      BY <2>1 DEF Answers
    <2> QED
      BY <1>1, <2>2, <2>4, <2>5, RowStep DEF Settles, IInv, TypeOK
  <1> QED
    BY <1>2, <1>3

LEMMA MarkReplacedKeeps ==
    ASSUME IInv, NEW w \in Workers, MarkWritebackFileReplaced(w)
    PROVE  IInv'
  <1>1. /\ worker[w].pc = "markReplaced" /\ UNCHANGED <<catalog, metadata, fileVars, envVars>>
        /\ Early(worker[w]) /\ worker[w].output # Absent
    BY DEF MarkWritebackFileReplaced, Calls, At, Early, EarlySteps, Remuxed, IInv, OwnerIsCurrent
  <1>2. CASE ~(Owns(w) /\ job.output = worker[w].output)
    <2>1. Fails(w, "terminal") /\ Calm /\ UNCHANGED job
      BY <1>2 DEF MarkWritebackFileReplaced
    <2>2. FilesTyped' /\ "terminal" \in Codes
      BY <1>1 DEF fileVars, FilesTyped, IInv, TypeOK, Codes
    <2> QED
      BY <1>1, <2>1, <2>2, QuietFails DEF dbVars
  <1>3. CASE Owns(w) /\ job.output = worker[w].output
    <2>1. job' = [job EXCEPT !.stage = "FILE_REPLACED"] /\ Answers(w, "commit")
      BY <1>3 DEF MarkWritebackFileReplaced
    <2>2. job' \in JobType /\ OpenRow' /\ job'.stage # "COMMITTED"
      BY <1>1, <1>3, <2>1 DEF IInv, TypeOK, JobType, OpenRow, Stages
    <2>3. "commit" \in Steps /\ "commit" \notin EarlySteps /\ "commit" \notin Remuxed
      BY DEF Steps, ContextSteps, EarlySteps, Remuxed
    <2>4. PICK g \in FrameType : Becomes(w, g) /\ Follows(worker[w], g)
      BY <1>1, <2>1, <2>3, AnswersFollows
    <2>5. Calm \/ Disturb
      BY <2>1 DEF Answers
    <2> QED
      BY <1>1, <2>2, <2>4, <2>5, RowStep DEF Settles, IInv, TypeOK
  <1> QED
    BY <1>2, <1>3
LEMMA RenewKeeps ==
    ASSUME IInv, NEW w \in Workers, RenewWritebackLease(w)
    PROVE  IInv'
  <1>1. PICK pc \in DOMAIN AfterRenewal :
            /\ Calls(w, pc)
            /\ IF Owns(w)
               THEN job' = [job EXCEPT !.lease = "live"] /\ Answers(w, AfterRenewal[pc])
               ELSE Fails(w, IF pc = "renewRestore" THEN worker[w].code ELSE "terminal")
                    /\ Calm /\ UNCHANGED job
    BY DEF RenewWritebackLease
  <1>2. /\ worker[w].pc = pc /\ pc \in {"renew", "renewRecovery", "renewRestore", "renewCleanup"}
        /\ UNCHANGED <<catalog, metadata, fileVars, envVars>>
    BY <1>1 DEF RenewWritebackLease, AfterRenewal, Calls, At
  <1>3. /\ pc = "renew" => AfterRenewal[pc] = "validate"
        /\ pc # "renew" => AfterRenewal[pc] \in {"inspectRecovery", "inspectRestore", "inspectCleanup"}
    BY <1>2 DEF AfterRenewal
  <1>4. CASE ~Owns(w)
    <2>1. \E code \in Codes : Fails(w, code)
      BY <1>1, <1>4, CodeFacts DEF IInv
    <2>2. FilesTyped' /\ Calm /\ UNCHANGED dbVars
      BY <1>1, <1>2, <1>4 DEF fileVars, FilesTyped, IInv, TypeOK, dbVars
    <2> QED
      BY <1>2, <2>1, <2>2, QuietFails
  <1>5. CASE Owns(w)
    <2>1. job' = [job EXCEPT !.lease = "live"] /\ Answers(w, AfterRenewal[pc])
      BY <1>1, <1>5
    <2>2. job' \in JobType /\ OpenRow' /\ (Calm \/ Disturb)
      BY <2>1 DEF IInv, TypeOK, JobType, OpenRow, Answers
    <2>3. /\ AfterRenewal[pc] \in Steps /\ AfterRenewal[pc] # "load"
          /\ AfterRenewal[pc] \in EarlySteps => pc = "renew"
      BY <1>2, <1>3 DEF Steps, ContextSteps, FileSteps, EarlySteps
    <2>4. pc = "renew" => Early(worker[w]) /\ worker[w].output # Absent
      BY <1>2 DEF Early, EarlySteps, Remuxed, IInv, OwnerIsCurrent
    <2>5. PICK g \in FrameType : Becomes(w, g) /\ Follows(worker[w], g)
      BY <1>2, <2>1, <2>3, <2>4, AnswersFollows DEF Remuxed
    <2>6. Settles(w, g)
      BY <2>1 DEF Settles, IInv, TypeOK, JobType
    <2> QED
      BY <1>2, <2>1, <2>2, <2>5, <2>6, RowStep DEF Answers, IInv, TypeOK, JobType, OpenRow
  <1> QED
    BY <1>4, <1>5

LEMMA CommitKeeps ==
    ASSUME IInv, NEW w \in Workers, CommitWriteback(w)
    PROVE  IInv'
  <1>1. worker[w].pc = "commit" /\ UNCHANGED <<fileVars, envVars>>
    BY DEF CommitWriteback, Calls, At
  <1>2. CASE CommitRefusal(w) # "none"
    <2>1. Fails(w, CommitRefusal(w)) /\ Calm /\ UNCHANGED dbVars /\ CommitRefusal(w) \in Codes
      BY <1>2, CodeFacts DEF CommitWriteback, IInv
    <2>2. FilesTyped'
      BY <1>1 DEF fileVars, FilesTyped, IInv, TypeOK
    <2> QED
      BY <1>1, <2>1, <2>2, QuietFails
  <1>3. CASE CommitRefusal(w) = "none"
    <2>1. /\ job' = [job EXCEPT !.stage = "COMMITTED", !.lease = "live", !.error = "none"]
          /\ catalog' = worker[w].output /\ metadata' = metadata + 1
          /\ Answers(w, "removeRollback")
      BY <1>3 DEF CommitWriteback
    <2>2. Owns(w) /\ job.stage = "FILE_REPLACED" /\ job.output = worker[w].output
      BY <1>3 DEF CommitRefusal
    <2>3. worker[w].output \in Content \ {Absent}
      BY <2>2 DEF IInv, TypeOK, FrameType, OpenRow, Owns
    <2>4. job' \in JobType /\ OpenRow' /\ job'.owner = w
      BY <2>1, <2>2, <2>3 DEF IInv, TypeOK, JobType, OpenRow, Owns, Stages, Codes
    <2>5. "removeRollback" \in Steps /\ "removeRollback" \notin EarlySteps \cup {"load"}
      BY DEF Steps, FileSteps, EarlySteps
    <2>6. PICK g \in FrameType : /\ Becomes(w, g) /\ Follows(worker[w], g)
                                 /\ g.pc \in {"removeRollback", "unwind", "settle"}
      BY <1>1, <2>1, <2>5, AnswersFollows DEF Remuxed
    <2>7. Settles(w, g)
      BY <2>4, <2>6 DEF Settles, Early, EarlySteps
    <2>8. (Calm \/ Disturb) /\ catalog' \in Content \ {Absent} /\ metadata' \in Nat
      BY <2>1, <2>3 DEF Answers, IInv, TypeOK
    <2> QED
      BY <1>1, <2>4, <2>6, <2>7, <2>8, RowStep
  <1> QED
    BY <1>2, <1>3

(* Giving a row up, by ending the call that worked on it. *)
LEMMA ClosingKeeps ==
    ASSUME IInv, NEW w \in Workers, Ends(w) \/ (\E code \in Codes : Fails(w, code)),
           worker[w].pc # "idle", job' \in JobType, OpenRow',
           job'.owner = NoWorker \/ job' = job,
           UNCHANGED <<catalog, metadata, fileVars, envVars>>, Calm \/ Disturb
    PROVE  IInv'
  <1>1. PICK g \in FrameType : Becomes(w, g) /\ (Follows(worker[w], g) \/ g = IdleFrame)
    BY IdleTyped, FailsFollows DEF Ends, IInv, TypeOK, Frames
  <1>2. Settles(w, g)
    BY DEF Settles
  <1> QED
    BY <1>1, <1>2, RowStep DEF IInv, TypeOK

LEMMA CompletionsKeep ==
    ASSUME IInv, NEW w \in Workers, CompleteCommittedRollback(w) \/ CompleteTransientRollback(w)
    PROVE  IInv'
  <1>1. /\ worker[w].pc # "idle" /\ UNCHANGED <<catalog, metadata, fileVars, envVars>>
        /\ (Calm \/ Disturb) /\ {"retryable", "terminal"} \subseteq Codes
        /\ Ends(w) \/ Fails(w, "retryable") \/ Fails(w, "terminal")
    BY DEF CompleteCommittedRollback, CompleteTransientRollback, Calls, At, Codes
  <1>2. job \in JobType /\ NoWorker \notin Workers /\ OpenRow
    BY WritebackAssumption DEF IInv, TypeOK
  <1>3. CASE job' = job
    BY <1>1, <1>2, <1>3, ClosingKeeps DEF OpenRow
  <1>4. CASE CompleteCommittedRollback(w) /\ job' # job
    <2>1. job' = [job EXCEPT !.status = "READY", !.attempt = 0, !.owner = NoWorker,
                             !.lease = "none", !.cancel = FALSE, !.error = "none"]
      BY <1>4 DEF CompleteCommittedRollback
    <2>2. job' \in JobType /\ job'.status = "READY" /\ job'.owner = NoWorker
      BY <1>2, <2>1 DEF JobType, Statuses, Codes
    <2> QED
      BY <1>1, <2>2, ClosingKeeps DEF OpenRow
  <1>5. CASE CompleteTransientRollback(w) /\ job' # job
    <2> DEFINE next == IF job.cancel THEN "CANCELLED"
                       ELSE IF job.attempts >= MaxAttempts THEN "FAILED"
                       ELSE "PENDING"
               error == IF job.cancel THEN "cancelled" ELSE "leaseExpired"
    <2>1. job' = [job EXCEPT !.status = next, !.error = error, !.attempt = 0, !.stage = "QUEUED",
                             !.output = Absent, !.owner = NoWorker, !.lease = "none"]
      BY <1>5 DEF CompleteTransientRollback
    <2>2. next \in Statuses \ {"PROCESSING"} /\ error \in Codes
      BY DEF Statuses, Codes
    <2> HIDE DEF next, error
    <2>3. job' \in JobType /\ job'.status # "PROCESSING" /\ job'.owner = NoWorker
      BY <1>2, <2>1, <2>2, ContentFacts DEF JobType, Stages
    <2> QED
      BY <1>1, <2>3, ClosingKeeps DEF OpenRow
  <1> QED
    BY <1>3, <1>4, <1>5

LEMMA SettlementsKeep ==
    ASSUME IInv, NEW w \in Workers,
           FailWriteback(w) \/ ReleaseTransientRollback(w) \/ ReleaseCommittedRollback(w)
    PROVE  IInv'
  <1>1. /\ worker[w].pc # "idle" /\ UNCHANGED <<catalog, metadata, fileVars, envVars>>
        /\ Calm /\ Ends(w)
    BY DEF FailWriteback, ReleaseTransientRollback, ReleaseCommittedRollback, At
  <1>2. job \in JobType /\ NoWorker \notin Workers /\ OpenRow
    BY WritebackAssumption DEF IInv, TypeOK
  <1>3. CASE job' = job
    BY <1>1, <1>2, <1>3, ClosingKeeps DEF OpenRow
  <1>4. ASSUME NEW code \in Codes, job' = Unlocked(code) PROVE IInv'
    <2>1. job' \in JobType /\ job'.owner = NoWorker /\ OpenRow'
      BY <1>2, <1>4 DEF Unlocked, JobType, OpenRow
    <2> QED
      BY <1>1, <2>1, ClosingKeeps
  <1>5. ASSUME job' = ClosedRow(w) PROVE IInv'
    <2> DEFINE code == FailureCode(w)
               next == IF code = "cancelled" THEN "CANCELLED"
                       ELSE IF code \in {"terminal", "rollbackFailed"} \/ job.attempts >= MaxAttempts THEN "FAILED"
                       ELSE "PENDING"
    <2>1. job' = [Unlocked(code) EXCEPT !.status = next, !.stage = "QUEUED", !.output = Absent,
                                        !.attempt = IF next = "PENDING" THEN 0 ELSE @]
      BY <1>5 DEF ClosedRow
    <2>2. next \in Statuses \ {"PROCESSING"} /\ code \in Codes
      BY CodeFacts DEF Statuses, IInv
    <2> HIDE DEF next, code
    <2>3. job' \in JobType /\ job'.status # "PROCESSING" /\ job'.owner = NoWorker
      BY <1>2, <2>1, <2>2, ContentFacts DEF JobType, Stages, Unlocked
    <2> QED
      BY <1>1, <2>3, ClosingKeeps DEF OpenRow
  <1>6. FailureCode(w) \in Codes /\ worker[w].code \in Codes
    BY CodeFacts DEF IInv
  <1> QED
    BY <1>3, <1>4, <1>5, <1>6
    DEF FailWriteback, ReleaseTransientRollback, ReleaseCommittedRollback, FailedRow
(* A step that involves no worker, and hands no committed row to anybody. *)
LEMMA WorkerlessStep ==
    ASSUME IInv, UNCHANGED worker, TypeOK', OpenRow',
           job'.stage = "COMMITTED" /\ job'.status = "PROCESSING" =>
               /\ job.stage = "COMMITTED" /\ job.status = "PROCESSING"
               /\ job'.owner = job.owner /\ job'.attempt = job.attempt
    PROVE  IInv'
  <1>1. OwnerIsCurrent'
    BY DEF IInv, OwnerIsCurrent, Owns
  <1> QED
    BY <1>1 DEF IInv

LEMMA AdministratorKeeps ==
    ASSUME IInv, Administrator
    PROVE  IInv'
  <1>1. CASE EnqueueWriteback \/ RetryWriteback
    <2>1. /\ job' = QueuedRow /\ UNCHANGED <<catalog, metadata, fileVars, worker, envVars>> /\ Calm
      BY <1>1 DEF EnqueueWriteback, RetryWriteback, Queues
    <2>2. job' \in JobType /\ job'.status = "PENDING"
      <3>1. NoJob \in JobType
        BY ContentFacts, WritebackAssumption DEF NoJob, JobType, Statuses, Stages, Codes
      <3>2. catalog \in Content /\ metadata \in Nat /\ "PENDING" \in Statuses
        BY DEF IInv, TypeOK, Statuses
      <3> QED
        BY <2>1, <3>1, <3>2 DEF QueuedRow, JobType
    <2>3. TypeOK'
      BY <2>1, <2>2 DEF IInv, TypeOK, fileVars, envVars, Calm
    <2> QED
      BY <2>1, <2>2, <2>3, WorkerlessStep DEF OpenRow
  <1>2. CASE CancelWriteback
    <2>1. UNCHANGED <<catalog, metadata, fileVars, worker, envVars>> /\ Calm /\ job.stage # "COMMITTED"
      BY <1>2 DEF CancelWriteback
    <2>2. job' \in JobType /\ OpenRow' /\ job'.stage # "COMMITTED"
      BY <1>2, ContentFacts
      DEF CancelWriteback, IInv, TypeOK, JobType, Statuses, Stages, OpenRow
    <2>3. TypeOK'
      BY <2>1, <2>2 DEF IInv, TypeOK, fileVars, envVars, Calm
    <2> QED
      BY <2>1, <2>2, <2>3, WorkerlessStep
  <1>3. CASE UpdateMetadata
    <2>1. UNCHANGED <<job, catalog, fileVars, worker, envVars>> /\ metadata' \in Nat
          /\ disturbances' \in 0..MaxDisturbances
      BY <1>3, CountTyped DEF UpdateMetadata, IInv, TypeOK
    <2>2. TypeOK' /\ OpenRow'
      BY <2>1 DEF IInv, TypeOK, fileVars, envVars, OpenRow
    <2> QED
      BY <2>1, <2>2, WorkerlessStep
  <1> QED
    BY <1>1, <1>2, <1>3 DEF Administrator

LEMMA EnvironmentKeeps ==
    ASSUME IInv, Environment
    PROVE  IInv'
  <1>1. CASE LeaseLapses
    <2>1. /\ job' = [job EXCEPT !.lease = "lapsed"] /\ Calm
          /\ UNCHANGED <<catalog, metadata, fileVars, worker, envVars>>
      BY <1>1 DEF LeaseLapses
    <2>2. job' \in JobType /\ OpenRow'
      BY <2>1 DEF IInv, TypeOK, JobType, OpenRow
    <2>3. TypeOK'
      BY <2>1, <2>2 DEF IInv, TypeOK, fileVars, envVars, Calm
    <2> QED
      BY <2>1, <2>2, <2>3, WorkerlessStep DEF IInv, TypeOK, JobType
  <1>2. CASE ToggleWritable
    <2>1. /\ UNCHANGED <<dbVars, fileVars, worker, nextAttempt, edits, overwritten>>
          /\ writable' \in BOOLEAN /\ disturbances' \in 0..MaxDisturbances
      BY <1>2, CountTyped DEF ToggleWritable, IInv
    <2>2. TypeOK' /\ OpenRow'
      BY <2>1 DEF IInv, TypeOK, fileVars, dbVars, OpenRow
    <2> QED
      BY <2>1, <2>2, WorkerlessStep DEF dbVars
  <1>3. CASE ExternalEdit
    <2>1. /\ UNCHANGED <<dbVars, temporary, rollback, worker, writable, nextAttempt>> /\ Calm
          /\ edits < MaxEdits /\ edits' = edits + 1
          /\ source' \in {UserFile(0), UserFile(edits + 1)}
          /\ overwritten' = overwritten \cup ({source} \ {Absent})
      BY <1>3 DEF ExternalEdit
    <2>2. edits' \in 0..MaxEdits
      BY <2>1, WritebackAssumption DEF IInv, TypeOK
    <2>3. source' \in Content /\ overwritten' \subseteq Content
      BY <2>1, <2>2, ContentFacts DEF IInv, TypeOK
    <2>4. TypeOK' /\ OpenRow'
      BY <2>1, <2>2, <2>3 DEF IInv, TypeOK, dbVars, OpenRow, Calm
    <2> QED
      BY <2>1, <2>4, WorkerlessStep DEF dbVars
  <1>4. CASE ScanRecordsSource
    <2>1. /\ UNCHANGED <<job, metadata, fileVars, worker, envVars>> /\ Calm
          /\ catalog' = source /\ source # Absent
      BY <1>4 DEF ScanRecordsSource, Records
    <2>2. TypeOK' /\ OpenRow'
      BY <2>1 DEF IInv, TypeOK, fileVars, envVars, OpenRow, Calm
    <2> QED
      BY <2>1, <2>2, WorkerlessStep
  <1> QED
    BY <1>1, <1>2, <1>3, <1>4 DEF Environment

LEMMA HeartbeatKeeps ==
    ASSUME IInv, NEW w \in Workers, HeartbeatRenews(w)
    PROVE  IInv'
  <1>1. /\ job' = [job EXCEPT !.lease = "live"] /\ Calm
        /\ UNCHANGED <<catalog, metadata, fileVars, worker, envVars>>
    BY DEF HeartbeatRenews
  <1>2. job' \in JobType /\ OpenRow'
    BY <1>1 DEF IInv, TypeOK, JobType, OpenRow
  <1>3. TypeOK'
    BY <1>1, <1>2 DEF IInv, TypeOK, fileVars, envVars, Calm
  <1> QED
    BY <1>1, <1>2, <1>3, WorkerlessStep DEF IInv, TypeOK, JobType

(* A claim that ends the row instead of working on it. *)
LEMMA DroppingClaimsKeep ==
    ASSUME IInv, ClaimCancels \/ ClaimExhausts
    PROVE  IInv'
  <1>1. PICK status \in {"CANCELLED", "FAILED"}, error \in {"none", "leaseExpired"} :
            job' = [job EXCEPT !.status = status, !.owner = NoWorker, !.lease = "none",
                               !.error = error, !.stage = "QUEUED", !.output = Absent]
    BY DEF ClaimCancels, ClaimExhausts
  <1>2. Calm /\ UNCHANGED <<catalog, metadata, fileVars, worker, envVars>>
    BY DEF ClaimCancels, ClaimExhausts
  <1>3. job' \in JobType /\ job'.status # "PROCESSING"
    BY <1>1, ContentFacts DEF IInv, TypeOK, JobType, Statuses, Stages, Codes
  <1>4. TypeOK' /\ OpenRow'
    BY <1>2, <1>3 DEF IInv, TypeOK, fileVars, envVars, Calm, OpenRow
  <1> QED
    BY <1>2, <1>3, <1>4, WorkerlessStep

(* A claim gives an idle worker a frame of its own for the row it now owns. *)
LEMMA ClaimStep ==
    ASSUME IInv, NEW w \in Workers, NEW g \in FrameType, Becomes(w, g),
           g.pc = "load" /\ g.attempt # 0 /\ job'.owner = w,
           job'.stage = "COMMITTED" => ~Early(g),
           job' \in JobType, OpenRow', nextAttempt' \in 1..MaxAttemptIds + 1,
           UNCHANGED <<catalog, metadata, fileVars, writable, edits, overwritten>>, Calm
    PROVE  IInv'
  <1>1. worker' \in Frames /\ worker'[w] = g /\ \A v \in Workers \ {w} : worker'[v] = worker[v]
    BY FrameOf DEF IInv, TypeOK, Frames
  <1>2. TypeOK'
    BY <1>1 DEF IInv, TypeOK, Frames, fileVars, Calm
  <1>3. OwnerIsCurrent'
    <2> SUFFICES ASSUME NEW v \in Workers
                 PROVE  /\ (worker[v].pc # "idle" => worker[v].attempt # 0)'
                        /\ (worker[v].pc \in Remuxed => worker[v].output # Absent)'
                        /\ (Early(worker[v]) /\ Owns(v) => job.stage # "COMMITTED")'
      BY DEF OwnerIsCurrent
    <2>1. CASE v = w
      BY <1>1, <2>1 DEF Remuxed, EarlySteps
    <2>2. CASE v # w
      BY <1>1, <2>2 DEF IInv, OwnerIsCurrent, Owns
    <2> QED
      BY <2>1, <2>2
  <1> QED
    BY <1>2, <1>3 DEF IInv

LEMMA ClaimStartsKeeps ==
    ASSUME IInv, NEW w \in Workers, ClaimStarts(w)
    PROVE  IInv'
  <1> DEFINE g == [IdleFrame EXCEPT !.pc = "load", !.mode = "fresh", !.attempt = nextAttempt]
  <1>1. /\ nextAttempt \in AttemptIds /\ nextAttempt' = nextAttempt + 1 /\ Becomes(w, g) /\ Calm
        /\ UNCHANGED <<catalog, metadata, fileVars, writable, edits, overwritten>>
        /\ job.attempts < MaxAttempts
        /\ job' = [job EXCEPT !.status = "PROCESSING", !.attempts = @ + 1, !.attempt = nextAttempt,
                              !.stage = "PREPARING", !.output = Absent, !.owner = w, !.lease = "live"]
    BY DEF ClaimStarts
  <1>2. nextAttempt # 0 /\ nextAttempt' \in 1..MaxAttemptIds + 1
    BY <1>1, WritebackAssumption DEF AttemptIds
  <1>3. g \in FrameType /\ g.pc = "load" /\ g.attempt # 0
    BY <1>1, <1>2, IdleTyped DEF FrameType, Steps, ContextSteps, IdleFrame
  <1>4. job.attempts + 1 \in 0..MaxAttempts
    BY <1>1, WritebackAssumption DEF IInv, TypeOK, JobType
  <1>5. job' \in JobType /\ OpenRow' /\ job'.owner = w /\ job'.stage # "COMMITTED"
    BY <1>1, <1>2, <1>4, ContentFacts DEF IInv, TypeOK, JobType, Statuses, Stages, OpenRow
  <1> HIDE DEF g
  <1> QED
    BY <1>1, <1>2, <1>3, <1>5, ClaimStep

LEMMA ClaimRecoversKeeps ==
    ASSUME IInv, NEW w \in Workers, ClaimRecovers(w)
    PROVE  IInv'
  <1>1. /\ job' = [job EXCEPT !.owner = w, !.lease = "live"] /\ Becomes(w, RecoveryFrame)
        /\ Calm /\ UNCHANGED <<catalog, metadata, fileVars, envVars>>
        /\ NeedsReconciliation(job)
    BY DEF ClaimRecovers, TakesOver
  <1>2. job.attempt \in AttemptIds /\ job.attempt # 0
    BY <1>1 DEF NeedsReconciliation, IInv, TypeOK, JobType
  <1>3. /\ RecoveryFrame \in FrameType /\ RecoveryFrame.pc = "load"
        /\ RecoveryFrame.attempt # 0 /\ ~Early(RecoveryFrame)
    BY <1>2, IdleTyped DEF RecoveryFrame, IdleFrame, FrameType, Steps, ContextSteps, Early, EarlySteps
  <1>4. job' \in JobType /\ OpenRow' /\ job'.owner = w
    BY <1>1 DEF IInv, TypeOK, JobType, OpenRow
  <1> QED
    BY <1>1, <1>3, <1>4, ClaimStep DEF envVars, IInv, TypeOK

LEMMA ProcessKeeps ==
    ASSUME IInv, NEW w \in Workers, Process(w) \/ Interference(w)
    PROVE  IInv'
  BY ReadingSteps, MovingStepsKeep, FramingStepsKeep, EndingStepsKeep, StoppingStepsKeep, LoadKeeps,
     RemuxKeeps, MarkPreparedKeeps, MarkReplacedKeeps, RenewKeeps, CommitKeeps, CompletionsKeep,
     SettlementsKeep, HeartbeatKeeps
  DEF Process, Interference

LEMMA StepKeeps ==
    ASSUME IInv, [Next]_vars
    PROVE  IInv'
  <1>1. CASE UNCHANGED vars
    BY <1>1 DEF vars, IInv, TypeOK, OpenRow, OwnerIsCurrent, Owns
  <1>2. CASE Next
    BY <1>2, AdministratorKeeps, EnvironmentKeeps, DroppingClaimsKeep, ClaimStartsKeeps,
       ClaimRecoversKeeps, ProcessKeeps
    DEF Next, Claim
  <1> QED
    BY <1>1, <1>2

(* Every variable keeps its range, the row of an open attempt names it and  *)
(* its output, and nobody before a commit owns a committed row, in every    *)
(* behaviour: whatever fails, and also when workers outlive their leases.   *)
THEOREM TypeCorrect == Spec => []IInv
  <1>1. Init => IInv
    BY WritebackInit
  <1>2. IInv /\ [Next]_vars => IInv'
    BY StepKeeps
  <1> QED
    BY <1>1, <1>2, PTL DEF Spec

THEOREM WritebackTypeCorrect == Spec => []TypeOK
  <1>1. IInv => TypeOK
    BY DEF IInv
  <1> QED
    BY <1>1, TypeCorrect, PTL
(***************************************************************************)
(* What a step can do to the row and the catalogue: the shapes of its      *)
(* effect, from which the properties of the row follow.                    *)
(***************************************************************************)
Pending   == job.status = "PENDING" /\ job.stage # "COMMITTED"
Open      == job.status = "PROCESSING" /\ job.stage # "COMMITTED"
Committed == job.status = "PROCESSING" /\ job.stage = "COMMITTED"

SameRequest == job'.expected = job.expected /\ job'.version = job.version
SameCatalog == UNCHANGED <<catalog, metadata>>

Tagged    == UNCHANGED <<job, catalog>> /\ metadata' = metadata + 1
Rescanned == job.status \notin Active /\ UNCHANGED <<job, metadata>> /\ catalog' = source
Requested == job.status \notin Active /\ job' = QueuedRow /\ SameCatalog
Started   == Pending /\ Open' /\ SameRequest /\ SameCatalog
Worked    == Open /\ Open' /\ SameRequest /\ SameCatalog
Cleaned   == Committed /\ Committed' /\ job'.output = job.output /\ SameRequest /\ SameCatalog
GivenBack == Open /\ Pending' /\ SameRequest /\ SameCatalog
Dropped   == (Pending \/ Open) /\ job'.status \in Statuses \ Active /\ SameRequest /\ SameCatalog
Finished  == Committed /\ job'.status = "READY" /\ job'.stage = "COMMITTED"
             /\ job'.output = job.output /\ SameRequest /\ SameCatalog
Commits   == /\ Open /\ Committed' /\ SameRequest
             /\ catalog = job.expected /\ metadata = job.version
             /\ catalog' = job'.output /\ metadata' = metadata + 1

Shape ==
    \/ UNCHANGED dbVars \/ Tagged \/ Rescanned \/ Requested \/ Started \/ Worked \/ Cleaned
    \/ GivenBack \/ Dropped \/ Finished \/ Commits

(* A queued row was never committed. *)
QueuedIsUncommitted == job.status = "PENDING" => job.stage # "COMMITTED"

RowInv == IInv /\ QueuedIsUncommitted /\ CatalogFollowsJob

LEMMA RowTyped ==
    ASSUME IInv
    PROVE  job \in JobType /\ OpenRow
  BY DEF IInv, TypeOK

(* An open row without files to repair is not committed. *)
LEMMA UncommittedOpen ==
    ASSUME IInv, job.status = "PROCESSING", ~NeedsReconciliation(job)
    PROVE  Open
  BY DEF IInv, OpenRow, NeedsReconciliation, Open

LEMMA ShapeOfRequests ==
    ASSUME RowInv, Administrator
    PROVE  Shape
  <1>1. job \in JobType /\ (job.status = "PENDING" => Pending)
    BY RowTyped DEF RowInv, QueuedIsUncommitted, Pending
  <1>2. CASE EnqueueWriteback \/ RetryWriteback
    BY <1>2 DEF EnqueueWriteback, RetryWriteback, Queues, Shape, Requested, SameCatalog, Active
  <1>3. CASE CancelWriteback /\ job.status = "PENDING"
    BY <1>1, <1>3
    DEF CancelWriteback, Shape, Dropped, SameRequest, SameCatalog, JobType, Statuses, Active
  <1>4. CASE CancelWriteback /\ job.status # "PENDING"
    <2>1. Open /\ job' = [job EXCEPT !.cancel = TRUE] /\ SameCatalog
      BY <1>4 DEF CancelWriteback, Active, Open, SameCatalog
    <2> QED
      BY <1>1, <2>1 DEF Shape, Worked, Open, SameRequest, JobType
  <1>5. CASE UpdateMetadata
    BY <1>5 DEF UpdateMetadata, Shape, Tagged
  <1> QED
    BY <1>2, <1>3, <1>4, <1>5 DEF Administrator

LEMMA ShapeOfClaims ==
    ASSUME RowInv, Claim
    PROVE  Shape
  <1>1. job \in JobType /\ (Unclaimed => Pending \/ Open)
    BY RowTyped, UncommittedOpen DEF RowInv, QueuedIsUncommitted, Pending, Unclaimed
  <1>2. CASE ClaimCancels \/ ClaimExhausts
    <2>1. PICK status \in {"CANCELLED", "FAILED"}, error \in {"none", "leaseExpired"} :
            job' = [job EXCEPT !.status = status, !.owner = NoWorker, !.lease = "none",
                               !.error = error, !.stage = "QUEUED", !.output = Absent]
      BY <1>2 DEF ClaimCancels, ClaimExhausts
    <2>2. Unclaimed /\ SameCatalog
      BY <1>2 DEF ClaimCancels, ClaimExhausts, SameCatalog
    <2> QED
      BY <1>1, <2>1, <2>2 DEF Shape, Dropped, SameRequest, JobType, Statuses, Active
  <1>3. ASSUME NEW w \in Workers, ClaimStarts(w) PROVE Shape
    <2>1. Unclaimed /\ SameCatalog
          /\ job' = [job EXCEPT !.status = "PROCESSING", !.attempts = @ + 1, !.attempt = nextAttempt,
                                !.stage = "PREPARING", !.output = Absent, !.owner = w, !.lease = "live"]
      BY <1>3 DEF ClaimStarts, SameCatalog
    <2>2. Open' /\ SameRequest
      BY <1>1, <2>1 DEF Open, SameRequest, JobType
    <2> QED
      BY <1>1, <2>1, <2>2 DEF Shape, Started, Worked
  <1>4. ASSUME NEW w \in Workers, ClaimRecovers(w) PROVE Shape
    <2>1. job' = [job EXCEPT !.owner = w, !.lease = "live"] /\ SameCatalog
          /\ job.status = "PROCESSING"
      BY <1>4 DEF ClaimRecovers, TakesOver, SameCatalog, NeedsReconciliation
    <2> QED
      BY <1>1, <2>1 DEF Shape, Worked, Cleaned, Open, Committed, SameRequest, JobType
  <1> QED
    BY <1>2, <1>3, <1>4 DEF Claim

(* Steps that leave the row to its worker, or change nothing but its lease. *)
LEMMA ShapeOfLeases ==
    ASSUME IInv, job.status = "PROCESSING", SameCatalog,
           NEW owner, NEW lease, NEW error,
           job' = [job EXCEPT !.owner = owner, !.lease = lease, !.error = error]
    PROVE  Shape
  BY RowTyped DEF Shape, Worked, Cleaned, Open, Committed, SameRequest, JobType

LEMMA ShapeOfMarks ==
    ASSUME RowInv, NEW w \in Workers, MarkWritebackPrepared(w) \/ MarkWritebackFileReplaced(w)
    PROVE  Shape
  <1>1. SameCatalog
    BY DEF MarkWritebackPrepared, MarkWritebackFileReplaced, SameCatalog
  <1>2. CASE job' = job
    BY <1>1, <1>2 DEF Shape, SameCatalog, dbVars
  <1>3. CASE job' # job
    <2>1. Owns(w) /\ Early(worker[w])
      BY <1>3 DEF MarkWritebackPrepared, MarkWritebackFileReplaced, Calls, At, Early, EarlySteps
    <2>2. Open
      BY <2>1 DEF RowInv, IInv, OwnerIsCurrent, Owns, Open
    <2>3. PICK stage \in {"PREPARED", "FILE_REPLACED"}, output \in {job.output, worker[w].output} :
              job' = [job EXCEPT !.stage = stage, !.output = output]
      <3>1. CASE MarkWritebackPrepared(w)
        BY <1>3, <3>1 DEF MarkWritebackPrepared
      <3>2. CASE MarkWritebackFileReplaced(w)
        BY <1>3, <3>2, RowTyped DEF MarkWritebackFileReplaced, RowInv, JobType
      <3> QED
        BY <3>1, <3>2
    <2> QED
      BY <1>1, <2>2, <2>3, RowTyped DEF RowInv, Shape, Worked, Open, SameRequest, JobType
  <1> QED
    BY <1>2, <1>3

LEMMA ShapeOfCommit ==
    ASSUME RowInv, NEW w \in Workers, CommitWriteback(w)
    PROVE  Shape
  <1>1. CASE CommitRefusal(w) # "none"
    BY <1>1 DEF CommitWriteback, Shape
  <1>2. CASE CommitRefusal(w) = "none"
    <2>1. Owns(w) /\ job.stage = "FILE_REPLACED" /\ job.output = worker[w].output
          /\ ContextCode(w) = "none"
      BY <1>2 DEF CommitRefusal
    <2>2. metadata = job.version
      BY <2>1 DEF ContextCode
    <2>3. catalog' = worker[w].output /\ metadata' = metadata + 1
          /\ job' = [job EXCEPT !.stage = "COMMITTED", !.lease = "live", !.error = "none"]
      BY <1>2 DEF CommitWriteback
    <2>4. Open /\ catalog = job.expected
      BY <2>1 DEF Open, Owns, RowInv, CatalogFollowsJob, Active
    <2>5. Committed' /\ SameRequest /\ job'.output = job.output
      BY <2>1, <2>3, RowTyped DEF RowInv, Committed, SameRequest, Owns, JobType
    <2> QED
      BY <2>1, <2>2, <2>3, <2>4, <2>5 DEF Shape, Commits
  <1> QED
    BY <1>1, <1>2

LEMMA ShapeOfCompletions ==
    ASSUME RowInv, NEW w \in Workers, CompleteCommittedRollback(w) \/ CompleteTransientRollback(w)
    PROVE  Shape
  <1>1. SameCatalog
    BY DEF CompleteCommittedRollback, CompleteTransientRollback, SameCatalog
  <1>2. CASE job' = job
    BY <1>1, <1>2 DEF Shape, SameCatalog, dbVars
  <1>3. CASE CompleteCommittedRollback(w) /\ job' # job
    <2>1. Committed
          /\ job' = [job EXCEPT !.status = "READY", !.attempt = 0, !.owner = NoWorker,
                                !.lease = "none", !.cancel = FALSE, !.error = "none"]
      BY <1>3 DEF CompleteCommittedRollback, Owns, Committed
    <2> QED
      BY <1>1, <2>1, RowTyped DEF RowInv, Shape, Finished, Committed, SameRequest, JobType
  <1>4. CASE CompleteTransientRollback(w) /\ job' # job
    <2>1. PICK next \in {"CANCELLED", "FAILED", "PENDING"}, error \in Codes :
            job' = [job EXCEPT !.status = next, !.error = error, !.attempt = 0, !.stage = "QUEUED",
                               !.output = Absent, !.owner = NoWorker, !.lease = "none"]
      BY <1>4 DEF CompleteTransientRollback, Codes
    <2>2. Open
      BY <1>4 DEF CompleteTransientRollback, NeedsTransientRecovery, Owns, Open
    <2> QED
      BY <1>1, <2>1, <2>2, RowTyped
      DEF RowInv, Shape, GivenBack, Dropped, Pending, SameRequest, JobType, Statuses, Active
  <1> QED
    BY <1>2, <1>3, <1>4

LEMMA ShapeOfSettlements ==
    ASSUME RowInv, NEW w \in Workers,
           FailWriteback(w) \/ ReleaseTransientRollback(w) \/ ReleaseCommittedRollback(w)
    PROVE  Shape
  <1>1. SameCatalog /\ IInv
    BY DEF FailWriteback, ReleaseTransientRollback, ReleaseCommittedRollback, SameCatalog, RowInv
  <1>2. CASE job' = job
    BY <1>1, <1>2 DEF Shape, SameCatalog, dbVars
  <1>3. CASE Owns(w) /\ \E code \in Codes : job' = Unlocked(code)
    BY <1>1, <1>3, ShapeOfLeases DEF Owns, Unlocked
  <1>4. CASE Owns(w) /\ ~NeedsReconciliation(job) /\ job' = ClosedRow(w)
    <2>1. PICK next \in {"CANCELLED", "FAILED", "PENDING"}, code \in Codes, attempt \in {0, job.attempt} :
            job' = [Unlocked(code) EXCEPT !.status = next, !.stage = "QUEUED", !.output = Absent,
                                          !.attempt = attempt]
      <3> DEFINE code == FailureCode(w)
                 next == IF code = "cancelled" THEN "CANCELLED"
                         ELSE IF code \in {"terminal", "rollbackFailed"} \/ job.attempts >= MaxAttempts THEN "FAILED"
                         ELSE "PENDING"
                 attempt == IF next = "PENDING" THEN 0 ELSE job.attempt
      <3>1. job' = [Unlocked(code) EXCEPT !.status = next, !.stage = "QUEUED", !.output = Absent,
                                          !.attempt = IF next = "PENDING" THEN 0 ELSE @]
        BY <1>4 DEF ClosedRow
      <3>2. next \in {"CANCELLED", "FAILED", "PENDING"} /\ code \in Codes
        BY <1>1, CodeFacts DEF IInv
      <3>3. Unlocked(code).attempt = job.attempt
        BY <1>1, RowTyped DEF Unlocked, JobType
      <3> HIDE DEF code, next
      <3> QED
        BY <3>1, <3>2, <3>3, <1>1, RowTyped DEF Unlocked, JobType
    <2>2. Open
      BY <1>1, <1>4, UncommittedOpen DEF Owns
    <2> QED
      BY <1>1, <2>1, <2>2, RowTyped
      DEF Shape, GivenBack, Dropped, Pending, SameRequest, JobType, Statuses, Active, Unlocked
  <1>5. FailureCode(w) \in Codes /\ worker[w].code \in Codes
    BY <1>1, CodeFacts DEF IInv
  <1> QED
    BY <1>2, <1>3, <1>4, <1>5
    DEF FailWriteback, ReleaseTransientRollback, ReleaseCommittedRollback, FailedRow
LEMMA ShapeOfSteps ==
    ASSUME RowInv, NEW w \in Workers, Process(w) \/ Interference(w)
    PROVE  Shape
  <1>1. CASE RenewWritebackLease(w)
    <2>1. SameCatalog
      BY <1>1 DEF RenewWritebackLease, SameCatalog
    <2>2. job' = job \/ (Owns(w) /\ job' = [job EXCEPT !.lease = "live"])
      BY <1>1 DEF RenewWritebackLease
    <2>3. CASE job' = job
      BY <2>1, <2>3 DEF Shape, SameCatalog, dbVars
    <2>4. CASE Owns(w) /\ job' = [job EXCEPT !.lease = "live"]
      BY <2>1, <2>4, RowTyped
      DEF RowInv, Shape, Worked, Cleaned, Open, Committed, SameRequest, JobType, Owns
    <2> QED
      BY <2>2, <2>3, <2>4
  <1>2. CASE HeartbeatRenews(w)
    BY <1>2, RowTyped DEF HeartbeatRenews, SameCatalog,
       RowInv, Shape, Worked, Cleaned, Open, Committed, SameRequest, JobType, Owns
  <1>3. CASE \/ MarkWritebackPrepared(w) \/ MarkWritebackFileReplaced(w) \/ CommitWriteback(w)
             \/ CompleteCommittedRollback(w) \/ CompleteTransientRollback(w)
             \/ FailWriteback(w) \/ ReleaseTransientRollback(w) \/ ReleaseCommittedRollback(w)
    BY <1>3, ShapeOfMarks, ShapeOfCommit, ShapeOfCompletions, ShapeOfSettlements
  <1>4. CASE \/ ChecksumSource(w) \/ RecheckSource(w) \/ ValidateBeforeReplacement(w)
             \/ VerifyInstalled(w) \/ VerifyMissing(w) \/ InspectCleanup(w)
    BY <1>4 DEF ChecksumSource, RecheckSource, ValidateBeforeReplacement, VerifyInstalled,
       VerifyMissing, InspectCleanup, Checks, ReadOnlyStep, Shape
  <1>5. CASE \/ MoveSourceAside(w) \/ InstallOutput(w) \/ PutBack(w) \/ DiscardInstalled(w)
             \/ RemoveReplacementRollback(w) \/ RestoreMissing(w) \/ StageOutput(w)
             \/ RestoreOriginal(w) \/ VerifyRestored(w) \/ RestoreOutput(w)
             \/ DropTemporary(w) \/ DropRollback(w) \/ VerifyAside(w) \/ SyncInstalled(w)
             \/ UnwindAttempt(w)
    BY <1>5 DEF MoveSourceAside, InstallOutput, PutBack, DiscardInstalled,
       RemoveReplacementRollback, RestoreMissing, StageOutput, RestoreOriginal, VerifyRestored,
       RestoreOutput, DropTemporary, DropRollback, VerifyAside, SyncInstalled, UnwindAttempt,
       DatabaseUntouched, Shape
  <1>6. CASE \/ LoadWritebackContext(w) \/ RemuxMetadata(w) \/ FindWriteback(w) \/ InspectRestore(w)
             \/ InspectRecovery(w) \/ StoppedCall(w)
    BY <1>6 DEF LoadWritebackContext, RemuxMetadata, FindWriteback, InspectRestore, InspectRecovery,
       StoppedCall, ReadOnlyStep, Shape
  <1>7. CASE \/ CallFails(w) \/ FindWritebackFails(w) \/ SettleFails(w) \/ WorkerStops(w)
             \/ CancellationPoll(w) \/ HeartbeatLosesLease(w) \/ Crash(w)
    BY <1>7 DEF CallFails, FindWritebackFails, SettleFails, WorkerStops, CancellationPoll,
       HeartbeatLosesLease, Crash, StopContext, Shape
  <1> QED
    BY <1>1, <1>2, <1>3, <1>4, <1>5, <1>6, <1>7 DEF Process, Interference

LEMMA ShapeOfEnvironment ==
    ASSUME RowInv, Environment
    PROVE  Shape
  <1>1. CASE LeaseLapses
    BY <1>1, RowTyped DEF LeaseLapses, SameCatalog,
       RowInv, Shape, Worked, Cleaned, Open, Committed, SameRequest, JobType
  <1>2. CASE ToggleWritable \/ ExternalEdit
    BY <1>2 DEF ToggleWritable, ExternalEdit, Shape
  <1>3. CASE ScanRecordsSource
    BY <1>3 DEF ScanRecordsSource, Records, Shape, Rescanned
  <1> QED
    BY <1>1, <1>2, <1>3 DEF Environment

LEMMA StepHasShape ==
    ASSUME RowInv, [Next]_vars
    PROVE  Shape
  <1>1. CASE UNCHANGED vars
    BY <1>1 DEF vars, dbVars, Shape
  <1>2. CASE Next
    BY <1>2, ShapeOfRequests, ShapeOfClaims, ShapeOfSteps, ShapeOfEnvironment DEF Next
  <1> QED
    BY <1>1, <1>2

LEMMA ShapeKeepsRow ==
    ASSUME RowInv, Shape, IInv'
    PROVE  RowInv'
  <1>1. QueuedIsUncommitted'
    BY DEF RowInv, QueuedIsUncommitted, Shape, dbVars, Tagged, Rescanned, Requested, Started, Worked,
       Cleaned, GivenBack, Dropped, Finished, Commits, Pending, Open, Committed, Active, QueuedRow, NoJob
  <1>2. CatalogFollowsJob'
    BY DEF RowInv, CatalogFollowsJob, Shape, dbVars, Tagged, Rescanned, Requested, Started, Worked,
       Cleaned, GivenBack, Dropped, Finished, Commits, Pending, Open, Committed, Active, QueuedRow, NoJob,
       SameRequest, SameCatalog
  <1> QED
    BY <1>1, <1>2 DEF RowInv

THEOREM RowInvariant == Spec => []RowInv
  <1>1. Init => RowInv
    <2>1. Init => QueuedIsUncommitted /\ CatalogFollowsJob
      BY DEF Init, NoJob, QueuedIsUncommitted, CatalogFollowsJob, Active
    <2> QED
      BY <2>1, WritebackInit DEF RowInv
  <1>2. RowInv /\ [Next]_vars => RowInv'
    BY StepKeeps, StepHasShape, ShapeKeepsRow DEF RowInv
  <1> QED
    BY <1>1, <1>2, PTL DEF Spec

(* The catalogue changes under an active row by its commit only: until then *)
(* it is what the row was queued with, from then on what the row wrote.     *)
THEOREM CatalogAgrees == Spec => []CatalogFollowsJob
  <1>1. RowInv => CatalogFollowsJob
    BY DEF RowInv
  <1> QED
    BY <1>1, RowInvariant, PTL

(* Nobody takes a commit back: not a late failure of the attempt, not a     *)
(* cancellation, not another worker's recovery of the row.                  *)
THEOREM CommitIsFinal == Spec => CommittedIsFinal
  <1> DEFINE A == job.status = "PROCESSING" /\ job.stage = "COMMITTED" =>
                    /\ job'.stage = "COMMITTED" /\ job'.status \in {"PROCESSING", "READY"}
                    /\ job'.output = job.output
  <1>1. RowInv /\ [Next]_vars => A
    <2>1. ASSUME Shape PROVE A
      BY <2>1 DEF Shape, dbVars, Tagged, Rescanned, Requested, Started, Worked,
         Cleaned, GivenBack, Dropped, Finished, Commits, Pending, Open, Committed, Active
    <2> QED
      BY <2>1, StepHasShape
  <1>2. RowInv /\ [Next]_vars => [A]_vars
    BY <1>1
  <1> QED
    BY <1>2, RowInvariant, PTL DEF Spec, CommittedIsFinal

-----------------------------------------------------------------------------
(* The refinement *)

LEMMA ContractInit == Init => Contract!Init
  <1> SUFFICES ASSUME Init PROVE Contract!Init
    OBVIOUS
  <1>1. Phase = "closed"
    BY DEF Init, NoJob, Phase
  <1>2. catalog \in Content /\ metadata \in Nat /\ job.expected \in Content /\ job.version \in Nat
    BY ContentFacts DEF Init, NoJob
  <1> QED
    BY <1>1, <1>2 DEF Contract!Init

LEMMA ContractStep ==
    ASSUME RowInv, RowInv', Shape
    PROVE  Contract!Next \/ UNCHANGED Contract!contract
  <1> DEFINE asked == [recorded |-> job.expected, version |-> job.version]
  <1>1. /\ job.status \notin Active => Phase = "closed"
        /\ job.status = "PENDING" => Phase = "queued"
        /\ Open => Phase = "open"
        /\ Committed => Phase = "committed"
    BY DEF Phase, Active, Open, Committed
  <1>2. /\ job'.status \notin Active => Phase' = "closed"
        /\ job'.status = "PENDING" => Phase' = "queued"
        /\ Open' => Phase' = "open"
        /\ Committed' => Phase' = "committed"
    BY DEF Phase, Active, Open, Committed
  <1>3. catalog' \in Content
    BY DEF RowInv, IInv, TypeOK
  <1>4. CASE UNCHANGED dbVars
    BY <1>4 DEF dbVars, Contract!contract, Phase
  <1>5. CASE Tagged
    BY <1>5 DEF Tagged, Contract!Next, Contract!EditTags, Phase
  <1>6. CASE Rescanned
    BY <1>1, <1>2, <1>3, <1>6 DEF Rescanned, Contract!Next, Contract!Rescan
  <1>7. CASE Requested
    <2>1. job'.status = "PENDING" /\ job'.expected = catalog /\ job'.version = metadata
      BY <1>7 DEF Requested, QueuedRow, NoJob
    <2> QED
      BY <1>1, <1>2, <1>7, <2>1 DEF Requested, SameCatalog, Contract!Next, Contract!Request
  <1>8. CASE Started
    BY <1>1, <1>2, <1>8 DEF Started, Pending, SameRequest, SameCatalog, Contract!Next, Contract!Start
  <1>9. CASE Worked \/ Cleaned
    BY <1>1, <1>2, <1>9 DEF Worked, Cleaned, SameRequest, SameCatalog, Contract!contract
  <1>10. CASE GivenBack
    BY <1>1, <1>2, <1>10 DEF GivenBack, Pending, SameRequest, SameCatalog, Contract!Next, Contract!GiveBack
  <1>11. CASE Dropped
    BY <1>1, <1>2, <1>11 DEF Dropped, Pending, SameRequest, SameCatalog, Contract!Next, Contract!Drop
  <1>12. CASE Finished
    BY <1>1, <1>2, <1>12 DEF Finished, Active, SameRequest, SameCatalog, Contract!Next, Contract!Finish
  <1>13. CASE Commits
    BY <1>1, <1>2, <1>3, <1>13 DEF Commits, SameRequest, Contract!Next, Contract!Commit
  <1> QED
    BY <1>4, <1>5, <1>6, <1>7, <1>8, <1>9, <1>10, <1>11, <1>12, <1>13 DEF Shape

(* Whatever workers, crashes, lost answers and recoveries do, the catalogue *)
(* sees the writeback WritebackContract describes.                          *)
THEOREM ContractIsImplemented == Spec => ImplementsContract
  <1>1. Init => Contract!Init
    BY ContractInit
  <1>2. RowInv /\ RowInv' /\ [Next]_vars => [Contract!Next]_Contract!contract
    BY StepHasShape, ContractStep
  <1> QED
    BY <1>1, <1>2, RowInvariant, PTL DEF Spec, ImplementsContract, Contract!Spec
-----------------------------------------------------------------------------
(***************************************************************************)
(* The files.  As long as no worker outlives its lease the row has one      *)
(* worker at a time, and that worker knows where the recording of the       *)
(* catalogue is.  Without stalls everything the code says of files follows. *)
(***************************************************************************)
(* Steps of a worker that holds the row: all but the waiting ones, the start *)
(* of the deferred handler and the settlement.                               *)
Acting == Steps \ {"idle", "unwind", "findState", "settle"}

(* Steps at which the attempt has not moved a file yet.                      *)
Unmoved == {"checksum", "remux", "recheck", "markPrepared", "renew", "validate", "moveAside"}

(* Steps after the commit, and those between PREPARED and the commit.        *)
Cleaning ==
    {"renewCleanup", "inspectCleanup", "removeRollback", "dropTemporaryCommitted",
     "completeCommitted"}
Swapping ==
    Acting \ (Cleaning \cup {"load", "checksum", "remux", "recheck", "markPrepared"})

(* Steps at which there is no rollback file, and those at which it holds the *)
(* recording the row was queued with.                                        *)
NoRollback ==
    Unmoved \cup {"verifyMissing", "verifyRestored", "dropTemporary", "completeTransient",
                  "dropTemporaryCommitted", "completeCommitted"}
Backed ==
    {"install", "syncInstalled", "discard", "restoreMissing", "recoverMissing", "stageOutput",
     "restoreOriginal"}

OwnedIn(w, f) == job.status = "PROCESSING" /\ job.owner = w /\ job.attempt = f.attempt

InPlace == catalog \in {source} \cup overwritten
Settled == source = catalog \/ External(source)

(* What a worker in frame f relies on between two of its steps.              *)
Fits(w, f) ==
    /\ f.pc \in Acting => OwnedIn(w, f)
    /\ f.pc \notin {"idle", "settle"} /\ OwnedIn(w, f) => job.lease = "live"
    /\ (f.armed \/ f.pc \in {"findState"} \cup (Acting \ {"load"})) /\ OwnedIn(w, f) =>
         f.original = job.expected
    /\ f.pc \in Swapping \/ (f.pc = "load" /\ f.mode = "transient") => NeedsTransientRecovery(job)
    /\ f.pc \in Cleaning \/ (f.pc = "load" /\ f.mode = "committed") => job.stage = "COMMITTED"
    /\ f.pc \in NoRollback \/ (f.pc = "load" /\ f.mode \notin {"transient", "committed"})
         => rollback[f.attempt] = Absent
    /\ f.pc \in Backed => rollback[f.attempt] = f.original
    /\ f.pc \in {"dropRollback", "dropTemporary", "completeTransient"} => InPlace /\ Settled
    /\ f.pc \in {"markReplaced", "commit"} =>
         /\ f.output # Absent /\ f.output \in {source} \cup overwritten
         /\ source = f.output \/ External(source)

(* Where the recording of the catalogue is, and what lies at the managed     *)
(* path unless the row says that files may be mid-swap.                      *)
Kept == InPlace \/ (NeedsTransientRecovery(job) /\ rollback[job.attempt] = catalog)
Whole == NeedsTransientRecovery(job) \/ Settled

FilesInv == RollbackReachable /\ Kept /\ Whole /\ \A w \in Workers : Fits(w, worker[w])

LEMMA FrameBecomes ==
    ASSUME IInv, NEW w \in Workers, NEW g, Becomes(w, g)
    PROVE  worker'[w] = g /\ \A v \in Workers \ {w} : worker'[v] = worker[v]
  BY DEF IInv, TypeOK, Becomes

(* A worker that neither acts nor owns the row relies on nothing.           *)
LEMMA RestingFits ==
    ASSUME NEW v \in Workers, worker'[v].pc \notin Acting, ~OwnedIn(v, worker[v])'
    PROVE  Fits(v, worker[v])'
  BY DEF Fits, Acting, Swapping, Cleaning, NoRollback, Unmoved, Backed, Steps, ContextSteps, FileSteps

(* Who owns the row is alone with its files.                                *)
LEMMA OthersRest ==
    ASSUME FilesInv, NEW w \in Workers, OwnedIn(w, worker[w]), NEW v \in Workers \ {w}
    PROVE  worker[v].pc \notin Acting /\ ~OwnedIn(v, worker[v])
  BY DEF FilesInv, Fits, OwnedIn

(* A step of the owner only has to look after its own frame.                *)
LEMMA OwnerStep ==
    ASSUME FilesInv, IInv, NEW w \in Workers, OwnedIn(w, worker[w]), NEW g, Becomes(w, g),
           job'.owner \in {w, NoWorker}, Fits(w, worker[w])',
           RollbackReachable', Kept', Whole'
    PROVE  FilesInv'
  <1> SUFFICES ASSUME NEW v \in Workers PROVE Fits(v, worker[v])'
    BY DEF FilesInv
  <1>1. CASE v = w
    BY <1>1
  <1>2. CASE v # w
    <2>1. worker'[v] = worker[v] /\ worker[v].pc \notin Acting
      BY <1>2, FrameBecomes, OthersRest
    <2>2. ~OwnedIn(v, worker[v])'
      BY <1>2, WritebackAssumption DEF OwnedIn
    <2> QED
      BY <2>1, <2>2, RestingFits
  <1> QED
    BY <1>1, <1>2

Still == UNCHANGED <<job, catalog, source, rollback, edits, overwritten>>

(* A step of a worker that changes nothing but its frame (and a temporary   *)
(* file).                                                                   *)
LEMMA StillStep ==
    ASSUME FilesInv, IInv, NEW w \in Workers, NEW g, Becomes(w, g), Still, Fits(w, g)
    PROVE  FilesInv'
  <1>1. worker'[w] = g /\ \A v \in Workers \ {w} : worker'[v] = worker[v]
    BY FrameBecomes
  <1>2. ASSUME NEW v \in Workers PROVE Fits(v, worker[v])'
    <2>1. Fits(v, worker'[v])
      BY <1>1 DEF FilesInv
    <2> QED
      BY <2>1 DEF Fits, OwnedIn, InPlace, Settled, External, NeedsTransientRecovery,
                  NeedsReconciliation, Still
  <1> QED
    BY <1>2 DEF FilesInv, RollbackReachable, Kept, Whole, InPlace, Settled, External,
                NeedsTransientRecovery, NeedsReconciliation, Still

(* A failure leads to the deferred handler or to the settlement.            *)
LEMMA FailureFits ==
    ASSUME IInv, NEW w \in Workers, Fits(w, worker[w]), worker[w].pc \notin {"idle", "settle"},
           NEW code,
           NEW g, g = [worker[w] EXCEPT
                         !.pc = IF worker[w].mode = "fresh" THEN "unwind" ELSE "settle", !.code = code]
    PROVE  Fits(w, g)
  <1>1. /\ g.pc \in {"unwind", "settle"} /\ g.armed = worker[w].armed
        /\ g.attempt = worker[w].attempt /\ g.original = worker[w].original
    BY DEF IInv, TypeOK, FrameType
  <1>2. OwnedIn(w, g) <=> OwnedIn(w, worker[w])
    BY <1>1 DEF OwnedIn
  <1> QED
    BY <1>1, <1>2 DEF Fits, Acting, Swapping, Cleaning, NoRollback, Unmoved, Backed, Steps,
                      ContextSteps, FileSteps

LEMMA StillFails ==
    ASSUME FilesInv, IInv, NEW w \in Workers, NEW code, Fails(w, code), Still,
           worker[w].pc \notin {"idle", "settle"}
    PROVE  FilesInv'
  <1> DEFINE g == [worker[w] EXCEPT
                     !.pc = IF worker[w].mode = "fresh" THEN "unwind" ELSE "settle", !.code = code]
  <1>1. Fits(w, g)
    BY FailureFits DEF FilesInv
  <1>2. Becomes(w, g)
    BY DEF Fails
  <1> QED
    BY <1>1, <1>2, StillStep

LEMMA StillGoto ==
    ASSUME FilesInv, IInv, NEW w \in Workers, NEW pc, Goto(w, pc), Still,
           Fits(w, [worker[w] EXCEPT !.pc = pc])
    PROVE  FilesInv'
  BY StillStep DEF Goto

(* Reading and waiting: nothing changes but the frame.                      *)
LEMMA ReadsFit ==
    ASSUME FilesInv, RowInv, NEW w \in Workers,
           \/ LoadWritebackContext(w) \/ ChecksumSource(w) \/ RemuxMetadata(w) \/ RecheckSource(w)
           \/ ValidateBeforeReplacement(w)
    PROVE  FilesInv'
  <1> DEFINE f == worker[w]
  <1>1. Still /\ f \in FrameType /\ f.pc \notin {"idle", "settle"} /\ Fits(w, f) /\ IInv
    BY DEF LoadWritebackContext, ChecksumSource, RemuxMetadata, RecheckSource,
           ValidateBeforeReplacement, Checks, ReadOnlyStep, dbVars, fileVars, envVars, Still,
           Calls, At, FilesInv, RowInv, IInv, TypeOK
  <1>2. ASSUME NEW code, Fails(w, code) PROVE FilesInv'
    BY <1>1, <1>2, StillFails
  <1>3. ASSUME NEW pc, Goto(w, pc), <<f.pc, pc>> \in
               {<<"checksum", "remux">>, <<"recheck", "markPrepared">>, <<"validate", "moveAside">>}
        PROVE  FilesInv'
    <2> DEFINE g == [f EXCEPT !.pc = pc]
    <2>1. /\ g.pc = pc /\ g.mode = f.mode /\ g.armed = f.armed /\ g.attempt = f.attempt
          /\ g.original = f.original /\ g.output = f.output
      BY <1>1 DEF FrameType
    <2> HIDE DEF g
    <2>2. Fits(w, g)
      BY <1>1, <1>3, <2>1 DEF Fits, OwnedIn, Acting, Swapping, Cleaning, NoRollback, Unmoved, Backed,
                              Steps, ContextSteps, FileSteps
    <2> QED
      BY <1>1, <1>3, <2>2, StillGoto DEF g
  <1>4. CASE LoadWritebackContext(w)
    <2>1. PICK pc \in {"renewCleanup", "renewRecovery", "checksum"} :
             \/ \E code : Fails(w, code)
             \/ /\ Becomes(w, [f EXCEPT !.pc = pc, !.original = job.expected, !.output = job.output])
                /\ pc = "renewCleanup" => f.mode = "committed"
                /\ pc = "renewRecovery" => f.mode = "transient"
                /\ pc = "checksum" => f.mode \notin {"committed", "transient"}
      BY <1>4 DEF LoadWritebackContext
    <2> DEFINE g == [f EXCEPT !.pc = pc, !.original = job.expected, !.output = job.output]
    <2>2. /\ g.pc = pc /\ g.armed = f.armed /\ g.attempt = f.attempt
          /\ g.original = job.expected /\ g.mode = f.mode
      BY <1>1 DEF FrameType
    <2> HIDE DEF g
    <2>3. ASSUME Becomes(w, g), pc = "renewCleanup" => f.mode = "committed",
                 pc = "renewRecovery" => f.mode = "transient",
                 pc = "checksum" => f.mode \notin {"committed", "transient"}
          PROVE  FilesInv'
      <3>1. f.pc = "load"
        BY <1>4 DEF LoadWritebackContext, Calls, At
      <3>2. Fits(w, g)
        BY <1>1, <2>2, <2>3, <3>1
        DEF Fits, OwnedIn, Acting, Swapping, Cleaning, NoRollback, Unmoved, Backed, Steps,
            ContextSteps, FileSteps
      <3> QED
        BY <1>1, <2>3, <3>2, StillStep
    <2> QED
      BY <1>2, <2>1, <2>3 DEF g
  <1>5. CASE ChecksumSource(w) \/ RecheckSource(w) \/ ValidateBeforeReplacement(w)
    BY <1>2, <1>3, <1>5 DEF ChecksumSource, RecheckSource, ValidateBeforeReplacement, Checks, Calls, At
  <1>6. CASE RemuxMetadata(w)
    <2> DEFINE g == [f EXCEPT !.pc = "recheck", !.output = Output(f.attempt)]
    <2>1. /\ g.pc = "recheck" /\ g.armed = f.armed /\ g.attempt = f.attempt
          /\ g.original = f.original /\ g.mode = f.mode
      BY <1>1 DEF FrameType
    <2> HIDE DEF g
    <2>2. f.pc = "remux" /\ (Becomes(w, g) \/ \E code : Fails(w, code))
      BY <1>6 DEF RemuxMetadata, Calls, At, g
    <2>3. Fits(w, g)
      BY <1>1, <2>1, <2>2 DEF Fits, OwnedIn, Acting, Swapping, Cleaning, NoRollback, Unmoved, Backed,
                              Steps, ContextSteps, FileSteps
    <2> QED
      BY <1>1, <1>2, <2>2, <2>3, StillStep
  <1> QED
    BY <1>4, <1>5, <1>6

(* The owner of an open row was given what the catalogue records.           *)
LEMMA OriginalIsRecorded ==
    ASSUME RowInv, NEW w \in Workers, Fits(w, worker[w]), worker[w].pc \in Swapping
    PROVE  worker[w].original = catalog /\ OwnedIn(w, worker[w]) /\ NeedsTransientRecovery(job)
           /\ job.attempt = worker[w].attempt /\ worker[w].attempt \in AttemptIds
  <1>1. OwnedIn(w, worker[w]) /\ NeedsTransientRecovery(job) /\ worker[w].original = job.expected
    BY DEF Fits, Swapping, Acting
  <1>2. catalog = job.expected
    BY <1>1 DEF RowInv, CatalogFollowsJob, NeedsTransientRecovery, OwnedIn, Active
  <1>3. worker[w].pc # "idle" /\ worker[w].attempt \in AttemptIds
    BY DEF Swapping, Acting, RowInv, IInv, TypeOK, FrameType, OwnerIsCurrent
  <1> QED
    BY <1>1, <1>2, <1>3 DEF OwnedIn

(* A frame that keeps what its attempt is about.                            *)
Continues(f, g) ==
    /\ g.mode = f.mode /\ (g.armed <=> f.armed) /\ g.attempt = f.attempt
    /\ g.original = f.original /\ g.output = f.output

LEMMA GotoContinues ==
    ASSUME IInv, NEW w \in Workers, NEW pc, NEW g, g = [worker[w] EXCEPT !.pc = pc]
    PROVE  Continues(worker[w], g) /\ g.pc = pc
  BY DEF IInv, TypeOK, FrameType, Continues

(* What a recovery makes of the files, and the deferred handler of the row. *)
LEMMA RecoverySteps ==
    ASSUME NEW w \in Workers
    PROVE  \/ RecoveryStep(w) = "settle"
           \/ RecoveryStep(w) = "dropTemporary" /\ Rollback(w) = Absent /\ source = worker[w].original
           \/ RecoveryStep(w) = "recoverMissing" /\ Rollback(w) = worker[w].original
           \/ RecoveryStep(w) = "dropRollback" /\ source = worker[w].original
           \/ RecoveryStep(w) = "inspectRestore"
  <1>1. CASE Rollback(w) = Absent /\ source = worker[w].original
    BY <1>1 DEF RecoveryStep
  <1>2. CASE Rollback(w) # worker[w].original /\ ~(Rollback(w) = Absent /\ source = worker[w].original)
    BY <1>2 DEF RecoveryStep
  <1>3. CASE Rollback(w) = worker[w].original /\ ~(Rollback(w) = Absent /\ source = worker[w].original)
    <2>1. CASE source = Absent
      BY <1>3, <2>1 DEF RecoveryStep
    <2>2. CASE source # Absent /\ source = worker[w].original
      BY <1>3, <2>2 DEF RecoveryStep
    <2>3. CASE source # Absent /\ source # worker[w].original /\ source = worker[w].output
      BY <1>3, <2>3 DEF RecoveryStep
    <2>4. CASE source # Absent /\ source # worker[w].original /\ source # worker[w].output
      BY <1>3, <2>4 DEF RecoveryStep
    <2> QED
      BY <2>1, <2>2, <2>3, <2>4
  <1> QED
    BY <1>1, <1>2, <1>3

LEMMA FindSteps ==
    ASSUME NEW w \in Workers, FindWriteback(w)
    PROVE  \/ Goto(w, "settle")
           \/ Goto(w, "renewCleanup") /\ Owns(w) /\ job.stage = "COMMITTED"
           \/ Goto(w, "renewRestore") /\ Owns(w) /\ NeedsTransientRecovery(job)
  <1>1. CASE ~Owns(w)
    BY <1>1 DEF FindWriteback
  <1>2. CASE Owns(w) /\ job.stage = "COMMITTED" /\ job.output = worker[w].output
    BY <1>2 DEF FindWriteback
  <1>3. CASE Owns(w) /\ ~(job.stage = "COMMITTED" /\ job.output = worker[w].output)
    <2>1. CASE NeedsTransientRecovery(job)
      BY <1>3, <2>1 DEF FindWriteback
    <2>2. CASE ~NeedsTransientRecovery(job)
      BY <1>3, <2>2 DEF FindWriteback
    <2> QED
      BY <2>1, <2>2
  <1> QED
    BY <1>1, <1>2, <1>3

(* The steps that look at the files of the swap and of its undo.            *)
LEMMA InspectionsFit ==
    ASSUME FilesInv, RowInv, NEW w \in Workers,
           \/ VerifyInstalled(w) \/ InspectRestore(w) \/ InspectRecovery(w) \/ VerifyMissing(w)
           \/ InspectCleanup(w) \/ DropTemporary(w) \/ FindWriteback(w)
    PROVE  FilesInv'
  <1> DEFINE f == worker[w]
  <1>1. Still /\ f \in FrameType /\ f.pc \notin {"idle", "settle"} /\ Fits(w, f) /\ IInv
    BY DEF VerifyInstalled, InspectRestore, InspectRecovery, VerifyMissing, InspectCleanup,
           DropTemporary, FindWriteback, Checks, ReadOnlyStep, DatabaseUntouched, dbVars, fileVars,
           envVars, Still, At, FilesInv, RowInv, IInv, TypeOK
  <1>2. ASSUME NEW code, Fails(w, code) PROVE FilesInv'
    BY <1>1, <1>2, StillFails
  <1>3. ASSUME NEW pc, Goto(w, pc),
               ASSUME NEW g, Continues(f, g), g.pc = pc PROVE Fits(w, g)
        PROVE  FilesInv'
    <2> DEFINE g == [f EXCEPT !.pc = pc]
    <2>1. Continues(f, g) /\ g.pc = pc
      BY <1>1, GotoContinues
    <2> HIDE DEF g
    <2>2. Fits(w, g)
      BY <1>3, <2>1
    <2> QED
      BY <1>1, <1>3, <2>2, StillGoto DEF g
  <1> HIDE DEF f
  <1> USE DEF Continues, Fits, OwnedIn, Acting, Swapping, Cleaning, NoRollback, Unmoved, Backed, Steps,
              ContextSteps, FileSteps
  <1>4. CASE VerifyInstalled(w)
    <2>1. f.pc = "verifyInstalled" /\ f.output # Absent
      BY <1>1, <1>4 DEF VerifyInstalled, At, f, IInv, OwnerIsCurrent, Remuxed, EarlySteps
    <2>2. CASE Goto(w, "markReplaced") /\ source = f.output
      BY <1>1, <1>3, <2>1, <2>2
    <2> QED
      BY <1>2, <1>4, <2>2 DEF VerifyInstalled, Checks, f
  <1>5. CASE InspectRestore(w)
    <2>1. CASE Goto(w, IF source = Absent THEN "restoreMissing" ELSE "stageOutput") /\ Rollback(w) = f.original
      <3>1. f.pc = "inspectRestore" /\ Rollback(w) = rollback[f.attempt]
        BY <1>5 DEF InspectRestore, At, f, Rollback
      <3>2. CASE Goto(w, "restoreMissing")
        <4>1. ASSUME NEW g, Continues(f, g), g.pc = "restoreMissing" PROVE Fits(w, g)
          BY <1>1, <2>1, <3>1, <4>1
        <4> QED
          BY <1>3, <3>2, <4>1
      <3>3. CASE Goto(w, "stageOutput")
        <4>1. ASSUME NEW g, Continues(f, g), g.pc = "stageOutput" PROVE Fits(w, g)
          BY <1>1, <2>1, <3>1, <4>1
        <4> QED
          BY <1>3, <3>3, <4>1
      <3> QED
        BY <2>1, <3>2, <3>3
    <2> QED
      BY <1>2, <1>5, <2>1 DEF InspectRestore, f
  <1>6. CASE InspectRecovery(w)
    <2>1. f.pc = "inspectRecovery" /\ Rollback(w) = rollback[f.attempt]
      BY <1>6 DEF InspectRecovery, At, f, Rollback
    <2>2. f.original = catalog
      BY <1>1, <2>1, OriginalIsRecorded DEF f
    <2>3. CASE Goto(w, "dropTemporary") /\ Rollback(w) = Absent /\ source = f.original
      BY <1>1, <1>3, <2>1, <2>2, <2>3 DEF InPlace, Settled
    <2>4. CASE Goto(w, "recoverMissing") /\ Rollback(w) = f.original
      <3>1. ASSUME NEW g, Continues(f, g), g.pc = "recoverMissing" PROVE Fits(w, g)
        BY <1>1, <2>1, <2>4, <3>1
      <3> QED
        BY <1>3, <2>4, <3>1
    <2>5. CASE Goto(w, "dropRollback") /\ source = f.original
      BY <1>1, <1>3, <2>1, <2>2, <2>5 DEF InPlace, Settled
    <2>6. CASE Goto(w, "inspectRestore")
      BY <1>1, <1>3, <2>1, <2>6
    <2>7. CASE RecoveryStep(w) = "settle"
      BY <1>2, <1>6, <2>7 DEF InspectRecovery
    <2>8. CASE RecoveryStep(w) # "settle"
      <3>1. Goto(w, RecoveryStep(w))
        BY <1>6, <2>8 DEF InspectRecovery
      <3>3. CASE RecoveryStep(w) = "dropTemporary"
        BY <2>3, <2>8, <3>1, <3>3, RecoverySteps DEF f
      <3>4. CASE RecoveryStep(w) = "recoverMissing"
        BY <2>4, <2>8, <3>1, <3>4, RecoverySteps DEF f
      <3>5. CASE RecoveryStep(w) = "dropRollback"
        BY <2>5, <2>8, <3>1, <3>5, RecoverySteps DEF f
      <3>6. CASE RecoveryStep(w) = "inspectRestore"
        BY <2>6, <3>1, <3>6
      <3> QED
        BY <2>8, <3>3, <3>4, <3>5, <3>6, RecoverySteps
    <2> QED
      BY <2>7, <2>8
  <1>7. CASE VerifyMissing(w)
    <2>1. f.pc = "verifyMissing"
      BY <1>7 DEF VerifyMissing, At, f
    <2>2. f.original = catalog
      BY <1>1, <2>1, OriginalIsRecorded DEF f
    <2>3. CASE Goto(w, "dropTemporary") /\ source = f.original
      BY <1>1, <1>3, <2>1, <2>2, <2>3 DEF InPlace, Settled
    <2> QED
      BY <1>2, <1>7, <2>3 DEF VerifyMissing, Checks, f
  <1>8. CASE InspectCleanup(w)
    <2>1. f.pc = "inspectCleanup" /\ Rollback(w) = rollback[f.attempt]
      BY <1>8 DEF InspectCleanup, At, f, Rollback
    <2>2. CASE Goto(w, "dropTemporaryCommitted") /\ Rollback(w) = Absent
      BY <1>1, <1>3, <2>1, <2>2
    <2>3. CASE Goto(w, "removeRollback")
      BY <1>1, <1>3, <2>1, <2>3
    <2> QED
      BY <1>2, <1>8, <2>2, <2>3 DEF InspectCleanup, Checks, f
  <1>9. CASE DropTemporary(w)
    <2>1. CASE f.pc = "dropTemporary" /\ Goto(w, "completeTransient")
      BY <1>1, <1>3, <2>1
    <2>2. CASE f.pc = "dropTemporaryCommitted" /\ Goto(w, "completeCommitted")
      BY <1>1, <1>3, <2>2
    <2> QED
      BY <1>9, <2>1, <2>2 DEF DropTemporary, At, f
  <1>10. CASE FindWriteback(w)
    <2>1. f.pc = "findState" /\ (Owns(w) <=> OwnedIn(w, f))
      BY <1>10 DEF FindWriteback, At, f, Owns
    <2>2. CASE Goto(w, "settle")
      BY <1>1, <1>3, <2>2
    <2>3. CASE Goto(w, "renewCleanup") /\ Owns(w) /\ job.stage = "COMMITTED"
      BY <1>1, <1>3, <2>1, <2>3
    <2>4. CASE Goto(w, "renewRestore") /\ Owns(w) /\ NeedsTransientRecovery(job)
      BY <1>1, <1>3, <2>1, <2>4
    <2> QED
      BY <1>10, <2>2, <2>3, <2>4, FindSteps
  <1> QED
    BY <1>4, <1>5, <1>6, <1>7, <1>8, <1>9, <1>10

(* The frame changes, the rest stays: the checks after a rename, the start   *)
(* of the deferred handler, failed calls, a cancelled context and a crash.   *)
LEMMA FramesFit ==
    ASSUME FilesInv, RowInv, NEW w \in Workers,
           \/ VerifyAside(w) \/ SyncInstalled(w) \/ UnwindAttempt(w) \/ StoppedCall(w)
           \/ CallFails(w) \/ FindWritebackFails(w) \/ SettleFails(w) \/ Crash(w)
           \/ WorkerStops(w) \/ CancellationPoll(w) \/ HeartbeatLosesLease(w)
    PROVE  FilesInv'
  <1> DEFINE f == worker[w]
  <1>1. Still /\ f \in FrameType /\ Fits(w, f) /\ IInv
    BY DEF VerifyAside, SyncInstalled, UnwindAttempt, StoppedCall, CallFails, FindWritebackFails,
           SettleFails, Crash, WorkerStops, CancellationPoll, HeartbeatLosesLease, StopContext,
           ReadOnlyStep, DatabaseUntouched, dbVars, fileVars, envVars, Still, FilesInv, RowInv,
           IInv, TypeOK
  <1>2. ASSUME NEW g, Becomes(w, g), Fits(w, g) PROVE FilesInv'
    BY <1>1, <1>2, StillStep
  <1>3. ASSUME NEW code, Fails(w, code), f.pc \notin {"idle", "settle"} PROVE FilesInv'
    BY <1>1, <1>3, StillFails
  <1>4. CASE VerifyAside(w) \/ SyncInstalled(w)
    <2>1. f.pc \in Swapping /\ f.pc = (IF VerifyAside(w) THEN "verifyAside" ELSE "syncInstalled")
      BY <1>4 DEF VerifyAside, SyncInstalled, At, Swapping, Acting, Cleaning, Steps, ContextSteps, FileSteps
    <2>2. f.original = job.expected
      BY <1>1, <2>1 DEF Fits, Swapping, Acting
    <2>3. ASSUME NEW g, Becomes(w, g), g.attempt = f.attempt, g.original = f.original,
                 g.pc \in {"install", "discard", "putBack", "putBackOrFail", "unwind", "verifyInstalled"},
                 g.pc \in {"install", "discard"} => rollback[f.attempt] = f.original
          PROVE  FilesInv'
      <3>1. Fits(w, g)
        BY <1>1, <2>1, <2>2, <2>3 DEF Fits, OwnedIn, Acting, Swapping, Cleaning, NoRollback, Unmoved,
                                      Backed, Steps, ContextSteps, FileSteps
      <3> QED
        BY <1>2, <2>3, <3>1
    <2>4. ASSUME NEW pc \in {"install", "discard", "putBack", "putBackOrFail", "unwind", "verifyInstalled"},
                 NEW code, NEW armed,
                 Becomes(w, [f EXCEPT !.pc = pc, !.code = code, !.armed = armed]),
                 pc \in {"install", "discard"} => rollback[f.attempt] = f.original
          PROVE  FilesInv'
      BY <1>1, <2>3, <2>4 DEF FrameType
    <2>5. CASE VerifyAside(w)
      <3>1. PICK pc \in {"install", "putBack", "putBackOrFail", "unwind"} :
                 /\ \E code, armed : Becomes(w, [f EXCEPT !.pc = pc, !.code = code, !.armed = armed])
                 /\ pc = "install" => Rollback(w) = f.original
        <4>1. CASE Rollback(w) = f.original /\ source = Absent /\ Goto(w, "install")
          <5>1. [f EXCEPT !.pc = "install"] = [f EXCEPT !.pc = "install", !.code = f.code, !.armed = f.armed]
            BY <1>1 DEF FrameType
          <5> QED
            BY <4>1, <5>1 DEF Goto
        <4>2. CASE Becomes(w, [f EXCEPT !.pc = IF Rollback(w) = f.original THEN "unwind" ELSE "putBackOrFail",
                                        !.code = "terminal", !.armed = (Rollback(w) = f.original)])
          BY <4>2
        <4>3. CASE PutsBack(w)
          <5>1. [f EXCEPT !.pc = "putBack", !.code = "retryable"]
                = [f EXCEPT !.pc = "putBack", !.code = "retryable", !.armed = f.armed]
            BY <1>1 DEF FrameType
          <5> QED
            BY <4>3, <5>1 DEF PutsBack
        <4> QED
          BY <2>5, <4>1, <4>2, <4>3 DEF VerifyAside
      <3> QED
        BY <2>4, <3>1 DEF Rollback
    <2>6. CASE SyncInstalled(w)
      <3>1. f.pc = "syncInstalled" /\ rollback[f.attempt] = f.original
        BY <1>1, <2>6 DEF SyncInstalled, At, Fits, Backed
      <3>2. PICK pc \in {"verifyInstalled", "discard"} :
                 \E code, armed : Becomes(w, [f EXCEPT !.pc = pc, !.code = code, !.armed = armed])
        <4>1. [f EXCEPT !.pc = "verifyInstalled", !.armed = TRUE]
              = [f EXCEPT !.pc = "verifyInstalled", !.code = f.code, !.armed = TRUE]
          BY <1>1 DEF FrameType
        <4>2. [f EXCEPT !.pc = "discard", !.code = "retryable"]
              = [f EXCEPT !.pc = "discard", !.code = "retryable", !.armed = f.armed]
          BY <1>1 DEF FrameType
        <4> QED
          BY <2>6, <4>1, <4>2 DEF SyncInstalled
      <3> QED
        BY <2>4, <3>1, <3>2
    <2> QED
      BY <1>4, <2>5, <2>6
  <1>5. CASE UnwindAttempt(w) \/ FindWritebackFails(w)
    <2>1. PICK pc \in {"findState", "settle"}, mode \in {f.mode, "deferred"} :
             /\ Becomes(w, [f EXCEPT !.pc = pc, !.mode = mode])
             /\ pc = "findState" => f.armed
             /\ f.pc \in {"unwind", "findState"}
      <3>1. [f EXCEPT !.pc = "settle"] = [f EXCEPT !.pc = "settle", !.mode = f.mode]
        BY <1>1 DEF FrameType
      <3> QED
        BY <1>5, <3>1 DEF UnwindAttempt, Unwinds, FindWritebackFails, Goto, At
    <2> DEFINE g == [f EXCEPT !.pc = pc, !.mode = mode]
    <2>2. g.pc = pc /\ g.attempt = f.attempt /\ g.original = f.original /\ (g.armed <=> f.armed)
      BY <1>1 DEF FrameType
    <2> HIDE DEF g
    <2>3. Fits(w, g)
      BY <1>1, <2>1, <2>2 DEF Fits, OwnedIn, Acting, Swapping, Cleaning, NoRollback, Unmoved, Backed,
                              Steps, ContextSteps, FileSteps
    <2> QED
      BY <1>2, <2>1, <2>3 DEF g
  <1>6. CASE StoppedCall(w) \/ CallFails(w)
    BY <1>3, <1>6 DEF StoppedCall, CallFails, Calls, At, ContextSteps, FileSteps
  <1>7. CASE SettleFails(w) \/ Crash(w)
    <2>1. Fits(w, IdleFrame)
      BY DEF Fits, OwnedIn, IdleFrame, Acting, Swapping, Cleaning, NoRollback, Unmoved, Backed, Steps,
             ContextSteps, FileSteps
    <2> QED
      BY <1>2, <1>7, <2>1 DEF SettleFails, Crash, Ends
  <1>8. CASE WorkerStops(w) \/ CancellationPoll(w) \/ HeartbeatLosesLease(w)
    <2> DEFINE g == [f EXCEPT !.stopped = TRUE]
    <2>1. Becomes(w, g)
      BY <1>8 DEF WorkerStops, CancellationPoll, HeartbeatLosesLease, StopContext
    <2>2. Continues(f, g) /\ g.pc = f.pc
      BY <1>1 DEF FrameType, Continues
    <2> HIDE DEF g
    <2>3. Fits(w, g)
      BY <1>1, <2>2 DEF Fits, OwnedIn, Continues
    <2> QED
      BY <1>2, <2>1, <2>3
  <1> QED
    BY <1>4, <1>5, <1>6, <1>7, <1>8

(* A rename of a worker that is mid-swap: the row says that files may be     *)
(* mid-swap, so all that counts is where the recording is afterwards.        *)
LEMMA MoveFits ==
    ASSUME FilesInv, RowInv, NEW w \in Workers, worker[w].pc \in Swapping,
           UNCHANGED <<job, catalog, edits, overwritten>>,
           rollback' = rollback \/ \E content : SetRollback(w, content),
           InPlace' \/ rollback'[worker[w].attempt] = catalog,
           NEW g, Becomes(w, g), g.attempt = worker[w].attempt, g.original = worker[w].original,
           g.pc \in (Swapping \ {"markReplaced", "commit"}) \cup {"unwind", "settle"},
           g.pc \in NoRollback => rollback'[g.attempt] = Absent,
           g.pc \in Backed => rollback'[g.attempt] = g.original,
           g.pc \in {"dropRollback", "dropTemporary", "completeTransient"} => InPlace' /\ Settled'
    PROVE  FilesInv'
  <1> DEFINE f == worker[w]
             a == worker[w].attempt
  <1>1. /\ f.original = catalog /\ OwnedIn(w, f) /\ NeedsTransientRecovery(job)
        /\ job.attempt = a /\ a \in AttemptIds /\ Fits(w, f) /\ IInv /\ f.original = job.expected
    BY OriginalIsRecorded DEF FilesInv, RowInv, Fits, Swapping, Acting
  <1>2. job.lease = "live" /\ f.pc \notin {"load", "idle", "settle"}
    BY <1>1 DEF Fits, Swapping, Acting, Cleaning
  <1>3. worker'[w] = g
    BY <1>1, FrameBecomes
  <1>4. \A b \in AttemptIds \ {a} : rollback'[b] = rollback[b]
    BY <1>1 DEF SetRollback, IInv, TypeOK
  <1>5. RollbackReachable'
    BY <1>1, <1>4 DEF FilesInv, RollbackReachable, NeedsTransientRecovery, NeedsReconciliation
  <1>6. Kept' /\ Whole'
    BY <1>1 DEF Kept, Whole, NeedsTransientRecovery, NeedsReconciliation
  <1>7. Fits(w, worker[w])'
    <2>1. /\ OwnedIn(w, g)' /\ NeedsTransientRecovery(job)' /\ job'.lease = "live"
          /\ g.original = job'.expected
      BY <1>1, <1>2 DEF OwnedIn, NeedsTransientRecovery, NeedsReconciliation
    <2>2. g.pc \notin {"markReplaced", "commit", "load"} \cup Cleaning
      BY DEF Swapping, Cleaning
    <2> QED
      BY <1>3, <2>1, <2>2 DEF Fits
  <1>8. job'.owner = w
    BY <1>1 DEF OwnedIn
  <1> QED
    BY <1>1, <1>5, <1>6, <1>7, <1>8, OwnerStep

(* The renames of the swap, of its undo and of a recovery.                   *)
LEMMA MovesFit ==
    ASSUME FilesInv, RowInv, NEW w \in Workers,
           \/ MoveSourceAside(w) \/ InstallOutput(w) \/ DiscardInstalled(w) \/ PutBack(w)
           \/ RestoreMissing(w) \/ StageOutput(w) \/ RestoreOriginal(w) \/ VerifyRestored(w)
           \/ RestoreOutput(w) \/ DropRollback(w)
    PROVE  FilesInv'
  <1> DEFINE f == worker[w]
             a == worker[w].attempt
  <1>1. /\ UNCHANGED <<job, catalog, edits, overwritten>> /\ f \in FrameType /\ Fits(w, f) /\ IInv
        /\ f.pc \in {"moveAside", "install", "discard", "putBack", "putBackOrFail", "restoreMissing",
                     "recoverMissing", "stageOutput", "restoreOriginal", "verifyRestored",
                     "restoreOutput", "dropRollback"}
    BY DEF MoveSourceAside, InstallOutput, DiscardInstalled, PutBack, RestoreMissing, StageOutput,
           RestoreOriginal, VerifyRestored, RestoreOutput, DropRollback, At, DatabaseUntouched, dbVars,
           envVars, FilesInv, RowInv, IInv, TypeOK
  <1>2. f.pc \in Swapping
    BY <1>1 DEF Swapping, Acting, Cleaning, Steps, ContextSteps, FileSteps
  <1>3. f.original = catalog /\ a \in AttemptIds /\ job.attempt = a /\ catalog # Absent
        /\ rollback \in [AttemptIds -> Content]
    BY <1>1, <1>2, OriginalIsRecorded DEF RowInv, IInv, TypeOK
  <1>4. InPlace \/ rollback[a] = catalog
    BY <1>3 DEF FilesInv, Kept
  <1>5. /\ f.pc \in {"moveAside", "verifyRestored"} => rollback[a] = Absent
        /\ f.pc \in {"install", "discard", "restoreMissing", "recoverMissing", "stageOutput",
                     "restoreOriginal"} => rollback[a] = catalog
        /\ f.pc = "dropRollback" => InPlace /\ Settled
    BY <1>1, <1>3 DEF Fits, NoRollback, Unmoved, Backed
  <1>6. ASSUME rollback' = rollback \/ \E content : SetRollback(w, content),
               InPlace' \/ rollback'[a] = catalog,
               NEW pc, NEW code, NEW armed,
               Becomes(w, [f EXCEPT !.pc = pc, !.code = code, !.armed = armed]),
               \/ pc \in {"unwind", "settle", "verifyAside", "putBack", "putBackOrFail", "restoreOutput"}
               \/ pc \in {"syncInstalled", "restoreOriginal"} /\ rollback'[a] = catalog
               \/ pc \in {"verifyMissing", "verifyRestored"} /\ rollback'[a] = Absent
               \/ pc = "dropTemporary" /\ rollback'[a] = Absent /\ InPlace' /\ Settled'
        PROVE  FilesInv'
    <2> DEFINE g == [f EXCEPT !.pc = pc, !.code = code, !.armed = armed]
    <2>1. g.pc = pc /\ g.attempt = a /\ g.original = catalog /\ Becomes(w, g)
      BY <1>1, <1>3, <1>6 DEF FrameType
    <2> HIDE DEF g
    <2>2. /\ g.pc \in (Swapping \ {"markReplaced", "commit"}) \cup {"unwind", "settle"}
          /\ g.pc \in NoRollback => pc \in {"verifyMissing", "verifyRestored", "dropTemporary"}
          /\ g.pc \in Backed => pc \in {"syncInstalled", "restoreOriginal"}
          /\ g.pc \in {"dropRollback", "dropTemporary", "completeTransient"} => pc = "dropTemporary"
      BY <1>6, <2>1 DEF Swapping, Acting, Cleaning, NoRollback, Unmoved, Backed, Steps, ContextSteps, FileSteps
    <2>3. /\ g.pc \in NoRollback => rollback'[g.attempt] = Absent
          /\ g.pc \in Backed => rollback'[g.attempt] = g.original
          /\ g.pc \in {"dropRollback", "dropTemporary", "completeTransient"} => InPlace' /\ Settled'
      BY <1>6, <2>1, <2>2
    <2> QED
      BY <1>1, <1>2, <1>3, <1>6, <2>1, <2>2, <2>3, MoveFits
  <1>7. /\ \A pc : [f EXCEPT !.pc = pc] = [f EXCEPT !.pc = pc, !.code = f.code, !.armed = f.armed]
        /\ \A pc, code : [f EXCEPT !.pc = pc, !.code = code]
                         = [f EXCEPT !.pc = pc, !.code = code, !.armed = f.armed]
        /\ \A pc, armed : [f EXCEPT !.pc = pc, !.armed = armed]
                         = [f EXCEPT !.pc = pc, !.code = f.code, !.armed = armed]
    BY <1>1 DEF FrameType
  <1>8. ASSUME NEW code, Fails(w, code)
        PROVE  \E pc \in {"unwind", "settle"} :
                  Becomes(w, [f EXCEPT !.pc = pc, !.code = code, !.armed = f.armed])
    BY <1>7, <1>8 DEF Fails
  <1>9. ASSUME NEW pc, Goto(w, pc)
        PROVE  Becomes(w, [f EXCEPT !.pc = pc, !.code = f.code, !.armed = f.armed])
    BY <1>7, <1>9 DEF Goto
  <1>10. ASSUME NEW content, SetRollback(w, content) PROVE rollback'[a] = content
    BY <1>3, <1>10 DEF SetRollback
  <1> HIDE DEF f, a
  <1>11. a = worker[w].attempt /\ f = worker[w] /\ Rollback(w) = rollback[a]
         /\ \A pc : At(w, pc) <=> f.pc = pc
    BY DEF Rollback, At, a, f
  <1>12. InPlace /\ source' = source => InPlace'
    BY <1>1 DEF InPlace
  <1>13. catalog \in {source'} \cup overwritten => InPlace'
    BY <1>1 DEF InPlace
  <1>14. source' = catalog => InPlace' /\ Settled'
    BY <1>1 DEF InPlace, Settled
  <1>15. CASE MoveSourceAside(w)
    <2>1. rollback[a] = Absent /\ catalog \in {source} \cup overwritten
      BY <1>3, <1>4, <1>5, <1>11, <1>15 DEF MoveSourceAside, InPlace
    <2>2. CASE source' = Absent /\ SetRollback(w, source) /\ Goto(w, "verifyAside")
      BY <1>6, <1>9, <1>10, <1>13, <2>1, <2>2
    <2>3. CASE SetRollback(w, Absent) /\ Fails(w, "retryable") /\ UNCHANGED source
      BY <1>6, <1>8, <1>13, <2>1, <2>3
    <2> QED
      BY <1>15, <2>2, <2>3 DEF MoveSourceAside
  <1>16. CASE InstallOutput(w)
    <2>1. rollback' = rollback /\ rollback[a] = catalog
      BY <1>5, <1>11, <1>16 DEF InstallOutput
    <2>2. CASE Goto(w, "syncInstalled")
      BY <1>6, <1>9, <2>1, <2>2
    <2>3. CASE PutsBack(w)
      <3>1. Becomes(w, [f EXCEPT !.pc = "putBack", !.code = "retryable", !.armed = f.armed])
        BY <1>7, <1>11, <2>3 DEF PutsBack
      <3> QED
        BY <1>6, <2>1, <3>1
    <2> QED
      BY <1>16, <2>2, <2>3 DEF InstallOutput
  <1>17. CASE DiscardInstalled(w)
    <2>1. rollback' = rollback /\ rollback[a] = catalog /\ Goto(w, "putBackOrFail")
      BY <1>5, <1>11, <1>17 DEF DiscardInstalled
    <2> QED
      BY <1>6, <1>9, <2>1
  <1>18. CASE PutBack(w)
    <2>1. CASE /\ source = Absent /\ source' = rollback[a] /\ SetRollback(w, Absent)
               /\ Becomes(w, [f EXCEPT !.pc = "unwind", !.armed = FALSE])
      <3>1. InPlace'
        BY <1>3, <1>4, <1>13, <2>1 DEF InPlace
      <3>2. Becomes(w, [f EXCEPT !.pc = "unwind", !.code = f.code, !.armed = FALSE])
        BY <1>7, <2>1
      <3> QED
        BY <1>6, <2>1, <3>1, <3>2
    <2>2. CASE UNCHANGED <<source, rollback>>
               /\ \E code, armed : Becomes(w, [f EXCEPT !.pc = "unwind", !.code = code, !.armed = armed])
      <3>1. InPlace' \/ rollback'[a] = catalog
        BY <1>4, <1>12, <2>2
      <3> QED
        BY <1>6, <2>2, <3>1
    <2>3. ASSUME NEW armed, Becomes(w, [f EXCEPT !.pc = "unwind", !.armed = armed,
                              !.code = IF At(w, "putBackOrFail") THEN "rollbackFailed" ELSE @])
          PROVE  \E code : Becomes(w, [f EXCEPT !.pc = "unwind", !.code = code, !.armed = armed])
      <3>1. [f EXCEPT !.pc = "unwind", !.armed = armed,
                      !.code = IF At(w, "putBackOrFail") THEN "rollbackFailed" ELSE @]
            = [f EXCEPT !.pc = "unwind", !.armed = armed,
                        !.code = IF At(w, "putBackOrFail") THEN "rollbackFailed" ELSE f.code]
        BY <1>1 DEF FrameType
      <3>2. \A code : [f EXCEPT !.pc = "unwind", !.armed = armed, !.code = code]
                      = [f EXCEPT !.pc = "unwind", !.code = code, !.armed = armed]
        BY <1>1 DEF FrameType
      <3> QED
        BY <2>3, <3>1, <3>2
    <2> QED
      BY <1>11, <1>18, <2>1, <2>2, <2>3 DEF PutBack
  <1>19. CASE RestoreMissing(w)
    <2>1. rollback[a] = catalog /\ f.pc \in {"restoreMissing", "recoverMissing"}
      BY <1>5, <1>11, <1>19 DEF RestoreMissing
    <2>2. CASE source' = rollback[a] /\ SetRollback(w, Absent)
               /\ Goto(w, IF At(w, "restoreMissing") THEN "dropTemporary" ELSE "verifyMissing")
      <3>1. PICK pc \in {"dropTemporary", "verifyMissing"} : Goto(w, pc)
        BY <2>2
      <3> QED
        BY <1>6, <1>9, <1>10, <1>14, <2>1, <2>2, <3>1
    <2>3. CASE Fails(w, "rollbackFailed") /\ UNCHANGED <<source, rollback>>
      BY <1>6, <1>8, <2>1, <2>3
    <2> QED
      BY <1>11, <1>19, <2>2, <2>3 DEF RestoreMissing
  <1>20. CASE StageOutput(w)
    <2>1. rollback' = rollback /\ rollback[a] = catalog
      BY <1>5, <1>11, <1>20 DEF StageOutput
    <2>2. CASE Goto(w, "restoreOriginal")
      BY <1>6, <1>9, <2>1, <2>2
    <2>3. CASE Fails(w, "rollbackFailed")
      BY <1>6, <1>8, <2>1, <2>3
    <2> QED
      BY <1>20, <2>2, <2>3 DEF StageOutput
  <1>21. CASE RestoreOriginal(w)
    <2>1. rollback[a] = catalog
      BY <1>5, <1>11, <1>21 DEF RestoreOriginal
    <2>2. CASE source' = rollback[a] /\ SetRollback(w, Absent) /\ Goto(w, "verifyRestored")
      BY <1>6, <1>9, <1>10, <1>14, <2>1, <2>2
    <2>3. CASE Goto(w, "restoreOutput") /\ UNCHANGED <<source, rollback>>
      BY <1>6, <1>9, <2>1, <2>3
    <2> QED
      BY <1>11, <1>21, <2>2, <2>3 DEF RestoreOriginal
  <1>22. CASE VerifyRestored(w)
    <2>1. rollback[a] = Absent /\ InPlace
      BY <1>3, <1>4, <1>5, <1>11, <1>22 DEF VerifyRestored
    <2>2. CASE source = catalog /\ Goto(w, "dropTemporary") /\ UNCHANGED <<source, rollback>>
      BY <1>6, <1>9, <1>14, <2>1, <2>2
    <2>3. CASE source # catalog /\ source' = Absent /\ SetRollback(w, source) /\ Goto(w, "restoreOutput")
      <3>1. InPlace'
        BY <1>13, <2>1, <2>3 DEF InPlace
      <3> QED
        BY <1>6, <1>9, <2>3, <3>1
    <2>4. CASE Fails(w, "rollbackFailed") /\ UNCHANGED <<source, rollback>>
      BY <1>6, <1>8, <1>12, <2>1, <2>4
    <2> QED
      BY <1>3, <1>11, <1>22, <2>2, <2>3, <2>4 DEF VerifyRestored
  <1>23. CASE RestoreOutput(w)
    <2>1. Fails(w, "rollbackFailed") /\ rollback' = rollback /\ (source = Absent \/ source' = source)
      BY <1>23 DEF RestoreOutput
    <2>2. InPlace' \/ rollback'[a] = catalog
      BY <1>3, <1>4, <1>12, <1>13, <2>1 DEF InPlace
    <2> QED
      BY <1>6, <1>8, <2>1, <2>2
  <1>24. CASE DropRollback(w)
    <2>1. SetRollback(w, Absent) /\ Goto(w, "dropTemporary") /\ source' = source /\ InPlace /\ Settled
      BY <1>5, <1>11, <1>24 DEF DropRollback
    <2>2. InPlace' /\ Settled'
      BY <1>1, <2>1 DEF InPlace, Settled, External
    <2> QED
      BY <1>6, <1>9, <1>10, <2>1, <2>2
  <1> QED
    BY <1>15, <1>16, <1>17, <1>18, <1>19, <1>20, <1>21, <1>22, <1>23, <1>24

(* The rollback goes only after the commit.                                  *)
LEMMA RemovalFits ==
    ASSUME FilesInv, RowInv, NEW w \in Workers, RemoveReplacementRollback(w)
    PROVE  FilesInv'
  <1> DEFINE f == worker[w]
             a == worker[w].attempt
  <1>1. /\ UNCHANGED <<job, catalog, source, edits, overwritten>> /\ f \in FrameType /\ Fits(w, f) /\ IInv
        /\ f.pc = "removeRollback" /\ SetRollback(w, Absent)
    BY DEF RemoveReplacementRollback, At, DatabaseUntouched, dbVars, envVars, FilesInv, RowInv, IInv, TypeOK
  <1>2. OwnedIn(w, f) /\ job.stage = "COMMITTED" /\ f.original = job.expected /\ job.lease = "live"
        /\ rollback'[a] = Absent /\ rollback \in [AttemptIds -> Content] /\ a \in AttemptIds
    <2>1. OwnedIn(w, f) /\ job.stage = "COMMITTED" /\ f.original = job.expected /\ job.lease = "live"
      BY <1>1 DEF Fits, Acting, Cleaning, Steps, FileSteps
    <2>2. rollback \in [AttemptIds -> Content] /\ f.attempt \in {0} \cup AttemptIds /\ f.attempt # 0
      BY <1>1 DEF IInv, TypeOK, FrameType, OwnerIsCurrent
    <2> QED
      BY <1>1, <2>1, <2>2 DEF SetRollback
  <1>3. RollbackReachable'
    BY <1>1, <1>2 DEF FilesInv, RollbackReachable, NeedsReconciliation, SetRollback
  <1>4. Kept' /\ Whole'
    BY <1>1, <1>2 DEF FilesInv, Kept, Whole, InPlace, Settled, External, NeedsTransientRecovery
  <1>5. PICK pc \in {"completeCommitted", "dropTemporaryCommitted"} : Goto(w, pc)
    BY DEF RemoveReplacementRollback
  <1>6. PICK g : Continues(f, g) /\ g.pc = pc /\ Becomes(w, g)
    BY <1>1, <1>5, GotoContinues DEF Goto
  <1>7. worker'[w] = g
    BY <1>1, <1>6, FrameBecomes
  <1>8. OwnedIn(w, g)' /\ g.original = job'.expected /\ job'.lease = "live" /\ job'.stage = "COMMITTED"
        /\ rollback'[g.attempt] = Absent
    BY <1>1, <1>2, <1>6 DEF OwnedIn, Continues
  <1>9. Fits(w, worker[w])'
    BY <1>5, <1>6, <1>7, <1>8 DEF Fits, Acting, Swapping, Cleaning, NoRollback, Unmoved, Backed, Steps,
                                  ContextSteps, FileSteps
  <1>10. job'.owner = w /\ OwnedIn(w, worker[w])
    BY <1>1, <1>2 DEF OwnedIn
  <1> QED
    BY <1>1, <1>3, <1>4, <1>6, <1>9, <1>10, OwnerStep

(* A worker gives the row up: either the row still says what it said of the  *)
(* files, or there is nothing left for it to say.                            *)
LEMMA GivingUpFits ==
    ASSUME FilesInv, RowInv, NEW w \in Workers, OwnedIn(w, worker[w]),
           UNCHANGED <<catalog, source, rollback, edits, overwritten>>,
           NEW g, Becomes(w, g), g.pc \notin Acting, job'.owner = NoWorker,
           \/ /\ NeedsReconciliation(job) => NeedsReconciliation(job')
              /\ NeedsTransientRecovery(job) => NeedsTransientRecovery(job')
              /\ job'.attempt = job.attempt
           \/ InPlace /\ Settled /\ \A b \in AttemptIds : rollback[b] = Absent
    PROVE  FilesInv'
  <1>1. /\ FilesInv /\ IInv /\ RollbackReachable /\ Kept /\ Whole
    BY DEF FilesInv, RowInv
  <1>2. RollbackReachable'
    BY <1>1 DEF RollbackReachable, NeedsReconciliation
  <1>3. (InPlace => InPlace') /\ (Settled => Settled')
    BY DEF InPlace, Settled, External
  <1>4. NeedsTransientRecovery(job)' <=> NeedsTransientRecovery(job')
    BY DEF NeedsTransientRecovery, NeedsReconciliation
  <1>5. Kept'
    BY <1>1, <1>3, <1>4 DEF Kept
  <1>6. Whole'
    BY <1>1, <1>3, <1>4 DEF Whole
  <1>7. ~OwnedIn(w, worker[w])' /\ worker'[w] = g
    BY <1>1, WritebackAssumption, FrameBecomes DEF OwnedIn
  <1>8. Fits(w, worker[w])'
    BY <1>7, RestingFits
  <1> QED
    BY <1>1, <1>2, <1>5, <1>6, <1>8, OwnerStep

(* A row that does not say that files may be mid-swap.                       *)
LEMMA NothingPending ==
    ASSUME FilesInv, ~NeedsReconciliation(job)
    PROVE  InPlace /\ Settled /\ \A b \in AttemptIds : rollback[b] = Absent
  BY DEF FilesInv, RollbackReachable, Kept, Whole, NeedsTransientRecovery

(* The row is given back or closed.                                          *)
LEMMA SettlementsFit ==
    ASSUME FilesInv, RowInv, NEW w \in Workers,
           \/ CompleteCommittedRollback(w) \/ CompleteTransientRollback(w) \/ FailWriteback(w)
           \/ ReleaseTransientRollback(w) \/ ReleaseCommittedRollback(w)
    PROVE  FilesInv'
  <1> DEFINE f == worker[w]
  <1>1. /\ UNCHANGED <<catalog, source, rollback, edits, overwritten>> /\ f \in FrameType /\ Fits(w, f) /\ IInv
        /\ job \in JobType /\ f.pc \in {"completeCommitted", "completeTransient", "settle"}
        /\ rollback \in [AttemptIds -> Content]
    BY DEF CompleteCommittedRollback, CompleteTransientRollback, FailWriteback, ReleaseTransientRollback,
           ReleaseCommittedRollback, Calls, At, fileVars, envVars, FilesInv, RowInv, IInv, TypeOK
  <1>2. Owns(w) <=> OwnedIn(w, f)
    BY DEF Owns, OwnedIn
  <1>3. \E g : Becomes(w, g) /\ g.pc \in {"idle", "unwind", "settle"}
    <2>1. IdleFrame.pc = "idle"
      BY DEF IdleFrame
    <2>2. ASSUME NEW code, Fails(w, code)
          PROVE  \E g : Becomes(w, g) /\ g.pc \in {"unwind", "settle"}
      <3> DEFINE g == [f EXCEPT !.pc = IF f.mode = "fresh" THEN "unwind" ELSE "settle", !.code = code]
      <3>1. g.pc \in {"unwind", "settle"}
        BY <1>1 DEF FrameType
      <3>2. Becomes(w, g)
        BY <2>2 DEF Fails
      <3> QED
        BY <3>1, <3>2
    <2> QED
      BY <2>1, <2>2 DEF CompleteCommittedRollback, CompleteTransientRollback, FailWriteback,
                        ReleaseTransientRollback, ReleaseCommittedRollback, Ends
  <1>4. ASSUME OwnedIn(w, f), job'.owner = NoWorker,
               \/ /\ NeedsReconciliation(job) => NeedsReconciliation(job')
                  /\ NeedsTransientRecovery(job) => NeedsTransientRecovery(job')
                  /\ job'.attempt = job.attempt
               \/ InPlace /\ Settled /\ \A b \in AttemptIds : rollback[b] = Absent
        PROVE  FilesInv'
    <2>1. PICK g : Becomes(w, g) /\ g.pc \notin Acting
      BY <1>3 DEF Acting
    <2> QED
      BY <1>1, <1>4, <2>1, GivingUpFits
  <1>5. ASSUME Still PROVE FilesInv'
    <2>1. CASE Ends(w)
      <3>1. Fits(w, IdleFrame)
        BY DEF Fits, OwnedIn, IdleFrame, Acting, Swapping, Cleaning, NoRollback, Unmoved, Backed, Steps,
               ContextSteps, FileSteps
      <3> QED
        BY <1>1, <1>5, <2>1, <3>1, StillStep DEF Ends
    <2>2. ASSUME NEW code, Fails(w, code), f.pc # "settle" PROVE FilesInv'
      BY <1>1, <1>5, <2>2, StillFails
    <2> QED
      BY <2>1, <2>2 DEF CompleteCommittedRollback, CompleteTransientRollback, FailWriteback,
                        ReleaseTransientRollback, ReleaseCommittedRollback, Calls, At
  <1>6. ASSUME job' = job PROVE FilesInv'
    BY <1>1, <1>5, <1>6 DEF Still
  <1>7. ASSUME OwnedIn(w, f), NEW code, job' = Unlocked(code) PROVE FilesInv'
    <2>1. /\ job'.owner = NoWorker /\ job'.attempt = job.attempt /\ job'.status = job.status
          /\ job'.stage = job.stage /\ job'.output = job.output
      BY <1>1, <1>7 DEF Unlocked, JobType
    <2> QED
      BY <1>4, <1>7, <2>1 DEF NeedsReconciliation, NeedsTransientRecovery
  <1>8. CASE CompleteCommittedRollback(w)
    <2>1. f.pc = "completeCommitted"
      BY <1>8 DEF CompleteCommittedRollback, Calls, At
    <2>2. OwnedIn(w, f) /\ job.stage = "COMMITTED" /\ rollback[f.attempt] = Absent
      BY <1>1, <2>1 DEF Fits, Acting, Cleaning, NoRollback, Steps, ContextSteps
    <2>3. InPlace /\ Settled /\ \A b \in AttemptIds : rollback[b] = Absent
      BY <2>2 DEF FilesInv, RollbackReachable, Kept, Whole, NeedsTransientRecovery, OwnedIn
    <2>4. job' = job \/ job'.owner = NoWorker
      BY <1>1, <1>8 DEF CompleteCommittedRollback, JobType
    <2> QED
      BY <1>4, <1>6, <2>2, <2>3, <2>4
  <1>9. CASE CompleteTransientRollback(w)
    <2>1. f.pc = "completeTransient"
      BY <1>9 DEF CompleteTransientRollback, Calls, At
    <2>2. OwnedIn(w, f) /\ rollback[f.attempt] = Absent /\ InPlace /\ Settled
      BY <1>1, <2>1 DEF Fits, Acting, NoRollback, Steps, ContextSteps
    <2>3. \A b \in AttemptIds : rollback[b] = Absent
      BY <2>2 DEF FilesInv, RollbackReachable, OwnedIn
    <2>4. job' = job \/ job'.owner = NoWorker
      BY <1>1, <1>9 DEF CompleteTransientRollback, JobType
    <2> QED
      BY <1>4, <1>6, <2>2, <2>3, <2>4
  <1>10. CASE FailWriteback(w)
    <2>1. CASE Owns(w) /\ NeedsReconciliation(job)
      BY <1>2, <1>7, <1>10, <2>1 DEF FailWriteback, FailedRow
    <2>2. CASE Owns(w) /\ ~NeedsReconciliation(job)
      <3>1. job' = ClosedRow(w)
        BY <1>10, <2>2 DEF FailWriteback, FailedRow
      <3>2. job'.owner = NoWorker
        BY <1>1, <3>1 DEF ClosedRow, Unlocked, JobType
      <3> QED
        BY <1>2, <1>4, <2>2, <3>2, NothingPending
    <2>3. CASE ~Owns(w)
      BY <1>6, <1>10, <2>3 DEF FailWriteback
    <2> QED
      BY <2>1, <2>2, <2>3
  <1>11. CASE ReleaseTransientRollback(w) \/ ReleaseCommittedRollback(w)
    BY <1>2, <1>6, <1>7, <1>11 DEF ReleaseTransientRollback, ReleaseCommittedRollback
  <1> QED
    BY <1>8, <1>9, <1>10, <1>11

(* The row follows its worker: a stage, the lease, the commit.               *)
LEMMA RecordsFit ==
    ASSUME FilesInv, RowInv, NEW w \in Workers,
           \/ MarkWritebackPrepared(w) \/ RenewWritebackLease(w) \/ HeartbeatRenews(w)
           \/ MarkWritebackFileReplaced(w) \/ CommitWriteback(w)
    PROVE  FilesInv'
  <1> DEFINE f == worker[w]
             a == worker[w].attempt
  <1>1. /\ UNCHANGED <<source, rollback, edits, overwritten>> /\ f \in FrameType /\ Fits(w, f) /\ IInv
        /\ job \in JobType /\ rollback \in [AttemptIds -> Content] /\ f.pc \notin {"idle", "settle"}
        /\ catalog # Absent
    BY DEF MarkWritebackPrepared, RenewWritebackLease, HeartbeatRenews, MarkWritebackFileReplaced,
           CommitWriteback, Calls, At, Running, fileVars, envVars, AfterRenewal, FilesInv, RowInv, IInv, TypeOK
  <1>2. Owns(w) <=> OwnedIn(w, f)
    BY DEF Owns, OwnedIn
  <1>3. OwnedIn(w, f) => job.lease = "live"
    BY <1>1 DEF Fits
  <1>4. OwnedIn(w, f) => a \in AttemptIds /\ a # 0
    BY <1>1 DEF IInv, OwnerIsCurrent, FrameType
  <1>5. ASSUME job' = job, catalog' = catalog, NEW code, Fails(w, code) PROVE FilesInv'
    BY <1>1, <1>5, StillFails DEF Still
  <1>6. ASSUME NEW pc, Answers(w, pc)
        PROVE  \E g : /\ Becomes(w, g) /\ g.attempt = a /\ g.original = f.original
                      /\ (g.armed <=> f.armed) /\ g.output = f.output
                      /\ g.pc \in {pc, "unwind", "settle"}
    <2>1. ASSUME Goto(w, pc)
          PROVE  \E g : /\ Becomes(w, g) /\ g.attempt = a /\ g.original = f.original
                        /\ (g.armed <=> f.armed) /\ g.output = f.output
                        /\ g.pc \in {pc, "unwind", "settle"}
      <3> DEFINE g == [f EXCEPT !.pc = pc]
      <3>1. Continues(f, g) /\ g.pc = pc
        BY <1>1, GotoContinues
      <3>2. Becomes(w, g)
        BY <2>1 DEF Goto
      <3> HIDE DEF g
      <3> QED
        BY <3>1, <3>2 DEF Continues
    <2>2. ASSUME Fails(w, "retryable")
          PROVE  \E g : /\ Becomes(w, g) /\ g.attempt = a /\ g.original = f.original
                        /\ (g.armed <=> f.armed) /\ g.output = f.output
                        /\ g.pc \in {pc, "unwind", "settle"}
      <3> DEFINE g == [f EXCEPT !.pc = IF f.mode = "fresh" THEN "unwind" ELSE "settle",
                                !.code = "retryable"]
      <3>1. /\ g.attempt = a /\ g.original = f.original /\ (g.armed <=> f.armed)
            /\ g.output = f.output /\ g.pc \in {"unwind", "settle"}
        BY <1>1 DEF FrameType
      <3>2. Becomes(w, g)
        BY <2>2 DEF Fails
      <3> HIDE DEF g
      <3> QED
        BY <3>1, <3>2
    <2> QED
      BY <1>6, <2>1, <2>2 DEF Answers
  <1>7. CASE MarkWritebackPrepared(w) /\ Owns(w)
    <2>1. f.pc = "markPrepared" /\ f.output # Absent /\ OwnedIn(w, f) /\ catalog' = catalog
      BY <1>1, <1>2, <1>7 DEF MarkWritebackPrepared, Calls, At, IInv, OwnerIsCurrent, Remuxed, EarlySteps
    <2>2. rollback[a] = Absent /\ f.original = job.expected /\ a # 0 /\ job.lease = "live"
      BY <1>1, <1>3, <1>4, <2>1 DEF Fits, NoRollback, Unmoved, Acting, Steps, ContextSteps
    <2>3. /\ job'.stage = "PREPARED" /\ job'.output = f.output /\ job'.status = "PROCESSING"
          /\ job'.owner = w /\ job'.attempt = a /\ job'.lease = "live" /\ job'.expected = job.expected
      BY <1>1, <1>7, <2>1, <2>2 DEF MarkWritebackPrepared, JobType, OwnedIn
    <2>4. NeedsTransientRecovery(job)'
      BY <2>1, <2>2, <2>3 DEF NeedsTransientRecovery, NeedsReconciliation
    <2>5. InPlace /\ RollbackReachable'
      BY <1>1, <2>1, <2>2 DEF FilesInv, Kept, RollbackReachable, OwnedIn
    <2>6. Kept' /\ Whole'
      BY <1>1, <2>1, <2>4, <2>5 DEF Kept, Whole, InPlace
    <2>7. PICK g : /\ Becomes(w, g) /\ g.attempt = a /\ g.original = f.original
                   /\ g.pc \in {"renew", "unwind", "settle"}
      BY <1>6, <1>7 DEF MarkWritebackPrepared
    <2>8. worker'[w] = g
      BY <1>1, <2>7, FrameBecomes
    <2>9. OwnedIn(w, g)' /\ g.original = job'.expected /\ rollback'[g.attempt] = Absent
      BY <1>1, <2>2, <2>3, <2>7 DEF OwnedIn
    <2>10. Fits(w, worker[w])'
      BY <2>3, <2>4, <2>7, <2>8, <2>9 DEF Fits, Acting, Swapping, Cleaning, NoRollback, Unmoved, Backed,
                                          Steps, ContextSteps, FileSteps
    <2> QED
      BY <1>1, <2>1, <2>3, <2>5, <2>6, <2>7, <2>10, OwnerStep
  <1>8. CASE MarkWritebackFileReplaced(w) /\ Owns(w) /\ job.output = f.output
    <2>1. f.pc = "markReplaced" /\ OwnedIn(w, f) /\ catalog' = catalog
      BY <1>2, <1>8 DEF MarkWritebackFileReplaced, Calls, At
    <2>2. /\ f.original = job.expected /\ job.lease = "live" /\ NeedsTransientRecovery(job)
          /\ f.output # Absent /\ f.output \in {source} \cup overwritten
          /\ source = f.output \/ External(source)
      BY <1>1, <1>3, <2>1 DEF Fits, Acting, Swapping, Cleaning, Steps, ContextSteps
    <2>3. /\ job'.stage = "FILE_REPLACED" /\ job'.output = job.output /\ job'.status = job.status
          /\ job'.owner = w /\ job'.attempt = job.attempt /\ job'.lease = "live"
          /\ job'.expected = job.expected
      BY <1>1, <1>8, <2>1, <2>2 DEF MarkWritebackFileReplaced, JobType, OwnedIn
    <2>4. NeedsTransientRecovery(job)'
      BY <2>2, <2>3 DEF NeedsTransientRecovery, NeedsReconciliation
    <2>5. RollbackReachable'
      BY <1>1, <2>3, <2>4 DEF FilesInv, RollbackReachable, NeedsTransientRecovery
    <2>6. Kept' /\ Whole'
      BY <1>1, <2>1, <2>3, <2>4 DEF FilesInv, Kept, Whole, InPlace
    <2>7. PICK g : /\ Becomes(w, g) /\ g.attempt = a /\ g.original = f.original
                   /\ g.output = f.output /\ g.pc \in {"commit", "unwind", "settle"}
      BY <1>6, <1>8 DEF MarkWritebackFileReplaced
    <2>8. worker'[w] = g
      BY <1>1, <2>7, FrameBecomes
    <2>9. /\ OwnedIn(w, g)' /\ g.original = job'.expected
          /\ g.output \in {source'} \cup overwritten' /\ (source' = g.output \/ External(source)')
      BY <1>1, <2>1, <2>2, <2>3, <2>7 DEF OwnedIn, External
    <2>10. Fits(w, worker[w])'
      BY <2>2, <2>3, <2>4, <2>7, <2>8, <2>9 DEF Fits, Acting, Swapping, Cleaning, NoRollback, Unmoved,
                                                Backed, Steps, ContextSteps, FileSteps
    <2> QED
      BY <1>1, <2>1, <2>3, <2>5, <2>6, <2>7, <2>10, OwnerStep
  <1>9. CASE CommitWriteback(w) /\ CommitRefusal(w) = "none"
    <2>1. f.pc = "commit" /\ OwnedIn(w, f) /\ catalog' = f.output
      BY <1>2, <1>9 DEF CommitWriteback, CommitRefusal, Calls, At
    <2>2. /\ f.original = job.expected /\ job.lease = "live" /\ NeedsTransientRecovery(job)
          /\ f.output # Absent /\ f.output \in {source} \cup overwritten
          /\ source = f.output \/ External(source)
      BY <1>1, <1>3, <2>1 DEF Fits, Acting, Swapping, Cleaning, Steps, ContextSteps
    <2>3. /\ job'.stage = "COMMITTED" /\ job'.output = job.output /\ job'.status = job.status
          /\ job'.owner = w /\ job'.attempt = job.attempt /\ job'.lease = "live"
          /\ job'.expected = job.expected
      BY <1>1, <1>9, <2>1 DEF CommitWriteback, JobType, OwnedIn
    <2>4. RollbackReachable'
      BY <1>1, <2>2, <2>3 DEF FilesInv, RollbackReachable, NeedsTransientRecovery, NeedsReconciliation
    <2>5. Kept' /\ Whole'
      BY <1>1, <2>1, <2>2 DEF Kept, Whole, InPlace, Settled, External
    <2>6. PICK g : /\ Becomes(w, g) /\ g.attempt = a /\ g.original = f.original
                   /\ g.pc \in {"removeRollback", "unwind", "settle"}
      BY <1>6, <1>9 DEF CommitWriteback
    <2>7. worker'[w] = g
      BY <1>1, <2>6, FrameBecomes
    <2>8. OwnedIn(w, g)' /\ g.original = job'.expected
      BY <2>1, <2>2, <2>3, <2>6 DEF OwnedIn
    <2>9. Fits(w, worker[w])'
      BY <2>3, <2>6, <2>7, <2>8 DEF Fits, Acting, Swapping, Cleaning, NoRollback, Unmoved, Backed, Steps,
                                    ContextSteps, FileSteps
    <2> QED
      BY <1>1, <2>1, <2>3, <2>4, <2>5, <2>6, <2>9, OwnerStep
  <1>10. CASE RenewWritebackLease(w)
    <2>1. PICK pc \in DOMAIN AfterRenewal :
             /\ f.pc = pc
             /\ IF Owns(w)
                THEN job' = [job EXCEPT !.lease = "live"] /\ Answers(w, AfterRenewal[pc])
                ELSE Fails(w, IF pc = "renewRestore" THEN f.code ELSE "terminal") /\ UNCHANGED job
      BY <1>10 DEF RenewWritebackLease, Calls, At
    <2>2. job' = job /\ catalog' = catalog
      BY <1>1, <1>2, <1>3, <1>10, <2>1 DEF RenewWritebackLease, JobType
    <2>3. ASSUME Goto(w, AfterRenewal[pc]) PROVE FilesInv'
      <3>1. <<pc, AfterRenewal[pc]>> \in
               {<<"renew", "validate">>, <<"renewRecovery", "inspectRecovery">>,
                <<"renewRestore", "inspectRestore">>, <<"renewCleanup", "inspectCleanup">>}
        BY DEF AfterRenewal
      <3>2. PICK g : Continues(f, g) /\ g.pc = AfterRenewal[pc] /\ Becomes(w, g)
        BY <1>1, <2>3, GotoContinues DEF Goto
      <3>3. Fits(w, g)
        BY <1>1, <2>1, <3>1, <3>2 DEF Fits, OwnedIn, Continues, Acting, Swapping, Cleaning, NoRollback,
                                      Unmoved, Backed, Steps, ContextSteps, FileSteps
      <3> QED
        BY <1>1, <2>2, <3>2, <3>3, StillStep DEF Still
    <2> QED
      BY <1>5, <2>1, <2>2, <2>3 DEF Answers
  <1>11. CASE HeartbeatRenews(w)
    BY <1>2, <1>3, <1>11 DEF HeartbeatRenews
  <1> QED
    BY <1>5, <1>7, <1>8, <1>9, <1>10, <1>11
    DEF MarkWritebackPrepared, MarkWritebackFileReplaced, CommitWriteback, dbVars

(* No worker acts on a row that nobody holds a live lease of.                *)
LEMMA NobodyActs ==
    ASSUME FilesInv, job.status # "PROCESSING" \/ job.lease # "live"
    PROVE  \A v \in Workers : worker[v].pc \notin Acting
                              /\ (OwnedIn(v, worker[v]) => worker[v].pc \in {"idle", "settle"})
  BY DEF FilesInv, Fits, OwnedIn, Acting

(* A row with nothing pending becomes another such row.                      *)
LEMMA FreshRowFits ==
    ASSUME FilesInv, RowInv, ~NeedsReconciliation(job), ~NeedsReconciliation(job'),
           job.status # "PROCESSING" \/ job.lease # "live",
           UNCHANGED <<catalog, source, rollback, edits, overwritten>>,
           \A v \in Workers : \/ worker'[v] = worker[v] /\ ~(job'.status = "PROCESSING" /\ job'.owner = v)
                              \/ Fits(v, worker[v])'
    PROVE  FilesInv'
  <1>1. InPlace /\ Settled /\ (\A b \in AttemptIds : rollback[b] = Absent)
    BY NothingPending
  <1>2. RollbackReachable' /\ Kept' /\ Whole'
    BY <1>1 DEF RollbackReachable, Kept, Whole, InPlace, Settled, External
  <1>3. ASSUME NEW v \in Workers, worker'[v] = worker[v],
               ~(job'.status = "PROCESSING" /\ job'.owner = v)
        PROVE  Fits(v, worker[v])'
    <2>1. worker'[v].pc \notin Acting
      BY <1>3, NobodyActs
    <2>2. ~OwnedIn(v, worker[v])'
      BY <1>3 DEF OwnedIn
    <2> QED
      BY <2>1, <2>2, RestingFits
  <1> QED
    BY <1>2, <1>3 DEF FilesInv

(* Everything a frame relies on stays: it still fits.                        *)
LEMMA SameRowFits ==
    ASSUME FilesInv, UNCHANGED <<worker, catalog, source, rollback, edits, overwritten>>,
           job'.status = job.status, job'.stage = job.stage, job'.owner = job.owner,
           job'.attempt = job.attempt, job'.expected = job.expected, job'.output = job.output,
           job'.lease = job.lease \/ \A v \in Workers : ~Executing(v)
    PROVE  FilesInv'
  <1>1. /\ NeedsReconciliation(job)' <=> NeedsReconciliation(job)
        /\ NeedsTransientRecovery(job)' <=> NeedsTransientRecovery(job)
    BY DEF NeedsReconciliation, NeedsTransientRecovery
  <1>2. (InPlace' <=> InPlace) /\ (Settled' <=> Settled) /\ (External(source)' <=> External(source))
    BY DEF InPlace, Settled, External
  <1>3. ASSUME NEW v \in Workers PROVE Fits(v, worker[v])'
    <2>1. Fits(v, worker[v])
      BY DEF FilesInv
    <2>2. OwnedIn(v, worker[v])' <=> OwnedIn(v, worker[v])
      BY DEF OwnedIn
    <2>3. worker[v].pc \notin {"idle", "settle"} /\ OwnedIn(v, worker[v]) => job'.lease = "live"
      BY <2>1 DEF Fits, Executing, Running, Owns, OwnedIn
    <2> QED
      BY <1>1, <1>2, <2>1, <2>2, <2>3 DEF Fits
  <1> QED
    BY <1>1, <1>2, <1>3 DEF FilesInv, RollbackReachable, Kept, Whole

(* Requests and claims.                                                      *)
LEMMA RequestsFit ==
    ASSUME FilesInv, RowInv,
           \/ EnqueueWriteback \/ RetryWriteback \/ CancelWriteback \/ UpdateMetadata
           \/ ClaimCancels \/ ClaimExhausts
    PROVE  FilesInv'
  <1>1. UNCHANGED <<worker, catalog, source, rollback, edits, overwritten>> /\ job \in JobType
        /\ NoWorker \notin Workers
    BY WritebackAssumption DEF EnqueueWriteback, RetryWriteback, Queues, CancelWriteback, UpdateMetadata,
           ClaimCancels, ClaimExhausts, fileVars, envVars, RowInv, IInv, TypeOK
  <1>2. ASSUME job.status # "PROCESSING" \/ job.lease # "live", ~NeedsReconciliation(job),
               job'.status # "PROCESSING"
        PROVE  FilesInv'
    BY <1>1, <1>2, FreshRowFits DEF NeedsReconciliation
  <1>3. CASE EnqueueWriteback \/ RetryWriteback
    <2>1. job.status # "PROCESSING" /\ job'.status = "PENDING"
      BY <1>3 DEF EnqueueWriteback, RetryWriteback, Queues, QueuedRow, NoJob, Active
    <2> QED
      BY <1>2, <2>1 DEF NeedsReconciliation
  <1>4. CASE ClaimCancels \/ ClaimExhausts
    <2>1. job'.status \in {"CANCELLED", "FAILED"}
      BY <1>1, <1>4 DEF ClaimCancels, ClaimExhausts, JobType
    <2> QED
      BY <1>2, <1>4, <2>1 DEF ClaimCancels, ClaimExhausts, Unclaimed, NeedsReconciliation
  <1>5. CASE CancelWriteback
    <2>1. CASE job.status = "PENDING"
      <3>1. job'.status = "CANCELLED"
        BY <1>1, <1>5, <2>1 DEF CancelWriteback, JobType
      <3> QED
        BY <1>2, <2>1, <3>1 DEF NeedsReconciliation
    <2>2. CASE job.status # "PENDING"
      <3>1. /\ job'.status = job.status /\ job'.stage = job.stage /\ job'.owner = job.owner
            /\ job'.attempt = job.attempt /\ job'.expected = job.expected /\ job'.output = job.output
            /\ job'.lease = job.lease
        BY <1>1, <1>5, <2>2 DEF CancelWriteback, JobType
      <3> QED
        BY <1>1, <3>1, SameRowFits
    <2> QED
      BY <2>1, <2>2
  <1>6. CASE UpdateMetadata
    <2>1. job' = job
      BY <1>6 DEF UpdateMetadata
    <2> QED
      BY <1>1, <2>1, SameRowFits
  <1> QED
    BY <1>3, <1>4, <1>5, <1>6

LEMMA ClaimsFit ==
    ASSUME FilesInv, RowInv, NEW w \in Workers, ClaimStarts(w) \/ ClaimRecovers(w)
    PROVE  FilesInv'
  <1>1. /\ UNCHANGED <<catalog, source, rollback, edits, overwritten>> /\ IInv /\ job \in JobType
        /\ job.status # "PROCESSING" \/ job.lease # "live"
    BY DEF ClaimStarts, ClaimRecovers, TakesOver, Unclaimed, fileVars, envVars, RowInv, IInv, TypeOK
  <1>2. CASE ClaimStarts(w)
    <2> DEFINE g == [IdleFrame EXCEPT !.pc = "load", !.mode = "fresh", !.attempt = nextAttempt]
    <2>1. g.pc = "load" /\ g.mode = "fresh" /\ g.attempt = nextAttempt /\ ~g.armed
      BY DEF IdleFrame
    <2>2. /\ job'.status = "PROCESSING" /\ job'.stage = "PREPARING" /\ job'.owner = w
          /\ job'.attempt = nextAttempt /\ job'.lease = "live"
      BY <1>1, <1>2 DEF ClaimStarts, JobType
    <2>3. ~NeedsReconciliation(job) /\ ~NeedsReconciliation(job')
      BY <1>2, <2>2 DEF ClaimStarts, Unclaimed, NeedsReconciliation
    <2>4. worker'[w] = g /\ \A v \in Workers \ {w} : worker'[v] = worker[v]
      BY <1>1, <1>2, FrameBecomes DEF ClaimStarts
    <2> HIDE DEF g
    <2>5. rollback'[nextAttempt] = Absent
      BY <1>1, <1>2, <2>3, NothingPending DEF ClaimStarts
    <2>6. OwnedIn(w, worker[w])'
      BY <2>1, <2>2, <2>4 DEF OwnedIn
    <2>7. Fits(w, worker[w])'
      BY <2>1, <2>2, <2>4, <2>5, <2>6 DEF Fits, Acting, Swapping, Cleaning, NoRollback, Unmoved, Backed,
                                          Steps, ContextSteps, FileSteps
    <2> QED
      BY <1>1, <2>2, <2>3, <2>4, <2>7, FreshRowFits
  <1>3. CASE ClaimRecovers(w)
    <2> DEFINE g == RecoveryFrame
    <2>1. /\ g.pc = "load" /\ g.attempt = job.attempt /\ ~g.armed
          /\ g.mode = IF job.stage = "COMMITTED" THEN "committed" ELSE "transient"
      BY DEF RecoveryFrame, IdleFrame
    <2>2. /\ NeedsReconciliation(job) /\ job.lease # "live"
          /\ job'.owner = w /\ job'.lease = "live" /\ job'.attempt = job.attempt
          /\ job'.status = job.status /\ job'.stage = job.stage /\ job'.output = job.output
      BY <1>1, <1>3 DEF ClaimRecovers, TakesOver, JobType
    <2>3. worker'[w] = g /\ \A v \in Workers \ {w} : worker'[v] = worker[v]
      BY <1>1, <1>3, FrameBecomes DEF ClaimRecovers, TakesOver
    <2> HIDE DEF g
    <2>4. /\ NeedsReconciliation(job)' <=> NeedsReconciliation(job)
          /\ NeedsTransientRecovery(job)' <=> NeedsTransientRecovery(job)
      BY <2>2 DEF NeedsReconciliation, NeedsTransientRecovery
    <2>5. RollbackReachable' /\ Kept' /\ Whole'
      BY <1>1, <2>2, <2>4 DEF FilesInv, RollbackReachable, Kept, Whole, InPlace, Settled, External
    <2>6. OwnedIn(w, worker[w])' /\ (g.mode = "transient" => NeedsTransientRecovery(job)')
          /\ (g.mode = "committed" => job'.stage = "COMMITTED") /\ g.mode \in {"transient", "committed"}
      BY <2>1, <2>2, <2>3, <2>4 DEF OwnedIn, NeedsTransientRecovery, NeedsReconciliation
    <2>7. Fits(w, worker[w])'
      BY <2>1, <2>2, <2>3, <2>6 DEF Fits, Acting, Swapping, Cleaning, NoRollback, Unmoved, Backed, Steps,
                                    ContextSteps, FileSteps
    <2>8. ASSUME NEW v \in Workers \ {w} PROVE Fits(v, worker[v])'
      <3>1. worker'[v].pc \notin Acting
        BY <2>2, <2>3, <2>8, NobodyActs
      <3>2. ~OwnedIn(v, worker[v])'
        BY <2>2, <2>8 DEF OwnedIn
      <3> QED
        BY <3>1, <3>2, RestingFits
    <2> QED
      BY <2>5, <2>7, <2>8 DEF FilesInv
  <1> QED
    BY <1>2, <1>3

(* Time, switches, a user's own tools and scans.                             *)
LEMMA EnvironmentFits ==
    ASSUME FilesInv, RowInv, ~MayStall, Environment
    PROVE  FilesInv'
  <1>1. job \in JobType /\ catalog # Absent
    BY DEF RowInv, IInv, TypeOK
  <1>2. CASE LeaseLapses
    <2>1. /\ UNCHANGED <<worker, catalog, source, rollback, edits, overwritten>>
          /\ job' = [job EXCEPT !.lease = "lapsed"] /\ \A v \in Workers : ~Executing(v)
      BY <1>2 DEF LeaseLapses, fileVars, envVars
    <2>2. /\ job'.status = job.status /\ job'.stage = job.stage /\ job'.owner = job.owner
          /\ job'.attempt = job.attempt /\ job'.expected = job.expected /\ job'.output = job.output
      BY <1>1, <2>1 DEF JobType
    <2> QED
      BY <2>1, <2>2, SameRowFits
  <1>3. CASE ToggleWritable
    <2>1. UNCHANGED <<worker, catalog, source, rollback, edits, overwritten>> /\ job' = job
      BY <1>3 DEF ToggleWritable, dbVars, fileVars
    <2> QED
      BY <2>1, SameRowFits
  <1>4. CASE ExternalEdit
    <2>1. UNCHANGED <<job, catalog, rollback, worker>> /\ overwritten' = overwritten \cup ({source} \ {Absent})
      BY <1>4 DEF ExternalEdit, dbVars
    <2>2. External(source)'
      <3>1. edits \in Nat /\ edits < MaxEdits /\ MaxEdits \in Nat /\ edits' = edits + 1
        BY <1>4, WritebackAssumption DEF ExternalEdit, RowInv, IInv, TypeOK
      <3>2. PICK n \in {0, edits + 1} : source' = UserFile(n)
        BY <1>4 DEF ExternalEdit
      <3> QED
        BY <3>1, <3>2 DEF External
    <2>3. \A content \in {source} \cup overwritten : content # Absent => content \in {source'} \cup overwritten'
      BY <2>1
    <2>4. Settled' /\ (InPlace => InPlace')
      BY <1>1, <2>1, <2>2, <2>3 DEF Settled, InPlace
    <2>5. ASSUME NEW v \in Workers PROVE Fits(v, worker[v])'
      <3>1. Fits(v, worker[v])
        BY DEF FilesInv
      <3> QED
        BY <2>1, <2>2, <2>3, <2>4, <3>1 DEF Fits, OwnedIn
    <2> QED
      BY <2>1, <2>4, <2>5 DEF FilesInv, RollbackReachable, Kept, Whole
  <1>5. CASE ScanRecordsSource
    <2>1. UNCHANGED <<job, source, rollback, worker, edits, overwritten>> /\ catalog' = source
          /\ job.status # "PROCESSING"
      BY <1>5 DEF ScanRecordsSource, Records, Active, fileVars, envVars
    <2>2. InPlace' /\ Settled'
      BY <2>1 DEF InPlace, Settled
    <2>3. RollbackReachable'
      BY <2>1 DEF FilesInv, RollbackReachable
    <2>4. ASSUME NEW v \in Workers PROVE Fits(v, worker[v])'
      <3>1. worker'[v].pc \notin Acting
        BY <2>1, NobodyActs
      <3>2. ~OwnedIn(v, worker[v])'
        BY <2>1 DEF OwnedIn
      <3> QED
        BY <3>1, <3>2, RestingFits
    <2> QED
      BY <2>2, <2>3, <2>4 DEF FilesInv, Kept, Whole
  <1> QED
    BY <1>2, <1>3, <1>4, <1>5 DEF Environment

LEMMA ProcessFits ==
    ASSUME FilesInv, RowInv, NEW w \in Workers, Process(w) \/ Interference(w)
    PROVE  FilesInv'
  <1>1. CASE \/ LoadWritebackContext(w) \/ ChecksumSource(w) \/ RemuxMetadata(w) \/ RecheckSource(w)
             \/ ValidateBeforeReplacement(w)
    BY <1>1, ReadsFit
  <1>2. CASE \/ VerifyInstalled(w) \/ InspectRestore(w) \/ InspectRecovery(w) \/ VerifyMissing(w)
             \/ InspectCleanup(w) \/ DropTemporary(w) \/ FindWriteback(w)
    BY <1>2, InspectionsFit
  <1>3. CASE \/ VerifyAside(w) \/ SyncInstalled(w) \/ UnwindAttempt(w) \/ StoppedCall(w)
             \/ CallFails(w) \/ FindWritebackFails(w) \/ SettleFails(w) \/ Crash(w)
             \/ WorkerStops(w) \/ CancellationPoll(w) \/ HeartbeatLosesLease(w)
    BY <1>3, FramesFit
  <1>4. CASE \/ MoveSourceAside(w) \/ InstallOutput(w) \/ DiscardInstalled(w) \/ PutBack(w)
             \/ RestoreMissing(w) \/ StageOutput(w) \/ RestoreOriginal(w) \/ VerifyRestored(w)
             \/ RestoreOutput(w) \/ DropRollback(w)
    BY <1>4, MovesFit
  <1>5. CASE RemoveReplacementRollback(w)
    BY <1>5, RemovalFits
  <1>6. CASE \/ CompleteCommittedRollback(w) \/ CompleteTransientRollback(w) \/ FailWriteback(w)
             \/ ReleaseTransientRollback(w) \/ ReleaseCommittedRollback(w)
    BY <1>6, SettlementsFit
  <1>7. CASE \/ MarkWritebackPrepared(w) \/ RenewWritebackLease(w) \/ HeartbeatRenews(w)
             \/ MarkWritebackFileReplaced(w) \/ CommitWriteback(w)
    BY <1>7, RecordsFit
  <1> QED
    BY <1>1, <1>2, <1>3, <1>4, <1>5, <1>6, <1>7 DEF Process, Interference

LEMMA FilesFit ==
    ASSUME ~MayStall
    PROVE  FilesInv /\ RowInv /\ [Next]_vars => FilesInv'
  <1> SUFFICES ASSUME FilesInv, RowInv, [Next]_vars PROVE FilesInv'
    OBVIOUS
  <1>1. CASE Administrator \/ ClaimCancels \/ ClaimExhausts
    BY <1>1, RequestsFit DEF Administrator
  <1>2. CASE \E w \in Workers : ClaimStarts(w) \/ ClaimRecovers(w)
    BY <1>2, ClaimsFit
  <1>3. CASE \E w \in Workers : Process(w) \/ Interference(w)
    BY <1>3, ProcessFits
  <1>4. CASE Environment
    BY <1>4, EnvironmentFits
  <1>5. CASE UNCHANGED vars
    BY <1>5, SameRowFits DEF vars, dbVars, fileVars, envVars
  <1> QED
    BY <1>1, <1>2, <1>3, <1>4, <1>5 DEF Next, Claim

LEMMA FilesInit == Init => FilesInv
  <1> SUFFICES ASSUME Init PROVE FilesInv
    OBVIOUS
  <1>1. RollbackReachable /\ Kept /\ Whole
    BY DEF Init, RollbackReachable, Kept, Whole, InPlace, Settled
  <1>2. ASSUME NEW w \in Workers PROVE Fits(w, worker[w])
    BY DEF Init, IdleFrame, NoJob, Fits, OwnedIn, Acting, Swapping, Cleaning, NoRollback, Unmoved, Backed,
           Steps, ContextSteps, FileSteps
  <1> QED
    BY <1>1, <1>2 DEF FilesInv

(* What the invariant of the files says of them.                             *)
LEMMA FilesImply ==
    FilesInv /\ RowInv => /\ ExclusiveSwap /\ RollbackReachable /\ RecordedContentKept
                          /\ SettledSource /\ CommittedAgreement
  <1> SUFFICES ASSUME FilesInv, RowInv
               PROVE  /\ ExclusiveSwap /\ RollbackReachable /\ RecordedContentKept
                      /\ SettledSource /\ CommittedAgreement
    OBVIOUS
  <1>1. ExclusiveSwap
    <2>1. SwapSteps \subseteq Acting
      BY DEF SwapSteps, Acting, Steps, ContextSteps, FileSteps
    <2> QED
      BY <2>1 DEF ExclusiveSwap, FilesInv, Fits, OwnedIn
  <1>2. RecordedContentKept
    <2>1. NeedsTransientRecovery(job) => job.attempt \in AttemptIds
      BY DEF RowInv, IInv, TypeOK, JobType, NeedsTransientRecovery, NeedsReconciliation
    <2> QED
      BY <2>1 DEF FilesInv, Kept, InPlace, RecordedContentKept, Held
  <1>3. SettledSource
    BY DEF FilesInv, Whole, Settled, SettledSource, NeedsTransientRecovery, NeedsReconciliation
  <1>4. CommittedAgreement
    BY DEF FilesInv, Whole, Settled, CommittedAgreement, NeedsTransientRecovery, RowInv, CatalogFollowsJob
  <1> QED
    BY <1>1, <1>2, <1>3, <1>4 DEF FilesInv

LEMMA FilesHold == ASSUME ~MayStall PROVE Spec => [](FilesInv /\ RowInv)
  <1>1. RowInv /\ FilesInv /\ [Next]_vars => FilesInv'
    BY FilesFit
  <1> QED
    BY <1>1, FilesInit, RowInvariant, PTL DEF Spec

(* While no worker outlives its lease, whatever crashes, failed or lost      *)
(* calls, recoveries and users' own tools do: two workers are never both     *)
(* renaming files of the source.                                             *)
THEOREM SwapIsExclusive == ASSUME ~MayStall PROVE Spec => []ExclusiveSwap
  BY FilesHold, FilesImply, PTL

(* A rollback file always belongs to the attempt of a row that the next      *)
(* claim repairs.                                                            *)
THEOREM RollbackIsReachable == ASSUME ~MayStall PROVE Spec => []RollbackReachable
  BY FilesHold, FilesImply, PTL

(* The recording the catalogue knows is never lost by the program; what lies *)
(* at the managed path of a settled or committed row is what it records.     *)
THEOREM ContentsAgree ==
    ASSUME ~MayStall PROVE Spec => [](RecordedContentKept /\ SettledSource /\ CommittedAgreement)
  BY FilesHold, FilesImply, PTL

(* The bounded instance chooses between stalls and other faults at its       *)
(* start: its behaviours without stalls are those of Spec.                   *)
LEMMA ChosenFilesHold == ASSUME ~MayStall PROVE MCSpec => [](stalling \/ (FilesInv /\ RowInv))
  <1> DEFINE Chosen == stalling \/ (FilesInv /\ RowInv)
  <1>1. Init => RowInv
    <2>1. Init => QueuedIsUncommitted /\ CatalogFollowsJob
      BY DEF Init, NoJob, QueuedIsUncommitted, CatalogFollowsJob, Active
    <2> QED
      BY <2>1, WritebackInit DEF RowInv
  <1>2. MCInit => Chosen
    BY <1>1, FilesInit DEF MCInit
  <1>3. Chosen /\ [MCNext]_<<vars, stalling>> => Chosen'
    <2> SUFFICES ASSUME Chosen, [MCNext]_<<vars, stalling>> PROVE Chosen'
      OBVIOUS
    <2>1. stalling' = stalling /\ (stalling \/ [Next]_vars)
      BY DEF MCNext
    <2>2. RowInv /\ [Next]_vars => RowInv'
      BY StepKeeps, StepHasShape, ShapeKeepsRow DEF RowInv
    <2> QED
      BY <2>1, <2>2, FilesFit
  <1> QED
    BY <1>2, <1>3, PTL DEF MCSpec

(* Behaviours without stalls never have two workers at the files of a        *)
(* source, whichever worker crashed or lost its lease before.                *)
THEOREM SwapIsExclusiveUnlessStalled ==
    ASSUME ~MayStall PROVE MCSpec => []SwapExclusiveUnlessStalled
  <1>1. (stalling \/ (FilesInv /\ RowInv)) => SwapExclusiveUnlessStalled
    BY FilesImply DEF SwapExclusiveUnlessStalled
  <1> QED
    BY <1>1, ChosenFilesHold, PTL

(* Nor a rollback file that no claim will look at.                           *)
THEOREM RollbackIsKeptUnlessStalled ==
    ASSUME ~MayStall PROVE MCSpec => []RollbackKeptUnlessStalled
  <1>1. (stalling \/ (FilesInv /\ RowInv)) => RollbackKeptUnlessStalled
    BY FilesImply DEF RollbackKeptUnlessStalled
  <1> QED
    BY <1>1, ChosenFilesHold, PTL

(* Nor a catalogue whose recording is lost, or a settled path without it.    *)
THEOREM ContentsAgreeWithoutStalls ==
    ASSUME ~MayStall PROVE MCSpec => []ContentsAgreeUnlessStalled
  <1>1. (stalling \/ (FilesInv /\ RowInv)) => ContentsAgreeUnlessStalled
    BY FilesImply DEF ContentsAgreeUnlessStalled
  <1> QED
    BY <1>1, ChosenFilesHold, PTL
=============================================================================
