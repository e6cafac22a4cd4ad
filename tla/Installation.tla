---------------------------- MODULE Installation ----------------------------
(* The configuration of an installation: the first setup, the settings an    *)
(* administrator applies, the file they are saved in, and the server and the *)
(* worker process that follow it (modules/setup, modules/adminsettings,      *)
(* config/store.go, cmd/xymusic/supervisor.go and worker.go).                *)
EXTENDS Naturals

CONSTANTS Configs,     \* configurations
          Callers,     \* requests that set up the system or change its settings
          None,        \* no configuration, no file
          Torn,        \* a file whose contents are not a configuration
          MaxFailures, \* bound: steps that fail
          MaxCrashes,  \* bound: processes that crash
          MaxCalls     \* bound: requests made

VARIABLES file,      \* the configuration file, its successor and its backup
          server,    \* the process that serves: its configuration and its generation
          call,      \* caller -> its request
          database,  \* what the database and the media directory hold
          worker,    \* the process that works: its configuration, its recovery of the file
          overlap,   \* what has ever overlapped: saves with a recovery, changes of settings
          bound      \* the failures, crashes and requests so far

installVars == <<file, server, call, database, worker, overlap, bound>>

NoCall == [kind |-> "none", at |-> "none", service |-> 0, expected |-> 0, candidate |-> None,
           previous |-> None, reset |-> {}, provisioned |-> FALSE, initialized |-> FALSE,
           save |-> "none", saving |-> None, existed |-> FALSE]
Down == [up |-> FALSE, configured |-> FALSE, active |-> None, generation |-> 0]

TypeOK ==
    /\ \A f \in {"path", "next", "backup"} : file[f] \in Configs \union {None, Torn}
    /\ server.up \in BOOLEAN /\ server.configured \in BOOLEAN /\ server.active \in Configs \union {None}
    /\ \A c \in Callers : call[c].save \in {"none", "write", "aside", "place", "drop", "saved", "failed"}
    /\ worker.recovery \in {"check", "clean", "next", "backup", "ran"}
    /\ worker.config \in Configs \union {None}
    /\ overlap \subseteq {"recovery", "settings"}

Init ==
    /\ file = [path |-> None, next |-> None, backup |-> None]
    /\ server = [Down EXCEPT !.up = TRUE]
    /\ call = [c \in Callers |-> NoCall]
    /\ database \in [migrated : BOOLEAN, administrator : {"none", "old"}, data : BOOLEAN, assets : BOOLEAN]
    /\ database.administrator = "old" \/ database.data => database.migrated
    /\ worker = [up |-> TRUE, config |-> None, recovery |-> "ran"]
    /\ overlap = {} /\ bound = [failures |-> 0, crashes |-> 0, calls |-> 0]

Fine == bound' = bound
Fails == bound.failures < MaxFailures /\ bound' = [bound EXCEPT !.failures = @ + 1]
Set(c, changed) == call' = [call EXCEPT ![c] = changed]
Go(c, to) == Set(c, [call[c] EXCEPT !.at = to])
End(c) == Set(c, NoCall)
Arrive(c, new) ==
    /\ server.up /\ call[c].kind = "none" /\ bound.calls < MaxCalls
    /\ Set(c, new) /\ bound' = [bound EXCEPT !.calls = @ + 1]

---------------------------------------------------------------------------
(* The file. A save writes a successor, moves the file aside, puts the       *)
(* successor in its place and drops the backup.                              *)

BeginSave(c, config, to) == Set(c, [call[c] EXCEPT !.at = to, !.save = "write", !.saving = config])
Saves(c, to) == Set(c, [call[c] EXCEPT !.save = to])
WriteNext(c) ==
    /\ call[c].save = "write"
    /\ \/ file' = [file EXCEPT !.next = call[c].saving] /\ Saves(c, "aside") /\ Fine
       \/ file' = [file EXCEPT !.next = None] /\ Saves(c, "failed") /\ Fails
    /\ UNCHANGED <<server, database, worker, overlap>>
MoveAsideUnkept(c) ==
    /\ call[c].save = "aside" /\ file' = [file EXCEPT !.path = None]
    /\ Set(c, [call[c] EXCEPT !.save = "place"]) /\ Fine
    /\ UNCHANGED <<server, database, worker, overlap>>
MoveAside(c) ==
    /\ call[c].save = "aside"
    /\ LET exists == file.path # None
       IN  \/ /\ file' = IF exists THEN [file EXCEPT !.backup = file.path, !.path = None] ELSE file
              /\ Set(c, [call[c] EXCEPT !.save = "place", !.existed = exists]) /\ Fine
           \/ /\ exists /\ file' = [file EXCEPT !.next = None, !.backup = None]
              /\ Saves(c, "failed") /\ Fails
    /\ UNCHANGED <<server, database, worker, overlap>>
PutInPlace(c) ==
    /\ call[c].save = "place"
    /\ LET placed == [file EXCEPT !.path = file.next, !.next = None]
           unmoved == [file EXCEPT !.next = None]
           restored == IF call[c].existed /\ file.backup # None
                       THEN [unmoved EXCEPT !.path = file.backup, !.backup = None] ELSE unmoved
       IN  \/ file.next # None /\ file' = placed /\ Saves(c, "drop") /\ Fine
           \/ file.next = None /\ file' = restored /\ Saves(c, "failed") /\ Fine
           \/ file.next # None /\ file' = restored /\ Saves(c, "failed") /\ Fails
    /\ UNCHANGED <<server, database, worker, overlap>>
DropBackup(c) ==
    /\ call[c].save = "drop"
    /\ file' = [file EXCEPT !.backup = None] /\ Saves(c, "saved")
    /\ UNCHANGED <<server, database, worker, overlap, bound>>
Save(c) == WriteNext(c) \/ MoveAside(c) \/ PutInPlace(c) \/ DropBackup(c)
Saving(c) == call[c].save \in {"write", "aside", "place", "drop"}

\* Recover, which every process runs when it starts, finishes a write that was
\* interrupted or takes it back.
RecoverFrom(f) ==
    IF f.path \in Configs THEN "clean"
    ELSE IF f.next \in Configs THEN "next"
    ELSE IF f.backup \in Configs THEN "backup"
    ELSE "ran"
Recovered(f, from) ==
    CASE from = "clean" -> [f EXCEPT !.next = None, !.backup = None]
      [] from = "next" -> [path |-> f.next, next |-> None, backup |-> None]
      [] from = "backup" -> [path |-> f.backup, next |-> None, backup |-> None]
      [] OTHER -> f

---------------------------------------------------------------------------
(* The setup: all or nothing.                                                *)

\* RequireSetup, and the setup lock.
BeginSetup(c, config, reset) ==
    /\ ~server.configured /\ server.active = None
    /\ \A d \in Callers : call[d].kind # "setup"
    /\ Arrive(c, [NoCall EXCEPT !.kind = "setup", !.at = "probe", !.candidate = config, !.reset = reset])
    /\ UNCHANGED <<file, server, database, worker, overlap>>
\* What a setup did is undone in the opposite order.
UnwindData(c) == Go(c, "compensate")
Unwind(c) == Go(c, IF call[c].initialized THEN "close" ELSE "compensate")
\* The probes change nothing; then the configuration that is there already.
Probe(c) ==
    /\ call[c].at = "probe"
    /\ \/ End(c) \/ Go(c, "check")
    /\ UNCHANGED <<file, server, database, worker, overlap, bound>>
CheckConfiguration(c) ==
    /\ call[c].at = "check"
    /\ server' = [server EXCEPT !.configured = file.path \in Configs]
    /\ IF file.path # None THEN End(c) ELSE Go(c, "inspect")
    /\ UNCHANGED <<file, database, worker, overlap, bound>>
Inspect == IF ~database.migrated THEN "EMPTY"
           ELSE IF database.administrator # "none" /\ database.data THEN "COMPLETE"
           ELSE "PARTIAL"
validateDatabaseDecision(state, action) == state = "EMPTY" \/ "database" \in action
\* What is there may only be cleared when the caller says so.
DecideAndMigrate(c) ==
    /\ call[c].at = "inspect"
    /\ IF (database.assets => "storage" \in call[c].reset) /\ validateDatabaseDecision(Inspect, call[c].reset)
       THEN \/ database' = [database EXCEPT !.migrated = TRUE] /\ Go(c, "clear") /\ Fine
            \/ Unwind(c) /\ Fails /\ UNCHANGED database
       ELSE Unwind(c) /\ Fine /\ UNCHANGED database
    /\ UNCHANGED <<file, server, worker, overlap>>
Reset(db) == [db EXCEPT !.administrator = "none", !.data = FALSE]
ClearData(c) ==
    /\ call[c].at = "clear"
    /\ LET emptied == IF "database" \in call[c].reset THEN Reset(database) ELSE database
       IN  \/ /\ database' = [emptied EXCEPT !.assets = @ /\ "storage" \notin call[c].reset]
              /\ Go(c, "provision") /\ Fine
           \/ database' \in {database, emptied} /\ Unwind(c) /\ Fails
    /\ UNCHANGED <<file, server, worker, overlap>>
Provision(c) ==
    /\ call[c].at = "provision"
    /\ \/ /\ database.administrator = "none"
          /\ database' = [database EXCEPT !.administrator = "new"]
          /\ Set(c, [call[c] EXCEPT !.at = "initialize", !.provisioned = TRUE]) /\ Fine
       \/ database.administrator # "none" /\ Unwind(c) /\ Fine /\ UNCHANGED database
       \/ Unwind(c) /\ Fails /\ UNCHANGED database
    /\ UNCHANGED <<file, server, worker, overlap>>
\* The runtime manager publishes a runtime for the configuration, or keeps the one it has.
Initialize(config) == server' = [server EXCEPT !.active = config, !.generation = @ + 1]
InitializeSetup(c) ==
    /\ call[c].kind = "setup" /\ call[c].at = "initialize"
    /\ \/ /\ Initialize(call[c].candidate) /\ Fine
          /\ Set(c, [call[c] EXCEPT !.at = "save", !.initialized = TRUE, !.save = "write",
                                    !.saving = call[c].candidate])
       \/ Unwind(c) /\ Fails /\ UNCHANGED server
    /\ UNCHANGED <<file, database, worker, overlap>>
FinishSetup(c) ==
    /\ call[c].kind = "setup" /\ call[c].at = "save"
    /\ \/ call[c].save = "saved" /\ server' = [server EXCEPT !.configured = TRUE] /\ End(c)
       \/ call[c].save = "failed" /\ Unwind(c) /\ UNCHANGED server
    /\ UNCHANGED <<file, database, worker, overlap, bound>>
CloseRuntime(c) ==
    /\ call[c].at = "close"
    /\ server' = [server EXCEPT !.active = None] /\ Go(c, "compensate")
    /\ UNCHANGED <<file, database, worker, overlap, bound>>
Compensate(c) ==
    /\ call[c].at = "compensate"
    /\ \/ database' = [database EXCEPT !.administrator = IF call[c].provisioned THEN "none" ELSE @] /\ Fine
       \/ call[c].provisioned /\ Fails /\ UNCHANGED database
    /\ End(c)
    /\ UNCHANGED <<file, server, worker, overlap>>

---------------------------------------------------------------------------
(* Settings, applied to the version the administrator saw. Every runtime has *)
(* a settings service of its own, whose lock admits one change at a time.    *)

BeginApply(c, seen) ==
    /\ server.active # None /\ seen \in {server.generation, server.generation - 1} \ {0}
    /\ Arrive(c, [NoCall EXCEPT !.kind = "apply", !.at = "queue", !.service = server.generation,
                                !.expected = seen])
    /\ UNCHANGED <<file, server, database, worker, overlap>>
Apply(c, config) ==
    /\ call[c].at = "queue"
    /\ \A d \in Callers : (call[d].kind = "apply" /\ call[d].service = call[c].service) => call[d].at = "queue"
    /\ IF server.active = None \/ call[c].expected # server.generation \/ config = server.active THEN End(c) /\ UNCHANGED overlap
       ELSE /\ Set(c, [call[c] EXCEPT !.at = "initialize", !.candidate = config, !.previous = server.active])
            /\ overlap' = overlap \union IF \E d \in Callers \ {c} : call[d].at \notin {"none", "queue"}
                                         THEN {"settings"} ELSE {}
    /\ UNCHANGED <<file, server, database, worker, bound>>
InitializeSettings(c) ==
    /\ call[c].kind = "apply" /\ call[c].at = "initialize"
    /\ \/ Initialize(call[c].candidate) /\ BeginSave(c, call[c].candidate, "save") /\ Fine
       \/ End(c) /\ Fails /\ UNCHANGED server
    /\ UNCHANGED <<file, database, worker, overlap>>
FinishApplyKept(c) ==
    /\ call[c].kind = "apply" /\ call[c].at = "save" /\ call[c].save \in {"saved", "failed"}
    /\ End(c) /\ UNCHANGED <<file, server, database, worker, overlap, bound>>
FinishApply(c) ==
    /\ call[c].kind = "apply" /\ call[c].at = "save"
    /\ \/ call[c].save = "saved" /\ End(c)
       \/ call[c].save = "failed" /\ IF server.active = call[c].candidate THEN Go(c, "back") ELSE End(c)
    /\ UNCHANGED <<file, server, database, worker, overlap, bound>>
InitializeBack(c) ==
    /\ call[c].at = "back"
    /\ \/ Initialize(call[c].previous) /\ Fine
       \/ Fails /\ UNCHANGED server
    /\ BeginSave(c, call[c].previous, "saveBack")
    /\ UNCHANGED <<file, database, worker, overlap>>
FinishBack(c) ==
    /\ call[c].at = "saveBack" /\ call[c].save \in {"saved", "failed"}
    /\ End(c)
    /\ UNCHANGED <<file, server, database, worker, overlap, bound>>

---------------------------------------------------------------------------
(* The processes. The supervisor restarts the worker; it ends with the       *)
(* server, and whoever runs the system starts all of them again.             *)

CrashServer ==
    /\ server.up /\ bound.crashes < MaxCrashes /\ bound' = [bound EXCEPT !.crashes = @ + 1]
    /\ \/ file' = file
       \/ (\E c \in Callers : call[c].save = "write") /\ file' = [file EXCEPT !.next = Torn]
    /\ server' = Down /\ worker' = [worker EXCEPT !.up = FALSE, !.config = None]
    /\ call' = [c \in Callers |-> NoCall]
    /\ UNCHANGED <<database, overlap>>
StartServer ==
    /\ ~server.up
    /\ file' = Recovered(file, RecoverFrom(file))
    /\ server' = [Down EXCEPT !.up = TRUE, !.configured = file'.path \in Configs]
    /\ UNCHANGED <<call, database, worker, overlap, bound>>
InitializeAtStart ==
    /\ server.up /\ server.configured /\ server.generation = 0
    /\ \A c \in Callers : call[c].kind = "none"
    /\ \/ Initialize(file.path) /\ file.path \in Configs /\ Fine
       \/ Fails /\ UNCHANGED server
    /\ UNCHANGED <<file, call, database, worker, overlap>>

StartWorker ==
    /\ server.up /\ ~worker.up
    /\ worker' = [up |-> TRUE, config |-> None, recovery |-> "check"]
    /\ UNCHANGED <<file, server, call, database, overlap, bound>>
ExitWorker == worker' = [worker EXCEPT !.up = FALSE, !.config = None]
CheckFiles ==
    /\ worker.up /\ worker.recovery = "check"
    /\ worker' = [worker EXCEPT !.recovery = RecoverFrom(file)]
    /\ UNCHANGED <<file, server, call, database, overlap, bound>>
RecoverFiles ==
    /\ worker.up /\ worker.recovery \in {"clean", "next", "backup"}
    /\ IF worker.recovery # "clean" /\ file[worker.recovery] = None
       THEN ExitWorker /\ file' = [file EXCEPT !.path = None]
       ELSE worker' = [worker EXCEPT !.recovery = "ran"] /\ file' = Recovered(file, worker.recovery)
    /\ overlap' = overlap \union IF RecoverFrom(file) # worker.recovery \/ \E c \in Callers : Saving(c)
                                 THEN {"recovery"} ELSE {}
    /\ UNCHANGED <<server, call, database, bound>>
\* The worker reads the file every other second. It starts a second set of
\* tasks for a new configuration before it ends the first.
FollowConfiguration ==
    /\ worker.up /\ worker.recovery = "ran" /\ file.path \notin {None, worker.config}
    /\ \/ file.path \in Configs /\ worker' = [worker EXCEPT !.config = file.path] /\ Fine
       \/ Fails /\ IF worker.config = None THEN ExitWorker ELSE UNCHANGED worker
    /\ UNCHANGED <<file, server, call, database, overlap>>
CrashWorker ==
    /\ worker.up /\ bound.crashes < MaxCrashes /\ bound' = [bound EXCEPT !.crashes = @ + 1]
    /\ ExitWorker
    /\ UNCHANGED <<file, server, call, database, overlap>>

Rest ==
    /\ server.up /\ worker.up /\ (\A c \in Callers : call[c].kind = "none")
    /\ UNCHANGED installVars

Setup(c) ==
    \/ Probe(c) \/ CheckConfiguration(c) \/ DecideAndMigrate(c) \/ ClearData(c) \/ Provision(c) \/ InitializeSetup(c) \/ FinishSetup(c)
    \/ CloseRuntime(c) \/ Compensate(c)
Settings(c) ==
    \/ \E config \in Configs : Apply(c, config)
    \/ InitializeSettings(c) \/ FinishApply(c) \/ InitializeBack(c) \/ FinishBack(c)
Server == StartServer \/ InitializeAtStart
Worker == StartWorker \/ CheckFiles \/ RecoverFiles \/ FollowConfiguration
Next ==
    \/ \E c \in Callers, config \in Configs, reset \in SUBSET {"database", "storage"} : BeginSetup(c, config, reset)
    \/ \E c \in Callers, seen \in 0..MaxCalls + MaxFailures : BeginApply(c, seen)
    \/ \E c \in Callers : Setup(c) \/ Settings(c) \/ Save(c)
    \/ Server \/ Worker \/ CrashServer \/ CrashWorker \/ Rest

Spec == Init /\ [][Next]_installVars

---------------------------------------------------------------------------

\* A configuration that was saved is never lost: at every moment a crash would
\* find it, or the one that replaces it, in one of the three files. A process
\* that recovers the file in the middle of a save breaks this, and so do two saves
\* at once: the second clause leaves them out.
ConfigurationKept == server.configured => \E f \in {"path", "next", "backup"} : file[f] \in Configs
ConfigurationSurvives == overlap = {} => ConfigurationKept

\* When no request is under way, the file holds what the server runs: the next
\* start, and the worker, get the settings that were accepted. Two failures of one
\* change, or two changes that overlap, break this.
FileFollowsServer ==
    (/\ server.configured /\ server.active # None
     /\ \A c \in Callers : call[c].kind = "none"
     /\ overlap = {} /\ bound.failures <= 1)
    => file.path = server.active

\* A setup that failed leaves no administrator, no configuration and no runtime,
\* so that it can be tried again, unless its undoing failed or the server crashed;
\* a configured system has its administrator.
SetupAllOrNothing ==
    overlap = {} =>
    /\ (/\ server.up /\ ~server.configured /\ bound.failures <= 1 /\ bound.crashes = 0
        /\ \A c \in Callers : call[c].kind = "none")
       => server.active = None /\ file.path = None /\ database.administrator # "new"
    /\ server.configured => database.administrator = "new"
=============================================================================
