------------------------------- MODULE MCServer -------------------------------
(* The processes of the server, in six parts of which a behaviour chooses one *)
(* at its start: the runtimes that requests are served by (RuntimeManager),   *)
(* the setup and the saving of settings (Installation), what a setting means  *)
(* (Configuration), the streams of events (EventStreams), the start and the   *)
(* end of the worker (WorkerLifecycle), and the budget of its probes, which   *)
(* this module extends (ResourceBudget). The parts share no state.            *)
EXTENDS ResourceBudget, Sequences, TLC

CONSTANTS Null, None, Torn, Blank, Invalid,
          \* runtimes and requests; also the steps of a worker's life that fail
          Runtimes, Requests, MaxFailures,
          \* setup and settings
          Configs,
          Askers,      \* requests for the setup or for other settings
          MaxSetbacks, \* steps of theirs that fail
          MaxCrashes, MaxCalls,
          \* streams of events
          Keys, EndingKeys, Clients, Pollers, Final, Capacity, MaxSubscribers, MaxTopics,
          \* the worker
          Tasks

ASSUME ManagerAssumption ==
    /\ IsFiniteSet(Runtimes) /\ IsFiniteSet(Requests) /\ None \notin Runtimes
    /\ MaxFailures \in Nat
ASSUME InstallAssumption ==
    /\ {None, Torn} \intersect Configs = {} /\ None # Torn
    /\ {MaxSetbacks, MaxCrashes, MaxCalls} \subseteq Nat
ASSUME StreamsAssumption ==
    /\ IsFiniteSet(Keys) /\ IsFiniteSet(Clients) /\ None \notin Keys \union Pollers
    /\ Final \in Nat \ {0} /\ {Capacity, MaxSubscribers, MaxTopics} \subseteq Nat

VARIABLES part,
          rt, active, phase, generation, call, request, retry, failures,
          file, server, setup, database, worker, overlap, bound,
          saved, settings, last, changes,
          value, topics, topic, client, subscribers, closed,
          stage, open, task, service, left, failed

managerVars == <<rt, active, phase, generation, call, request, retry, failures>>
installVars == <<file, server, setup, database, worker, overlap, bound>>
configVars == <<saved, settings, last, changes>>
streamVars == <<value, topics, topic, client, subscribers, closed>>
workerVars == <<stage, open, task, service, left, failed>>

Manager == INSTANCE RuntimeManager

Install == INSTANCE Installation
    WITH call <- setup, Callers <- Askers, MaxFailures <- MaxSetbacks

Streams == INSTANCE EventStreams

Worker == INSTANCE WorkerLifecycle WITH failures <- failed

Answers ==
    [toolsDirectory |-> Null, ffmpegPath |-> Blank, ffprobePath |-> Blank, ipv4Host |-> Blank,
     ipv6Host |-> "::1", ipv4Port |-> 0, ipv6Port |-> 8080, assetDirectory |-> Blank,
     uploadTTL |-> Null, streamTTL |-> 30, maxUploadBytes |-> Null, musicDirectory |-> "music",
     trustedProxies |-> <<>>, databaseConnections |-> 16, sourceMode |-> "READ_ONLY",
     enabled |-> TRUE, syncOnStartup |-> FALSE, scanInterval |-> Null, registration |-> FALSE,
     includePatterns |-> <<"a", Blank, "a">>,
     databaseURL |-> [host |-> "127.0.0.1", port |-> 5432, database |-> "xymusic",
                      username |-> "xymusic", password |-> "xymusic", sslMode |-> "prefer"]]
Inputs ==
    {Answers,
     [Answers EXCEPT !.toolsDirectory = "bin", !.scanInterval = 5, !.maxUploadBytes = 1,
                     !.trustedProxies = <<"10.0.0.1", "::1">>],
     [Answers EXCEPT !.trustedProxies = <<"p">>],
     [Answers EXCEPT !.trustedProxies = [i \in 1..101 |-> "::"]],
     [Answers EXCEPT !.toolsDirectory = Blank, !.ipv4Host = "10.0.0.1", !.ffmpegPath = "own"],
     [Answers EXCEPT !.scanInterval = 4]}

\* Each number just inside its range and just outside, each text blank and not.
Edges ==
    [uploadTTL |-> {59, 60, 86400, 86401}, streamTTL |-> {59, 60, 86400, 86401},
     maxUploadBytes |-> {0, 1, 1073741824, 1073741825}, accessTTL |-> {59, 60, 86400, 86401},
     refreshTTL |-> {3599, 3600, 31536000, 31536001}, ipv4Port |-> {0, 1, 65535, 65536},
     ipv6Port |-> {0, 65535}, databaseConnections |-> {0, 1, 100, 101}, dbPort |-> {0, 1, 65535, 65536}]
Texts == {"dbHost", "dbName", "dbPassword", "sourceName", "musicDirectory", "assetDirectory",
          "toolsDirectory", "ffmpegPath", "ffprobePath"}
Patches ==
    UNION {{f :> v : v \in Edges[f]} : f \in DOMAIN Edges}
    \union {f :> v : f \in Texts, v \in {Blank, "new"}}
    \union {f :> v : f \in {"enabled", "syncOnStartup", "registration"}, v \in BOOLEAN}
    \union {f :> v : f \in {"includePatterns", "excludePatterns"},
                     v \in {<<>>, <<"b", " ", "b", "c">>, <<"b", Blank>>, [i \in 1..101 |-> "b"]}}
    \union {[trustedProxies |-> v] : v \in {<<>>, <<"::1", "10.0.0.1", "::1">>, <<"::1", "p">>,
                                           [i \in 1..100 |-> "::"], [i \in 1..101 |-> "::"]}}
    \union {[scanInterval |-> v] : v \in {Null, 4, 5}}
    \union {[ipv4Host |-> "10.0.0.1", ipv6Host |-> "::"], [dbSSL |-> "require", dbUser |-> "u"],
            [dbSSL |-> "any"], [sourceMode |-> "READ_WRITE"],
            [toolsDirectory |-> "new", ffmpegPath |-> "own"],
            [ffmpegPath |-> Blank, ffprobePath |-> "own"],
            [assetDirectory |-> "a", maxUploadBytes |-> 5, registration |-> TRUE, dbPort |-> 1]}
FileEdits ==
    {<<"TAG_SCRAPING_WORKERS", 64>>, <<"TAG_SCRAPING_CLAIM_WINDOW", 7>>, <<"MEDIA_TOOLS_MODE", Blank>>,
     <<"DATABASE_URL", Blank>>, <<"HTTP_IPV4_PORT", Invalid>>, <<"NODE_ENV", "test">>,
     <<"ACCESS_TOKEN_SECRET", Blank>>, <<"MEDIA_UPLOAD_TTL_SECONDS", 30>>, <<"FFMPEG_PATH", Blank>>}
Config == INSTANCE Configuration
    WITH active <- settings, Processors <- 4, Inputs <- Inputs, Patches <- Patches,
         Edits <- FileEdits, MaxChanges <- 1

MCInit ==
    /\ part \in {"runtimes", "setup", "settings", "streams", "worker", "budget"}
    /\ Manager!Init /\ Install!Init /\ Config!Init /\ Streams!Init /\ Worker!Init /\ Init
    \* A part that is not explored starts in one state.
    /\ part # "runtimes" => phase = "STARTING"
    /\ part # "setup" => database = [migrated |-> FALSE, administrator |-> "none",
                                     data |-> FALSE, assets |-> FALSE]

MCNext ==
    \/ /\ part = "runtimes" /\ Manager!Next
       /\ UNCHANGED <<part, installVars, configVars, streamVars, workerVars, vars>>
    \/ /\ part = "setup" /\ Install!Next
       /\ UNCHANGED <<part, managerVars, configVars, streamVars, workerVars, vars>>
    \/ /\ part = "settings" /\ Config!Next
       /\ UNCHANGED <<part, managerVars, installVars, streamVars, workerVars, vars>>
    \/ /\ part = "streams" /\ Streams!Next
       /\ UNCHANGED <<part, managerVars, installVars, configVars, workerVars, vars>>
    \/ /\ part = "worker" /\ Worker!Next
       /\ UNCHANGED <<part, managerVars, installVars, configVars, streamVars, vars>>
    \/ /\ part = "budget" /\ Next
       /\ UNCHANGED <<part, managerVars, installVars, configVars, streamVars, workerVars>>

MCSpec == MCInit /\ [][MCNext]_<<part, managerVars, installVars, configVars, streamVars, workerVars, vars>>

TypesOK ==
    /\ Manager!TypeOK /\ Install!TypeOK /\ Config!TypeOK
    /\ Streams!TypeOK /\ Worker!TypeOK /\ TypeOK

(* Requests are served by runtimes that are open, READY is said only of one,  *)
(* and whatever runs in the worker finds its database open; a start or an end *)
(* that failed half-way leaves nothing behind.                                *)
RuntimesAreWhole ==
    Manager!ServedByOpenRuntime /\ Manager!ReadyIsServed /\ Worker!NothingLeftBehind

(* The saved configuration survives crashes, the file is what the server      *)
(* runs, and a setup that fails undoes what it did.                           *)
InstallationHolds ==
    Install!ConfigurationSurvives /\ Install!FileFollowsServer /\ Install!SetupAllOrNothing

(* What is saved is what runs, and a change changes what it was asked to.     *)
SettingsHold == Config!SavedIsActive /\ Config!ChangeIsApplied

(* Whoever follows a topic has its last state, and the limits count whoever   *)
(* is there.                                                                  *)
StreamsAgree == Streams!ClientsUpToDate /\ Streams!SubscribersCounted

Alike == Permutations(Runtimes) \union Permutations(Requests) \union Permutations(Pollers)
==============================================================================
