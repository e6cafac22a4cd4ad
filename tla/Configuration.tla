--------------------------- MODULE Configuration ---------------------------
(* What a configuration is made of, and its way through the environment file *)
(* (config/config.go, config/store.go), from the setup that writes the first *)
(* one (modules/setup) to the settings an administrator changes              *)
(* (modules/adminsettings/config_merge.go). A key's text stands for the      *)
(* value it spells; what spells none is Invalid.                               *)
EXTENDS Integers, Sequences, TLC

CONSTANTS Processors,   \* GOMAXPROCS
          Inputs,       \* what an operator enters in the setup: a record of answers
          Patches,      \* changes of settings: functions from settings to values
          Edits,        \* edits of the file by hand: pairs of a key and a text
          Null,         \* no value: a setting that is off
          Blank,        \* the empty text
          Invalid,      \* a text that does not spell a value of the kind expected, a failed result
          MaxChanges    \* bound: accepted changes and edits

VARIABLES saved,   \* the environment file: a function from keys to texts, empty when there is none
          active,  \* the configuration the service runs with, Null when it does not run
          last,    \* the change accepted last, and the configuration it started from
          changes

configurationVars == <<saved, active, last, changes>>

Least(a, b) == IF a < b THEN a ELSE b
Most(a, b) == IF a < b THEN b ELSE a
defaultScrapingClaimWindow(workers) == Least(64, Most(1, workers * 4))
defaultDatabaseConnections(total) == Most(16, Least(100, total + 4))

\* field |-> <<key, smallest, largest, default>>
Numbers ==
    [ipv4Port |-> <<"HTTP_IPV4_PORT", 1, 65535, 3000>>,
     ipv6Port |-> <<"HTTP_IPV6_PORT", 1, 65535, 3000>>,
     accessTTL |-> <<"ACCESS_TOKEN_TTL_SECONDS", 60, 86400, 900>>,
     refreshTTL |-> <<"REFRESH_TOKEN_TTL_SECONDS", 3600, 31536000, 2592000>>,
     uploadTTL |-> <<"MEDIA_UPLOAD_TTL_SECONDS", 30, 86400, 300>>,
     streamTTL |-> <<"MEDIA_STREAM_TTL_SECONDS", 30, 86400, 900>>,
     maxUploadBytes |-> <<"MEDIA_MAX_UPLOAD_BYTES", 1, 1073741824, 1073741824>>,
     scanWorkers |-> <<"LOCAL_MUSIC_SCAN_WORKERS", 1, 256, Most(8, Least(128, Processors * 4))>>,
     scanCommitWorkers |-> <<"LOCAL_MUSIC_SCAN_COMMIT_WORKERS", 1, 64, Most(4, Least(16, Processors * 2))>>,
     scanCommitBatchSize |-> <<"LOCAL_MUSIC_SCAN_COMMIT_BATCH_SIZE", 1, 64, 32>>,
     scanProbeWorkers |-> <<"LOCAL_MUSIC_SCAN_PROBE_WORKERS", 1, 128, Most(8, Least(64, Processors * 4))>>,
     ffmpegThreads |-> <<"MEDIA_FFMPEG_THREADS", 0, 64, 0>>,
     batchWorkers |-> <<"TAG_SCRAPING_WORKERS", 1, 64, 8>>,
     requestWorkers |-> <<"TAG_SCRAPING_REQUEST_WORKERS", 1, 64, 6>>,
     artworkWorkers |-> <<"TAG_SCRAPING_ARTWORK_WORKERS", 1, 32, 2>>,
     writebackWorkers |-> <<"TAG_WRITEBACK_WORKERS", 1, 32, 2>>]
\* The windows are at least as large as the number of workers they feed.
Windows == [batchClaimWindow |-> <<"TAG_SCRAPING_CLAIM_WINDOW", "batchWorkers">>,
            artworkClaimWindow |-> <<"TAG_SCRAPING_ARTWORK_CLAIM_WINDOW", "artworkWorkers">>]
Texts ==
    [migrations |-> <<"MIGRATIONS_DIRECTORY", "migrations">>, adminWeb |-> <<"ADMIN_WEB_DIRECTORY", "web">>,
     toolsDirectory |-> <<"MEDIA_TOOLS_DIRECTORY", "tools">>, musicDirectory |-> <<"LOCAL_MUSIC_DIRECTORY", "music">>,
     assetDirectory |-> <<"MEDIA_ASSET_DIRECTORY", "assets">>, sourceName |-> <<"LOCAL_MUSIC_SOURCE_NAME", "Music">>,
     ipv4Host |-> <<"HTTP_IPV4_HOST", "0.0.0.0">>, ipv6Host |-> <<"HTTP_IPV6_HOST", "::">>,
     ffmpegPath |-> <<"FFMPEG_PATH", "ffmpeg">>, ffprobePath |-> <<"FFPROBE_PATH", "ffprobe">>]
Secrets == [accessSecret |-> "ACCESS_TOKEN_SECRET", idempotencySecret |-> "IDEMPOTENCY_ENCRYPTION_SECRET",
            cursorSecret |-> "CURSOR_SIGNING_SECRET", ticketSecret |-> "PLAYBACK_TICKET_SECRET"]
Flags == [registration |-> <<"REGISTRATION_ENABLED", FALSE>>, enabled |-> <<"LOCAL_MUSIC_SOURCE_ENABLED", TRUE>>,
          syncOnStartup |-> <<"LOCAL_MUSIC_SYNC_ON_STARTUP", TRUE>>]
Choices == [environment |-> <<"NODE_ENV", {"development", "test", "production"}, "development">>,
            sourceMode |-> <<"LOCAL_MUSIC_SOURCE_MODE", {"READ_ONLY", "READ_WRITE"}, "READ_ONLY">>]
Lists == [includePatterns |-> "LOCAL_MUSIC_INCLUDE_PATTERNS", excludePatterns |-> "LOCAL_MUSIC_EXCLUDE_PATTERNS",
          trustedProxies |-> "HTTP_TRUSTED_PROXY_ADDRESSES"]
IPv4 == {"0.0.0.0", "10.0.0.1"}
IPv6 == {"::", "::1"}

---------------------------------------------------------------------------
(* Parse: from the environment to a configuration, or an error.              *)

Has(env, key) == key \in DOMAIN env
raw(env, key) == IF Has(env, key) THEN env[key] ELSE Blank
value(env, key, fallback) == IF raw(env, key) = Blank THEN fallback ELSE env[key]
Spelled(x) == x \notin {Blank, Invalid}
InRange(x, low, high) == IF Spelled(x) THEN x \in low..high ELSE FALSE
integer(env, key, fallback) == IF Has(env, key) THEN env[key] ELSE fallback
boolean(env, key, fallback) == IF Has(env, key) THEN env[key] ELSE fallback
nullableInteger(env, key) == IF raw(env, key) = Blank THEN Null ELSE env[key]
\* Entries of spaces only and repetitions are dropped.
Spaces == {Blank, " "}
ItemsOf(list) == {list[i] : i \in DOMAIN list}
unique(list) ==
    LET Keep[i \in 0..Len(list)] ==
            IF i = 0 THEN <<>>
            ELSE LET kept == Keep[i - 1]
                 IN  IF list[i] \in Spaces \union ItemsOf(kept) THEN kept ELSE Append(kept, list[i])
    IN  Keep[Len(list)]
stringArray(env, key) == IF raw(env, key) = Blank THEN <<>> ELSE unique(env[key])

ParsedNumbers(env) ==
    LET number == [f \in DOMAIN Numbers |-> integer(env, Numbers[f][1], Numbers[f][4])]
    IN  IF \A f \in DOMAIN Numbers : InRange(number[f], Numbers[f][2], Numbers[f][3]) THEN number ELSE Invalid
ParsedWindows(env, number) ==
    LET Fed(w) == number[Windows[w][2]]
        window == [w \in DOMAIN Windows |-> integer(env, Windows[w][1], defaultScrapingClaimWindow(Fed(w)))]
    IN  IF \A w \in DOMAIN Windows : InRange(window[w], Fed(w), 256) THEN window ELSE Invalid
ActiveWorkers(number) ==
    number.scanCommitWorkers + number.batchWorkers + number.artworkWorkers + number.writebackWorkers
LocalDatabase == [host |-> "127.0.0.1", port |-> 5432, database |-> "xymusic", username |-> "xymusic",
                  password |-> "xymusic", sslMode |-> Null]
ParsedDatabase(env, production, number) ==
    LET url == IF raw(env, "DATABASE_URL") = Blank /\ ~production THEN LocalDatabase ELSE raw(env, "DATABASE_URL")
        connections == integer(env, "DATABASE_MAX_CONNECTIONS", defaultDatabaseConnections(ActiveWorkers(number)))
    IN  IF Spelled(url) /\ InRange(connections, 1, 100)
        THEN [databaseURL |-> url, databaseConnections |-> connections] ELSE Invalid
ParsedSecrets(env, production) ==
    LET secret == [s \in DOMAIN Secrets |->
                     IF raw(env, Secrets[s]) = Blank /\ ~production THEN "derived" ELSE raw(env, Secrets[s])]
    IN  IF \A s \in DOMAIN Secrets : Spelled(secret[s]) THEN secret ELSE Invalid
ParsedMode(env) ==
    IF raw(env, "MEDIA_TOOLS_MODE") # Blank THEN env["MEDIA_TOOLS_MODE"]
    ELSE IF /\ raw(env, "FFMPEG_PATH") = Blank /\ raw(env, "FFPROBE_PATH") = Blank
            /\ raw(env, "MEDIA_TOOLS_DIRECTORY") # Blank
    THEN "DIRECTORY" ELSE "ADVANCED"
ParsedTexts(env) ==
    LET text == [f \in DOMAIN Texts |-> value(env, Texts[f][1], Texts[f][2])]
    IN  IF text.ipv4Host \in IPv4 /\ text.ipv6Host \in IPv6 THEN text ELSE Invalid
ParsedLibrary(env) ==
    LET flag == [f \in DOMAIN Flags |-> boolean(env, Flags[f][1], Flags[f][2])]
        choice == [f \in DOMAIN Choices |-> value(env, Choices[f][1], Choices[f][3])]
        interval == nullableInteger(env, "LOCAL_MUSIC_SCAN_INTERVAL_MINUTES")
    IN  IF /\ \A f \in DOMAIN Flags : flag[f] \in BOOLEAN
           /\ \A f \in DOMAIN Choices : choice[f] \in Choices[f][2]
           /\ interval # Null => InRange(interval, 5, 10080)
           /\ \A l \in DOMAIN Lists : raw(env, Lists[l]) # Invalid
           /\ ParsedMode(env) \in {"DIRECTORY", "ADVANCED"}
        THEN flag @@ choice @@ [l \in DOMAIN Lists |-> stringArray(env, Lists[l])]
             @@ [scanInterval |-> interval, mediaMode |-> ParsedMode(env)]
        ELSE Invalid
Parse(env) ==
    LET number == ParsedNumbers(env)
        production == value(env, "NODE_ENV", "development") = "production"
        Rest(first) == {ParsedWindows(env, first), ParsedDatabase(env, production, first)}
        others == {ParsedSecrets(env, production), ParsedTexts(env), ParsedLibrary(env)}
    IN  IF number = Invalid THEN Invalid
        ELSE IF Invalid \in Rest(number) \union others THEN Invalid
        ELSE number @@ ParsedWindows(env, number) @@ ParsedDatabase(env, production, number)
             @@ ParsedSecrets(env, production) @@ ParsedTexts(env) @@ ParsedLibrary(env)

---------------------------------------------------------------------------
(* ToEnvironment and Save: what is written. Numbers that were never set are  *)
(* zero in a configuration and are written as their defaults.                *)

Positive(n, fallback) == IF n <= 0 THEN fallback ELSE n
AtLeast(n, workers) == IF n < workers THEN defaultScrapingClaimWindow(workers) ELSE n
\* The numbers ToEnvironment replaces when they are not positive.
Filled == {"scanWorkers", "scanCommitWorkers", "scanCommitBatchSize", "scanProbeWorkers", "batchWorkers",
           "requestWorkers", "artworkWorkers", "writebackWorkers", "uploadTTL", "streamTTL"}
FilledNumbers(c) ==
    [f \in DOMAIN Numbers |-> IF f \in Filled THEN Positive(c[f], Numbers[f][4])
                              ELSE IF f = "ffmpegThreads" THEN Most(0, c[f]) ELSE c[f]]
ToEnvironment(c) ==
    LET number == FilledNumbers(c)
        Keyed(table, Key(_), Text(_)) ==
            [k \in {Key(f) : f \in DOMAIN table} |-> Text(CHOOSE f \in DOMAIN table : Key(f) = k)]
    IN  Keyed(Numbers, LAMBDA f : Numbers[f][1], LAMBDA f : number[f])
        @@ Keyed(Windows, LAMBDA f : Windows[f][1], LAMBDA f : AtLeast(c[f], number[Windows[f][2]]))
        @@ Keyed(Texts, LAMBDA f : Texts[f][1], LAMBDA f : c[f])
        @@ Keyed(Secrets, LAMBDA f : Secrets[f], LAMBDA f : c[f])
        @@ Keyed(Flags, LAMBDA f : Flags[f][1], LAMBDA f : c[f])
        @@ Keyed(Choices, LAMBDA f : Choices[f][1], LAMBDA f : c[f])
        @@ Keyed(Lists, LAMBDA f : Lists[f], LAMBDA f : c[f])
        @@ [DATABASE_URL |-> c.databaseURL, MEDIA_TOOLS_MODE |-> c.mediaMode,
            DATABASE_MAX_CONNECTIONS |->
                Positive(c.databaseConnections, defaultDatabaseConnections(ActiveWorkers(number))),
            LOCAL_MUSIC_SCAN_INTERVAL_MINUTES |-> IF c.scanInterval = Null THEN Blank ELSE c.scanInterval]
SavedKeysOfOneFamily ==
    {Numbers[f][1] : f \in DOMAIN Numbers \ {"ipv6Port"}} \union {Texts[f][1] : f \in DOMAIN Texts}
    \union {Secrets[f] : f \in DOMAIN Secrets} \union {"NODE_ENV", "DATABASE_URL", "DATABASE_MAX_CONNECTIONS"}
\* The file holds these keys and no others.
SavedKeys ==
    {"NODE_ENV", "MIGRATIONS_DIRECTORY", "ADMIN_WEB_DIRECTORY", "MEDIA_TOOLS_DIRECTORY", "MEDIA_TOOLS_MODE",
     "LOCAL_MUSIC_DIRECTORY", "MEDIA_ASSET_DIRECTORY", "HTTP_IPV4_HOST", "HTTP_IPV4_PORT", "HTTP_IPV6_HOST",
     "HTTP_IPV6_PORT", "HTTP_TRUSTED_PROXY_ADDRESSES", "DATABASE_URL", "DATABASE_MAX_CONNECTIONS",
     "ACCESS_TOKEN_SECRET", "IDEMPOTENCY_ENCRYPTION_SECRET", "CURSOR_SIGNING_SECRET", "PLAYBACK_TICKET_SECRET",
     "ACCESS_TOKEN_TTL_SECONDS", "REFRESH_TOKEN_TTL_SECONDS", "MEDIA_UPLOAD_TTL_SECONDS",
     "MEDIA_STREAM_TTL_SECONDS", "MEDIA_MAX_UPLOAD_BYTES", "FFMPEG_PATH", "FFPROBE_PATH", "MEDIA_FFMPEG_THREADS",
     "LOCAL_MUSIC_SOURCE_NAME", "LOCAL_MUSIC_SOURCE_MODE", "LOCAL_MUSIC_SOURCE_ENABLED",
     "LOCAL_MUSIC_SYNC_ON_STARTUP", "LOCAL_MUSIC_SCAN_INTERVAL_MINUTES", "LOCAL_MUSIC_INCLUDE_PATTERNS",
     "LOCAL_MUSIC_EXCLUDE_PATTERNS", "LOCAL_MUSIC_SCAN_WORKERS", "LOCAL_MUSIC_SCAN_COMMIT_WORKERS",
     "LOCAL_MUSIC_SCAN_COMMIT_BATCH_SIZE", "LOCAL_MUSIC_SCAN_PROBE_WORKERS", "TAG_SCRAPING_WORKERS",
     "TAG_SCRAPING_REQUEST_WORKERS", "TAG_SCRAPING_CLAIM_WINDOW", "TAG_SCRAPING_ARTWORK_WORKERS",
     "TAG_SCRAPING_ARTWORK_CLAIM_WINDOW", "TAG_WRITEBACK_WORKERS", "REGISTRATION_ENABLED"}
Save(c) == LET env == ToEnvironment(c) IN saved' = [k \in SavedKeys |-> IF k \in DOMAIN env THEN env[k] ELSE Blank]
ApplyEnvironment(c, overrides) == Parse(overrides @@ ToEnvironment(c))

---------------------------------------------------------------------------
(* buildConfig: the first configuration.                                     *)

Trimmed(x, fallback) == IF x = Blank THEN fallback ELSE x
\* A directory of tools, or paths, or the tools the system finds.
MediaAnswer(in) ==
    CASE in.toolsDirectory = Null ->
           [toolsDirectory |-> "tools", mediaMode |-> "ADVANCED", ffmpegPath |-> in.ffmpegPath, ffprobePath |-> in.ffprobePath]
      [] in.toolsDirectory = Blank ->
           [toolsDirectory |-> "tools", mediaMode |-> "ADVANCED", ffmpegPath |-> "ffmpeg", ffprobePath |-> "ffprobe"]
      [] OTHER ->
           [toolsDirectory |-> in.toolsDirectory, mediaMode |-> "DIRECTORY",
            ffmpegPath |-> in.toolsDirectory \o "/ffmpeg", ffprobePath |-> in.toolsDirectory \o "/ffprobe"]
validateHTTP(in) ==
    /\ Trimmed(in.ipv4Host, "0.0.0.0") \in IPv4 /\ Trimmed(in.ipv6Host, "::") \in IPv6
    /\ in.ipv4Port \in 0..65535 /\ in.ipv6Port \in 0..65535
    /\ Len(in.trustedProxies) <= 100 /\ ItemsOf(in.trustedProxies) \subseteq IPv4 \union IPv6
normalizedHTTPListeners(in) ==
    [ipv4Host |-> Trimmed(in.ipv4Host, "0.0.0.0"), ipv6Host |-> Trimmed(in.ipv6Host, "::"),
     ipv4Port |-> IF in.ipv4Port = 0 THEN 3000 ELSE in.ipv4Port,
     ipv6Port |-> IF in.ipv6Port = 0 THEN 3000 ELSE in.ipv6Port]
storageConfig(in) ==
    [assetDirectory |-> "/root/" \o Trimmed(in.assetDirectory, "assets"),
     uploadTTL |-> IF in.uploadTTL = Null THEN 3600 ELSE in.uploadTTL,
     streamTTL |-> IF in.streamTTL = Null THEN 1800 ELSE in.streamTTL,
     maxUploadBytes |-> IF in.maxUploadBytes = Null THEN 1073741824 ELSE in.maxUploadBytes]
Unset == [f \in Filled \ {"uploadTTL", "streamTTL"} |-> 0]
         @@ [ffmpegThreads |-> 0, batchClaimWindow |-> 0, artworkClaimWindow |-> 0]
buildConfig(in) ==
    IF ~validateHTTP(in) \/ in.databaseURL \in {Blank, Invalid} \/ in.databaseConnections \notin 1..100 THEN Invalid
    ELSE Parse(ToEnvironment(
           MediaAnswer(in) @@ normalizedHTTPListeners(in) @@ storageConfig(in) @@ Unset
           @@ [s \in DOMAIN Secrets |-> "generated"]
           @@ [environment |-> "production", migrations |-> "migrations", adminWeb |-> "web",
               musicDirectory |-> in.musicDirectory, trustedProxies |-> in.trustedProxies,
               databaseURL |-> in.databaseURL, databaseConnections |-> in.databaseConnections,
               accessTTL |-> 900, refreshTTL |-> 2592000, sourceName |-> "Music", sourceMode |-> in.sourceMode,
               enabled |-> in.enabled, syncOnStartup |-> in.syncOnStartup, scanInterval |-> in.scanInterval,
               includePatterns |-> in.includePatterns, excludePatterns |-> <<>>,
               registration |-> in.registration]))

---------------------------------------------------------------------------
(* mergeSettings: a change, one section after the other, each of them        *)
(* refused as a whole when one of its values is not legal.                   *)

\* setting |-> <<key, smallest, largest>>
Ranges == [uploadTTL |-> <<60, 86400>>, streamTTL |-> <<60, 86400>>, maxUploadBytes |-> <<1, 1073741824>>,
           accessTTL |-> <<60, 86400>>, refreshTTL |-> <<3600, 31536000>>, ipv4Port |-> <<1, 65535>>,
           ipv6Port |-> <<1, 65535>>, databaseConnections |-> <<1, 100>>, dbPort |-> <<1, 65535>>]
Section(p, settings) == [f \in settings \intersect DOMAIN p |-> p[f]]
LegalNumbers(p) == \A f \in DOMAIN Ranges \intersect DOMAIN p : InRange(p[f], Ranges[f][1], Ranges[f][2])
Overridden(p, KeyOf) == [k \in {KeyOf[f] : f \in DOMAIN p \intersect DOMAIN KeyOf} |->
                            p[CHOOSE f \in DOMAIN p \intersect DOMAIN KeyOf : KeyOf[f] = k]]
Merge(c, p, legal, overrides) ==
    IF c = Invalid \/ DOMAIN p = {} THEN c
    ELSE IF ~legal THEN Invalid
    ELSE ApplyEnvironment(c, overrides)

DatabasePart == [dbHost |-> "host", dbPort |-> "port", dbName |-> "database", dbUser |-> "username",
                 dbPassword |-> "password", dbSSL |-> "sslMode"]
mergeDatabaseRedacted(c, p) ==
    Merge(c, p, LegalNumbers(p),
          [DATABASE_URL |-> Overridden(p, DatabasePart) @@ [c.databaseURL EXCEPT !.password = Null]]
          @@ Overridden(p, [databaseConnections |-> "DATABASE_MAX_CONNECTIONS"]))
\* The parts that are not given keep their values: above all the password,
\* which is never shown and so never sent back.
mergeDatabase(c, p) ==
    Merge(c, p,
          /\ \A f \in {"dbHost", "dbName", "dbUser"} \intersect DOMAIN p : p[f] # Blank
          /\ LegalNumbers(p) /\ ("dbSSL" \in DOMAIN p => p.dbSSL \in {"disable", "prefer", "require", "verify-full"}),
          [DATABASE_URL |-> Overridden(p, DatabasePart) @@ c.databaseURL]
          @@ Overridden(p, [databaseConnections |-> "DATABASE_MAX_CONNECTIONS"]))
\* The key of the largest upload is not the one that Parse reads.
StorageKeys == [assetDirectory |-> "MEDIA_ASSET_DIRECTORY", uploadTTL |-> "MEDIA_UPLOAD_TTL_SECONDS",
                streamTTL |-> "MEDIA_STREAM_TTL_SECONDS", maxUploadBytes |-> "MAX_UPLOAD_BYTES"]
mergeStorage(c, p) ==
    Merge(c, p, LegalNumbers(p) /\ ("assetDirectory" \in DOMAIN p => p.assetDirectory # Blank),
          Overridden(p, StorageKeys))
ToolPathsInOldMode(p) ==
    IF "toolsDirectory" \notin DOMAIN p
    THEN Overridden(p, [ffmpegPath |-> "FFMPEG_PATH", ffprobePath |-> "FFPROBE_PATH"])
    ELSE [MEDIA_TOOLS_DIRECTORY |-> p.toolsDirectory, MEDIA_TOOLS_MODE |-> "DIRECTORY"]
\* A directory decides for both tools, and paths for themselves only without one.
ToolPaths(p) ==
    IF "toolsDirectory" \notin DOMAIN p
    THEN [MEDIA_TOOLS_MODE |-> "ADVANCED"]
         @@ Overridden(p, [ffmpegPath |-> "FFMPEG_PATH", ffprobePath |-> "FFPROBE_PATH"])
    ELSE IF p.toolsDirectory = Blank
    THEN [MEDIA_TOOLS_MODE |-> "ADVANCED", FFMPEG_PATH |-> Blank, FFPROBE_PATH |-> Blank]
    ELSE [MEDIA_TOOLS_DIRECTORY |-> p.toolsDirectory, MEDIA_TOOLS_MODE |-> "DIRECTORY",
          FFMPEG_PATH |-> p.toolsDirectory \o "/ffmpeg", FFPROBE_PATH |-> p.toolsDirectory \o "/ffprobe"]
mergeMediaTools(c, p) == Merge(c, p, TRUE, ToolPaths(p))
OtherKeys ==
    [sourceName |-> "LOCAL_MUSIC_SOURCE_NAME", musicDirectory |-> "LOCAL_MUSIC_DIRECTORY",
     sourceMode |-> "LOCAL_MUSIC_SOURCE_MODE", enabled |-> "LOCAL_MUSIC_SOURCE_ENABLED",
     syncOnStartup |-> "LOCAL_MUSIC_SYNC_ON_STARTUP", includePatterns |-> "LOCAL_MUSIC_INCLUDE_PATTERNS",
     excludePatterns |-> "LOCAL_MUSIC_EXCLUDE_PATTERNS", registration |-> "REGISTRATION_ENABLED",
     accessTTL |-> "ACCESS_TOKEN_TTL_SECONDS", refreshTTL |-> "REFRESH_TOKEN_TTL_SECONDS",
     ipv4Host |-> "HTTP_IPV4_HOST", ipv4Port |-> "HTTP_IPV4_PORT", ipv6Host |-> "HTTP_IPV6_HOST",
     ipv6Port |-> "HTTP_IPV6_PORT", trustedProxies |-> "HTTP_TRUSTED_PROXY_ADDRESSES",
     scanInterval |-> "LOCAL_MUSIC_SCAN_INTERVAL_MINUTES"]
\* An empty pattern is refused, one of spaces is taken and dropped as it is read.
LegalLists(p) ==
    /\ \A l \in DOMAIN Lists \intersect DOMAIN p : Len(p[l]) <= 100
    /\ \A l \in {"includePatterns", "excludePatterns"} \intersect DOMAIN p : Blank \notin ItemsOf(p[l])
    /\ "trustedProxies" \in DOMAIN p => ItemsOf(p.trustedProxies) \subseteq IPv4 \union IPv6
LegalOthers(p) ==
    /\ \A f \in {"sourceName", "musicDirectory"} \intersect DOMAIN p : p[f] # Blank
    /\ "sourceMode" \in DOMAIN p => p.sourceMode \in Choices.sourceMode[2]
    /\ "scanInterval" \in DOMAIN p => p.scanInterval = Null \/ InRange(p.scanInterval, 5, 10080)
    /\ "ipv4Host" \in DOMAIN p => p.ipv4Host \in IPv4
    /\ "ipv6Host" \in DOMAIN p => p.ipv6Host \in IPv6
    /\ LegalNumbers(p) /\ LegalLists(p)
Spell(overrides) == [k \in DOMAIN overrides |->
                       IF overrides[k] = Null THEN Blank ELSE overrides[k]]
mergeSettings(c, p) ==
    LET database == Section(p, DOMAIN DatabasePart \union {"databaseConnections"})
        others == Section(p, DOMAIN OtherKeys)
        media == mergeMediaTools(mergeStorage(mergeDatabase(c, database), Section(p, DOMAIN StorageKeys)),
                                 Section(p, {"toolsDirectory", "ffmpegPath", "ffprobePath"}))
    IN  IF media = Invalid \/ ~LegalOthers(others) THEN Invalid
        ELSE ApplyEnvironment(media, Spell(Overridden(others, OtherKeys)))
changedFields(before, after) ==
    {f \in {"databaseURL", "databaseConnections", "assetDirectory", "uploadTTL", "streamTTL", "maxUploadBytes",
            "ffmpegPath", "mediaMode", "ffprobePath", "sourceName", "musicDirectory", "sourceMode", "enabled",
            "syncOnStartup", "scanInterval", "includePatterns", "excludePatterns", "registration", "accessTTL",
            "refreshTTL", "ipv4Host", "ipv4Port", "ipv6Host", "ipv6Port", "trustedProxies"} : before[f] # after[f]}

---------------------------------------------------------------------------

NoChange == [patch |-> <<>>, before |-> Null]
Init == saved = <<>> /\ active = Null /\ last = NoChange /\ changes = 0
Counted == changes < MaxChanges /\ changes' = changes + 1

Setup(in) ==
    /\ saved = <<>> /\ buildConfig(in) # Invalid
    /\ active' = buildConfig(in) /\ Save(active') /\ last' = NoChange
    /\ UNCHANGED changes
\* An administrator's change, and the file it is saved in.
Apply(p) ==
    /\ active # Null /\ Counted
    /\ LET candidate == mergeSettings(active, p)
       IN  IF candidate = Invalid THEN FALSE
           ELSE /\ changedFields(active, candidate) # {}
                /\ active' = candidate /\ Save(candidate)
                /\ last' = [patch |-> p, before |-> active]
EditFile(key, text) ==
    /\ active = Null /\ key \in DOMAIN saved /\ saved[key] # text /\ Counted
    /\ saved' = [saved EXCEPT ![key] = text] /\ last' = NoChange
    /\ UNCHANGED active
Stop == active # Null /\ active' = Null /\ last' = NoChange /\ UNCHANGED <<saved, changes>>
\* Load: a file that is not a configuration keeps the service from starting.
Start ==
    /\ active = Null /\ saved # <<>>
    /\ IF raw(saved, "DATABASE_URL") = Blank THEN UNCHANGED active
       ELSE active' = IF Parse(saved) = Invalid THEN Null ELSE Parse(saved)
    /\ UNCHANGED <<saved, last, changes>>

Next ==
    \/ \E in \in Inputs : Setup(in)
    \/ \E p \in Patches : Apply(p)
    \/ \E e \in Edits : EditFile(e[1], e[2])
    \/ Stop \/ Start
Spec == Init /\ [][Next]_configurationVars

---------------------------------------------------------------------------

TypeOK == changes \in 0..MaxChanges /\ (saved = <<>> \/ DOMAIN saved = SavedKeys)

\* What is saved is what runs: a restart, and the worker process, which reads the
\* file, get the very configuration that was accepted.
SavedIsActive == active # Null => Parse(saved) = active

\* What a change asks for is what runs after it, and every other setting is what
\* it was. Asked for are the values themselves, but for: lists, whose entries of
\* spaces and repetitions are dropped; parts of the database's address; the largest
\* upload, which a change is checked for but never changes; and the tools. A
\* directory decides for both tools and the paths given beside it are ignored, no
\* directory means the tools the system finds, and paths are taken as they are, the
\* one that is not given kept (modules/adminsettings/config_merge.go).
Asked(f) == IF f \in DOMAIN Lists THEN unique(last.patch[f]) ELSE last.patch[f]
ToolsAsked ==
    LET p == last.patch
        b == last.before
        Path(f, found) == IF f \notin DOMAIN p THEN b[f] ELSE IF p[f] = Blank THEN found ELSE p[f]
    IN  CASE "toolsDirectory" \in DOMAIN p ->
               IF p.toolsDirectory = Blank THEN <<b.toolsDirectory, "ADVANCED", "ffmpeg", "ffprobe">>
               ELSE <<p.toolsDirectory, "DIRECTORY", p.toolsDirectory \o "/ffmpeg", p.toolsDirectory \o "/ffprobe">>
          [] OTHER ->
               <<b.toolsDirectory,
                 IF {"ffmpegPath", "ffprobePath"} \intersect DOMAIN p = {} THEN b.mediaMode ELSE "ADVANCED",
                 Path("ffmpegPath", "ffmpeg"), Path("ffprobePath", "ffprobe")>>
Tools == {"toolsDirectory", "mediaMode", "ffmpegPath", "ffprobePath"}
ChangeIsApplied ==
    last.before # Null =>
    /\ \A f \in DOMAIN active \ (Tools \union {"databaseURL"}) :
          active[f] = IF f \in DOMAIN last.patch \ {"maxUploadBytes"} THEN Asked(f) ELSE last.before[f]
    /\ \A k \in DOMAIN DatabasePart :
          active.databaseURL[DatabasePart[k]] = IF k \in DOMAIN last.patch THEN last.patch[k]
                                                ELSE last.before.databaseURL[DatabasePart[k]]
    /\ <<active.toolsDirectory, active.mediaMode, active.ffmpegPath, active.ffprobePath>> = ToolsAsked
=============================================================================
