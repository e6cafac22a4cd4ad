------------------------------ MODULE Uploads ------------------------------
(* Uploads of audio, pictures and avatars (modules/adminmedia and             *)
(* modules/profile): a row reserves the upload, a PUT streams the body into   *)
(* a temporary file, a completion claims the row, inspects the file, moves it *)
(* to its place and inserts the asset the target shows from then on.  Beside  *)
(* them run retention (workers/retention) and the cleaner of the assets       *)
(* nothing shows any longer (modules/localassets).                            *)
EXTENDS Integers, FiniteSets

CONSTANTS Uploads,
          Songs,    \* tracks, for which audio is uploaded
          Sleeves,  \* albums and artists, for which pictures are uploaded
          Users,    \* who upload their own avatars
          Requests, \* requests; each names the file, token and asset it makes
          None,
          Quota,    \* maximumActiveAvatarUploads
          MaxFaults \* bound: crashes, lost answers, bad bodies and targets deleted

VARIABLES upload,   \* rows of media_uploads
          temp,     \* the file at the temporary place of each upload
          kept,     \* the file at its final place
          content,  \* what each file holds
          asset,    \* rows of media_assets
          shown,    \* the asset each target shows
          quota,    \* who holds the quota lock of each user
          call,     \* the requests
          cleaner,  \* the round of the cleaner
          faults

uploadVars == <<upload, temp, kept, content, asset, shown, quota, call, cleaner, faults>>
files == <<temp, kept, content>>

Targets == Songs \union Sleeves \union Users
Statuses == {"none", "CREATED", "COMPLETING", "COMPLETED", "EXPIRED", "FAILED", "gone"}
Bodies == {"right", "wrong", "cut"}

NoUpload == [status |-> "none", target |-> None, token |-> None, lapsed |-> FALSE, asset |-> None]
NoCall == [phase |-> "none", user |-> None, upload |-> None, file |-> None, body |-> "right"]
Phases == {"none", "measured", "checked", "writing", "claimed", "inspected",
           "committed", "failing", "waiting", "abandoning", "done"}

TypeOK ==
    /\ upload \in [Uploads -> [status : Statuses, target : Targets \union {None}, token : Requests \union {None},
                               lapsed : BOOLEAN, asset : Requests \union {None}]]
    /\ temp \in [Uploads -> Requests \union {None}] /\ kept \in [Uploads -> Requests \union {None}]
    /\ content \in [Requests -> Bodies]
    /\ asset \in [Requests -> [status : {"none", "READY", "DELETE_PENDING", "DELETED"},
                               upload : Uploads \union {None}]]
    /\ shown \in [Targets -> Requests \union {None, "gone"}]
    /\ quota \in [Users -> Requests \union {None}]
    /\ call \in [Requests -> [phase : Phases, user : Users \union {None}, upload : Uploads \union {None},
                              file : Requests \union {None}, body : Bodies]]
    /\ cleaner \in [listed : SUBSET Requests, removed : SUBSET Requests]
    /\ faults \in 0..MaxFaults

Idle == [listed |-> {}, removed |-> {}]
Init ==
    /\ upload = [u \in Uploads |-> NoUpload]
    /\ temp = [u \in Uploads |-> None] /\ kept = [u \in Uploads |-> None]
    /\ content = [f \in Requests |-> "cut"]
    /\ asset = [a \in Requests |-> [status |-> "none", upload |-> None]]
    /\ shown = [t \in Targets |-> None]
    /\ quota = [o \in Users |-> None]
    /\ call = [p \in Requests |-> NoCall]
    /\ cleaner = Idle /\ faults = 0

Goes(p, phase) == call' = [call EXCEPT ![p].phase = phase]
Ends(p) == call' = [call EXCEPT ![p] = NoCall]
At(p, phase) == call[p].phase = phase
Of(p) == call[p].upload
Starts(p, u, phase) == /\ At(p, "none")
                       /\ call' = [call EXCEPT ![p] = [NoCall EXCEPT !.phase = phase, !.upload = u]]

---------------------------------------------------------------------------
(* Reservation *)

Active(u) == upload[u].status \in {"CREATED", "COMPLETING"} /\ ~upload[u].lapsed
ActiveOf(o) == {u \in Uploads : upload[u].target = o /\ Active(u)}
Overdue(u) == upload[u].status \in {"CREATED", "COMPLETING"} /\ upload[u].lapsed
Expired(row) == [row EXCEPT !.status = "EXPIRED", !.token = None]

Target(u) == upload[u].target
New(t) == [NoUpload EXCEPT !.status = "CREATED", !.target = t]

CreateUpload(u, t) ==
    /\ upload[u].status = "none" /\ shown[t] # "gone"
    /\ upload' = [upload EXCEPT ![u] = New(t)]
    /\ UNCHANGED <<files, asset, shown, quota, call, cleaner, faults>>

\* An avatar: the active uploads are counted under the lock of their user.
QuotaUnlocked(o) == TRUE
QuotaFree(o) == quota[o] = None
MeasureQuota(p, o) ==
    /\ QuotaFree(o) /\ Cardinality(ActiveOf(o)) < Quota
    /\ At(p, "none")
    /\ call' = [call EXCEPT ![p] = [NoCall EXCEPT !.phase = "measured", !.user = o]]
    /\ quota' = [quota EXCEPT ![o] = p]
    /\ UNCHANGED <<upload, files, asset, shown, cleaner, faults>>
CreateAvatarUpload(p, u) ==
    LET o == call[p].user IN
    /\ At(p, "measured") /\ Ends(p) /\ upload[u].status = "none"
    /\ upload' = [v \in Uploads |->
          IF v = u THEN New(o)
          ELSE IF Target(v) = o /\ Overdue(v) THEN Expired(upload[v]) ELSE upload[v]]
    /\ quota' = [quota EXCEPT ![o] = None]
    /\ UNCHANGED <<files, asset, shown, cleaner, faults>>

---------------------------------------------------------------------------
(* The body *)

FindUpload(p, u, body) ==
    /\ upload[u].status = "CREATED" /\ At(p, "none")
    /\ call' = [call EXCEPT ![p] = [NoCall EXCEPT !.phase = "checked", !.upload = u, !.body = body]]
    /\ IF body = "right" THEN UNCHANGED faults ELSE faults < MaxFaults /\ faults' = faults + 1
    /\ UNCHANGED <<upload, files, asset, shown, quota, cleaner>>

\* The file is opened without a lock and truncated, whoever else writes it.
OpenTemp(p) ==
    LET u == Of(p)
        f == IF temp[u] = None THEN p ELSE temp[u] IN
    /\ At(p, "checked")
    /\ call' = [call EXCEPT ![p].phase = "writing", ![p].file = f]
    /\ temp' = [temp EXCEPT ![u] = f]
    /\ content' = [content EXCEPT ![f] = "cut"]
    /\ UNCHANGED <<upload, kept, asset, shown, quota, cleaner, faults>>
\* A body of the wrong size or checksum is removed by its path.
WriteUploadStream(p) ==
    /\ At(p, "writing") /\ Goes(p, "done")
    /\ content' = [content EXCEPT ![call[p].file] = call[p].body]
    /\ temp' = IF call[p].body = "right" THEN temp ELSE [temp EXCEPT ![Of(p)] = None]
    /\ UNCHANGED <<upload, kept, asset, shown, quota, cleaner, faults>>

---------------------------------------------------------------------------
(* Completion *)

\* The lease of a claim is also the new expiry of the row: a claim that has
\* gone stale has expired with it, so nobody ever takes one over.
ClaimUploadCompletion(p, u) ==
    LET row == upload[u] IN
    \/ /\ row.status = "COMPLETED" /\ At(p, "none")
       /\ UNCHANGED <<upload, call>>
    \/ /\ row.status = "COMPLETING" /\ ~row.lapsed /\ Starts(p, u, "waiting")
       /\ UNCHANGED upload
    \/ /\ row.status \notin {"none", "gone", "COMPLETED"} /\ row.lapsed
       /\ At(p, "none") /\ UNCHANGED call
       /\ upload' = [upload EXCEPT ![u] = Expired(row)]
    \/ /\ row.status = "CREATED" /\ ~row.lapsed /\ Starts(p, u, "claimed")
       /\ upload' = [upload EXCEPT ![u].status = "COMPLETING", ![u].token = p]
Claim(p, u) ==
    /\ ClaimUploadCompletion(p, u)
    /\ UNCHANGED <<files, asset, shown, quota, cleaner, faults>>

WaitForCompletion(p) ==
    /\ At(p, "waiting") /\ Ends(p)
    /\ UNCHANGED <<upload, files, asset, shown, quota, cleaner, faults>>

Found(u) == IF temp[u] = None THEN "missing" ELSE content[temp[u]]
\* The file must have the size announced; the tool may refuse what it holds.
Inspect(p) ==
    /\ At(p, "claimed")
    /\ \/ Found(Of(p)) \in {"right", "wrong"} /\ Goes(p, "inspected")
       \/ Found(Of(p)) # "right" /\ Goes(p, "failing")
    /\ UNCHANGED <<upload, files, asset, shown, quota, cleaner, faults>>

\* The final place is named by the upload, not by what it is for.
Place(u) == u
\* Audio is renamed; of a picture a smaller copy is written and the original removed.
CommitUpload(p) ==
    LET u == Of(p) IN
    /\ At(p, "inspected")
    /\ \/ temp[u] = None /\ Goes(p, "failing") /\ UNCHANGED files
       \/ /\ temp[u] # None /\ Target(u) \in Songs /\ Goes(p, "committed")
          /\ kept' = [kept EXCEPT ![Place(u)] = temp[u]] /\ temp' = [temp EXCEPT ![u] = None]
          /\ UNCHANGED content
       \/ /\ temp[u] # None /\ Target(u) \notin Songs /\ Goes(p, "committed")
          /\ content' = [content EXCEPT ![p] = content[temp[u]]]
          /\ kept' = [kept EXCEPT ![Place(u)] = p] /\ temp' = [temp EXCEPT ![u] = None]
    /\ UNCHANGED <<upload, asset, shown, quota, cleaner, faults>>

Owned(p) == upload[Of(p)].status = "COMPLETING" /\ upload[Of(p)].token = p

ShownElsewhere(a, t) == \E other \in Targets \ {t} : shown[other] = a
\* An avatar replaced is left to the cleaner; a picture replaced stays.
Replaced(a, t) == a \in Requests /\ t \in Users /\ ~ShownElsewhere(a, t)

FinalizeUpload(p) ==
    LET u == Of(p)
        t == Target(u) IN
    /\ At(p, "committed") /\ Owned(p) /\ shown[t] # "gone"
    /\ asset' = [a \in Requests |->
          IF a = p THEN [status |-> "READY", upload |-> u]
          ELSE IF shown[t] = a /\ Replaced(a, t) THEN [asset[a] EXCEPT !.status = "DELETE_PENDING"]
          ELSE asset[a]]
    /\ shown' = [shown EXCEPT ![t] = p]
    /\ upload' = [upload EXCEPT ![u] = [New(t) EXCEPT !.status = "COMPLETED", !.asset = p]]
    /\ \/ Goes(p, "done") /\ UNCHANGED faults
       \/ faults < MaxFaults /\ faults' = faults + 1 /\ Goes(p, "failing")  \* the answer is lost
    /\ UNCHANGED <<files, quota, cleaner>>
FinalizeRefused(p) ==
    /\ At(p, "committed") /\ (Owned(p) => shown[Target(Of(p))] = "gone")
    /\ Goes(p, IF Target(Of(p)) \in Users THEN "done" ELSE "failing")
    /\ UNCHANGED <<upload, files, asset, shown, quota, cleaner, faults>>

FailableAnyway(p) == upload[Of(p)].status \notin {"none", "gone"}
Failable(p) == Owned(p)
FailUploadCompletion(p) ==
    /\ At(p, "failing") /\ Goes(p, "done")
    /\ upload' = IF Failable(p)
                 THEN [upload EXCEPT ![Of(p)].status = "FAILED", ![Of(p)].token = None] ELSE upload
    /\ UNCHANGED <<files, asset, shown, quota, cleaner, faults>>

---------------------------------------------------------------------------
(* Giving up, expiry and clean-up *)

\* The file goes first; the row keeps its token.
AbandonFile(p, u) ==
    /\ Target(u) \notin Users /\ upload[u].status \notin {"none", "gone", "COMPLETED"}
    /\ Starts(p, u, "abandoning")
    /\ temp' = [temp EXCEPT ![u] = None]
    /\ UNCHANGED <<upload, kept, content, asset, shown, quota, cleaner, faults>>
AbandonUpload(p) ==
    /\ At(p, "abandoning") /\ Ends(p)
    /\ upload' = IF upload[Of(p)].status \in {"COMPLETED", "FAILED", "gone"} THEN upload
                 ELSE [upload EXCEPT ![Of(p)].status = "FAILED"]
    /\ UNCHANGED <<files, asset, shown, quota, cleaner, faults>>

Lapse(u) ==
    /\ upload[u].status \in {"CREATED", "COMPLETING", "FAILED"} /\ ~upload[u].lapsed
    /\ upload' = [upload EXCEPT ![u].lapsed = TRUE]
    /\ UNCHANGED <<files, asset, shown, quota, call, cleaner, faults>>
ExpireUploads ==
    /\ \E u \in Uploads : Overdue(u)
    /\ upload' = [u \in Uploads |-> IF Overdue(u) THEN Expired(upload[u]) ELSE upload[u]]
    /\ UNCHANGED <<files, asset, shown, quota, call, cleaner, faults>>
DeleteUpload(u) ==
    /\ \/ upload[u].status = "COMPLETED"
       \/ upload[u].status \in {"EXPIRED", "FAILED"} /\ upload[u].lapsed
    /\ upload' = [upload EXCEPT ![u] = [NoUpload EXCEPT !.status = "gone"]]
    /\ UNCHANGED <<files, asset, shown, quota, call, cleaner, faults>>

\* A target is deleted; the uploads of a track go with it.
DeleteTarget(t) ==
    /\ t \notin Users /\ shown[t] # "gone" /\ faults < MaxFaults
    /\ shown' = [shown EXCEPT ![t] = "gone"] /\ faults' = faults + 1
    /\ upload' = [u \in Uploads |->
          IF Target(u) = t /\ t \in Songs
          THEN [NoUpload EXCEPT !.status = "gone"] ELSE upload[u]]
    /\ UNCHANGED <<files, asset, quota, call, cleaner>>

Referenced(a) == (\E t \in Targets : shown[t] = a) \/ (\E u \in Uploads : upload[u].asset = a)
Pending(a) == asset[a].status = "DELETE_PENDING" /\ ~Referenced(a)
ListPending ==
    /\ cleaner = Idle /\ \E a \in Requests : Pending(a)
    /\ cleaner' = [Idle EXCEPT !.listed = {a \in Requests : Pending(a)}]
    /\ UNCHANGED <<upload, files, asset, shown, quota, call, faults>>
DeleteFile(a) ==
    /\ a \in cleaner.listed
    /\ kept' = [kept EXCEPT ![Place(asset[a].upload)] = None]
    /\ cleaner' = [listed |-> cleaner.listed \ {a}, removed |-> cleaner.removed \union {a}]
    /\ UNCHANGED <<upload, temp, content, asset, shown, quota, call, faults>>
MarkDeleted(a) ==
    /\ a \in cleaner.removed
    /\ cleaner' = [cleaner EXCEPT !.removed = @ \ {a}]
    /\ asset' = IF Pending(a) THEN [asset EXCEPT ![a].status = "DELETED"] ELSE asset
    /\ UNCHANGED <<upload, files, shown, quota, call, faults>>

\* A request that is over makes room for another once nothing bears its name.
Answer(p) ==
    /\ At(p, "done") /\ call' = [call EXCEPT ![p] = NoCall]
    /\ asset[p].status = "none" /\ \A u \in Uploads : p \notin {temp[u], kept[u], upload[u].token}
    /\ \A q \in Requests : call[q].file = p => q = p
    /\ content' = [content EXCEPT ![p] = "cut"]
    /\ UNCHANGED <<upload, temp, kept, asset, shown, quota, cleaner, faults>>

Crash ==
    /\ faults < MaxFaults /\ faults' = faults + 1
    /\ \E p \in Requests : call[p].phase \notin {"none", "done"}
    /\ call' = [p \in Requests |-> IF At(p, "none") THEN NoCall ELSE [NoCall EXCEPT !.phase = "done"]]
    /\ quota' = [o \in Users |-> None] /\ cleaner' = Idle
    /\ UNCHANGED <<upload, files, asset, shown>>

---------------------------------------------------------------------------
Serve(p) ==
    \/ \E u \in Uploads : \/ CreateAvatarUpload(p, u) \/ Claim(p, u) \/ AbandonFile(p, u)
                          \/ \E body \in Bodies : FindUpload(p, u, body)
    \/ \E o \in Users : MeasureQuota(p, o)
    \/ OpenTemp(p) \/ WriteUploadStream(p)
    \/ WaitForCompletion(p) \/ Inspect(p) \/ CommitUpload(p)
    \/ FinalizeUpload(p) \/ FinalizeRefused(p) \/ FailUploadCompletion(p) \/ AbandonUpload(p)
    \/ Answer(p)
Background ==
    \/ \E u \in Uploads : \/ Lapse(u) \/ DeleteUpload(u)
                          \/ \E t \in Songs \union Sleeves : CreateUpload(u, t)
    \/ ExpireUploads \/ ListPending \/ Crash
    \/ \E a \in Requests : DeleteFile(a) \/ MarkDeleted(a)
    \/ \E t \in Targets : DeleteTarget(t)

Next == Background \/ \E p \in Requests : Serve(p)
Spec == Init /\ [][Next]_uploadVars

---------------------------------------------------------------------------
\* What administrators are told of an upload is what the catalogue got of it:
\* a completed one made one asset, and one that failed, expired or was given up
\* made none, however completions, give-ups, expiry and lost answers meet.
AssetsOf(u) == {a \in Requests : asset[a].upload = u}
CompletedMadeOneAsset ==
    \A u \in Uploads :
        /\ upload[u].status = "COMPLETED" => AssetsOf(u) = {upload[u].asset}
        /\ upload[u].status \in {"CREATED", "COMPLETING", "FAILED", "EXPIRED"} => AssetsOf(u) = {}

\* A picture or a song something shows is there: its asset is ready and its
\* file is in its place, whatever the cleaner removes meanwhile.
ShownFileKept ==
    \A t \in Targets : shown[t] \in Requests =>
        /\ asset[shown[t]].status = "READY"
        /\ kept[Place(asset[shown[t]].upload)] # None

\* A user never has more uploads under way than the quota allows.
QuotaKept == \A o \in Users : Cardinality(ActiveOf(o)) <= Quota
=============================================================================
