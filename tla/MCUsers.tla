-------------------------------- MODULE MCUsers --------------------------------
(* What signed-in devices and administrators do, in six parts of which a     *)
(* behaviour chooses one at its start: the sessions and their tokens          *)
(* (Sessions), the accounts (Accounts), the uploads of songs and pictures     *)
(* (Uploads), and the playlist, the favourites and the history of a user      *)
(* (UserLibrary). The parts share no state.                                   *)
EXTENDS Integers, Sequences, FiniteSets, TLC

CONSTANTS None, a1, a2, a3, b1, b2, c1, c2,
          \* sessions and the idempotency of a refresh
          Owners,      \* users who sign in, and who upload avatars
          Managers,    \* those of them who are administrators
          Callers, Keys, MaxSessions, MaxTokens, MaxRevisions, MaxFaults,
          \* accounts
          Users, FirstAdmins, MaxChanges,
          \* uploads
          Songs, Sleeves, Uploads, Requests,
          Editors,     \* the requests of those who upload songs and pictures
          Quota, MaxFailures,
          \* the playlist, the favourites and the history
          Tracks, Entries, Devices, MaxPlaylistEntries, PositionShift, Events, MaxEdits

ASSUME SessionsAssumption ==
    /\ None \notin Owners \union Callers /\ IsFiniteSet(Keys)
    /\ MaxSessions \in Nat /\ MaxTokens \in Nat /\ MaxRevisions \in Nat /\ MaxFaults \in Nat
ASSUME AccountsAssumption == None \notin Users /\ MaxChanges \in Nat
ASSUME UploadsAssumption ==
    /\ None \notin Owners \union Songs \union Sleeves \union Uploads
    /\ Owners \intersect (Songs \union Sleeves) = {}
    /\ None \notin Requests /\ "gone" \notin Requests
    /\ IsFiniteSet(Uploads) /\ Quota \in Nat /\ MaxFailures \in Nat
\* Positions stay below the distance by which they are staged.
ASSUME LibraryAssumption ==
    /\ None \notin Nat /\ IsFiniteSet(Entries)
    /\ MaxEdits \in Nat /\ PositionShift \in Nat /\ MaxEdits <= PositionShift
    /\ \A event \in Events : event.at \in Nat

VARIABLES part,
          who, session, token, record, request, presented, broken, faults, revisions,
          user, change, changes,
          upload, temp, kept, content, asset, shown, quota, call, cleaner, failed,
          track, entry, version, intended, device, collided, favorite, history, heard, edits

sessionVars == <<who, session, token, record, request, presented, broken, faults, revisions>>
accountVars == <<user, change, changes>>
uploadVars == <<upload, temp, kept, content, asset, shown, quota, call, cleaner, failed>>
libraryVars == <<track, entry, version, intended, device, collided, favorite, history, heard, edits>>

SignIn == INSTANCE Sessions
    WITH user <- who, call <- request, changes <- revisions, Users <- Owners, Admins <- Managers,
         MaxChanges <- MaxRevisions

Admins == INSTANCE Accounts

\* A song and the picture of an album, with more failures; and avatars under
\* their quota.
Storage == INSTANCE Uploads
    WITH faults <- failed, Users <- Owners, MaxFaults <- MaxFailures
UploadPictures ==
    /\ Storage!Next /\ quota' = quota
    /\ \A p \in Requests \ Editors : call'[p] = call[p]
UploadAvatars ==
    /\ Storage!Next /\ failed' <= MaxFaults
    /\ \A p \in Editors : call'[p] = call[p]
    /\ \A t \in Songs \union Sleeves : shown'[t] = shown[t] /\ \A u \in Uploads : upload'[u].target # t

\* A playlist, with no playback; and the favourites and the history while no
\* device looks at a playlist.
Library == INSTANCE UserLibrary
EditPlaylist == Library!Next /\ heard' = heard
Listen == Library!Next /\ \A d \in Devices : device'[d].phase \notin {"looked", "locked"}

Heard(t, s, k) == [at |-> t, session |-> s, kind |-> k]
EventsHeard == {Heard(1, "phone", "STARTED"), Heard(2, "phone", "PAUSED"), Heard(2, "tablet", "STARTED")}

MCInit ==
    /\ part \in {"sessions", "accounts", "songs", "avatars", "playlist", "history"}
    /\ SignIn!Init /\ Admins!Init /\ Storage!Init /\ Library!Init

MCNext ==
    \/ part = "sessions" /\ SignIn!Next /\ UNCHANGED <<part, accountVars, uploadVars, libraryVars>>
    \/ part = "accounts" /\ Admins!Next /\ UNCHANGED <<part, sessionVars, uploadVars, libraryVars>>
    \/ part = "songs" /\ UploadPictures /\ UNCHANGED <<part, sessionVars, accountVars, libraryVars>>
    \/ part = "avatars" /\ UploadAvatars /\ UNCHANGED <<part, sessionVars, accountVars, libraryVars>>
    \/ part = "playlist" /\ EditPlaylist /\ UNCHANGED <<part, sessionVars, accountVars, uploadVars>>
    \/ part = "history" /\ Listen /\ UNCHANGED <<part, sessionVars, accountVars, uploadVars>>

MCSpec == MCInit /\ [][MCNext]_<<part, sessionVars, accountVars, uploadVars, libraryVars>>

TypesOK == SignIn!TypeOK /\ Admins!TypeOK /\ Storage!TypeOK /\ Library!TypeOK

(* A refresh token is exchanged at most once and only the last of a session   *)
(* can be used; a session ends for reuse only when there was one.             *)
RotationHolds == SignIn!SingleLine /\ SignIn!ReuseIsReal

(* Updates of accounts leave an active administrator.                         *)
RemovalLeavesAdministrator == Admins!RemovalLeavesAdministrator

(* A completed upload made one asset and any other made none, what is shown   *)
(* has its file, and nobody has more uploads than the quota allows.           *)
UploadsHold == Storage!CompletedMadeOneAsset /\ Storage!ShownFileKept /\ Storage!QuotaKept

(* A playlist is in the order its owner's edits meant.                        *)
PlaylistAsIntended == Library!PlaylistAsIntended

(* The history shows the latest event.                                        *)
LatestEventShown == Library!LatestEventShown

(* "the last active administrator cannot be removed"                          *)
(* (modules/adminmanagement/domain.go).                                       *)
AdministratorRemains == Admins!AdministratorRemains

Alike == Permutations({a1, a2, a3}) \union Permutations({b1, b2}) \union Permutations({c1, c2})
==============================================================================
