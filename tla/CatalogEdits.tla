---------------------------- MODULE CatalogEdits ----------------------------
(* Edits of the catalogue by administrators (modules/adminmutation): each is  *)
(* one transaction under READ COMMITTED that locks rows one after the other,  *)
(* checks the versions the administrator saw, and drops an album it has       *)
(* emptied and the cover nothing shows any longer.                            *)
EXTENDS Integers, Sequences, FiniteSets

CONSTANTS Songs,    \* numbers of the tracks, in the order of their identifiers
          Albums,   \* numbers of the albums, likewise; all of one normalized title
          Covers,   \* picture assets
          FirstAlbum, FirstCover,
          Editors,  \* requests of administrators that run at once
          None,
          MaxEdits  \* bound: edits committed

VARIABLES song,     \* tracks
          album,    \* albums
          dropped,  \* assets set to DELETE_PENDING
          edit,     \* the transaction of each editor
          edits     \* edits committed

editVars == <<song, album, dropped, edit, edits>>

Row(kind, row) == [kind |-> kind, row |-> row]
Rows == {Row("song", s) : s \in Songs} \union {Row(k, a) : k \in {"album", "share"}, a \in Albums}

NoEdit == [op |-> "none", songs |-> {}, to |-> None, sources |-> {},
           seenSong |-> [s \in Songs |-> 0], seenAlbum |-> [a \in Albums |-> 0],
           plan |-> <<>>, held |-> {}, emptied |-> {}]
Ops == {"none", "archive", "restore", "lyrics", "publish", "move", "delete", "album", "merge"}

TypeOK ==
    /\ song \in [Songs -> [status : {"READY", "ARCHIVED", "GONE"},
                           album : Albums \union {None}, version : 1..MaxEdits + 1]]
    /\ album \in [Albums -> [there : BOOLEAN, version : 1..MaxEdits + 1,
                             cover : Covers \union {None}]]
    /\ dropped \subseteq Covers /\ edits \in 0..MaxEdits
    /\ \A c \in Editors : edit[c].op \in Ops /\ edit[c].held \subseteq Rows

Init ==
    /\ \E status \in [Songs -> {"READY", "ARCHIVED"}] :
          song = [s \in Songs |-> [status |-> status[s], album |-> FirstAlbum[s], version |-> 1]]
    /\ album = [a \in Albums |-> [there |-> \E s \in Songs : FirstAlbum[s] = a,
                                  version |-> 1, cover |-> FirstCover[a]]]
    /\ dropped = {}
    /\ edit = [c \in Editors |-> NoEdit]
    /\ edits = 0

Present(s) == song[s].status # "GONE"
SongsOn(a) == {s \in Songs : Present(s) /\ song[s].album = a}

---------------------------------------------------------------------------
(* What a request asks for.  `plan` is the order in which its statements      *)
(* reach for row locks: a sequence of sets, each taken in any order.          *)

InAnyOrder(S) == IF S = {} THEN <<>> ELSE <<{Row("song", s) : s \in S}>>
Sorted(S) == [n \in 1..Cardinality(S) |->
                 {Row("song", CHOOSE s \in S : Cardinality({k \in S : k < s}) = n - 1)}]
AlbumsSorted(S) == [n \in 1..Cardinality(S) |->
                 {Row("album", CHOOSE a \in S : Cardinality({k \in S : k < a}) = n - 1)}]

\* The versions come with the request, as the administrator read them.
Begin(c, op, S, albums, to, plan) ==
    /\ edit[c].op = "none" /\ edits < MaxEdits
    /\ edit' = [edit EXCEPT ![c] = [NoEdit EXCEPT
          !.op = op, !.songs = S, !.to = to, !.plan = plan, !.sources = albums \ {to},
          !.seenSong = [s \in Songs |-> IF s \in S THEN song[s].version ELSE 0],
          !.seenAlbum = [a \in Albums |-> IF a \in albums THEN album[a].version ELSE 0]]]
    /\ UNCHANGED <<song, album, dropped, edits>>
One(s) == <<{Row("song", s)}>>

ArchiveTracksBatch(c, S) == Begin(c, "archive", S, {}, None, Sorted(S))
RestoreTracksBatch(c, S) == Begin(c, "restore", S, {}, None, Sorted(S))
PublishTrack(c, s) == Begin(c, "publish", {s}, {}, None, One(s))
UpsertLyrics(c, s) == Begin(c, "lyrics", {s}, {}, None, One(s))

\* The album a track is moved to was looked up before the transaction.
UpdateTrack(c, s, to) ==
    /\ to # None => album[to].there
    /\ Begin(c, "move", {s}, {}, to, One(s))
DeleteTrack(c, s) == Begin(c, "delete", {s}, {}, None, One(s))
UpdateAlbum(c, a) == Begin(c, "album", {}, {a}, a, AlbumsSorted({a}))

\* `cover` is chosen at the end among the albums that take part, or none.
MergeAlbums(c, to, sources) ==
    /\ to \notin sources /\ sources # {}
    /\ Begin(c, "merge", {}, sources \union {to}, to, AlbumsSorted(sources \union {to}))

---------------------------------------------------------------------------
(* Locks *)

Holds(c, kind, row) == Row(kind, row) \in edit[c].held
BlocksSongs(d, r) == r.kind = "song" /\ Holds(d, "song", r.row)
Blocks(d, r) ==
    \/ r.kind = "song" /\ Holds(d, "song", r.row)
    \/ r.kind \in {"album", "share"} /\ Holds(d, "album", r.row)
    \/ r.kind = "album" /\ Holds(d, "share", r.row)
Blockers(c, r) == {d \in Editors \ {c} : Blocks(d, r)}

MayChangeUnversioned(c, s) ==
    /\ Present(s)
    /\ edit[c].op \in {"restore", "delete"} <=> song[s].status = "ARCHIVED"
\* The checks under the lock of a track, and what the request does next: the
\* new album is locked by its foreign key, the old one before it is dropped.
MayChange(c, s) ==
    /\ Present(s) /\ song[s].version = edit[c].seenSong[s]
    /\ CASE edit[c].op \in {"archive", "move", "lyrics", "publish"} -> song[s].status # "ARCHIVED"
         [] edit[c].op \in {"restore", "delete"} -> song[s].status = "ARCHIVED"
         [] OTHER -> FALSE

Unreferenced(a) == <<>>
Reference(a) == IF a = None THEN <<>> ELSE <<{Row("share", a)}>>
Left(a) == IF a = None THEN <<>> ELSE <<{Row("album", a)}>>
AfterSong(c, s) ==
    CASE edit[c].op = "move" /\ edit[c].to # song[s].album ->
             Reference(edit[c].to) \o Left(song[s].album)
      [] edit[c].op = "delete" -> Left(song[s].album)
      [] OTHER -> <<>>

Rest(c, r) ==
    LET head == Head(edit[c].plan) \ {r}
    IN  IF head = {} THEN Tail(edit[c].plan) ELSE <<head>> \o Tail(edit[c].plan)
Granted(c, r, more) ==
    edit' = [edit EXCEPT ![c].held = @ \union {r}, ![c].plan = Rest(c, r) \o more]

\* A check fails, a row is gone or a reference dangles: nothing is changed.
GiveUp(c) == edit' = [edit EXCEPT ![c] = NoEdit]

LockSong(c, r) ==
    /\ edit[c].plan # <<>> /\ r \in Head(edit[c].plan) /\ r.kind = "song"
    /\ Blockers(c, r) = {}
    /\ IF edit[c].op = "merge" \/ MayChange(c, r.row)
       THEN Granted(c, r, AfterSong(c, r.row))
       ELSE GiveUp(c)
    /\ UNCHANGED <<song, album, dropped, edits>>

LockReference(c, r) ==
    /\ edit[c].plan # <<>> /\ r \in Head(edit[c].plan) /\ r.kind = "share"
    /\ Blockers(c, r) = {}
    /\ IF album[r.row].there THEN Granted(c, r, <<>>) ELSE GiveUp(c)
    /\ UNCHANGED <<song, album, dropped, edits>>

\* Tracks another transaction has not committed are not seen.
Empty(c, a) == SongsOn(a) \ edit[c].songs = {}

MergedSongs(c) ==
    {s \in Songs : Present(s) /\ song[s].album \in edit[c].sources}

LockAlbum(c, r) ==
    LET a == r.row
        last == Len(edit[c].plan) = 1
        versioned == edit[c].op \in {"album", "merge"}
    IN  /\ edit[c].plan # <<>> /\ r \in Head(edit[c].plan) /\ r.kind = "album"
        /\ Blockers(c, r) = {}
        /\ \/ /\ versioned
              /\ ~(album[a].there /\ album[a].version = edit[c].seenAlbum[a])
              /\ GiveUp(c)
           \/ /\ versioned /\ album[a].there /\ album[a].version = edit[c].seenAlbum[a]
              /\ Granted(c, r, IF edit[c].op = "merge" /\ last
                               THEN InAnyOrder(MergedSongs(c)) ELSE <<>>)
           \/ /\ ~versioned
              /\ edit' = [edit EXCEPT
                    ![c].held = @ \union {r}, ![c].plan = Rest(c, r),
                    ![c].emptied = IF album[a].there /\ Empty(c, a) THEN {a} ELSE {}]
        /\ UNCHANGED <<song, album, dropped, edits>>

---------------------------------------------------------------------------
(* Commits *)

Ready(c, op) == edit[c].op = op /\ edit[c].plan = <<>>
Commit(c) == GiveUp(c) /\ edits < MaxEdits /\ edits' = edits + 1

Changed(c, status) ==
    [s \in Songs |-> IF s \in edit[c].songs
                     THEN [song[s] EXCEPT !.status = status, !.version = @ + 1] ELSE song[s]]

CommitArchive(c) ==
    /\ Ready(c, "archive") /\ song' = Changed(c, "ARCHIVED") /\ Commit(c)
    /\ UNCHANGED <<album, dropped>>
CommitRestore(c) ==
    /\ Ready(c, "restore") /\ song' = Changed(c, "READY") /\ Commit(c)
    /\ UNCHANGED <<album, dropped>>
CommitPublish(c) ==
    /\ Ready(c, "publish") /\ song' = Changed(c, "READY") /\ Commit(c)
    /\ UNCHANGED <<album, dropped>>
CommitLyrics(c) ==
    /\ Ready(c, "lyrics") /\ Commit(c)
    /\ song' = [s \in Songs |-> IF s \in edit[c].songs
                                THEN [song[s] EXCEPT !.version = @ + 1] ELSE song[s]]
    /\ UNCHANGED <<album, dropped>>

\* An album without a cover is taken for one whose cover nobody shows.
scheduleMissing(covers, albums) ==
    {k \in covers : \A a \in Albums : albums[a].there => albums[a].cover # k}
\* A cover is given to the clean-up when no album shows it any longer.
scheduleArtworkCleanup(covers, albums) ==
    {k \in covers \ {None} : \A a \in Albums : albums[a].there => albums[a].cover # k}

deleteAlbumIfEmpty(S) == [a \in Albums |-> IF a \in S THEN [album[a] EXCEPT !.there = FALSE]
                                           ELSE album[a]]
DropEmptied(c) ==
    /\ album' = deleteAlbumIfEmpty(edit[c].emptied)
    /\ dropped' = dropped \union
          scheduleArtworkCleanup({album[a].cover : a \in edit[c].emptied}, album')

CommitMove(c) ==
    /\ Ready(c, "move") /\ Commit(c)
    /\ song' = [s \in Songs |-> IF s \in edit[c].songs
                  THEN [song[s] EXCEPT !.album = edit[c].to, !.version = @ + 1] ELSE song[s]]
    /\ DropEmptied(c)
CommitDelete(c) ==
    /\ Ready(c, "delete") /\ song' = Changed(c, "GONE") /\ Commit(c)
    /\ DropEmptied(c)

CommitAlbum(c) ==
    /\ Ready(c, "album") /\ Commit(c)
    /\ album' = [album EXCEPT ![edit[c].to].version = @ + 1]
    /\ UNCHANGED <<song, dropped>>

\* The tracks move to the target, which takes its cover from a participant;
\* the emptied albums go.
CommitMerge(c, coverOf) ==
    LET to == edit[c].to
        moved == {r.row : r \in {q \in edit[c].held : q.kind = "song"}}
        cover == IF coverOf = None THEN None ELSE album[coverOf].cover
    IN  /\ Ready(c, "merge") /\ Commit(c)
        /\ coverOf \in edit[c].sources \union {to, None}
        /\ song' = [s \in Songs |-> IF s \in moved
                      THEN [song[s] EXCEPT !.album = to, !.version = @ + 1] ELSE song[s]]
        /\ album' = [deleteAlbumIfEmpty(edit[c].sources) EXCEPT
                       ![to].cover = cover, ![to].version = @ + 1]
        /\ dropped' = dropped \union
              scheduleArtworkCleanup({album[a].cover : a \in edit[c].sources \union {to}}, album')

\* The database refuses a transaction that waits in a circle, or the request
\* ends: the locks go, nothing is changed.
Rollback(c) ==
    /\ edit[c].op # "none" /\ GiveUp(c)
    /\ UNCHANGED <<song, album, dropped, edits>>

---------------------------------------------------------------------------
Next ==
    \E c \in Editors :
        \/ \E S \in (SUBSET Songs) \ {{}} : ArchiveTracksBatch(c, S) \/ RestoreTracksBatch(c, S)
        \/ \E s \in Songs : \/ UpsertLyrics(c, s) \/ PublishTrack(c, s) \/ DeleteTrack(c, s)
                            \/ \E to \in Albums \union {None} : UpdateTrack(c, s, to)
        \/ \E a \in Albums : UpdateAlbum(c, a)
        \/ \E to \in Albums, S \in SUBSET Albums : MergeAlbums(c, to, S)
        \/ \E r \in Rows : LockSong(c, r) \/ LockReference(c, r) \/ LockAlbum(c, r)
        \/ CommitArchive(c) \/ CommitRestore(c) \/ CommitPublish(c) \/ CommitLyrics(c)
        \/ CommitMove(c) \/ CommitDelete(c) \/ CommitAlbum(c)
        \/ \E a \in Albums \union {None} : CommitMerge(c, a)
        \/ Rollback(c)

Spec == Init /\ [][Next]_editVars

---------------------------------------------------------------------------
(* Properties *)

\* An album that lost its last track is gone, also when two edits take its
\* last two tracks away at once and neither sees the other's.
NoEmptyAlbum == \A a \in Albums : album[a].there => SongsOn(a) # {}

\* A track is never left on an album that was dropped.
NoTrackWithoutAlbum ==
    \A s \in Songs : Present(s) /\ song[s].album # None => album[song[s].album].there

\* A cover an album shows is not given to the clean-up, in a merge either.
ShownCoverKept ==
    \A a \in Albums : album[a].there /\ album[a].cover # None => album[a].cover \notin dropped

\* What an edit is about to replace is what its administrator saw.
NoEditIsLost ==
    \A c \in Editors, s \in Songs :
        edit[c].plan = <<>> /\ s \in edit[c].songs => song[s].version = edit[c].seenSong[s]

\* Edits wait for each other in a circle only when one of them moves tracks
\* between albums: batches, lyrics, album edits and deletions agree on an order.
Circle(D) ==
    \A c \in D : edit[c].plan # <<>>
                 /\ \A r \in Head(edit[c].plan) : Blockers(c, r) \intersect D # {}
OnlyMovesDeadlock ==
    \A D \in (SUBSET Editors) \ {{}} :
        Circle(D) => \E c \in D : edit[c].op \in {"move", "merge"}
=============================================================================
