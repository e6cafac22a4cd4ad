------------------------- MODULE MetadataProjection -------------------------
(* What the catalogue shows of a track: the tags the scans read from its file *)
(* overlaid with the overrides of administrators (modules/adminmetadata) and  *)
(* of tag matching (modules/admintagscraping).  Scans of several files per    *)
(* transaction (modules/adminsources) and single edits find or create the     *)
(* artists and albums beside each other, under READ COMMITTED.                *)
EXTENDS Integers, FiniteSets

CONSTANTS Tracks,      \* tracks, each with the one file it is read from
          Legacy,      \* tracks with neither a file of a source nor metadata of their own
          Snapshots,   \* what the tags of a file can say: an artist, an album, lyrics
          Patches,     \* what an edit can ask for: some of these fields
          Committers,  \* write transactions of the scans
          Editors,     \* edits of metadata that run at once
          Matchers,    \* those of them that tag matching makes
          None,
          MaxChanges   \* bound: transactions, failures and changes of files

VARIABLES file,      \* what the tags of each file say
          artist,    \* artists: identifier, name and who made the row
          album,     \* albums: identifier, title, artist and who made the row
          row,       \* tracks with their metadata and lyrics
          known,     \* what the running scan remembers of committed artists and albums
          tx,        \* transactions
          orphaned,  \* tracks whose album was deleted under them
          changes    \* so far

projVars == <<file, artist, album, row, known, tx, orphaned, changes>>

Actors == Committers \union Editors
Empty == [k \in {} |-> None]
NoRow == [there |-> FALSE, artist |-> None, album |-> None, lyrics |-> None, origin |-> None,
          raw |-> None, overrides |-> Empty, version |-> 1]

\* What a transaction has written and holds so far, for savepoints to restore.
NoWork == [artists |-> {}, albums |-> {}, dropped |-> {}, orphans |-> {}, rows |-> Empty,
           held |-> {}, known |-> [artists |-> Empty, albums |-> Empty]]
NoTx == [step |-> "idle", work |-> NoWork, saved |-> NoWork, track |-> None, patch |-> Empty,
         version |-> 0, raw |-> None, target |-> None, previous |-> None, artist |-> None,
         album |-> None, left |-> None, done |-> {}]

\* Legacy tracks share an artist and an album.
Init ==
    /\ file \in [Tracks \ Legacy -> Snapshots]
    /\ LET s == CHOOSE tags \in Snapshots : TRUE
       IN  /\ artist = IF Legacy = {} THEN {} ELSE {[id |-> 1, name |-> s.artist, by |-> "scan"]}
           /\ album = IF Legacy = {} \/ s.album = None THEN {}
                      ELSE {[id |-> 2, title |-> s.album, artist |-> 1, by |-> "scan"]}
           /\ row = [t \in Tracks |-> IF t \notin Legacy THEN NoRow
                 ELSE [NoRow EXCEPT !.there = TRUE, !.artist = 1,
                                    !.album = IF s.album = None THEN None ELSE 2,
                                    !.lyrics = s.lyrics,
                                    !.origin = IF s.lyrics = None THEN None ELSE "SCAN"]]
    /\ known = [artists |-> Empty, albums |-> Empty]
    /\ tx = [a \in Actors |-> NoTx]
    /\ orphaned = {} /\ changes = 0

\* What f says, and of what it is silent about, what g says.
Over(f, g) == [k \in DOMAIN f \union DOMAIN g |-> IF k \in DOMAIN f THEN f[k] ELSE g[k]]
ApplyMetadataOverrides(raw, overrides) == Over(overrides, raw)
UpdateMetadataOverrides(current, patch) == Over(patch, current)

---------------------------------------------------------------------------
(* What a transaction sees: what is committed and what it wrote itself *)

Artists(a) == artist \union tx[a].work.artists
Albums(a) == {r \in album \union tx[a].work.albums : r.id \notin tx[a].work.dropped}
Seen(a, t) == IF t \in DOMAIN tx[a].work.rows THEN tx[a].work.rows[t] ELSE row[t]
ShownOn(a, id) == {t \in Tracks : Seen(a, t).album = id}
Lowest(S) == CHOOSE r \in S : \A q \in S : r.id <= q.id
Remembers(f, key) == IF key \in DOMAIN f THEN f[key] ELSE None

\* A transaction of a scan uses what it resolved itself for an earlier file,
\* or an artist the scan remembers.
CachedArtist(a, name) ==
    LET own == Remembers(tx[a].work.known.artists, name)
    IN  IF own # None THEN own ELSE Remembers(known.artists, name)
scanAlbumCacheKey(a) == <<tx[a].target.album, tx[a].artist, tx[a].previous>>
CachedAlbum(a) == Remembers(tx[a].work.known.albums, scanAlbumCacheKey(a))

\* A remembered album must still be there with its title and artist.
validateCachedScanAlbum(a) ==
    {r \in Albums(a) : /\ r.id = Remembers(known.albums, scanAlbumCacheKey(a))
                       /\ r.title = tx[a].target.album /\ r.artist = tx[a].artist}
RememberedAlbum(a) == IF a \in Committers /\ tx[a].previous = None THEN validateCachedScanAlbum(a) ELSE {}
Candidates(a) == {r \in Albums(a) : r.title = tx[a].target.album}

---------------------------------------------------------------------------
(* Locks, held to the end or to the savepoint a failure goes back to *)

Lock(kind, of) == <<kind, of>>
Rows(S) == {Lock("row", r.id) : r \in S}

\* Scans and edits lock the title of an album under different keys.
AlbumLocks(a) ==
    IF a \in Editors THEN {Lock("title", tx[a].target.album)} \union Rows(Candidates(a))
    ELSE {Lock("album", tx[a].target.album)}
         \union Rows(IF RememberedAlbum(a) # {} THEN RememberedAlbum(a) ELSE Candidates(a))
ArtistLocksNone(a) == {}
ArtistLocks(a) ==
    IF a \in Editors \/ CachedArtist(a, tx[a].target.artist) # None THEN {}
    ELSE {Lock("artist", tx[a].target.artist)}
LeaveLocks(a) ==
    IF a \in Editors THEN {} ELSE {Lock("album", r.title) : r \in {q \in Albums(a) : q.id = tx[a].left}}
Wants(a) ==
    LET x == tx[a]
    IN  CASE x.step = "meta" -> {Lock("meta", x.track)}
          [] x.step = "artist" -> ArtistLocks(a)
          [] x.step = "album" /\ x.target.album # None /\ CachedAlbum(a) = None -> AlbumLocks(a)
          [] x.step \in {"open", "track"} -> {Lock("track", x.track)}
          [] x.step = "leave" -> LeaveLocks(a)
          [] x.step = "drop" -> {Lock("row", x.left)} \union {Lock("track", t) : t \in ShownOn(a, x.left)}
          [] OTHER -> {}
Blockers(a) == {b \in Actors \ {a} : tx[b].work.held \cap Wants(a) # {}}
Deadlocked(a) == \E b \in Blockers(a) : a \in Blockers(b) \/ \E c \in Blockers(b) : a \in Blockers(c)

At(a, step) == tx[a].step = step /\ Blockers(a) = {}
Locked(a) == [tx[a].work EXCEPT !.held = @ \union Wants(a)]
To(a, x, step, work) == tx' = [tx EXCEPT ![a] = [x EXCEPT !.step = step, !.work = work]]
\* A deadlock that PostgreSQL ends, a reference to an artist that is gone, or
\* any other statement that fails.
Failed(a) ==
    IF Deadlocked(a) \/ (At(a, "track") /\ \A r \in Artists(a) : r.id # tx[a].artist)
    THEN changes' = changes
    ELSE changes < MaxChanges /\ changes' = changes + 1
Uncommitted == UNCHANGED <<file, artist, album, row, known, orphaned, changes>>

---------------------------------------------------------------------------
(* The steps of one track, shared by scans and edits up to their differences  *)

\* An identifier in use or remembered anywhere is never given again.
Ids(f) == {f[key] : key \in DOMAIN f}
TakenIn(w) == {r.id : r \in w.artists \union w.albums} \union w.dropped
              \union Ids(w.known.artists) \union Ids(w.known.albums)
Taken == {r.id : r \in artist \union album} \union Ids(known.artists) \union Ids(known.albums)
    \union UNION {LET x == tx[b]
                  IN  TakenIn(x.work) \union TakenIn(x.saved)
                      \union ({x.artist, x.album, x.left, x.previous} \ {None})
                  : b \in Actors}
Fresh == CHOOSE n \in 1..Cardinality(Taken) + 1 : n \notin Taken
Maker(a) == IF a \in Committers THEN "scan" ELSE "edit"

\* An edit looks the artist up without a lock.
ResolveArtist(a) ==
    LET x == tx[a]  work == Locked(a)  name == x.target.artist
        cached == IF a \in Committers THEN CachedArtist(a, name) ELSE None
        found == {r \in Artists(a) : r.name = name}
    IN  /\ At(a, "artist")
        /\ CASE cached # None -> To(a, [x EXCEPT !.artist = cached], "album", work)
             [] cached = None /\ found # {} ->
                    To(a, [x EXCEPT !.artist = Lowest(found).id], "album", work)
             [] OTHER ->
                    To(a, [x EXCEPT !.artist = Fresh], "album",
                       [work EXCEPT !.artists = @ \union {[id |-> Fresh, name |-> name, by |-> Maker(a)]}])
        /\ Uncommitted

\* The album of the title with this very artist, the track's present one first.
ChosenAlbum(a) ==
    LET same == {r \in Candidates(a) : r.artist = tx[a].artist}
        present == {r \in same : r.id = tx[a].previous}
    IN  IF present # {} THEN present ELSE same
ResolveAlbum(a) ==
    LET x == tx[a]  title == x.target.album
        found == IF RememberedAlbum(a) # {} THEN RememberedAlbum(a) ELSE ChosenAlbum(a)
        made == [id |-> Fresh, title |-> title, artist |-> x.artist, by |-> Maker(a)]
    IN  /\ At(a, "album")
        /\ CASE title = None -> To(a, x, "track", Locked(a))
             [] title # None /\ CachedAlbum(a) # None ->
                    To(a, [x EXCEPT !.album = CachedAlbum(a)], "track", Locked(a))
             [] title # None /\ CachedAlbum(a) = None /\ found # {} ->
                    To(a, [x EXCEPT !.album = Lowest(found).id], "track", Locked(a))
             [] OTHER ->
                    To(a, [x EXCEPT !.album = made.id], "track", [Locked(a) EXCEPT !.albums = @ \union {made}])
        /\ Uncommitted

\* Scanned lyrics replace scanned lyrics only; an override keeps them out.
syncNewScannedLyrics(x) ==
    [text |-> x.raw.lyrics, origin |-> IF x.raw.lyrics = None THEN None ELSE "SCAN"]
syncScannedLyrics(r, x) ==
    IF "lyrics" \in DOMAIN r.overrides \/ r.origin \in {"MANUAL", "SCRAPED"}
    THEN [text |-> r.lyrics, origin |-> r.origin]
    ELSE syncNewScannedLyrics(x)

\* An edit writes the lyrics that count now, whichever field it was about.
projectLyrics(r, x, origin) ==
    LET was == ApplyMetadataOverrides(r.raw, r.overrides).lyrics
    IN  CASE x.target.lyrics # None -> [text |-> x.target.lyrics, origin |-> origin]
          [] x.target.lyrics = None /\ was # None /\ r.lyrics = was -> [text |-> None, origin |-> None]
          [] OTHER -> [text |-> r.lyrics, origin |-> r.origin]

recordScanMetadata(r, x) ==
    [r EXCEPT !.raw = x.raw, !.version = IF r.raw \in {None, x.raw} THEN @ ELSE @ + 1]
upsertScanTrack(a) ==
    LET x == tx[a]  r == Seen(a, x.track)  lyrics == syncScannedLyrics(r, x)
    IN  [recordScanMetadata(r, x) EXCEPT !.there = TRUE, !.artist = x.artist, !.album = x.album,
                                         !.lyrics = lyrics.text, !.origin = lyrics.origin]
projectMetadata(a) ==
    LET x == tx[a]  r == Seen(a, x.track)  lyrics == projectLyrics(r, x, IF a \in Matchers THEN "SCRAPED" ELSE "MANUAL")
    IN  [r EXCEPT !.artist = x.artist, !.album = x.album,
                  !.overrides = UpdateMetadataOverrides(@, x.patch),
                  !.lyrics = lyrics.text, !.origin = lyrics.origin, !.version = @ + 1]

\* What a file resolved is kept for the next files once it is written.
Resolved(x, work, key) ==
    [work EXCEPT !.known.artists = Over([name \in {x.target.artist} |-> x.artist], @),
                 !.known.albums = IF x.album = None THEN @ ELSE Over([k \in {key} |-> x.album], @)]
Done(a, x, work) ==
    IF a \in Editors THEN To(a, x, "done", work)
    ELSE LET kept == Resolved(x, work, scanAlbumCacheKey(a))
         IN  To(a, [x EXCEPT !.saved = kept, !.track = None, !.done = @ \union {x.track}], "next", kept)

\* The row refers to an artist that may be gone by now.
WriteTrack(a) ==
    LET x == tx[a]
        left == Seen(a, x.track).album
        written == IF a \in Committers THEN upsertScanTrack(a) ELSE projectMetadata(a)
    IN  /\ At(a, "track") /\ \E r \in Artists(a) : r.id = x.artist
        /\ LET work == [Locked(a) EXCEPT !.rows = Over([t \in {x.track} |-> written], @),
                                        !.orphans = @ \ {x.track}]
           IN  IF left \in {None, x.album} THEN Done(a, x, work)
               ELSE To(a, [x EXCEPT !.left = left], "leave", work)
        /\ Uncommitted

\* Whether the old album is empty is decided before its row is locked; a scan
\* has locked the title by then.
LeaveAlbum(a) ==
    /\ At(a, "leave")
    /\ IF ShownOn(a, tx[a].left) = {} THEN To(a, tx[a], "drop", Locked(a))
       ELSE Done(a, tx[a], Locked(a))
    /\ Uncommitted

ForgetAlbum(f, id) == [key \in {k \in DOMAIN f : f[k] # id} |-> f[key]]

\* Deleting an album takes it away from the tracks that show it by then.
deleteAlbumIfEmpty(a) ==
    LET x == tx[a]  others == ShownOn(a, x.left)
    IN  /\ At(a, "drop")
        /\ Done(a, x, [Locked(a) EXCEPT
                !.dropped = @ \union {x.left}, !.orphans = @ \union others,
                !.rows = Over([t \in others |-> [Seen(a, t) EXCEPT !.album = None]], @),
                !.known.albums = ForgetAlbum(@, x.left)])
        /\ known' = IF a \in Editors THEN known ELSE [known EXCEPT !.albums = ForgetAlbum(@, x.left)]
        /\ UNCHANGED <<file, artist, album, row, orphaned, changes>>

Store(work) ==
    /\ artist' = artist \union work.artists
    /\ album' = {r \in album \union work.albums : r.id \notin work.dropped}
    /\ row' = Over(work.rows, row)
    /\ orphaned' = (orphaned \ (DOMAIN work.rows \ work.orphans)) \union work.orphans
    /\ changes' = changes + 1

---------------------------------------------------------------------------
(* Scans: the files of a batch share a transaction, with a savepoint each *)

OpenFile(s, t) ==
    LET r == Seen(s, t)
        x == [tx[s] EXCEPT !.track = t, !.raw = file[t], !.artist = None, !.album = None]
    IN  /\ tx[s].step \in {"idle", "next"} /\ changes < MaxChanges
        /\ t \notin Legacy /\ \A c \in Committers : t \notin tx[c].done \union {tx[c].track}
        /\ IF r.there THEN To(s, x, "meta", x.work)
           ELSE To(s, [x EXCEPT !.target = file[t], !.previous = None], "artist", x.work)
        /\ Uncommitted

effectiveScanMetadataUnlocked(s) ==
    LET r == Seen(s, tx[s].track)
    IN  /\ tx[s].step = "meta"
        /\ To(s, [tx[s] EXCEPT !.target = ApplyMetadataOverrides(tx[s].raw, r.overrides), !.previous = r.album],
              "artist", tx[s].work)
        /\ Uncommitted
effectiveScanMetadata(s) ==
    LET r == Seen(s, tx[s].track)
    IN  /\ At(s, "meta")
        /\ To(s, [tx[s] EXCEPT !.target = ApplyMetadataOverrides(tx[s].raw, r.overrides), !.previous = r.album],
              "artist", Locked(s))
        /\ Uncommitted

\* A statement fails: the file goes back to its savepoint, the others stay.
Fails(s) ==
    /\ tx[s].step \notin {"idle", "next"}
    /\ Failed(s)
    /\ To(s, [tx[s] EXCEPT !.track = None, !.done = @ \union {tx[s].track}], "next", tx[s].saved)
    /\ UNCHANGED <<file, artist, album, row, known, orphaned>>

\* The scan remembers artists and albums only once they are committed.
CommitBatch(s) ==
    LET work == tx[s].work
    IN  /\ tx[s].step = "next" /\ changes < MaxChanges
        /\ Store(work)
        /\ known' = [artists |-> Over(work.known.artists, known.artists),
                     albums |-> Over(work.known.albums, known.albums)]
        /\ tx' = [tx EXCEPT ![s] = NoTx]
        /\ UNCHANGED file
AbortBatch(s) ==
    /\ tx[s].step # "idle" /\ changes < MaxChanges
    /\ changes' = changes + 1
    /\ tx' = [tx EXCEPT ![s] = NoTx]
    /\ UNCHANGED <<file, artist, album, row, known, orphaned>>

---------------------------------------------------------------------------
(* Edits of administrators and of tag matching *)

\* Older tracks get their metadata from the catalogue when first asked for.
TheOnly(S) == IF S = {} THEN None ELSE CHOOSE e \in S : TRUE
catalogSnapshot(r) ==
    [artist |-> TheOnly({q.name : q \in {p \in artist : p.id = r.artist}}),
     album |-> TheOnly({q.title : q \in {p \in album : p.id = r.album}}), lyrics |-> r.lyrics]
EnsureMetadata(t) ==
    /\ row[t].there /\ row[t].raw = None
    /\ row' = [row EXCEPT ![t].raw = catalogSnapshot(row[t])]
    /\ UNCHANGED <<file, artist, album, known, tx, orphaned, changes>>

\* The version comes with the request, or was read before the track was matched.
UpdateMetadata(e, t, patch) ==
    /\ tx[e].step = "idle" /\ changes < MaxChanges
    /\ row[t].there /\ row[t].raw # None
    /\ To(e, [tx[e] EXCEPT !.track = t, !.patch = patch, !.version = row[t].version],
          "open", NoWork)
    /\ Uncommitted
LockTrack(e) == At(e, "open") /\ To(e, tx[e], "meta", Locked(e)) /\ Uncommitted

Updates(e) ==
    LET x == tx[e]  r == row[x.track]
    IN  r.version = x.version /\ UpdateMetadataOverrides(r.overrides, x.patch) # r.overrides
lockedMetadata(e) ==
    LET x == tx[e]  r == row[x.track]
        target == ApplyMetadataOverrides(r.raw, UpdateMetadataOverrides(r.overrides, x.patch))
    IN  /\ At(e, "meta")
        /\ IF Updates(e)
           THEN To(e, [x EXCEPT !.target = target, !.previous = r.album], "artist", Locked(e))
           ELSE tx' = [tx EXCEPT ![e] = NoTx]
        /\ Uncommitted

CommitEdit(e) ==
    /\ At(e, "done")
    /\ Store(tx[e].work)
    /\ tx' = [tx EXCEPT ![e] = NoTx]
    /\ UNCHANGED <<file, known>>
RollBack(e) ==
    /\ tx[e].step # "idle"
    /\ Failed(e)
    /\ tx' = [tx EXCEPT ![e] = NoTx]
    /\ UNCHANGED <<file, artist, album, row, known, orphaned>>

---------------------------------------------------------------------------
(* Around them: users change files, and artists nothing shows are deleted.    *)

ChangeFile(t, tags) ==
    /\ t \notin Legacy /\ changes < MaxChanges /\ tags # file[t]
    /\ file' = [file EXCEPT ![t] = tags]
    /\ changes' = changes + 1
    /\ UNCHANGED <<artist, album, row, known, tx, orphaned>>
Referenced(id) ==
    \/ \E t \in Tracks : row[t].artist = id \/ \E a \in Actors : Seen(a, t).artist = id
    \/ \E r \in album \union UNION {tx[a].work.albums : a \in Actors} : r.artist = id
DeleteArtist(r) ==
    /\ changes < MaxChanges /\ ~Referenced(r.id)
    /\ artist' = artist \ {r}
    /\ changes' = changes + 1
    /\ UNCHANGED <<file, album, row, known, tx, orphaned>>

Projects(a) ==
    ResolveArtist(a) \/ ResolveAlbum(a) \/ WriteTrack(a) \/ LeaveAlbum(a) \/ deleteAlbumIfEmpty(a)
Next ==
    \/ \E a \in Actors : Projects(a)
    \/ \E s \in Committers :
          \/ effectiveScanMetadata(s) \/ Fails(s) \/ CommitBatch(s) \/ AbortBatch(s)
          \/ \E t \in Tracks : OpenFile(s, t)
    \/ \E e \in Editors :
          \/ LockTrack(e) \/ lockedMetadata(e) \/ CommitEdit(e) \/ RollBack(e)
          \/ \E t \in Tracks, patch \in Patches : UpdateMetadata(e, t, patch)
    \/ \E t \in Tracks : EnsureMetadata(t) \/ \E tags \in Snapshots : ChangeFile(t, tags)
    \/ \E r \in artist : DeleteArtist(r)

Spec == Init /\ [][Next]_projVars

---------------------------------------------------------------------------
TypeOK ==
    /\ file \in [Tracks \ Legacy -> Snapshots]
    /\ \A r \in artist : r.by \in {"scan", "edit"}
    /\ orphaned \subseteq Tracks /\ changes \in 0..MaxChanges + Cardinality(Actors)

\* Every track shows what its tags and overrides say together: no rescan ever
\* undoes an edit, whichever commits first, no edit is made on tags that have
\* changed since, and no artist or album is used that another transaction took
\* back or deleted.  Only an edit that empties an album beside a track joining
\* it can take the album from that track. Lyrics that an edit takes away may
\* give way to others that the track still has.
ShownFollowsMetadata ==
    \A t \in {q \in Tracks : row[q].raw # None} :
        LET r == row[t]  says == ApplyMetadataOverrides(r.raw, r.overrides)
        IN  /\ \E q \in artist : q.id = r.artist /\ q.name = says.artist
            /\ r.album = None <=> says.album = None \/ t \in orphaned
            /\ r.album # None => \E q \in album :
                   q.id = r.album /\ q.title = says.album /\ q.artist = r.artist
            /\ "lyrics" \in DOMAIN r.overrides /\ says.lyrics # None => r.lyrics = says.lyrics

\* Scans that run at once never make the same artist or the same album twice.
Twins(p, q) == p # q /\ p.by = "scan" /\ q.by = "scan"
ScansMakeOneOfEach ==
    /\ \A p, q \in artist : Twins(p, q) => p.name # q.name
    /\ \A p, q \in album : Twins(p, q) => <<p.title, p.artist>> # <<q.title, q.artist>>
=============================================================================
