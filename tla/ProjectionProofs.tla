-------------------------- MODULE ProjectionProofs --------------------------
(***************************************************************************)
(* The tags a track shows (MetadataProjection), for any tracks, files,       *)
(* scans, edits and patches: what scans and edits commit beside each other   *)
(* is what tags and overrides say together. The invariant relates what is    *)
(* committed to what each transaction has written, remembers, keeps in its   *)
(* savepoint and holds locked.                                               *)
(***************************************************************************)
EXTENDS CatalogueProofs

ProjActors == Committers \union Editors
Identifiers == Nat \ {0}
MaybeId == Identifiers \union {None}
Meta == [Fields -> Texts]
TxFields == {"step", "work", "saved", "track", "patch", "version", "raw", "target", "previous",
             "artist", "album", "left", "done"}
WorkFields == {"artists", "albums", "dropped", "orphans", "rows", "held", "known"}
RowFields == {"there", "artist", "album", "lyrics", "origin", "raw", "overrides", "version"}

IsOverride(o) == DOMAIN o \subseteq Fields /\ \A f \in DOMAIN o : o[f] \in Texts
RowShaped(r) ==
    /\ DOMAIN r = RowFields
    /\ r.artist \in MaybeId /\ r.album \in MaybeId /\ r.lyrics \in Texts
    /\ r.raw \in Meta \union {None} /\ IsOverride(r.overrides)
ArtistShaped(r) == r.id \in Identifiers /\ r.name \in Texts /\ r.by \in {"scan", "edit"}
AlbumShaped(r) == r.id \in Identifiers /\ r.title \in Texts
MemoryShaped(m) ==
    /\ DOMAIN m = {"artists", "albums"}
    /\ IsFiniteSet(DOMAIN m.artists) /\ IsFiniteSet(DOMAIN m.albums)
    /\ \A k \in DOMAIN m.artists : m.artists[k] \in Identifiers
    /\ \A k \in DOMAIN m.albums : m.albums[k] \in Identifiers
WorkShaped(w) ==
    /\ DOMAIN w = WorkFields
    /\ IsFiniteSet(w.artists) /\ \A r \in w.artists : ArtistShaped(r)
    /\ IsFiniteSet(w.albums) /\ \A r \in w.albums : AlbumShaped(r)
    /\ IsFiniteSet(w.dropped)
    /\ DOMAIN w.rows \subseteq Tracks /\ \A t \in DOMAIN w.rows : RowShaped(w.rows[t])
    /\ MemoryShaped(w.known)
TxShaped(x) ==
    /\ DOMAIN x = TxFields /\ WorkShaped(x.work) /\ WorkShaped(x.saved)
    /\ IsOverride(x.patch)
    /\ x.previous \in MaybeId /\ x.artist \in MaybeId /\ x.album \in MaybeId /\ x.left \in MaybeId
    /\ x.done \subseteq Tracks
ProjTypes ==
    /\ file \in [Tracks \ Legacy -> Snapshots]
    /\ IsFiniteSet(artist) /\ \A r \in artist : ArtistShaped(r)
    /\ IsFiniteSet(album) /\ \A r \in album : AlbumShaped(r)
    /\ DOMAIN row = Tracks /\ \A t \in Tracks : RowShaped(row[t])
    /\ MemoryShaped(known)
    /\ DOMAIN tx = ProjActors /\ \A a \in ProjActors : TxShaped(tx[a])
    /\ orphaned \subseteq Tracks

Lock(kind, of) == Proj!Lock(kind, of)
Says(r) == Proj!ApplyMetadataOverrides(r.raw, r.overrides)
AlbumsIn(L, w) == {r \in L \union w.albums : r.id \notin w.dropped}
RowIn(R, w, t) == IF t \in DOMAIN w.rows THEN w.rows[t] ELSE R[t]
SameCore(p, q) ==
    /\ p.there = q.there /\ p.artist = q.artist /\ p.lyrics = q.lyrics
    /\ p.raw = q.raw /\ p.overrides = q.overrides

\* A track shows what its tags and overrides say, and one without tags yet
\* shows an artist and an album that are there.
Fits(r, orphan, A, L) ==
    /\ \E q \in A : q.id = r.artist /\ q.name = Says(r).artist
    /\ r.album = None <=> Says(r).album = None \/ orphan
    /\ r.album # None => \E q \in L : q.id = r.album /\ q.title = Says(r).album /\ q.artist = r.artist
    /\ "lyrics" \in DOMAIN r.overrides /\ Says(r).lyrics # None => r.lyrics = Says(r).lyrics
Stands(r, A, L) ==
    /\ \E q \in A : q.id = r.artist
    /\ r.album # None => \E q \in L : q.id = r.album /\ q.artist = r.artist
Untagged(t, r, orphan, A, L) ==
    /\ ~orphan /\ r.overrides = Proj!Empty
    /\ r = Proj!NoRow \/ (t \in Legacy /\ r.there /\ Stands(r, A, L))
Committed(A, L, R, O) ==
    /\ \A q \in L : q.title # None
    /\ \A t \in Tracks :
          /\ R[t].raw # None => R[t].there /\ Fits(R[t], t \in O, A, L)
          /\ R[t].raw = None => Untagged(t, R[t], t \in O, A, L)

\* An album that a transaction uses is there, and locked or its own.
Usable(w, n, L) ==
    /\ \E q \in AlbumsIn(L, w) : q.id = n
    /\ Lock("row", n) \in w.held \/ \E q \in w.albums : q.id = n
\* A row that a transaction has written: it holds the track, and has only taken
\* the album away unless it holds the metadata too or the track is new.
RowWritten(w, t, D, A, L, R) ==
    LET r == w.rows[t]
    IN  /\ Lock("track", t) \in w.held
        /\ r.raw # None /\ r.there
        /\ Fits(r, t \in w.orphans, A \union w.artists, AlbumsIn(L, w))
        /\ r.album # None => Usable(w, r.album, L)
        /\ SameCore(r, R[t]) \/ (t \in D /\ (Lock("meta", t) \in w.held \/ R[t] = Proj!NoRow))
WorkInv(w, D, A, L, R) ==
    /\ \A q \in w.albums : q.title # None /\ \A r \in L : r.id # q.id
    /\ \A n \in w.dropped : n # None /\ Lock("row", n) \in w.held
    /\ \A k \in DOMAIN w.known.albums : Usable(w, w.known.albums[k], L)
    /\ \A t \in Tracks : RowIn(R, w, t).album \notin w.dropped
    /\ w.orphans \subseteq DOMAIN w.rows
    /\ \A t \in Tracks : Lock("meta", t) \in w.held => R[t].there
    /\ \A t \in DOMAIN w.rows : RowWritten(w, t, D, A, L, R)

StepInv(x, L, R) ==
    /\ x.step \in {"open", "meta", "artist"} => x.artist = None /\ x.album = None
    /\ x.step = "idle" => x = Proj!NoTx
    /\ x.step = "next" => x.track = None
    /\ x.step \notin {"idle", "next"} => x.track \in Tracks /\ x.track \notin x.done
    /\ x.step \in {"album", "track", "leave", "drop"} => x.artist # None
    /\ x.step = "album" => x.album = None
    /\ x.step \in {"artist", "album", "track", "leave", "drop"} => x.target \in Meta
    /\ x.step \in {"track", "leave", "drop"} =>
          /\ x.album = None <=> x.target.album = None
          /\ x.album # None => Usable(x.work, x.album, L)
    /\ x.step \in {"leave", "drop"} => x.left # None /\ x.left # x.album
    /\ x.step = "drop" =>
          \A t \in Tracks : RowIn(R, x.work, t).album = x.left => RowIn(R, x.work, t).raw # None
ScanStep(x, R) ==
    /\ x.step \notin {"open", "done"}
    /\ x.track \notin Legacy /\ x.done \intersect Legacy = {}
    /\ x.step \notin {"idle", "next"} => x.raw \in Meta
    /\ x.step = "meta" => R[x.track].there
    /\ x.step \in {"artist", "album", "track"} =>
          /\ x.target = Proj!ApplyMetadataOverrides(x.raw, RowIn(R, x.work, x.track).overrides)
          /\ Lock("meta", x.track) \in x.work.held \/ R[x.track] = Proj!NoRow
EditStep(x, R) ==
    /\ x.step # "next" /\ x.done = {} /\ x.saved = Proj!NoWork
    /\ x.step # "idle" => R[x.track].raw # None
    /\ x.step \in {"open", "meta", "artist", "album", "track"} => x.work.rows = Proj!Empty
    /\ x.step \in {"meta", "artist", "album", "track"} => Lock("track", x.track) \in x.work.held
    /\ x.step \in {"artist", "album", "track"} =>
          /\ Lock("meta", x.track) \in x.work.held
          /\ x.target = Proj!ApplyMetadataOverrides(R[x.track].raw,
                            Proj!UpdateMetadataOverrides(R[x.track].overrides, x.patch))
Written(x) == IF x.step \in {"leave", "drop", "done"} THEN x.done \union {x.track} ELSE x.done
\* What a savepoint keeps is still part of what the transaction has done.
SavedWithin(v, w, done) ==
    /\ v.held \subseteq w.held /\ v.artists \subseteq w.artists /\ v.albums \subseteq w.albums
    /\ v.dropped \subseteq w.dropped
    /\ \A t \in DOMAIN v.rows :
          t \in DOMAIN w.rows /\ (t \in done => v.rows[t].artist = w.rows[t].artist)
ActorInv(a, x, A, L, R) ==
    /\ WorkInv(x.work, Written(x), A, L, R) /\ WorkInv(x.saved, x.done, A, L, R)
    /\ SavedWithin(x.saved, x.work, x.done) /\ StepInv(x, L, R)
    /\ a \in Committers => ScanStep(x, R)
    /\ a \in Editors => EditStep(x, R)

\* Transactions hold no lock twice, and see nothing another one has made.
Beside(w, v) ==
    /\ w.held \intersect v.held = {}
    /\ \A q \in w.albums : (\A r \in v.albums : r.id # q.id) /\ q.id \notin v.dropped
    /\ \A r \in v.albums : r.id \notin w.dropped
Aside(x, y) ==
    /\ Beside(x.work, y.work)
    /\ \A q \in x.work.albums : q.id # y.left
    /\ \A q \in y.work.albums : q.id # x.left
Busy(x) == (x.done \union {x.track}) \ {None}

\* An identifier always means the same artist or album.
Functional(C) == \A p, q \in C : p[1] = q[1] => p[2] = q[2]
KnownArtists(f) == {<<f[k], k>> : k \in DOMAIN f}
KnownAlbums(f) == {<<f[k], <<k[1], k[2]>>>> : k \in DOMAIN f}
OwnArtists(S) == {<<r.id, r.name>> : r \in S}
OwnAlbums(S) == {<<r.id, <<r.title, r.artist>>>> : r \in S}
ArtistsOfWork(w) == OwnArtists(w.artists) \union KnownArtists(w.known.artists)
AlbumsOfWork(w) == OwnAlbums(w.albums) \union KnownAlbums(w.known.albums)
ArtistOf(x) == IF x.artist = None THEN {} ELSE {<<x.artist, x.target.artist>>}
AlbumOf(x) == IF x.album = None THEN {} ELSE {<<x.album, <<x.target.album, x.artist>>>>}
ArtistsOf(x) == ArtistsOfWork(x.work) \union ArtistsOfWork(x.saved) \union ArtistOf(x)
AlbumsOf(x) == AlbumsOfWork(x.work) \union AlbumsOfWork(x.saved) \union AlbumOf(x)
ArtistClaims == OwnArtists(artist) \union KnownArtists(known.artists) \union (UNION {ArtistsOf(tx[b]) : b \in ProjActors})
AlbumClaims == OwnAlbums(album) \union KnownAlbums(known.albums) \union (UNION {AlbumsOf(tx[b]) : b \in ProjActors})

ProjInv ==
    /\ ProjTypes
    /\ Committed(artist, album, row, orphaned)
    /\ \A a \in ProjActors : ActorInv(a, tx[a], artist, album, row)
    /\ \A a, b \in ProjActors : a # b => Aside(tx[a], tx[b])
    /\ \A a, b \in Committers : a # b => Busy(tx[a]) \intersect Busy(tx[b]) = {}
    /\ Functional(ArtistClaims) /\ Functional(AlbumClaims)

-----------------------------------------------------------------------------
(* What a transaction has written fits the catalogue once it commits         *)

Stored(w, R) == Proj!Over(w.rows, R)

LEMMA StoredRow ==
    ASSUME NEW w, NEW R, DOMAIN w.rows \subseteq Tracks, DOMAIN R = Tracks
    PROVE  /\ DOMAIN Stored(w, R) = Tracks
           /\ \A t \in Tracks : Stored(w, R)[t] = RowIn(R, w, t)
BY DEF Stored, Proj!Over, RowIn

LEMMA UsableKept ==
    ASSUME NEW L, NEW w, NEW v, NEW n, Beside(w, v),
           \A m \in w.dropped : Lock("row", m) \in w.held, Usable(v, n, L)
    PROVE  Usable(v, n, AlbumsIn(L, w))
<1>1. PICK q \in AlbumsIn(L, v) : q.id = n
  BY DEF Usable
<1>2. n \notin v.dropped
  BY <1>1 DEF AlbumsIn
<1>3. CASE \E r \in v.albums : r.id = n
  BY <1>2, <1>3 DEF Usable, AlbumsIn
<1>4. CASE q \in L /\ Lock("row", n) \in v.held
  <2>1. n \notin w.dropped
    BY <1>4 DEF Beside
  <2>2. q \in AlbumsIn(AlbumsIn(L, w), v)
    BY <1>1, <1>2, <1>4, <2>1 DEF AlbumsIn
  <2> QED
    BY <1>1, <1>4, <2>2 DEF Usable
<1> QED
  BY <1>1, <1>3, <1>4 DEF Usable, AlbumsIn

LEMMA FitsKept ==
    ASSUME NEW A, NEW L, NEW w, NEW v, NEW r, NEW o, Beside(w, v),
           \A m \in w.dropped : Lock("row", m) \in w.held,
           \A q \in v.albums : \A p \in L : p.id # q.id,
           r.album # None => Usable(v, r.album, L),
           Fits(r, o, A \union v.artists, AlbumsIn(L, v))
    PROVE  Fits(r, o, (A \union w.artists) \union v.artists, AlbumsIn(AlbumsIn(L, w), v))
<1>1. ASSUME r.album # None
      PROVE  \E q \in AlbumsIn(AlbumsIn(L, w), v) :
                q.id = r.album /\ q.title = Says(r).album /\ q.artist = r.artist
  <2>1. PICK q \in AlbumsIn(L, v) : q.id = r.album /\ q.title = Says(r).album /\ q.artist = r.artist
    BY <1>1 DEF Fits
  <2>2. CASE q \in v.albums
    BY <2>1, <2>2 DEF AlbumsIn
  <2>3. CASE q \in L
    <3>1. Lock("row", r.album) \in v.held
      BY <1>1, <2>1, <2>3 DEF Usable
    <3>2. q.id \notin w.dropped
      BY <3>1, <2>1 DEF Beside
    <3> QED
      BY <2>1, <2>3, <3>2 DEF AlbumsIn
  <2> QED
    BY <2>1, <2>2, <2>3 DEF AlbumsIn
<1>2. \E q \in (A \union w.artists) \union v.artists : q.id = r.artist /\ q.name = Says(r).artist
  BY DEF Fits
<1> QED
  BY <1>1, <1>2 DEF Fits

LEMMA WorkKept ==
    ASSUME NEW A, NEW L, NEW R, NEW D, NEW E, NEW w, NEW v, DOMAIN R = Tracks,
           DOMAIN w.rows \subseteq Tracks, DOMAIN v.rows \subseteq Tracks, Beside(w, v),
           WorkInv(w, D, A, L, R), WorkInv(v, E, A, L, R)
    PROVE  WorkInv(v, E, A \union w.artists, AlbumsIn(L, w), Stored(w, R))
<1>1. \A m \in w.dropped : Lock("row", m) \in w.held
  BY DEF WorkInv
<1>2. \A q \in v.albums : q.title # None /\ \A r \in AlbumsIn(L, w) : r.id # q.id
  BY DEF WorkInv, AlbumsIn, Beside
<1>3. \A n \in v.dropped : n # None /\ Lock("row", n) \in v.held
  BY DEF WorkInv
<1>4. \A k \in DOMAIN v.known.albums : Usable(v, v.known.albums[k], AlbumsIn(L, w))
  BY <1>1, UsableKept DEF WorkInv
<1>5. ASSUME NEW t \in Tracks
      PROVE  RowIn(Stored(w, R), v, t).album \notin v.dropped
  <2>1. CASE t \in DOMAIN v.rows \/ t \notin DOMAIN w.rows
    <3>1. RowIn(Stored(w, R), v, t) = RowIn(R, v, t)
      BY <2>1, StoredRow DEF RowIn
    <3> QED
      BY <3>1 DEF WorkInv
  <2>2. CASE t \notin DOMAIN v.rows /\ t \in DOMAIN w.rows
    <3>1. RowIn(Stored(w, R), v, t) = w.rows[t]
      BY <2>2, StoredRow DEF RowIn
    <3>2. w.rows[t].album # None => Usable(w, w.rows[t].album, L)
      BY <2>2 DEF WorkInv, RowWritten
    <3>3. SUFFICES ASSUME w.rows[t].album \in v.dropped
                   PROVE  FALSE
      BY <3>1
    <3>4. Lock("row", w.rows[t].album) \in v.held /\ w.rows[t].album # None
      BY <3>3, <1>3
    <3> QED
      BY <3>2, <3>3, <3>4 DEF Usable, Beside
  <2> QED
    BY <2>1, <2>2
<1>6. \A t \in Tracks : Lock("meta", t) \in v.held => Stored(w, R)[t].there
  BY StoredRow DEF WorkInv, RowIn, RowWritten
<1>7. ASSUME NEW t \in DOMAIN v.rows
      PROVE  RowWritten(v, t, E, A \union w.artists, AlbumsIn(L, w), Stored(w, R))
  <2> DEFINE r == v.rows[t]
  <2>1. RowWritten(v, t, E, A, L, R)
    BY DEF WorkInv
  <2>2. t \notin DOMAIN w.rows
    BY <2>1 DEF WorkInv, RowWritten, Beside
  <2>3. Stored(w, R)[t] = R[t]
    BY <2>2, StoredRow DEF RowIn
  <2>4. r.album # None => Usable(v, r.album, AlbumsIn(L, w))
    BY <2>1, <1>1, UsableKept DEF RowWritten
  <2>5. Fits(r, t \in v.orphans, (A \union w.artists) \union v.artists, AlbumsIn(AlbumsIn(L, w), v))
    <3>1. r.album # None => Usable(v, r.album, L)
      BY <2>1 DEF RowWritten
    <3>2. Fits(r, t \in v.orphans, A \union v.artists, AlbumsIn(L, v))
      BY <2>1 DEF RowWritten
    <3>3. \A q \in v.albums : \A p \in L : p.id # q.id
      BY DEF WorkInv
    <3> HIDE DEF r
    <3> QED
      BY <3>1, <3>2, <3>3, <1>1, FitsKept
  <2> QED
    BY <2>1, <2>3, <2>4, <2>5 DEF RowWritten
<1> QED
  BY <1>2, <1>3, <1>4, <1>5, <1>6, <1>7 DEF WorkInv

LEMMA AlbumsKept ==
    ASSUME NEW L, NEW R, NEW w, NEW t \in Tracks, NEW n,
           \A m \in Tracks : RowIn(R, w, m).album \notin w.dropped,
           t \notin DOMAIN w.rows, R[t].album = n, NEW q \in L, q.id = n
    PROVE  q \in AlbumsIn(L, w)
BY DEF AlbumsIn, RowIn

LEMMA CommittedKept ==
    ASSUME NEW A, NEW L, NEW R, NEW O, NEW D, NEW w, DOMAIN R = Tracks, DOMAIN w.rows \subseteq Tracks,
           WorkInv(w, D, A, L, R), Committed(A, L, R, O)
    PROVE  Committed(A \union w.artists, AlbumsIn(L, w), Stored(w, R),
                     (O \ (DOMAIN w.rows \ w.orphans)) \union w.orphans)
<1> DEFINE Q == (O \ (DOMAIN w.rows \ w.orphans)) \union w.orphans
<1>1. \A q \in AlbumsIn(L, w) : q.title # None
  BY DEF Committed, WorkInv, AlbumsIn
<1>2. ASSUME NEW t \in Tracks
      PROVE  /\ Stored(w, R)[t].raw # None =>
                   Stored(w, R)[t].there
                   /\ Fits(Stored(w, R)[t], t \in Q, A \union w.artists, AlbumsIn(L, w))
             /\ Stored(w, R)[t].raw = None =>
                   Untagged(t, Stored(w, R)[t], t \in Q, A \union w.artists, AlbumsIn(L, w))
  <2>1. CASE t \in DOMAIN w.rows
    <3>1. RowWritten(w, t, D, A, L, R)
      BY <2>1 DEF WorkInv
    <3>2. Stored(w, R)[t] = w.rows[t]
      BY <2>1, StoredRow DEF RowIn
    <3>3. (t \in Q) = (t \in w.orphans)
      BY <2>1 DEF WorkInv
    <3> QED
      BY <3>1, <3>2, <3>3 DEF RowWritten
  <2>2. CASE t \notin DOMAIN w.rows
    <3>1. Stored(w, R)[t] = R[t]
      BY <2>2, StoredRow DEF RowIn
    <3>2. (t \in Q) = (t \in O)
      BY <2>2 DEF WorkInv
    <3>3. \A q \in L : q.id = R[t].album => q \in AlbumsIn(L, w)
      BY <2>2, AlbumsKept DEF WorkInv
    <3>4. ASSUME R[t].raw # None
          PROVE  R[t].there /\ Fits(R[t], t \in Q, A \union w.artists, AlbumsIn(L, w))
      <4>1. R[t].there /\ Fits(R[t], t \in O, A, L)
        BY <3>4 DEF Committed
      <4> DEFINE r == R[t]
      <4>2. Fits(r, t \in Q, A \union w.artists, AlbumsIn(L, w))
        <5>1. \E q \in A \union w.artists : q.id = r.artist /\ q.name = Says(r).artist
          BY <4>1 DEF Fits
        <5>2. r.album = None <=> Says(r).album = None \/ t \in Q
          BY <4>1, <3>2 DEF Fits
        <5>3. r.album # None => \E q \in AlbumsIn(L, w) :
                 q.id = r.album /\ q.title = Says(r).album /\ q.artist = r.artist
          BY <4>1, <3>3 DEF Fits
        <5>4. "lyrics" \in DOMAIN r.overrides /\ Says(r).lyrics # None => r.lyrics = Says(r).lyrics
          BY <4>1 DEF Fits
        <5> HIDE DEF r
        <5> QED
          BY <5>1, <5>2, <5>3, <5>4 DEF Fits
      <4> QED
        BY <4>1, <4>2
    <3>5. ASSUME R[t].raw = None
          PROVE  Untagged(t, R[t], t \in Q, A \union w.artists, AlbumsIn(L, w))
      <4>1. Untagged(t, R[t], t \in O, A, L)
        BY <3>5 DEF Committed
      <4>2. Stands(R[t], A, L) => Stands(R[t], A \union w.artists, AlbumsIn(L, w))
        BY <3>3 DEF Stands
      <4> QED
        BY <4>1, <4>2, <3>2 DEF Untagged
    <3> QED
      BY <3>1, <3>4, <3>5
  <2> QED
    BY <2>1, <2>2
<1> QED
  BY <1>1, <1>2 DEF Committed

(* A row that one transaction has read is the same when another commits.     *)
LEMMA StepKept ==
    ASSUME NEW A, NEW L, NEW R, NEW D, NEW w, NEW x, DOMAIN R = Tracks, DOMAIN w.rows \subseteq Tracks,
           DOMAIN x.work.rows \subseteq Tracks,
           Beside(w, x.work), WorkInv(w, D, A, L, R), StepInv(x, L, R)
    PROVE  StepInv(x, AlbumsIn(L, w), Stored(w, R))
<1>1. \A m \in w.dropped : Lock("row", m) \in w.held
  BY DEF WorkInv
<1>2. \A n : Usable(x.work, n, L) => Usable(x.work, n, AlbumsIn(L, w))
  BY <1>1, UsableKept
<1>3. ASSUME x.step = "drop", NEW t \in Tracks, RowIn(Stored(w, R), x.work, t).album = x.left
      PROVE  RowIn(Stored(w, R), x.work, t).raw # None
  <2>1. CASE t \in DOMAIN x.work.rows \/ t \notin DOMAIN w.rows
    <3>1. RowIn(Stored(w, R), x.work, t) = RowIn(R, x.work, t)
      BY <2>1, StoredRow DEF RowIn
    <3> QED
      BY <3>1, <1>3 DEF StepInv
  <2>2. CASE t \notin DOMAIN x.work.rows /\ t \in DOMAIN w.rows
    <3>1. RowIn(Stored(w, R), x.work, t) = w.rows[t]
      BY <2>2, StoredRow DEF RowIn
    <3> QED
      BY <3>1, <2>2 DEF WorkInv, RowWritten
  <2> QED
    BY <2>1, <2>2
<1>4. x.step \in {"track", "leave", "drop"} => (x.album # None => Usable(x.work, x.album, AlbumsIn(L, w)))
  BY <1>2 DEF StepInv
<1> QED
  BY <1>3, <1>4 DEF StepInv

\* Who wrote a row may have been the one to read it.
LEMMA ScanKept ==
    ASSUME NEW A, NEW L, NEW R, NEW D, NEW w, NEW x, DOMAIN R = Tracks, DOMAIN w.rows \subseteq Tracks,
           DOMAIN x.work.rows \subseteq Tracks,
           Beside(w, x.work), WorkInv(w, D, A, L, R), WorkInv(x.work, Written(x), A, L, R),
           StepInv(x, L, R), ScanStep(x, R),
           x.track \in Tracks /\ R[x.track] = Proj!NoRow => x.track \notin D
    PROVE  ScanStep(x, Stored(w, R))
<1>1. x.step = "meta" => Stored(w, R)[x.track].there
  <2>1. \A t \in Tracks : R[t].there => Stored(w, R)[t].there
    BY StoredRow DEF RowIn, WorkInv, RowWritten
  <2> QED
    BY <2>1 DEF ScanStep, StepInv
<1>2. ASSUME x.step \in {"artist", "album", "track"}
      PROVE  /\ x.target = Proj!ApplyMetadataOverrides(x.raw, RowIn(Stored(w, R), x.work, x.track).overrides)
             /\ Lock("meta", x.track) \in x.work.held \/ Stored(w, R)[x.track] = Proj!NoRow
  <2> DEFINE t == x.track
  <2>1. t \in Tracks
    BY <1>2 DEF StepInv
  <2>2. CASE t \notin DOMAIN w.rows
    <3>1. Stored(w, R)[t] = R[t]
      BY <2>1, <2>2, StoredRow DEF RowIn
    <3> QED
      BY <3>1, <1>2 DEF ScanStep, RowIn
  <2>3. CASE t \in DOMAIN w.rows
    <3>1. RowWritten(w, t, D, A, L, R)
      BY <2>3 DEF WorkInv
    <3>2. t \notin DOMAIN x.work.rows
      BY <3>1 DEF WorkInv, RowWritten, Beside
    <3>3. Stored(w, R)[t] = w.rows[t]
      BY <2>1, <2>3, StoredRow DEF RowIn
    <3>4. R[t] # Proj!NoRow
      <4>1. SUFFICES ASSUME R[t] = Proj!NoRow
                     PROVE  FALSE
        OBVIOUS
      <4>2. ~R[t].there
        BY <4>1 DEF Proj!NoRow
      <4> QED
        BY <4>1, <4>2, <2>1, <3>1 DEF RowWritten, SameCore
    <3>5. Lock("meta", t) \in x.work.held
      BY <3>4, <1>2 DEF ScanStep
    <3>6. SameCore(w.rows[t], R[t])
      BY <3>1, <3>4, <3>5 DEF RowWritten, Beside
    <3> QED
      BY <3>2, <3>3, <3>5, <3>6, <1>2 DEF ScanStep, RowIn, SameCore
  <2> QED
    BY <2>2, <2>3
<1> QED
  BY <1>1, <1>2 DEF ScanStep

LEMMA EditKept ==
    ASSUME NEW A, NEW L, NEW R, NEW D, NEW w, NEW x, DOMAIN R = Tracks, DOMAIN w.rows \subseteq Tracks,
           Beside(w, x.work), WorkInv(w, D, A, L, R), StepInv(x, L, R), EditStep(x, R)
    PROVE  EditStep(x, Stored(w, R))
<1>1. \A t \in Tracks : R[t].raw # None => Stored(w, R)[t].raw # None
  BY StoredRow DEF RowIn, WorkInv, RowWritten
<1>2. x.step # "idle" => Stored(w, R)[x.track].raw # None
  BY <1>1 DEF EditStep, StepInv
<1>3. ASSUME x.step \in {"artist", "album", "track"}
      PROVE  Stored(w, R)[x.track] = R[x.track]
  <2>1. x.track \in Tracks /\ Lock("track", x.track) \in x.work.held
    BY <1>3 DEF EditStep, StepInv
  <2>2. x.track \notin DOMAIN w.rows
    BY <2>1 DEF WorkInv, RowWritten, Beside
  <2> QED
    BY <2>1, <2>2, StoredRow DEF RowIn
<1> QED
  BY <1>2, <1>3 DEF EditStep

LEMMA ActorKept ==
    ASSUME NEW A, NEW L, NEW R, NEW D, NEW w, NEW b, NEW x, DOMAIN R = Tracks,
           DOMAIN w.rows \subseteq Tracks, DOMAIN x.work.rows \subseteq Tracks, DOMAIN x.saved.rows \subseteq Tracks,
           Beside(w, x.work), WorkInv(w, D, A, L, R), ActorInv(b, x, A, L, R),
           b \in Committers /\ x.track \in Tracks /\ R[x.track] = Proj!NoRow => x.track \notin D
    PROVE  ActorInv(b, x, A \union w.artists, AlbumsIn(L, w), Stored(w, R))
<1>1. WorkInv(x.work, Written(x), A \union w.artists, AlbumsIn(L, w), Stored(w, R))
  BY WorkKept DEF ActorInv
<1>2. Beside(w, x.saved)
  BY DEF ActorInv, SavedWithin, Beside
<1>3. WorkInv(x.saved, x.done, A \union w.artists, AlbumsIn(L, w), Stored(w, R))
  BY <1>2, WorkKept DEF ActorInv
<1>4. StepInv(x, AlbumsIn(L, w), Stored(w, R))
  BY StepKept DEF ActorInv
<1>5. b \in Committers => ScanStep(x, Stored(w, R))
  BY ScanKept DEF ActorInv
<1>6. b \in Editors => EditStep(x, Stored(w, R))
  BY EditKept DEF ActorInv
<1> QED
  BY <1>1, <1>3, <1>4, <1>5, <1>6 DEF ActorInv

-----------------------------------------------------------------------------
(* Metadata that a track gets when it is first asked for, and artists that   *)
(* are deleted, change nothing that a transaction has read or written        *)

Tagged(R, t, s) == [R EXCEPT ![t] = [@ EXCEPT !.raw = s]]

LEMMA TaggedRow ==
    ASSUME NEW R, NEW t \in Tracks, NEW s, DOMAIN R = Tracks, \A m \in Tracks : DOMAIN R[m] = RowFields
    PROVE  /\ DOMAIN Tagged(R, t, s) = Tracks
           /\ \A m \in Tracks \ {t} : Tagged(R, t, s)[m] = R[m]
           /\ Tagged(R, t, s)[t].raw = s
           /\ \A m \in Tracks : /\ Tagged(R, t, s)[m].there = R[m].there
                                /\ Tagged(R, t, s)[m].artist = R[m].artist
                                /\ Tagged(R, t, s)[m].album = R[m].album
                                /\ Tagged(R, t, s)[m].lyrics = R[m].lyrics
                                /\ Tagged(R, t, s)[m].overrides = R[m].overrides
                                /\ DOMAIN Tagged(R, t, s)[m] = RowFields
<1>1. "raw" \in RowFields /\ "there" \in RowFields /\ "artist" \in RowFields /\ "album" \in RowFields
      /\ "lyrics" \in RowFields /\ "overrides" \in RowFields
  BY DEF RowFields
<1>2. \A m \in Tracks : Tagged(R, t, s)[m] = IF m = t THEN [R[t] EXCEPT !.raw = s] ELSE R[m]
  BY DEF Tagged
<1>3. DOMAIN Tagged(R, t, s) = Tracks
  BY DEF Tagged
<1> QED
  BY <1>1, <1>2, <1>3

LEMMA TaggingKeepsWork ==
    ASSUME NEW A, NEW L, NEW R, NEW D, NEW w, NEW t \in Tracks, NEW s,
           DOMAIN R = Tracks, \A m \in Tracks : DOMAIN R[m] = RowFields,
           R[t].raw = None, t \notin D, DOMAIN w.rows \subseteq Tracks, WorkInv(w, D, A, L, R)
    PROVE  /\ t \notin DOMAIN w.rows
           /\ WorkInv(w, D, A, L, Tagged(R, t, s))
<1>1. t \notin DOMAIN w.rows
  BY DEF WorkInv, RowWritten, SameCore
<1>2. \A m \in Tracks : RowIn(Tagged(R, t, s), w, m).album = RowIn(R, w, m).album
  BY TaggedRow DEF RowIn
<1>3. \A m \in DOMAIN w.rows : Tagged(R, t, s)[m] = R[m]
  BY <1>1, TaggedRow
<1>4. \A m \in DOMAIN w.rows : RowWritten(w, m, D, A, L, Tagged(R, t, s))
  BY <1>3 DEF WorkInv, RowWritten
<1>5. \A m \in Tracks : Lock("meta", m) \in w.held => Tagged(R, t, s)[m].there
  BY TaggedRow DEF WorkInv
<1> QED
  BY <1>1, <1>2, <1>4, <1>5 DEF WorkInv

LEMMA TaggingKeepsActor ==
    ASSUME NEW A, NEW L, NEW R, NEW b \in ProjActors, NEW x, NEW t \in Tracks, NEW s,
           DOMAIN R = Tracks, \A m \in Tracks : DOMAIN R[m] = RowFields,
           R[t].raw = None, t \in Legacy, s # None,
           DOMAIN x.work.rows \subseteq Tracks, DOMAIN x.saved.rows \subseteq Tracks, ActorInv(b, x, A, L, R)
    PROVE  ActorInv(b, x, A, L, Tagged(R, t, s))
<1> DEFINE Q == Tagged(R, t, s)
<1>1. t \notin Written(x) /\ t \notin x.done
  BY DEF ActorInv, ScanStep, EditStep, Written, ProjActors
<1>2. WorkInv(x.work, Written(x), A, L, Q) /\ WorkInv(x.saved, x.done, A, L, Q) /\ t \notin DOMAIN x.work.rows
  BY <1>1, TaggingKeepsWork DEF ActorInv
<1>3. \A m \in Tracks : RowIn(Q, x.work, m).album = RowIn(R, x.work, m).album
                        /\ (RowIn(R, x.work, m).raw # None => RowIn(Q, x.work, m).raw # None)
  BY TaggedRow DEF RowIn
<1>4. StepInv(x, L, Q)
  BY <1>3 DEF ActorInv, StepInv
<1>5. ASSUME b \in Committers
      PROVE  ScanStep(x, Q)
  <2>1. x.track # t
    BY <1>5 DEF ActorInv, ScanStep
  <2>2. x.step \notin {"idle", "next"} => x.track \in Tracks /\ Q[x.track] = R[x.track]
    BY <2>1, TaggedRow DEF ActorInv, StepInv
  <2> HIDE DEF Q
  <2> QED
    BY <2>2, <1>5 DEF ActorInv, ScanStep, RowIn
<1>6. ASSUME b \in Editors
      PROVE  EditStep(x, Q)
  <2>1. x.step # "idle" => x.track \in Tracks /\ x.track # t
    BY <1>6 DEF ActorInv, EditStep, StepInv
  <2>2. x.step # "idle" => Q[x.track] = R[x.track]
    BY <2>1, TaggedRow
  <2> HIDE DEF Q
  <2> QED
    BY <2>2, <1>6 DEF ActorInv, EditStep
<1> QED
  BY <1>2, <1>4, <1>5, <1>6 DEF ActorInv

LEMMA Only ==
    ASSUME NEW S, S # {}
    PROVE  Proj!TheOnly(S) \in S
BY DEF Proj!TheOnly

LEMMA TaggingFits ==
    ASSUME NEW A, NEW L, NEW r, NEW s, NEW q, NEW o, ~o, DOMAIN r = RowFields, q = [r EXCEPT !.raw = s],
           r.overrides = Proj!Empty, Stands(r, A, L),
           s = [artist |-> Proj!TheOnly({p.name : p \in {h \in A : h.id = r.artist}}),
                album |-> Proj!TheOnly({p.title : p \in {h \in L : h.id = r.album}}),
                lyrics |-> r.lyrics],
           \A p \in L : p.id # None /\ p.title # None,
           \A p, h \in L : p.id = h.id => p.title = h.title /\ p.artist = h.artist
    PROVE  Fits(q, o, A, L)
<1>1. q.artist = r.artist /\ q.album = r.album /\ q.overrides = Proj!Empty /\ q.raw = s
  BY DEF RowFields
<1>2. Says(q).artist = s.artist /\ Says(q).album = s.album
  BY <1>1 DEF Says, Proj!ApplyMetadataOverrides, Proj!Over, Proj!Empty
<1>3. "lyrics" \notin DOMAIN q.overrides
  BY <1>1 DEF Proj!Empty
<1>4. \E p \in A : p.id = r.artist /\ p.name = s.artist
  <2> DEFINE S == {p.name : p \in {h \in A : h.id = r.artist}}
  <2>1. S # {}
    BY DEF Stands
  <2>2. Proj!TheOnly(S) \in S
    BY <2>1, Only
  <2> QED
    BY <2>2
<1> DEFINE T == {p.title : p \in {h \in L : h.id = r.album}}
<1>5. s.album = Proj!TheOnly(T)
  OBVIOUS
<1>6. CASE r.album = None
  <2>1. T = {}
    BY <1>6
  <2>2. s.album = None
    BY <1>5, <2>1 DEF Proj!TheOnly
  <2> QED
    BY <1>1, <1>2, <1>3, <1>4, <1>6, <2>2 DEF Fits
<1>7. CASE r.album # None
  <2>1. PICK h \in L : h.id = r.album /\ h.artist = r.artist
    BY <1>7 DEF Stands
  <2>2. T # {}
    BY <2>1
  <2>3. Proj!TheOnly(T) \in T
    BY <2>2, Only
  <2>4. s.album = h.title
    BY <1>5, <2>1, <2>3
  <2>5. s.album # None
    BY <2>4
  <2> QED
    BY <1>1, <1>2, <1>3, <1>4, <1>7, <2>1, <2>4, <2>5 DEF Fits
<1> QED
  BY <1>6, <1>7

\* An artist that nothing shows.
LEMMA DeletingKeepsWork ==
    ASSUME NEW A, NEW L, NEW R, NEW D, NEW w, NEW r, DOMAIN w.rows \subseteq Tracks,
           \A t \in DOMAIN w.rows : w.rows[t].artist # r.id, WorkInv(w, D, A, L, R)
    PROVE  WorkInv(w, D, A \ {r}, L, R)
<1>1. ASSUME NEW t \in DOMAIN w.rows
      PROVE  RowWritten(w, t, D, A \ {r}, L, R)
  <2>1. RowWritten(w, t, D, A, L, R) /\ w.rows[t].artist # r.id
    BY DEF WorkInv
  <2>2. Fits(w.rows[t], t \in w.orphans, (A \ {r}) \union w.artists, AlbumsIn(L, w))
    BY <2>1 DEF RowWritten, Fits
  <2> QED
    BY <2>1, <2>2 DEF RowWritten
<1> QED
  BY <1>1 DEF WorkInv

LEMMA DeletingKeepsActor ==
    ASSUME NEW A, NEW L, NEW R, NEW b, NEW x, NEW r,
           DOMAIN x.work.rows \subseteq Tracks, DOMAIN x.saved.rows \subseteq Tracks,
           \A t \in Tracks : R[t].artist # r.id /\ RowIn(R, x.work, t).artist # r.id,
           ActorInv(b, x, A, L, R)
    PROVE  ActorInv(b, x, A \ {r}, L, R)
<1>1. \A t \in DOMAIN x.work.rows : x.work.rows[t].artist # r.id
  BY DEF RowIn
<1>2. \A t \in DOMAIN x.saved.rows : x.saved.rows[t].artist # r.id
  BY <1>1 DEF ActorInv, SavedWithin, WorkInv, RowWritten, SameCore
<1> QED
  BY <1>1, <1>2, DeletingKeepsWork DEF ActorInv

LEMMA DeletingKeepsShown ==
    ASSUME NEW A, NEW L, NEW R, NEW O, NEW r, \A t \in Tracks : R[t].artist # r.id, Committed(A, L, R, O)
    PROVE  Committed(A \ {r}, L, R, O)
<1>1. ASSUME NEW t \in Tracks
      PROVE  /\ R[t].raw # None => R[t].there /\ Fits(R[t], t \in O, A \ {r}, L)
             /\ R[t].raw = None => Untagged(t, R[t], t \in O, A \ {r}, L)
  <2>1. Fits(R[t], t \in O, A, L) => Fits(R[t], t \in O, A \ {r}, L)
    BY DEF Fits
  <2>2. Stands(R[t], A, L) => Stands(R[t], A \ {r}, L)
    BY DEF Stands
  <2> QED
    BY <2>1, <2>2 DEF Committed, Untagged
<1> QED
  BY <1>1 DEF Committed

-----------------------------------------------------------------------------
(* Identifiers that have not been given yet                                  *)

LEMMA ProjectionCount == \A S : Proj!Cardinality(S) = Cardinality(S)
BY Zenon DEF Proj!Cardinality, Cardinality

LEMMA ImageFinite ==
    ASSUME NEW S, NEW f, IsFiniteSet(S), DOMAIN f = S, f = [s \in S |-> f[s]]
    PROVE  IsFiniteSet({f[s] : s \in S})
<1> DEFINE T == {f[s] : s \in S}
<1>1. f \in Surjection(S, T)
  BY DEF Surjection
<1>2. IsFiniteSet(T)
  BY <1>1, FS_Surjection
<1> QED
  BY <1>2

LEMMA IdsFinite ==
    ASSUME NEW f, IsFiniteSet(DOMAIN f)
    PROVE  IsFiniteSet(Proj!Ids(f))
<1> DEFINE g == [k \in DOMAIN f |-> f[k]]
<1>1. IsFiniteSet({g[k] : k \in DOMAIN f})
  BY ImageFinite
<1>2. Proj!Ids(f) = {g[k] : k \in DOMAIN f}
  BY DEF Proj!Ids
<1> QED
  BY <1>1, <1>2

LEMMA NumbersFinite ==
    ASSUME NEW S, IsFiniteSet(S)
    PROVE  IsFiniteSet({r.id : r \in S})
<1> DEFINE g == [r \in S |-> r.id]
<1>1. IsFiniteSet({g[r] : r \in S})
  BY ImageFinite
<1>2. {r.id : r \in S} = {g[r] : r \in S}
  OBVIOUS
<1> QED
  BY <1>1, <1>2

LEMMA TakenInFinite ==
    ASSUME NEW w, WorkShaped(w)
    PROVE  IsFiniteSet(Proj!TakenIn(w))
<1>1. IsFiniteSet(w.artists \union w.albums) /\ IsFiniteSet(w.dropped)
  BY FS_Union DEF WorkShaped
<1>2. IsFiniteSet({r.id : r \in w.artists \union w.albums})
  BY <1>1, NumbersFinite
<1>3. IsFiniteSet(Proj!Ids(w.known.artists)) /\ IsFiniteSet(Proj!Ids(w.known.albums))
  BY IdsFinite DEF WorkShaped, MemoryShaped
<1> DEFINE S == {r.id : r \in w.artists \union w.albums}
<1> HIDE DEF S
<1>4. IsFiniteSet(((S \union w.dropped) \union Proj!Ids(w.known.artists)) \union Proj!Ids(w.known.albums))
  BY <1>1, <1>2, <1>3, FS_Union DEF S
<1>5. Proj!TakenIn(w)
      = ((S \union w.dropped) \union Proj!Ids(w.known.artists)) \union Proj!Ids(w.known.albums)
  BY DEF S, Proj!TakenIn
<1> QED
  BY <1>4, <1>5

\* What a transaction keeps taken.
TakenBy(x) == (Proj!TakenIn(x.work) \union Proj!TakenIn(x.saved))
              \union ({x.artist, x.album, x.left, x.previous} \ {None})

LEMMA TakenIs ==
    Proj!Taken = (({r.id : r \in artist \union album} \union Proj!Ids(known.artists))
                    \union Proj!Ids(known.albums)) \union (UNION {TakenBy(tx[b]) : b \in ProjActors})
BY DEF Proj!Taken, Proj!Actors, ProjActors, TakenBy

LEMMA TakenFinite == ProjTypes => IsFiniteSet(Proj!Taken)
<1> SUFFICES ASSUME ProjTypes
             PROVE  IsFiniteSet(Proj!Taken)
  OBVIOUS
<1>1. ASSUME NEW b \in ProjActors
      PROVE  IsFiniteSet(TakenBy(tx[b]))
  <2>1. IsFiniteSet(Proj!TakenIn(tx[b].work)) /\ IsFiniteSet(Proj!TakenIn(tx[b].saved))
    BY TakenInFinite DEF ProjTypes, TxShaped
  <2> DEFINE x == tx[b]
  <2>2. IsFiniteSet({x.artist} \union {x.album}) /\ IsFiniteSet({x.left} \union {x.previous})
    BY FS_Singleton, FS_Union
  <2>3. IsFiniteSet(({x.artist} \union {x.album}) \union ({x.left} \union {x.previous}))
    BY <2>2, FS_Union
  <2>4. {x.artist, x.album, x.left, x.previous} = ({x.artist} \union {x.album}) \union ({x.left} \union {x.previous})
    OBVIOUS
  <2>5. IsFiniteSet({x.artist, x.album, x.left, x.previous} \ {None})
    BY <2>3, <2>4, FS_Difference
  <2> QED
    BY <2>1, <2>5, FS_Union DEF TakenBy
<1>2. IsFiniteSet(ProjActors)
  BY ProjectionAssumption, FS_Union DEF ProjActors
<1> DEFINE g == [b \in ProjActors |-> TakenBy(tx[b])]
<1>3. IsFiniteSet({g[b] : b \in ProjActors})
  BY <1>2, ImageFinite
<1>4. \A T \in {g[b] : b \in ProjActors} : IsFiniteSet(T)
  BY <1>1
<1> DEFINE U == UNION {g[b] : b \in ProjActors}
<1>5. IsFiniteSet(U)
  BY <1>3, <1>4, FS_UNION
<1>6. UNION {TakenBy(tx[b]) : b \in ProjActors} = U
  OBVIOUS
<1>7. IsFiniteSet({r.id : r \in artist \union album})
  BY FS_Union, NumbersFinite DEF ProjTypes
<1>8. IsFiniteSet(Proj!Ids(known.artists)) /\ IsFiniteSet(Proj!Ids(known.albums))
  BY IdsFinite DEF ProjTypes, MemoryShaped
<1> DEFINE S == {r.id : r \in artist \union album}
<1>9. IsFiniteSet(((S \union Proj!Ids(known.artists)) \union Proj!Ids(known.albums)) \union U)
  <2> HIDE DEF S, U
  <2>1. IsFiniteSet(S \union Proj!Ids(known.artists))
    BY <1>7, <1>8, FS_Union DEF S
  <2>2. IsFiniteSet((S \union Proj!Ids(known.artists)) \union Proj!Ids(known.albums))
    BY <2>1, <1>8, FS_Union
  <2> QED
    BY <2>2, <1>5, FS_Union
<1>10. Proj!Taken = ((S \union Proj!Ids(known.artists)) \union Proj!Ids(known.albums)) \union U
  BY <1>6, TakenIs
<1> QED
  BY <1>9, <1>10

LEMMA FreshIsNew ==
    ASSUME ProjTypes
    PROVE  Proj!Fresh \in Identifiers /\ Proj!Fresh \notin Proj!Taken
<1> DEFINE n == Cardinality(Proj!Taken)
<1>1. IsFiniteSet(Proj!Taken) /\ n \in Nat
  BY TakenFinite, FS_CardinalityType
<1>2. \E m \in 1..n + 1 : m \notin Proj!Taken
  <2>1. SUFFICES ASSUME 1..n + 1 \subseteq Proj!Taken
                 PROVE  FALSE
    OBVIOUS
  <2>2. Cardinality(1..n + 1) <= n
    BY <1>1, <2>1, FS_Subset
  <2>3. Cardinality(1..n + 1) = n + 1
    BY <1>1, FS_Interval
  <2> QED
    BY <1>1, <2>2, <2>3
<1>3. Proj!Fresh = CHOOSE m \in 1..n + 1 : m \notin Proj!Taken
  BY ProjectionCount DEF Proj!Fresh
<1>4. Proj!Fresh \in 1..n + 1 /\ Proj!Fresh \notin Proj!Taken
  BY <1>2, <1>3
<1> QED
  BY <1>1, <1>4 DEF Identifiers

LEMMA ClaimsTaken ==
    /\ \A p \in ArtistClaims : p[1] \in Proj!Taken
    /\ \A p \in AlbumClaims : p[1] \in Proj!Taken
<1>1. ASSUME NEW w
      PROVE  /\ \A p \in ArtistsOfWork(w) : p[1] \in Proj!TakenIn(w)
             /\ \A p \in AlbumsOfWork(w) : p[1] \in Proj!TakenIn(w)
  BY DEF ArtistsOfWork, AlbumsOfWork, OwnArtists, OwnAlbums, KnownArtists, KnownAlbums,
         Proj!TakenIn, Proj!Ids
<1>2. ASSUME NEW x
      PROVE  /\ \A p \in ArtistsOf(x) : p[1] \in TakenBy(x)
             /\ \A p \in AlbumsOf(x) : p[1] \in TakenBy(x)
  <2>1. \A p \in ArtistOf(x) : p[1] \in TakenBy(x)
    BY DEF ArtistOf, TakenBy
  <2>2. \A p \in AlbumOf(x) : p[1] \in TakenBy(x)
    BY DEF AlbumOf, TakenBy
  <2> QED
    BY <1>1, <2>1, <2>2 DEF ArtistsOf, AlbumsOf, TakenBy
<1>3. /\ \A p \in OwnArtists(artist) : p[1] \in Proj!Taken
      /\ \A p \in OwnAlbums(album) : p[1] \in Proj!Taken
      /\ \A p \in KnownArtists(known.artists) : p[1] \in Proj!Taken
      /\ \A p \in KnownAlbums(known.albums) : p[1] \in Proj!Taken
  BY TakenIs DEF OwnArtists, OwnAlbums, KnownArtists, KnownAlbums, Proj!Ids
<1>4. \A b \in ProjActors : TakenBy(tx[b]) \subseteq Proj!Taken
  BY TakenIs
<1> QED
  BY <1>2, <1>3, <1>4 DEF ArtistClaims, AlbumClaims

\* What nobody else can have come across.
LEMMA FreshUnseen ==
    ASSUME ProjTypes
    PROVE  /\ Proj!Fresh \in Identifiers /\ Proj!Fresh # None
           /\ \A p \in ArtistClaims \union AlbumClaims : p[1] # Proj!Fresh
           /\ \A r \in artist \union album : r.id # Proj!Fresh
           /\ \A b \in ProjActors :
                 /\ \A r \in tx[b].work.albums : r.id # Proj!Fresh
                 /\ Proj!Fresh \notin tx[b].work.dropped
                 /\ tx[b].left # Proj!Fresh
<1>1. Proj!Fresh \in Identifiers /\ Proj!Fresh \notin Proj!Taken
  BY FreshIsNew
<1>2. Proj!Fresh # None
  BY <1>1, ProjectionAssumption DEF Identifiers
<1>3. \A b \in ProjActors : TakenBy(tx[b]) \subseteq Proj!Taken
  BY TakenIs
<1>4. \A r \in artist \union album : r.id # Proj!Fresh
  BY <1>1, TakenIs
<1>5. \A b \in ProjActors : /\ \A r \in tx[b].work.albums : r.id # Proj!Fresh
                            /\ Proj!Fresh \notin tx[b].work.dropped
  BY <1>1, <1>3 DEF TakenBy, Proj!TakenIn
<1>6. \A b \in ProjActors : tx[b].left # Proj!Fresh
  BY <1>1, <1>2, <1>3 DEF TakenBy
<1> QED
  BY <1>1, <1>2, <1>4, <1>5, <1>6, ClaimsTaken

-----------------------------------------------------------------------------
(* Steps of one transaction that commit nothing                              *)

LEMMA ProjectionActors == Proj!Actors = ProjActors
BY DEF Proj!Actors, ProjActors

LEMMA ProjectionSteps ==
    Proj!Next =>
        \/ \E a \in ProjActors : Proj!Projects(a)
        \/ \E s \in Committers :
              \/ Proj!effectiveScanMetadata(s) \/ Proj!Fails(s)
              \/ Proj!CommitBatch(s) \/ Proj!AbortBatch(s)
              \/ \E t \in Tracks : Proj!OpenFile(s, t)
        \/ \E e \in Editors :
              \/ Proj!LockTrack(e) \/ Proj!lockedMetadata(e)
              \/ Proj!CommitEdit(e) \/ Proj!RollBack(e)
              \/ \E t \in Tracks, patch \in Patches : Proj!UpdateMetadata(e, t, patch)
        \/ \E t \in Tracks : \/ Proj!EnsureMetadata(t)
                             \/ \E tags \in Snapshots : Proj!ChangeFile(t, tags)
        \/ \E r \in artist : Proj!DeleteArtist(r)
BY ProjectionActors, Zenon DEF Proj!Next

LEMMA AsideBack ==
    ASSUME NEW x, NEW y, Aside(x, y)
    PROVE  Aside(y, x)
BY DEF Aside, Beside

Claimed(v) == {<<Proj!Fresh, v>>}

LEMMA ClaimsStay ==
    ASSUME NEW C, NEW D, NEW n, NEW v, Functional(C), \A p \in C : p[1] # n, D \subseteq C \union {<<n, v>>}
    PROVE  Functional(D)
BY DEF Functional

LEMMA LocalStep ==
    ASSUME ProjInv, NEW a \in ProjActors, NEW y, NEW u, NEW v,
           tx' = [tx EXCEPT ![a] = y],
           file' = file, artist' = artist, album' = album, row' = row, orphaned' = orphaned,
           MemoryShaped(known'), KnownArtists(known'.artists) \subseteq ArtistClaims,
           KnownAlbums(known'.albums) \subseteq AlbumClaims,
           TxShaped(y), ActorInv(a, y, artist, album, row),
           \A b \in ProjActors \ {a} : Aside(y, tx[b]),
           a \in Committers => \A b \in Committers \ {a} : Busy(y) \intersect Busy(tx[b]) = {},
           ArtistsOf(y) \subseteq ArtistClaims \union Claimed(u),
           AlbumsOf(y) \subseteq AlbumClaims \union Claimed(v)
    PROVE  ProjInv'
<1>1. ProjTypes /\ DOMAIN tx = ProjActors
  BY DEF ProjInv, ProjTypes
<1>2. tx'[a] = y /\ (\A b \in ProjActors \ {a} : tx'[b] = tx[b]) /\ DOMAIN tx' = ProjActors
  BY <1>1
<1>3. ProjTypes'
  <2>1. \A b \in ProjActors : TxShaped(tx'[b])
    BY <1>1, <1>2 DEF ProjTypes
  <2>2. (DOMAIN tx)' = ProjActors /\ (\A b \in ProjActors : TxShaped(tx[b]))'
    BY <1>2, <2>1
  <2> QED
    BY <1>1, <2>2 DEF ProjTypes
<1>4. Committed(artist, album, row, orphaned)'
  BY DEF ProjInv
<1>5. \A b \in ProjActors : ActorInv(b, tx'[b], artist', album', row')
  BY <1>2 DEF ProjInv
<1>6. \A b, c \in ProjActors : b # c => Aside(tx'[b], tx'[c])
  <2> SUFFICES ASSUME NEW b \in ProjActors, NEW c \in ProjActors, b # c
               PROVE  Aside(tx'[b], tx'[c])
    OBVIOUS
  <2>1. CASE b = a
    BY <1>2, <2>1
  <2>2. CASE c = a
    BY <1>2, <2>2, AsideBack
  <2>3. CASE b # a /\ c # a
    BY <1>2, <2>3 DEF ProjInv
  <2> QED
    BY <2>1, <2>2, <2>3
<1>7. \A b, c \in Committers : b # c => Busy(tx'[b]) \intersect Busy(tx'[c]) = {}
  <2> SUFFICES ASSUME NEW b \in Committers, NEW c \in Committers, b # c
               PROVE  Busy(tx'[b]) \intersect Busy(tx'[c]) = {}
    OBVIOUS
  <2>1. b \in ProjActors /\ c \in ProjActors
    BY DEF ProjActors
  <2>2. CASE b = a
    BY <1>2, <2>1, <2>2
  <2>3. CASE c = a
    BY <1>2, <2>1, <2>3
  <2>4. CASE b # a /\ c # a
    BY <1>2, <2>1, <2>4 DEF ProjInv
  <2> QED
    BY <2>2, <2>3, <2>4
<1>8. ArtistClaims' \subseteq ArtistClaims \union Claimed(u)
  <2>1. \A b \in ProjActors : ArtistsOf(tx'[b]) \subseteq ArtistClaims \union Claimed(u)
    BY <1>2 DEF ArtistClaims
  <2>2. OwnArtists(artist') \subseteq ArtistClaims
    BY DEF ArtistClaims
  <2>3. ArtistClaims' = OwnArtists(artist') \union KnownArtists(known'.artists)
                          \union (UNION {ArtistsOf(tx'[b]) : b \in ProjActors})
    BY DEF ArtistClaims
  <2> QED
    BY <2>1, <2>2, <2>3
<1>9. AlbumClaims' \subseteq AlbumClaims \union Claimed(v)
  <2>1. \A b \in ProjActors : AlbumsOf(tx'[b]) \subseteq AlbumClaims \union Claimed(v)
    BY <1>2 DEF AlbumClaims
  <2>2. OwnAlbums(album') \subseteq AlbumClaims
    BY DEF AlbumClaims
  <2>3. AlbumClaims' = OwnAlbums(album') \union KnownAlbums(known'.albums)
                          \union (UNION {AlbumsOf(tx'[b]) : b \in ProjActors})
    BY DEF AlbumClaims
  <2> QED
    BY <2>1, <2>2, <2>3
<1>10. Functional(ArtistClaims') /\ Functional(AlbumClaims')
  BY <1>1, <1>8, <1>9, ClaimsStay, FreshUnseen DEF ProjInv, Claimed
<1> QED
  BY <1>3, <1>4, <1>5, <1>6, <1>7, <1>10 DEF ProjInv

(* What a transaction has done so far keeps its properties with more locks.  *)
GoodWork(a, w, D, u, v) ==
    /\ WorkShaped(w) /\ WorkInv(w, D, artist, album, row)
    /\ \A b \in ProjActors \ {a} : Beside(w, tx[b].work) /\ \A q \in w.albums : q.id # tx[b].left
    /\ SavedWithin(tx[a].saved, w, tx[a].done)
    /\ ArtistsOfWork(w) \subseteq ArtistClaims \union Claimed(u)
    /\ AlbumsOfWork(w) \subseteq AlbumClaims \union Claimed(v)

LEMMA HeldMore ==
    ASSUME NEW w, NEW S, NEW v, WorkShaped(w), v = [w EXCEPT !.held = @ \union S]
    PROVE  /\ DOMAIN v = WorkFields /\ v.held = w.held \union S
           /\ v.artists = w.artists /\ v.albums = w.albums /\ v.dropped = w.dropped
           /\ v.orphans = w.orphans /\ v.rows = w.rows /\ v.known = w.known
           /\ WorkShaped(v)
<1>1. /\ DOMAIN v = WorkFields /\ v.held = w.held \union S
      /\ v.artists = w.artists /\ v.albums = w.albums /\ v.dropped = w.dropped
      /\ v.orphans = w.orphans /\ v.rows = w.rows /\ v.known = w.known
  BY DEF WorkShaped, WorkFields
<1> QED
  BY <1>1 DEF WorkShaped

LEMMA WorkGrows ==
    ASSUME NEW A, NEW L, NEW R, NEW D, NEW w, NEW v, WorkInv(w, D, A, L, R), w.held \subseteq v.held,
           w.artists \subseteq v.artists, w.albums \subseteq v.albums, v.dropped = w.dropped,
           v.orphans = w.orphans, v.rows = w.rows, v.known = w.known,
           \A q \in v.albums : q.title # None /\ \A r \in L : r.id # q.id,
           \A t \in Tracks : Lock("meta", t) \in v.held => R[t].there
    PROVE  WorkInv(v, D, A, L, R)
<1>1. \A n : Usable(w, n, L) => Usable(v, n, L)
  BY DEF Usable, AlbumsIn
<1>2. \A r, o : Fits(r, o, A \union w.artists, AlbumsIn(L, w)) => Fits(r, o, A \union v.artists, AlbumsIn(L, v))
  BY DEF AlbumsIn, Fits
<1>3. \A t \in DOMAIN v.rows : RowWritten(v, t, D, A, L, R)
  <2> SUFFICES ASSUME NEW t \in DOMAIN v.rows
               PROVE  RowWritten(v, t, D, A, L, R)
    OBVIOUS
  <2>1. RowWritten(w, t, D, A, L, R)
    BY DEF WorkInv
  <2>2. Fits(v.rows[t], t \in v.orphans, A \union v.artists, AlbumsIn(L, v))
    BY <2>1, <1>2 DEF RowWritten
  <2> QED
    BY <2>1, <2>2, <1>1 DEF RowWritten
<1>4. \A t \in Tracks : RowIn(R, v, t) = RowIn(R, w, t)
  BY DEF RowIn
<1> QED
  BY <1>1, <1>3, <1>4 DEF WorkInv

LEMMA Unblocked ==
    ASSUME NEW a \in ProjActors, NEW s, Proj!At(a, s)
    PROVE  /\ tx[a].step = s
           /\ \A b \in ProjActors \ {a} : tx[b].work.held \intersect Proj!Wants(a) = {}
BY ProjectionActors DEF Proj!At, Proj!Blockers

LEMMA MetaWanted ==
    ASSUME NEW a \in ProjActors, NEW t, Lock("meta", t) \in Proj!Wants(a)
    PROVE  tx[a].step = "meta" /\ t = tx[a].track
<1> DEFINE h == Lock("meta", t)
<1>1. h \notin Proj!ArtistLocks(a) /\ h \notin Proj!AlbumLocks(a) /\ h \notin Proj!LeaveLocks(a)
  BY DEF Proj!ArtistLocks, Proj!AlbumLocks, Proj!LeaveLocks, Proj!Rows, Proj!Lock, Lock
<1>2. /\ h \notin {Proj!Lock("track", tx[a].track)}
      /\ h \notin {Proj!Lock("row", tx[a].left)}
                    \union {Proj!Lock("track", k) : k \in Proj!ShownOn(a, tx[a].left)}
      /\ h \in {Proj!Lock("meta", tx[a].track)} => t = tx[a].track
  BY DEF Proj!Lock, Lock
<1> HIDE DEF h
<1>3. h \in Proj!Wants(a)
  BY DEF h
<1> QED
  BY <1>1, <1>2, <1>3 DEF Proj!Wants

LEMMA WorkGood ==
    ASSUME ProjInv, NEW a \in ProjActors, NEW u, NEW v
    PROVE  GoodWork(a, tx[a].work, Written(tx[a]), u, v)
<1>1. WorkShaped(tx[a].work) /\ ActorInv(a, tx[a], artist, album, row)
  BY DEF ProjInv, ProjTypes, TxShaped
<1>2. \A b \in ProjActors \ {a} : Aside(tx[a], tx[b])
  BY DEF ProjInv
<1>3. ArtistsOfWork(tx[a].work) \subseteq ArtistClaims /\ AlbumsOfWork(tx[a].work) \subseteq AlbumClaims
  BY DEF ArtistClaims, AlbumClaims, ArtistsOf, AlbumsOf
<1> QED
  BY <1>1, <1>2, <1>3 DEF GoodWork, ActorInv, Aside

LEMMA TrackIsThere ==
    ASSUME ProjInv, NEW a \in ProjActors, tx[a].step = "meta"
    PROVE  tx[a].track \in Tracks /\ row[tx[a].track].there
<1>1. ActorInv(a, tx[a], artist, album, row)
  BY DEF ProjInv
<1>2. tx[a].track \in Tracks
  BY <1>1 DEF ActorInv, StepInv
<1>3. CASE a \in Committers
  BY <1>1, <1>2, <1>3 DEF ActorInv, ScanStep
<1>4. CASE a \in Editors
  <2>1. row[tx[a].track].raw # None
    BY <1>1, <1>4 DEF ActorInv, EditStep
  <2> QED
    BY <2>1, <1>2 DEF ProjInv, Committed
<1> QED
  BY <1>3, <1>4 DEF ProjActors

\* The locks that a step waits for are held from then on.
LEMMA LockedGood ==
    ASSUME ProjInv, NEW a \in ProjActors, NEW s, Proj!At(a, s), NEW u, NEW v
    PROVE  /\ GoodWork(a, Proj!Locked(a), Written(tx[a]), u, v)
           /\ Proj!Locked(a).held = tx[a].work.held \union Proj!Wants(a)
           /\ Proj!Locked(a).artists = tx[a].work.artists
           /\ Proj!Locked(a).albums = tx[a].work.albums
           /\ Proj!Locked(a).dropped = tx[a].work.dropped
           /\ Proj!Locked(a).orphans = tx[a].work.orphans
           /\ Proj!Locked(a).rows = tx[a].work.rows
           /\ Proj!Locked(a).known = tx[a].work.known
<1> DEFINE w == tx[a].work
           l == Proj!Locked(a)
<1>1. GoodWork(a, w, Written(tx[a]), u, v)
  BY WorkGood
<1>2. l = [w EXCEPT !.held = @ \union Proj!Wants(a)]
  BY DEF Proj!Locked
<1>3. /\ DOMAIN l = WorkFields /\ l.held = w.held \union Proj!Wants(a)
      /\ l.artists = w.artists /\ l.albums = w.albums /\ l.dropped = w.dropped
      /\ l.orphans = w.orphans /\ l.rows = w.rows /\ l.known = w.known
      /\ WorkShaped(l)
  <2> HIDE DEF w, l
  <2> QED
    BY <1>1, <1>2, HeldMore DEF GoodWork
<1>4. tx[a].step = s /\ \A b \in ProjActors \ {a} : tx[b].work.held \intersect Proj!Wants(a) = {}
  BY Unblocked
<1>5. \A t \in Tracks : Lock("meta", t) \in l.held => row[t].there
  BY <1>1, <1>3, MetaWanted, TrackIsThere DEF GoodWork, WorkInv
<1> HIDE DEF w, l
<1>6. WorkInv(l, Written(tx[a]), artist, album, row)
  <2>1. \A q \in l.albums : q.title # None /\ \A r \in album : r.id # q.id
    BY <1>1, <1>3 DEF GoodWork, WorkInv
  <2> QED
    BY <1>1, <1>3, <1>5, <2>1, WorkGrows DEF GoodWork
<1>7. \A b \in ProjActors \ {a} : Beside(l, tx[b].work) /\ \A q \in l.albums : q.id # tx[b].left
  BY <1>1, <1>3, <1>4 DEF GoodWork, Beside
<1>8. SavedWithin(tx[a].saved, l, tx[a].done)
  BY <1>1, <1>3 DEF GoodWork, SavedWithin
<1>9. ArtistsOfWork(l) = ArtistsOfWork(w) /\ AlbumsOfWork(l) = AlbumsOfWork(w)
  BY <1>3 DEF ArtistsOfWork, AlbumsOfWork
<1> QED
  BY <1>1, <1>3, <1>6, <1>7, <1>8, <1>9 DEF GoodWork, w, l

\* A step that keeps its savepoint and its track, and does its work well.
LEMMA StepTo ==
    ASSUME ProjInv, NEW a \in ProjActors, NEW y, NEW u, NEW v,
           tx' = [tx EXCEPT ![a] = y], known' = known,
           file' = file, artist' = artist, album' = album, row' = row, orphaned' = orphaned,
           TxShaped(y), y.saved = tx[a].saved, y.done = tx[a].done,
           GoodWork(a, y.work, Written(y), u, v),
           y.track = tx[a].track
           \/ (a \in Committers => \A b \in Committers : y.track # None /\ y.track \notin tx[b].done \union {tx[b].track}),
           \A b \in ProjActors \ {a} : \A q \in tx[b].work.albums : q.id # y.left,
           StepInv(y, album, row),
           a \in Committers => ScanStep(y, row), a \in Editors => EditStep(y, row),
           ArtistOf(y) \subseteq ArtistClaims \union Claimed(u),
           AlbumOf(y) \subseteq AlbumClaims \union Claimed(v)
    PROVE  ProjInv'
<1>1. ActorInv(a, tx[a], artist, album, row) /\ TxShaped(tx[a])
  BY DEF ProjInv, ProjTypes
<1>2. ActorInv(a, y, artist, album, row)
  BY <1>1 DEF ActorInv, GoodWork
<1>3. \A b \in ProjActors \ {a} : Aside(y, tx[b])
  BY DEF GoodWork, Aside
<1>4. a \in Committers => \A b \in Committers \ {a} : Busy(y) \intersect Busy(tx[b]) = {}
  <2> SUFFICES ASSUME a \in Committers, NEW b \in Committers \ {a}
               PROVE  Busy(y) \intersect Busy(tx[b]) = {}
    OBVIOUS
  <2>1. Busy(tx[a]) \intersect Busy(tx[b]) = {}
    BY DEF ProjInv
  <2> QED
    BY <2>1 DEF Busy
<1>5. ArtistsOf(y) \subseteq ArtistClaims \union Claimed(u)
  <2>1. ArtistsOfWork(y.saved) \subseteq ArtistClaims
    BY DEF ArtistClaims, ArtistsOf
  <2> QED
    BY <2>1 DEF ArtistsOf, GoodWork
<1>6. AlbumsOf(y) \subseteq AlbumClaims \union Claimed(v)
  <2>1. AlbumsOfWork(y.saved) \subseteq AlbumClaims
    BY DEF AlbumClaims, AlbumsOf
  <2> QED
    BY <2>1 DEF AlbumsOf, GoodWork
<1>7. MemoryShaped(known') /\ KnownArtists(known'.artists) \subseteq ArtistClaims
      /\ KnownAlbums(known'.albums) \subseteq AlbumClaims
  BY DEF ProjInv, ProjTypes, ArtistClaims, AlbumClaims
<1> QED
  BY <1>2, <1>3, <1>4, <1>5, <1>6, <1>7, LocalStep

-----------------------------------------------------------------------------
(* Reading the tags and overrides of a track                                 *)

\* The fields that a step changes, and those that it keeps.
Keeps(y, x, F) == DOMAIN y = TxFields /\ \A f \in TxFields \ F : y[f] = x[f]

Put(x, s, w) == [x EXCEPT !.step = s, !.work = w]

LEMMA PutFields ==
    ASSUME NEW x, NEW s, NEW w, DOMAIN x = TxFields
    PROVE  Keeps(Put(x, s, w), x, {"step", "work"}) /\ Put(x, s, w).step = s /\ Put(x, s, w).work = w
BY DEF Keeps, TxFields, Put

LEMMA ToPuts ==
    ASSUME NEW a, NEW x, NEW s, NEW w, Proj!To(a, x, s, w)
    PROVE  tx' = [tx EXCEPT ![a] = Put(x, s, w)]
BY Zenon DEF Proj!To, Put

LEMMA KeptFields ==
    ASSUME NEW x, NEW y, NEW F, Keeps(y, x, F)
    PROVE  /\ DOMAIN y = TxFields
           /\ "step" \notin F => y.step = x.step
           /\ "work" \notin F => y.work = x.work
           /\ "saved" \notin F => y.saved = x.saved
           /\ "track" \notin F => y.track = x.track
           /\ "patch" \notin F => y.patch = x.patch
           /\ "raw" \notin F => y.raw = x.raw
           /\ "target" \notin F => y.target = x.target
           /\ "previous" \notin F => y.previous = x.previous
           /\ "artist" \notin F => y.artist = x.artist
           /\ "album" \notin F => y.album = x.album
           /\ "left" \notin F => y.left = x.left
           /\ "done" \notin F => y.done = x.done
BY DEF Keeps, TxFields

LEMMA OverMeta ==
    ASSUME NEW m \in Meta, NEW o, IsOverride(o)
    PROVE  Proj!ApplyMetadataOverrides(m, o) \in Meta
BY DEF Proj!ApplyMetadataOverrides, Proj!Over, Meta, IsOverride

LEMMA OverOverride ==
    ASSUME NEW o, NEW p, IsOverride(o), IsOverride(p)
    PROVE  IsOverride(Proj!UpdateMetadataOverrides(o, p))
BY DEF Proj!UpdateMetadataOverrides, Proj!Over, IsOverride

LEMMA SeenRow ==
    ASSUME ProjInv, NEW a \in ProjActors, NEW t \in Tracks
    PROVE  /\ Proj!Seen(a, t) = RowIn(row, tx[a].work, t)
           /\ RowShaped(RowIn(row, tx[a].work, t))
BY DEF Proj!Seen, RowIn, ProjInv, ProjTypes, TxShaped, WorkShaped

LEMMA OnlyOneKind ==
    ASSUME NEW a \in ProjActors
    PROVE  a \in Committers <=> a \notin Editors
BY ProjectionAssumption DEF ProjActors

\* What is known of a transaction that a step starts from.
LEMMA TxFacts ==
    ASSUME ProjInv, NEW a \in ProjActors
    PROVE  /\ TxShaped(tx[a]) /\ DOMAIN tx[a] = TxFields
           /\ StepInv(tx[a], album, row)
           /\ a \in Committers => ScanStep(tx[a], row)
           /\ a \in Editors => EditStep(tx[a], row)
           /\ \A b \in ProjActors \ {a} : \A q \in tx[b].work.albums : q.id # tx[a].left
           /\ ArtistOf(tx[a]) \subseteq ArtistClaims /\ AlbumOf(tx[a]) \subseteq AlbumClaims
<1>1. TxShaped(tx[a]) /\ DOMAIN tx[a] = TxFields
  BY DEF ProjInv, ProjTypes, TxShaped
<1>2. ActorInv(a, tx[a], artist, album, row)
  BY DEF ProjInv
<1>3. \A b \in ProjActors \ {a} : \A q \in tx[b].work.albums : q.id # tx[a].left
  BY DEF ProjInv, Aside
<1>4. ArtistOf(tx[a]) \subseteq ArtistClaims /\ AlbumOf(tx[a]) \subseteq AlbumClaims
  BY DEF ArtistClaims, AlbumClaims, ArtistsOf, AlbumsOf
<1> QED
  BY <1>1, <1>2, <1>3, <1>4 DEF ActorInv

LEMMA LockTrackKeeps ==
    ASSUME ProjInv, NEW e \in Editors, Proj!LockTrack(e)
    PROVE  ProjInv'
<1> DEFINE x == tx[e]
           y == Put(x, "meta", Proj!Locked(e))
<1>1. Proj!At(e, "open") /\ e \in ProjActors
  BY DEF Proj!LockTrack, ProjActors
<1>2. tx' = [tx EXCEPT ![e] = y]
  BY ToPuts DEF Proj!LockTrack
<1>3. UNCHANGED <<file, artist, album, row, known, orphaned>>
  BY DEF Proj!LockTrack, Proj!Uncommitted
<1>4. x.step = "open"
  BY <1>1, Unblocked
<1>5. GoodWork(e, Proj!Locked(e), Written(x), None, None)
      /\ Proj!Locked(e).held = x.work.held \union Proj!Wants(e)
      /\ Proj!Locked(e).rows = x.work.rows
  BY <1>1, LockedGood
<1>6. TxShaped(x) /\ DOMAIN x = TxFields /\ StepInv(x, album, row) /\ EditStep(x, row) /\ e \notin Committers
      /\ (\A b \in ProjActors \ {e} : \A q \in tx[b].work.albums : q.id # x.left)
      /\ ArtistOf(x) \subseteq ArtistClaims /\ AlbumOf(x) \subseteq AlbumClaims
  BY <1>1, TxFacts, OnlyOneKind
<1>7. Keeps(y, x, {"step", "work"}) /\ y.step = "meta" /\ y.work = Proj!Locked(e)
  BY <1>6, PutFields
<1> HIDE DEF y
<1>8. /\ DOMAIN y = TxFields /\ y.saved = x.saved /\ y.track = x.track /\ y.patch = x.patch
      /\ y.previous = x.previous /\ y.artist = x.artist /\ y.album = x.album
      /\ y.left = x.left /\ y.done = x.done /\ y.target = x.target
  BY <1>7, KeptFields
<1>9. Lock("track", x.track) \in Proj!Wants(e)
  BY <1>4 DEF Proj!Wants, Lock
<1>10. TxShaped(y)
  BY <1>5, <1>6, <1>7, <1>8 DEF TxShaped, GoodWork
<1>11. StepInv(y, album, row)
  BY <1>4, <1>6, <1>7, <1>8 DEF StepInv
<1>12. EditStep(y, row)
  BY <1>4, <1>5, <1>6, <1>7, <1>8, <1>9 DEF EditStep
<1>13. GoodWork(e, y.work, Written(y), None, None)
  BY <1>4, <1>5, <1>7, <1>8 DEF Written
<1>14. ArtistOf(y) = ArtistOf(x) /\ AlbumOf(y) = AlbumOf(x)
  BY <1>8 DEF ArtistOf, AlbumOf
<1>15. /\ ArtistOf(y) \subseteq ArtistClaims \union Claimed(None)
       /\ AlbumOf(y) \subseteq AlbumClaims \union Claimed(None)
       /\ \A b \in ProjActors \ {e} : \A q \in tx[b].work.albums : q.id # y.left
  BY <1>6, <1>8, <1>14
<1> HIDE DEF x
<1> QED
  BY <1>1, <1>2, <1>3, <1>6, <1>8, <1>10, <1>11, <1>12, <1>13, <1>15, StepTo DEF x

Aim(x, m, p) == [x EXCEPT !.target = m, !.previous = p]

LEMMA AimFields ==
    ASSUME NEW x, NEW m, NEW p, DOMAIN x = TxFields
    PROVE  Keeps(Aim(x, m, p), x, {"target", "previous"}) /\ Aim(x, m, p).target = m /\ Aim(x, m, p).previous = p
BY DEF Keeps, TxFields, Aim

\* A scan reads the overrides of a track that it holds from then on.
LEMMA EffectiveMetadataKeeps ==
    ASSUME ProjInv, NEW s \in Committers, Proj!effectiveScanMetadata(s)
    PROVE  ProjInv'
<1> DEFINE x == tx[s]
           r == Proj!Seen(s, x.track)
           m == Proj!ApplyMetadataOverrides(x.raw, r.overrides)
           z == Aim(x, m, r.album)
           y == Put(z, "artist", Proj!Locked(s))
<1>1. Proj!At(s, "meta") /\ s \in ProjActors
  BY DEF Proj!effectiveScanMetadata, ProjActors
<1>2. tx' = [tx EXCEPT ![s] = y]
  <2>1. Proj!To(s, z, "artist", Proj!Locked(s))
    BY Zenon DEF Proj!effectiveScanMetadata, Aim
  <2> QED
    BY <2>1, ToPuts
<1>3. UNCHANGED <<file, artist, album, row, known, orphaned>>
  BY DEF Proj!effectiveScanMetadata, Proj!Uncommitted
<1>4. x.step = "meta"
  BY <1>1, Unblocked
<1>5. GoodWork(s, Proj!Locked(s), Written(x), None, None)
      /\ Proj!Locked(s).held = x.work.held \union Proj!Wants(s)
      /\ Proj!Locked(s).rows = x.work.rows
  BY <1>1, LockedGood
<1>6. TxShaped(x) /\ DOMAIN x = TxFields /\ StepInv(x, album, row) /\ ScanStep(x, row) /\ s \notin Editors
      /\ (\A b \in ProjActors \ {s} : \A q \in tx[b].work.albums : q.id # x.left)
      /\ ArtistOf(x) \subseteq ArtistClaims /\ AlbumOf(x) \subseteq AlbumClaims
  BY <1>1, TxFacts, OnlyOneKind
<1>7. x.track \in Tracks /\ x.raw \in Meta /\ x.artist = None /\ x.album = None
  BY <1>4, <1>6 DEF StepInv, ScanStep
<1>8. r = RowIn(row, x.work, x.track) /\ RowShaped(r)
  BY <1>1, <1>7, SeenRow
<1>9. m \in Meta /\ r.album \in MaybeId
  BY <1>7, <1>8, OverMeta DEF RowShaped
<1> HIDE DEF m, r
<1>10. Keeps(z, x, {"target", "previous"}) /\ z.target = m /\ z.previous = r.album /\ DOMAIN z = TxFields
  BY <1>6, AimFields DEF Keeps
<1> HIDE DEF z
<1>11. Keeps(y, z, {"step", "work"}) /\ y.step = "artist" /\ y.work = Proj!Locked(s)
  BY <1>10, PutFields
<1> HIDE DEF y
<1>12. /\ DOMAIN y = TxFields /\ y.saved = x.saved /\ y.track = x.track /\ y.patch = x.patch
       /\ y.artist = x.artist /\ y.album = x.album /\ y.raw = x.raw
       /\ y.left = x.left /\ y.done = x.done /\ y.target = m /\ y.previous = r.album
  BY <1>10, <1>11, KeptFields
<1>13. Lock("meta", x.track) \in Proj!Wants(s)
  BY <1>4 DEF Proj!Wants, Lock
<1>14. TxShaped(y)
  BY <1>5, <1>6, <1>9, <1>11, <1>12 DEF TxShaped, GoodWork
<1>15. StepInv(y, album, row)
  BY <1>4, <1>6, <1>9, <1>11, <1>12 DEF StepInv
<1>16. RowIn(row, y.work, y.track) = r
  BY <1>5, <1>8, <1>11, <1>12 DEF RowIn
<1>17. ScanStep(y, row)
  BY <1>4, <1>5, <1>6, <1>7, <1>11, <1>12, <1>13, <1>16 DEF ScanStep, m
<1>18. GoodWork(s, y.work, Written(y), None, None)
  BY <1>4, <1>5, <1>11, <1>12 DEF Written
<1>19. ArtistOf(y) = {} /\ AlbumOf(y) = {}
  BY <1>7, <1>12 DEF ArtistOf, AlbumOf
<1>20. /\ ArtistOf(y) \subseteq ArtistClaims \union Claimed(None)
       /\ AlbumOf(y) \subseteq AlbumClaims \union Claimed(None)
       /\ \A b \in ProjActors \ {s} : \A q \in tx[b].work.albums : q.id # y.left
  BY <1>6, <1>12, <1>19
<1> HIDE DEF x
<1> QED
  BY <1>1, <1>2, <1>3, <1>6, <1>12, <1>14, <1>15, <1>17, <1>18, <1>20, StepTo DEF x

\* An edit works out what its fields and the ones before say together.
LEMMA LockedMetadataKeeps ==
    ASSUME ProjInv, NEW e \in Editors, Proj!lockedMetadata(e), Proj!Updates(e)
    PROVE  ProjInv'
<1> DEFINE x == tx[e]
           r == row[x.track]
           m == Proj!ApplyMetadataOverrides(r.raw, Proj!UpdateMetadataOverrides(r.overrides, x.patch))
           z == Aim(x, m, r.album)
           y == Put(z, "artist", Proj!Locked(e))
<1>1. Proj!At(e, "meta") /\ e \in ProjActors
  BY DEF Proj!lockedMetadata, ProjActors
<1>2. tx' = [tx EXCEPT ![e] = y]
  <2>1. Proj!To(e, z, "artist", Proj!Locked(e))
    BY Zenon DEF Proj!lockedMetadata, Aim
  <2> QED
    BY <2>1, ToPuts
<1>3. UNCHANGED <<file, artist, album, row, known, orphaned>>
  BY DEF Proj!lockedMetadata, Proj!Uncommitted
<1>4. x.step = "meta"
  BY <1>1, Unblocked
<1>5. GoodWork(e, Proj!Locked(e), Written(x), None, None)
      /\ Proj!Locked(e).held = x.work.held \union Proj!Wants(e)
      /\ Proj!Locked(e).rows = x.work.rows
  BY <1>1, LockedGood
<1>6. TxShaped(x) /\ DOMAIN x = TxFields /\ StepInv(x, album, row) /\ EditStep(x, row) /\ e \notin Committers
      /\ (\A b \in ProjActors \ {e} : \A q \in tx[b].work.albums : q.id # x.left)
      /\ ArtistOf(x) \subseteq ArtistClaims /\ AlbumOf(x) \subseteq AlbumClaims
  BY <1>1, TxFacts, OnlyOneKind
<1>7. x.track \in Tracks /\ r.raw # None /\ x.artist = None /\ x.album = None
  BY <1>4, <1>6 DEF StepInv, EditStep
<1>8. RowShaped(r)
  BY <1>7 DEF ProjInv, ProjTypes
<1>9. m \in Meta /\ r.album \in MaybeId
  <2>1. IsOverride(Proj!UpdateMetadataOverrides(r.overrides, x.patch))
    BY <1>6, <1>8, OverOverride DEF RowShaped, TxShaped
  <2> QED
    BY <1>7, <1>8, <2>1, OverMeta DEF RowShaped
<1> HIDE DEF m
<1>10. Keeps(z, x, {"target", "previous"}) /\ z.target = m /\ z.previous = r.album /\ DOMAIN z = TxFields
  BY <1>6, AimFields DEF Keeps
<1> HIDE DEF z
<1>11. Keeps(y, z, {"step", "work"}) /\ y.step = "artist" /\ y.work = Proj!Locked(e)
  BY <1>10, PutFields
<1> HIDE DEF y
<1>12. /\ DOMAIN y = TxFields /\ y.saved = x.saved /\ y.track = x.track /\ y.patch = x.patch
       /\ y.artist = x.artist /\ y.album = x.album /\ y.raw = x.raw
       /\ y.left = x.left /\ y.done = x.done /\ y.target = m /\ y.previous = r.album
  BY <1>10, <1>11, KeptFields
<1>13. Lock("meta", x.track) \in Proj!Wants(e)
  BY <1>4 DEF Proj!Wants, Lock
<1>14. TxShaped(y)
  BY <1>5, <1>6, <1>9, <1>11, <1>12 DEF TxShaped, GoodWork
<1>15. StepInv(y, album, row)
  BY <1>4, <1>6, <1>9, <1>11, <1>12 DEF StepInv
<1>16. EditStep(y, row)
  <2> HIDE DEF x
  <2>1. y.target = Proj!ApplyMetadataOverrides(row[y.track].raw,
                       Proj!UpdateMetadataOverrides(row[y.track].overrides, y.patch))
    BY <1>12 DEF m
  <2> QED
    BY <2>1, <1>4, <1>5, <1>6, <1>7, <1>11, <1>12, <1>13 DEF EditStep
<1>17. GoodWork(e, y.work, Written(y), None, None)
  BY <1>4, <1>5, <1>11, <1>12 DEF Written
<1>18. ArtistOf(y) = {} /\ AlbumOf(y) = {}
  BY <1>7, <1>12 DEF ArtistOf, AlbumOf
<1>19. /\ ArtistOf(y) \subseteq ArtistClaims \union Claimed(None)
       /\ AlbumOf(y) \subseteq AlbumClaims \union Claimed(None)
       /\ \A b \in ProjActors \ {e} : \A q \in tx[b].work.albums : q.id # y.left
  BY <1>6, <1>12, <1>18
<1> HIDE DEF x
<1> QED
  BY <1>1, <1>2, <1>3, <1>6, <1>12, <1>14, <1>15, <1>16, <1>17, <1>19, StepTo DEF x

LEMMA ClaimsEmpty ==
    ASSUME NEW y, y.artist = None, y.album = None
    PROVE  /\ ArtistOf(y) \subseteq ArtistClaims \union Claimed(None)
           /\ AlbumOf(y) \subseteq AlbumClaims \union Claimed(None)
BY DEF ArtistOf, AlbumOf

LEMMA PatchesOverride ==
    ASSUME NEW p \in Patches
    PROVE  IsOverride(p)
<1>1. DOMAIN p \subseteq Fields
  BY ProjectionAssumption
<1>2. \A f \in DOMAIN p : p[f] \in Texts
  BY DEF Texts
<1> QED
  BY <1>1, <1>2 DEF IsOverride

Asked(x, t, p, n) == [x EXCEPT !.track = t, !.patch = p, !.version = n]

LEMMA AskedFields ==
    ASSUME NEW x, NEW t, NEW p, NEW n, DOMAIN x = TxFields
    PROVE  /\ Keeps(Asked(x, t, p, n), x, {"track", "patch", "version"})
           /\ Asked(x, t, p, n).track = t /\ Asked(x, t, p, n).patch = p
BY DEF Keeps, TxFields, Asked

LEMMA UpdateMetadataKeeps ==
    ASSUME ProjInv, NEW e \in Editors, NEW t \in Tracks, NEW p \in Patches, Proj!UpdateMetadata(e, t, p)
    PROVE  ProjInv'
<1> DEFINE x == tx[e]
           z == Asked(x, t, p, row[t].version)
           y == Put(z, "open", Proj!NoWork)
<1>1. x.step = "idle" /\ row[t].raw # None /\ e \in ProjActors
  BY DEF Proj!UpdateMetadata, ProjActors
<1>2. tx' = [tx EXCEPT ![e] = y]
  <2>1. Proj!To(e, z, "open", Proj!NoWork)
    BY Zenon DEF Proj!UpdateMetadata, Asked
  <2> QED
    BY <2>1, ToPuts
<1>3. UNCHANGED <<file, artist, album, row, known, orphaned>>
  BY DEF Proj!UpdateMetadata, Proj!Uncommitted
<1>4. TxShaped(x) /\ DOMAIN x = TxFields /\ StepInv(x, album, row) /\ EditStep(x, row) /\ e \notin Committers
      /\ (\A b \in ProjActors \ {e} : \A q \in tx[b].work.albums : q.id # x.left)
  BY <1>1, TxFacts, OnlyOneKind
<1>5. x = Proj!NoTx
  BY <1>1, <1>4 DEF StepInv
<1>6. x.work = Proj!NoWork /\ x.artist = None /\ x.album = None /\ x.work.rows = Proj!Empty
  BY <1>5 DEF Proj!NoTx, Proj!NoWork
<1>7. GoodWork(e, Proj!NoWork, Written(x), None, None)
  BY <1>1, <1>6, WorkGood
<1>8. Keeps(z, x, {"track", "patch", "version"}) /\ z.track = t /\ z.patch = p /\ DOMAIN z = TxFields
  BY <1>4, AskedFields DEF Keeps
<1> HIDE DEF z
<1>9. Keeps(y, z, {"step", "work"}) /\ y.step = "open" /\ y.work = Proj!NoWork
  BY <1>8, PutFields
<1> HIDE DEF y
<1>10. /\ DOMAIN y = TxFields /\ y.saved = x.saved /\ y.track = t /\ y.patch = p
       /\ y.artist = x.artist /\ y.album = x.album /\ y.previous = x.previous
       /\ y.left = x.left /\ y.done = x.done
  BY <1>8, <1>9, KeptFields
<1>11. TxShaped(y)
  BY <1>4, <1>7, <1>9, <1>10, PatchesOverride DEF TxShaped, GoodWork
<1>12. StepInv(y, album, row)
  BY <1>4, <1>6, <1>9, <1>10 DEF StepInv, EditStep
<1>13. EditStep(y, row)
  BY <1>1, <1>4, <1>6, <1>9, <1>10 DEF EditStep
<1>14. GoodWork(e, y.work, Written(y), None, None)
  BY <1>1, <1>7, <1>9, <1>10 DEF Written
<1>15. /\ ArtistOf(y) \subseteq ArtistClaims \union Claimed(None)
       /\ AlbumOf(y) \subseteq AlbumClaims \union Claimed(None)
       /\ \A b \in ProjActors \ {e} : \A q \in tx[b].work.albums : q.id # y.left
  BY <1>4, <1>6, <1>10, ClaimsEmpty
<1> HIDE DEF x
<1> QED
  BY <1>1, <1>2, <1>3, <1>4, <1>10, <1>11, <1>12, <1>13, <1>14, <1>15, StepTo DEF x

Opened(x, t, m) == [x EXCEPT !.track = t, !.raw = m, !.artist = None, !.album = None]

LEMMA OpenedFields ==
    ASSUME NEW x, NEW t, NEW m, DOMAIN x = TxFields
    PROVE  /\ Keeps(Opened(x, t, m), x, {"track", "raw", "artist", "album"})
           /\ Opened(x, t, m).track = t /\ Opened(x, t, m).raw = m
           /\ Opened(x, t, m).artist = None /\ Opened(x, t, m).album = None
BY DEF Keeps, TxFields, Opened

\* A scan opens a track that it has not written yet.
LEMMA OpenedRow ==
    ASSUME ProjInv, NEW s \in Committers, NEW t \in Tracks, t \notin Written(tx[s])
    PROVE  LET r == Proj!Seen(s, t)
           IN  /\ r.there => row[t].there
               /\ ~r.there => row[t] = Proj!NoRow /\ r.overrides = Proj!Empty
<1> DEFINE r == Proj!Seen(s, t)
           w == tx[s].work
<1>1. s \in ProjActors
  BY DEF ProjActors
<1>2. r = RowIn(row, w, t)
  BY <1>1, SeenRow
<1>3. CASE t \in DOMAIN w.rows
  <2>1. RowWritten(w, t, Written(tx[s]), artist, album, row)
    BY <1>1, <1>3 DEF ProjInv, ActorInv, WorkInv
  <2>2. w.rows[t].there /\ SameCore(w.rows[t], row[t])
    BY <2>1 DEF RowWritten
  <2> QED
    BY <1>2, <1>3, <2>2 DEF RowIn, SameCore
<1>4. CASE t \notin DOMAIN w.rows
  <2>1. r = row[t]
    BY <1>2, <1>4 DEF RowIn
  <2>2. ASSUME ~row[t].there
        PROVE  row[t] = Proj!NoRow
    BY <2>2 DEF ProjInv, Committed, Untagged
  <2>3. Proj!NoRow.overrides = Proj!Empty
    BY DEF Proj!NoRow
  <2> QED
    BY <2>1, <2>2, <2>3
<1> QED
  BY <1>3, <1>4

LEMMA OpenFileKeeps ==
    ASSUME ProjInv, NEW s \in Committers, NEW t \in Tracks, Proj!OpenFile(s, t)
    PROVE  ProjInv'
<1> DEFINE x == tx[s]
           r == Proj!Seen(s, t)
           o == Opened(x, t, file[t])
<1>1. s \in ProjActors /\ x.step \in {"idle", "next"} /\ t \notin Legacy
      /\ \A c \in Committers : t \notin tx[c].done \union {tx[c].track}
  BY DEF Proj!OpenFile, ProjActors
<1>2. UNCHANGED <<file, artist, album, row, known, orphaned>>
  BY DEF Proj!OpenFile, Proj!Uncommitted
<1>3. TxShaped(x) /\ DOMAIN x = TxFields /\ StepInv(x, album, row) /\ ScanStep(x, row) /\ s \notin Editors
      /\ (\A b \in ProjActors \ {s} : \A q \in tx[b].work.albums : q.id # x.left)
  BY <1>1, TxFacts, OnlyOneKind
<1>4. GoodWork(s, x.work, Written(x), None, None) /\ Written(x) = x.done
  BY <1>1, WorkGood DEF Written
<1>5. file[t] \in Meta
  BY <1>1, ProjectionAssumption DEF ProjInv, ProjTypes, Meta
<1>6. t # None
  BY ProjectionAssumption
<1>7. Keeps(o, x, {"track", "raw", "artist", "album"}) /\ o.track = t /\ o.raw = file[t]
      /\ o.artist = None /\ o.album = None /\ DOMAIN o = TxFields
  BY <1>3, OpenedFields DEF Keeps
<1>8. o.work = x.work
  BY <1>7, KeptFields
<1>9. /\ r.there => row[t].there
      /\ ~r.there => row[t] = Proj!NoRow /\ r.overrides = Proj!Empty
  BY <1>1, <1>4, OpenedRow
<1>10. r = RowIn(row, x.work, t)
  BY <1>1, SeenRow
<1>11. CASE r.there
  <2> DEFINE y == Put(o, "meta", o.work)
  <2>1. tx' = [tx EXCEPT ![s] = y]
    <3>1. Proj!To(s, o, "meta", o.work)
      BY <1>11, Zenon DEF Proj!OpenFile, Opened
    <3> QED
      BY <3>1, ToPuts
  <2> HIDE DEF o, r
  <2>2. Keeps(y, o, {"step", "work"}) /\ y.step = "meta" /\ y.work = x.work
    BY <1>7, <1>8, PutFields
  <2> HIDE DEF y
  <2>3. /\ DOMAIN y = TxFields /\ y.saved = x.saved /\ y.track = t /\ y.patch = x.patch
        /\ y.artist = None /\ y.album = None /\ y.previous = x.previous
        /\ y.left = x.left /\ y.done = x.done /\ y.raw = file[t]
    BY <1>7, <2>2, KeptFields
  <2>4. TxShaped(y)
    BY <1>3, <2>2, <2>3 DEF TxShaped, MaybeId
  <2>5. StepInv(y, album, row)
    BY <1>1, <2>2, <2>3 DEF StepInv
  <2>6. ScanStep(y, row)
    BY <1>1, <1>3, <1>5, <1>9, <1>11, <2>2, <2>3 DEF ScanStep
  <2>7. GoodWork(s, y.work, Written(y), None, None)
    BY <1>4, <2>2, <2>3 DEF Written
  <2>8. /\ ArtistOf(y) \subseteq ArtistClaims \union Claimed(None)
        /\ AlbumOf(y) \subseteq AlbumClaims \union Claimed(None)
        /\ \A b \in ProjActors \ {s} : \A q \in tx[b].work.albums : q.id # y.left
    BY <1>3, <2>3, ClaimsEmpty
  <2>9. \A b \in Committers : y.track # None /\ y.track \notin tx[b].done \union {tx[b].track}
    BY <1>1, <1>6, <2>3
  <2> HIDE DEF x
  <2> QED
    BY <1>1, <1>2, <1>3, <2>1, <2>3, <2>4, <2>5, <2>6, <2>7, <2>8, <2>9, StepTo DEF x
<1>12. CASE ~r.there
  <2> DEFINE z == Aim(o, file[t], None)
             y == Put(z, "artist", o.work)
  <2>1. tx' = [tx EXCEPT ![s] = y]
    <3>1. Proj!To(s, z, "artist", o.work)
      BY <1>12, Zenon DEF Proj!OpenFile, Opened, Aim
    <3> QED
      BY <3>1, ToPuts
  <2> HIDE DEF o, r
  <2>2. Keeps(z, o, {"target", "previous"}) /\ z.target = file[t] /\ z.previous = None /\ DOMAIN z = TxFields
    BY <1>7, AimFields DEF Keeps
  <2> HIDE DEF z
  <2>3. Keeps(y, z, {"step", "work"}) /\ y.step = "artist" /\ y.work = x.work
    BY <1>8, <2>2, PutFields
  <2> HIDE DEF y
  <2>4. /\ DOMAIN y = TxFields /\ y.saved = x.saved /\ y.track = t /\ y.patch = x.patch
        /\ y.artist = None /\ y.album = None /\ y.previous = None
        /\ y.left = x.left /\ y.done = x.done /\ y.raw = file[t] /\ y.target = file[t]
    BY <1>7, <2>2, <2>3, KeptFields
  <2>5. TxShaped(y)
    BY <1>3, <2>3, <2>4 DEF TxShaped, MaybeId
  <2>6. StepInv(y, album, row)
    BY <1>1, <1>5, <2>3, <2>4 DEF StepInv
  <2>7. y.target = Proj!ApplyMetadataOverrides(y.raw, RowIn(row, y.work, y.track).overrides)
    <3>1. RowIn(row, y.work, y.track).overrides = Proj!Empty
      BY <1>9, <1>10, <1>12, <2>3, <2>4
    <3>2. \A m \in Meta : Proj!ApplyMetadataOverrides(m, Proj!Empty) = m
      BY DEF Proj!ApplyMetadataOverrides, Proj!Over, Proj!Empty, Meta
    <3> QED
      BY <3>1, <3>2, <1>5, <2>4
  <2>8. ScanStep(y, row)
    BY <1>1, <1>3, <1>5, <1>9, <1>12, <2>3, <2>4, <2>7 DEF ScanStep
  <2>9. GoodWork(s, y.work, Written(y), None, None)
    BY <1>4, <2>3, <2>4 DEF Written
  <2>10. /\ ArtistOf(y) \subseteq ArtistClaims \union Claimed(None)
         /\ AlbumOf(y) \subseteq AlbumClaims \union Claimed(None)
         /\ \A b \in ProjActors \ {s} : \A q \in tx[b].work.albums : q.id # y.left
    BY <1>3, <2>4, ClaimsEmpty
  <2>11. \A b \in Committers : y.track # None /\ y.track \notin tx[b].done \union {tx[b].track}
    BY <1>1, <1>6, <2>4
  <2> HIDE DEF x
  <2> QED
    BY <1>1, <1>2, <1>3, <2>1, <2>4, <2>5, <2>6, <2>8, <2>9, <2>10, <2>11, StepTo DEF x
<1> QED
  BY <1>11, <1>12

-----------------------------------------------------------------------------
(* Finding or making the artist and the album                                *)

LEMMA LowestIn ==
    ASSUME NEW S, IsFiniteSet(S), S # {}, \A r \in S : r.id \in Identifiers
    PROVE  Proj!Lowest(S) \in S
<1> DEFINE f == [r \in S |-> 0 - r.id]
           T == {f[r] : r \in S}
<1>1. IsFiniteSet(T)
  BY ImageFinite
<1>2. T \subseteq Int /\ T # {}
  BY DEF Identifiers
<1>3. PICK n \in T : \A m \in T : ~(n < m)
  <2> HIDE DEF T
  <2> QED
    BY <1>1, <1>2, Greatest
<1>4. PICK r \in S : n = 0 - r.id
  BY <1>3
<1>5. \A q \in S : r.id <= q.id
  <2> SUFFICES ASSUME NEW q \in S
               PROVE  r.id <= q.id
    OBVIOUS
  <2>1. ~(n < 0 - q.id)
    BY <1>3
  <2> QED
    BY <2>1, <1>4 DEF Identifiers
<1> QED
  BY <1>5 DEF Proj!Lowest

LEMMA ArtistResolved ==
    ASSUME ProjInv, NEW a \in ProjActors, tx[a].step = "artist", NEW n \in Identifiers, NEW w,
           tx' = [tx EXCEPT ![a] = Put([tx[a] EXCEPT !.artist = n], "album", w)],
           UNCHANGED <<file, artist, album, row, known, orphaned>>,
           GoodWork(a, w, Written(tx[a]), tx[a].target.artist, None),
           w.rows = tx[a].work.rows, tx[a].work.held \subseteq w.held,
           <<n, tx[a].target.artist>> \in ArtistClaims \union Claimed(tx[a].target.artist)
    PROVE  ProjInv'
<1> DEFINE x == tx[a]
           z == [x EXCEPT !.artist = n]
           y == Put(z, "album", w)
<1>1. TxShaped(x) /\ DOMAIN x = TxFields /\ StepInv(x, album, row)
      /\ (a \in Committers => ScanStep(x, row)) /\ (a \in Editors => EditStep(x, row))
      /\ (\A b \in ProjActors \ {a} : \A q \in tx[b].work.albums : q.id # x.left)
  BY TxFacts
<1>2. tx' = [tx EXCEPT ![a] = y]
  OBVIOUS
<1>3. Keeps(z, x, {"artist"}) /\ z.artist = n /\ DOMAIN z = TxFields
  BY <1>1 DEF Keeps, TxFields
<1> HIDE DEF z
<1>4. Keeps(y, z, {"step", "work"}) /\ y.step = "album" /\ y.work = w
  BY <1>3, PutFields
<1> HIDE DEF y
<1>5. /\ DOMAIN y = TxFields /\ y.saved = x.saved /\ y.track = x.track /\ y.patch = x.patch
      /\ y.artist = n /\ y.album = x.album /\ y.raw = x.raw
      /\ y.left = x.left /\ y.done = x.done /\ y.target = x.target /\ y.previous = x.previous
  BY <1>3, <1>4, KeptFields
<1>6. x.album = None /\ n # None
  BY <1>1, ProjectionAssumption DEF StepInv, Identifiers
<1>7. TxShaped(y)
  BY <1>1, <1>4, <1>5 DEF TxShaped, GoodWork, MaybeId
<1>8. StepInv(y, album, row)
  BY <1>1, <1>4, <1>5, <1>6 DEF StepInv
<1>9. a \in Committers => ScanStep(y, row)
  BY <1>1, <1>4, <1>5 DEF ScanStep, RowIn
<1>10. a \in Editors => EditStep(y, row)
  BY <1>1, <1>4, <1>5 DEF EditStep
<1>11. GoodWork(a, y.work, Written(y), x.target.artist, None)
  BY <1>4, <1>5 DEF Written
<1>12. ArtistOf(y) \subseteq ArtistClaims \union Claimed(x.target.artist)
  BY <1>5 DEF ArtistOf
<1>13. AlbumOf(y) \subseteq AlbumClaims \union Claimed(None)
  BY <1>5, <1>6 DEF AlbumOf
<1>14. \A b \in ProjActors \ {a} : \A q \in tx[b].work.albums : q.id # y.left
  BY <1>1, <1>5
<1> HIDE DEF x
<1> QED
  BY <1>2, <1>5, <1>7, <1>8, <1>9, <1>10, <1>11, <1>12, <1>13, <1>14, StepTo DEF x

LEMMA ArtistsSeen ==
    ASSUME ProjInv, NEW a \in ProjActors
    PROVE  /\ Proj!Artists(a) = artist \union tx[a].work.artists
           /\ IsFiniteSet(Proj!Artists(a))
           /\ \A r \in Proj!Artists(a) : ArtistShaped(r) /\ <<r.id, r.name>> \in ArtistClaims
<1>1. Proj!Artists(a) = artist \union tx[a].work.artists
  BY DEF Proj!Artists
<1>2. TxShaped(tx[a]) /\ WorkShaped(tx[a].work)
  BY DEF ProjInv, ProjTypes, TxShaped
<1>3. IsFiniteSet(artist \union tx[a].work.artists)
  BY <1>2, FS_Union DEF ProjInv, ProjTypes, WorkShaped
<1>4. \A r \in Proj!Artists(a) : ArtistShaped(r)
  BY <1>1, <1>2 DEF ProjInv, ProjTypes, WorkShaped
<1>5. \A r \in Proj!Artists(a) : <<r.id, r.name>> \in ArtistClaims
  BY <1>1 DEF ArtistClaims, ArtistsOf, ArtistsOfWork, OwnArtists
<1> QED
  BY <1>1, <1>3, <1>4, <1>5

LEMMA CachedArtistClaims ==
    ASSUME ProjInv, NEW a \in ProjActors, NEW k, Proj!CachedArtist(a, k) # None
    PROVE  /\ Proj!CachedArtist(a, k) \in Identifiers
           /\ <<Proj!CachedArtist(a, k), k>> \in ArtistClaims
<1> DEFINE f == tx[a].work.known.artists
           g == known.artists
<1>1. MemoryShaped(tx[a].work.known) /\ MemoryShaped(known)
  BY DEF ProjInv, ProjTypes, TxShaped, WorkShaped
<1>2. KnownArtists(f) \subseteq ArtistClaims /\ KnownArtists(g) \subseteq ArtistClaims
  BY DEF ArtistClaims, ArtistsOf, ArtistsOfWork
<1>3. \/ (Proj!CachedArtist(a, k) = f[k] /\ k \in DOMAIN f)
      \/ (Proj!CachedArtist(a, k) = g[k] /\ k \in DOMAIN g)
  BY DEF Proj!CachedArtist, Proj!Remembers
<1> QED
  BY <1>1, <1>2, <1>3 DEF KnownArtists, MemoryShaped

\* A new artist is nobody else's.
LEMMA ArtistMade ==
    ASSUME ProjInv, NEW a \in ProjActors, NEW l, NEW D, NEW r, NEW v,
           GoodWork(a, l, D, r.name, None), r.id = Proj!Fresh, ArtistShaped(r),
           v = [l EXCEPT !.artists = @ \union {r}]
    PROVE  /\ GoodWork(a, v, D, r.name, None)
           /\ v.rows = l.rows /\ v.held = l.held
<1>1. /\ DOMAIN v = WorkFields /\ v.held = l.held
      /\ v.artists = l.artists \union {r} /\ v.albums = l.albums /\ v.dropped = l.dropped
      /\ v.orphans = l.orphans /\ v.rows = l.rows /\ v.known = l.known
  BY DEF GoodWork, WorkShaped, WorkFields
<1>2. IsFiniteSet(v.artists)
  <2>1. IsFiniteSet(l.artists)
    BY DEF GoodWork, WorkShaped
  <2>2. IsFiniteSet(l.artists \union {r})
    BY <2>1, FS_AddElement
  <2> QED
    BY <1>1, <2>2
<1>3. WorkShaped(v)
  BY <1>1, <1>2 DEF GoodWork, WorkShaped
<1>4. WorkInv(v, D, artist, album, row)
  <2>1. WorkInv(l, D, artist, album, row)
    BY DEF GoodWork
  <2>2. /\ \A q \in v.albums : q.title # None /\ \A p \in album : p.id # q.id
        /\ \A t \in Tracks : Lock("meta", t) \in v.held => row[t].there
    BY <1>1, <2>1 DEF WorkInv
  <2>3. l.held \subseteq v.held /\ l.artists \subseteq v.artists /\ l.albums \subseteq v.albums
    BY <1>1
  <2>4. v.dropped = l.dropped /\ v.orphans = l.orphans /\ v.rows = l.rows /\ v.known = l.known
    BY <1>1
  <2> QED
    BY <2>1, <2>2, <2>3, <2>4, WorkGrows
<1>5. ArtistsOfWork(v) \subseteq ArtistClaims \union Claimed(r.name)
  <2>1. OwnArtists(v.artists) = OwnArtists(l.artists) \union Claimed(r.name)
    BY <1>1 DEF OwnArtists, Claimed
  <2> QED
    BY <1>1, <2>1 DEF GoodWork, ArtistsOfWork
<1>6. AlbumsOfWork(v) = AlbumsOfWork(l)
  BY <1>1 DEF AlbumsOfWork
<1>7. \A b \in ProjActors \ {a} : Beside(v, tx[b].work) /\ \A q \in v.albums : q.id # tx[b].left
  BY <1>1 DEF GoodWork, Beside
<1>8. SavedWithin(tx[a].saved, v, tx[a].done)
  BY <1>1 DEF GoodWork, SavedWithin
<1> QED
  BY <1>1, <1>3, <1>4, <1>5, <1>6, <1>7, <1>8 DEF GoodWork

LEMMA ResolveArtistKeeps ==
    ASSUME ProjInv, NEW a \in ProjActors, Proj!ResolveArtist(a)
    PROVE  ProjInv'
<1> DEFINE x == tx[a]
           l == Proj!Locked(a)
           k == x.target.artist
           cached == IF a \in Committers THEN Proj!CachedArtist(a, k) ELSE None
           found == {r \in Proj!Artists(a) : r.name = k}
           made == [id |-> Proj!Fresh, name |-> k, by |-> Proj!Maker(a)]
           w == [l EXCEPT !.artists = @ \union {made}]
<1>1. Proj!At(a, "artist") /\ x.step = "artist"
  BY Unblocked DEF Proj!ResolveArtist
<1>2. UNCHANGED <<file, artist, album, row, known, orphaned>>
  BY DEF Proj!ResolveArtist, Proj!Uncommitted
<1>3. GoodWork(a, l, Written(x), k, None) /\ l.rows = x.work.rows /\ x.work.held \subseteq l.held
  BY <1>1, LockedGood
<1>4. \/ cached # None /\ Proj!To(a, [x EXCEPT !.artist = cached], "album", l)
      \/ found # {} /\ Proj!To(a, [x EXCEPT !.artist = Proj!Lowest(found).id], "album", l)
      \/ Proj!To(a, [x EXCEPT !.artist = Proj!Fresh], "album", w)
  BY Zenon DEF Proj!ResolveArtist
<1> HIDE DEF l
<1>5. CASE cached # None /\ Proj!To(a, [x EXCEPT !.artist = cached], "album", l)
  <2>1. cached \in Identifiers /\ <<cached, k>> \in ArtistClaims
    BY <1>5, CachedArtistClaims
  <2>2. tx' = [tx EXCEPT ![a] = Put([tx[a] EXCEPT !.artist = cached], "album", l)]
    BY <1>5, ToPuts
  <2> HIDE DEF cached
  <2> QED
    BY <1>1, <1>2, <1>3, <2>1, <2>2, ArtistResolved
<1>6. CASE found # {} /\ Proj!To(a, [x EXCEPT !.artist = Proj!Lowest(found).id], "album", l)
  <2> DEFINE n == Proj!Lowest(found).id
  <2>1. IsFiniteSet(found) /\ \A r \in found : ArtistShaped(r) /\ r.name = k /\ <<r.id, r.name>> \in ArtistClaims
    BY ArtistsSeen, FS_Subset
  <2>2. Proj!Lowest(found) \in found
    <3> HIDE DEF found
    <3> QED
      BY <1>6, <2>1, LowestIn DEF ArtistShaped
  <2>3. n \in Identifiers /\ <<n, k>> \in ArtistClaims
    BY <2>1, <2>2 DEF ArtistShaped
  <2>4. tx' = [tx EXCEPT ![a] = Put([tx[a] EXCEPT !.artist = n], "album", l)]
    BY <1>6, ToPuts
  <2> HIDE DEF n, found
  <2> QED
    BY <1>1, <1>2, <1>3, <2>3, <2>4, ArtistResolved
<1>7. CASE Proj!To(a, [x EXCEPT !.artist = Proj!Fresh], "album", w)
  <2>1. Proj!Fresh \in Identifiers /\ <<Proj!Fresh, k>> \in Claimed(k)
    BY FreshUnseen DEF Claimed, ProjInv
  <2>2. x.target \in Meta
    BY <1>1, TxFacts DEF StepInv
  <2>3. ArtistShaped(made)
    BY <2>1, <2>2 DEF ArtistShaped, Proj!Maker, Meta, Fields
  <2>4. GoodWork(a, w, Written(x), k, None) /\ w.rows = l.rows /\ w.held = l.held
    <3>1. made.name = k /\ made.id = Proj!Fresh
      OBVIOUS
    <3> HIDE DEF made
    <3> QED
      BY <1>3, <2>3, <3>1, ArtistMade
  <2>5. tx' = [tx EXCEPT ![a] = Put([tx[a] EXCEPT !.artist = Proj!Fresh], "album", w)]
    BY <1>7, ToPuts
  <2> HIDE DEF w
  <2> QED
    BY <1>1, <1>2, <1>3, <2>1, <2>4, <2>5, ArtistResolved
<1> QED
  BY <1>4, <1>5, <1>6, <1>7

LEMMA AlbumResolved ==
    ASSUME ProjInv, NEW a \in ProjActors, tx[a].step = "album", NEW n \in MaybeId, NEW w, NEW y,
           tx' = [tx EXCEPT ![a] = y], Keeps(y, tx[a], {"album", "step", "work"}),
           y.step = "track", y.album = n, y.work = w,
           UNCHANGED <<file, artist, album, row, known, orphaned>>,
           GoodWork(a, w, Written(tx[a]), None, <<tx[a].target.album, tx[a].artist>>),
           w.rows = tx[a].work.rows, tx[a].work.held \subseteq w.held,
           n = None <=> tx[a].target.album = None,
           n # None => Usable(w, n, album),
           n # None => <<n, <<tx[a].target.album, tx[a].artist>>>>
                       \in AlbumClaims \union Claimed(<<tx[a].target.album, tx[a].artist>>)
    PROVE  ProjInv'
<1> DEFINE x == tx[a]
           u == <<x.target.album, x.artist>>
<1>1. TxShaped(x) /\ DOMAIN x = TxFields /\ StepInv(x, album, row)
      /\ (a \in Committers => ScanStep(x, row)) /\ (a \in Editors => EditStep(x, row))
      /\ (\A b \in ProjActors \ {a} : \A q \in tx[b].work.albums : q.id # x.left)
      /\ ArtistOf(x) \subseteq ArtistClaims
  BY TxFacts
<1>2. /\ DOMAIN y = TxFields /\ y.saved = x.saved /\ y.track = x.track /\ y.patch = x.patch
      /\ y.artist = x.artist /\ y.raw = x.raw
      /\ y.left = x.left /\ y.done = x.done /\ y.target = x.target /\ y.previous = x.previous
  BY KeptFields
<1>3. TxShaped(y)
  BY <1>1, <1>2 DEF TxShaped, GoodWork
<1>4. StepInv(y, album, row)
  BY <1>1, <1>2 DEF StepInv
<1>5. a \in Committers => ScanStep(y, row)
  BY <1>1, <1>2 DEF ScanStep, RowIn
<1>6. a \in Editors => EditStep(y, row)
  BY <1>1, <1>2 DEF EditStep
<1>7. GoodWork(a, y.work, Written(y), None, u)
  BY <1>2 DEF Written
<1>8. ArtistOf(y) \subseteq ArtistClaims \union Claimed(None)
  BY <1>1, <1>2 DEF ArtistOf
<1>9. AlbumOf(y) \subseteq AlbumClaims \union Claimed(u)
  BY <1>2 DEF AlbumOf
<1>10. \A b \in ProjActors \ {a} : \A q \in tx[b].work.albums : q.id # y.left
  BY <1>1, <1>2
<1> HIDE DEF x, u
<1> QED
  BY <1>2, <1>3, <1>4, <1>5, <1>6, <1>7, <1>8, <1>9, <1>10, StepTo DEF x

LEMMA AlbumsSeen ==
    ASSUME ProjInv, NEW a \in ProjActors
    PROVE  /\ Proj!Albums(a) = AlbumsIn(album, tx[a].work)
           /\ IsFiniteSet(Proj!Albums(a))
           /\ \A r \in Proj!Albums(a) : AlbumShaped(r) /\ r.title # None
                                        /\ <<r.id, <<r.title, r.artist>>>> \in AlbumClaims
<1>1. Proj!Albums(a) = AlbumsIn(album, tx[a].work)
  BY DEF Proj!Albums, AlbumsIn
<1>2. TxShaped(tx[a]) /\ WorkShaped(tx[a].work)
  BY DEF ProjInv, ProjTypes, TxShaped
<1>3. IsFiniteSet(album \union tx[a].work.albums)
  BY <1>2, FS_Union DEF ProjInv, ProjTypes, WorkShaped
<1>4. IsFiniteSet(Proj!Albums(a))
  BY <1>1, <1>3, FS_Subset DEF AlbumsIn
<1>5. \A r \in album \union tx[a].work.albums : AlbumShaped(r) /\ <<r.id, <<r.title, r.artist>>>> \in AlbumClaims
  BY <1>2 DEF ProjInv, ProjTypes, WorkShaped, AlbumClaims, AlbumsOf, AlbumsOfWork, OwnAlbums
<1>6. \A r \in album \union tx[a].work.albums : r.title # None
  BY DEF ProjInv, Committed, ActorInv, WorkInv
<1> QED
  BY <1>1, <1>4, <1>5, <1>6 DEF AlbumsIn

LEMMA AlbumMade ==
    ASSUME ProjInv, NEW a \in ProjActors, NEW l, NEW D, NEW r, NEW v,
           GoodWork(a, l, D, None, <<r.title, r.artist>>), r.id = Proj!Fresh, AlbumShaped(r), r.title # None,
           Proj!Fresh \notin l.dropped,
           v = [l EXCEPT !.albums = @ \union {r}]
    PROVE  /\ GoodWork(a, v, D, None, <<r.title, r.artist>>)
           /\ v.rows = l.rows /\ v.held = l.held
           /\ Usable(v, Proj!Fresh, album)
<1> DEFINE u == <<r.title, r.artist>>
<1>1. /\ DOMAIN v = WorkFields /\ v.held = l.held
      /\ v.artists = l.artists /\ v.albums = l.albums \union {r} /\ v.dropped = l.dropped
      /\ v.orphans = l.orphans /\ v.rows = l.rows /\ v.known = l.known
  BY DEF GoodWork, WorkShaped, WorkFields
<1>2. IsFiniteSet(v.albums)
  <2>1. IsFiniteSet(l.albums)
    BY DEF GoodWork, WorkShaped
  <2>2. IsFiniteSet(l.albums \union {r})
    BY <2>1, FS_AddElement
  <2> QED
    BY <1>1, <2>2
<1>3. WorkShaped(v)
  BY <1>1, <1>2 DEF GoodWork, WorkShaped
<1>4. /\ \A q \in album : q.id # r.id
      /\ \A b \in ProjActors : /\ \A q \in tx[b].work.albums : q.id # r.id
                               /\ r.id \notin tx[b].work.dropped
                               /\ tx[b].left # r.id
  BY FreshUnseen DEF ProjInv
<1>5. WorkInv(v, D, artist, album, row)
  <2>1. WorkInv(l, D, artist, album, row)
    BY DEF GoodWork
  <2>2. /\ \A q \in v.albums : q.title # None /\ \A p \in album : p.id # q.id
        /\ \A t \in Tracks : Lock("meta", t) \in v.held => row[t].there
    BY <1>1, <1>4, <2>1 DEF WorkInv
  <2>3. l.held \subseteq v.held /\ l.artists \subseteq v.artists /\ l.albums \subseteq v.albums
    BY <1>1
  <2>4. v.dropped = l.dropped /\ v.orphans = l.orphans /\ v.rows = l.rows /\ v.known = l.known
    BY <1>1
  <2> QED
    BY <2>1, <2>2, <2>3, <2>4, WorkGrows
<1>6. AlbumsOfWork(v) \subseteq AlbumClaims \union Claimed(u)
  <2>1. OwnAlbums(v.albums) = OwnAlbums(l.albums) \union Claimed(u)
    BY <1>1 DEF OwnAlbums, Claimed
  <2> QED
    BY <1>1, <2>1 DEF GoodWork, AlbumsOfWork
<1>7. ArtistsOfWork(v) = ArtistsOfWork(l)
  BY <1>1 DEF ArtistsOfWork
<1>8. \A b \in ProjActors \ {a} : Beside(v, tx[b].work) /\ \A q \in v.albums : q.id # tx[b].left
  BY <1>1, <1>4 DEF GoodWork, Beside
<1>9. SavedWithin(tx[a].saved, v, tx[a].done)
  BY <1>1 DEF GoodWork, SavedWithin
<1>10. Usable(v, Proj!Fresh, album)
  BY <1>1 DEF Usable, AlbumsIn
<1> QED
  BY <1>1, <1>3, <1>5, <1>6, <1>7, <1>8, <1>9, <1>10 DEF GoodWork

\* An album that is found is locked from then on.
LEMMA AlbumFound ==
    ASSUME ProjInv, NEW a \in ProjActors, Proj!At(a, "album"), NEW n,
           n = IF Proj!RememberedAlbum(a) # {} THEN Proj!Lowest(Proj!RememberedAlbum(a)).id
               ELSE Proj!Lowest(Proj!ChosenAlbum(a)).id,
           Proj!RememberedAlbum(a) # {} \/ Proj!ChosenAlbum(a) # {},
           tx[a].target.album # None, Proj!CachedAlbum(a) = None
    PROVE  /\ n \in Identifiers /\ Usable(Proj!Locked(a), n, album)
           /\ <<n, <<tx[a].target.album, tx[a].artist>>>> \in AlbumClaims
<1> DEFINE S == IF Proj!RememberedAlbum(a) # {} THEN Proj!RememberedAlbum(a) ELSE Proj!Candidates(a)
           T == IF Proj!RememberedAlbum(a) # {} THEN Proj!RememberedAlbum(a) ELSE Proj!ChosenAlbum(a)
<1>1. T \subseteq S /\ S \subseteq Proj!Albums(a) /\ T # {}
  BY DEF Proj!RememberedAlbum, Proj!validateCachedScanAlbum, Proj!Candidates, Proj!ChosenAlbum
<1>2. \A r \in T : r.title = tx[a].target.album /\ r.artist = tx[a].artist
  BY DEF Proj!RememberedAlbum, Proj!validateCachedScanAlbum, Proj!Candidates, Proj!ChosenAlbum
<1>3. \A r \in S : Lock("row", r.id) \in Proj!Wants(a)
  <2>1. tx[a].step = "album"
    BY Unblocked
  <2>2. Proj!Wants(a) = Proj!AlbumLocks(a)
    BY <2>1 DEF Proj!Wants
  <2>3. Proj!RememberedAlbum(a) # {} => a \notin Editors
    BY OnlyOneKind DEF Proj!RememberedAlbum
  <2>4. Proj!Rows(S) \subseteq Proj!AlbumLocks(a)
    BY <2>3 DEF Proj!AlbumLocks
  <2> QED
    BY <2>2, <2>4 DEF Proj!Rows, Lock
<1> HIDE DEF S
<1>4. \A r \in T : AlbumShaped(r)
  BY <1>1, AlbumsSeen
<1>5. Proj!Lowest(T) \in T /\ n = Proj!Lowest(T).id
  <2>1. n = Proj!Lowest(T).id
    OBVIOUS
  <2> HIDE DEF T
  <2>2. IsFiniteSet(T) /\ T # {}
    BY <1>1, AlbumsSeen, FS_Subset
  <2>3. \A r \in T : r.id \in Identifiers
    BY <1>4 DEF AlbumShaped
  <2> QED
    BY <2>1, <2>2, <2>3, LowestIn
<1> HIDE DEF T
<1>6. PICK r \in T : r.id = n
  BY <1>5
<1>7. r \in AlbumsIn(album, tx[a].work) /\ AlbumShaped(r) /\ <<r.id, <<r.title, r.artist>>>> \in AlbumClaims
  BY <1>1, <1>6, AlbumsSeen
<1>8. r \in AlbumsIn(album, Proj!Locked(a)) /\ Lock("row", r.id) \in Proj!Locked(a).held
  BY <1>1, <1>3, <1>6, <1>7, LockedGood DEF AlbumsIn
<1> QED
  BY <1>2, <1>6, <1>7, <1>8 DEF Usable, AlbumShaped

LEMMA AlbumCached ==
    ASSUME ProjInv, NEW a \in ProjActors, Proj!At(a, "album"), Proj!CachedAlbum(a) # None
    PROVE  /\ Proj!CachedAlbum(a) \in Identifiers
           /\ Usable(Proj!Locked(a), Proj!CachedAlbum(a), album)
           /\ <<Proj!CachedAlbum(a), <<tx[a].target.album, tx[a].artist>>>> \in AlbumClaims
<1> DEFINE f == tx[a].work.known.albums
           k == Proj!scanAlbumCacheKey(a)
           n == Proj!CachedAlbum(a)
<1>1. n = f[k] /\ k \in DOMAIN f
  BY DEF Proj!CachedAlbum, Proj!Remembers
<1>2. k[1] = tx[a].target.album /\ k[2] = tx[a].artist
  BY DEF Proj!scanAlbumCacheKey
<1>3. MemoryShaped(tx[a].work.known)
  BY DEF ProjInv, ProjTypes, TxShaped, WorkShaped
<1>4. n \in Identifiers
  BY <1>1, <1>3 DEF MemoryShaped
<1>5. KnownAlbums(f) \subseteq AlbumClaims
  BY DEF AlbumClaims, AlbumsOf, AlbumsOfWork
<1>6. <<n, <<k[1], k[2]>>>> \in AlbumClaims
  BY <1>1, <1>5 DEF KnownAlbums
<1>7. Usable(Proj!Locked(a), n, album)
  <2>1. Proj!Locked(a).known.albums = f
    BY LockedGood
  <2>2. WorkInv(Proj!Locked(a), Written(tx[a]), artist, album, row)
    BY LockedGood DEF GoodWork
  <2> HIDE DEF f, k, n
  <2> QED
    BY <1>1, <2>1, <2>2 DEF WorkInv
<1> QED
  BY <1>2, <1>4, <1>6, <1>7

LEMMA ResolveAlbumKeeps ==
    ASSUME ProjInv, NEW a \in ProjActors, Proj!ResolveAlbum(a)
    PROVE  ProjInv'
<1> DEFINE x == tx[a]
           l == Proj!Locked(a)
           title == x.target.album
           cached == Proj!CachedAlbum(a)
           found == IF Proj!RememberedAlbum(a) # {} THEN Proj!RememberedAlbum(a)
                    ELSE Proj!ChosenAlbum(a)
           made == [id |-> Proj!Fresh, title |-> title, artist |-> x.artist, by |-> Proj!Maker(a)]
           w == [l EXCEPT !.albums = @ \union {made}]
           u == <<title, x.artist>>
<1>1. Proj!At(a, "album") /\ x.step = "album"
  BY Unblocked DEF Proj!ResolveAlbum
<1>2. UNCHANGED <<file, artist, album, row, known, orphaned>>
  BY DEF Proj!ResolveAlbum, Proj!Uncommitted
<1>3. GoodWork(a, l, Written(x), None, u) /\ l.rows = x.work.rows /\ x.work.held \subseteq l.held
      /\ l.dropped = x.work.dropped
  BY <1>1, LockedGood
<1>4. \/ title = None /\ Proj!To(a, x, "track", l)
      \/ title # None /\ cached # None /\ Proj!To(a, [x EXCEPT !.album = cached], "track", l)
      \/ title # None /\ cached = None /\ found # {}
         /\ Proj!To(a, [x EXCEPT !.album = Proj!Lowest(found).id], "track", l)
      \/ title # None /\ Proj!To(a, [x EXCEPT !.album = Proj!Fresh], "track", w)
  BY Zenon DEF Proj!ResolveAlbum
<1>5. DOMAIN x = TxFields /\ x.album = None /\ x.target \in Meta
  BY <1>1, TxFacts DEF StepInv
<1>6. ASSUME NEW n
      PROVE  LET z == [x EXCEPT !.album = n]
             IN  \A v : /\ Keeps(Put(z, "track", v), x, {"album", "step", "work"})
                        /\ Put(z, "track", v).step = "track" /\ Put(z, "track", v).album = n
                        /\ Put(z, "track", v).work = v
  BY <1>5 DEF Keeps, TxFields, Put
<1> HIDE DEF l
<1>7. CASE title = None /\ Proj!To(a, x, "track", l)
  <2> DEFINE y == Put(x, "track", l)
  <2>1. tx' = [tx EXCEPT ![a] = y]
    BY <1>7, ToPuts
  <2>2. Keeps(y, x, {"album", "step", "work"}) /\ y.step = "track" /\ y.album = None /\ y.work = l
    BY <1>5 DEF Keeps, TxFields, Put
  <2>3. None \in MaybeId
    BY DEF MaybeId
  <2> HIDE DEF y
  <2> QED
    BY <1>1, <1>2, <1>3, <1>7, <2>1, <2>2, <2>3, AlbumResolved
<1>8. CASE title # None /\ cached # None /\ Proj!To(a, [x EXCEPT !.album = cached], "track", l)
  <2> DEFINE y == Put([x EXCEPT !.album = cached], "track", l)
  <2>1. tx' = [tx EXCEPT ![a] = y]
    BY <1>8, ToPuts
  <2>2. Keeps(y, x, {"album", "step", "work"}) /\ y.step = "track" /\ y.album = cached /\ y.work = l
    BY <1>6
  <2>3. cached \in Identifiers /\ Usable(l, cached, album) /\ <<cached, u>> \in AlbumClaims
    BY <1>1, <1>8, AlbumCached DEF l
  <2>4. cached \in MaybeId
    BY <2>3 DEF MaybeId
  <2> HIDE DEF y, cached
  <2> QED
    BY <1>1, <1>2, <1>3, <1>8, <2>1, <2>2, <2>3, <2>4, AlbumResolved
<1>9. CASE title # None /\ cached = None /\ found # {}
           /\ Proj!To(a, [x EXCEPT !.album = Proj!Lowest(found).id], "track", l)
  <2> DEFINE n == Proj!Lowest(found).id
             y == Put([x EXCEPT !.album = n], "track", l)
  <2>1. tx' = [tx EXCEPT ![a] = y]
    BY <1>9, ToPuts
  <2>2. Keeps(y, x, {"album", "step", "work"}) /\ y.step = "track" /\ y.album = n /\ y.work = l
    BY <1>6
  <2>3. n = IF Proj!RememberedAlbum(a) # {} THEN Proj!Lowest(Proj!RememberedAlbum(a)).id
            ELSE Proj!Lowest(Proj!ChosenAlbum(a)).id
    OBVIOUS
  <2>4. Proj!RememberedAlbum(a) # {} \/ Proj!ChosenAlbum(a) # {}
    BY <1>9
  <2> HIDE DEF y, n, found
  <2>5. n \in Identifiers /\ Usable(l, n, album) /\ <<n, u>> \in AlbumClaims
    BY <1>1, <1>9, <2>3, <2>4, AlbumFound DEF l
  <2>6. n # None /\ n \in MaybeId
    BY <2>5, ProjectionAssumption DEF MaybeId, Identifiers
  <2> QED
    BY <1>1, <1>2, <1>3, <1>9, <2>1, <2>2, <2>5, <2>6, AlbumResolved
<1>10. CASE title # None /\ Proj!To(a, [x EXCEPT !.album = Proj!Fresh], "track", w)
  <2> DEFINE y == Put([x EXCEPT !.album = Proj!Fresh], "track", w)
  <2>1. tx' = [tx EXCEPT ![a] = y]
    BY <1>10, ToPuts
  <2>2. Keeps(y, x, {"album", "step", "work"}) /\ y.step = "track" /\ y.album = Proj!Fresh /\ y.work = w
    BY <1>6
  <2>3. Proj!Fresh \in Identifiers /\ Proj!Fresh # None /\ Proj!Fresh \notin l.dropped
    BY <1>3, FreshUnseen DEF ProjInv
  <2>4. Proj!Fresh \in MaybeId /\ <<Proj!Fresh, u>> \in Claimed(u)
    BY <2>3 DEF MaybeId, Claimed
  <2>5. AlbumShaped(made) /\ made.title # None /\ <<made.title, made.artist>> = u /\ made.id = Proj!Fresh
    BY <1>5, <1>10, <2>3 DEF AlbumShaped, Meta, Fields
  <2> HIDE DEF made, y, u
  <2>6. GoodWork(a, w, Written(x), None, u) /\ w.rows = l.rows /\ w.held = l.held
        /\ Usable(w, Proj!Fresh, album)
    BY <1>3, <2>3, <2>5, AlbumMade
  <2> HIDE DEF w
  <2> QED
    BY <1>1, <1>2, <1>3, <1>10, <2>1, <2>2, <2>3, <2>4, <2>6, AlbumResolved DEF u
<1> QED
  BY <1>4, <1>7, <1>8, <1>9, <1>10

-----------------------------------------------------------------------------
(* Writing the track                                                         *)

LEMMA WorkRemembers ==
    ASSUME NEW A, NEW L, NEW R, NEW D, NEW w, NEW v, WorkInv(w, D, A, L, R), v.held = w.held,
           v.artists = w.artists, v.albums = w.albums, v.dropped = w.dropped,
           v.orphans = w.orphans, v.rows = w.rows,
           \A k \in DOMAIN v.known.albums : Usable(w, v.known.albums[k], L)
    PROVE  WorkInv(v, D, A, L, R)
<1>1. \A n : Usable(w, n, L) <=> Usable(v, n, L)
  BY DEF Usable, AlbumsIn
<1>2. AlbumsIn(L, v) = AlbumsIn(L, w)
  BY DEF AlbumsIn
<1>3. \A t \in DOMAIN v.rows : RowWritten(v, t, D, A, L, R)
  <2> SUFFICES ASSUME NEW t \in DOMAIN v.rows
               PROVE  RowWritten(v, t, D, A, L, R)
    OBVIOUS
  <2>1. RowWritten(w, t, D, A, L, R)
    BY DEF WorkInv
  <2> QED
    BY <2>1, <1>1, <1>2 DEF RowWritten
<1>4. \A t \in Tracks : RowIn(R, v, t) = RowIn(R, w, t)
  BY DEF RowIn
<1>5. \A k \in DOMAIN v.known.albums : Usable(v, v.known.albums[k], L)
  BY <1>1
<1> QED
  BY <1>3, <1>4, <1>5 DEF WorkInv

\* A transaction keeps what a file resolved for the next files.
LEMMA ResolvedGood ==
    ASSUME ProjInv, NEW a \in ProjActors, NEW w, NEW D, NEW v, tx[a].step \in {"track", "leave", "drop"},
           GoodWork(a, w, D, None, None), tx[a].album # None => Usable(w, tx[a].album, album),
           v = Proj!Resolved(tx[a], w, Proj!scanAlbumCacheKey(a))
    PROVE  GoodWork(a, v, D, None, None)
<1> DEFINE x == tx[a]
           k == Proj!scanAlbumCacheKey(a)
           f == Proj!Over([name \in {x.target.artist} |-> x.artist], w.known.artists)
           g == IF x.album = None THEN w.known.albums ELSE Proj!Over([m \in {k} |-> x.album], w.known.albums)
           C == ArtistClaims \union Claimed(None)
           E == AlbumClaims \union Claimed(None)
<1>1. DOMAIN w = WorkFields /\ WorkShaped(w) /\ MemoryShaped(w.known)
  BY DEF GoodWork, WorkShaped
<1>2. v = [w EXCEPT !.known.artists = f, !.known.albums = g]
  BY Zenon DEF Proj!Resolved
<1> HIDE DEF f, g
<1>3. /\ DOMAIN v = WorkFields /\ v.held = w.held
      /\ v.artists = w.artists /\ v.albums = w.albums /\ v.dropped = w.dropped
      /\ v.orphans = w.orphans /\ v.rows = w.rows
      /\ v.known = [w.known EXCEPT !.artists = f, !.albums = g]
  BY <1>1, <1>2 DEF WorkFields
<1>4. DOMAIN v.known = {"artists", "albums"} /\ v.known.artists = f /\ v.known.albums = g
  BY <1>1, <1>3 DEF MemoryShaped
<1>5. StepInv(x, album, row) /\ TxShaped(x) /\ ArtistOf(x) \subseteq ArtistClaims /\ AlbumOf(x) \subseteq AlbumClaims
  BY TxFacts
<1>6. x.artist # None /\ x.artist \in Identifiers /\ (x.album # None => x.album \in Identifiers)
  BY <1>5 DEF StepInv, TxShaped, MaybeId
<1>7. <<x.artist, x.target.artist>> \in ArtistClaims
      /\ (x.album # None => <<x.album, <<k[1], k[2]>>>> \in AlbumClaims)
  BY <1>5, <1>6 DEF ArtistOf, AlbumOf, Proj!scanAlbumCacheKey
<1> HIDE DEF k
<1>8. KnownArtists(w.known.artists) \subseteq C /\ KnownAlbums(w.known.albums) \subseteq E
      /\ OwnArtists(w.artists) \subseteq C /\ OwnAlbums(w.albums) \subseteq E
  BY DEF GoodWork, ArtistsOfWork, AlbumsOfWork
<1>9. /\ DOMAIN f = DOMAIN w.known.artists \union {x.target.artist}
      /\ \A m \in DOMAIN f : f[m] = IF m = x.target.artist THEN x.artist ELSE w.known.artists[m]
      /\ KnownArtists(f) \subseteq C
      /\ IsFiniteSet(DOMAIN f)
  <2>1. /\ DOMAIN f = DOMAIN w.known.artists \union {x.target.artist}
        /\ \A m \in DOMAIN f : f[m] = IF m = x.target.artist THEN x.artist ELSE w.known.artists[m]
    BY DEF f, Proj!Over
  <2>2. <<x.artist, x.target.artist>> \in C /\ KnownArtists(w.known.artists) \subseteq C
    BY <1>7, <1>8
  <2>3. IsFiniteSet(DOMAIN w.known.artists)
    BY <1>1 DEF MemoryShaped
  <2>4. IsFiniteSet(DOMAIN w.known.artists \union {x.target.artist})
    BY <2>3, FS_AddElement
  <2>5. KnownArtists(f) \subseteq KnownArtists(w.known.artists) \union {<<x.artist, x.target.artist>>}
    BY <2>1 DEF KnownArtists
  <2> HIDE DEF C, x
  <2> QED
    BY <2>1, <2>2, <2>4, <2>5
<1>10. CASE x.album = None
  <2>1. g = w.known.albums
    BY <1>10 DEF g
  <2>2. MemoryShaped(v.known)
    BY <1>1, <1>4, <1>6, <1>9, <2>1 DEF MemoryShaped
  <2>3. WorkInv(v, D, artist, album, row)
    <3>1. WorkInv(w, D, artist, album, row)
      BY DEF GoodWork
    <3>2. \A m \in DOMAIN v.known.albums : Usable(w, v.known.albums[m], album)
      BY <1>4, <2>1, <3>1 DEF WorkInv
    <3> QED
      BY <1>3, <3>1, <3>2, WorkRemembers
  <2> QED
    BY <1>1, <1>3, <1>4, <1>8, <1>9, <2>1, <2>2, <2>3
       DEF GoodWork, WorkShaped, Beside, SavedWithin, ArtistsOfWork, AlbumsOfWork
<1>11. CASE x.album # None
  <2>1. /\ DOMAIN g = DOMAIN w.known.albums \union {k}
        /\ \A m \in DOMAIN g : g[m] = IF m = k THEN x.album ELSE w.known.albums[m]
        /\ KnownAlbums(g) \subseteq E
        /\ IsFiniteSet(DOMAIN g)
    <3>1. /\ DOMAIN g = DOMAIN w.known.albums \union {k}
          /\ \A m \in DOMAIN g : g[m] = IF m = k THEN x.album ELSE w.known.albums[m]
      BY <1>11 DEF g, Proj!Over
    <3>2. <<x.album, <<k[1], k[2]>>>> \in E /\ KnownAlbums(w.known.albums) \subseteq E
      BY <1>7, <1>8, <1>11
    <3>3. IsFiniteSet(DOMAIN w.known.albums)
      BY <1>1 DEF MemoryShaped
    <3>4. IsFiniteSet(DOMAIN w.known.albums \union {k})
      BY <3>3, FS_AddElement
    <3>5. KnownAlbums(g) \subseteq KnownAlbums(w.known.albums) \union {<<x.album, <<k[1], k[2]>>>>}
      BY <3>1 DEF KnownAlbums
    <3> HIDE DEF E, x
    <3> QED
      BY <3>1, <3>2, <3>4, <3>5
  <2>2. MemoryShaped(v.known)
    BY <1>1, <1>4, <1>6, <1>9, <1>11, <2>1 DEF MemoryShaped
  <2>3. WorkInv(v, D, artist, album, row)
    <3>1. WorkInv(w, D, artist, album, row)
      BY DEF GoodWork
    <3>2. \A m \in DOMAIN v.known.albums : Usable(w, v.known.albums[m], album)
      BY <1>4, <1>11, <2>1, <3>1 DEF WorkInv
    <3> QED
      BY <1>3, <3>1, <3>2, WorkRemembers
  <2> QED
    BY <1>1, <1>3, <1>4, <1>8, <1>9, <2>1, <2>2, <2>3
       DEF GoodWork, WorkShaped, Beside, SavedWithin, ArtistsOfWork, AlbumsOfWork
<1> QED
  BY <1>10, <1>11

Kept(x, v) == [x EXCEPT !.saved = v, !.track = None, !.done = @ \union {x.track}]

LEMMA DoneKeeps ==
    ASSUME ProjInv, NEW a \in ProjActors, NEW w, tx[a].step \in {"track", "leave", "drop"},
           Proj!Done(a, tx[a], w), UNCHANGED <<file, artist, album, row, orphaned>>,
           MemoryShaped(known'), KnownArtists(known'.artists) \subseteq ArtistClaims,
           KnownAlbums(known'.albums) \subseteq AlbumClaims,
           GoodWork(a, w, tx[a].done \union {tx[a].track}, None, None),
           tx[a].album # None => Usable(w, tx[a].album, album)
    PROVE  ProjInv'
<1> DEFINE x == tx[a]
           D == x.done \union {x.track}
<1>1. TxShaped(x) /\ DOMAIN x = TxFields /\ StepInv(x, album, row)
      /\ (a \in Committers => ScanStep(x, row)) /\ (a \in Editors => EditStep(x, row))
      /\ (\A b \in ProjActors \ {a} : \A q \in tx[b].work.albums : q.id # x.left)
      /\ ArtistOf(x) \subseteq ArtistClaims /\ AlbumOf(x) \subseteq AlbumClaims
      /\ (a \in Committers <=> a \notin Editors)
  BY TxFacts, OnlyOneKind
<1>2. x.track \in Tracks /\ x.track \notin x.done
  BY <1>1 DEF StepInv
<1>3. CASE a \in Editors
  <2> DEFINE y == Put(x, "done", w)
  <2>1. tx' = [tx EXCEPT ![a] = y]
    <3>1. Proj!To(a, x, "done", w)
      BY <1>3, Zenon DEF Proj!Done
    <3> QED
      BY <3>1, ToPuts
  <2>2. Keeps(y, x, {"step", "work"}) /\ y.step = "done" /\ y.work = w
    BY <1>1, PutFields
  <2> HIDE DEF y
  <2>3. /\ DOMAIN y = TxFields /\ y.saved = x.saved /\ y.track = x.track /\ y.patch = x.patch
        /\ y.artist = x.artist /\ y.album = x.album /\ y.previous = x.previous
        /\ y.left = x.left /\ y.done = x.done /\ y.target = x.target
    BY <2>2, KeptFields
  <2>4. TxShaped(y)
    BY <1>1, <2>2, <2>3 DEF TxShaped, GoodWork
  <2>5. StepInv(y, album, row)
    BY <1>2, <2>2, <2>3 DEF StepInv
  <2>6. EditStep(y, row)
    BY <1>1, <1>3, <2>2, <2>3 DEF EditStep
  <2>7. ActorInv(a, y, artist, album, row)
    <3>1. WorkInv(x.saved, x.done, artist, album, row)
      BY DEF ProjInv, ActorInv
    <3>2. Written(y) = D
      BY <2>2, <2>3 DEF Written
    <3>3. WorkInv(w, D, artist, album, row) /\ SavedWithin(x.saved, w, x.done)
      BY DEF GoodWork
    <3> HIDE DEF x, D
    <3> QED
      BY <1>1, <1>3, <2>2, <2>3, <2>5, <2>6, <3>1, <3>2, <3>3 DEF ActorInv
  <2>8. \A b \in ProjActors \ {a} : Aside(y, tx[b])
    BY <1>1, <2>2, <2>3 DEF Aside, GoodWork
  <2>9. ArtistsOf(y) \subseteq ArtistClaims \union Claimed(None) /\ AlbumsOf(y) \subseteq AlbumClaims \union Claimed(None)
    <3>1. ArtistsOfWork(x.saved) \subseteq ArtistClaims /\ AlbumsOfWork(x.saved) \subseteq AlbumClaims
      BY DEF ArtistClaims, ArtistsOf, AlbumClaims, AlbumsOf
    <3>2. ArtistOf(y) = ArtistOf(x) /\ AlbumOf(y) = AlbumOf(x)
      BY <2>3 DEF ArtistOf, AlbumOf
    <3> HIDE DEF x
    <3> QED
      BY <1>1, <2>2, <2>3, <3>1, <3>2 DEF ArtistsOf, AlbumsOf, GoodWork
  <2> HIDE DEF x
  <2> QED
    BY <1>1, <1>3, <2>1, <2>4, <2>7, <2>8, <2>9, LocalStep
<1>4. CASE a \in Committers
  <2> DEFINE v == Proj!Resolved(x, w, Proj!scanAlbumCacheKey(a))
             z == Kept(x, v)
             y == Put(z, "next", v)
  <2>1. tx' = [tx EXCEPT ![a] = y]
    <3>1. a \notin Editors
      BY <1>1, <1>4
    <3>2. Proj!To(a, z, "next", v)
      BY <3>1, Zenon DEF Proj!Done, Kept
    <3> QED
      BY <3>2, ToPuts
  <2>2. GoodWork(a, v, D, None, None)
    BY ResolvedGood
  <2> HIDE DEF v
  <2>3. Keeps(z, x, {"saved", "track", "done"}) /\ z.saved = v /\ z.track = None /\ z.done = D /\ DOMAIN z = TxFields
    BY <1>1 DEF Kept, Keeps, TxFields
  <2> HIDE DEF z
  <2>4. Keeps(y, z, {"step", "work"}) /\ y.step = "next" /\ y.work = v
    BY <2>3, PutFields
  <2> HIDE DEF y
  <2>5. /\ DOMAIN y = TxFields /\ y.saved = v /\ y.track = None /\ y.patch = x.patch
        /\ y.artist = x.artist /\ y.album = x.album /\ y.previous = x.previous
        /\ y.left = x.left /\ y.done = D /\ y.target = x.target /\ y.raw = x.raw
    BY <2>3, <2>4, KeptFields
  <2>6. TxShaped(y)
    BY <1>1, <1>2, <2>2, <2>4, <2>5 DEF TxShaped, GoodWork
  <2>7. StepInv(y, album, row)
    BY <2>4, <2>5 DEF StepInv
  <2>8. ScanStep(y, row)
    BY <1>1, <1>4, <2>4, <2>5, ProjectionAssumption DEF ScanStep
  <2>9. ActorInv(a, y, artist, album, row)
    <3>1. Written(y) = D
      BY <2>4, <2>5 DEF Written
    <3>2. SavedWithin(v, v, D)
      BY DEF SavedWithin
    <3>3. WorkInv(v, D, artist, album, row)
      BY <2>2 DEF GoodWork
    <3> HIDE DEF x, D
    <3> QED
      BY <1>1, <1>4, <2>4, <2>5, <2>7, <2>8, <3>1, <3>2, <3>3 DEF ActorInv
  <2>10. \A b \in ProjActors \ {a} : Aside(y, tx[b])
    BY <1>1, <2>2, <2>4, <2>5 DEF Aside, GoodWork
  <2>11. ArtistsOf(y) \subseteq ArtistClaims \union Claimed(None) /\ AlbumsOf(y) \subseteq AlbumClaims \union Claimed(None)
    <3>1. ArtistOf(y) = ArtistOf(x) /\ AlbumOf(y) = AlbumOf(x)
      BY <2>5 DEF ArtistOf, AlbumOf
    <3> HIDE DEF x
    <3> QED
      BY <1>1, <2>2, <2>4, <2>5, <3>1 DEF ArtistsOf, AlbumsOf, GoodWork
  <2>12. \A b \in Committers \ {a} : Busy(y) \intersect Busy(tx[b]) = {}
    <3>1. Busy(y) = Busy(x)
      BY <2>5 DEF Busy
    <3> QED
      BY <1>4, <3>1 DEF ProjInv
  <2> HIDE DEF x
  <2> QED
    BY <1>1, <2>1, <2>6, <2>9, <2>10, <2>11, <2>12, LocalStep
<1> QED
  BY <1>3, <1>4 DEF ProjActors

\* What a scan and an edit write of a track.
LEMMA UpsertFields ==
    ASSUME NEW a, NEW s, s = Proj!Seen(a, tx[a].track), RowShaped(s), tx[a].raw \in Meta, NEW r,
           r = Proj!upsertScanTrack(a)
    PROVE  /\ DOMAIN r = RowFields /\ r.there /\ r.artist = tx[a].artist /\ r.album = tx[a].album
           /\ r.raw = tx[a].raw /\ r.overrides = s.overrides /\ r.lyrics \in Texts
           /\ "lyrics" \in DOMAIN s.overrides => r.lyrics = s.lyrics
<1> DEFINE x == tx[a]
           p == Proj!recordScanMetadata(s, x)
           l == Proj!syncScannedLyrics(s, x)
<1>1. DOMAIN p = RowFields /\ p.overrides = s.overrides /\ p.raw = x.raw
  BY DEF Proj!recordScanMetadata, RowShaped, RowFields
<1>2. x.raw.lyrics \in Texts
  BY DEF Meta, Fields
<1>3. l.text \in Texts /\ ("lyrics" \in DOMAIN s.overrides => l.text = s.lyrics)
  BY <1>2 DEF Proj!syncScannedLyrics, Proj!syncNewScannedLyrics, RowShaped
<1>4. r = [p EXCEPT !.there = TRUE, !.artist = x.artist, !.album = x.album, !.lyrics = l.text, !.origin = l.origin]
  BY Zenon DEF Proj!upsertScanTrack
<1> HIDE DEF p, l
<1> QED
  BY <1>1, <1>3, <1>4 DEF RowFields

LEMMA ProjectFields ==
    ASSUME NEW a, NEW s, s = Proj!Seen(a, tx[a].track), RowShaped(s), tx[a].target \in Meta, NEW r,
           r = Proj!projectMetadata(a)
    PROVE  /\ DOMAIN r = RowFields /\ r.there = s.there /\ r.artist = tx[a].artist /\ r.album = tx[a].album
           /\ r.raw = s.raw /\ r.overrides = Proj!UpdateMetadataOverrides(s.overrides, tx[a].patch)
           /\ r.lyrics \in Texts /\ (tx[a].target.lyrics # None => r.lyrics = tx[a].target.lyrics)
<1> DEFINE x == tx[a]
           g == IF a \in Editors THEN "SCRAPED" ELSE "MANUAL"
           l == Proj!projectLyrics(s, x, g)
           o == Proj!UpdateMetadataOverrides(s.overrides, x.patch)
<1>1. x.target.lyrics \in Texts
  BY DEF Meta, Fields
<1>2. l.text \in Texts /\ (x.target.lyrics # None => l.text = x.target.lyrics)
  BY <1>1 DEF Proj!projectLyrics, RowShaped, Texts
<1>3. r = [s EXCEPT !.artist = x.artist, !.album = x.album, !.overrides = o,
                    !.lyrics = l.text, !.origin = l.origin, !.version = @ + 1]
  BY Zenon DEF Proj!projectMetadata
<1> HIDE DEF l, o, x
<1>4. DOMAIN s = RowFields
  BY DEF RowShaped
<1>5. /\ DOMAIN r = RowFields /\ r.there = s.there /\ r.artist = x.artist /\ r.album = x.album
      /\ r.raw = s.raw /\ r.overrides = o /\ r.lyrics = l.text
  BY <1>3, <1>4 DEF RowFields
<1> QED
  BY <1>2, <1>5 DEF o, x

\* What a transaction sees of a track.
LEMMA SeenFits ==
    ASSUME ProjInv, NEW a \in ProjActors, NEW t \in Tracks, NEW s, s = RowIn(row, tx[a].work, t)
    PROVE  /\ s.raw # None =>
                /\ s.there
                /\ "lyrics" \in DOMAIN s.overrides /\ Says(s).lyrics # None => s.lyrics = Says(s).lyrics
                /\ \E q \in artist \union tx[a].work.artists : q.id = s.artist /\ q.name = Says(s).artist
           /\ s.raw = None => s.overrides = Proj!Empty
<1>1. CASE t \in DOMAIN tx[a].work.rows
  <2>1. RowWritten(tx[a].work, t, Written(tx[a]), artist, album, row)
    BY <1>1 DEF ProjInv, ActorInv, WorkInv
  <2>2. s = tx[a].work.rows[t]
    BY <1>1 DEF RowIn
  <2> QED
    BY <2>1, <2>2 DEF RowWritten, Fits
<1>2. CASE t \notin DOMAIN tx[a].work.rows
  <2>1. s = row[t]
    BY <1>2 DEF RowIn
  <2> QED
    BY <2>1 DEF ProjInv, Committed, Fits, Untagged
<1> QED
  BY <1>1, <1>2

LEMMA WrittenSays ==
    ASSUME ProjInv, NEW a \in ProjActors, tx[a].step = "track", NEW r,
           r = IF a \in Committers THEN Proj!upsertScanTrack(a) ELSE Proj!projectMetadata(a)
    PROVE  /\ RowShaped(r) /\ r.raw # None /\ r.there
           /\ r.artist = tx[a].artist /\ r.album = tx[a].album
           /\ Says(r) = tx[a].target
           /\ "lyrics" \in DOMAIN r.overrides /\ Says(r).lyrics # None => r.lyrics = Says(r).lyrics
<1> DEFINE x == tx[a]
           s == RowIn(row, x.work, x.track)
<1>1. TxShaped(x) /\ StepInv(x, album, row)
      /\ (a \in Committers => ScanStep(x, row)) /\ (a \in Editors => EditStep(x, row))
      /\ (a \in Committers <=> a \notin Editors)
  BY TxFacts, OnlyOneKind
<1>2. x.track \in Tracks /\ x.target \in Meta /\ x.artist \in MaybeId /\ x.album \in MaybeId /\ IsOverride(x.patch)
  BY <1>1 DEF StepInv, TxShaped
<1>3. s = Proj!Seen(a, x.track) /\ RowShaped(s)
  BY <1>2, SeenRow
<1>4. /\ s.raw # None => s.there
      /\ s.raw # None => ("lyrics" \in DOMAIN s.overrides /\ Says(s).lyrics # None => s.lyrics = Says(s).lyrics)
      /\ s.raw = None => s.overrides = Proj!Empty
  BY <1>2, SeenFits
<1>5. CASE a \in Committers
  <2>1. x.raw \in Meta /\ x.target = Proj!ApplyMetadataOverrides(x.raw, s.overrides)
    BY <1>1, <1>5 DEF ScanStep
  <2>2. r = Proj!upsertScanTrack(a)
    BY <1>5
  <2> HIDE DEF s
  <2>3. /\ DOMAIN r = RowFields /\ r.there /\ r.artist = x.artist /\ r.album = x.album
        /\ r.raw = x.raw /\ r.overrides = s.overrides /\ r.lyrics \in Texts
        /\ "lyrics" \in DOMAIN s.overrides => r.lyrics = s.lyrics
    BY <1>3, <2>1, <2>2, UpsertFields
  <2>4. Says(r) = x.target
    BY <2>1, <2>3 DEF Says
  <2>5. ASSUME "lyrics" \in DOMAIN s.overrides
        PROVE  s.raw # None /\ Says(s).lyrics = x.target.lyrics
    <3>1. s.raw # None
      BY <2>5, <1>4 DEF Proj!Empty
    <3>2. \A m : Proj!ApplyMetadataOverrides(m, s.overrides).lyrics = s.overrides.lyrics
      BY <2>5 DEF Proj!ApplyMetadataOverrides, Proj!Over
    <3> QED
      BY <3>1, <3>2, <2>1 DEF Says
  <2>6. RowShaped(r) /\ r.raw # None
    BY <1>2, <1>3, <2>1, <2>3, ProjectionAssumption DEF RowShaped, Meta
  <2> HIDE DEF x
  <2> QED
    BY <1>4, <2>3, <2>4, <2>5, <2>6 DEF x
<1>6. CASE a \notin Committers
  <2>1. row[x.track].raw # None /\ x.work.rows = Proj!Empty
        /\ x.target = Proj!ApplyMetadataOverrides(row[x.track].raw,
                            Proj!UpdateMetadataOverrides(row[x.track].overrides, x.patch))
    BY <1>1, <1>6 DEF EditStep
  <2>2. s = row[x.track]
    BY <2>1 DEF RowIn, Proj!Empty
  <2>3. r = Proj!projectMetadata(a)
    BY <1>6
  <2> HIDE DEF s
  <2>4. /\ DOMAIN r = RowFields /\ r.there = s.there /\ r.artist = x.artist /\ r.album = x.album
        /\ r.raw = s.raw /\ r.overrides = Proj!UpdateMetadataOverrides(s.overrides, x.patch)
        /\ r.lyrics \in Texts /\ (x.target.lyrics # None => r.lyrics = x.target.lyrics)
    BY <1>2, <1>3, <2>3, ProjectFields
  <2>5. Says(r) = x.target
    BY <2>1, <2>2, <2>4 DEF Says
  <2>6. IsOverride(r.overrides)
    BY <1>2, <1>3, <2>4, OverOverride DEF RowShaped
  <2>7. RowShaped(r) /\ r.raw # None
    BY <1>2, <1>3, <2>1, <2>2, <2>4, <2>6 DEF RowShaped
  <2> HIDE DEF x
  <2> QED
    BY <1>4, <2>1, <2>2, <2>4, <2>5, <2>7 DEF x
<1> QED
  BY <1>5, <1>6

\* The row refers to the artist and the album that were resolved.
LEMMA WrittenFits ==
    ASSUME ProjInv, NEW a \in ProjActors, tx[a].step = "track", NEW o, ~o, NEW r,
           \E q \in Proj!Artists(a) : q.id = tx[a].artist,
           r = IF a \in Committers THEN Proj!upsertScanTrack(a) ELSE Proj!projectMetadata(a)
    PROVE  Fits(r, o, artist \union tx[a].work.artists, AlbumsIn(album, tx[a].work))
<1> DEFINE x == tx[a]
<1>1. TxShaped(x) /\ StepInv(x, album, row) /\ ArtistOf(x) \subseteq ArtistClaims /\ AlbumOf(x) \subseteq AlbumClaims
  BY TxFacts
<1>2. r.artist = x.artist /\ r.album = x.album /\ Says(r) = x.target
      /\ ("lyrics" \in DOMAIN r.overrides /\ Says(r).lyrics # None => r.lyrics = Says(r).lyrics)
  BY WrittenSays
<1>3. Functional(ArtistClaims) /\ Functional(AlbumClaims)
  BY DEF ProjInv
<1>4. \E q \in artist \union x.work.artists : q.id = x.artist /\ q.name = x.target.artist
  <2>1. PICK q \in Proj!Artists(a) : q.id = x.artist
    OBVIOUS
  <2>2. <<q.id, q.name>> \in ArtistClaims /\ q \in artist \union x.work.artists
    BY <2>1, ArtistsSeen
  <2>3. <<x.artist, x.target.artist>> \in ArtistClaims
    BY <1>1 DEF ArtistOf, StepInv
  <2>4. q.name = x.target.artist
    BY <1>3, <2>1, <2>2, <2>3 DEF Functional
  <2> QED
    BY <2>1, <2>2, <2>4
<1>5. ASSUME x.album # None
      PROVE  \E q \in AlbumsIn(album, x.work) : q.id = x.album /\ q.title = x.target.album /\ q.artist = x.artist
  <2>1. PICK q \in AlbumsIn(album, x.work) : q.id = x.album
    BY <1>1, <1>5 DEF StepInv, Usable
  <2>2. <<q.id, <<q.title, q.artist>>>> \in AlbumClaims
    BY <2>1, AlbumsSeen
  <2>3. <<x.album, <<x.target.album, x.artist>>>> \in AlbumClaims
    BY <1>1, <1>5 DEF AlbumOf
  <2>4. <<q.title, q.artist>> = <<x.target.album, x.artist>>
    BY <1>3, <2>1, <2>2, <2>3 DEF Functional
  <2> QED
    BY <2>1, <2>4
<1>6. x.album = None <=> x.target.album = None
  BY <1>1 DEF StepInv
<1> HIDE DEF x
<1> QED
  BY <1>2, <1>4, <1>5, <1>6 DEF Fits, x

LaidOn(v, w, t, r) ==
    /\ v.held = w.held /\ v.artists = w.artists /\ v.albums = w.albums
    /\ v.dropped = w.dropped /\ v.known = w.known /\ v.orphans = w.orphans \ {t}
    /\ DOMAIN v.rows = DOMAIN w.rows \union {t}
    /\ \A k \in DOMAIN v.rows : v.rows[k] = IF k = t THEN r ELSE w.rows[k]
RowReady(w, t, r, A, L, R) ==
    /\ Lock("track", t) \in w.held /\ r.raw # None /\ r.there
    /\ r.album # None => Usable(w, r.album, L)
    /\ Lock("meta", t) \in w.held \/ R[t] = Proj!NoRow

LEMMA RowLaid ==
    ASSUME NEW A, NEW L, NEW R, NEW D, NEW w, NEW v, NEW t \in Tracks, NEW r, WorkInv(w, D, A, L, R),
           LaidOn(v, w, t, r), RowReady(w, t, r, A, L, R),
           Fits(r, t \in v.orphans, A \union w.artists, AlbumsIn(L, w))
    PROVE  WorkInv(v, D \union {t}, A, L, R)
<1>1. \A n : Usable(w, n, L) <=> Usable(v, n, L)
  BY DEF Usable, AlbumsIn, LaidOn
<1>2. AlbumsIn(L, v) = AlbumsIn(L, w)
  BY DEF AlbumsIn, LaidOn
<1>3. \A k \in DOMAIN v.rows : RowWritten(v, k, D \union {t}, A, L, R)
  <2> SUFFICES ASSUME NEW k \in DOMAIN v.rows
               PROVE  RowWritten(v, k, D \union {t}, A, L, R)
    OBVIOUS
  <2>1. CASE k = t
    <3>1. v.rows[k] = r
      BY <2>1 DEF LaidOn
    <3> QED
      BY <2>1, <3>1, <1>1, <1>2 DEF RowWritten, LaidOn, RowReady
  <2>2. CASE k # t
    <3>1. RowWritten(w, k, D, A, L, R) /\ v.rows[k] = w.rows[k]
      BY <2>2 DEF WorkInv, LaidOn
    <3>2. (k \in v.orphans) = (k \in w.orphans)
      BY <2>2 DEF LaidOn
    <3> QED
      BY <3>1, <3>2, <1>1, <1>2 DEF RowWritten, LaidOn
  <2> QED
    BY <2>1, <2>2
<1>4. \A k \in Tracks : RowIn(R, v, k).album \notin v.dropped
  <2> SUFFICES ASSUME NEW k \in Tracks
               PROVE  RowIn(R, v, k).album \notin v.dropped
    OBVIOUS
  <2>1. CASE k = t
    <3>1. RowIn(R, v, k) = r
      BY <2>1 DEF RowIn, LaidOn
    <3>2. r.album # None => r.album \notin w.dropped
      BY DEF Usable, AlbumsIn, RowReady
    <3>3. None \notin w.dropped
      BY DEF WorkInv
    <3> QED
      BY <3>1, <3>2, <3>3 DEF LaidOn
  <2>2. CASE k # t
    <3>1. RowIn(R, v, k) = RowIn(R, w, k)
      BY <2>2 DEF RowIn, LaidOn
    <3> QED
      BY <3>1 DEF WorkInv, LaidOn
  <2> QED
    BY <2>1, <2>2
<1> QED
  BY <1>1, <1>3, <1>4 DEF WorkInv, LaidOn

Laid(w, t, r) == [w EXCEPT !.rows = Proj!Over([k \in {t} |-> r], @), !.orphans = @ \ {t}]

LEMMA LaidGood ==
    ASSUME ProjInv, NEW a \in ProjActors, Proj!At(a, "track"), NEW r,
           \E q \in Proj!Artists(a) : q.id = tx[a].artist,
           r = IF a \in Committers THEN Proj!upsertScanTrack(a) ELSE Proj!projectMetadata(a)
    PROVE  LET v == Laid(Proj!Locked(a), tx[a].track, r)
           IN  /\ GoodWork(a, v, tx[a].done \union {tx[a].track}, None, None)
               /\ tx[a].album # None => Usable(v, tx[a].album, album)
               /\ v.known = tx[a].work.known /\ v.albums = tx[a].work.albums /\ v.dropped = tx[a].work.dropped
<1> DEFINE x == tx[a]
           t == x.track
           l == Proj!Locked(a)
           v == Laid(l, t, r)
<1>1. GoodWork(a, l, Written(x), None, None) /\ l.held = x.work.held \union Proj!Wants(a)
      /\ l.artists = x.work.artists /\ l.albums = x.work.albums /\ l.dropped = x.work.dropped
      /\ l.orphans = x.work.orphans /\ l.rows = x.work.rows /\ l.known = x.work.known
  BY LockedGood
<1>2. x.step = "track" /\ Written(x) = x.done
  BY Unblocked DEF Written
<1>3. TxShaped(x) /\ StepInv(x, album, row)
      /\ (a \in Committers => ScanStep(x, row)) /\ (a \in Editors => EditStep(x, row))
      /\ (a \in Committers <=> a \notin Editors)
  BY TxFacts, OnlyOneKind
<1>4. t \in Tracks /\ t \notin x.done /\ (x.album # None => Usable(x.work, x.album, album))
  BY <1>2, <1>3 DEF StepInv
<1>5. RowShaped(r) /\ r.raw # None /\ r.there /\ r.artist = x.artist /\ r.album = x.album
  BY <1>2, WrittenSays
<1>6. DOMAIN l = WorkFields /\ WorkShaped(l)
  BY <1>1 DEF GoodWork, WorkShaped
<1>7. /\ DOMAIN v = WorkFields /\ v.held = l.held /\ v.artists = l.artists /\ v.albums = l.albums
      /\ v.dropped = l.dropped /\ v.orphans = l.orphans \ {t} /\ v.known = l.known
      /\ v.rows = Proj!Over([k \in {t} |-> r], l.rows)
  <2> HIDE DEF l
  <2> QED
    BY <1>6 DEF Laid, WorkFields
<1> HIDE DEF v
<1>8. /\ DOMAIN v.rows = DOMAIN l.rows \union {t}
      /\ \A k \in DOMAIN v.rows : v.rows[k] = IF k = t THEN r ELSE l.rows[k]
  BY <1>7 DEF Proj!Over
<1>9. Fits(r, t \in v.orphans, artist \union l.artists, AlbumsIn(album, l))
  <2>1. ~(t \in v.orphans)
    BY <1>7
  <2>2. Fits(r, t \in v.orphans, artist \union x.work.artists, AlbumsIn(album, x.work))
    BY <1>2, <2>1, WrittenFits
  <2>3. AlbumsIn(album, l) = AlbumsIn(album, x.work)
    BY <1>1 DEF AlbumsIn
  <2> QED
    BY <1>1, <2>2, <2>3
<1>10. x.album # None => Usable(l, x.album, album) /\ Usable(v, x.album, album)
  BY <1>1, <1>4, <1>7 DEF Usable, AlbumsIn
<1>11. Lock("track", t) \in l.held
  BY <1>1, <1>2 DEF Proj!Wants, Lock
<1>12. Lock("meta", t) \in l.held \/ row[t] = Proj!NoRow
  BY <1>1, <1>2, <1>3 DEF ScanStep, EditStep, ProjActors
<1>13. WorkInv(v, x.done \union {t}, artist, album, row)
  <2>1. WorkInv(l, x.done, artist, album, row)
    BY <1>1, <1>2 DEF GoodWork
  <2>2. r.album # None => Usable(l, r.album, album)
    BY <1>5, <1>10
  <2>3. LaidOn(v, l, t, r)
    BY <1>7, <1>8 DEF LaidOn
  <2>4. RowReady(l, t, r, artist, album, row)
    BY <1>5, <1>11, <1>12, <2>2 DEF RowReady
  <2> HIDE DEF x, t, l
  <2> QED
    BY <1>4, <1>9, <2>1, <2>3, <2>4, RowLaid
<1>14. WorkShaped(v)
  <2> HIDE DEF l, x
  <2> QED
    BY <1>4, <1>5, <1>6, <1>7, <1>8 DEF WorkShaped
<1>15. SavedWithin(x.saved, v, x.done)
  <2>1. SavedWithin(x.saved, l, x.done)
    BY <1>1 DEF GoodWork
  <2> HIDE DEF l, x, t
  <2> QED
    BY <1>4, <1>7, <1>8, <2>1 DEF SavedWithin
<1>16. \A b \in ProjActors \ {a} : Beside(v, tx[b].work) /\ \A q \in v.albums : q.id # tx[b].left
  BY <1>1, <1>7 DEF GoodWork, Beside
<1>17. ArtistsOfWork(v) = ArtistsOfWork(l) /\ AlbumsOfWork(v) = AlbumsOfWork(l)
  BY <1>7 DEF ArtistsOfWork, AlbumsOfWork
<1>18. GoodWork(a, v, x.done \union {t}, None, None)
  BY <1>1, <1>13, <1>14, <1>15, <1>16, <1>17 DEF GoodWork
<1> QED
  BY <1>1, <1>7, <1>10, <1>18 DEF v

\* The album that a track is taken from is committed or the transaction's own.
LEMMA SeenAlbum ==
    ASSUME ProjInv, NEW a \in ProjActors, NEW t \in Tracks, NEW n, n = RowIn(row, tx[a].work, t).album, n # None
    PROVE  \A b \in ProjActors \ {a} : \A q \in tx[b].work.albums : q.id # n
<1>1. \E p \in album \union tx[a].work.albums : p.id = n
  <2>1. CASE t \in DOMAIN tx[a].work.rows
    <3>1. RowWritten(tx[a].work, t, Written(tx[a]), artist, album, row)
      BY <2>1 DEF ProjInv, ActorInv, WorkInv
    <3> QED
      BY <2>1, <3>1 DEF RowWritten, Usable, AlbumsIn, RowIn
  <2>2. CASE t \notin DOMAIN tx[a].work.rows
    <3>1. n = row[t].album
      BY <2>2 DEF RowIn
    <3>2. row[t].raw # None => \E p \in album : p.id = n
      BY <3>1 DEF ProjInv, Committed, Fits
    <3>3. row[t].raw = None => \E p \in album : p.id = n
      BY <3>1 DEF ProjInv, Committed, Untagged, Stands, Proj!NoRow
    <3> QED
      BY <3>2, <3>3
  <2> QED
    BY <2>1, <2>2
<1>2. ASSUME NEW b \in ProjActors \ {a}, NEW q \in tx[b].work.albums
      PROVE  q.id # n
  <2>1. \A r \in album : r.id # q.id
    BY DEF ProjInv, ActorInv, WorkInv
  <2>2. \A r \in tx[a].work.albums : r.id # q.id
    BY DEF ProjInv, Aside, Beside
  <2> QED
    BY <1>1, <2>1, <2>2
<1> QED
  BY <1>2

LEMMA WriteTrackKeeps ==
    ASSUME ProjInv, NEW a \in ProjActors, Proj!WriteTrack(a)
    PROVE  ProjInv'
<1> DEFINE x == tx[a]
           t == x.track
           l == Proj!Locked(a)
           r == IF a \in Committers THEN Proj!upsertScanTrack(a) ELSE Proj!projectMetadata(a)
           v == Laid(l, t, r)
           n == Proj!Seen(a, t).album
           z == [x EXCEPT !.left = n]
           y == Put(z, "leave", v)
<1>1. Proj!At(a, "track") /\ x.step = "track" /\ \E q \in Proj!Artists(a) : q.id = x.artist
  BY Unblocked DEF Proj!WriteTrack
<1>2. UNCHANGED <<file, artist, album, row, known, orphaned>>
  BY DEF Proj!WriteTrack, Proj!Uncommitted
<1>3. Proj!Done(a, x, v) \/ (n \notin {None, x.album} /\ Proj!To(a, z, "leave", v))
  BY Zenon DEF Proj!WriteTrack, Laid
<1>4. GoodWork(a, v, x.done \union {t}, None, None)
      /\ (x.album # None => Usable(v, x.album, album))
  BY <1>1, LaidGood
<1> HIDE DEF v
<1>5. TxShaped(x) /\ DOMAIN x = TxFields /\ StepInv(x, album, row)
      /\ (a \in Committers => ScanStep(x, row)) /\ (a \in Editors => EditStep(x, row))
      /\ ArtistOf(x) \subseteq ArtistClaims /\ AlbumOf(x) \subseteq AlbumClaims
  BY TxFacts
<1>6. t \in Tracks /\ t \notin x.done
  BY <1>1, <1>5 DEF StepInv
<1>7. CASE Proj!Done(a, x, v)
  <2>1. /\ MemoryShaped(known') /\ KnownArtists(known'.artists) \subseteq ArtistClaims
        /\ KnownAlbums(known'.albums) \subseteq AlbumClaims
    BY <1>2 DEF ProjInv, ProjTypes, ArtistClaims, AlbumClaims
  <2> QED
    BY <1>1, <1>2, <1>4, <1>7, <2>1, DoneKeeps
<1>8. CASE n \notin {None, x.album} /\ Proj!To(a, z, "leave", v)
  <2>1. tx' = [tx EXCEPT ![a] = y]
    BY <1>8, ToPuts
  <2>2. n = RowIn(row, x.work, t).album /\ n \in MaybeId
    BY <1>6, SeenRow DEF RowShaped
  <2>3. \A b \in ProjActors \ {a} : \A q \in tx[b].work.albums : q.id # n
    BY <1>6, <1>8, <2>2, SeenAlbum
  <2> HIDE DEF n
  <2>4. Keeps(z, x, {"left"}) /\ z.left = n /\ DOMAIN z = TxFields
    BY <1>5 DEF Keeps, TxFields
  <2> HIDE DEF z
  <2>5. Keeps(y, z, {"step", "work"}) /\ y.step = "leave" /\ y.work = v
    BY <2>4, PutFields
  <2> HIDE DEF y
  <2>6. /\ DOMAIN y = TxFields /\ y.saved = x.saved /\ y.track = x.track /\ y.patch = x.patch
        /\ y.artist = x.artist /\ y.album = x.album /\ y.previous = x.previous
        /\ y.left = n /\ y.done = x.done /\ y.target = x.target /\ y.raw = x.raw
    BY <2>4, <2>5, KeptFields
  <2>7. TxShaped(y)
    BY <1>4, <1>5, <2>2, <2>5, <2>6 DEF TxShaped, GoodWork
  <2>8. StepInv(y, album, row)
    BY <1>1, <1>4, <1>5, <1>8, <2>5, <2>6 DEF StepInv
  <2>9. (a \in Committers => ScanStep(y, row)) /\ (a \in Editors => EditStep(y, row))
    BY <1>1, <1>5, <2>5, <2>6 DEF ScanStep, EditStep
  <2>10. GoodWork(a, y.work, Written(y), None, None)
    BY <1>4, <2>5, <2>6 DEF Written
  <2>11. ArtistOf(y) = ArtistOf(x) /\ AlbumOf(y) = AlbumOf(x)
    BY <2>6 DEF ArtistOf, AlbumOf
  <2>12. /\ ArtistOf(y) \subseteq ArtistClaims \union Claimed(None)
         /\ AlbumOf(y) \subseteq AlbumClaims \union Claimed(None)
         /\ \A b \in ProjActors \ {a} : \A q \in tx[b].work.albums : q.id # y.left
    BY <1>5, <2>3, <2>6, <2>11
  <2> HIDE DEF x
  <2> QED
    BY <1>2, <2>1, <2>6, <2>7, <2>8, <2>9, <2>10, <2>12, StepTo DEF x
<1> QED
  BY <1>3, <1>7, <1>8

LEMMA LeaveAlbumKeeps ==
    ASSUME ProjInv, NEW a \in ProjActors, Proj!LeaveAlbum(a)
    PROVE  ProjInv'
<1> DEFINE x == tx[a]
           l == Proj!Locked(a)
           y == Put(x, "drop", l)
<1>1. Proj!At(a, "leave") /\ x.step = "leave"
  BY Unblocked DEF Proj!LeaveAlbum
<1>2. UNCHANGED <<file, artist, album, row, known, orphaned>>
  BY DEF Proj!LeaveAlbum, Proj!Uncommitted
<1>3. \/ Proj!Done(a, x, l)
      \/ (Proj!ShownOn(a, x.left) = {} /\ Proj!To(a, x, "drop", l))
  BY Zenon DEF Proj!LeaveAlbum
<1>4. GoodWork(a, l, x.done \union {x.track}, None, None) /\ l.rows = x.work.rows
      /\ x.work.held \subseteq l.held /\ l.albums = x.work.albums /\ l.dropped = x.work.dropped
  BY <1>1, LockedGood DEF Written
<1> HIDE DEF l
<1>5. TxShaped(x) /\ DOMAIN x = TxFields /\ StepInv(x, album, row)
      /\ (a \in Committers => ScanStep(x, row)) /\ (a \in Editors => EditStep(x, row))
      /\ (\A b \in ProjActors \ {a} : \A q \in tx[b].work.albums : q.id # x.left)
      /\ ArtistOf(x) \subseteq ArtistClaims /\ AlbumOf(x) \subseteq AlbumClaims
  BY TxFacts
<1>6. x.album # None => Usable(l, x.album, album)
  BY <1>1, <1>4, <1>5 DEF StepInv, Usable, AlbumsIn
<1>7. CASE Proj!Done(a, x, l)
  <2>1. /\ MemoryShaped(known') /\ KnownArtists(known'.artists) \subseteq ArtistClaims
        /\ KnownAlbums(known'.albums) \subseteq AlbumClaims
    BY <1>2 DEF ProjInv, ProjTypes, ArtistClaims, AlbumClaims
  <2> QED
    BY <1>1, <1>2, <1>4, <1>6, <1>7, <2>1, DoneKeeps
<1>8. CASE Proj!ShownOn(a, x.left) = {} /\ Proj!To(a, x, "drop", l)
  <2>1. tx' = [tx EXCEPT ![a] = y]
    BY <1>8, ToPuts
  <2>2. Keeps(y, x, {"step", "work"}) /\ y.step = "drop" /\ y.work = l
    BY <1>5, PutFields
  <2> HIDE DEF y
  <2>3. /\ DOMAIN y = TxFields /\ y.saved = x.saved /\ y.track = x.track /\ y.patch = x.patch
        /\ y.artist = x.artist /\ y.album = x.album /\ y.previous = x.previous
        /\ y.left = x.left /\ y.done = x.done /\ y.target = x.target /\ y.raw = x.raw
    BY <2>2, KeptFields
  <2>4. \A t \in Tracks : RowIn(row, l, t).album # x.left
    BY <1>4, <1>8, SeenRow DEF Proj!ShownOn, RowIn
  <2>5. TxShaped(y)
    BY <1>4, <1>5, <2>2, <2>3 DEF TxShaped, GoodWork
  <2>6. StepInv(y, album, row)
    BY <1>1, <1>5, <1>6, <2>2, <2>3, <2>4 DEF StepInv
  <2>7. (a \in Committers => ScanStep(y, row)) /\ (a \in Editors => EditStep(y, row))
    BY <1>1, <1>5, <2>2, <2>3 DEF ScanStep, EditStep
  <2>8. GoodWork(a, y.work, Written(y), None, None)
    BY <1>4, <2>2, <2>3 DEF Written
  <2>9. ArtistOf(y) = ArtistOf(x) /\ AlbumOf(y) = AlbumOf(x)
    BY <2>3 DEF ArtistOf, AlbumOf
  <2>10. /\ ArtistOf(y) \subseteq ArtistClaims \union Claimed(None)
         /\ AlbumOf(y) \subseteq AlbumClaims \union Claimed(None)
         /\ \A b \in ProjActors \ {a} : \A q \in tx[b].work.albums : q.id # y.left
    BY <1>5, <2>3, <2>9
  <2> HIDE DEF x
  <2> QED
    BY <1>2, <2>1, <2>3, <2>5, <2>6, <2>7, <2>8, <2>10, StepTo DEF x
<1> QED
  BY <1>3, <1>7, <1>8

\* Deleting an album takes it away from the tracks that show it.
WithoutAlbum(r) == [r EXCEPT !.album = None]
EmptiedOf(v, w, n, R, S) ==
    /\ v.held = w.held /\ v.artists = w.artists /\ v.albums = w.albums
    /\ v.dropped = w.dropped \union {n} /\ v.orphans = w.orphans \union S
    /\ DOMAIN v.rows = DOMAIN w.rows \union S
    /\ \A k \in DOMAIN v.rows : v.rows[k] = IF k \in S THEN WithoutAlbum(RowIn(R, w, k)) ELSE w.rows[k]
    /\ v.known.albums = Proj!ForgetAlbum(w.known.albums, n)

LEMMA EmptiedRow ==
    ASSUME NEW A, NEW L, NEW R, NEW O, NEW D, NEW w, NEW t \in Tracks, NEW r,
           WorkInv(w, D, A, L, R), Committed(A, L, R, O), Lock("track", t) \in w.held,
           DOMAIN RowIn(R, w, t) = RowFields, RowIn(R, w, t).raw # None,
           r = WithoutAlbum(RowIn(R, w, t))
    PROVE  /\ r.raw # None /\ r.there /\ r.album = None
           /\ SameCore(r, R[t]) \/ (t \in D /\ (Lock("meta", t) \in w.held \/ R[t] = Proj!NoRow))
           /\ \E q \in A \union w.artists : q.id = r.artist /\ q.name = Says(r).artist
           /\ "lyrics" \in DOMAIN r.overrides /\ Says(r).lyrics # None => r.lyrics = Says(r).lyrics
<1> DEFINE p == RowIn(R, w, t)
<1>1. /\ p.there /\ \E q \in A \union w.artists : q.id = p.artist /\ q.name = Says(p).artist
      /\ "lyrics" \in DOMAIN p.overrides /\ Says(p).lyrics # None => p.lyrics = Says(p).lyrics
      /\ SameCore(p, R[t]) \/ (t \in D /\ (Lock("meta", t) \in w.held \/ R[t] = Proj!NoRow))
  <2>1. CASE t \in DOMAIN w.rows
    <3>1. RowWritten(w, t, D, A, L, R) /\ p = w.rows[t]
      BY <2>1 DEF WorkInv, RowIn
    <3> HIDE DEF p
    <3> QED
      BY <3>1 DEF RowWritten, Fits
  <2>2. CASE t \notin DOMAIN w.rows
    <3>1. p = R[t]
      BY <2>2 DEF RowIn
    <3>2. R[t].there /\ Fits(R[t], t \in O, A, L)
      BY <3>1 DEF Committed
    <3> HIDE DEF p
    <3> QED
      BY <3>1, <3>2 DEF SameCore, Fits
  <2> QED
    BY <2>1, <2>2
<1> HIDE DEF p
<1>2. r = [p EXCEPT !.album = None] /\ DOMAIN p = RowFields /\ p.raw # None
  BY DEF p, WithoutAlbum
<1>3. r.there = p.there /\ r.artist = p.artist /\ r.lyrics = p.lyrics /\ r.raw = p.raw
      /\ r.overrides = p.overrides /\ r.album = None
  BY <1>2 DEF RowFields
<1>4. Says(r) = Says(p)
  BY <1>3 DEF Says
<1> QED
  BY <1>1, <1>2, <1>3, <1>4 DEF SameCore

LEMMA AlbumEmptied ==
    ASSUME NEW A, NEW L, NEW R, NEW O, NEW D, NEW w, NEW v, NEW n, NEW S,
           WorkInv(w, D, A, L, R), Committed(A, L, R, O), EmptiedOf(v, w, n, R, S),
           S = {t \in Tracks : RowIn(R, w, t).album = n}, DOMAIN w.rows \subseteq Tracks,
           Lock("row", n) \in w.held, n # None,
           \A t \in S : Lock("track", t) \in w.held /\ RowIn(R, w, t).raw # None /\ DOMAIN RowIn(R, w, t) = RowFields
    PROVE  WorkInv(v, D, A, L, R) /\ \A m : m # n /\ Usable(w, m, L) => Usable(v, m, L)
<1>1. \A m : m # n /\ Usable(w, m, L) => Usable(v, m, L)
  BY DEF Usable, AlbumsIn, EmptiedOf
<1>2. AlbumsIn(L, v) = {q \in AlbumsIn(L, w) : q.id # n}
  BY DEF AlbumsIn, EmptiedOf
<1>3. ASSUME NEW k \in DOMAIN v.rows
      PROVE  RowWritten(v, k, D, A, L, R)
  <2> DEFINE r == v.rows[k]
  <2>1. CASE k \in S
    <3>1. r = WithoutAlbum(RowIn(R, w, k)) /\ k \in Tracks /\ k \in v.orphans
      BY <2>1 DEF EmptiedOf
    <3>2. Lock("track", k) \in w.held /\ RowIn(R, w, k).raw # None /\ DOMAIN RowIn(R, w, k) = RowFields
      BY <2>1
    <3> HIDE DEF r
    <3>3. /\ r.raw # None /\ r.there /\ r.album = None
          /\ SameCore(r, R[k]) \/ (k \in D /\ (Lock("meta", k) \in w.held \/ R[k] = Proj!NoRow))
          /\ \E q \in A \union w.artists : q.id = r.artist /\ q.name = Says(r).artist
          /\ "lyrics" \in DOMAIN r.overrides /\ Says(r).lyrics # None => r.lyrics = Says(r).lyrics
      BY <3>1, <3>2, EmptiedRow
    <3>4. Fits(r, k \in v.orphans, A \union v.artists, AlbumsIn(L, v))
      BY <3>1, <3>3 DEF EmptiedOf, Fits
    <3> QED
      BY <3>2, <3>3, <3>4 DEF RowWritten, EmptiedOf, r
  <2>2. CASE k \notin S
    <3>1. r = w.rows[k] /\ k \in DOMAIN w.rows /\ k \in Tracks
      BY <2>2 DEF EmptiedOf
    <3>6. k \in v.orphans <=> k \in w.orphans
      BY <2>2 DEF EmptiedOf
    <3>2. RowWritten(w, k, D, A, L, R)
      BY <3>1 DEF WorkInv
    <3>3. r.album # n
      BY <2>2, <3>1 DEF RowIn
    <3> HIDE DEF r
    <3>4. Fits(r, k \in v.orphans, A \union v.artists, AlbumsIn(L, v))
      <4>1. Fits(r, k \in w.orphans, A \union w.artists, AlbumsIn(L, w))
        BY <3>1, <3>2 DEF RowWritten
      <4>2. \A q \in AlbumsIn(L, w) : q.id = r.album => q \in AlbumsIn(L, v)
        BY <1>2, <3>3
      <4>3. v.artists = w.artists
        BY DEF EmptiedOf
      <4> QED
        BY <3>6, <4>1, <4>2, <4>3 DEF Fits
    <3>5. r.album # None => Usable(v, r.album, L)
      BY <1>1, <3>1, <3>2, <3>3 DEF RowWritten
    <3> QED
      BY <3>1, <3>2, <3>4, <3>5 DEF RowWritten, EmptiedOf, r
  <2> QED
    BY <2>1, <2>2
<1>4. ASSUME NEW k \in Tracks
      PROVE  RowIn(R, v, k).album \notin v.dropped
  <2>1. CASE k \in S
    <3>1. RowIn(R, v, k) = WithoutAlbum(RowIn(R, w, k))
      BY <2>1 DEF RowIn, EmptiedOf
    <3>2. RowIn(R, v, k).album = None
      BY <2>1, <3>1 DEF RowFields, WithoutAlbum
    <3> QED
      BY <3>2 DEF WorkInv, EmptiedOf
  <2>2. CASE k \notin S
    <3>1. RowIn(R, v, k) = RowIn(R, w, k)
      BY <2>2 DEF RowIn, EmptiedOf
    <3> QED
      BY <2>2, <3>1 DEF WorkInv, EmptiedOf
  <2> QED
    BY <2>1, <2>2
<1>5. \A k \in DOMAIN v.known.albums : Usable(v, v.known.albums[k], L)
  BY <1>1 DEF WorkInv, EmptiedOf, Proj!ForgetAlbum
<1>6. v.orphans \subseteq DOMAIN v.rows
  BY DEF WorkInv, EmptiedOf
<1>7. /\ \A q \in v.albums : q.title # None /\ \A r \in L : r.id # q.id
      /\ \A m \in v.dropped : m # None /\ Lock("row", m) \in v.held
      /\ \A t \in Tracks : Lock("meta", t) \in v.held => R[t].there
  BY DEF WorkInv, EmptiedOf
<1> QED
  BY <1>1, <1>3, <1>4, <1>5, <1>6, <1>7 DEF WorkInv

LEMMA Forgotten ==
    ASSUME NEW f, NEW n, NEW g, g = Proj!ForgetAlbum(f, n)
    PROVE  /\ DOMAIN g \subseteq DOMAIN f /\ \A k \in DOMAIN g : g[k] = f[k]
           /\ KnownAlbums(g) \subseteq KnownAlbums(f)
           /\ IsFiniteSet(DOMAIN f) => IsFiniteSet(DOMAIN g)
<1>1. DOMAIN g \subseteq DOMAIN f /\ \A k \in DOMAIN g : g[k] = f[k]
  BY DEF Proj!ForgetAlbum
<1>2. IsFiniteSet(DOMAIN f) => IsFiniteSet(DOMAIN g)
  BY <1>1, FS_Subset
<1> QED
  BY <1>1, <1>2 DEF KnownAlbums

WithoutOld(a, w, n, S) ==
    [w EXCEPT !.dropped = @ \union {n}, !.orphans = @ \union S,
              !.rows = Proj!Over([t \in S |-> [Proj!Seen(a, t) EXCEPT !.album = None]], @),
              !.known.albums = Proj!ForgetAlbum(@, n)]

LEMMA DroppedGood ==
    ASSUME ProjInv, NEW a \in ProjActors, Proj!At(a, "drop")
    PROVE  LET v == WithoutOld(a, Proj!Locked(a), tx[a].left, Proj!ShownOn(a, tx[a].left))
           IN  /\ GoodWork(a, v, tx[a].done \union {tx[a].track}, None, None)
               /\ tx[a].album # None => Usable(v, tx[a].album, album)
<1> DEFINE x == tx[a]
           n == x.left
           l == Proj!Locked(a)
           S == Proj!ShownOn(a, n)
           v == WithoutOld(a, l, n, S)
           D == x.done \union {x.track}
           g == Proj!ForgetAlbum(l.known.albums, n)
<1>1. GoodWork(a, l, Written(x), None, None) /\ l.held = x.work.held \union Proj!Wants(a)
      /\ l.artists = x.work.artists /\ l.albums = x.work.albums /\ l.dropped = x.work.dropped
      /\ l.orphans = x.work.orphans /\ l.rows = x.work.rows /\ l.known = x.work.known
  BY LockedGood
<1>2. x.step = "drop" /\ Written(x) = D
  BY Unblocked DEF Written
<1>3. TxShaped(x) /\ StepInv(x, album, row)
  BY TxFacts
<1>4. n # None /\ n # x.album /\ (x.album # None => Usable(x.work, x.album, album))
  BY <1>2, <1>3 DEF StepInv
<1>5. DOMAIN l = WorkFields /\ WorkShaped(l) /\ DOMAIN l.rows \subseteq Tracks /\ MemoryShaped(l.known)
  BY <1>1 DEF GoodWork, WorkShaped
<1>6. \A t \in Tracks : Proj!Seen(a, t) = RowIn(row, l, t) /\ RowShaped(RowIn(row, l, t))
                        /\ RowIn(row, l, t) = RowIn(row, x.work, t)
  BY <1>1, SeenRow DEF RowIn
<1>7. S = {t \in Tracks : RowIn(row, l, t).album = n}
  BY <1>6 DEF Proj!ShownOn
<1>8. Lock("row", n) \in l.held /\ \A t \in S : Lock("track", t) \in l.held
  BY <1>1, <1>2 DEF Proj!Wants, Lock
<1>9. \A t \in S : /\ RowIn(row, l, t).raw # None /\ DOMAIN RowIn(row, l, t) = RowFields
  BY <1>2, <1>3, <1>6, <1>7 DEF StepInv, RowShaped
<1>10. /\ DOMAIN v = WorkFields /\ v.held = l.held /\ v.artists = l.artists /\ v.albums = l.albums
       /\ v.dropped = l.dropped \union {n} /\ v.orphans = l.orphans \union S
       /\ v.rows = Proj!Over([t \in S |-> [Proj!Seen(a, t) EXCEPT !.album = None]], l.rows)
       /\ v.known = [l.known EXCEPT !.albums = g]
  <2> HIDE DEF l, S, n
  <2> QED
    BY <1>5 DEF WithoutOld, WorkFields
<1> HIDE DEF v
<1>11. DOMAIN v.known = {"artists", "albums"} /\ v.known.artists = l.known.artists /\ v.known.albums = g
  <2> HIDE DEF g, l
  <2> QED
    BY <1>5, <1>10 DEF MemoryShaped
<1>12. /\ DOMAIN v.rows = DOMAIN l.rows \union S
       /\ \A k \in DOMAIN v.rows : v.rows[k] = IF k \in S THEN WithoutAlbum(RowIn(row, l, k)) ELSE l.rows[k]
  BY <1>6, <1>7, <1>10 DEF Proj!Over, WithoutAlbum
<1> HIDE DEF g, S, l
<1>13. EmptiedOf(v, l, n, row, S)
  BY <1>10, <1>11, <1>12 DEF EmptiedOf, g
<1>14. WorkInv(v, D, artist, album, row) /\ \A m : m # n /\ Usable(l, m, album) => Usable(v, m, album)
  <2>1. WorkInv(l, D, artist, album, row)
    BY <1>1, <1>2 DEF GoodWork
  <2>2. Committed(artist, album, row, orphaned)
    BY DEF ProjInv
  <2>3. \A t \in S : Lock("track", t) \in l.held /\ RowIn(row, l, t).raw # None /\ DOMAIN RowIn(row, l, t) = RowFields
    BY <1>8, <1>9
  <2> HIDE DEF x, n, D
  <2> QED
    BY <1>4, <1>5, <1>7, <1>8, <1>13, <2>1, <2>2, <2>3, AlbumEmptied
<1>15. WorkShaped(v)
  <2>1. /\ DOMAIN g \subseteq DOMAIN l.known.albums /\ \A k \in DOMAIN g : g[k] = l.known.albums[k]
        /\ IsFiniteSet(DOMAIN l.known.albums) => IsFiniteSet(DOMAIN g)
    BY Forgotten DEF g
  <2>2. MemoryShaped(v.known)
    BY <1>5, <1>11, <2>1 DEF MemoryShaped
  <2>3. IsFiniteSet(v.dropped)
    <3>1. IsFiniteSet(l.dropped)
      BY <1>5 DEF WorkShaped
    <3>2. IsFiniteSet(l.dropped \union {n})
      BY <3>1, FS_AddElement
    <3> QED
      BY <1>10, <3>2
  <2>4. \A r : RowShaped(r) => RowShaped(WithoutAlbum(r))
    BY DEF RowShaped, WithoutAlbum, RowFields, MaybeId
  <2>5. S \subseteq Tracks
    BY <1>7
  <2>6. \A k \in DOMAIN v.rows : RowShaped(v.rows[k])
    BY <1>5, <1>6, <1>12, <2>4, <2>5 DEF WorkShaped
  <2> QED
    BY <1>5, <1>10, <1>12, <2>2, <2>3, <2>5, <2>6 DEF WorkShaped
<1>16. SavedWithin(x.saved, v, x.done)
  <2>1. SavedWithin(x.saved, l, x.done)
    BY <1>1 DEF GoodWork
  <2>2. \A k \in DOMAIN l.rows : v.rows[k].artist = l.rows[k].artist
    <3> SUFFICES ASSUME NEW k \in DOMAIN l.rows
                 PROVE  v.rows[k].artist = l.rows[k].artist
      OBVIOUS
    <3>1. CASE k \in S
      <4>1. RowIn(row, l, k) = l.rows[k] /\ k \in DOMAIN v.rows
        BY <1>12 DEF RowIn
      <4>2. v.rows[k] = WithoutAlbum(l.rows[k]) /\ DOMAIN l.rows[k] = RowFields
        BY <1>9, <1>12, <3>1, <4>1
      <4> QED
        BY <4>2 DEF WithoutAlbum, RowFields
    <3>2. CASE k \notin S
      BY <1>12, <3>2
    <3> QED
      BY <3>1, <3>2
  <2> HIDE DEF x
  <2> QED
    BY <1>10, <1>12, <2>1, <2>2 DEF SavedWithin
<1>17. \A b \in ProjActors \ {a} : Beside(v, tx[b].work) /\ \A q \in v.albums : q.id # tx[b].left
  <2>1. \A b \in ProjActors \ {a} : \A q \in tx[b].work.albums : q.id # n
    BY DEF ProjInv, Aside
  <2>2. \A b \in ProjActors \ {a} : Beside(l, tx[b].work) /\ \A q \in l.albums : q.id # tx[b].left
    BY <1>1 DEF GoodWork
  <2> HIDE DEF n
  <2> QED
    BY <1>10, <2>1, <2>2 DEF Beside
<1>18. ArtistsOfWork(v) = ArtistsOfWork(l) /\ AlbumsOfWork(v) \subseteq AlbumsOfWork(l)
  <2>1. KnownAlbums(g) \subseteq KnownAlbums(l.known.albums)
    BY Forgotten DEF g
  <2> QED
    BY <1>10, <1>11, <2>1 DEF ArtistsOfWork, AlbumsOfWork
<1>19. x.album # None => Usable(l, x.album, album)
  BY <1>1, <1>4 DEF Usable, AlbumsIn
<1>20. GoodWork(a, v, D, None, None)
  BY <1>1, <1>14, <1>15, <1>16, <1>17, <1>18 DEF GoodWork
<1> QED
  BY <1>4, <1>14, <1>19, <1>20 DEF v, S, l

LEMMA DeleteAlbumKeeps ==
    ASSUME ProjInv, NEW a \in ProjActors, Proj!deleteAlbumIfEmpty(a)
    PROVE  ProjInv'
<1> DEFINE x == tx[a]
           v == WithoutOld(a, Proj!Locked(a), x.left, Proj!ShownOn(a, x.left))
           g == Proj!ForgetAlbum(known.albums, x.left)
<1>1. Proj!At(a, "drop") /\ x.step = "drop"
  BY Unblocked DEF Proj!deleteAlbumIfEmpty
<1>2. UNCHANGED <<file, artist, album, row, orphaned>>
  BY DEF Proj!deleteAlbumIfEmpty
<1>3. Proj!Done(a, x, v)
  BY Zenon DEF Proj!deleteAlbumIfEmpty, WithoutOld
<1>4. known' = known \/ known' = [known EXCEPT !.albums = g]
  BY Zenon DEF Proj!deleteAlbumIfEmpty
<1>5. GoodWork(a, v, x.done \union {x.track}, None, None)
      /\ (x.album # None => Usable(v, x.album, album))
  BY <1>1, DroppedGood
<1> HIDE DEF v
<1>6. /\ MemoryShaped(known) /\ KnownArtists(known.artists) \subseteq ArtistClaims
      /\ KnownAlbums(known.albums) \subseteq AlbumClaims
  BY DEF ProjInv, ProjTypes, ArtistClaims, AlbumClaims
<1>7. /\ MemoryShaped(known') /\ KnownArtists(known'.artists) \subseteq ArtistClaims
      /\ KnownAlbums(known'.albums) \subseteq AlbumClaims
  <2>1. CASE known' = known
    BY <1>6, <2>1
  <2>2. CASE known' = [known EXCEPT !.albums = g]
    <3>1. /\ DOMAIN g \subseteq DOMAIN known.albums /\ \A k \in DOMAIN g : g[k] = known.albums[k]
          /\ KnownAlbums(g) \subseteq KnownAlbums(known.albums)
          /\ IsFiniteSet(DOMAIN known.albums) => IsFiniteSet(DOMAIN g)
      BY Forgotten
    <3> HIDE DEF g
    <3>2. DOMAIN known' = {"artists", "albums"} /\ known'.artists = known.artists /\ known'.albums = g
      BY <1>6, <2>2 DEF MemoryShaped
    <3> QED
      BY <1>6, <3>1, <3>2 DEF MemoryShaped
  <2> QED
    BY <1>4, <2>1, <2>2
<1> QED
  BY <1>1, <1>2, <1>3, <1>5, <1>7, DoneKeeps

-----------------------------------------------------------------------------
(* Giving up and committing                                                  *)

LEMMA NothingDone ==
    /\ WorkShaped(Proj!NoWork)
    /\ \A A, L, R : WorkInv(Proj!NoWork, {}, A, L, R)
    /\ ArtistsOfWork(Proj!NoWork) = {} /\ AlbumsOfWork(Proj!NoWork) = {}
<1> DEFINE w == Proj!NoWork
           e == Proj!Empty
<1>1. /\ DOMAIN w = WorkFields /\ w.artists = {} /\ w.albums = {} /\ w.dropped = {} /\ w.orphans = {}
      /\ w.rows = e /\ w.held = {} /\ w.known = [artists |-> e, albums |-> e]
  BY DEF Proj!NoWork, WorkFields
<1>2. DOMAIN e = {} /\ IsFiniteSet({})
  BY FS_EmptySet DEF Proj!Empty
<1> HIDE DEF w, e
<1>3. DOMAIN w.known = {"artists", "albums"} /\ w.known.artists = e /\ w.known.albums = e
  BY <1>1
<1>4. MemoryShaped(w.known)
  BY <1>2, <1>3 DEF MemoryShaped
<1>5. WorkShaped(w)
  BY <1>1, <1>2, <1>4 DEF WorkShaped
<1>6. \A A, L, R : WorkInv(w, {}, A, L, R)
  BY <1>1, <1>2, <1>3 DEF WorkInv
<1>7. ArtistsOfWork(w) = {} /\ AlbumsOfWork(w) = {}
  BY <1>1, <1>2, <1>3 DEF ArtistsOfWork, AlbumsOfWork, OwnArtists, OwnAlbums, KnownArtists, KnownAlbums
<1> QED
  BY <1>5, <1>6, <1>7 DEF w

LEMMA IdleFields ==
    LET x == Proj!NoTx
    IN  /\ DOMAIN x = TxFields /\ x.step = "idle" /\ x.work = Proj!NoWork /\ x.saved = Proj!NoWork
        /\ x.track = None /\ x.patch = Proj!Empty /\ x.raw = None /\ x.target = None
        /\ x.previous = None /\ x.artist = None /\ x.album = None /\ x.left = None /\ x.done = {}
BY DEF Proj!NoTx, TxFields

LEMMA IdleGood ==
    /\ TxShaped(Proj!NoTx)
    /\ \A a \in ProjActors : \A A, L, R : ActorInv(a, Proj!NoTx, A, L, R)
    /\ ArtistsOf(Proj!NoTx) = {} /\ AlbumsOf(Proj!NoTx) = {}
    /\ Busy(Proj!NoTx) = {}
    /\ Written(Proj!NoTx) = {}
<1> DEFINE x == Proj!NoTx
           w == Proj!NoWork
<1>1. /\ DOMAIN x = TxFields /\ x.step = "idle" /\ x.work = w /\ x.saved = w
      /\ x.track = None /\ x.patch = Proj!Empty /\ x.previous = None
      /\ x.artist = None /\ x.album = None /\ x.left = None /\ x.done = {}
  BY IdleFields
<1>2. x = Proj!NoTx
  OBVIOUS
<1>3. /\ WorkShaped(w) /\ \A A, L, R : WorkInv(w, {}, A, L, R)
      /\ ArtistsOfWork(w) = {} /\ AlbumsOfWork(w) = {}
  BY NothingDone
<1> HIDE DEF x, w
<1>4. TxShaped(x)
  <2>1. IsOverride(Proj!Empty)
    BY DEF IsOverride, Proj!Empty
  <2> QED
    BY <1>1, <1>3, <2>1 DEF TxShaped, MaybeId
<1>5. Written(x) = {} /\ Busy(x) = {}
  BY <1>1 DEF Written, Busy
<1>6. ASSUME NEW a \in ProjActors, NEW A, NEW L, NEW R
      PROVE  ActorInv(a, x, A, L, R)
  <2>1. StepInv(x, L, R)
    BY <1>1, <1>2 DEF StepInv
  <2>2. ScanStep(x, R)
    BY <1>1, ProjectionAssumption DEF ScanStep
  <2>3. EditStep(x, R)
    BY <1>1 DEF EditStep, w
  <2>4. SavedWithin(x.saved, x.work, x.done)
    BY <1>1 DEF SavedWithin
  <2>5. WorkInv(x.work, Written(x), A, L, R) /\ WorkInv(x.saved, x.done, A, L, R)
    BY <1>1, <1>3, <1>5
  <2> QED
    BY <2>1, <2>2, <2>3, <2>4, <2>5 DEF ActorInv
<1>7. ArtistsOf(x) = {} /\ AlbumsOf(x) = {}
  BY <1>1, <1>3 DEF ArtistsOf, AlbumsOf, ArtistOf, AlbumOf
<1> QED
  BY <1>4, <1>5, <1>6, <1>7 DEF x

LEMMA IdleAside ==
    ASSUME NEW y, TxShaped(y)
    PROVE  Aside(Proj!NoTx, y)
<1>1. \A q \in y.work.albums : q.id # None
  BY ProjectionAssumption DEF TxShaped, WorkShaped, AlbumShaped, Identifiers
<1>2. /\ Proj!NoTx.work.albums = {} /\ Proj!NoTx.work.dropped = {}
      /\ Proj!NoTx.work.held = {} /\ Proj!NoTx.left = None
  BY IdleFields DEF Proj!NoWork
<1> QED
  BY <1>1, <1>2 DEF Aside, Beside

LEMMA GivingUpKeeps ==
    ASSUME ProjInv, NEW a \in ProjActors, tx' = [tx EXCEPT ![a] = Proj!NoTx],
           UNCHANGED <<file, artist, album, row, known, orphaned>>
    PROVE  ProjInv'
<1> DEFINE y == Proj!NoTx
<1>1. TxShaped(y) /\ ActorInv(a, y, artist, album, row) /\ ArtistsOf(y) = {} /\ AlbumsOf(y) = {} /\ Busy(y) = {}
  BY IdleGood
<1>2. \A b \in ProjActors \ {a} : Aside(y, tx[b])
  BY IdleAside DEF ProjInv, ProjTypes
<1>3. /\ MemoryShaped(known') /\ KnownArtists(known'.artists) \subseteq ArtistClaims
      /\ KnownAlbums(known'.albums) \subseteq AlbumClaims
  BY DEF ProjInv, ProjTypes, ArtistClaims, AlbumClaims
<1>4. tx' = [tx EXCEPT ![a] = y]
  OBVIOUS
<1>5. ArtistsOf(y) \subseteq ArtistClaims \union Claimed(None) /\ AlbumsOf(y) \subseteq AlbumClaims \union Claimed(None)
  BY <1>1
<1>6. a \in Committers => \A b \in Committers \ {a} : Busy(y) \intersect Busy(tx[b]) = {}
  BY <1>1
<1> HIDE DEF y
<1> QED
  BY <1>1, <1>2, <1>3, <1>4, <1>5, <1>6, LocalStep

LEMMA WorkMore ==
    ASSUME NEW A, NEW L, NEW R, NEW D, NEW E, NEW w, D \subseteq E, WorkInv(w, D, A, L, R)
    PROVE  WorkInv(w, E, A, L, R)
<1>1. \A t \in DOMAIN w.rows : RowWritten(w, t, E, A, L, R)
  BY DEF WorkInv, RowWritten
<1> QED
  BY <1>1 DEF WorkInv

\* A file that fails leaves what the ones before it did.
LEMMA FailsKeeps ==
    ASSUME ProjInv, NEW s \in Committers, Proj!Fails(s)
    PROVE  ProjInv'
<1> DEFINE x == tx[s]
           w == x.saved
           D == x.done \union {x.track}
           z == [x EXCEPT !.track = None, !.done = @ \union {x.track}]
           y == Put(z, "next", w)
<1>1. x.step \notin {"idle", "next"} /\ s \in ProjActors
  BY DEF Proj!Fails, ProjActors
<1>2. UNCHANGED <<file, artist, album, row, known, orphaned>>
  BY DEF Proj!Fails
<1>3. tx' = [tx EXCEPT ![s] = y]
  <2>1. Proj!To(s, z, "next", w)
    BY Zenon DEF Proj!Fails
  <2> QED
    BY <2>1, ToPuts
<1>4. TxShaped(x) /\ DOMAIN x = TxFields /\ StepInv(x, album, row) /\ ScanStep(x, row) /\ s \notin Editors
      /\ ArtistOf(x) \subseteq ArtistClaims /\ AlbumOf(x) \subseteq AlbumClaims
      /\ (\A b \in ProjActors \ {s} : \A q \in tx[b].work.albums : q.id # x.left)
  BY <1>1, TxFacts, OnlyOneKind
<1>5. ActorInv(s, x, artist, album, row) /\ \A b \in ProjActors \ {s} : Aside(x, tx[b])
  BY <1>1 DEF ProjInv
<1>6. x.track \in Tracks
  BY <1>1, <1>4 DEF StepInv
<1>7. Keeps(z, x, {"track", "done"}) /\ z.track = None /\ z.done = D /\ DOMAIN z = TxFields
  BY <1>4 DEF Keeps, TxFields
<1> HIDE DEF z
<1>8. Keeps(y, z, {"step", "work"}) /\ y.step = "next" /\ y.work = w
  BY <1>7, PutFields
<1> HIDE DEF y
<1>9. /\ DOMAIN y = TxFields /\ y.saved = w /\ y.track = None /\ y.patch = x.patch
      /\ y.artist = x.artist /\ y.album = x.album /\ y.previous = x.previous
      /\ y.left = x.left /\ y.done = D /\ y.target = x.target
  BY <1>7, <1>8, KeptFields
<1>10. WorkInv(w, D, artist, album, row)
  <2>1. WorkInv(w, x.done, artist, album, row) /\ x.done \subseteq D
    BY <1>5 DEF ActorInv
  <2> HIDE DEF w, D
  <2> QED
    BY <2>1, WorkMore
<1>11. SavedWithin(w, x.work, x.done)
  BY <1>5 DEF ActorInv
<1>12. TxShaped(y)
  BY <1>4, <1>6, <1>8, <1>9 DEF TxShaped
<1>13. ArtistsOf(y) \subseteq ArtistClaims \union Claimed(None) /\ AlbumsOf(y) \subseteq AlbumClaims \union Claimed(None)
  <2>1. ArtistsOfWork(w) \subseteq ArtistClaims /\ AlbumsOfWork(w) \subseteq AlbumClaims
    BY <1>1 DEF ArtistClaims, ArtistsOf, AlbumClaims, AlbumsOf
  <2>2. ArtistOf(y) = ArtistOf(x) /\ AlbumOf(y) = AlbumOf(x)
    BY <1>9 DEF ArtistOf, AlbumOf
  <2> HIDE DEF x, w
  <2> QED
    BY <1>4, <1>8, <1>9, <2>1, <2>2 DEF ArtistsOf, AlbumsOf
<1>14. \A b \in Committers \ {s} : Busy(y) \intersect Busy(tx[b]) = {}
  <2>1. Busy(y) = Busy(x)
    BY <1>9 DEF Busy
  <2> QED
    BY <2>1 DEF ProjInv
<1> HIDE DEF w
<1>15. ActorInv(s, y, artist, album, row)
  <2>1. StepInv(y, album, row)
    BY <1>8, <1>9 DEF StepInv
  <2>2. ScanStep(y, row)
    BY <1>4, <1>8, <1>9, ProjectionAssumption DEF ScanStep
  <2>3. Written(y) = D
    BY <1>8, <1>9 DEF Written
  <2>4. SavedWithin(w, w, D)
    BY DEF SavedWithin
  <2> HIDE DEF D, x
  <2> QED
    BY <1>4, <1>8, <1>9, <1>10, <2>1, <2>2, <2>3, <2>4 DEF ActorInv
<1>16. \A b \in ProjActors \ {s} : Aside(y, tx[b])
  <2> SUFFICES ASSUME NEW b \in ProjActors \ {s}
               PROVE  Aside(y, tx[b])
    OBVIOUS
  <2>1. Aside(x, tx[b])
    BY <1>5
  <2>2. w.held \subseteq x.work.held /\ w.albums \subseteq x.work.albums /\ w.dropped \subseteq x.work.dropped
    BY <1>11 DEF SavedWithin
  <2> HIDE DEF x
  <2> QED
    BY <1>8, <1>9, <2>1, <2>2 DEF Aside, Beside
<1>17. /\ MemoryShaped(known') /\ KnownArtists(known'.artists) \subseteq ArtistClaims
       /\ KnownAlbums(known'.albums) \subseteq AlbumClaims
  BY <1>2 DEF ProjInv, ProjTypes, ArtistClaims, AlbumClaims
<1> QED
  BY <1>1, <1>2, <1>3, <1>12, <1>13, <1>14, <1>15, <1>16, <1>17, LocalStep

LEMMA CommitTypes ==
    ASSUME ProjTypes, NEW a \in ProjActors, Proj!Store(tx[a].work), tx' = [tx EXCEPT ![a] = Proj!NoTx],
           file' = file, MemoryShaped(known'), tx[a].work.orphans \subseteq DOMAIN tx[a].work.rows
    PROVE  ProjTypes'
<1> DEFINE w == tx[a].work
           Q == orphaned'
<1>1. WorkShaped(w)
  BY DEF ProjTypes, TxShaped
<1>2. /\ artist' = artist \union w.artists /\ album' = AlbumsIn(album, w) /\ row' = Stored(w, row)
      /\ orphaned' = (orphaned \ (DOMAIN w.rows \ w.orphans)) \union w.orphans
  BY DEF Proj!Store, AlbumsIn, Stored
<1>3. IsFiniteSet(artist') /\ \A r \in artist' : ArtistShaped(r)
  <2>1. IsFiniteSet(artist \union w.artists)
    BY <1>1, FS_Union DEF ProjTypes, WorkShaped
  <2> QED
    BY <1>1, <1>2, <2>1 DEF ProjTypes, WorkShaped
<1>4. IsFiniteSet(album') /\ \A r \in album' : AlbumShaped(r)
  <2>1. IsFiniteSet(album \union w.albums)
    BY <1>1, FS_Union DEF ProjTypes, WorkShaped
  <2>2. album' \subseteq album \union w.albums
    BY <1>2 DEF AlbumsIn
  <2>3. IsFiniteSet(album')
    BY <2>1, <2>2, FS_Subset
  <2> QED
    BY <1>1, <2>2, <2>3 DEF ProjTypes, WorkShaped
<1>5. DOMAIN row' = Tracks /\ \A t \in Tracks : RowShaped(row'[t])
  <2>1. DOMAIN row' = Tracks /\ \A t \in Tracks : row'[t] = RowIn(row, w, t)
    BY <1>1, <1>2, StoredRow DEF ProjTypes, WorkShaped
  <2>2. \A t \in Tracks : RowShaped(RowIn(row, w, t))
    BY <1>1 DEF ProjTypes, WorkShaped, RowIn
  <2> QED
    BY <2>1, <2>2
<1>6. DOMAIN tx' = ProjActors /\ \A b \in ProjActors : TxShaped(tx'[b])
  BY IdleGood DEF ProjTypes
<1>7. orphaned' \subseteq Tracks
  BY <1>1, <1>2 DEF ProjTypes, WorkShaped
<1>8. (DOMAIN tx)' = ProjActors /\ (\A b \in ProjActors : TxShaped(tx[b]))' /\ (DOMAIN row)' = Tracks
  BY <1>5, <1>6
<1> HIDE DEF w
<1> QED
  BY <1>3, <1>4, <1>5, <1>6, <1>7, <1>8 DEF ProjTypes

\* Nobody reads a new track beside the transaction that makes it.
LEMMA NobodyElse ==
    ASSUME ProjInv, NEW a \in ProjActors, NEW b \in ProjActors, a # b, b \in Committers,
           tx[b].track \in Tracks, row[tx[b].track] = Proj!NoRow
    PROVE  tx[b].track \notin Written(tx[a])
<1>1. CASE a \in Committers
  <2>1. Busy(tx[a]) \intersect Busy(tx[b]) = {}
    BY <1>1 DEF ProjInv
  <2>2. tx[b].track # None
    BY ProjectionAssumption
  <2> QED
    BY <2>1, <2>2 DEF Busy, Written
<1>2. CASE a \notin Committers
  <2>1. EditStep(tx[a], row)
    BY <1>2, TxFacts, OnlyOneKind
  <2>2. Proj!NoRow.raw = None
    BY DEF Proj!NoRow
  <2> QED
    BY <2>1, <2>2 DEF EditStep, Written
<1> QED
  BY <1>1, <1>2

LEMMA CommitKeeps ==
    ASSUME ProjInv, NEW a \in ProjActors, Proj!Store(tx[a].work), tx' = [tx EXCEPT ![a] = Proj!NoTx],
           file' = file, MemoryShaped(known'), KnownArtists(known'.artists) \subseteq ArtistClaims,
           KnownAlbums(known'.albums) \subseteq AlbumClaims
    PROVE  ProjInv'
<1> DEFINE w == tx[a].work
           D == Written(tx[a])
<1>1. ProjTypes /\ DOMAIN tx = ProjActors /\ DOMAIN row = Tracks /\ WorkShaped(w) /\ DOMAIN w.rows \subseteq Tracks
  BY DEF ProjInv, ProjTypes, TxShaped, WorkShaped
<1>2. WorkInv(w, D, artist, album, row)
  BY DEF ProjInv, ActorInv
<1>3. /\ artist' = artist \union w.artists /\ album' = AlbumsIn(album, w) /\ row' = Stored(w, row)
      /\ orphaned' = (orphaned \ (DOMAIN w.rows \ w.orphans)) \union w.orphans
  BY DEF Proj!Store, AlbumsIn, Stored
<1>4. tx'[a] = Proj!NoTx /\ (\A b \in ProjActors \ {a} : tx'[b] = tx[b])
  BY <1>1
<1>5. ProjTypes'
  <2>1. w.orphans \subseteq DOMAIN w.rows
    BY <1>2 DEF WorkInv
  <2> QED
    BY <1>1, <2>1, CommitTypes
<1>6. Committed(artist', album', row', orphaned')
  <2>1. Committed(artist, album, row, orphaned)
    BY DEF ProjInv
  <2> HIDE DEF w, D
  <2> QED
    BY <1>1, <1>2, <1>3, <2>1, CommittedKept
<1>7. ASSUME NEW b \in ProjActors
      PROVE  ActorInv(b, tx'[b], artist', album', row')
  <2>1. CASE b = a
    BY <1>4, <2>1, IdleGood
  <2>2. CASE b # a
    <3> DEFINE x == tx[b]
    <3>1. tx'[b] = x
      BY <1>4, <2>2
    <3>2. DOMAIN x.work.rows \subseteq Tracks /\ DOMAIN x.saved.rows \subseteq Tracks
      BY <1>1 DEF ProjTypes, TxShaped, WorkShaped
    <3>3. Beside(w, x.work)
      BY <2>2 DEF ProjInv, Aside
    <3>4. ActorInv(b, x, artist, album, row)
      BY DEF ProjInv
    <3>5. b \in Committers /\ x.track \in Tracks /\ row[x.track] = Proj!NoRow => x.track \notin D
      BY <2>2, NobodyElse
    <3> HIDE DEF x, w, D
    <3>6. ActorInv(b, x, artist \union w.artists, AlbumsIn(album, w), Stored(w, row))
      BY <1>1, <1>2, <3>2, <3>3, <3>4, <3>5, ActorKept
    <3> QED
      BY <1>3, <3>1, <3>6
  <2> QED
    BY <2>1, <2>2
<1>8. \A b, c \in ProjActors : b # c => Aside(tx'[b], tx'[c])
  <2> SUFFICES ASSUME NEW b \in ProjActors, NEW c \in ProjActors, b # c
               PROVE  Aside(tx'[b], tx'[c])
    OBVIOUS
  <2>1. TxShaped(tx[b]) /\ TxShaped(tx[c])
    BY <1>1 DEF ProjTypes
  <2>2. CASE b = a
    BY <1>4, <2>1, <2>2, IdleAside
  <2>3. CASE c = a
    <3>1. Aside(Proj!NoTx, tx[b])
      BY <2>1, IdleAside
    <3> QED
      BY <1>4, <2>3, <3>1, AsideBack
  <2>4. CASE b # a /\ c # a
    BY <1>4, <2>4 DEF ProjInv
  <2> QED
    BY <2>2, <2>3, <2>4
<1>9. \A b, c \in Committers : b # c => Busy(tx'[b]) \intersect Busy(tx'[c]) = {}
  <2> SUFFICES ASSUME NEW b \in Committers, NEW c \in Committers, b # c
               PROVE  Busy(tx'[b]) \intersect Busy(tx'[c]) = {}
    OBVIOUS
  <2>1. b \in ProjActors /\ c \in ProjActors
    BY DEF ProjActors
  <2>2. CASE b = a \/ c = a
    BY <1>4, <2>2, IdleGood
  <2>3. CASE b # a /\ c # a
    BY <1>4, <2>1, <2>3 DEF ProjInv
  <2> QED
    BY <2>2, <2>3
<1>10. ArtistClaims' \subseteq ArtistClaims
  <2>1. \A b \in ProjActors : ArtistsOf(tx'[b]) \subseteq ArtistClaims
    BY <1>4, IdleGood DEF ArtistClaims
  <2>2. OwnArtists(artist') \subseteq ArtistClaims
    <3>1. OwnArtists(artist') = OwnArtists(artist) \union OwnArtists(w.artists)
      BY <1>3 DEF OwnArtists
    <3> QED
      BY <3>1 DEF ArtistClaims, ArtistsOf, ArtistsOfWork
  <2>3. ArtistClaims' = OwnArtists(artist') \union KnownArtists(known'.artists)
                          \union (UNION {ArtistsOf(tx'[b]) : b \in ProjActors})
    BY DEF ArtistClaims
  <2> QED
    BY <2>1, <2>2, <2>3
<1>11. AlbumClaims' \subseteq AlbumClaims
  <2>1. \A b \in ProjActors : AlbumsOf(tx'[b]) \subseteq AlbumClaims
    BY <1>4, IdleGood DEF AlbumClaims
  <2>2. OwnAlbums(album') \subseteq AlbumClaims
    <3>1. OwnAlbums(album') \subseteq OwnAlbums(album) \union OwnAlbums(w.albums)
      BY <1>3 DEF OwnAlbums, AlbumsIn
    <3> QED
      BY <3>1 DEF AlbumClaims, AlbumsOf, AlbumsOfWork
  <2>3. AlbumClaims' = OwnAlbums(album') \union KnownAlbums(known'.albums)
                          \union (UNION {AlbumsOf(tx'[b]) : b \in ProjActors})
    BY DEF AlbumClaims
  <2> QED
    BY <2>1, <2>2, <2>3
<1>12. Functional(ArtistClaims') /\ Functional(AlbumClaims')
  BY <1>10, <1>11 DEF ProjInv, Functional
<1> QED
  BY <1>5, <1>6, <1>7, <1>8, <1>9, <1>12 DEF ProjInv

LEMMA CommitEditKeeps ==
    ASSUME ProjInv, NEW e \in Editors, Proj!CommitEdit(e)
    PROVE  ProjInv'
<1>1. e \in ProjActors /\ Proj!Store(tx[e].work) /\ tx' = [tx EXCEPT ![e] = Proj!NoTx]
      /\ UNCHANGED <<file, known>>
  BY DEF Proj!CommitEdit, ProjActors
<1>2. /\ MemoryShaped(known') /\ KnownArtists(known'.artists) \subseteq ArtistClaims
      /\ KnownAlbums(known'.albums) \subseteq AlbumClaims
  BY <1>1 DEF ProjInv, ProjTypes, ArtistClaims, AlbumClaims
<1> QED
  BY <1>1, <1>2, CommitKeeps

LEMMA CommitBatchKeeps ==
    ASSUME ProjInv, NEW s \in Committers, Proj!CommitBatch(s)
    PROVE  ProjInv'
<1> DEFINE m == tx[s].work.known
           f == Proj!Over(m.artists, known.artists)
           g == Proj!Over(m.albums, known.albums)
<1>1. s \in ProjActors /\ Proj!Store(tx[s].work) /\ tx' = [tx EXCEPT ![s] = Proj!NoTx]
      /\ file' = file /\ known' = [artists |-> f, albums |-> g]
  BY DEF Proj!CommitBatch, ProjActors
<1>2. MemoryShaped(m) /\ MemoryShaped(known)
  BY <1>1 DEF ProjInv, ProjTypes, TxShaped, WorkShaped
<1>3. /\ KnownArtists(known.artists) \subseteq ArtistClaims /\ KnownAlbums(known.albums) \subseteq AlbumClaims
      /\ KnownArtists(m.artists) \subseteq ArtistClaims /\ KnownAlbums(m.albums) \subseteq AlbumClaims
  BY <1>1 DEF ArtistClaims, AlbumClaims, ArtistsOf, AlbumsOf, ArtistsOfWork, AlbumsOfWork
<1> HIDE DEF m
<1>4. /\ DOMAIN f = DOMAIN m.artists \union DOMAIN known.artists
      /\ \A k \in DOMAIN f : f[k] = IF k \in DOMAIN m.artists THEN m.artists[k] ELSE known.artists[k]
  BY DEF Proj!Over
<1>5. /\ DOMAIN g = DOMAIN m.albums \union DOMAIN known.albums
      /\ \A k \in DOMAIN g : g[k] = IF k \in DOMAIN m.albums THEN m.albums[k] ELSE known.albums[k]
  BY DEF Proj!Over
<1> HIDE DEF f, g
<1>6. IsFiniteSet(DOMAIN f) /\ IsFiniteSet(DOMAIN g)
  <2>1. /\ IsFiniteSet(DOMAIN m.artists) /\ IsFiniteSet(DOMAIN known.artists)
        /\ IsFiniteSet(DOMAIN m.albums) /\ IsFiniteSet(DOMAIN known.albums)
    BY <1>2 DEF MemoryShaped
  <2>2. IsFiniteSet(DOMAIN m.artists \union DOMAIN known.artists) /\ IsFiniteSet(DOMAIN m.albums \union DOMAIN known.albums)
    BY <2>1, FS_Union
  <2> QED
    BY <1>4, <1>5, <2>2
<1>7. DOMAIN known' = {"artists", "albums"} /\ known'.artists = f /\ known'.albums = g
  BY <1>1
<1>8. MemoryShaped(known')
  BY <1>2, <1>4, <1>5, <1>6, <1>7 DEF MemoryShaped
<1>9. KnownArtists(f) \subseteq KnownArtists(m.artists) \union KnownArtists(known.artists)
  BY <1>4 DEF KnownArtists
<1>10. KnownAlbums(g) \subseteq KnownAlbums(m.albums) \union KnownAlbums(known.albums)
  BY <1>5 DEF KnownAlbums
<1>11. KnownArtists(known'.artists) \subseteq ArtistClaims /\ KnownAlbums(known'.albums) \subseteq AlbumClaims
  BY <1>3, <1>7, <1>9, <1>10
<1> QED
  BY <1>1, <1>8, <1>11, CommitKeeps

-----------------------------------------------------------------------------
(* Around the transactions                                                   *)

LEMMA OutsideStep ==
    ASSUME ProjInv, ProjTypes', UNCHANGED <<album, known, tx>>, artist' \subseteq artist,
           Committed(artist', album', row', orphaned'),
           \A b \in ProjActors : ActorInv(b, tx[b], artist', album', row')
    PROVE  ProjInv'
<1>1. \A b \in ProjActors : ActorInv(b, tx'[b], artist', album', row')
  OBVIOUS
<1>2. \A a, b \in ProjActors : a # b => Aside(tx'[a], tx'[b])
  BY DEF ProjInv
<1>3. \A a, b \in Committers : a # b => Busy(tx'[a]) \intersect Busy(tx'[b]) = {}
  BY DEF ProjInv
<1>4. ArtistClaims' \subseteq ArtistClaims
  <2>1. OwnArtists(artist') \subseteq OwnArtists(artist)
    BY DEF OwnArtists
  <2> QED
    BY <2>1 DEF ArtistClaims
<1>5. AlbumClaims' = AlbumClaims
  BY DEF AlbumClaims
<1>6. Functional(ArtistClaims') /\ Functional(AlbumClaims')
  BY <1>4, <1>5 DEF ProjInv, Functional
<1> QED
  BY <1>1, <1>2, <1>3, <1>6 DEF ProjInv

LEMMA ChangeFileKeeps ==
    ASSUME ProjInv, NEW t \in Tracks, NEW tags \in Snapshots, Proj!ChangeFile(t, tags)
    PROVE  ProjInv'
<1>1. UNCHANGED <<artist, album, row, known, tx, orphaned>> /\ file' = [file EXCEPT ![t] = tags]
  BY DEF Proj!ChangeFile
<1>2. ProjTypes'
  BY <1>1 DEF ProjInv, ProjTypes
<1> QED
  BY <1>1, <1>2, OutsideStep DEF ProjInv

LEMMA DeleteArtistKeeps ==
    ASSUME ProjInv, NEW r \in artist, Proj!DeleteArtist(r)
    PROVE  ProjInv'
<1>1. artist' = artist \ {r} /\ UNCHANGED <<file, album, row, known, tx, orphaned>>
  BY DEF Proj!DeleteArtist
<1>2. /\ \A t \in Tracks : row[t].artist # r.id
      /\ \A b \in ProjActors, t \in Tracks : Proj!Seen(b, t).artist # r.id
  BY ProjectionActors DEF Proj!DeleteArtist, Proj!Referenced
<1>3. ProjTypes'
  <2>1. IsFiniteSet(artist')
    BY <1>1, FS_Difference DEF ProjInv, ProjTypes
  <2>2. \A q \in artist' : ArtistShaped(q)
    BY <1>1 DEF ProjInv, ProjTypes
  <2>3. ProjTypes
    BY DEF ProjInv
  <2> QED
    BY <1>1, <2>1, <2>2, <2>3 DEF ProjTypes
<1>4. Committed(artist', album', row', orphaned')
  <2>1. Committed(artist, album, row, orphaned)
    BY DEF ProjInv
  <2> QED
    BY <1>1, <1>2, <2>1, DeletingKeepsShown
<1>5. ASSUME NEW b \in ProjActors
      PROVE  ActorInv(b, tx[b], artist', album', row')
  <2>1. DOMAIN tx[b].work.rows \subseteq Tracks /\ DOMAIN tx[b].saved.rows \subseteq Tracks
    BY DEF ProjInv, ProjTypes, TxShaped, WorkShaped
  <2>2. \A t \in Tracks : row[t].artist # r.id /\ RowIn(row, tx[b].work, t).artist # r.id
    BY <1>2, SeenRow
  <2>3. ActorInv(b, tx[b], artist, album, row)
    BY DEF ProjInv
  <2> QED
    BY <1>1, <2>1, <2>2, <2>3, DeletingKeepsActor
<1> QED
  BY <1>1, <1>3, <1>4, <1>5, OutsideStep

LEMMA SnapshotMeta ==
    ASSUME ProjInv, NEW t \in Tracks, row[t].there, row[t].raw = None
    PROVE  /\ t \in Legacy /\ t \notin orphaned /\ row[t].overrides = Proj!Empty /\ Stands(row[t], artist, album)
           /\ Proj!catalogSnapshot(row[t]) \in Meta
<1> DEFINE r == row[t]
           N == {q.name : q \in {p \in artist : p.id = r.artist}}
           T == {q.title : q \in {p \in album : p.id = r.album}}
<1>1. Untagged(t, r, t \in orphaned, artist, album)
  BY DEF ProjInv, Committed
<1>2. r # Proj!NoRow
  BY DEF Proj!NoRow
<1>3. t \in Legacy /\ t \notin orphaned /\ r.overrides = Proj!Empty /\ Stands(r, artist, album)
  BY <1>1, <1>2 DEF Untagged
<1>4. N \subseteq Texts /\ T \subseteq Texts
  BY DEF ProjInv, ProjTypes, ArtistShaped, AlbumShaped
<1>5. \A S : S \subseteq Texts => Proj!TheOnly(S) \in Texts
  <2> SUFFICES ASSUME NEW S, S \subseteq Texts
               PROVE  Proj!TheOnly(S) \in Texts
    OBVIOUS
  <2>1. CASE S = {}
    BY <2>1 DEF Proj!TheOnly, Texts
  <2>2. CASE S # {}
    BY <2>2, Only
  <2> QED
    BY <2>1, <2>2
<1>6. r.lyrics \in Texts
  BY DEF ProjInv, ProjTypes, RowShaped
<1>7. Proj!catalogSnapshot(r)
      = [artist |-> Proj!TheOnly(N), album |-> Proj!TheOnly(T), lyrics |-> r.lyrics]
  BY DEF Proj!catalogSnapshot
<1>8. Proj!TheOnly(N) \in Texts /\ Proj!TheOnly(T) \in Texts
  BY <1>4, <1>5
<1> HIDE DEF N, T, r
<1>9. Proj!catalogSnapshot(r) \in Meta
  BY <1>6, <1>7, <1>8 DEF Meta, Fields
<1> QED
  BY <1>3, <1>9 DEF r

LEMMA EnsureMetadataKeeps ==
    ASSUME ProjInv, NEW t \in Tracks, Proj!EnsureMetadata(t)
    PROVE  ProjInv'
<1> DEFINE r == row[t]
           s == Proj!catalogSnapshot(r)
           Q == Tagged(row, t, s)
<1>1. r.there /\ r.raw = None /\ UNCHANGED <<file, artist, album, known, tx, orphaned>>
  BY DEF Proj!EnsureMetadata
<1>2. row' = Q
  BY Zenon DEF Proj!EnsureMetadata, Tagged
<1>3. /\ t \in Legacy /\ t \notin orphaned /\ r.overrides = Proj!Empty /\ Stands(r, artist, album)
      /\ s \in Meta
  BY <1>1, SnapshotMeta
<1>4. s # None
  BY <1>3, ProjectionAssumption DEF Meta
<1>5. ProjTypes /\ DOMAIN row = Tracks /\ \A m \in Tracks : RowShaped(row[m]) /\ DOMAIN row[m] = RowFields
  BY DEF ProjInv, ProjTypes, RowShaped
<1>6. s = [artist |-> Proj!TheOnly({p.name : p \in {h \in artist : h.id = r.artist}}),
           album |-> Proj!TheOnly({p.title : p \in {h \in album : h.id = r.album}}),
           lyrics |-> r.lyrics]
  BY DEF Proj!catalogSnapshot
<1> HIDE DEF s
<1>7. /\ DOMAIN Q = Tracks
      /\ \A m \in Tracks \ {t} : Q[m] = row[m]
      /\ Q[t].raw = s
      /\ \A m \in Tracks : /\ Q[m].there = row[m].there
                           /\ Q[m].artist = row[m].artist
                           /\ Q[m].album = row[m].album
                           /\ Q[m].lyrics = row[m].lyrics
                           /\ Q[m].overrides = row[m].overrides
                           /\ DOMAIN Q[m] = RowFields
  BY <1>5, TaggedRow
<1>8. Q[t] = [r EXCEPT !.raw = s]
  BY <1>5 DEF Tagged
<1> HIDE DEF Q
<1>9. \A m \in Tracks : RowShaped(Q[m])
  <2> SUFFICES ASSUME NEW m \in Tracks
               PROVE  RowShaped(Q[m])
    OBVIOUS
  <2>1. Q[m].raw \in Meta \union {None}
    BY <1>3, <1>5, <1>7 DEF RowShaped
  <2> QED
    BY <1>5, <1>7, <2>1 DEF RowShaped
<1>10. ProjTypes'
  <2>1. (DOMAIN row)' = Tracks /\ \A m \in Tracks : RowShaped(row'[m])
    BY <1>2, <1>7, <1>9
  <2> QED
    BY <1>1, <1>5, <2>1 DEF ProjTypes
<1>11. Committed(artist, album, Q, orphaned)
  <2>1. Fits(Q[t], t \in orphaned, artist, album)
    <3>1. \A p \in album : p.id # None /\ p.title # None
      BY ProjectionAssumption DEF ProjInv, ProjTypes, Committed, AlbumShaped, Identifiers
    <3>2. \A p, h \in album : p.id = h.id => p.title = h.title /\ p.artist = h.artist
      <4> SUFFICES ASSUME NEW p \in album, NEW h \in album, p.id = h.id
                   PROVE  p.title = h.title /\ p.artist = h.artist
        OBVIOUS
      <4>1. Functional(AlbumClaims)
        BY DEF ProjInv
      <4>2. <<p.id, <<p.title, p.artist>>>> \in AlbumClaims /\ <<h.id, <<h.title, h.artist>>>> \in AlbumClaims
        BY DEF AlbumClaims, OwnAlbums
      <4>3. <<p.title, p.artist>> = <<h.title, h.artist>>
        BY <4>1, <4>2 DEF Functional
      <4> QED
        BY <4>3
    <3>3. DOMAIN r = RowFields /\ ~(t \in orphaned)
      BY <1>3, <1>5
    <3> HIDE DEF r
    <3> QED
      BY <1>3, <1>6, <1>8, <3>1, <3>2, <3>3, TaggingFits
  <2>2. ASSUME NEW m \in Tracks
        PROVE  /\ Q[m].raw # None => Q[m].there /\ Fits(Q[m], m \in orphaned, artist, album)
               /\ Q[m].raw = None => Untagged(m, Q[m], m \in orphaned, artist, album)
    <3>1. CASE m = t
      BY <1>1, <1>4, <1>7, <2>1, <3>1
    <3>2. CASE m # t
      <4>1. Q[m] = row[m]
        BY <1>7, <3>2
      <4> QED
        BY <4>1 DEF ProjInv, Committed
    <3> QED
      BY <3>1, <3>2
  <2> QED
    BY <2>2 DEF ProjInv, Committed
<1>12. \A b \in ProjActors : ActorInv(b, tx[b], artist, album, Q)
  <2> SUFFICES ASSUME NEW b \in ProjActors
               PROVE  ActorInv(b, tx[b], artist, album, Q)
    OBVIOUS
  <2>1. DOMAIN tx[b].work.rows \subseteq Tracks /\ DOMAIN tx[b].saved.rows \subseteq Tracks
    BY <1>5 DEF ProjTypes, TxShaped, WorkShaped
  <2>2. ActorInv(b, tx[b], artist, album, row)
    BY DEF ProjInv
  <2>3. row[t].raw = None
    BY <1>1
  <2> HIDE DEF r
  <2> QED
    BY <1>3, <1>4, <1>5, <2>1, <2>2, <2>3, TaggingKeepsActor DEF Q
<1> QED
  BY <1>1, <1>2, <1>10, <1>11, <1>12, OutsideStep

-----------------------------------------------------------------------------
(* Every step                                                                *)

LEMMA ProjectionStarts ==
    ASSUME Proj!Init
    PROVE  ProjInv
<1> DEFINE s == CHOOSE tags \in Snapshots : TRUE
           e == Proj!Empty
           n == Proj!NoRow
           x == Proj!NoTx
<1>1. /\ file \in [Tracks \ Legacy -> Snapshots]
      /\ artist = IF Legacy = {} THEN {} ELSE {[id |-> 1, name |-> s.artist, by |-> "scan"]}
      /\ album = IF Legacy = {} \/ s.album = None THEN {}
                 ELSE {[id |-> 2, title |-> s.album, artist |-> 1, by |-> "scan"]}
      /\ row = [t \in Tracks |-> IF t \notin Legacy THEN n
                 ELSE [n EXCEPT !.there = TRUE, !.artist = 1,
                                !.album = IF s.album = None THEN None ELSE 2,
                                !.lyrics = s.lyrics,
                                !.origin = IF s.lyrics = None THEN None ELSE "SCAN"]]
      /\ known = [artists |-> e, albums |-> e]
      /\ tx = [b \in ProjActors |-> x]
      /\ orphaned = {}
  BY Zenon, ProjectionActors DEF Proj!Init
<1>2. s \in Meta
  BY ProjectionAssumption DEF Meta
<1>3. s.artist \in Texts /\ s.album \in Texts /\ s.lyrics \in Texts
  BY <1>2 DEF Meta, Fields
<1>4. /\ DOMAIN n = RowFields /\ ~n.there /\ n.artist = None /\ n.album = None /\ n.lyrics = None
      /\ n.raw = None /\ n.overrides = e
  BY DEF Proj!NoRow, RowFields
<1>5. DOMAIN e = {} /\ IsFiniteSet({}) /\ IsOverride(e)
  BY FS_EmptySet DEF Proj!Empty, IsOverride
<1>6. /\ TxShaped(x) /\ (\A b \in ProjActors : \A A, L, R : ActorInv(b, x, A, L, R))
      /\ ArtistsOf(x) = {} /\ AlbumsOf(x) = {} /\ Busy(x) = {}
  BY IdleGood
<1> HIDE DEF s, e, n, x
<1>7. DOMAIN tx = ProjActors /\ \A b \in ProjActors : tx[b] = x
  BY <1>1
<1>8. 1 \in Identifiers /\ 2 \in Identifiers
  BY DEF Identifiers
<1>9. /\ \A q \in artist : q.id = 1 /\ q.name = s.artist /\ q.by = "scan"
      /\ \A q \in album : q.id = 2 /\ q.title = s.album /\ q.artist = 1 /\ s.album # None
  BY <1>1
<1>10. IsFiniteSet(artist) /\ IsFiniteSet(album)
  BY <1>1, FS_EmptySet, FS_Singleton
<1>11. /\ (\A q \in artist : ArtistShaped(q)) /\ (\A q \in album : AlbumShaped(q))
  BY <1>3, <1>8, <1>9 DEF ArtistShaped, AlbumShaped
<1>12. DOMAIN row = Tracks
  BY <1>1
<1>13. \A t \in Tracks \ Legacy : row[t] = n
  BY <1>1
<1>14. ASSUME NEW t \in Tracks, t \in Legacy
       PROVE  /\ DOMAIN row[t] = RowFields /\ row[t].there /\ row[t].artist = 1
              /\ row[t].album = (IF s.album = None THEN None ELSE 2) /\ row[t].lyrics = s.lyrics
              /\ row[t].raw = None /\ row[t].overrides = e
  <2>1. row[t] = [n EXCEPT !.there = TRUE, !.artist = 1,
                           !.album = IF s.album = None THEN None ELSE 2,
                           !.lyrics = s.lyrics,
                           !.origin = IF s.lyrics = None THEN None ELSE "SCAN"]
    BY <1>1, <1>14
  <2> QED
    BY <1>4, <2>1 DEF RowFields
<1>15. \A t \in Tracks : RowShaped(row[t])
  <2>1. None \in Texts
    BY DEF Texts
  <2>2. RowShaped(n)
    BY <1>4, <1>5, <2>1 DEF RowShaped, MaybeId
  <2>3. \A t \in Tracks : t \in Legacy => RowShaped(row[t])
    BY <1>3, <1>5, <1>8, <1>14 DEF RowShaped, MaybeId
  <2> QED
    BY <1>13, <2>2, <2>3
<1>16. DOMAIN known = {"artists", "albums"} /\ known.artists = e /\ known.albums = e
  BY <1>1
<1>17. MemoryShaped(known)
  BY <1>5, <1>16 DEF MemoryShaped
<1>18. ProjTypes
  BY <1>1, <1>6, <1>7, <1>10, <1>11, <1>12, <1>15, <1>17 DEF ProjTypes
<1>19. Committed(artist, album, row, orphaned)
  <2>1. \A t \in Tracks : row[t].raw = None
    BY <1>4, <1>13, <1>14
  <2>2. ASSUME NEW t \in Tracks, t \in Legacy
        PROVE  Stands(row[t], artist, album)
    <3>1. \E q \in artist : q.id = 1
      BY <1>1, <2>2
    <3>2. s.album # None => \E q \in album : q.id = 2 /\ q.artist = 1
      BY <1>1, <2>2
    <3> QED
      BY <1>14, <2>2, <3>1, <3>2 DEF Stands
  <2>3. ASSUME NEW t \in Tracks
        PROVE  Untagged(t, row[t], t \in orphaned, artist, album)
    <3>1. CASE t \in Legacy
      BY <1>1, <1>14, <2>2, <3>1 DEF Untagged, e
    <3>2. CASE t \notin Legacy
      BY <1>1, <1>4, <1>13, <3>2 DEF Untagged, e, n
    <3> QED
      BY <3>1, <3>2
  <2> QED
    BY <1>9, <2>1, <2>3 DEF Committed
<1>20. \A b, c \in ProjActors : b # c => Aside(tx[b], tx[c])
  BY <1>6, <1>7, IdleAside DEF x
<1>21. \A b, c \in Committers : b # c => Busy(tx[b]) \intersect Busy(tx[c]) = {}
  BY <1>6, <1>7 DEF ProjActors
<1>22. ArtistClaims = OwnArtists(artist)
  <2>1. KnownArtists(known.artists) = {}
    BY <1>5, <1>16 DEF KnownArtists
  <2>2. \A b \in ProjActors : ArtistsOf(tx[b]) = {}
    BY <1>6, <1>7
  <2> QED
    BY <2>1, <2>2 DEF ArtistClaims
<1>23. AlbumClaims = OwnAlbums(album)
  <2>1. KnownAlbums(known.albums) = {}
    BY <1>5, <1>16 DEF KnownAlbums
  <2>2. \A b \in ProjActors : AlbumsOf(tx[b]) = {}
    BY <1>6, <1>7
  <2> QED
    BY <2>1, <2>2 DEF AlbumClaims
<1>24. Functional(ArtistClaims) /\ Functional(AlbumClaims)
  BY <1>9, <1>22, <1>23 DEF Functional, OwnArtists, OwnAlbums
<1>25. \A b \in ProjActors : ActorInv(b, tx[b], artist, album, row)
  BY <1>6, <1>7
<1> QED
  BY <1>18, <1>19, <1>20, <1>21, <1>24, <1>25 DEF ProjInv

LEMMA ScanSteps ==
    ASSUME ProjInv, NEW s \in Committers,
           \/ Proj!effectiveScanMetadata(s) \/ Proj!Fails(s)
           \/ Proj!CommitBatch(s) \/ Proj!AbortBatch(s)
           \/ \E t \in Tracks : Proj!OpenFile(s, t)
    PROVE  ProjInv'
<1>1. CASE Proj!AbortBatch(s)
  <2>1. s \in ProjActors
    BY DEF ProjActors
  <2>2. tx' = [tx EXCEPT ![s] = Proj!NoTx] /\ UNCHANGED <<file, artist, album, row, known, orphaned>>
    BY <1>1 DEF Proj!AbortBatch
  <2> QED
    BY <2>1, <2>2, GivingUpKeeps
<1> QED
  BY <1>1, EffectiveMetadataKeeps, FailsKeeps, CommitBatchKeeps, OpenFileKeeps

LEMMA EditSteps ==
    ASSUME ProjInv, NEW e \in Editors,
           \/ Proj!LockTrack(e) \/ Proj!lockedMetadata(e)
           \/ Proj!CommitEdit(e) \/ Proj!RollBack(e)
           \/ \E t \in Tracks, patch \in Patches : Proj!UpdateMetadata(e, t, patch)
    PROVE  ProjInv'
<1>1. e \in ProjActors
  BY DEF ProjActors
<1>2. CASE Proj!lockedMetadata(e) /\ ~Proj!Updates(e)
  <2>1. tx' = [tx EXCEPT ![e] = Proj!NoTx] /\ UNCHANGED <<file, artist, album, row, known, orphaned>>
    BY <1>2 DEF Proj!lockedMetadata, Proj!Uncommitted
  <2> QED
    BY <1>1, <2>1, GivingUpKeeps
<1>3. CASE Proj!RollBack(e)
  <2>1. tx' = [tx EXCEPT ![e] = Proj!NoTx] /\ UNCHANGED <<file, artist, album, row, known, orphaned>>
    BY <1>3 DEF Proj!RollBack
  <2> QED
    BY <1>1, <2>1, GivingUpKeeps
<1> QED
  BY <1>2, <1>3, LockTrackKeeps, LockedMetadataKeeps, CommitEditKeeps, UpdateMetadataKeeps

LEMMA TrackSteps ==
    ASSUME ProjInv, NEW a \in ProjActors, Proj!Projects(a)
    PROVE  ProjInv'
BY ResolveArtistKeeps, ResolveAlbumKeeps, WriteTrackKeeps, LeaveAlbumKeeps, DeleteAlbumKeeps
   DEF Proj!Projects

LEMMA ProjectionNext ==
    ASSUME ProjInv, [MCNext]_<<view, projVars, editVars, pageVars>>
    PROVE  ProjInv'
<1>1. CASE UNCHANGED projVars
  BY <1>1 DEF projVars, ProjInv, ProjTypes, ArtistClaims, AlbumClaims
<1>2. CASE Proj!Next
  BY <1>2, ProjectionSteps, TrackSteps, ScanSteps, EditSteps, EnsureMetadataKeeps, ChangeFileKeeps, DeleteArtistKeeps
<1>3. UNCHANGED projVars \/ Proj!Next
  BY DEF MCNext
<1> QED
  BY <1>1, <1>2, <1>3

LEMMA ProjectionShows == ProjInv => ShownFollowsMetadata
<1> SUFFICES ASSUME ProjInv, NEW t \in Tracks, row[t].raw # None
             PROVE  LET r == row[t]  says == Proj!ApplyMetadataOverrides(r.raw, r.overrides)
                    IN  /\ \E q \in artist : q.id = r.artist /\ q.name = says.artist
                        /\ r.album = None <=> says.album = None \/ t \in orphaned
                        /\ r.album # None => \E q \in album :
                               q.id = r.album /\ q.title = says.album /\ q.artist = r.artist
                        /\ "lyrics" \in DOMAIN r.overrides /\ says.lyrics # None => r.lyrics = says.lyrics
  BY DEF ShownFollowsMetadata, Proj!ShownFollowsMetadata
<1>1. Fits(row[t], t \in orphaned, artist, album)
  BY DEF ProjInv, Committed
<1> QED
  BY <1>1 DEF Fits, Says

\* Every track with metadata shows the artist, the album and the lyrics that its
\* tags and its overrides say together: whatever scans of batches with savepoints,
\* edits and tag matching commit beside each other in repository.go of adminsources
\* and of adminmetadata, whichever file, statement or batch fails, and though the
\* scan remembers artists and albums that others delete meanwhile.
THEOREM TracksShowTheirMetadata == MCSpec => []ShownFollowsMetadata
<1>1. MCInit => ProjInv
  BY ProjectionStarts DEF MCInit
<1>2. ProjInv /\ [MCNext]_<<view, projVars, editVars, pageVars>> => ProjInv'
  BY ProjectionNext
<1>3. ProjInv => ShownFollowsMetadata
  BY ProjectionShows
<1> QED
  BY <1>1, <1>2, <1>3, PTL DEF MCSpec

-----------------------------------------------------------------------------
(* Scans make one artist of a name and one album of a title and artist       *)

\* A scan holds the locks of what it has made, and found nothing like it.
AlikeAlbums(p, q) == Proj!Twins(p, q) /\ p.title = q.title /\ p.artist = q.artist
MadeOnce(w, A, L) ==
    /\ \A r \in w.artists : r.by = "scan" =>
          /\ Lock("artist", r.name) \in w.held
          /\ \A p \in A \union w.artists : Proj!Twins(p, r) => p.name # r.name
    /\ \A r \in w.albums : r.by = "scan" =>
          /\ Lock("album", r.title) \in w.held
          /\ \A p \in L \union w.albums : AlikeAlbums(p, r) => p.id \in w.dropped \/ r.id \in w.dropped
OnceInv ==
    /\ ScansMakeOneOfEach
    /\ \A a \in ProjActors : MadeOnce(tx[a].work, artist, album) /\ MadeOnce(tx[a].saved, artist, album)

LEMMA TwinsBack ==
    ASSUME NEW p, NEW q, Proj!Twins(p, q)
    PROVE  Proj!Twins(q, p) /\ p.by = "scan" /\ q.by = "scan"
BY DEF Proj!Twins

LEMMA OnceStays ==
    ASSUME NEW w, NEW v, NEW A, NEW L, NEW B, NEW M, MadeOnce(w, A, L), B \subseteq A, M \subseteq L,
           v.artists = w.artists, v.albums = w.albums, w.held \subseteq v.held, w.dropped \subseteq v.dropped
    PROVE  MadeOnce(v, B, M)
BY DEF MadeOnce

LEMMA NothingMade == \A A, L : MadeOnce(Proj!NoWork, A, L)
BY DEF MadeOnce, Proj!NoWork

LEMMA OnceLocal ==
    ASSUME ProjInv, OnceInv, NEW a \in ProjActors, NEW y, tx' = [tx EXCEPT ![a] = y],
           artist' = artist, album' = album,
           MadeOnce(y.work, artist, album), MadeOnce(y.saved, artist, album)
    PROVE  OnceInv'
<1>1. DOMAIN tx = ProjActors
  BY DEF ProjInv, ProjTypes
<1>2. tx'[a] = y /\ \A b \in ProjActors \ {a} : tx'[b] = tx[b]
  BY <1>1
<1>3. \A b \in ProjActors : MadeOnce(tx'[b].work, artist', album') /\ MadeOnce(tx'[b].saved, artist', album')
  BY <1>2 DEF OnceInv
<1>4. ScansMakeOneOfEach'
  BY DEF OnceInv, ScansMakeOneOfEach, Proj!ScansMakeOneOfEach
<1> QED
  BY <1>3, <1>4 DEF OnceInv

\* A step that keeps the savepoint.
LEMMA OnceTo ==
    ASSUME ProjInv, OnceInv, NEW a \in ProjActors, NEW x, NEW s, NEW w, Proj!To(a, x, s, w),
           artist' = artist, album' = album, DOMAIN x = TxFields, x.saved = tx[a].saved,
           MadeOnce(w, artist, album)
    PROVE  OnceInv'
<1> DEFINE y == Put(x, s, w)
<1>1. tx' = [tx EXCEPT ![a] = y]
  BY ToPuts
<1>2. Keeps(y, x, {"step", "work"}) /\ y.work = w
  BY PutFields
<1> HIDE DEF y
<1>3. y.saved = tx[a].saved
  BY <1>2, KeptFields
<1>4. MadeOnce(y.saved, artist, album)
  BY <1>3 DEF OnceInv
<1> QED
  BY <1>1, <1>2, <1>4, OnceLocal

LEMMA OnceSame ==
    ASSUME OnceInv, NEW a \in ProjActors, NEW v, v.artists = tx[a].work.artists, v.albums = tx[a].work.albums,
           tx[a].work.held \subseteq v.held, tx[a].work.dropped \subseteq v.dropped
    PROVE  MadeOnce(v, artist, album)
<1>1. MadeOnce(tx[a].work, artist, album)
  BY DEF OnceInv
<1> QED
  BY <1>1, OnceStays

LEMMA OnceLocked ==
    ASSUME ProjInv, OnceInv, NEW a \in ProjActors, NEW s, Proj!At(a, s)
    PROVE  /\ MadeOnce(Proj!Locked(a), artist, album)
           /\ DOMAIN Proj!Locked(a) = WorkFields /\ DOMAIN tx[a] = TxFields
<1>1. /\ GoodWork(a, Proj!Locked(a), Written(tx[a]), None, None)
      /\ Proj!Locked(a).held = tx[a].work.held \union Proj!Wants(a)
      /\ Proj!Locked(a).artists = tx[a].work.artists /\ Proj!Locked(a).albums = tx[a].work.albums
      /\ Proj!Locked(a).dropped = tx[a].work.dropped
  BY LockedGood
<1>2. DOMAIN Proj!Locked(a) = WorkFields
  BY <1>1 DEF GoodWork, WorkShaped
<1>3. DOMAIN tx[a] = TxFields
  BY TxFacts
<1>4. MadeOnce(Proj!Locked(a), artist, album)
  BY <1>1, OnceSame
<1> QED
  BY <1>2, <1>3, <1>4

LEMMA OnceDone ==
    ASSUME ProjInv, OnceInv, NEW a \in ProjActors, NEW w, Proj!Done(a, tx[a], w),
           artist' = artist, album' = album, DOMAIN w = WorkFields, MadeOnce(w, artist, album)
    PROVE  OnceInv'
<1> DEFINE x == tx[a]
           v == Proj!Resolved(x, w, Proj!scanAlbumCacheKey(a))
           z == Kept(x, v)
<1>1. DOMAIN x = TxFields
  BY TxFacts
<1>2. CASE a \in Editors
  <2>1. Proj!To(a, x, "done", w)
    BY <1>2, Zenon DEF Proj!Done
  <2> QED
    BY <1>1, <2>1, OnceTo
<1>3. CASE a \notin Editors
  <2>1. Proj!To(a, z, "next", v)
    BY <1>3, Zenon DEF Proj!Done, Kept
  <2>2. v.artists = w.artists /\ v.albums = w.albums /\ v.held = w.held /\ v.dropped = w.dropped
    BY DEF Proj!Resolved, WorkFields
  <2> HIDE DEF v
  <2>3. MadeOnce(v, artist, album)
    BY <2>2, OnceStays
  <2>4. z.saved = v /\ DOMAIN z = TxFields
    BY <1>1 DEF Kept, TxFields
  <2> HIDE DEF z
  <2> DEFINE y == Put(z, "next", v)
  <2>5. tx' = [tx EXCEPT ![a] = y]
    BY <2>1, ToPuts
  <2>6. Keeps(y, z, {"step", "work"}) /\ y.work = v
    BY <2>4, PutFields
  <2> HIDE DEF y
  <2>7. y.saved = v
    BY <2>4, <2>6, KeptFields
  <2> QED
    BY <2>3, <2>5, <2>6, <2>7, OnceLocal
<1> QED
  BY <1>2, <1>3

\* A scan that makes an artist holds its name and sees no other of that name.
LEMMA ArtistMadeOnce ==
    ASSUME ProjInv, OnceInv, NEW a \in ProjActors, Proj!At(a, "artist"), NEW r, NEW v,
           r.name = tx[a].target.artist, r.by = Proj!Maker(a),
           a \in Committers => Proj!CachedArtist(a, r.name) = None,
           \A q \in Proj!Artists(a) : q.name # r.name,
           v = [Proj!Locked(a) EXCEPT !.artists = @ \union {r}]
    PROVE  MadeOnce(v, artist, album)
<1> DEFINE w == tx[a].work
           l == Proj!Locked(a)
<1>1. MadeOnce(l, artist, album) /\ DOMAIN l = WorkFields
  BY OnceLocked
<1>2. l.held = w.held \union Proj!Wants(a) /\ l.artists = w.artists /\ l.albums = w.albums /\ l.dropped = w.dropped
  BY LockedGood
<1>3. tx[a].step = "artist"
  BY Unblocked
<1>4. ASSUME r.by = "scan" PROVE Lock("artist", r.name) \in l.held
  <2>1. a \in Committers /\ a \notin Editors
    BY <1>4, OnlyOneKind DEF Proj!Maker
  <2>2. Lock("artist", r.name) \in Proj!ArtistLocks(a)
    BY <2>1 DEF Proj!ArtistLocks, Lock
  <2>3. Proj!Wants(a) = Proj!ArtistLocks(a)
    BY <1>3 DEF Proj!Wants
  <2> QED
    BY <1>2, <2>2, <2>3
<1>5. \A q \in artist \union l.artists : q.name # r.name
  BY <1>2 DEF Proj!Artists
<1> HIDE DEF l, w
<1>6. v.artists = l.artists \union {r} /\ v.albums = l.albums /\ v.held = l.held /\ v.dropped = l.dropped
  BY <1>1 DEF WorkFields, l
<1>7. ASSUME NEW q \in v.artists, q.by = "scan"
      PROVE  /\ Lock("artist", q.name) \in v.held
             /\ \A p \in artist \union v.artists : Proj!Twins(p, q) => p.name # q.name
  <2>1. CASE q = r
    <3>1. ~Proj!Twins(r, r)
      BY DEF Proj!Twins
    <3> QED
      BY <1>4, <1>5, <1>6, <1>7, <2>1, <3>1
  <2>2. CASE q \in l.artists
    BY <1>1, <1>5, <1>6, <1>7, <2>2 DEF MadeOnce
  <2> QED
    BY <1>6, <2>1, <2>2
<1>8. \A q \in v.albums : q.by = "scan" =>
          /\ Lock("album", q.title) \in v.held
          /\ \A p \in album \union v.albums : AlikeAlbums(p, q) => p.id \in v.dropped \/ q.id \in v.dropped
  BY <1>1, <1>6 DEF MadeOnce
<1> QED
  BY <1>7, <1>8 DEF MadeOnce

LEMMA ResolveArtistOnce ==
    ASSUME ProjInv, OnceInv, NEW a \in ProjActors, Proj!ResolveArtist(a)
    PROVE  OnceInv'
<1> DEFINE x == tx[a]
           l == Proj!Locked(a)
           k == x.target.artist
           cached == IF a \in Committers THEN Proj!CachedArtist(a, k) ELSE None
           found == {r \in Proj!Artists(a) : r.name = k}
           made == [id |-> Proj!Fresh, name |-> k, by |-> Proj!Maker(a)]
           w == [l EXCEPT !.artists = @ \union {made}]
<1>1. Proj!At(a, "artist") /\ artist' = artist /\ album' = album
  BY DEF Proj!ResolveArtist, Proj!Uncommitted
<1>2. \/ Proj!To(a, [x EXCEPT !.artist = cached], "album", l)
      \/ Proj!To(a, [x EXCEPT !.artist = Proj!Lowest(found).id], "album", l)
      \/ cached = None /\ found = {} /\ Proj!To(a, [x EXCEPT !.artist = Proj!Fresh], "album", w)
  BY Zenon DEF Proj!ResolveArtist
<1>3. MadeOnce(l, artist, album) /\ DOMAIN x = TxFields
  BY <1>1, OnceLocked
<1>4. \A n : DOMAIN [x EXCEPT !.artist = n] = TxFields /\ [x EXCEPT !.artist = n].saved = x.saved
  BY <1>3 DEF TxFields
<1>5. CASE cached = None /\ found = {} /\ Proj!To(a, [x EXCEPT !.artist = Proj!Fresh], "album", w)
  <2>1. /\ a \in Committers => Proj!CachedArtist(a, k) = None
        /\ \A q \in Proj!Artists(a) : q.name # k
    BY <1>5
  <2>2. made.name = k /\ made.by = Proj!Maker(a)
    OBVIOUS
  <2> HIDE DEF made, cached, found
  <2>3. MadeOnce(w, artist, album)
    BY <1>1, <2>1, <2>2, ArtistMadeOnce
  <2> DEFINE z == [x EXCEPT !.artist = Proj!Fresh]
  <2>4. Proj!To(a, z, "album", w) /\ DOMAIN z = TxFields /\ z.saved = tx[a].saved
    BY <1>4, <1>5
  <2> HIDE DEF w, z
  <2> QED
    BY <1>1, <2>3, <2>4, OnceTo
<1>6. ASSUME NEW n, Proj!To(a, [x EXCEPT !.artist = n], "album", l) PROVE OnceInv'
  <2> DEFINE z == [x EXCEPT !.artist = n]
  <2>1. Proj!To(a, z, "album", l) /\ DOMAIN z = TxFields /\ z.saved = tx[a].saved
    BY <1>4, <1>6
  <2> HIDE DEF l, z
  <2> QED
    BY <1>1, <1>3, <2>1, OnceTo
<1> QED
  BY <1>2, <1>5, <1>6

\* A scan that makes an album holds its title, and the albums that it sees of
\* that title are of other artists.
LEMMA AlbumMadeOnce ==
    ASSUME ProjInv, OnceInv, NEW a \in ProjActors, Proj!At(a, "album"), NEW r, NEW v,
           r.title = tx[a].target.album, r.artist = tx[a].artist, r.by = Proj!Maker(a),
           r.title # None, Proj!CachedAlbum(a) = None, Proj!ChosenAlbum(a) = {},
           v = [Proj!Locked(a) EXCEPT !.albums = @ \union {r}]
    PROVE  MadeOnce(v, artist, album)
<1> DEFINE w == tx[a].work
           l == Proj!Locked(a)
<1>1. MadeOnce(l, artist, album) /\ DOMAIN l = WorkFields
  BY OnceLocked
<1>2. l.held = w.held \union Proj!Wants(a) /\ l.artists = w.artists /\ l.albums = w.albums /\ l.dropped = w.dropped
  BY LockedGood
<1>3. tx[a].step = "album"
  BY Unblocked
<1>4. ASSUME r.by = "scan" PROVE Lock("album", r.title) \in l.held
  <2>1. a \in Committers /\ a \notin Editors
    BY <1>4, OnlyOneKind DEF Proj!Maker
  <2>2. Lock("album", r.title) \in Proj!AlbumLocks(a)
    BY <2>1 DEF Proj!AlbumLocks, Lock
  <2>3. Proj!Wants(a) = Proj!AlbumLocks(a)
    BY <1>3 DEF Proj!Wants
  <2> QED
    BY <1>2, <2>2, <2>3
<1>5. ASSUME NEW q \in album \union l.albums, q.title = r.title, q.artist = r.artist PROVE q.id \in l.dropped
  <2>1. q \notin Proj!Candidates(a)
    BY <1>5 DEF Proj!ChosenAlbum
  <2> QED
    BY <1>2, <1>5, <2>1 DEF Proj!Candidates, Proj!Albums
<1> HIDE DEF l, w
<1>6. v.albums = l.albums \union {r} /\ v.artists = l.artists /\ v.held = l.held /\ v.dropped = l.dropped
  BY <1>1 DEF WorkFields, l
<1>7. ASSUME NEW q \in v.albums, q.by = "scan"
      PROVE  /\ Lock("album", q.title) \in v.held
             /\ \A p \in album \union v.albums : AlikeAlbums(p, q) => p.id \in v.dropped \/ q.id \in v.dropped
  <2>1. CASE q = r
    <3>1. ~AlikeAlbums(r, r)
      BY DEF AlikeAlbums, Proj!Twins
    <3>2. \A p \in album \union l.albums : AlikeAlbums(p, r) => p.id \in l.dropped
      BY <1>5 DEF AlikeAlbums
    <3> QED
      BY <1>4, <1>6, <1>7, <2>1, <3>1, <3>2
  <2>2. CASE q \in l.albums
    <3>1. AlikeAlbums(r, q) => q.id \in l.dropped
      BY <1>5, <2>2 DEF AlikeAlbums
    <3> QED
      BY <1>1, <1>6, <1>7, <2>2, <3>1 DEF MadeOnce
  <2> QED
    BY <1>6, <2>1, <2>2
<1>8. \A q \in v.artists : q.by = "scan" =>
          /\ Lock("artist", q.name) \in v.held
          /\ \A p \in artist \union v.artists : Proj!Twins(p, q) => p.name # q.name
  BY <1>1, <1>6 DEF MadeOnce
<1> QED
  BY <1>7, <1>8 DEF MadeOnce

LEMMA ResolveAlbumOnce ==
    ASSUME ProjInv, OnceInv, NEW a \in ProjActors, Proj!ResolveAlbum(a)
    PROVE  OnceInv'
<1> DEFINE x == tx[a]
           l == Proj!Locked(a)
           title == x.target.album
           cached == Proj!CachedAlbum(a)
           found == IF Proj!RememberedAlbum(a) # {} THEN Proj!RememberedAlbum(a)
                    ELSE Proj!ChosenAlbum(a)
           made == [id |-> Proj!Fresh, title |-> title, artist |-> x.artist, by |-> Proj!Maker(a)]
           w == [l EXCEPT !.albums = @ \union {made}]
<1>1. Proj!At(a, "album") /\ artist' = artist /\ album' = album
  BY DEF Proj!ResolveAlbum, Proj!Uncommitted
<1>2. \/ Proj!To(a, x, "track", l)
      \/ Proj!To(a, [x EXCEPT !.album = cached], "track", l)
      \/ Proj!To(a, [x EXCEPT !.album = Proj!Lowest(found).id], "track", l)
      \/ title # None /\ cached = None /\ found = {}
         /\ Proj!To(a, [x EXCEPT !.album = Proj!Fresh], "track", w)
  BY Zenon DEF Proj!ResolveAlbum
<1>3. MadeOnce(l, artist, album) /\ DOMAIN x = TxFields
  BY <1>1, OnceLocked
<1>4. \A n : DOMAIN [x EXCEPT !.album = n] = TxFields /\ [x EXCEPT !.album = n].saved = x.saved
  BY <1>3 DEF TxFields
<1>5. CASE title # None /\ cached = None /\ found = {}
           /\ Proj!To(a, [x EXCEPT !.album = Proj!Fresh], "track", w)
  <2>1. Proj!ChosenAlbum(a) = {}
    BY <1>5
  <2>2. made.title = title /\ made.artist = x.artist /\ made.by = Proj!Maker(a) /\ title # None
    BY <1>5
  <2>3. Proj!CachedAlbum(a) = None
    BY <1>5
  <2> HIDE DEF made, cached, found
  <2>4. MadeOnce(w, artist, album)
    BY <1>1, <2>1, <2>2, <2>3, AlbumMadeOnce
  <2> DEFINE z == [x EXCEPT !.album = Proj!Fresh]
  <2>5. Proj!To(a, z, "track", w) /\ DOMAIN z = TxFields /\ z.saved = tx[a].saved
    BY <1>4, <1>5
  <2> HIDE DEF w, z
  <2> QED
    BY <1>1, <2>4, <2>5, OnceTo
<1>6. ASSUME NEW n, Proj!To(a, [x EXCEPT !.album = n], "track", l) PROVE OnceInv'
  <2> DEFINE z == [x EXCEPT !.album = n]
  <2>1. Proj!To(a, z, "track", l) /\ DOMAIN z = TxFields /\ z.saved = tx[a].saved
    BY <1>4, <1>6
  <2> HIDE DEF l, z
  <2> QED
    BY <1>1, <1>3, <2>1, OnceTo
<1>7. CASE Proj!To(a, x, "track", l)
  <2> HIDE DEF l
  <2> QED
    BY <1>1, <1>3, <1>7, OnceTo
<1> QED
  BY <1>2, <1>5, <1>6, <1>7

LEMMA WriteTrackOnce ==
    ASSUME ProjInv, OnceInv, NEW a \in ProjActors, Proj!WriteTrack(a)
    PROVE  OnceInv'
<1> DEFINE x == tx[a]
           l == Proj!Locked(a)
           r == IF a \in Committers THEN Proj!upsertScanTrack(a) ELSE Proj!projectMetadata(a)
           v == Laid(l, x.track, r)
           z == [x EXCEPT !.left = Proj!Seen(a, x.track).album]
<1>1. Proj!At(a, "track") /\ artist' = artist /\ album' = album
  BY DEF Proj!WriteTrack, Proj!Uncommitted
<1>2. Proj!Done(a, x, v) \/ Proj!To(a, z, "leave", v)
  BY Zenon DEF Proj!WriteTrack, Laid
<1>3. MadeOnce(l, artist, album) /\ DOMAIN l = WorkFields /\ DOMAIN x = TxFields
  BY <1>1, OnceLocked
<1>4. DOMAIN z = TxFields /\ z.saved = tx[a].saved
  BY <1>3 DEF TxFields
<1> HIDE DEF l, r, z
<1>5. /\ DOMAIN v = WorkFields /\ v.artists = l.artists /\ v.albums = l.albums
      /\ v.held = l.held /\ v.dropped = l.dropped
  BY <1>3 DEF Laid, WorkFields
<1> HIDE DEF v
<1>6. MadeOnce(v, artist, album)
  BY <1>3, <1>5, OnceStays
<1> QED
  BY <1>1, <1>2, <1>4, <1>5, <1>6, OnceDone, OnceTo

LEMMA LeaveAlbumOnce ==
    ASSUME ProjInv, OnceInv, NEW a \in ProjActors, Proj!LeaveAlbum(a)
    PROVE  OnceInv'
<1> DEFINE l == Proj!Locked(a)
<1>1. Proj!At(a, "leave") /\ artist' = artist /\ album' = album
  BY DEF Proj!LeaveAlbum, Proj!Uncommitted
<1>2. Proj!Done(a, tx[a], l) \/ Proj!To(a, tx[a], "drop", l)
  BY Zenon DEF Proj!LeaveAlbum
<1>3. MadeOnce(l, artist, album) /\ DOMAIN l = WorkFields /\ DOMAIN tx[a] = TxFields
  BY <1>1, OnceLocked
<1> HIDE DEF l
<1> QED
  BY <1>1, <1>2, <1>3, OnceDone, OnceTo

LEMMA DeleteAlbumOnce ==
    ASSUME ProjInv, OnceInv, NEW a \in ProjActors, Proj!deleteAlbumIfEmpty(a)
    PROVE  OnceInv'
<1> DEFINE x == tx[a]
           l == Proj!Locked(a)
           S == Proj!ShownOn(a, x.left)
           v == WithoutOld(a, l, x.left, S)
<1>1. Proj!At(a, "drop") /\ artist' = artist /\ album' = album
  BY DEF Proj!deleteAlbumIfEmpty
<1>2. Proj!Done(a, x, v)
  BY Zenon DEF Proj!deleteAlbumIfEmpty, WithoutOld
<1>3. MadeOnce(l, artist, album) /\ DOMAIN l = WorkFields
  BY <1>1, OnceLocked
<1> HIDE DEF l, S
<1>4. /\ DOMAIN v = WorkFields /\ v.artists = l.artists /\ v.albums = l.albums
      /\ v.held = l.held /\ l.dropped \subseteq v.dropped
  BY <1>3 DEF WithoutOld, WorkFields
<1> HIDE DEF v
<1>5. MadeOnce(v, artist, album)
  BY <1>3, <1>4, OnceStays
<1> QED
  BY <1>1, <1>2, <1>4, <1>5, OnceDone

LEMMA EffectiveMetadataOnce ==
    ASSUME ProjInv, OnceInv, NEW s \in Committers, Proj!effectiveScanMetadata(s)
    PROVE  OnceInv'
<1> DEFINE r == Proj!Seen(s, tx[s].track)
           z == Aim(tx[s], Proj!ApplyMetadataOverrides(tx[s].raw, r.overrides), r.album)
           l == Proj!Locked(s)
<1>1. Proj!At(s, "meta") /\ artist' = artist /\ album' = album /\ s \in ProjActors
  BY DEF Proj!effectiveScanMetadata, Proj!Uncommitted, ProjActors
<1>2. Proj!To(s, z, "artist", l)
  BY Zenon DEF Proj!effectiveScanMetadata, Aim
<1>3. MadeOnce(l, artist, album) /\ DOMAIN tx[s] = TxFields
  BY <1>1, OnceLocked
<1>4. DOMAIN z = TxFields /\ z.saved = tx[s].saved
  BY <1>3 DEF Aim, TxFields
<1> HIDE DEF z, l
<1> QED
  BY <1>1, <1>2, <1>3, <1>4, OnceTo

LEMMA OpenFileOnce ==
    ASSUME ProjInv, OnceInv, NEW s \in Committers, NEW t \in Tracks, Proj!OpenFile(s, t)
    PROVE  OnceInv'
<1> DEFINE x == Opened(tx[s], t, file[t])
           z == [x EXCEPT !.target = file[t], !.previous = None]
<1>1. artist' = artist /\ album' = album /\ s \in ProjActors
  BY DEF Proj!OpenFile, Proj!Uncommitted, ProjActors
<1>2. Proj!To(s, x, "meta", x.work) \/ Proj!To(s, z, "artist", x.work)
  BY Zenon DEF Proj!OpenFile, Opened
<1>3. DOMAIN tx[s] = TxFields
  BY <1>1, TxFacts
<1>4. DOMAIN x = TxFields /\ x.saved = tx[s].saved /\ x.work = tx[s].work
  BY <1>3 DEF Opened, TxFields
<1>5. DOMAIN z = TxFields /\ z.saved = tx[s].saved
  BY <1>4 DEF TxFields
<1>6. MadeOnce(x.work, artist, album)
  BY <1>1, <1>4 DEF OnceInv
<1> HIDE DEF x, z
<1> QED
  BY <1>1, <1>2, <1>4, <1>5, <1>6, OnceTo

\* A file that fails leaves what its savepoint had made.
LEMMA FailsOnce ==
    ASSUME ProjInv, OnceInv, NEW s \in Committers, Proj!Fails(s)
    PROVE  OnceInv'
<1> DEFINE z == [tx[s] EXCEPT !.track = None, !.done = @ \union {tx[s].track}]
<1>1. artist' = artist /\ album' = album /\ s \in ProjActors
  BY DEF Proj!Fails, ProjActors
<1>2. Proj!To(s, z, "next", tx[s].saved)
  BY Zenon DEF Proj!Fails
<1>3. DOMAIN tx[s] = TxFields
  BY <1>1, TxFacts
<1>4. DOMAIN z = TxFields /\ z.saved = tx[s].saved
  BY <1>3 DEF TxFields
<1>5. MadeOnce(tx[s].saved, artist, album)
  BY <1>1 DEF OnceInv
<1> HIDE DEF z
<1> QED
  BY <1>1, <1>2, <1>4, <1>5, OnceTo

LEMMA GivingUpOnce ==
    ASSUME ProjInv, OnceInv, NEW a \in ProjActors, tx' = [tx EXCEPT ![a] = Proj!NoTx],
           artist' = artist, album' = album
    PROVE  OnceInv'
BY OnceLocal, NothingMade, IdleFields

LEMMA LockTrackOnce ==
    ASSUME ProjInv, OnceInv, NEW e \in Editors, Proj!LockTrack(e)
    PROVE  OnceInv'
<1>1. Proj!At(e, "open") /\ artist' = artist /\ album' = album /\ e \in ProjActors
      /\ Proj!To(e, tx[e], "meta", Proj!Locked(e))
  BY DEF Proj!LockTrack, Proj!Uncommitted, ProjActors
<1> QED
  BY <1>1, OnceLocked, OnceTo

LEMMA LockedMetadataOnce ==
    ASSUME ProjInv, OnceInv, NEW e \in Editors, Proj!lockedMetadata(e)
    PROVE  OnceInv'
<1> DEFINE x == tx[e]
           r == row[x.track]
           m == Proj!ApplyMetadataOverrides(r.raw, Proj!UpdateMetadataOverrides(r.overrides, x.patch))
           z == Aim(x, m, r.album)
           l == Proj!Locked(e)
<1>1. Proj!At(e, "meta") /\ artist' = artist /\ album' = album /\ e \in ProjActors
  BY DEF Proj!lockedMetadata, Proj!Uncommitted, ProjActors
<1>2. Proj!To(e, z, "artist", l) \/ tx' = [tx EXCEPT ![e] = Proj!NoTx]
  BY Zenon DEF Proj!lockedMetadata, Aim
<1>3. MadeOnce(l, artist, album) /\ DOMAIN x = TxFields
  BY <1>1, OnceLocked
<1>4. DOMAIN z = TxFields /\ z.saved = tx[e].saved
  BY <1>3 DEF Aim, TxFields
<1> HIDE DEF z, l
<1> QED
  BY <1>1, <1>2, <1>3, <1>4, OnceTo, GivingUpOnce

LEMMA UpdateMetadataOnce ==
    ASSUME ProjInv, OnceInv, NEW e \in Editors, NEW t \in Tracks, NEW p \in Patches, Proj!UpdateMetadata(e, t, p)
    PROVE  OnceInv'
<1> DEFINE z == Asked(tx[e], t, p, row[t].version)
<1>1. artist' = artist /\ album' = album /\ e \in ProjActors
  BY DEF Proj!UpdateMetadata, Proj!Uncommitted, ProjActors
<1>2. Proj!To(e, z, "open", Proj!NoWork)
  BY Zenon DEF Proj!UpdateMetadata, Asked
<1>3. DOMAIN tx[e] = TxFields
  BY <1>1, TxFacts
<1>4. DOMAIN z = TxFields /\ z.saved = tx[e].saved
  BY <1>3 DEF Asked, TxFields
<1> HIDE DEF z
<1> QED
  BY <1>1, <1>2, <1>4, NothingMade, OnceTo

-----------------------------------------------------------------------------
(* What two transactions make, they made under different locks               *)

LEMMA StoredOnce ==
    ASSUME ScansMakeOneOfEach, NEW w, MadeOnce(w, artist, album),
           artist' = artist \union w.artists, album' = AlbumsIn(album, w)
    PROVE  ScansMakeOneOfEach'
<1>1. ASSUME NEW p \in artist', NEW q \in artist', Proj!Twins(p, q)
      PROVE  p.name # q.name
  <2>1. Proj!Twins(q, p) /\ p.by = "scan" /\ q.by = "scan"
    BY <1>1, TwinsBack
  <2>2. CASE q \in w.artists
    BY <1>1, <2>1, <2>2 DEF MadeOnce
  <2>3. CASE p \in w.artists
    BY <1>1, <2>1, <2>3 DEF MadeOnce
  <2>4. CASE p \in artist /\ q \in artist
    BY <1>1, <2>4 DEF ScansMakeOneOfEach, Proj!ScansMakeOneOfEach
  <2> QED
    BY <2>2, <2>3, <2>4
<1>2. ASSUME NEW p \in album', NEW q \in album', Proj!Twins(p, q), p.title = q.title, p.artist = q.artist
      PROVE  FALSE
  <2>1. /\ AlikeAlbums(p, q) /\ AlikeAlbums(q, p) /\ p.by = "scan" /\ q.by = "scan"
        /\ p.id \notin w.dropped /\ q.id \notin w.dropped
        /\ p \in album \union w.albums /\ q \in album \union w.albums
    BY <1>2, TwinsBack DEF AlbumsIn, AlikeAlbums
  <2>2. CASE q \in w.albums
    BY <2>1, <2>2 DEF MadeOnce
  <2>3. CASE p \in w.albums
    BY <2>1, <2>3 DEF MadeOnce
  <2>4. CASE p \in album /\ q \in album
    BY <1>2, <2>4 DEF ScansMakeOneOfEach, Proj!ScansMakeOneOfEach
  <2> QED
    BY <2>1, <2>2, <2>3, <2>4
<1> QED
  BY <1>1, <1>2 DEF ScansMakeOneOfEach, Proj!ScansMakeOneOfEach, Proj!Twins

LEMMA OnceBeside ==
    ASSUME NEW A, NEW L, NEW w, NEW v, MadeOnce(w, A, L), MadeOnce(v, A, L), w.held \intersect v.held = {}
    PROVE  MadeOnce(v, A \union w.artists, AlbumsIn(L, w))
<1>1. ASSUME NEW r \in v.artists, r.by = "scan", NEW p \in (A \union w.artists) \union v.artists,
             Proj!Twins(p, r)
      PROVE  p.name # r.name
  <2>1. p.by = "scan"
    BY <1>1, TwinsBack
  <2>2. CASE p \in w.artists
    BY <1>1, <2>1, <2>2 DEF MadeOnce
  <2> QED
    BY <1>1, <2>2 DEF MadeOnce
<1>2. ASSUME NEW r \in v.albums, r.by = "scan", NEW p \in AlbumsIn(L, w) \union v.albums, AlikeAlbums(p, r)
      PROVE  p.id \in v.dropped \/ r.id \in v.dropped
  <2>1. p.by = "scan" /\ p.title = r.title
    BY <1>2, TwinsBack DEF AlikeAlbums
  <2>2. p \notin w.albums
    BY <1>2, <2>1 DEF MadeOnce
  <2>3. p \in L \union v.albums
    BY <1>2, <2>2 DEF AlbumsIn
  <2> QED
    BY <1>2, <2>3 DEF MadeOnce
<1> QED
  BY <1>1, <1>2 DEF MadeOnce

LEMMA CommitOnce ==
    ASSUME ProjInv, OnceInv, NEW a \in ProjActors, Proj!Store(tx[a].work), tx' = [tx EXCEPT ![a] = Proj!NoTx]
    PROVE  OnceInv'
<1> DEFINE w == tx[a].work
<1>1. MadeOnce(w, artist, album) /\ ScansMakeOneOfEach
  BY DEF OnceInv
<1>2. artist' = artist \union w.artists /\ album' = AlbumsIn(album, w)
  BY DEF Proj!Store, AlbumsIn
<1>3. DOMAIN tx = ProjActors
  BY DEF ProjInv, ProjTypes
<1>4. ScansMakeOneOfEach'
  <2> HIDE DEF w
  <2> QED
    BY <1>1, <1>2, StoredOnce
<1>5. ASSUME NEW b \in ProjActors
      PROVE  MadeOnce(tx'[b].work, artist', album') /\ MadeOnce(tx'[b].saved, artist', album')
  <2>1. CASE b = a
    BY <1>3, <2>1, NothingMade, IdleFields
  <2>2. CASE b # a
    <3>1. tx'[b] = tx[b]
      BY <1>3, <2>2
    <3>2. MadeOnce(tx[b].work, artist, album) /\ MadeOnce(tx[b].saved, artist, album)
      BY DEF OnceInv
    <3>3. w.held \intersect tx[b].work.held = {}
      BY <2>2 DEF ProjInv, Aside, Beside
    <3>4. tx[b].saved.held \subseteq tx[b].work.held
      BY DEF ProjInv, ActorInv, SavedWithin
    <3>5. w.held \intersect tx[b].saved.held = {}
      BY <3>3, <3>4
    <3> HIDE DEF w
    <3>6. MadeOnce(tx[b].work, artist \union w.artists, AlbumsIn(album, w))
          /\ MadeOnce(tx[b].saved, artist \union w.artists, AlbumsIn(album, w))
      BY <1>1, <3>2, <3>3, <3>5, OnceBeside
    <3> QED
      BY <1>2, <3>1, <3>6
  <2> QED
    BY <2>1, <2>2
<1> QED
  BY <1>4, <1>5 DEF OnceInv

LEMMA OutsideOnce ==
    ASSUME OnceInv, artist' \subseteq artist, UNCHANGED <<album, tx>>
    PROVE  OnceInv'
<1>1. ScansMakeOneOfEach'
  BY DEF OnceInv, ScansMakeOneOfEach, Proj!ScansMakeOneOfEach
<1>2. ASSUME NEW a \in ProjActors
      PROVE  MadeOnce(tx'[a].work, artist', album') /\ MadeOnce(tx'[a].saved, artist', album')
  BY OnceStays DEF OnceInv
<1> QED
  BY <1>1, <1>2 DEF OnceInv

LEMMA OnceNext ==
    ASSUME ProjInv, OnceInv, [MCNext]_<<view, projVars, editVars, pageVars>>
    PROVE  OnceInv'
<1>1. CASE UNCHANGED projVars
  BY <1>1, OutsideOnce DEF projVars
<1>2. CASE Proj!Next
  <2>1. ASSUME NEW a \in ProjActors, Proj!Projects(a) PROVE OnceInv'
    BY <2>1, ResolveArtistOnce, ResolveAlbumOnce, WriteTrackOnce, LeaveAlbumOnce, DeleteAlbumOnce
       DEF Proj!Projects
  <2>2. ASSUME NEW s \in Committers, Proj!CommitBatch(s) \/ Proj!AbortBatch(s) PROVE OnceInv'
    <3>1. s \in ProjActors /\ tx' = [tx EXCEPT ![s] = Proj!NoTx]
      BY <2>2 DEF Proj!CommitBatch, Proj!AbortBatch, ProjActors
    <3>2. Proj!Store(tx[s].work) \/ (artist' = artist /\ album' = album)
      BY <2>2 DEF Proj!CommitBatch, Proj!AbortBatch
    <3> QED
      BY <3>1, <3>2, CommitOnce, GivingUpOnce
  <2>3. ASSUME NEW e \in Editors, Proj!CommitEdit(e) \/ Proj!RollBack(e) PROVE OnceInv'
    <3>1. e \in ProjActors /\ tx' = [tx EXCEPT ![e] = Proj!NoTx]
      BY <2>3 DEF Proj!CommitEdit, Proj!RollBack, ProjActors
    <3>2. Proj!Store(tx[e].work) \/ (artist' = artist /\ album' = album)
      BY <2>3 DEF Proj!CommitEdit, Proj!RollBack
    <3> QED
      BY <3>1, <3>2, CommitOnce, GivingUpOnce
  <2>4. ASSUME NEW t \in Tracks,
               Proj!EnsureMetadata(t) \/ \E tags \in Snapshots : Proj!ChangeFile(t, tags)
        PROVE  OnceInv'
    BY <2>4, OutsideOnce DEF Proj!EnsureMetadata, Proj!ChangeFile
  <2>5. ASSUME NEW r \in artist, Proj!DeleteArtist(r) PROVE OnceInv'
    BY <2>5, OutsideOnce DEF Proj!DeleteArtist
  <2> QED
    BY <1>2, <2>1, <2>2, <2>3, <2>4, <2>5, ProjectionSteps, EffectiveMetadataOnce, FailsOnce, OpenFileOnce,
       LockTrackOnce, LockedMetadataOnce, UpdateMetadataOnce
<1>3. UNCHANGED projVars \/ Proj!Next
  BY DEF MCNext
<1> QED
  BY <1>1, <1>2, <1>3

LEMMA OnceStarts == Proj!Init => OnceInv
<1> SUFFICES ASSUME Proj!Init PROVE OnceInv
  OBVIOUS
<1>1. \A p, q \in artist : p = q
  BY DEF Proj!Init
<1>2. \A p, q \in album : p = q
  BY DEF Proj!Init
<1>3. ScansMakeOneOfEach
  BY <1>1, <1>2 DEF ScansMakeOneOfEach, Proj!ScansMakeOneOfEach, Proj!Twins
<1>4. \A a \in ProjActors : tx[a] = Proj!NoTx
  BY ProjectionActors DEF Proj!Init
<1> QED
  BY <1>3, <1>4, NothingMade, IdleFields DEF OnceInv

\* Scans that run at once never make the same artist or the same album of an
\* artist twice, in any of their batches, whatever fails and goes back to its
\* savepoint and whatever administrators edit or delete beside them: a name or a
\* title stays locked (repository.go of adminsources) until what was made under
\* it is committed, for any number of scans.
THEOREM ScansNeverMakeTwins == MCSpec => []ScansMakeOneOfEach
<1> DEFINE I == ProjInv /\ OnceInv
<1>1. MCInit => I
  BY ProjectionStarts, OnceStarts DEF MCInit
<1>2. I /\ [MCNext]_<<view, projVars, editVars, pageVars>> => I'
  BY ProjectionNext, OnceNext
<1>3. I => ScansMakeOneOfEach
  BY DEF OnceInv
<1> HIDE DEF I
<1> QED
  BY <1>1, <1>2, <1>3, PTL DEF MCSpec


-----------------------------------------------------------------------------
(* An edit begins before the bound is reached and commits once.              *)

EditsUnderWay(x) == {e \in Editors : x[e].step # "idle"}
ChangesFit(x, n) == n \in Nat /\ n + Cardinality(EditsUnderWay(x)) <= MaxChanges + Cardinality(Editors)

LEMMA ChangesStep ==
    ASSUME ProjInv, ChangesFit(tx, changes), [MCNext]_<<view, projVars, editVars, pageVars>>
    PROVE  ChangesFit(tx, changes)'
<1> DEFINE Changing(a) == \E v : tx' = [tx EXCEPT ![a] = v]
           Early == changes < MaxChanges /\ (UNCHANGED changes \/ changes' = changes + 1)
           Goes(a) == Changing(a) /\ UNCHANGED changes /\ tx[a].step # "idle"
           n(x) == Cardinality(EditsUnderWay(x))
<1>d. DOMAIN tx = ProjActors /\ changes \in Nat /\ MaxChanges \in Nat
  BY ProjectionAssumption DEF ProjInv, ProjTypes, ChangesFit
<1>n. \A x : IsFiniteSet(EditsUnderWay(x)) /\ n(x) \in Nat /\ n(x) <= Cardinality(Editors) /\ Cardinality(Editors) \in Nat
  BY ProjectionAssumption, FS_Subset, FS_CardinalityType DEF EditsUnderWay
<1>1. CASE Early
  BY <1>1, <1>d, <1>n DEF ChangesFit
<1>2. CASE UNCHANGED changes /\ EditsUnderWay(tx') \subseteq EditsUnderWay(tx)
  <2>1. n(tx') <= n(tx)
    BY <1>2, <1>n, FS_Subset
  <2> QED
    BY <1>2, <1>d, <1>n, <2>1 DEF ChangesFit
<1>3. ASSUME NEW a \in ProjActors, Goes(a) PROVE EditsUnderWay(tx') \subseteq EditsUnderWay(tx)
  BY <1>3, <1>d DEF EditsUnderWay, ProjActors
<1>4. ASSUME NEW a \in ProjActors, Proj!Projects(a) PROVE Goes(a)
  <2>1. \A x, step, work : Proj!To(a, x, step, work) => Changing(a)
    BY DEF Proj!To
  <2>2. \A x, work : Proj!Done(a, x, work) => Changing(a)
    BY <2>1 DEF Proj!Done
  <2>3. Proj!ResolveArtist(a) => Goes(a)
    BY <2>1 DEF Proj!ResolveArtist, Proj!At, Proj!Uncommitted
  <2>4. Proj!ResolveAlbum(a) => Goes(a)
    BY <2>1 DEF Proj!ResolveAlbum, Proj!At, Proj!Uncommitted
  <2>5. Proj!WriteTrack(a) => Goes(a)
    BY <2>1, <2>2 DEF Proj!WriteTrack, Proj!At, Proj!Uncommitted
  <2>6. Proj!LeaveAlbum(a) => Goes(a)
    BY <2>1, <2>2 DEF Proj!LeaveAlbum, Proj!At, Proj!Uncommitted
  <2>7. Proj!deleteAlbumIfEmpty(a) => Goes(a)
    BY <2>2 DEF Proj!deleteAlbumIfEmpty, Proj!At
  <2> QED
    BY <1>4, <2>3, <2>4, <2>5, <2>6, <2>7 DEF Proj!Projects
<1>5. ASSUME NEW a \in ProjActors, Proj!Fails(a) \/ Proj!RollBack(a) PROVE Goes(a) \/ Early
  BY <1>5 DEF Proj!Fails, Proj!RollBack, Proj!Failed, Proj!To
<1>6. ASSUME NEW s \in Committers,
             \/ Proj!effectiveScanMetadata(s) \/ Proj!CommitBatch(s) \/ Proj!AbortBatch(s)
             \/ \E t \in Tracks : Proj!OpenFile(s, t)
      PROVE  Goes(s) \/ Early
  BY <1>6 DEF Proj!effectiveScanMetadata, Proj!At, Proj!To, Proj!Uncommitted,
              Proj!CommitBatch, Proj!Store, Proj!AbortBatch, Proj!OpenFile
<1>7. ASSUME NEW e \in Editors,
             \/ Proj!LockTrack(e) \/ Proj!lockedMetadata(e)
             \/ \E t \in Tracks, patch \in Patches : Proj!UpdateMetadata(e, t, patch)
      PROVE  Goes(e) \/ Early
  BY <1>7 DEF Proj!LockTrack, Proj!lockedMetadata, Proj!UpdateMetadata, Proj!At, Proj!To,
              Proj!Uncommitted
<1>8. ASSUME NEW e \in Editors, Proj!CommitEdit(e) PROVE ChangesFit(tx, changes)'
  <2>1. e \in EditsUnderWay(tx) /\ EditsUnderWay(tx') = EditsUnderWay(tx) \ {e} /\ changes' = changes + 1
    BY <1>8, <1>d DEF Proj!CommitEdit, Proj!At, Proj!Store, Proj!NoTx, EditsUnderWay, ProjActors
  <2>2. n(tx') = n(tx) - 1
    BY <1>n, <2>1, FS_RemoveElement
  <2> QED
    BY <1>d, <1>n, <2>1, <2>2 DEF ChangesFit
<1>9. UNCHANGED projVars \/ Proj!Next
  BY DEF MCNext
<1>10. \/ \E t \in Tracks : Proj!EnsureMetadata(t) \/ \E tags \in Snapshots : Proj!ChangeFile(t, tags)
       \/ \E r \in artist : Proj!DeleteArtist(r)
       \/ UNCHANGED projVars
       => Early \/ UNCHANGED <<tx, changes>>
  BY DEF Proj!EnsureMetadata, Proj!ChangeFile, Proj!DeleteArtist, projVars
<1>11. ASSUME NEW a \in ProjActors, Goes(a) PROVE ChangesFit(tx, changes)'
  BY <1>2, <1>3, <1>11
<1>12. Proj!Actors = ProjActors /\ Committers \subseteq ProjActors /\ Editors \subseteq ProjActors
  BY ProjectionActors DEF ProjActors
<1>13. UNCHANGED <<tx, changes>> => ChangesFit(tx, changes)'
  OBVIOUS
<1> QED
  BY <1>1, <1>4, <1>5, <1>6, <1>7, <1>8, <1>9, <1>10, <1>11, <1>12, <1>13 DEF Proj!Next

(* What the catalogue keeps is of its kind: every version counts the edits   *)
(* of its row, a client is shown no row three times, and only edits that had *)
(* begun commit past the bound.                                              *)
THEOREM CatalogueTyped == MCSpec => []TypesOK
<1>1. MCInit => ChangesFit(tx, changes)
  <2>1. MCInit => changes = 0 /\ tx = [a \in Proj!Actors |-> Proj!NoTx]
    BY DEF MCInit, Proj!Init
  <2>2. MCInit => EditsUnderWay(tx) = {}
    BY <2>1, ProjectionActors DEF EditsUnderWay, Proj!NoTx, ProjActors
  <2>3. Cardinality(Editors) \in Nat /\ Cardinality({}) = 0 /\ MaxChanges \in Nat
    BY FS_EmptySet, FS_CardinalityType, ProjectionAssumption
  <2>4. 0 \in Nat /\ 0 + 0 <= MaxChanges + Cardinality(Editors)
    BY <2>3
  <2> QED
    BY <2>1, <2>2, <2>3, <2>4, Zenon DEF ChangesFit
<1>2. ProjInv /\ ChangesFit(tx, changes) => Proj!TypeOK
  <2>1. \A S : Proj!Cardinality(S) = Cardinality(S)
    BY Zenon DEF Proj!Cardinality, Cardinality
  <2>2. Cardinality(Editors) <= Cardinality(ProjActors) /\ Cardinality(Editors) \in Nat /\ Cardinality(ProjActors) \in Nat
        /\ Cardinality(EditsUnderWay(tx)) \in Nat
    BY ProjectionAssumption, FS_Subset, FS_Union, FS_CardinalityType DEF ProjActors, EditsUnderWay
  <2> QED
    BY <2>1, <2>2, ProjectionActors, ProjectionAssumption
       DEF Proj!TypeOK, ProjInv, ProjTypes, ArtistShaped, ChangesFit
<1>3. EditsInv => Edits!TypeOK
  <2>1. EditTypes => /\ \A s \in Songs : song[s].version \in 1..MaxEdits + 1
                     /\ \A a \in Shelves : sleeve[a].version \in 1..MaxEdits + 1
    BY EditsAssumption DEF EditTypes
  <2>2. EditTypes => \A c \in Admins : edit[c].op \in Edits!Ops /\ edit[c].held \subseteq Edits!Rows
    BY DEF EditTypes, EditRecords
  <2> QED
    BY <2>1, <2>2 DEF EditsInv, EditTypes, Edits!TypeOK, SongRecords, AlbumRecords
<1>4. PagesInv => Pages!TypeOK
  BY DEF PagesInv, WalkInv, WalkRecords, Pages!TypeOK, Filled, ListRows
<1>5. MCInit => ProjInv
  BY ProjectionStarts DEF MCInit
<1>6. ProjInv /\ [MCNext]_<<view, projVars, editVars, pageVars>> => ProjInv'
  BY ProjectionNext
<1>7. ProjInv /\ ChangesFit(tx, changes) /\ [MCNext]_<<view, projVars, editVars, pageVars>> => ChangesFit(tx, changes)'
  BY ChangesStep
<1>8. MCInit => PagesInv
  BY PagesStart DEF MCInit
<1>9. PagesInv /\ [MCNext]_<<view, projVars, editVars, pageVars>> => PagesInv'
  BY PagesNext
<1> QED
  BY <1>1, <1>2, <1>3, <1>4, <1>5, <1>6, <1>7, <1>8, <1>9, EditsInvHolds, PTL DEF MCSpec, TypesOK
=============================================================================
